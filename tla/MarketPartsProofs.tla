---------------------------- MODULE MarketPartsProofs ----------------------------
(***************************************************************************)
(* What MarketLemmas proves of each part holds of the parts as they run in *)
(* MarketParts, on the variables s1, s2, ...: a definition reached through *)
(* the lemmas and the same definition reached through MarketParts are told *)
(* to be one by the lemmas Same..., and the invariant of a behaviour is    *)
(* that of its part.                                                       *)
(***************************************************************************)
EXTENDS MarketParts, Sequences, TLAPS

L == INSTANCE MarketLemmas WITH
    row <- s1, persist <- s2, group <- s3, opened <- s4, auto <- s5,
    kind <- s1, scan <- s2, store <- s3,
    ticker <- s1, quote <- s2, request <- s3, phase <- s4, used <- s5,
    history <- s1, cut <- s2, book <- s3, last <- s4, synced <- s5, failures <- s6,
    now <- s1, acc <- s2, flushed <- s3, filed <- s4, tx <- s5, taken <- s6,
    torn <- s7, faults <- s8,
    calendar <- s2, mode <- s3, ticking <- s4, session <- s5, states <- s6,
    key <- s7, barred <- s8, pending <- s9, draft <- s10, left <- s11,
    gate <- s12, trusted <- s13, losses <- s14, changes <- s15,
    template <- s2, stored <- s3,
    window <- s2, jitter <- s3, baseline <- s4, current <- s5, threshold <- s6,
    state <- s7, tripped <- s8, updates <- s9, trip <- s10, Kinds <- SymbolKinds, Stale <- StaleAge

-----------------------------------------------------------------------------
(* The definitions of the lemmas are those of the parts.                   *)
LEMMA SameOpening ==
  /\ L!Open!OpeningAssumption <=> Open!OpeningAssumption
  /\ L!Open!Init <=> Open!Init
  /\ L!Open!Next <=> Open!Next
  /\ L!Open!OverrunIsBounded <=> Open!OverrunIsBounded
  /\ L!Open!ExecutingIsOwned <=> Open!ExecutingIsOwned
BY DEF Open!OpeningAssumption, Open!Init, Open!Next, Open!OverrunIsBounded,
  Open!ExecutingIsOwned, Open!NoRead, Open!Keys, Open!NoRow, Open!NotBusy,
  Open!PersistReads, Open!PersistCommits, Open!AutoLists, Open!AutoCommits,
  Open!AutoEnds, Open!AutoSkips, Open!AutoFlushes, Open!AutoFails,
  Open!UserCommits, Open!UserFlushes, Open!UserForces, Open!WorkerFinishes,
  Open!WorkerProgresses, Open!Leave, Open!Void, Open!OpenStatuses,
  Open!StatusOf, Open!Found, Open!Rewritten, Open!Current, Open!Wanted,
  Open!Added, Open!Unused, Open!Commit, Open!SetStatus, Open!KeyUsed,
  Open!Refuses, Open!Flush, Open!HasCapacity, Open!Finished, Open!ActiveRows,
  Open!OpenGroups, Open!Active, Open!Committed, Open!IsFiniteSet,
  Open!Cardinality, L!Open!OpeningAssumption, L!Open!Init, L!Open!Next,
  L!Open!OverrunIsBounded, L!Open!ExecutingIsOwned, L!Open!NoRead,
  L!Open!Keys, L!Open!NoRow, L!Open!NotBusy, L!Open!PersistReads,
  L!Open!PersistCommits, L!Open!AutoLists, L!Open!AutoCommits,
  L!Open!AutoEnds, L!Open!AutoSkips, L!Open!AutoFlushes, L!Open!AutoFails,
  L!Open!UserCommits, L!Open!UserFlushes, L!Open!UserForces,
  L!Open!WorkerFinishes, L!Open!WorkerProgresses, L!Open!Leave, L!Open!Void,
  L!Open!OpenStatuses, L!Open!StatusOf, L!Open!Found, L!Open!Rewritten,
  L!Open!Current, L!Open!Wanted, L!Open!Added, L!Open!Unused, L!Open!Commit,
  L!Open!SetStatus, L!Open!KeyUsed, L!Open!Refuses, L!Open!Flush,
  L!Open!HasCapacity, L!Open!Finished, L!Open!ActiveRows, L!Open!OpenGroups,
  L!Open!Active, L!Open!Committed, L!Open!IsFiniteSet, L!Open!Cardinality

LEMMA SameScanner ==
  /\ L!Scan!ScannerAssumption <=> Scan!ScannerAssumption
  /\ L!Scan!Init <=> Scan!Init
  /\ L!Scan!Next <=> Scan!Next
  /\ L!Scan!ScanIsSound <=> Scan!ScanIsSound
BY DEF Scan!ScannerAssumption, Scan!Init, Scan!Next, Scan!ScanIsSound,
  Scan!NoScan, Scan!Shown, Scan!ReadGates, Scan!ReadQuotes,
  Scan!EvaluateNative, Scan!EvaluateReadonly, Scan!CostsUnknown, Scan!Refuse,
  Scan!Store, Scan!Fail, Scan!Directions, Scan!None, Scan!Quotes, Scan!Wanted,
  Scan!Synchronized, Scan!Stats, Scan!NativeRow, Scan!Displayable,
  Scan!EntrySpread, Scan!CloseSpread, Scan!ProjectedPnl, Scan!ExitTarget,
  Scan!Quantity, Scan!Fees, Scan!Best, Scan!Now, Scan!Age, Scan!Apart,
  Scan!Priced, Scan!NotReversed, Scan!SignalGate, Scan!Signal,
  Scan!LiquidityGate, Scan!Mid, Scan!CombineGates, Scan!LotsFor, Scan!BaseFor,
  Scan!PairCost, Scan!AtLeastAsGood, Scan!CeilToStep, Scan!FloorToStep,
  Scan!Rank, L!Scan!ScannerAssumption, L!Scan!Init, L!Scan!Next,
  L!Scan!ScanIsSound, L!Scan!NoScan, L!Scan!Shown, L!Scan!ReadGates,
  L!Scan!ReadQuotes, L!Scan!EvaluateNative, L!Scan!EvaluateReadonly,
  L!Scan!CostsUnknown, L!Scan!Refuse, L!Scan!Store, L!Scan!Fail,
  L!Scan!Directions, L!Scan!None, L!Scan!Quotes, L!Scan!Wanted,
  L!Scan!Synchronized, L!Scan!Stats, L!Scan!NativeRow, L!Scan!Displayable,
  L!Scan!EntrySpread, L!Scan!CloseSpread, L!Scan!ProjectedPnl,
  L!Scan!ExitTarget, L!Scan!Quantity, L!Scan!Fees, L!Scan!Best, L!Scan!Now,
  L!Scan!Age, L!Scan!Apart, L!Scan!Priced, L!Scan!NotReversed,
  L!Scan!SignalGate, L!Scan!Signal, L!Scan!LiquidityGate, L!Scan!Mid,
  L!Scan!CombineGates, L!Scan!LotsFor, L!Scan!BaseFor, L!Scan!PairCost,
  L!Scan!AtLeastAsGood, L!Scan!CeilToStep, L!Scan!FloorToStep, L!Scan!Rank

LEMMA SameQuotes ==
  /\ L!Quote!QuotesAssumption <=> Quote!QuotesAssumption
  /\ L!Quote!Init <=> Quote!Init
  /\ L!Quote!Next <=> Quote!Next
  /\ L!Quote!DecisionsAreFresh <=> Quote!DecisionsAreFresh
BY DEF Quote!QuotesAssumption, Quote!Init, Quote!Next,
  Quote!DecisionsAreFresh, Quote!Legs, Quote!NoPrice, Quote!Threads,
  Quote!NoCall, Quote!Undecided, Quote!Tick, Quote!Message, Quote!Copy,
  Quote!Ask, Quote!Answered, Quote!AskFails, Quote!Decide, Quote!Refresh,
  Quote!GiveUp, Quote!Refreshed, Quote!Distance, Quote!Cap, Quote!Older,
  Quote!NearlyStale, Quote!Put, Quote!Answers, Quote!Synchronized,
  Quote!After, Quote!Stamped, Quote!Gap, Quote!Min, L!Quote!QuotesAssumption,
  L!Quote!Init, L!Quote!Next, L!Quote!DecisionsAreFresh, L!Quote!Legs,
  L!Quote!NoPrice, L!Quote!Threads, L!Quote!NoCall, L!Quote!Undecided,
  L!Quote!Tick, L!Quote!Message, L!Quote!Copy, L!Quote!Ask, L!Quote!Answered,
  L!Quote!AskFails, L!Quote!Decide, L!Quote!Refresh, L!Quote!GiveUp,
  L!Quote!Refreshed, L!Quote!Distance, L!Quote!Cap, L!Quote!Older,
  L!Quote!NearlyStale, L!Quote!Put, L!Quote!Answers, L!Quote!Synchronized,
  L!Quote!After, L!Quote!Stamped, L!Quote!Gap, L!Quote!Min

LEMMA SameBooks ==
  /\ L!Book!BooksAssumption <=> Book!BooksAssumption
  /\ L!Book!Init <=> Book!Init
  /\ L!Book!Next <=> Book!Next
  /\ L!Book!BookIsTrue <=> Book!BookIsTrue
BY DEF Book!BooksAssumption, Book!Init, Book!Next, Book!BookIsTrue, Book!Ids,
  Book!Empty, Book!Event, Book!Invalidate, Book!BookAt, Book!Stale,
  Book!Apply, Book!Resync, Book!ResyncFails, Book!LastOf, Book!vars,
  Book!Follows, Book!Patched, Book!Covers, Book!Previous, Book!First,
  Book!Before, L!Book!BooksAssumption, L!Book!Init, L!Book!Next,
  L!Book!BookIsTrue, L!Book!Ids, L!Book!Empty, L!Book!Event,
  L!Book!Invalidate, L!Book!BookAt, L!Book!Stale, L!Book!Apply, L!Book!Resync,
  L!Book!ResyncFails, L!Book!LastOf, L!Book!vars, L!Book!Follows,
  L!Book!Patched, L!Book!Covers, L!Book!Previous, L!Book!First, L!Book!Before

LEMMA SameHistory ==
  /\ L!History!HistoryAssumption <=> History!HistoryAssumption
  /\ L!History!Init <=> History!Init
  /\ L!History!Next <=> History!Next
  /\ L!History!BucketsAreWhole <=> History!BucketsAreWhole
BY DEF History!HistoryAssumption, History!Init, History!Next,
  History!BucketsAreWhole, History!NoAcc, History!Buckets, History!NoTx,
  History!Tick, History!Record, History!Commit, History!Rollback,
  History!Restart, History!Added, History!Due, History!Written,
  History!LeftBucket, History!BucketOf, History!Begins,
  L!History!HistoryAssumption, L!History!Init, L!History!Next,
  L!History!BucketsAreWhole, L!History!NoAcc, L!History!Buckets,
  L!History!NoTx, L!History!Tick, L!History!Record, L!History!Commit,
  L!History!Rollback, L!History!Restart, L!History!Added,
  L!History!Due, L!History!Written, L!History!LeftBucket, L!History!BucketOf,
  L!History!Begins

(* The breaker's ratios, percentiles and steps, one inside the other.      *)
LEMMA SameBreakerRatios ==
  ASSUME NEW w
  PROVE  /\ L!Breaker!Jitter(w) = Breaker!Jitter(w)
         /\ L!Breaker!Prune(w) = Breaker!Prune(w)
         /\ L!Breaker!Turned(w) <=> Breaker!Turned(w)
<1>1. \A S : L!Breaker!Cardinality(S) = Breaker!Cardinality(S)
  BY DEF L!Breaker!Cardinality, Breaker!Cardinality
<1>2. L!Breaker!Moves(w) = Breaker!Moves(w) /\ L!Breaker!Turns(w) = Breaker!Turns(w)
  BY DEF L!Breaker!Moves, Breaker!Moves, L!Breaker!Turns, Breaker!Turns,
    L!Breaker!Rises, Breaker!Rises
<1>3. L!Breaker!Jitter(w) = Breaker!Jitter(w)
  BY <1>1, <1>2 DEF L!Breaker!Jitter, Breaker!Jitter, L!Breaker!Scale, Breaker!Scale
<1>4. L!Breaker!Prune(w) = Breaker!Prune(w)
  BY DEF L!Breaker!Prune, Breaker!Prune, L!Breaker!Least, Breaker!Least
<1>5. L!Breaker!Turned(w) <=> Breaker!Turned(w)
  BY DEF L!Breaker!Turned, Breaker!Turned
<1>. QED BY <1>3, <1>4, <1>5

LEMMA SameBreakerSamples ==
  ASSUME NEW s, NEW top
  PROVE  /\ L!Breaker!Cardinality(s) = Breaker!Cardinality(s)
         /\ L!Breaker!Largest(s) = Breaker!Largest(s)
         /\ L!Breaker!Sampled(top) = Breaker!Sampled(top)
         /\ L!Breaker!Adapted(s) = Breaker!Adapted(s)
         /\ L!Breaker!Trips(top, s) <=> Breaker!Trips(top, s)
<1>1. \A S : L!Breaker!Cardinality(S) = Breaker!Cardinality(S)
  BY DEF L!Breaker!Cardinality, Breaker!Cardinality
<1>2. \A at : L!Breaker!Sorted(s, at) = Breaker!Sorted(s, at)
  BY <1>1 DEF L!Breaker!Sorted, Breaker!Sorted
<1>3. L!Breaker!Adapted(s) = Breaker!Adapted(s)
  BY <1>2 DEF L!Breaker!Adapted, Breaker!Adapted, L!Breaker!P75, Breaker!P75
<1>4. L!Breaker!Trips(top, s) <=> Breaker!Trips(top, s)
  BY <1>3 DEF L!Breaker!Trips, Breaker!Trips
<1>5. L!Breaker!Largest(s) = Breaker!Largest(s) /\ L!Breaker!Sampled(top) = Breaker!Sampled(top)
  BY DEF L!Breaker!Largest, Breaker!Largest, L!Breaker!Sampled, Breaker!Sampled
<1>. QED BY <1>1, <1>3, <1>4, <1>5

LEMMA SameBreaker ==
  /\ L!Breaker!BreakerAssumption <=> Breaker!BreakerAssumption
  /\ L!Breaker!Init <=> Breaker!Init
  /\ L!Breaker!Next <=> Breaker!Next
  /\ L!Breaker!TripIsWarranted <=> Breaker!TripIsWarranted
<1>1. ASSUME NEW d \in Ways, NEW x \in Spreads PROVE L!Breaker!Update(d, x) <=> Breaker!Update(d, x)
  <2>. DEFINE quotes == Append(s2[d], [at |-> s1, spread |-> x])
              w == Breaker!Prune(quotes)
              seen == [s3 EXCEPT ![d] = Breaker!Jitter(w)]
              top == Breaker!Largest({seen[e] : e \in Ways})
              samples == Breaker!Sampled(top)
              above == {i \in DOMAIN samples : samples[i] * Multiplier >= top}
              Lw == L!Breaker!Prune(quotes)
              Lseen == [s3 EXCEPT ![d] = L!Breaker!Jitter(Lw)]
              Ltop == L!Breaker!Largest({Lseen[e] : e \in Ways})
              Lsamples == L!Breaker!Sampled(Ltop)
              Labove == {i \in DOMAIN Lsamples : Lsamples[i] * Multiplier >= Ltop}
              Step(kept, ratios, ratio, all, trips, adapted, turned, count) ==
                /\ s9 < MaxUpdates /\ s9' = s9 + 1
                /\ s2' = [s2 EXCEPT ![d] = kept] /\ s3' = ratios /\ s5' = ratio /\ s4' = all
                /\ s6' = adapted
                /\ s7' = (IF trips THEN "OPEN" ELSE s7)
                /\ s8' = (IF trips THEN s1 ELSE s8)
                /\ s10' = (IF trips THEN [turned |-> turned, above |-> count, samples |-> Len(all)]
                          ELSE s10)
                /\ UNCHANGED s1
              turnedB == \E e \in Ways : Breaker!Turned(s2'[e]) /\ seen[e] = top
              turnedL == \E e \in Ways : L!Breaker!Turned(s2'[e]) /\ Lseen[e] = Ltop
  <2>1. Breaker!Update(d, x) <=>
          Step(w, seen, top, samples, Breaker!Trips(top, samples), Breaker!Adapted(samples),
               turnedB, Breaker!Cardinality(above))
    BY Zenon DEF Breaker!Update
  <2>2. L!Breaker!Update(d, x) <=>
          Step(Lw, Lseen, Ltop, Lsamples, L!Breaker!Trips(Ltop, Lsamples),
               L!Breaker!Adapted(Lsamples), turnedL, L!Breaker!Cardinality(Labove))
    BY Zenon DEF L!Breaker!Update
  <2>3. Lw = w /\ Lseen = seen
    BY SameBreakerRatios
  <2>4. Ltop = top /\ Lsamples = samples
    BY <2>3, SameBreakerSamples
  <2>5. Labove = above
    BY <2>4
  <2>6. turnedL <=> turnedB
    <3>. HIDE DEF Lseen, seen, Ltop, top
    <3>. QED BY <2>3, <2>4, SameBreakerRatios
  <2>7. /\ L!Breaker!Trips(Ltop, Lsamples) <=> Breaker!Trips(top, samples)
        /\ L!Breaker!Adapted(Lsamples) = Breaker!Adapted(samples)
        /\ L!Breaker!Cardinality(Labove) = Breaker!Cardinality(above)
    <3>. HIDE DEF Ltop, top, Lsamples, samples, Labove, above
    <3>. QED BY <2>4, <2>5, SameBreakerSamples
  <2>. HIDE DEF quotes, w, seen, top, samples, above, Lw, Lseen, Ltop, Lsamples, Labove, turnedB, turnedL
  <2>. QED BY <2>1, <2>2, <2>3, <2>4, <2>6, <2>7
<1>2. L!Breaker!Next <=> Breaker!Next
  BY <1>1 DEF L!Breaker!Next, Breaker!Next, L!Breaker!IsBlocked, Breaker!IsBlocked,
    L!Breaker!ApplyConfig, Breaker!ApplyConfig, L!Breaker!Tick, Breaker!Tick
<1>3. /\ L!Breaker!BreakerAssumption <=> Breaker!BreakerAssumption
      /\ L!Breaker!Init <=> Breaker!Init
      /\ L!Breaker!TripIsWarranted <=> Breaker!TripIsWarranted
  BY DEF L!Breaker!BreakerAssumption, Breaker!BreakerAssumption, L!Breaker!Init, Breaker!Init,
    L!Breaker!NoTrip, Breaker!NoTrip, L!Breaker!TripIsWarranted, Breaker!TripIsWarranted
<1>. QED BY <1>2, <1>3

LEMMA SameGate ==
  /\ L!Gate!GateAssumption <=> Gate!GateAssumption
  /\ L!Gate!Init <=> Gate!Init
  /\ L!Gate!Next <=> Gate!Next
  /\ L!Gate!BlockHolds <=> Gate!BlockHolds
BY DEF Gate!GateAssumption, Gate!Init, Gate!Next, Gate!BlockHolds, Gate!None,
  Gate!Processes, Gate!NoGate, Gate!Actions, Gate!AskSession, Gate!AskCheck,
  Gate!StoreCheck, Gate!PassOrHold, Gate!Sent, Gate!LoadPersistentBlocks,
  Gate!RefreshSide, Gate!StoreRefresh, Gate!Block, Gate!Commit, Gate!Rollback,
  Gate!LoseRedis, Gate!Market, Gate!Tick, Gate!IsFreshAllowed,
  Gate!AllowedSnapshot, Gate!SessionAllows, Gate!Remembered,
  Gate!CheckAnswers, Gate!BeginUpdate, Gate!EndUpdate, Gate!Loaded,
  Gate!Blocked, Gate!Permitted, Gate!CalendarAllows, L!Gate!GateAssumption,
  L!Gate!Init, L!Gate!Next, L!Gate!BlockHolds, L!Gate!None, L!Gate!Processes,
  L!Gate!NoGate, L!Gate!Actions, L!Gate!AskSession, L!Gate!AskCheck,
  L!Gate!StoreCheck, L!Gate!PassOrHold, L!Gate!Sent,
  L!Gate!LoadPersistentBlocks, L!Gate!RefreshSide, L!Gate!StoreRefresh,
  L!Gate!Block, L!Gate!Commit, L!Gate!Rollback, L!Gate!LoseRedis,
  L!Gate!Market, L!Gate!Tick, L!Gate!IsFreshAllowed, L!Gate!AllowedSnapshot,
  L!Gate!SessionAllows, L!Gate!Remembered, L!Gate!CheckAnswers,
  L!Gate!BeginUpdate, L!Gate!EndUpdate, L!Gate!Loaded, L!Gate!Blocked,
  L!Gate!Permitted, L!Gate!CalendarAllows

LEMMA SameScheduleAssumption == L!Schedule!ScheduleAssumption <=> Schedule!ScheduleAssumption
BY DEF Schedule!ScheduleAssumption, Schedule!Windows, Schedule!Days,
  Schedule!Day, Schedule!Length, Schedule!Minute,
  L!Schedule!ScheduleAssumption, L!Schedule!Windows, L!Schedule!Days,
  L!Schedule!Day, L!Schedule!Length, L!Schedule!Minute

LEMMA SamePayload == \A t : L!Schedule!Payload(t) = Schedule!Payload(t)
BY DEF Schedule!Payload, Schedule!Nothing, Schedule!Window, Schedule!Days,
  Schedule!Day, Schedule!Sun, Schedule!At, Schedule!MonThu, Schedule!Fri,
  Schedule!MonFri, Schedule!Minute, L!Schedule!Payload, L!Schedule!Nothing,
  L!Schedule!Window, L!Schedule!Days, L!Schedule!Day, L!Schedule!Sun,
  L!Schedule!At, L!Schedule!MonThu, L!Schedule!Fri, L!Schedule!MonFri,
  L!Schedule!Minute

LEMMA SameCalendarInit == L!Schedule!Init <=> Schedule!Init
BY DEF Schedule!Init, Schedule!Nothing, Schedule!Week, Schedule!Day,
  Schedule!Minute, L!Schedule!Init, L!Schedule!Nothing, L!Schedule!Week,
  L!Schedule!Day, L!Schedule!Minute

LEMMA SameCalendarNext == L!Schedule!Next <=> Schedule!Next
BY DEF Schedule!Next, Schedule!SyncTemplates, Schedule!SelectTemplate,
  Schedule!EditWindows, Schedule!Wait, Schedule!ApplyTemplate,
  Schedule!Moments, Schedule!Inferred, Schedule!Payload, Schedule!Week,
  Schedule!Day, Schedule!Days, Schedule!TimesOfDay, Schedule!Nothing,
  Schedule!Window, Schedule!Sun, Schedule!At, Schedule!MonThu, Schedule!Fri,
  Schedule!MonFri, Schedule!Minute, Schedule!Kinds, L!Schedule!Next,
  L!Schedule!SyncTemplates, L!Schedule!SelectTemplate, L!Schedule!EditWindows,
  L!Schedule!Wait, L!Schedule!ApplyTemplate, L!Schedule!Moments,
  L!Schedule!Inferred, L!Schedule!Payload, L!Schedule!Week, L!Schedule!Day,
  L!Schedule!Days, L!Schedule!TimesOfDay, L!Schedule!Nothing,
  L!Schedule!Window, L!Schedule!Sun, L!Schedule!At, L!Schedule!MonThu,
  L!Schedule!Fri, L!Schedule!MonFri, L!Schedule!Minute, L!Schedule!Kinds

LEMMA SameEffective == L!Schedule!Effective = Schedule!Effective
BY DEF Schedule!Effective, Schedule!Nothing, Schedule!Payload,
  Schedule!Window, Schedule!Days, Schedule!Day, Schedule!Sun, Schedule!At,
  Schedule!MonThu, Schedule!Fri, Schedule!MonFri, Schedule!Minute,
  L!Schedule!Effective, L!Schedule!Nothing, L!Schedule!Payload,
  L!Schedule!Window, L!Schedule!Days, L!Schedule!Day, L!Schedule!Sun,
  L!Schedule!At, L!Schedule!MonThu, L!Schedule!Fri, L!Schedule!MonFri,
  L!Schedule!Minute

LEMMA SameCalendar == L!Schedule!StatusIsTheCalendar <=> Schedule!StatusIsTheCalendar
BY DEF Schedule!StatusIsTheCalendar, Schedule!Effective, Schedule!Status,
  Schedule!Nothing, Schedule!Inside, Schedule!Payload, Schedule!Matches,
  Schedule!Day, Schedule!Week, Schedule!Length, Schedule!Window,
  Schedule!Days, Schedule!Sun, Schedule!At, Schedule!MonThu, Schedule!Fri,
  Schedule!MonFri, Schedule!Spans, Schedule!Minute,
  L!Schedule!StatusIsTheCalendar, L!Schedule!Effective, L!Schedule!Status,
  L!Schedule!Nothing, L!Schedule!Inside, L!Schedule!Payload,
  L!Schedule!Matches, L!Schedule!Day, L!Schedule!Week, L!Schedule!Length,
  L!Schedule!Window, L!Schedule!Days, L!Schedule!Sun, L!Schedule!At,
  L!Schedule!MonThu, L!Schedule!Fri, L!Schedule!MonFri, L!Schedule!Spans,
  L!Schedule!Minute

LEMMA SameStatus == ASSUME NEW t PROVE L!Schedule!Status(t) = Schedule!Status(t)
BY DEF Schedule!Status, Schedule!Effective, Schedule!Nothing,
  Schedule!Matches, Schedule!Payload, Schedule!Spans, Schedule!Window,
  Schedule!Days, Schedule!Day, Schedule!Sun, Schedule!At, Schedule!MonThu,
  Schedule!Fri, Schedule!MonFri, Schedule!Minute, L!Schedule!Status,
  L!Schedule!Effective, L!Schedule!Nothing, L!Schedule!Matches,
  L!Schedule!Payload, L!Schedule!Spans, L!Schedule!Window, L!Schedule!Days,
  L!Schedule!Day, L!Schedule!Sun, L!Schedule!At, L!Schedule!MonThu,
  L!Schedule!Fri, L!Schedule!MonFri, L!Schedule!Minute

LEMMA SameNextOpening == ASSUME NEW W, NEW t PROVE L!Schedule!SecondsToNext(W, t) = Schedule!SecondsToNext(W, t)
BY DEF Schedule!SecondsToNext, Schedule!Spans, Schedule!Day, Schedule!Never,
  Schedule!Minute, L!Schedule!SecondsToNext, L!Schedule!Spans, L!Schedule!Day,
  L!Schedule!Never, L!Schedule!Minute

LEMMA SameSecondsToOpen == ASSUME NEW t PROVE L!Schedule!SecondsToOpen(t) = Schedule!SecondsToOpen(t)
BY SameStatus, SameEffective, SameNextOpening DEF Schedule!SecondsToOpen,
  Schedule!Never, L!Schedule!SecondsToOpen, L!Schedule!Never

LEMMA SameMoments == L!Schedule!Moments = Schedule!Moments
BY DEF Schedule!Moments, Schedule!Week, Schedule!Day, Schedule!Days,
  Schedule!TimesOfDay, Schedule!Minute, Schedule!Kinds, Schedule!Payload,
  Schedule!Nothing, Schedule!Window, Schedule!Sun, Schedule!At,
  Schedule!MonThu, Schedule!Fri, Schedule!MonFri, L!Schedule!Moments,
  L!Schedule!Week, L!Schedule!Day, L!Schedule!Days, L!Schedule!TimesOfDay,
  L!Schedule!Minute, L!Schedule!Kinds, L!Schedule!Payload, L!Schedule!Nothing,
  L!Schedule!Window, L!Schedule!Sun, L!Schedule!At, L!Schedule!MonThu,
  L!Schedule!Fri, L!Schedule!MonFri

LEMMA SameWait == L!Schedule!OpensWhenSaid <=> Schedule!OpensWhenSaid
BY SameStatus, SameSecondsToOpen, SameMoments
DEF Schedule!OpensWhenSaid, L!Schedule!OpensWhenSaid, Schedule!RetrySeconds, L!Schedule!RetrySeconds,
    Schedule!Never, L!Schedule!Never, Schedule!Minute, L!Schedule!Minute, Schedule!Week, L!Schedule!Week,
    Schedule!Day, L!Schedule!Day
-----------------------------------------------------------------------------
(***************************************************************************)
(* A behaviour runs one part; the invariant is that of the part.  The      *)
(* breaker's properties are left to TLC.                                   *)
(***************************************************************************)
PartsInv ==
  /\ part = "opening" => L!OpenInv
  /\ part = "schedule" => L!Schedule!TypeOK
  /\ part = "gate" => L!GateInv
  /\ part = "scan" => L!ScanInv
  /\ part = "history" => L!HistoryInv /\ L!Capped
  /\ part = "book" => L!BookInv
  /\ part = "quotes" => L!QuoteInv
  /\ part = "breaker" => L!BreakerInv

LEMMA PartsInit == Init => PartsInv
<1>. SUFFICES ASSUME Init PROVE PartsInv
  OBVIOUS
<1>1. ASSUME part = "opening" PROVE L!OpenInv
  <2>1. Open!Init
    BY <1>1 DEF Init
  <2>. QED BY <2>1, SameOpening, L!OpenInit, PartsAssumption
<1>2. ASSUME part = "schedule" PROVE L!Schedule!TypeOK
  <2>1. Schedule!Init
    BY <1>2 DEF Init
  <2>. QED BY <2>1, SameCalendarInit, SameScheduleAssumption, L!ScheduleInit, PartsAssumption
<1>3. ASSUME part = "gate" PROVE L!GateInv
  <2>1. Gate!Init
    BY <1>3 DEF Init
  <2>. QED BY <2>1, SameGate, L!GateInit, PartsAssumption
<1>4. ASSUME part = "scan" PROVE L!ScanInv
  <2>1. Scan!Init
    BY <1>4 DEF Init
  <2>. QED BY <2>1, SameScanner, L!ScanInit, PartsAssumption
<1>5. ASSUME part = "history" PROVE L!HistoryInv /\ L!Capped
  <2>1. History!Init
    BY <1>5 DEF Init
  <2>. QED BY <2>1, SameHistory, L!HistoryInit, L!CappedAtStart, PartsAssumption
<1>6. ASSUME part = "book" PROVE L!BookInv
  <2>1. Book!Init
    BY <1>6 DEF Init
  <2>. QED BY <2>1, SameBooks, L!BookInit, PartsAssumption
<1>7. ASSUME part = "quotes" PROVE L!QuoteInv
  <2>1. Quote!Init
    BY <1>7 DEF Init
  <2>. QED BY <2>1, SameQuotes, L!QuoteInit, PartsAssumption
<1>8. ASSUME part = "breaker" PROVE L!BreakerInv
  <2>1. Breaker!Init
    BY <1>8 DEF Init
  <2>. QED BY <2>1, SameBreaker, L!BreakerInit, PartsAssumption
<1>. QED BY <1>1, <1>2, <1>3, <1>4, <1>5, <1>6, <1>7, <1>8 DEF PartsInv

(* A step is a step of the part that runs, or leaves every variable alone. *)
LEMMA PartsStep == PartsInv /\ [Next]_vars => PartsInv'
<1>. SUFFICES ASSUME PartsInv, [Next]_vars PROVE PartsInv'
  OBVIOUS
<1>0. part' = part
  BY DEF Next, vars
<1>1. ASSUME part = "opening" PROVE L!OpenInv'
  <2>1. L!Open!Next \/ UNCHANGED L!Open!vars
    BY <1>1, SameOpening DEF Next, vars, L!Open!vars
  <2>. QED BY <1>1, <2>1, SameOpening, L!OpenStep, PartsAssumption DEF PartsInv
<1>2. ASSUME part = "schedule" PROVE L!Schedule!TypeOK'
  <2>1. L!Schedule!Next \/ UNCHANGED L!Schedule!vars
    BY <1>2, SameCalendarNext DEF Next, vars, L!Schedule!vars
  <2>. QED BY <1>2, <2>1, SameScheduleAssumption, L!ScheduleStep, PartsAssumption DEF PartsInv
<1>3. ASSUME part = "gate" PROVE L!GateInv'
  <2>1. L!Gate!Next \/ UNCHANGED L!Gate!vars
    BY <1>3, SameGate DEF Next, vars, L!Gate!vars
  <2>. QED BY <1>3, <2>1, SameGate, L!GateStep, PartsAssumption DEF PartsInv
<1>4. ASSUME part = "scan" PROVE L!ScanInv'
  <2>1. L!Scan!Next \/ UNCHANGED L!Scan!vars
    BY <1>4, SameScanner DEF Next, vars, L!Scan!vars
  <2>. QED BY <1>4, <2>1, SameScanner, L!ScanStep, PartsAssumption DEF PartsInv
<1>5. ASSUME part = "history" PROVE L!HistoryInv' /\ L!Capped'
  <2>1. L!History!Next \/ UNCHANGED L!History!vars
    BY <1>5, SameHistory DEF Next, vars, L!History!vars
  <2>. QED BY <1>5, <2>1, SameHistory, L!HistoryStep, L!CappedStays, PartsAssumption DEF PartsInv
<1>6. ASSUME part = "book" PROVE L!BookInv'
  <2>1. L!Book!Next \/ UNCHANGED L!Book!vars
    BY <1>6, SameBooks DEF Next, vars, L!Book!vars
  <2>. QED BY <1>6, <2>1, SameBooks, L!BookStep, PartsAssumption DEF PartsInv
<1>7. ASSUME part = "quotes" PROVE L!QuoteInv'
  <2>1. L!Quote!Next \/ UNCHANGED L!Quote!vars
    BY <1>7, SameQuotes DEF Next, vars, L!Quote!vars
  <2>. QED BY <1>7, <2>1, SameQuotes, L!QuoteStep, PartsAssumption DEF PartsInv
<1>8. ASSUME part = "breaker" PROVE L!BreakerInv'
  <2>1. L!Breaker!Next \/ UNCHANGED L!Breaker!vars
    BY <1>8, SameBreaker DEF Next, vars, L!Breaker!vars
  <2>. QED BY <1>8, <2>1, SameBreaker, L!BreakerStep, PartsAssumption DEF PartsInv
<1>. QED BY <1>0, <1>1, <1>2, <1>3, <1>4, <1>5, <1>6, <1>7, <1>8 DEF PartsInv

(* Whatever follows from the invariant of the part that runs is true       *)
(* always.                                                                 *)
THEOREM PartsInvariance == Spec => []PartsInv
<1>1. Init => PartsInv
  BY PartsInit
<1>2. PartsInv /\ [Next]_vars => PartsInv'
  BY PartsStep
<1>. QED BY <1>1, <1>2, PTL DEF Spec

-----------------------------------------------------------------------------
(* The groups opened exceed the limit by no more than one for each user,   *)
(* whatever the interleaving of the requests, the rows and the executor,   *)
(* and a row that executes has a group.                                    *)
THEOREM OverrunBound == Spec => []OverrunIsBounded
<1>1. PartsInv => OverrunIsBounded
  BY SameOpening, L!LimitOfInv DEF PartsInv, OverrunIsBounded, L!OpenInv
<1>. QED BY <1>1, PartsInvariance, PTL

(* A row is shown as executable only when the quotes of one moment earn    *)
(* the profit the settings ask for.                                        *)
THEOREM SoundScans == Spec => []ScanIsSound
<1>1. PartsInv => ScanIsSound
  BY SameScanner DEF PartsInv, ScanIsSound, L!ScanInv
<1>. QED BY <1>1, PartsInvariance, PTL

(* However the updates are cut into events, however many connections are   *)
(* lost, a synchronized book is the exchange's; and a decision rests on    *)
(* quotes that were fresh, however late the messages and answers.          *)
THEOREM TrueMarketData == Spec => []MarketDataIsTrue
<1>1. PartsInv => MarketDataIsTrue
  BY SameBooks, SameQuotes, L!BookTruth, L!FreshOfInv, PartsAssumption DEF PartsInv, MarketDataIsTrue
<1>. QED BY <1>1, PartsInvariance, PTL

(* Every sample of the spread is in the row of its bucket, across          *)
(* rollbacks and restarts, except for the buckets these tore.              *)
THEOREM WholeBuckets == Spec => []BucketsAreWhole
<1>1. PartsInv => BucketsAreWhole
  BY SameHistory, L!HistoryWhole DEF PartsInv, BucketsAreWhole
<1>. QED BY <1>1, PartsInvariance, PTL

(* The calendar's answers are those of its windows, for windows of any     *)
(* days and times; and an order is held as long as its quarantine lasts,   *)
(* whatever the two processes write over each other.                       *)
THEOREM TrueTradability == Spec => []TradableIsTrue
<1>1. PartsInv => TradableIsTrue
  <2>1. ASSUME L!Schedule!TypeOK PROVE Schedule!ScheduleIsTrue
    <3>1. L!Schedule!StatusIsTheCalendar /\ L!Schedule!OpensWhenSaid
      BY <2>1, L!CalendarHolds, L!OpeningHolds, SameScheduleAssumption, PartsAssumption
    <3>. QED BY <3>1, SameCalendar, SameWait DEF Schedule!ScheduleIsTrue
  <2>2. ASSUME L!GateInv PROVE Gate!BlockHolds
    BY <2>2, L!GateHolds, SameGate, PartsAssumption
  <2>. QED BY <2>1, <2>2 DEF PartsInv, TradableIsTrue
<1>. QED BY <1>1, PartsInvariance, PTL

(* However the quotes of the two directions, the settings job and the      *)
(* cooldown interleave, the breaker is open only if a window turned, and   *)
(* its ratio was beyond that of all but a quarter of the samples.          *)
THEOREM WarrantedTrips == Spec => []TripIsWarranted
<1>1. PartsInv => TripIsWarranted
  BY SameBreaker DEF PartsInv, TripIsWarranted, L!BreakerInv
<1>. QED BY <1>1, PartsInvariance, PTL

-----------------------------------------------------------------------------
(* The type invariants of the parts are the same formulas too.             *)
LEMMA SameOpeningTypes == L!Open!TypeOK <=> Open!TypeOK
BY DEF Open!TypeOK, Open!OpenStatuses, Open!Status, Open!Active, Open!NoRow,
  Open!Found, Open!Keys, L!Open!TypeOK, L!Open!OpenStatuses, L!Open!Status,
  L!Open!Active, L!Open!NoRow, L!Open!Found, L!Open!Keys

LEMMA SameBreakerTypes == L!Breaker!TypeOK <=> Breaker!TypeOK
BY DEF Breaker!TypeOK, Breaker!Scale, L!Breaker!TypeOK, L!Breaker!Scale

LEMMA SameGateTypes == L!Gate!TypeOK <=> Gate!TypeOK
BY DEF Gate!TypeOK, Gate!Moment, Gate!None, Gate!Processes, L!Gate!TypeOK,
  L!Gate!Moment, L!Gate!None, L!Gate!Processes

LEMMA SameScanTypes == L!Scan!TypeOK <=> Scan!TypeOK
BY DEF Scan!TypeOK, Scan!Row, Scan!Verdicts, L!Scan!Verdicts, Scan!Directions,
  L!Scan!Directions, Scan!Quotes, Scan!Now, Scan!None, L!Scan!TypeOK,
  L!Scan!Row, L!Scan!Quotes, L!Scan!Now, L!Scan!None

LEMMA SameHistoryTypes == L!History!TypeOK <=> History!TypeOK
BY DEF History!TypeOK, History!Buckets, L!History!TypeOK, L!History!Buckets

LEMMA SameBookTypes == L!Book!TypeOK <=> Book!TypeOK
BY DEF Book!TypeOK, Book!Books, Book!Ids, L!Book!TypeOK, L!Book!Books,
  L!Book!Ids

LEMMA SameQuotesTypes == L!Quote!TypeOK <=> Quote!TypeOK
BY DEF Quote!TypeOK, Quote!Threads, Quote!Price, Quote!Ages, Quote!Cap,
  Quote!Legs, L!Quote!TypeOK, L!Quote!Threads, L!Quote!Price, L!Quote!Ages,
  L!Quote!Cap, L!Quote!Legs

LEMMA SameScheduleTypes ==
  L!Schedule!TypeOK <=> Schedule!TypeOK
BY SamePayload, SameMoments DEF Schedule!TypeOK, L!Schedule!TypeOK,
  Schedule!Nothing, L!Schedule!Nothing, Schedule!Week, L!Schedule!Week,
  Schedule!Day, L!Schedule!Day, Schedule!Minute, L!Schedule!Minute

(* Every part keeps the types of its state, for all constants.      *)
THEOREM PartsTypes == Spec => []TypeOK
<1>1. PartsInv => TypeOK
  <2>. SUFFICES ASSUME PartsInv PROVE TypeOK
    OBVIOUS
  <2>1. ASSUME part = "opening" PROVE Open!TypeOK
    BY <2>1, SameOpeningTypes DEF PartsInv, L!OpenInv
  <2>2. ASSUME part = "breaker" PROVE Breaker!TypeOK
    BY <2>2, SameBreakerTypes DEF PartsInv, L!BreakerInv
  <2>3. ASSUME part = "schedule" PROVE Schedule!TypeOK
    BY <2>3, SameScheduleTypes DEF PartsInv
  <2>4. ASSUME part = "gate" PROVE Gate!TypeOK
    BY <2>4, SameGateTypes DEF PartsInv, L!GateInv
  <2>5. ASSUME part = "scan" PROVE Scan!TypeOK
    BY <2>5, SameScanTypes, L!ScanTyped DEF PartsInv
  <2>6. ASSUME part = "history" PROVE History!TypeOK
    BY <2>6, SameHistoryTypes, SameHistory, L!HistoryTyped, PartsAssumption DEF PartsInv
  <2>7. ASSUME part = "book" PROVE Book!TypeOK
    BY <2>7, SameBookTypes DEF PartsInv, L!BookInv
  <2>8. ASSUME part = "quotes" PROVE Quote!TypeOK
    BY <2>8, SameQuotesTypes DEF PartsInv, L!QuoteInv
  <2>. QED BY <2>1, <2>2, <2>3, <2>4, <2>5, <2>6, <2>7, <2>8 DEF TypeOK
<1>. QED BY <1>1, PartsInvariance, PTL
================================================================================
