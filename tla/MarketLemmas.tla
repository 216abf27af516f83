------------------------------ MODULE MarketLemmas ------------------------------
(***************************************************************************)
(* Proofs about the parts that decide what to trade, each for all values of*)
(* its constants, with the variables under the names the parts give them.  *)
(* MarketPartsProofs puts them together.                                   *)
(***************************************************************************)
EXTENDS Integers, Sequences, FiniteSetTheorems, WellFoundedInduction, TLAPS

CONSTANTS
    Signals, Rows, Users, MaxGroups,
    Kinds, Prices, Levels, MinSamples, MinEdge, MinEntry, MaxClose, MaxAge,
    MaxDiff, Target, Fee,
    Stale, Strict, Delay,
    BookLevels, Sizes, Updates, MaxFailures,
    HistoryTime, Bucket, Interval, MaxSamples, MaxFaults,
    Sides, Modes, Calendars, SessionTTL, StateTTL, Quarantine, MaxTime,
    MaxLosses, MaxChanges,
    Templates, Own,
    Ways, Spreads, Detection, Cooldown, InitialThreshold, Multiplier,
    BaselineSamples, BaselineCap, MaxUpdates

VARIABLES
    row, persist, group, opened, auto,      \* Opening
    kind, scan, store,                      \* Scanner
    ticker, quote, request, phase, used,    \* Quotes
    history, cut, book, last, synced, failures,             \* OrderBooks
    now, acc, flushed, filed, tx, taken, torn, faults,      \* SpreadHistory
    calendar, mode, ticking, session, states, key, barred,  \* Mt5Tradability
    pending, draft, left, gate, trusted, losses, changes,
    template, stored,                                       \* Mt5Schedule
    window, jitter, baseline, current, threshold, state,    \* CircuitBreaker
    tripped, updates, trip

Open  == INSTANCE Opening
Scan  == INSTANCE Scanner
Quote == INSTANCE Quotes
Book  == INSTANCE OrderBooks WITH Levels <- BookLevels
History  == INSTANCE SpreadHistory WITH last <- flushed, row <- filed, MaxTime <- HistoryTime
Gate     == INSTANCE Mt5Tradability WITH row <- barred
Schedule == INSTANCE Mt5Schedule
Breaker  == INSTANCE CircuitBreaker WITH Directions <- Ways, MinSamples <- BaselineSamples

-----------------------------------------------------------------------------
(***************************************************************************)
(* Opening.                                                                *)
(***************************************************************************)
(* Who may hold a group that is flushed and not committed: each user one,  *)
(* and the auto executor the one at hand.                                  *)
FlushedInv ==
  /\ \A r \in Rows : group[r] = "flushed" => auto.phase = "commit" /\ auto.at = r
  /\ auto.phase = "commit" => auto.at \in Rows /\ group[auto.at] = "flushed"
  /\ \A u \in Users : opened[u] = Open!NoRow => group[u] = "none"

(* The groups that count against the limit, or will.                       *)
Live == {k \in Open!Keys : group[k] \in Open!OpenStatuses \cup {"flushed"}}
Bounded == IsFiniteSet(Live) /\ Cardinality(Live) <= MaxGroups + Cardinality(Users)

OpenInv == Open!TypeOK /\ FlushedInv /\ Open!ExecutingIsOwned /\ Bounded

(* Opening counts as the theorems on finite sets do.                       *)
LEMMA SameCounts ==
  ASSUME NEW S
  PROVE  /\ Open!IsFiniteSet(S) <=> IsFiniteSet(S)
         /\ Open!Cardinality(S) = Cardinality(S)
<1>1. Open!IsFiniteSet(S) <=> IsFiniteSet(S)
  BY DEF Open!IsFiniteSet, IsFiniteSet
<1>2. Open!Cardinality(S) = Cardinality(S)
  BY DEF Open!Cardinality, Cardinality
<1>. QED BY <1>1, <1>2

(* There are finitely many users.                                          *)
LEMMA UsersAreFinite ==
  ASSUME Open!OpeningAssumption
  PROVE  IsFiniteSet(Users) /\ Cardinality(Users) \in Nat
BY SameCounts, FS_CardinalityType DEF Open!OpeningAssumption

-----------------------------------------------------------------------------
(* What keeps the parts of the invariant.                                  *)

(* Setting a status leaves the other rows, and the signals, as they are.   *)
LEMMA SetStatusType ==
  ASSUME Open!TypeOK, NEW R, NEW st \in Open!Status
  PROVE  /\ Open!SetStatus(R, st) \in [Rows -> [signal : Signals, status : Open!Status]]
         /\ \A r \in Rows : Open!SetStatus(R, st)[r].status = IF r \in R THEN st ELSE row[r].status
BY DEF Open!TypeOK, Open!SetStatus

(* A row becomes executing only for a group that is opening, and a group   *)
(* that accounts for a row is given up only with the row.                  *)
LEMMA OwnedKeeps ==
  ASSUME Open!ExecutingIsOwned,
         \A r \in Rows : row'[r].status = "executing" =>
             \/ row[r].status = "executing"
             \/ \E k \in Open!Keys : opened'[k] = r /\ group'[k] \in {"opening", "voided"},
         \A k \in Open!Keys : opened[k] \in Rows /\ group[k] \in {"opening", "voided"} =>
             \/ opened'[k] = opened[k] /\ group'[k] \in {"opening", "voided"}
             \/ row'[opened[k]].status # "executing"
  PROVE  Open!ExecutingIsOwned'
BY DEF Open!ExecutingIsOwned, Open!StatusOf

(* A step that makes no group live keeps the bound.                        *)
LEMMA BoundedKeeps ==
  ASSUME Open!OpeningAssumption, Bounded, Live' \subseteq Live
  PROVE  Bounded'
<1>1. IsFiniteSet(Live') /\ Cardinality(Live') <= Cardinality(Live)
  BY FS_Subset DEF Bounded
<1>2. Cardinality(Live') \in Nat /\ Cardinality(Live) \in Nat /\ Cardinality(Users) \in Nat
  BY <1>1, UsersAreFinite, FS_CardinalityType DEF Bounded
<1>. QED BY <1>1, <1>2 DEF Bounded, Open!OpeningAssumption

(* A flush happens below the limit, beside at most one uncommitted group   *)
(* of each other opener.                                                   *)
LEMMA FlushKeepsBound ==
  ASSUME Open!OpeningAssumption, OpenInv, Open!HasCapacity,
         NEW k \in Open!Keys, group[k] # "flushed", k \in Users \/ auto.phase # "commit",
         Live' = Live \cup {k}
  PROVE  Bounded'
<1>. DEFINE F == {j \in Open!Keys : group[j] = "flushed"}
            n == Cardinality(Users)
<1>1. IsFiniteSet(Users) /\ n \in Nat /\ MaxGroups \in Nat
  BY UsersAreFinite DEF Open!OpeningAssumption
<1>2. IsFiniteSet(F) /\ Cardinality(F) <= n /\ Cardinality(F) \in Nat
  <2>1. CASE k \in Users
    <3>1. F \subseteq (Users \ {k}) \cup {auto.at}
      BY <2>1 DEF OpenInv, FlushedInv, Open!Keys
    <3>2. IsFiniteSet(Users \ {k}) /\ Cardinality(Users \ {k}) = n - 1
      BY <1>1, <2>1, FS_RemoveElement
    <3>3. /\ IsFiniteSet((Users \ {k}) \cup {auto.at})
          /\ Cardinality((Users \ {k}) \cup {auto.at}) <= n
      <4>1. Cardinality((Users \ {k}) \cup {auto.at})
              = IF auto.at \in Users \ {k} THEN n - 1 ELSE (n - 1) + 1
        BY <3>2, FS_AddElement
      <4>. QED BY <1>1, <3>2, <4>1, FS_AddElement
    <3>4. IsFiniteSet(F) /\ Cardinality(F) <= Cardinality((Users \ {k}) \cup {auto.at})
      BY <3>1, <3>3, FS_Subset
    <3>5. Cardinality(F) \in Nat /\ Cardinality((Users \ {k}) \cup {auto.at}) \in Nat
      BY <3>3, <3>4, FS_CardinalityType
    <3>. QED BY <1>1, <3>3, <3>4, <3>5
  <2>2. CASE auto.phase # "commit"
    <3>1. F \subseteq Users
      BY <2>2 DEF OpenInv, FlushedInv, Open!Keys
    <3>2. IsFiniteSet(F) /\ Cardinality(F) <= n
      BY <1>1, <3>1, FS_Subset
    <3>. QED BY <3>2, FS_CardinalityType
  <2>. QED BY <2>1, <2>2
<1>3. IsFiniteSet(Open!OpenGroups) /\ Cardinality(Open!OpenGroups) < MaxGroups /\ Cardinality(Open!OpenGroups) \in Nat
  <2>1. Open!OpenGroups \in SUBSET Live
    BY DEF Open!OpenGroups, Open!Committed, Live, Open!Keys
  <2>2. IsFiniteSet(Open!OpenGroups)
    BY <2>1, FS_Subset DEF OpenInv, Bounded
  <2>. QED BY <2>2, SameCounts, FS_CardinalityType DEF Open!HasCapacity
<1>4. Live = Open!OpenGroups \cup F
  BY DEF Live, Open!OpenGroups, Open!Committed, Open!OpenStatuses
<1>. HIDE DEF F, n
<1>5. IsFiniteSet(Live) /\ Cardinality(Live) <= Cardinality(Open!OpenGroups) + Cardinality(F)
  <2>1. Cardinality(Open!OpenGroups \cup F)
          = Cardinality(Open!OpenGroups) + Cardinality(F) - Cardinality(Open!OpenGroups \cap F)
    BY <1>2, <1>3, FS_Union
  <2>2. Cardinality(Open!OpenGroups \cap F) \in Nat
    BY <1>2, <1>3, FS_Intersection, FS_CardinalityType
  <2>3. IsFiniteSet(Live)
    BY <1>2, <1>3, <1>4, FS_Union
  <2>4. \A a, b, c \in Nat : a + b - c <= a + b
    OBVIOUS
  <2>. QED BY <1>2, <1>3, <1>4, <2>1, <2>2, <2>3, <2>4
<1>6. IsFiniteSet(Live') /\ Cardinality(Live') <= Cardinality(Live) + 1 /\ Cardinality(Live) \in Nat
  <2>1. Cardinality(Live) \in Nat
    BY <1>5, FS_CardinalityType
  <2>2. Cardinality(Live \cup {k}) = IF k \in Live THEN Cardinality(Live) ELSE Cardinality(Live) + 1
    BY <1>5, FS_AddElement
  <2>3. IsFiniteSet(Live \cup {k})
    BY <1>5, FS_AddElement
  <2>. QED BY <2>1, <2>2, <2>3
<1>7. Cardinality(Live') \in Nat
  BY <1>6, FS_CardinalityType
<1>8. Cardinality(Live') <= MaxGroups + n
  BY <1>1, <1>2, <1>3, <1>5, <1>6, <1>7
<1>. QED BY <1>6, <1>8 DEF Bounded, n

-----------------------------------------------------------------------------
(* The steps.                                                              *)

(* At the start there is no group and no row.                              *)
LEMMA OpenInit == Open!OpeningAssumption /\ Open!Init => OpenInv
<1>. SUFFICES ASSUME Open!OpeningAssumption, Open!Init PROVE OpenInv
  OBVIOUS
<1>1. Open!TypeOK
  <2>1. row \in [Rows -> [signal : Signals, status : Open!Status]]
    BY DEF Open!Init, Open!Status
  <2>2. persist \in [found : [Signals -> Open!Found], seen : [Rows -> Open!Status], busy : BOOLEAN]
    BY DEF Open!Init, Open!NoRead, Open!Found, Open!Status
  <2>3. auto \in [phase : {"rest", "loop", "commit"}, todo : SUBSET Rows,
                  seen : [Rows -> Open!Status], at : Rows \cup {Open!NoRow}]
    BY DEF Open!Init, Open!NotBusy, Open!Status
  <2>. QED BY <2>1, <2>2, <2>3 DEF Open!Init, Open!TypeOK
<1>2. FlushedInv
  BY DEF Open!Init, FlushedInv, Open!NotBusy, Open!Keys
<1>3. Open!ExecutingIsOwned
  BY DEF Open!Init, Open!ExecutingIsOwned, Open!StatusOf
<1>4. Live = {}
  BY DEF Open!Init, Live, Open!OpenStatuses
<1>5. Bounded
  <2>1. IsFiniteSet({}) /\ Cardinality({}) = 0
    BY FS_EmptySet
  <2>2. Cardinality(Users) \in Nat
    BY UsersAreFinite DEF Open!OpeningAssumption
  <2>. QED BY <1>4, <2>1, <2>2 DEF Bounded, Open!OpeningAssumption
<1>. QED BY <1>1, <1>2, <1>3, <1>5 DEF OpenInv

(* The job that persists a scan writes no row as executing.                *)
LEMMA PersistSteps ==
  ASSUME Open!OpeningAssumption, OpenInv, Open!PersistReads \/ Open!PersistCommits
  PROVE  OpenInv'
<1>0. UNCHANGED <<group, opened, auto>>
  BY DEF Open!PersistReads, Open!PersistCommits
<1>1. FlushedInv' /\ Bounded'
  <2>1. Live' = Live
    BY <1>0 DEF Live
  <2>. QED BY <1>0, <2>1 DEF OpenInv, FlushedInv, Bounded
<1>2. CASE Open!PersistReads
  <2>1. row' = row
    BY <1>2 DEF Open!PersistReads
  <2>2. PICK found \in [Signals -> Open!Found] :
          persist' = [found |-> found, seen |-> [r \in Rows |-> Open!StatusOf(r)], busy |-> TRUE]
    BY <1>2 DEF Open!PersistReads
  <2>3. [r \in Rows |-> Open!StatusOf(r)] \in [Rows -> Open!Status]
    BY DEF Open!StatusOf, OpenInv, Open!TypeOK
  <2>4. persist' \in [found : [Signals -> Open!Found], seen : [Rows -> Open!Status], busy : BOOLEAN]
    BY <2>2, <2>3
  <2>. QED BY <1>0, <1>1, <2>1, <2>4 DEF OpenInv, Open!TypeOK, Open!ExecutingIsOwned, Open!StatusOf
<1>3. CASE Open!PersistCommits
  <2>1. \A s \in Signals :
           /\ (persist.found[s] \in Open!Status \ {"executing"} \/ persist.found[s] = "none")
           /\ Open!Wanted(s) \in Open!Status \ {"executing"}
    <3>. SUFFICES ASSUME NEW s \in Signals
                  PROVE  /\ (persist.found[s] \in Open!Status \ {"executing"} \/ persist.found[s] = "none")
                         /\ Open!Wanted(s) \in Open!Status \ {"executing"}
      OBVIOUS
    <3>1. persist.found[s] \in {"none", "candidate", "executable"}
      BY DEF OpenInv, Open!TypeOK, Open!Found
    <3>. QED BY <3>1 DEF Open!Wanted, Open!Status, Open!Active
  <2>2. \A r \in Rows : /\ row'[r] \in [signal : Signals, status : Open!Status]
                        /\ row'[r].status = "executing" => row[r].status = "executing"
    <3>. SUFFICES ASSUME NEW r \in Rows
                  PROVE  /\ row'[r] \in [signal : Signals, status : Open!Status]
                         /\ row'[r].status = "executing" => row[r].status = "executing"
      OBVIOUS
    <3>1. row[r] \in [signal : Signals, status : Open!Status] /\ row[r].signal \in Signals
      BY DEF OpenInv, Open!TypeOK
    <3>2. \/ row'[r] = [row[r] EXCEPT !.status = Open!Wanted(row[r].signal)]
          \/ /\ row'[r] = [row[r] EXCEPT !.status = persist.found[row[r].signal]]
             /\ persist.found[row[r].signal] # "none"
          \/ row'[r] = row[r]
      BY <1>3 DEF Open!PersistCommits, Open!Added
    <3>3. ASSUME NEW st \in Open!Status \ {"executing"}, row'[r] = [row[r] EXCEPT !.status = st]
          PROVE  /\ row'[r] \in [signal : Signals, status : Open!Status]
                 /\ row'[r].status # "executing"
      BY <3>1, <3>3
    <3>. QED BY <2>1, <3>1, <3>2, <3>3
  <2>3. row' \in [Rows -> [signal : Signals, status : Open!Status]]
    <3>1. DOMAIN row' = Rows /\ row' = [r \in Rows |-> row'[r]]
      BY <1>3 DEF Open!PersistCommits
    <3>. QED BY <2>2, <3>1
  <2>4. persist' \in [found : [Signals -> Open!Found], seen : [Rows -> Open!Status], busy : BOOLEAN]
    BY <1>3 DEF Open!PersistCommits, Open!NoRead, Open!Found, Open!Status
  <2>5. Open!ExecutingIsOwned'
    BY <1>0, <2>2, OwnedKeeps DEF OpenInv
  <2>. QED BY <1>0, <1>1, <2>3, <2>4, <2>5 DEF OpenInv, Open!TypeOK
<1>. QED BY <1>2, <1>3

(* The auto executor, but for its flush and its commit.                    *)
LEMMA AutoSteps ==
  ASSUME Open!OpeningAssumption, OpenInv,
         Open!AutoLists \/ Open!AutoEnds \/ \E r \in Rows : Open!AutoSkips(r) \/ Open!AutoFails(r)
  PROVE  OpenInv'
<1>0. UNCHANGED <<persist, group, opened>>
  BY DEF Open!AutoLists, Open!AutoEnds, Open!AutoSkips, Open!AutoFails
<1>1. Bounded'
  <2>1. Live' = Live
    BY <1>0 DEF Live
  <2>. QED BY <2>1 DEF OpenInv, Bounded
<1>2. FlushedInv'
  <2>1. auto.phase # "commit" /\ auto'.phase # "commit"
    <3>1. CASE Open!AutoLists
      BY <3>1 DEF Open!AutoLists
    <3>2. CASE Open!AutoEnds
      BY <3>2 DEF Open!AutoEnds, Open!NotBusy
    <3>3. ASSUME NEW r \in Rows, Open!AutoSkips(r) \/ Open!AutoFails(r)
          PROVE  auto.phase # "commit" /\ auto'.phase # "commit"
      BY <3>3 DEF Open!AutoSkips, Open!AutoFails, OpenInv, Open!TypeOK
    <3>. QED BY <3>1, <3>2, <3>3
  <2>. QED BY <1>0, <2>1 DEF OpenInv, FlushedInv
<1>3. row' \in [Rows -> [signal : Signals, status : Open!Status]]
      /\ \A r \in Rows : row'[r].status = "executing" => row[r].status = "executing"
  <2>1. ASSUME NEW r \in Rows, NEW st \in {"rejected", "executable"}, row' = Open!SetStatus({r}, st)
        PROVE  /\ row' \in [Rows -> [signal : Signals, status : Open!Status]]
               /\ \A q \in Rows : row'[q].status = "executing" => row[q].status = "executing"
    <3>1. st \in Open!Status /\ st # "executing"
      BY DEF Open!Status, Open!Active
    <3>. QED BY <2>1, <3>1, SetStatusType DEF OpenInv
  <2>2. CASE row' = row
    BY <2>2 DEF OpenInv, Open!TypeOK
  <2>3. \/ row' = row
        \/ \E r \in Rows : row' = Open!SetStatus({r}, "rejected") \/ row' = Open!SetStatus({r}, "executable")
    BY DEF Open!AutoLists, Open!AutoEnds, Open!AutoSkips, Open!AutoFails
  <2>. QED BY <2>1, <2>2, <2>3
<1>4. Open!ExecutingIsOwned'
  BY <1>0, <1>3, OwnedKeeps DEF OpenInv
<1>5. auto' \in [phase : {"rest", "loop", "commit"}, todo : SUBSET Rows,
                 seen : [Rows -> Open!Status], at : Rows \cup {Open!NoRow}]
  <2>1. CASE Open!AutoLists
    <3>1. auto' = [phase |-> "loop", todo |-> {r \in Rows : Open!StatusOf(r) = "executable"},
                   seen |-> [r \in Rows |-> Open!StatusOf(r)], at |-> Open!NoRow]
      BY <2>1 DEF Open!AutoLists
    <3>2. [r \in Rows |-> Open!StatusOf(r)] \in [Rows -> Open!Status]
      BY DEF Open!StatusOf, OpenInv, Open!TypeOK
    <3>. QED BY <3>1, <3>2
  <2>2. CASE Open!AutoEnds
    BY <2>2 DEF Open!AutoEnds, Open!NotBusy, Open!Status
  <2>3. ASSUME NEW r \in Rows, Open!AutoSkips(r)
        PROVE  auto' \in [phase : {"rest", "loop", "commit"}, todo : SUBSET Rows,
                          seen : [Rows -> Open!Status], at : Rows \cup {Open!NoRow}]
    BY <2>3 DEF Open!AutoSkips, OpenInv, Open!TypeOK
  <2>4. ASSUME NEW r \in Rows, Open!AutoFails(r)
        PROVE  auto' \in [phase : {"rest", "loop", "commit"}, todo : SUBSET Rows,
                          seen : [Rows -> Open!Status], at : Rows \cup {Open!NoRow}]
    <3>1. auto' = [auto EXCEPT !.todo = @ \ {r}, !.seen = [q \in Rows |-> row'[q].status]]
      BY <2>4 DEF Open!AutoFails
    <3>2. [q \in Rows |-> row'[q].status] \in [Rows -> Open!Status]
      BY <1>3
    <3>. QED BY <3>1, <3>2 DEF OpenInv, Open!TypeOK
  <2>. QED BY <2>1, <2>2, <2>3, <2>4
<1>. QED BY <1>0, <1>1, <1>2, <1>3, <1>4, <1>5 DEF OpenInv, Open!TypeOK

(* A group that is flushed: by the auto executor, or by a user.            *)
LEMMA FlushSteps ==
  ASSUME Open!OpeningAssumption, OpenInv, NEW k \in Open!Keys, NEW r \in Rows, Open!Flush(k, r),
         UNCHANGED persist, group[k] = "none", Open!HasCapacity,
         row' \in [Rows -> [signal : Signals, status : Open!Status]],
         \A q \in Rows : row'[q].status = "executing" => row[q].status = "executing",
         auto' \in [phase : {"rest", "loop", "commit"}, todo : SUBSET Rows,
                    seen : [Rows -> Open!Status], at : Rows \cup {Open!NoRow}],
         \/ k \in Users /\ auto' = auto
         \/ k = r /\ auto.phase = "loop" /\ auto'.phase = "commit" /\ auto'.at = r
  PROVE  OpenInv'
<1>1. /\ group' = [group EXCEPT ![k] = "flushed"] /\ opened' = [opened EXCEPT ![k] = r]
      /\ DOMAIN group = Open!Keys /\ DOMAIN opened = Open!Keys
  BY DEF Open!Flush, OpenInv, Open!TypeOK
<1>2. Open!TypeOK'
  BY <1>1 DEF OpenInv, Open!TypeOK
<1>3. FlushedInv'
  <2>1. Rows \cap Users = {} /\ Open!NoRow \notin Rows
    BY DEF Open!OpeningAssumption, Open!NoRow
  <2>2. CASE k \in Users /\ auto' = auto
    BY <1>1, <2>1, <2>2 DEF OpenInv, FlushedInv, Open!Keys
  <2>3. CASE k = r /\ auto.phase = "loop" /\ auto'.phase = "commit" /\ auto'.at = r
    BY <1>1, <2>1, <2>3 DEF OpenInv, FlushedInv, Open!Keys
  <2>. QED BY <2>2, <2>3
<1>4. Open!ExecutingIsOwned'
  <2>1. \A j \in Open!Keys : group[j] \in {"opening", "voided"} =>
            opened'[j] = opened[j] /\ group'[j] = group[j]
    BY <1>1
  <2>. QED BY <2>1, OwnedKeeps DEF OpenInv
<1>5. Bounded'
  <2>1. Live' = Live \cup {k}
    BY <1>1 DEF Live
  <2>2. k \in Users \/ auto.phase # "commit"
    OBVIOUS
  <2>. QED BY <2>1, <2>2, FlushKeepsBound
<1>. QED BY <1>2, <1>3, <1>4, <1>5 DEF OpenInv

(* A group that is committed is opening, and its row executing.            *)
LEMMA CommitSteps ==
  ASSUME Open!OpeningAssumption, OpenInv, NEW k \in Open!Keys, Open!Commit(k),
         group[k] = "flushed", UNCHANGED <<persist, opened>>,
         auto' \in [phase : {"rest", "loop", "commit"}, todo : SUBSET Rows,
                    seen : [Rows -> Open!Status], at : Rows \cup {Open!NoRow}],
         \/ k \in Users /\ auto' = auto
         \/ k = auto.at /\ auto.phase = "commit" /\ auto'.phase = "loop"
  PROVE  OpenInv'
<1>1. /\ group' = [group EXCEPT ![k] = "opening"] /\ DOMAIN group = Open!Keys
      /\ row' = Open!SetStatus({opened[k]}, "executing") /\ "executing" \in Open!Status
  BY DEF Open!Commit, OpenInv, Open!TypeOK, Open!Status, Open!Active
<1>2. /\ row' \in [Rows -> [signal : Signals, status : Open!Status]]
      /\ \A r \in Rows : row'[r].status = IF r = opened[k] THEN "executing" ELSE row[r].status
  BY <1>1, SetStatusType DEF OpenInv
<1>3. Open!TypeOK'
  BY <1>1, <1>2 DEF OpenInv, Open!TypeOK, Open!OpenStatuses
<1>4. FlushedInv'
  <2>1. Rows \cap Users = {}
    BY DEF Open!OpeningAssumption
  <2>2. CASE k \in Users /\ auto' = auto
    BY <1>1, <2>1, <2>2 DEF OpenInv, FlushedInv, Open!Keys
  <2>3. CASE k = auto.at /\ auto.phase = "commit" /\ auto'.phase = "loop"
    BY <1>1, <2>1, <2>3 DEF OpenInv, FlushedInv, Open!Keys
  <2>. QED BY <2>2, <2>3
<1>5. Open!ExecutingIsOwned'
  <2>1. \A j \in Open!Keys : group[j] \in {"opening", "voided"} => group'[j] = group[j]
    BY <1>1
  <2>2. opened'[k] = opened[k] /\ group'[k] = "opening"
    BY <1>1
  <2>. QED BY <1>2, <2>1, <2>2, OwnedKeeps DEF OpenInv
<1>6. Bounded'
  <2>1. Live' \subseteq Live
    BY <1>1 DEF Live
  <2>. QED BY <2>1, BoundedKeeps DEF OpenInv
<1>. QED BY <1>3, <1>4, <1>5, <1>6 DEF OpenInv

(* A user opens the current spread: the row is made, and the request is    *)
(* flushed or refused.                                                     *)
LEMMA ForceKeeps ==
  ASSUME Open!OpeningAssumption, OpenInv,
         NEW u \in Users, NEW s \in Signals, Open!UserForces(u, s)
  PROVE  OpenInv'
<1>. DEFINE r == CHOOSE q \in Open!Unused(s) : TRUE
<1>1. /\ opened[u] = Open!NoRow /\ Open!Unused(s) # {} /\ UNCHANGED <<persist, auto>>
      /\ row' = Open!SetStatus({r}, "executable")
      /\ IF Open!HasCapacity THEN Open!Flush(u, r)
         ELSE opened' = [opened EXCEPT ![u] = r] /\ UNCHANGED group
  BY DEF Open!UserForces
<1>2. r \in Rows /\ u \in Open!Keys /\ "executable" \in Open!Status /\ group[u] = "none"
  BY <1>1 DEF Open!Unused, Open!Keys, Open!Status, Open!Active, OpenInv, FlushedInv
<1>. HIDE DEF r
<1>3. /\ row' \in [Rows -> [signal : Signals, status : Open!Status]]
      /\ \A q \in Rows : row'[q].status = "executing" => row[q].status = "executing"
  <2>1. /\ row' \in [Rows -> [signal : Signals, status : Open!Status]]
        /\ \A q \in Rows : row'[q].status = IF q \in {r} THEN "executable" ELSE row[q].status
    BY <1>1, <1>2, SetStatusType DEF OpenInv
  <2>. QED BY <2>1
<1>4. CASE Open!HasCapacity
  <2>1. auto \in [phase : {"rest", "loop", "commit"}, todo : SUBSET Rows,
                  seen : [Rows -> Open!Status], at : Rows \cup {Open!NoRow}]
    BY DEF OpenInv, Open!TypeOK
  <2>2. Open!Flush(u, r) /\ UNCHANGED persist /\ auto' = auto
    BY <1>1, <1>4
  <2>. QED BY <1>2, <1>3, <1>4, <2>1, <2>2, FlushSteps
<1>5. CASE ~Open!HasCapacity
  <2>1. opened' = [opened EXCEPT ![u] = r] /\ group' = group /\ DOMAIN opened = Open!Keys
    BY <1>1, <1>5 DEF OpenInv, Open!TypeOK
  <2>2. Open!TypeOK'
    BY <1>1, <1>2, <1>3, <2>1 DEF OpenInv, Open!TypeOK
  <2>3. FlushedInv'
    BY <1>1, <1>2, <2>1 DEF OpenInv, FlushedInv
  <2>4. Open!ExecutingIsOwned'
    <3>1. \A j \in Open!Keys : group[j] \in {"opening", "voided"} =>
              opened'[j] = opened[j] /\ group'[j] = group[j]
      BY <1>2, <2>1
    <3>. QED BY <1>3, <3>1, OwnedKeeps DEF OpenInv
  <2>5. Live' = Live
    BY <2>1 DEF Live
  <2>. QED BY <2>2, <2>3, <2>4, <2>5 DEF OpenInv, Bounded
<1>. QED BY <1>4, <1>5

(* What becomes of a group that is committed.                              *)
LEMMA GroupSteps ==
  ASSUME Open!OpeningAssumption, OpenInv, NEW k \in Open!Keys,
         Open!WorkerFinishes(k) \/ Open!WorkerProgresses(k) \/ Open!Leave(k) \/ Open!Void(k)
  PROVE  OpenInv'
<1>0. UNCHANGED <<persist, opened, auto>> /\ DOMAIN group = Open!Keys
      /\ {"executed", "rejected", "executing"} \subseteq Open!Status
  BY DEF Open!WorkerFinishes, Open!WorkerProgresses, Open!Leave, Open!Void, OpenInv, Open!TypeOK, Open!Status, Open!Active
<1>1. CASE Open!WorkerProgresses(k)
  <2>1. group' = group /\ group[k] = "opening" /\ row' = Open!SetStatus({opened[k]}, "executing")
    BY <1>1 DEF Open!WorkerProgresses
  <2>2. /\ row' \in [Rows -> [signal : Signals, status : Open!Status]]
        /\ \A r \in Rows : row'[r].status = IF r = opened[k] THEN "executing" ELSE row[r].status
    BY <1>0, <2>1, SetStatusType DEF OpenInv
  <2>3. Open!ExecutingIsOwned'
    BY <1>0, <2>1, <2>2, OwnedKeeps DEF OpenInv
  <2>4. Live' = Live
    BY <2>1 DEF Live
  <2>. QED BY <1>0, <2>1, <2>2, <2>3, <2>4 DEF OpenInv, Open!TypeOK, FlushedInv, Bounded
<1>2. ASSUME NEW g \in {"open", "over", "manual_intervention", "voided"},
             group' = [group EXCEPT ![k] = g], group[k] # "flushed",
             group[k] = "opening" => g = "voided" \/ row' = Open!Finished(k, g),
             row' = row \/ row' = Open!Finished(k, g),
             group[k] \in Open!OpenStatuses
      PROVE  OpenInv'
  <2>1. /\ row' \in [Rows -> [signal : Signals, status : Open!Status]]
        /\ \A r \in Rows : row'[r].status = "executing" => row[r].status = "executing"
        /\ row' = Open!Finished(k, g) /\ opened[k] \in Rows => row'[opened[k]].status # "executing"
    <3>1. CASE row' = Open!Finished(k, g)
      <4>1. CASE g = "open"
        BY <1>0, <3>1, <4>1, SetStatusType DEF Open!Finished, OpenInv
      <4>2. CASE g # "open"
        BY <1>0, <3>1, <4>2, SetStatusType DEF Open!Finished, OpenInv
      <4>. QED BY <4>1, <4>2
    <3>2. CASE row' # Open!Finished(k, g)
      BY <1>2, <3>2 DEF OpenInv, Open!TypeOK
    <3>. QED BY <3>1, <3>2
  <2>2. Open!TypeOK'
    BY <1>0, <1>2, <2>1 DEF OpenInv, Open!TypeOK, Open!OpenStatuses
  <2>3. FlushedInv'
    BY <1>0, <1>2 DEF OpenInv, FlushedInv, Open!OpenStatuses, Open!TypeOK
  <2>4. Open!ExecutingIsOwned'
    <3>1. ASSUME NEW j \in Open!Keys, opened[j] \in Rows, group[j] \in {"opening", "voided"}
          PROVE  \/ opened'[j] = opened[j] /\ group'[j] \in {"opening", "voided"}
                 \/ row'[opened[j]].status # "executing"
      <4>1. CASE j # k
        BY <1>0, <1>2, <3>1, <4>1
      <4>2. CASE j = k
        <5>1. group[k] = "opening"
          BY <1>2, <3>1, <4>2 DEF Open!OpenStatuses
        <5>. QED BY <1>0, <1>2, <2>1, <3>1, <4>2, <5>1
      <4>. QED BY <4>1, <4>2
    <3>. QED BY <2>1, <3>1, OwnedKeeps DEF OpenInv
  <2>5. Bounded'
    <3>1. Live' \subseteq Live
      BY <1>2 DEF Live
    <3>. QED BY <3>1, BoundedKeeps DEF OpenInv
  <2>. QED BY <2>2, <2>3, <2>4, <2>5 DEF OpenInv
<1>3. CASE Open!WorkerFinishes(k)
  BY <1>2, <1>3 DEF Open!WorkerFinishes, Open!OpenStatuses
<1>4. CASE Open!Leave(k)
  BY <1>2, <1>4 DEF Open!Leave, Open!OpenStatuses
<1>5. CASE Open!Void(k)
  BY <1>2, <1>5 DEF Open!Void, Open!OpenStatuses
<1>. QED BY <1>1, <1>3, <1>4, <1>5

(* The four ways a group is flushed or committed.                          *)
LEMMA OpenerSteps ==
  ASSUME Open!OpeningAssumption, OpenInv,
         \/ Open!AutoCommits \/ \E r \in Rows : Open!AutoFlushes(r)
         \/ \E u \in Users : Open!UserCommits(u) \/ \E r \in Rows : Open!UserFlushes(u, r)
  PROVE  OpenInv'
<1>0. auto \in [phase : {"rest", "loop", "commit"}, todo : SUBSET Rows,
                seen : [Rows -> Open!Status], at : Rows \cup {Open!NoRow}]
      /\ row \in [Rows -> [signal : Signals, status : Open!Status]]
  BY DEF OpenInv, Open!TypeOK
<1>1. ASSUME NEW r \in Rows, Open!AutoFlushes(r) PROVE OpenInv'
  <2>1. /\ auto.phase = "loop" /\ group[r] = "none" /\ Open!HasCapacity /\ Open!Flush(r, r)
        /\ auto' = [auto EXCEPT !.todo = @ \ {r}, !.phase = "commit", !.at = r]
        /\ UNCHANGED <<row, persist>>
    BY <1>1 DEF Open!AutoFlushes, Open!KeyUsed, Open!Refuses
  <2>2. auto' \in [phase : {"rest", "loop", "commit"}, todo : SUBSET Rows,
                   seen : [Rows -> Open!Status], at : Rows \cup {Open!NoRow}]
        /\ auto'.phase = "commit" /\ auto'.at = r
    BY <1>0, <2>1
  <2>. QED BY <1>0, <2>1, <2>2, FlushSteps DEF Open!Keys
<1>2. CASE Open!AutoCommits
  <2>1. /\ auto.phase = "commit" /\ Open!Commit(auto.at) /\ UNCHANGED <<persist, opened>>
        /\ auto' = [auto EXCEPT !.phase = "loop", !.at = Open!NoRow,
                                !.seen = [r \in Rows |-> row'[r].status]]
    BY <1>2 DEF Open!AutoCommits
  <2>2. auto.at \in Rows /\ group[auto.at] = "flushed"
    BY <2>1 DEF OpenInv, FlushedInv
  <2>3. [r \in Rows |-> row'[r].status] \in [Rows -> Open!Status]
    <3>1. row' = Open!SetStatus({opened[auto.at]}, "executing") /\ "executing" \in Open!Status
      BY <2>1 DEF Open!Commit, Open!Status, Open!Active
    <3>2. row' \in [Rows -> [signal : Signals, status : Open!Status]]
      BY <3>1, SetStatusType DEF OpenInv
    <3>. QED BY <3>2
  <2>4. auto' \in [phase : {"rest", "loop", "commit"}, todo : SUBSET Rows,
                   seen : [Rows -> Open!Status], at : Rows \cup {Open!NoRow}]
        /\ auto'.phase = "loop"
    BY <1>0, <2>1, <2>3
  <2>. QED BY <2>1, <2>2, <2>4, CommitSteps DEF Open!Keys
<1>3. ASSUME NEW u \in Users, NEW r \in Rows, Open!UserFlushes(u, r) PROVE OpenInv'
  <2>1. /\ opened[u] = Open!NoRow /\ Open!HasCapacity /\ Open!Flush(u, r) /\ UNCHANGED <<row, persist, auto>>
    BY <1>3 DEF Open!UserFlushes, Open!Refuses
  <2>2. group[u] = "none" /\ u \in Open!Keys
    BY <2>1 DEF OpenInv, FlushedInv, Open!Keys
  <2>. QED BY <1>0, <2>1, <2>2, FlushSteps
<1>4. ASSUME NEW u \in Users, Open!UserCommits(u) PROVE OpenInv'
  BY <1>0, <1>4, CommitSteps DEF Open!UserCommits, Open!Keys
<1>. QED BY <1>1, <1>2, <1>3, <1>4

(* No step of the jobs, the users or the worker disturbs the invariant.    *)
LEMMA OpenStep == Open!OpeningAssumption /\ OpenInv /\ [Open!Next]_Open!vars => OpenInv'
<1>. SUFFICES ASSUME Open!OpeningAssumption, OpenInv, [Open!Next]_Open!vars PROVE OpenInv'
  OBVIOUS
<1>1. CASE UNCHANGED Open!vars
  <2>1. Live' = Live
    BY <1>1 DEF Open!vars, Live
  <2>. QED BY <1>1, <2>1 DEF Open!vars, OpenInv, Open!TypeOK, FlushedInv, Open!ExecutingIsOwned, Open!StatusOf, Bounded
<1>2. CASE Open!Next
  BY <1>2, PersistSteps, AutoSteps, OpenerSteps, ForceKeeps, GroupSteps DEF Open!Next
<1>. QED BY <1>1, <1>2

-----------------------------------------------------------------------------
(* The rows, the groups and the jobs keep their types.                     *)
THEOREM OpeningTypes == Open!OpeningAssumption => (Open!Spec => []Open!TypeOK)
<1>. SUFFICES ASSUME Open!OpeningAssumption PROVE Open!Spec => []Open!TypeOK
  OBVIOUS
<1>1. Open!Init => OpenInv
  BY OpenInit
<1>2. OpenInv /\ [Open!Next]_Open!vars => OpenInv'
  BY OpenStep
<1>3. OpenInv => Open!TypeOK
  BY DEF OpenInv
<1>. QED BY <1>1, <1>2, <1>3, PTL DEF Open!Spec

(* The invariant bounds the groups by the limit and the users beside it.   *)
LEMMA LimitOfInv == OpenInv => Open!OverrunIsBounded
BY SameCounts DEF OpenInv, Bounded, Live, Open!OverrunIsBounded

(* The limit on open groups is overrun by no more groups than users open,  *)
(* though the lock covers the count and not the commit                     *)
(* (open_capacity_check).                                                  *)
THEOREM LimitHoldsButForUsers ==
  Open!OpeningAssumption => (Open!Spec => []Open!OverrunIsBounded)
<1>. SUFFICES ASSUME Open!OpeningAssumption PROVE Open!Spec => []Open!OverrunIsBounded
  OBVIOUS
<1>1. Open!Init => OpenInv
  BY OpenInit
<1>2. OpenInv /\ [Open!Next]_Open!vars => OpenInv'
  BY OpenStep
<1>3. OpenInv => Open!OverrunIsBounded
  BY LimitOfInv
<1>. QED BY <1>1, <1>2, <1>3, PTL DEF Open!Spec

(* An executing row, which no job touches, has a group that is opening, or *)
(* was voided while it was opening.                                        *)
THEOREM ExecutingRowsAreOwned ==
  Open!OpeningAssumption => (Open!Spec => []Open!ExecutingIsOwned)
<1>. SUFFICES ASSUME Open!OpeningAssumption PROVE Open!Spec => []Open!ExecutingIsOwned
  OBVIOUS
<1>1. Open!Init => OpenInv
  BY OpenInit
<1>2. OpenInv /\ [Open!Next]_Open!vars => OpenInv'
  BY OpenStep
<1>3. OpenInv => Open!ExecutingIsOwned
  BY DEF OpenInv
<1>. QED BY <1>1, <1>2, <1>3, PTL DEF Open!Spec

-----------------------------------------------------------------------------
(***************************************************************************)
(* Pricing and Scanner.                                                    *)
(***************************************************************************)
NumericQuote == [bid : Int, ask : Int, at : Int, depth : Int]

-----------------------------------------------------------------------------
(* Pricing.                                                                *)

(* With quotes that are not reversed the two directions never both earn    *)
(* something when they are opened, ...                                     *)
THEOREM OneWayPays ==
  ASSUME NEW a \in NumericQuote, NEW b \in NumericQuote, Scan!NotReversed(a, b)
  PROVE  Scan!EntrySpread("long_leg_a", a, b) + Scan!EntrySpread("long_leg_b", a, b) <= 0
BY DEF NumericQuote, Scan!NotReversed, Scan!EntrySpread

(* ... and a hedge that is opened and closed at the same quotes never pays *)
(* (spread_math.py: spreads_for_direction).                                *)
THEOREM RoundTripCosts ==
  ASSUME NEW a \in NumericQuote, NEW b \in NumericQuote, Scan!NotReversed(a, b), NEW d \in Scan!Directions
  PROVE  Scan!SpreadCost(d, a, b) >= 0
BY DEF NumericQuote, Scan!NotReversed, Scan!EntrySpread, Scan!CloseSpread, Scan!SpreadCost, Scan!Directions

(* Spreads of numbers are numbers.                                         *)
LEMMA SpreadsAreNumbers ==
  ASSUME NEW a \in NumericQuote, NEW b \in NumericQuote, NEW d \in Scan!Directions
  PROVE  Scan!EntrySpread(d, a, b) \in Int /\ Scan!CloseSpread(d, a, b) \in Int
BY DEF NumericQuote, Scan!EntrySpread, Scan!CloseSpread, Scan!Directions

(* Rounding to a step: no more, or no less, than the value.                *)
LEMMA FloorIsBelow ==
  ASSUME NEW v \in Nat, NEW s \in Nat, s > 0
  PROVE  Scan!FloorToStep(v, s) \in Nat /\ Scan!FloorToStep(v, s) <= v
<1>1. v \div s \in Nat /\ (v \div s) * s + (v % s) = v /\ (v % s) \in Nat
  OBVIOUS
<1>2. (v \div s) * s \in Nat
  BY <1>1
<1>. QED BY <1>1, <1>2 DEF Scan!FloorToStep

(* ... and rounding up gives no less.                                      *)
LEMMA CeilIsAbove ==
  ASSUME NEW v \in Nat, NEW s \in Nat, s > 0
  PROVE  Scan!CeilToStep(v, s) \in Nat /\ v <= Scan!CeilToStep(v, s)
<1>. DEFINE w == v + s - 1
<1>1. w \in Nat
  OBVIOUS
<1>2. w \div s \in Nat /\ (w \div s) * s + (w % s) = w /\ (w % s) \in 0 .. (s - 1)
  BY <1>1
<1>3. (w \div s) * s \in Nat
  BY <1>2
<1>. HIDE DEF w
<1>4. (w \div s) * s >= w - (s - 1)
  BY <1>1, <1>2, <1>3
<1>. QED BY <1>3, <1>4 DEF Scan!CeilToStep, w

(* A size in lots is never below the smallest volume, and one above it is  *)
(* worth no more than the target (calculate_position_sizing).              *)
THEOREM LotsWithinTarget ==
  ASSUME NEW target \in Nat, NEW price \in Nat, price > 0,
         NEW lotMin \in Nat, NEW lotStep \in Nat, lotStep > 0
  PROVE  /\ Scan!LotsFor(target, price, lotMin, lotStep) \in Nat
         /\ Scan!LotsFor(target, price, lotMin, lotStep) >= lotMin
         /\ Scan!LotsFor(target, price, lotMin, lotStep) > Scan!CeilToStep(lotMin, lotStep) =>
               Scan!LotsFor(target, price, lotMin, lotStep) * price <= target
<1>. DEFINE minimum == Scan!CeilToStep(lotMin, lotStep)
            requested == target \div price
            floored == Scan!FloorToStep(requested, lotStep)
<1>1. minimum \in Nat /\ minimum >= lotMin
  BY CeilIsAbove
<1>2. requested \in Nat /\ requested * price <= target
  <2>1. requested \in Nat /\ requested * price + (target % price) = target /\ (target % price) \in Nat
    OBVIOUS
  <2>2. requested * price \in Nat
    BY <2>1
  <2>. QED BY <2>1, <2>2
<1>3. floored \in Nat /\ floored <= requested
  BY <1>2, FloorIsBelow
<1>4. floored * price <= target
  <2>. HIDE DEF floored, requested
  <2>. QED BY <1>2, <1>3
<1>5. Scan!LotsFor(target, price, lotMin, lotStep) \in {minimum, floored}
  BY DEF Scan!LotsFor
<1>6. Scan!LotsFor(target, price, lotMin, lotStep) >= minimum
  BY <1>1, <1>3 DEF Scan!LotsFor
<1>. HIDE DEF minimum, floored, requested
<1>. QED BY <1>1, <1>3, <1>4, <1>5, <1>6 DEF minimum

(* The smallest size of a leg that is not MT5 holds as well.               *)
LEMMA BaseIsNumber ==
  ASSUME NEW target \in Nat, NEW price \in Nat, price > 0, NEW minimum \in Nat
  PROVE  Scan!BaseFor(target, price, minimum) \in Nat
<1>. DEFINE step == IF minimum > 0 THEN minimum ELSE 1
            floored == Scan!FloorToStep(target \div price, step)
<1>1. step \in Nat /\ step > 0 /\ target \div price \in Nat
  OBVIOUS
<1>2. floored \in Nat /\ Scan!CeilToStep(minimum, step) \in Nat
  BY <1>1, FloorIsBelow, CeilIsAbove
<1>. QED BY <1>2 DEF Scan!BaseFor

(* A projected result is a number.                                         *)
LEMMA PnlIsNumber ==
  ASSUME NEW entry \in Int, NEW close \in Int, NEW quantity \in Int, NEW fees \in Int
  PROVE  Scan!ProjectedPnl(entry, close, quantity, fees) \in Int
<1>. DEFINE qty == IF quantity > 0 THEN quantity ELSE 0
<1>1. qty \in Int /\ entry - close \in Int
  OBVIOUS
<1>2. (entry - close) * qty \in Int
  BY <1>1
<1>. QED BY <1>2 DEF Scan!ProjectedPnl

(* The costs of a pair are a number.                                       *)
LEMMA CostIsNumber ==
  ASSUME NEW notional \in Int, NEW fee \in Int
  PROVE  Scan!PairCost(notional, fee, fee, fee, fee) \in Int
<1>. DEFINE value == IF notional > 0 THEN notional ELSE 0
<1>1. value * fee \in Int
  OBVIOUS
<1>. QED BY <1>1 DEF Scan!PairCost

-----------------------------------------------------------------------------
(* Scanner.                                                                *)

ScanType ==
    [phase : {"idle", "gated", "quoted", "rows", "failed"},
     gate  : [Scan!Directions -> {"pass", "rejected"}],
     a : Scan!Quotes \cup {Scan!None}, b : Scan!Quotes \cup {Scan!None},
     rows  : {<< >>} \cup [Scan!Directions -> Scan!Row]]

(* What a scan hands to the store is sound already; before it is through   *)
(* there are no rows.                                                      *)
RowsAreSound ==
    scan.rows # << >> =>
        /\ \A d, e \in Scan!Directions :
               scan.rows[d].status = "executable" /\ scan.rows[e].status = "executable" => d = e
        /\ \A d \in Scan!Directions : scan.rows[d].status = "executable" => kind # "readonly"

StoreType == store \in [row : [Scan!Directions -> Scan!Verdicts \cup {"none"}], best : Scan!Verdicts \cup {"none"}]

ScanInv == kind \in Kinds /\ scan \in ScanType /\ StoreType /\ RowsAreSound /\ Scan!ScanIsSound

(* A quote of the scan, or none, has prices that are numbers.              *)
LEMMA QuotesAreNumbers ==
  ASSUME Scan!ScannerAssumption, NEW q \in Scan!Quotes \cup {Scan!None}
  PROVE  q \in NumericQuote /\ q.bid \in Nat /\ q.ask \in Nat
<1>1. CASE q = Scan!None
  BY <1>1 DEF Scan!None, NumericQuote
<1>2. CASE q \in Scan!Quotes
  <2>1. 0 .. Scan!Now \subseteq Int /\ Prices \subseteq Nat /\ {0, Target} \subseteq Int
    BY DEF Scan!ScannerAssumption, Scan!Now
  <2>2. q.bid \in Prices /\ q.ask \in Prices /\ q.at \in 0 .. Scan!Now /\ q.depth \in {0, Target}
    BY <1>2 DEF Scan!Quotes
  <2>3. q = [bid |-> q.bid, ask |-> q.ask, at |-> q.at, depth |-> q.depth]
    BY <1>2 DEF Scan!Quotes
  <2>4. q.bid \in Nat /\ q.ask \in Nat /\ q.at \in Int /\ q.depth \in Int
    BY <2>1, <2>2
  <2>. QED BY <2>3, <2>4 DEF NumericQuote
<1>. QED BY <1>1, <1>2

(* The mid of a real quote is positive.                                    *)
LEMMA MidIsPositive ==
  ASSUME NEW b \in NumericQuote, b.bid \in Nat, b.ask \in Nat, b.bid > 0, b.ask > 0
  PROVE  Scan!Mid(b) \in Nat /\ Scan!Mid(b) > 0
<1>. DEFINE sum == b.bid + b.ask
<1>1. sum \in Nat /\ sum >= 2
  OBVIOUS
<1>. HIDE DEF sum
<1>2. sum \div 2 \in Nat /\ sum \div 2 > 0
  BY <1>1
<1>. QED BY <1>2 DEF Scan!Mid, sum

(* The size and the fees that follow from a quote are numbers.             *)
LEMMA SizeIsNumber ==
  ASSUME Scan!ScannerAssumption, NEW b \in NumericQuote, b.bid \in Nat, b.ask \in Nat, b.bid > 0, b.ask > 0
  PROVE  Scan!Quantity(b) \in Nat /\ Scan!Fees(b) \in Int
<1>1. Scan!Mid(b) \in Nat /\ Scan!Mid(b) > 0 /\ Target \in Nat /\ Fee \in Nat
  BY MidIsPositive DEF Scan!ScannerAssumption
<1>2. Scan!Quantity(b) \in Nat
  <2>1. Scan!LotsFor(Target, Scan!Mid(b), 1, 1) \in Nat
    <3>1. 1 \in Nat /\ 1 > 0
      OBVIOUS
    <3>. QED BY <1>1, <3>1, LotsWithinTarget, Zenon
  <2>2. Scan!BaseFor(Target, Scan!Mid(b), 1) \in Nat
    BY <1>1, BaseIsNumber
  <2>. QED BY <2>1, <2>2 DEF Scan!Quantity
<1>3. Scan!Mid(b) * Scan!Quantity(b) \in Int
  BY <1>1, <1>2
<1>. QED BY <1>1, <1>2, <1>3, CostIsNumber DEF Scan!Fees

(* The target of the exit is a number.                                     *)
LEMMA ExitIsNumber ==
  ASSUME Scan!ScannerAssumption, NEW exit \in {0}
  PROVE  Scan!ExitTarget(MaxClose, exit) \in Int
BY DEF Scan!ScannerAssumption, Scan!ExitTarget

(* A row of a scan is well typed, whatever its verdict.                    *)
LEMMA RowIsTyped ==
  ASSUME Scan!ScannerAssumption, NEW a \in NumericQuote, NEW b \in NumericQuote, NEW d \in Scan!Directions,
         b.bid \in Nat, b.ask \in Nat, b.bid > 0, b.ask > 0, NEW exit \in {0},
         NEW status \in Scan!Verdicts
  PROVE  [status |-> status, entry |-> Scan!EntrySpread(d, a, b), close |-> Scan!CloseSpread(d, a, b),
          net |-> Scan!ProjectedPnl(Scan!EntrySpread(d, a, b), Scan!ExitTarget(MaxClose, exit),
                               Scan!Quantity(b), Scan!Fees(b))] \in Scan!Row
<1>1. Scan!EntrySpread(d, a, b) \in Int /\ Scan!CloseSpread(d, a, b) \in Int
  BY SpreadsAreNumbers
<1>2. Scan!ProjectedPnl(Scan!EntrySpread(d, a, b), Scan!ExitTarget(MaxClose, exit), Scan!Quantity(b), Scan!Fees(b)) \in Int
  <2>1. Scan!Quantity(b) \in Int /\ Scan!Fees(b) \in Int
    BY SizeIsNumber
  <2>2. Scan!ExitTarget(MaxClose, exit) \in Int
    BY ExitIsNumber
  <2>. QED BY <1>1, <2>1, <2>2, PnlIsNumber
<1>. QED BY <1>1, <1>2 DEF Scan!Row

(* Gates combine to one of the three verdicts.                             *)
LEMMA CombinedIsVerdict ==
  ASSUME NEW s, NEW l, NEW m
  PROVE  Scan!CombineGates(s, l, m) \in Scan!Verdicts
BY DEF Scan!CombineGates, Scan!Verdicts

(* A direction is executable only if it earns more than a guard that is    *)
(* not negative (evaluate_entry_signal, _combine_gates).                   *)
LEMMA ExecutableEarns ==
  ASSUME Scan!ScannerAssumption, NEW a \in NumericQuote, NEW b \in NumericQuote, NEW d \in Scan!Directions,
         NEW stats \in Scan!Stats, Scan!NativeRow(d, a, b, stats).status = "executable"
  PROVE  Scan!EntrySpread(d, a, b) > 0
<1>. DEFINE entry == Scan!EntrySpread(d, a, b)
            signal == Scan!SignalGate(Scan!Signal(stats, entry, MinSamples, MinEdge), entry, MinEntry)
<1>1. Scan!CombineGates(signal, Scan!LiquidityGate(signal, Scan!Mid(b) * Scan!Quantity(b), a.depth), scan.gate[d]) = "executable"
  BY DEF Scan!NativeRow
<1>2. signal = "executable"
  <2>1. \A s, l, m : Scan!CombineGates(s, l, m) = "executable" => s # "rejected" /\ s # "candidate"
    BY DEF Scan!CombineGates
  <2>2. signal # "rejected" /\ signal # "candidate"
    BY <1>1, <2>1
  <2>3. \A e : \A s \in Scan!Verdicts : Scan!SignalGate(s, e, MinEntry) \in Scan!Verdicts
    BY DEF Scan!SignalGate, Scan!Verdicts
  <2>4. Scan!Signal(stats, entry, MinSamples, MinEdge) \in Scan!Verdicts
    BY DEF Scan!Signal, Scan!Verdicts
  <2>. QED BY <2>2, <2>3, <2>4 DEF Scan!Verdicts
<1>3. Scan!Signal(stats, entry, MinSamples, MinEdge) = "executable"
  BY <1>2 DEF Scan!SignalGate
<1>4. ~(entry <= stats.guard)
  BY <1>3 DEF Scan!Signal
<1>5. stats.guard \in Nat /\ entry \in Int
  BY SpreadsAreNumbers DEF Scan!Stats, Scan!ScannerAssumption
<1>. QED BY <1>4, <1>5

(* The rows of a scan of two quotes: typed, and at most one executable.    *)
LEMMA NativeIsSound ==
  ASSUME Scan!ScannerAssumption, NEW a \in Scan!Quotes \cup {Scan!None}, NEW b \in Scan!Quotes \cup {Scan!None},
         Scan!Synchronized(a, b), NEW stats \in [Scan!Directions -> Scan!Stats]
  PROVE  /\ [d \in Scan!Directions |-> Scan!NativeRow(d, a, b, stats[d])] \in [Scan!Directions -> Scan!Row]
         /\ \A d, e \in Scan!Directions :
               Scan!NativeRow(d, a, b, stats[d]).status = "executable"
               /\ Scan!NativeRow(e, a, b, stats[e]).status = "executable" => d = e
<1>1. a \in NumericQuote /\ b \in NumericQuote /\ b.bid \in Nat /\ b.ask \in Nat /\ b.bid > 0 /\ b.ask > 0
  BY QuotesAreNumbers DEF Scan!Synchronized, Scan!Priced
<1>2. ASSUME NEW d \in Scan!Directions PROVE Scan!NativeRow(d, a, b, stats[d]) \in Scan!Row
  <2>1. stats[d].exit \in {0}
    BY DEF Scan!Stats
  <2>. QED BY <1>1, <2>1, RowIsTyped, CombinedIsVerdict DEF Scan!NativeRow
<1>3. ASSUME NEW d \in Scan!Directions, NEW e \in Scan!Directions,
             Scan!NativeRow(d, a, b, stats[d]).status = "executable",
             Scan!NativeRow(e, a, b, stats[e]).status = "executable"
      PROVE  d = e
  <2>1. Scan!EntrySpread(d, a, b) > 0 /\ Scan!EntrySpread(e, a, b) > 0
    BY <1>1, <1>3, ExecutableEarns
  <2>2. Scan!EntrySpread("long_leg_a", a, b) + Scan!EntrySpread("long_leg_b", a, b) <= 0
    BY <1>1, OneWayPays DEF Scan!Synchronized
  <2>3. \A x \in Scan!Directions : Scan!EntrySpread(x, a, b) \in Int
    BY <1>1, SpreadsAreNumbers
  <2>. QED BY <2>1, <2>2, <2>3 DEF Scan!Directions
<1>. QED BY <1>2, <1>3

(* The row shown for the symbol is executable if one of its directions is. *)
LEMMA BestIsBest ==
  ASSUME NEW rows \in [Scan!Directions -> Scan!Row]
  PROVE  /\ Scan!Best(rows) \in Scan!Directions
         /\ rows[Scan!Best(rows)].status = "executable"
               <=> \E d \in Scan!Directions : rows[d].status = "executable"
<1>1. \E d \in Scan!Directions : \A e \in Scan!Directions : Scan!AtLeastAsGood(rows[d], rows[e])
  <2>1. \A d \in Scan!Directions : Scan!Rank(rows[d].status) \in Int /\ rows[d].net \in Int
    BY DEF Scan!Rank, Scan!Row
  <2>2. \A d, e \in Scan!Directions : Scan!AtLeastAsGood(rows[d], rows[e]) \/ Scan!AtLeastAsGood(rows[e], rows[d])
    BY <2>1 DEF Scan!AtLeastAsGood
  <2>. QED BY <2>2 DEF Scan!Directions
<1>2. Scan!Best(rows) \in Scan!Directions /\ \A e \in Scan!Directions : Scan!AtLeastAsGood(rows[Scan!Best(rows)], rows[e])
  BY <1>1 DEF Scan!Best
<1>3. ASSUME NEW d \in Scan!Directions, rows[d].status = "executable"
      PROVE  rows[Scan!Best(rows)].status = "executable"
  <2>. DEFINE chosen == rows[Scan!Best(rows)].status
  <2>1. Scan!AtLeastAsGood(rows[Scan!Best(rows)], rows[d])
    BY <1>2
  <2>2. Scan!Rank(chosen) >= 3
    BY <1>3, <2>1 DEF Scan!AtLeastAsGood, Scan!Rank
  <2>. QED BY <2>2 DEF Scan!Rank
<1>. QED BY <1>2, <1>3

(* At the start nothing has been scanned.                                  *)
LEMMA ScanInit == Scan!Init => ScanInv
<1>. SUFFICES ASSUME Scan!Init PROVE ScanInv
  OBVIOUS
<1>1. Scan!NoScan \in ScanType /\ Scan!NoScan.rows = << >>
  BY DEF Scan!NoScan, ScanType
<1>2. \A d \in Scan!Directions : store.row[d] = "none"
  BY DEF Scan!Init, Scan!Shown
<1>3. StoreType /\ store.best = "none"
  BY DEF Scan!Init, Scan!Shown, StoreType
<1>. QED BY <1>1, <1>2, <1>3 DEF Scan!Init, ScanInv, RowsAreSound, Scan!ScanIsSound

(* The steps that leave the store alone: what they put into rows is sound. *)
LEMMA EvaluationKeeps ==
  ASSUME Scan!ScannerAssumption, ScanInv,
         Scan!ReadGates \/ Scan!ReadQuotes \/ Scan!EvaluateNative \/ Scan!EvaluateReadonly \/ Scan!CostsUnknown \/ Scan!Refuse \/ Scan!Fail
  PROVE  ScanInv'
<1>. SUFFICES kind' \in Kinds /\ scan' \in ScanType /\ StoreType' /\ RowsAreSound' /\ Scan!ScanIsSound'
  BY DEF ScanInv
<1>1. UNCHANGED <<kind, store>>
  BY DEF Scan!ReadGates, Scan!ReadQuotes, Scan!EvaluateNative, Scan!EvaluateReadonly, Scan!CostsUnknown, Scan!Refuse, Scan!Fail
<1>2. kind' \in Kinds /\ StoreType' /\ Scan!ScanIsSound'
  BY <1>1 DEF ScanInv, StoreType, Scan!ScanIsSound
<1>3. scan' \in ScanType /\ RowsAreSound'
  <2>. kind' = kind /\ scan \in ScanType /\ RowsAreSound
    BY <1>1 DEF ScanInv
  <2>1. CASE Scan!ReadGates
    <3>1. PICK inSession \in [Scan!Directions -> BOOLEAN], tradable \in [Scan!Directions -> BOOLEAN] :
            scan' = [scan EXCEPT
               !.phase = "gated",
               !.gate = [d \in Scan!Directions |->
                   IF kind # "mt5" \/ (inSession[d] /\ tradable[d]) THEN "pass" ELSE "rejected"]]
      BY <2>1 DEF Scan!ReadGates
    <3>2. [d \in Scan!Directions |->
             IF kind # "mt5" \/ (inSession[d] /\ tradable[d]) THEN "pass" ELSE "rejected"]
             \in [Scan!Directions -> {"pass", "rejected"}]
      OBVIOUS
    <3>. QED BY <3>1, <3>2 DEF ScanType, RowsAreSound
  <2>2. CASE Scan!ReadQuotes
    <3>1. PICK a \in Scan!Quotes \cup {Scan!None}, b \in Scan!Quotes \cup {Scan!None} :
            scan' = [scan EXCEPT !.phase = "quoted", !.a = a, !.b = b]
      BY <2>2 DEF Scan!ReadQuotes
    <3>. QED BY <3>1 DEF ScanType, RowsAreSound
  <2>3. CASE Scan!EvaluateNative
    <3>1. PICK stats \in [Scan!Directions -> Scan!Stats] :
            scan' = [scan EXCEPT !.phase = "rows",
               !.rows = [d \in Scan!Directions |-> Scan!NativeRow(d, scan.a, scan.b, stats[d])]]
      BY <2>3 DEF Scan!EvaluateNative
    <3>2. scan.a \in Scan!Quotes \cup {Scan!None} /\ scan.b \in Scan!Quotes \cup {Scan!None}
      BY DEF ScanType
    <3>3. Scan!Synchronized(scan.a, scan.b) /\ kind # "readonly"
      BY <2>3 DEF Scan!EvaluateNative
    <3>. DEFINE rows == [d \in Scan!Directions |-> Scan!NativeRow(d, scan.a, scan.b, stats[d])]
    <3>4. /\ rows \in [Scan!Directions -> Scan!Row]
          /\ \A d, e \in Scan!Directions :
                rows[d].status = "executable" /\ rows[e].status = "executable" => d = e
      BY <3>2, <3>3, NativeIsSound
    <3>. HIDE DEF rows
    <3>. QED BY <3>1, <3>3, <3>4 DEF ScanType, RowsAreSound, rows
  <2>4. CASE Scan!EvaluateReadonly
    <3>. DEFINE shown(known) == [d \in Scan!Directions |->
           LET entry == Scan!EntrySpread(d, scan.a, scan.b) IN
             [status |-> IF known THEN "candidate" ELSE "rejected",
              entry |-> entry, close |-> Scan!CloseSpread(d, scan.a, scan.b),
              net |-> IF known THEN Scan!ProjectedPnl(entry, Scan!ExitTarget(MaxClose, 0),
                                                 Scan!Quantity(scan.b), Scan!Fees(scan.b))
                      ELSE 0]]
    <3>1. PICK known \in BOOLEAN : scan' = [scan EXCEPT !.phase = "rows", !.rows = shown(known)]
      BY <2>4 DEF Scan!EvaluateReadonly
    <3>2. scan.a \in Scan!Quotes \cup {Scan!None} /\ scan.b \in Scan!Quotes \cup {Scan!None}
      BY DEF ScanType
    <3>3. scan.a \in NumericQuote /\ scan.b \in NumericQuote /\ scan.b.bid \in Nat /\ scan.b.ask \in Nat
      BY <3>2, QuotesAreNumbers
    <3>4. scan.b.bid > 0 /\ scan.b.ask > 0
      BY <2>4 DEF Scan!EvaluateReadonly, Scan!Displayable, Scan!Priced
    <3>5. ASSUME NEW d \in Scan!Directions
          PROVE  shown(known)[d] \in Scan!Row /\ shown(known)[d].status # "executable"
      <4>1. CASE known
        BY <3>3, <3>4, <4>1, RowIsTyped DEF Scan!Verdicts
      <4>2. CASE ~known
        BY <3>3, <4>2, SpreadsAreNumbers DEF Scan!Row, Scan!Verdicts
      <4>. QED BY <4>1, <4>2
    <3>6. shown(known) \in [Scan!Directions -> Scan!Row]
      BY <3>5
    <3>. HIDE DEF shown
    <3>. QED BY <3>1, <3>5, <3>6 DEF ScanType, RowsAreSound
  <2>5. CASE Scan!CostsUnknown \/ Scan!Refuse
    BY <2>5 DEF Scan!CostsUnknown, Scan!Refuse, ScanType, RowsAreSound
  <2>6. CASE Scan!Fail
    BY <2>6 DEF Scan!Fail, Scan!NoScan, ScanType, RowsAreSound
  <2>. QED BY <2>1, <2>2, <2>3, <2>4, <2>5, <2>6
<1>. QED BY <1>2, <1>3

(* What is stored is what was evaluated.                                   *)
LEMMA StoreKeeps ==
  ASSUME ScanInv, Scan!Store
  PROVE  ScanInv'
<1>1. Scan!NoScan \in ScanType /\ Scan!NoScan.rows = << >>
  BY DEF Scan!NoScan, ScanType
<1>2. kind' \in Kinds /\ scan' \in ScanType /\ RowsAreSound'
  BY <1>1 DEF ScanInv, Scan!Store, RowsAreSound
<1>3. CASE scan.rows = << >>
  <2>1. store' = [row |-> [d \in Scan!Directions |-> "none"], best |-> "rejected"]
    BY <1>3 DEF Scan!Store
  <2>2. StoreType'
    BY <2>1 DEF StoreType, Scan!Verdicts
  <2>3. Scan!ScanIsSound'
    BY <2>1 DEF Scan!ScanIsSound
  <2>. QED BY <1>2, <2>2, <2>3 DEF ScanInv
<1>4. CASE scan.rows # << >>
  <2>. DEFINE rows == scan.rows
  <2>1. rows \in [Scan!Directions -> Scan!Row] /\ kind' = kind
    BY <1>4 DEF ScanInv, ScanType, Scan!Store
  <2>2. store' = [row |-> [d \in Scan!Directions |-> rows[d].status], best |-> rows[Scan!Best(rows)].status]
    BY <1>4 DEF Scan!Store
  <2>3. \A d \in Scan!Directions : rows[d].status \in Scan!Verdicts
    BY <2>1 DEF Scan!Row
  <2>4. Scan!Best(rows) \in Scan!Directions
        /\ (rows[Scan!Best(rows)].status = "executable"
              <=> \E d \in Scan!Directions : rows[d].status = "executable")
    BY <2>1, BestIsBest
  <2>5. /\ \A d, e \in Scan!Directions :
               rows[d].status = "executable" /\ rows[e].status = "executable" => d = e
        /\ \A d \in Scan!Directions : rows[d].status = "executable" => kind # "readonly"
    BY <1>4 DEF ScanInv, RowsAreSound
  <2>. HIDE DEF rows
  <2>6. StoreType'
    BY <2>2, <2>3, <2>4 DEF StoreType
  <2>7. Scan!ScanIsSound'
    BY <2>1, <2>2, <2>4, <2>5 DEF Scan!ScanIsSound
  <2>. QED BY <1>2, <2>6, <2>7 DEF ScanInv
<1>. QED BY <1>3, <1>4

(* No step of a scan disturbs the invariant.                               *)
LEMMA ScanStep == Scan!ScannerAssumption /\ ScanInv /\ [Scan!Next]_Scan!vars => ScanInv'
<1>. SUFFICES ASSUME Scan!ScannerAssumption, ScanInv, [Scan!Next]_Scan!vars PROVE ScanInv'
  OBVIOUS
<1>1. CASE UNCHANGED Scan!vars
  BY <1>1 DEF Scan!vars, ScanInv, StoreType, RowsAreSound, Scan!ScanIsSound
<1>2. CASE Scan!Next
  BY <1>2, EvaluationKeeps, StoreKeeps DEF Scan!Next
<1>. QED BY <1>1, <1>2

(* Whatever the quotes, gates and statistics were when the scan read them, *)
(* at most one direction of a symbol is executable, none of a pair that is *)
(* only shown, and the symbol is shown executable exactly if one is.       *)
THEOREM ScansAreSound == Scan!ScannerAssumption => (Scan!Spec => []Scan!ScanIsSound)
<1>. SUFFICES ASSUME Scan!ScannerAssumption PROVE Scan!Spec => []Scan!ScanIsSound
  OBVIOUS
<1>1. Scan!Init => ScanInv
  BY ScanInit
<1>2. ScanInv /\ [Scan!Next]_Scan!vars => ScanInv'
  BY ScanStep
<1>3. ScanInv => Scan!ScanIsSound
  BY DEF ScanInv
<1>. QED BY <1>1, <1>2, <1>3, PTL DEF Scan!Spec

(* The scan and what it shows keep their types.                            *)
LEMMA ScanTyped == ScanInv => Scan!TypeOK
BY DEF ScanInv, Scan!TypeOK, ScanType, StoreType

(* The scan and what it shows have their types always.                     *)
THEOREM ScanTypes == Scan!ScannerAssumption => (Scan!Spec => []Scan!TypeOK)
<1>. SUFFICES ASSUME Scan!ScannerAssumption PROVE Scan!Spec => []Scan!TypeOK
  OBVIOUS
<1>1. Scan!Init => ScanInv
  BY ScanInit
<1>2. ScanInv /\ [Scan!Next]_Scan!vars => ScanInv'
  BY ScanStep
<1>3. ScanInv => Scan!TypeOK
  BY ScanTyped
<1>. QED BY <1>1, <1>2, <1>3, PTL DEF Scan!Spec

-----------------------------------------------------------------------------
(***************************************************************************)
(* Quotes.                                                                 *)
(***************************************************************************)
(* A stamp is never before the price it is put on, and lags behind it by   *)
(* one transmission at most.  Ages at the cap may be anything above it.    *)
Truthful(p) == p.at <= p.seen /\ p.seen <= p.at + Delay

UsedIsFresh ==
  /\ \A l \in Quote!Legs : used[l].seen <= Stale + Delay
  /\ used["a"].seen <= used["b"].seen + Strict + Delay
  /\ used["b"].seen <= used["a"].seen + Strict + Delay

(* A decision that waits for an answer is in a phase that expects one.     *)
Expected ==
  /\ request["decision"].leg = "a" => phase = "refresh_a"
  /\ request["decision"].leg = "b" => phase \in {"refresh_b", "none_refreshed"}

QuoteInv ==
  /\ Quote!TypeOK
  /\ Expected
  /\ \A l \in Quote!Legs : Truthful(ticker[l]) /\ Truthful(quote[l])
  /\ UsedIsFresh

(* The smaller of two numbers.                                             *)
LEMMA MinOfTwo ==
  ASSUME NEW x \in Nat, NEW y \in Nat
  PROVE  Quote!Min({x, y}) = IF x <= y THEN x ELSE y
<1>. DEFINE m == IF x <= y THEN x ELSE y
<1>1. m \in {x, y} /\ \A z \in {x, y} : m <= z
  OBVIOUS
<1>2. \A n \in {x, y} : (\A z \in {x, y} : n <= z) => n = m
  OBVIOUS
<1>3. Quote!Min({x, y}) = CHOOSE n \in {x, y} : \A z \in {x, y} : n <= z
  BY DEF Quote!Min
<1>. QED BY <1>1, <1>2, <1>3

(* A tick makes a price one older on both counts, up to the cap.           *)
LEMMA OlderIsTruthful ==
  ASSUME Quote!QuotesAssumption, NEW p \in Quote!Price, Truthful(p)
  PROVE  Quote!Older(p) \in Quote!Price /\ Truthful(Quote!Older(p))
<1>1. Quote!Cap \in Nat /\ p.seen \in 0..Quote!Cap /\ p.at \in 0..Quote!Cap
  BY DEF Quote!QuotesAssumption, Quote!Cap, Quote!Price, Quote!Ages
<1>2. /\ Quote!Min({p.seen + 1, Quote!Cap}) = IF p.seen + 1 <= Quote!Cap THEN p.seen + 1 ELSE Quote!Cap
      /\ Quote!Min({p.at + 1, Quote!Cap}) = IF p.at + 1 <= Quote!Cap THEN p.at + 1 ELSE Quote!Cap
  BY <1>1, MinOfTwo
<1>. DEFINE s == Quote!Older(p).seen
            a == Quote!Older(p).at
<1>3. /\ s = IF p.seen + 1 <= Quote!Cap THEN p.seen + 1 ELSE Quote!Cap
      /\ a = IF p.at + 1 <= Quote!Cap THEN p.at + 1 ELSE Quote!Cap
      /\ Quote!Older(p) = [seen |-> s, at |-> a]
  BY <1>2 DEF Quote!Older
<1>4. s \in 0..Quote!Cap /\ a \in 0..Quote!Cap /\ a <= s /\ s <= a + Delay
  BY <1>1, <1>3 DEF Truthful, Quote!QuotesAssumption
<1>. QED BY <1>3, <1>4 DEF Truthful, Quote!Price, Quote!Ages

(* What a ticker or an answer brings is typed and truthful.                *)
LEMMA NewIsTruthful ==
  ASSUME Quote!QuotesAssumption, NEW lag \in 0..Delay
  PROVE  [seen |-> lag, at |-> 0] \in Quote!Price /\ Truthful([seen |-> lag, at |-> 0])
BY DEF Quote!QuotesAssumption, Quote!Price, Quote!Ages, Quote!Cap, Truthful

(* At the start no price has been received, and no decision was taken.     *)
LEMMA QuoteInit == Quote!QuotesAssumption /\ Quote!Init => QuoteInv
<1>. SUFFICES ASSUME Quote!QuotesAssumption, Quote!Init PROVE QuoteInv
  OBVIOUS
<1>1. Quote!NoPrice \in Quote!Price /\ Truthful(Quote!NoPrice)
  BY DEF Quote!QuotesAssumption, Quote!NoPrice, Quote!Price, Quote!Ages, Quote!Cap, Truthful
<1>2. used = [l \in Quote!Legs |-> [seen |-> 0, at |-> 0]] /\ [seen |-> 0, at |-> 0] \in Quote!Price
  BY NewIsTruthful DEF Quote!Init, Quote!Undecided, Quote!QuotesAssumption
<1>3. UsedIsFresh
  BY <1>2 DEF UsedIsFresh, Quote!QuotesAssumption, Quote!Legs
<1>. QED BY <1>1, <1>2, <1>3 DEF QuoteInv, Quote!TypeOK, Quote!Init, Quote!NoCall, Quote!Legs, Quote!Threads, Quote!QuotesAssumption, Expected

(* A quote is written with a truthful price, and one leg of it only.       *)
LEMMA PutKeeps ==
  ASSUME QuoteInv, NEW l \in Quote!Legs, NEW p \in Quote!Price, Truthful(p), Quote!Put(l, p)
  PROVE  quote' \in [Quote!Legs -> Quote!Price] /\ \A k \in Quote!Legs : Truthful(quote'[k])
<1>1. Quote!Stamped(p) = p
  BY DEF Quote!Stamped, Quote!Price
<1>2. quote' = [quote EXCEPT ![l] = p]
  BY <1>1 DEF Quote!Put
<1>. QED BY <1>2 DEF QuoteInv, Quote!TypeOK

(* An answer over REST shows a price of some moment of the call.           *)
LEMMA AnswersKeep ==
  ASSUME Quote!QuotesAssumption, QuoteInv, NEW t \in Quote!Threads, request[t].leg # "-", Quote!Answers(t)
  PROVE  quote' \in [Quote!Legs -> Quote!Price] /\ \A k \in Quote!Legs : Truthful(quote'[k])
<1>1. request[t].leg \in Quote!Legs /\ request[t].age \in 0..Delay
  BY DEF QuoteInv, Quote!TypeOK
<1>2. PICK seen \in 0..request[t].age : Quote!Put(request[t].leg, [seen |-> seen, at |-> 0])
  BY DEF Quote!Answers
<1>3. seen \in 0..Delay
  BY <1>1, Quote!QuotesAssumption DEF Quote!QuotesAssumption
<1>. QED BY <1>1, <1>2, <1>3, NewIsTruthful, PutKeeps

(* Time: all prices grow older, and no call takes longer than the bound.   *)
LEMMA TickKeeps == ASSUME Quote!QuotesAssumption, QuoteInv, Quote!Tick PROVE QuoteInv'
<1>1. ticker' \in [Quote!Legs -> Quote!Price] /\ quote' \in [Quote!Legs -> Quote!Price]
      /\ \A l \in Quote!Legs : Truthful(ticker'[l]) /\ Truthful(quote'[l])
  BY OlderIsTruthful DEF Quote!Tick, QuoteInv, Quote!TypeOK
<1>2. request' \in [Quote!Threads -> [leg : Quote!Legs \cup {"-"}, age : 0..Delay]]
  <2>1. ASSUME NEW t \in Quote!Threads
        PROVE  (IF request[t].leg = "-" THEN Quote!NoCall ELSE [request[t] EXCEPT !.age = @ + 1])
               \in [leg : Quote!Legs \cup {"-"}, age : 0..Delay]
    <3>1. CASE request[t].leg = "-"
      BY <3>1 DEF Quote!NoCall, Quote!QuotesAssumption
    <3>2. CASE request[t].leg # "-"
      <4>1. request[t].age < Delay /\ request[t] \in [leg : Quote!Legs \cup {"-"}, age : 0..Delay]
        BY <3>2 DEF Quote!Tick, QuoteInv, Quote!TypeOK
      <4>2. request[t].age + 1 \in 0..Delay
        BY <4>1 DEF Quote!QuotesAssumption
      <4>. QED BY <3>2, <4>1, <4>2
    <3>. QED BY <3>1, <3>2
  <2>. QED BY <2>1 DEF Quote!Tick
<1>3. used' \in [Quote!Legs -> Quote!Price] /\ UsedIsFresh'
  <2>1. used' = [l \in Quote!Legs |-> [seen |-> 0, at |-> 0]] /\ [seen |-> 0, at |-> 0] \in Quote!Price
    BY NewIsTruthful DEF Quote!Tick, Quote!Undecided, Quote!QuotesAssumption
  <2>. QED BY <2>1 DEF UsedIsFresh, Quote!QuotesAssumption, Quote!Legs
<1>4. phase' = phase /\ Expected'
  BY DEF Quote!Tick, QuoteInv, Expected, Quote!NoCall, Quote!Threads, Quote!TypeOK
<1>. QED BY <1>1, <1>2, <1>3, <1>4 DEF QuoteInv, Quote!TypeOK

(* What a decision reads is fresh by its stamps, hence by its prices.      *)
LEMMA DecideKeeps == ASSUME Quote!QuotesAssumption, QuoteInv, Quote!Decide PROVE QuoteInv'
<1>1. used' = quote /\ phase' = "idle" /\ UNCHANGED <<ticker, quote, request>> /\ Quote!Synchronized
  BY DEF Quote!Decide
<1>2. \A l \in Quote!Legs : quote[l] \in Quote!Price /\ Truthful(quote[l]) /\ quote[l].at <= Stale
  BY <1>1 DEF QuoteInv, Quote!TypeOK, Quote!Synchronized
<1>3. \A l \in Quote!Legs : quote[l].at \in Nat /\ quote[l].seen \in Nat
  BY <1>2 DEF Quote!Price, Quote!Ages
<1>4. /\ quote["a"].at <= quote["b"].at + Strict
      /\ quote["b"].at <= quote["a"].at + Strict
  BY <1>1, <1>3 DEF Quote!Synchronized, Quote!Gap, Quote!Legs, Quote!QuotesAssumption
<1>5. UsedIsFresh'
  BY <1>1, <1>2, <1>3, <1>4 DEF UsedIsFresh, Truthful, Quote!Legs, Quote!QuotesAssumption
<1>. QED BY <1>1, <1>5 DEF QuoteInv, Quote!TypeOK, Expected, Quote!Decide, Quote!NoCall

(* The decision asks for the two legs, one after the other, or gives up.   *)
LEMMA RefreshSteps ==
  ASSUME Quote!QuotesAssumption, QuoteInv, Quote!Refresh \/ Quote!GiveUp \/ \E ok \in BOOLEAN : Quote!Refreshed(ok)
  PROVE  QuoteInv'
<1>1. CASE Quote!Refresh
  <2>1. /\ phase' = "refresh_a" /\ UNCHANGED <<ticker, quote, used>>
        /\ request' = [request EXCEPT !["decision"] = [leg |-> "a", age |-> 0]]
    BY <1>1 DEF Quote!Refresh
  <2>2. request' \in [Quote!Threads -> [leg : Quote!Legs \cup {"-"}, age : 0..Delay]]
        /\ request'["decision"].leg = "a"
    BY <2>1 DEF QuoteInv, Quote!TypeOK, Quote!Legs, Quote!Threads, Quote!QuotesAssumption
  <2>. QED BY <2>1, <2>2 DEF QuoteInv, Quote!TypeOK, UsedIsFresh, Expected
<1>2. CASE Quote!GiveUp
  BY <1>2 DEF Quote!GiveUp, QuoteInv, Quote!TypeOK, UsedIsFresh, Expected, Quote!NoCall
<1>3. ASSUME NEW ok \in BOOLEAN, Quote!Refreshed(ok) PROVE QuoteInv'
  <2>1. quote' \in [Quote!Legs -> Quote!Price] /\ \A k \in Quote!Legs : Truthful(quote'[k])
    <3>1. CASE quote' = quote
      BY <3>1 DEF QuoteInv, Quote!TypeOK
    <3>2. CASE Quote!Answers("decision")
      BY <1>3, <3>2, AnswersKeep DEF Quote!Refreshed, Quote!Threads
    <3>. QED BY <1>3, <3>1, <3>2 DEF Quote!Refreshed
  <2>2. UNCHANGED <<ticker, used>>
    BY <1>3 DEF Quote!Refreshed
  <2>3. request' \in [Quote!Threads -> [leg : Quote!Legs \cup {"-"}, age : 0..Delay]]
    <3>. DEFINE c == IF request["decision"].leg = "a" THEN [leg |-> "b", age |-> 0] ELSE Quote!NoCall
    <3>1. c \in [leg : Quote!Legs \cup {"-"}, age : 0..Delay]
      BY DEF Quote!NoCall, Quote!Legs, Quote!QuotesAssumption
    <3>2. request' = [request EXCEPT !["decision"] = c]
      BY <1>3 DEF Quote!Refreshed
    <3>. HIDE DEF c
    <3>. QED BY <3>1, <3>2 DEF QuoteInv, Quote!TypeOK
  <2>4. /\ phase' \in {"idle", "refresh_a", "refresh_b", "recheck", "none_refreshed"}
        /\ Expected'
    <3>1. CASE request["decision"].leg = "a"
      <4>1. phase = "refresh_a"
        BY <3>1 DEF QuoteInv, Expected
      <4>2. phase' \in {"refresh_b", "none_refreshed"}
        BY <1>3, <4>1 DEF Quote!Refreshed, Quote!After
      <4>3. request'["decision"].leg = "b"
        BY <1>3, <3>1 DEF Quote!Refreshed, QuoteInv, Quote!TypeOK, Quote!Threads
      <4>. QED BY <4>2, <4>3 DEF Expected
    <3>2. CASE request["decision"].leg = "b"
      <4>1. phase \in {"refresh_b", "none_refreshed"}
        BY <3>2 DEF QuoteInv, Expected
      <4>2. phase' \in {"idle", "recheck"}
        BY <1>3, <4>1 DEF Quote!Refreshed, Quote!After
      <4>3. request'["decision"].leg = "-"
        BY <1>3, <3>2 DEF Quote!Refreshed, QuoteInv, Quote!TypeOK, Quote!Threads, Quote!NoCall
      <4>. QED BY <4>2, <4>3 DEF Expected
    <3>3. request["decision"].leg \in {"a", "b"}
      BY <1>3 DEF Quote!Refreshed, QuoteInv, Quote!TypeOK, Quote!Threads, Quote!Legs
    <3>. QED BY <3>1, <3>2, <3>3
  <2>. QED BY <2>1, <2>2, <2>3, <2>4 DEF QuoteInv, Quote!TypeOK, UsedIsFresh
<1>. QED BY <1>1, <1>2, <1>3

(* The market data thread: it copies, asks and is answered.                *)
LEMMA MarketSteps ==
  ASSUME Quote!QuotesAssumption, QuoteInv,
         Quote!Answered \/ Quote!AskFails \/ \E l \in Quote!Legs : Quote!Message(l) \/ Quote!Copy(l) \/ Quote!Ask(l)
  PROVE  QuoteInv'
<1>1. ASSUME NEW l \in Quote!Legs, Quote!Message(l) PROVE QuoteInv'
  <2>1. PICK lag \in 0..Delay : ticker' = [ticker EXCEPT ![l] = [seen |-> lag, at |-> 0]]
    BY <1>1 DEF Quote!Message
  <2>2. ticker' \in [Quote!Legs -> Quote!Price] /\ \A k \in Quote!Legs : Truthful(ticker'[k])
    BY <2>1, NewIsTruthful DEF QuoteInv, Quote!TypeOK
  <2>. QED BY <1>1, <2>2 DEF Quote!Message, QuoteInv, Quote!TypeOK, UsedIsFresh, Expected
<1>2. ASSUME NEW l \in Quote!Legs, Quote!Copy(l) PROVE QuoteInv'
  <2>1. quote' \in [Quote!Legs -> Quote!Price] /\ \A k \in Quote!Legs : Truthful(quote'[k])
    BY <1>2, PutKeeps DEF Quote!Copy, QuoteInv, Quote!TypeOK
  <2>. QED BY <1>2, <2>1 DEF Quote!Copy, QuoteInv, Quote!TypeOK, UsedIsFresh, Expected
<1>3. ASSUME NEW l \in Quote!Legs, Quote!Ask(l) PROVE QuoteInv'
  BY <1>3 DEF Quote!Ask, QuoteInv, Quote!TypeOK, UsedIsFresh, Expected, Quote!Threads, Quote!QuotesAssumption
<1>4. CASE Quote!Answered
  <2>1. quote' \in [Quote!Legs -> Quote!Price] /\ \A k \in Quote!Legs : Truthful(quote'[k])
    BY <1>4, AnswersKeep DEF Quote!Answered, Quote!Threads
  <2>2. UNCHANGED <<ticker, phase, used>>
        /\ request' = [request EXCEPT !["market"] = [leg |-> "-", age |-> 0]]
    BY <1>4 DEF Quote!Answered, Quote!NoCall
  <2>. QED BY <2>1, <2>2 DEF QuoteInv, Quote!TypeOK, UsedIsFresh, Expected, Quote!Threads, Quote!QuotesAssumption
<1>5. CASE Quote!AskFails
  BY <1>5 DEF Quote!AskFails, Quote!NoCall, QuoteInv, Quote!TypeOK, UsedIsFresh, Expected, Quote!Threads, Quote!QuotesAssumption
<1>. QED BY <1>1, <1>2, <1>3, <1>4, <1>5

(* No step of either thread disturbs the invariant.                        *)
LEMMA QuoteStep == Quote!QuotesAssumption /\ QuoteInv /\ [Quote!Next]_Quote!vars => QuoteInv'
<1>. SUFFICES ASSUME Quote!QuotesAssumption, QuoteInv, [Quote!Next]_Quote!vars PROVE QuoteInv'
  OBVIOUS
<1>1. CASE UNCHANGED Quote!vars
  BY <1>1 DEF Quote!vars, QuoteInv, Quote!TypeOK, UsedIsFresh, Expected
<1>2. CASE Quote!Next
  BY <1>2, TickKeeps, MarketSteps, DecideKeeps, RefreshSteps DEF Quote!Next
<1>. QED BY <1>1, <1>2

(* The state of the quotes keeps its types.                                *)
THEOREM QuoteTypes == Quote!QuotesAssumption => (Quote!Spec => []Quote!TypeOK)
<1>. SUFFICES ASSUME Quote!QuotesAssumption PROVE Quote!Spec => []Quote!TypeOK
  OBVIOUS
<1>1. Quote!Init => QuoteInv
  BY QuoteInit
<1>2. QuoteInv /\ [Quote!Next]_Quote!vars => QuoteInv'
  BY QuoteStep
<1>3. QuoteInv => Quote!TypeOK
  BY DEF QuoteInv
<1>. QED BY <1>1, <1>2, <1>3, PTL DEF Quote!Spec

(* The invariant makes a decision rest on fresh quotes.                    *)
LEMMA FreshOfInv == Quote!QuotesAssumption /\ QuoteInv => Quote!DecisionsAreFresh
<1>1. ASSUME Quote!QuotesAssumption, QuoteInv PROVE used["a"].seen \in Nat /\ used["b"].seen \in Nat
  BY <1>1 DEF QuoteInv, Quote!TypeOK, Quote!Price, Quote!Ages, Quote!Cap, Quote!Legs, Quote!QuotesAssumption
<1>. QED BY <1>1 DEF QuoteInv, UsedIsFresh, Quote!DecisionsAreFresh, Quote!Distance, Quote!QuotesAssumption

(* A decision to open or close rests on prices that were really shown      *)
(* within the age limit and one transmission, and as close to each other   *)
(* as the strict limit and one transmission, in whatever order the two     *)
(* threads write the quotes (strict_sync_for_execution).                   *)
THEOREM FreshDecisions == Quote!QuotesAssumption => (Quote!Spec => []Quote!DecisionsAreFresh)
<1>. SUFFICES ASSUME Quote!QuotesAssumption PROVE Quote!Spec => []Quote!DecisionsAreFresh
  OBVIOUS
<1>1. Quote!Init => QuoteInv
  BY QuoteInit
<1>2. QuoteInv /\ [Quote!Next]_Quote!vars => QuoteInv'
  BY QuoteStep
<1>3. QuoteInv => Quote!DecisionsAreFresh
  BY FreshOfInv
<1>. QED BY <1>1, <1>2, <1>3, PTL DEF Quote!Spec

-----------------------------------------------------------------------------
(***************************************************************************)
(* Natural numbers: a least and a greatest.                                *)
(***************************************************************************)
LEMMA Least ==
  ASSUME NEW T, T \subseteq Nat, T # {}
  PROVE  \E x \in T : \A y \in T : x <= y
<1>1. \E x \in T : \A y \in T : <<y, x>> \notin OpToRel(<, Nat)
  BY WFMin, NatLessThanWellFounded, Zenon
<1>2. PICK x \in T : \A y \in T : <<y, x>> \notin OpToRel(<, Nat)
  BY <1>1
<1>3. \A y \in T : ~ (y < x)
  BY <1>2 DEF OpToRel
<1>. QED BY <1>3

(* A set of numbers up to n that is not empty has a greatest element.      *)
LEMMA Greatest ==
  ASSUME NEW n \in Nat, NEW T, T \subseteq 0..n, T # {}
  PROVE  \E x \in T : \A y \in T : y <= x
<1>. DEFINE D == {n - y : y \in T}
<1>1. D \subseteq Nat /\ D # {}
  <2>1. \A y \in T : n - y \in Nat
    OBVIOUS
  <2>. QED BY <2>1
<1>2. PICK d \in D : \A e \in D : d <= e
  BY <1>1, Least
<1>3. PICK x \in T : d = n - x
  OBVIOUS
<1>4. \A y \in T : d <= n - y
  BY <1>2
<1>. QED BY <1>3, <1>4

-----------------------------------------------------------------------------
(***************************************************************************)
(* OrderBooks.                                                             *)
(***************************************************************************)
(* The local copy is the book of the exchange after the update it names,   *)
(* synchronized or not, unless it was emptied.                             *)
BookInv ==
  /\ Book!TypeOK
  /\ last > 0 => book = Book!BookAt(last)
  /\ synced => last > 0

(* A level keeps what it holds over updates of other levels.               *)
LEMMA LevelKept ==
  ASSUME NEW a \in Nat, NEW b \in Nat, a <= b, NEW p \in BookLevels,
         \A i \in (a + 1)..b : history[i].price # p
  PROVE  Book!BookAt(b)[p] = Book!BookAt(a)[p]
<1>1. Book!LastOf(p, b) = Book!LastOf(p, a)
  <2>1. ASSUME NEW i \in 1..b, history[i].price = p
        PROVE  i \in 1..a
    <3>1. i \notin (a + 1)..b
      BY <2>1
    <3>. QED BY <3>1
  <2>2. ASSUME NEW i \in 1..a
        PROVE  (\A j \in (i + 1)..b : history[j].price # p) <=> (\A j \in (i + 1)..a : history[j].price # p)
    <3>1. \A j \in (i + 1)..b : j \in (i + 1)..a \/ j \in (a + 1)..b
      OBVIOUS
    <3>2. \A j \in (i + 1)..a : j \in (i + 1)..b
      OBVIOUS
    <3>. QED BY <3>1, <3>2
  <2>3. \A i \in 1..a : i \in 1..b
    OBVIOUS
  <2>. QED BY <2>1, <2>2, <2>3 DEF Book!LastOf
<1>. QED BY <1>1 DEF Book!BookAt

(* An event that begins no later than the update after the book's brings   *)
(* the book up to its own last update.                                     *)
LEMMA PatchIsTrue ==
  ASSUME Book!BooksAssumption, Book!TypeOK, NEW u \in Book!Ids, NEW id \in Book!Ids,
         Book!First(u) <= id + 1, id <= u, Book!First(u) \in Nat
  PROVE  Book!Patched(Book!BookAt(id), u) = Book!BookAt(u)
<1>1. ASSUME NEW p \in BookLevels, ~ \E i \in Book!First(u)..u : history[i].price = p
      PROVE  Book!BookAt(u)[p] = Book!BookAt(id)[p]
  <2>1. u \in Nat /\ id \in Nat
    BY DEF Book!Ids, Book!BooksAssumption
  <2>2. \A i \in (id + 1)..u : i \in Book!First(u)..u
    BY <2>1
  <2>. QED BY <1>1, <2>1, <2>2, LevelKept
<1>. QED BY <1>1 DEF Book!Patched, Book!BookAt

(* What a level holds is a size.                                           *)
LEMMA BookIsTyped ==
  ASSUME Book!BooksAssumption, Book!TypeOK, NEW id \in Book!Ids
  PROVE  Book!BookAt(id) \in Book!Books
<1>1. ASSUME NEW p \in BookLevels, Book!LastOf(p, id) # {}
      PROVE  history[CHOOSE i \in Book!LastOf(p, id) : TRUE].size \in Sizes
  <2>1. \A i \in Book!LastOf(p, id) : i \in Book!Ids
    BY DEF Book!LastOf, Book!Ids, Book!BooksAssumption
  <2>. QED BY <1>1, <2>1 DEF Book!TypeOK
<1>. QED BY <1>1 DEF Book!BookAt, Book!Books, Book!BooksAssumption

(* The event before ends before the event, and its end is an event's.      *)
LEMMA PreviousIsBefore ==
  ASSUME Book!BooksAssumption, Book!TypeOK, NEW u \in Book!Ids
  PROVE  /\ Book!Previous(u) \in 0..(u - 1)
         /\ Book!First(u) \in 1..u /\ Book!First(u) = Book!Previous(u) + 1
<1>0. u \in 1..Updates /\ Updates \in Nat /\ cut \subseteq 1..Updates
  BY DEF Book!Ids, Book!BooksAssumption, Book!TypeOK
<1>1. Book!Previous(u) \in 0..(u - 1)
  <2>1. CASE Book!Before(u) = {}
    BY <1>0, <2>1 DEF Book!Previous
  <2>2. CASE Book!Before(u) # {}
    <3>1. Book!Before(u) \subseteq 0..(u - 1)
      <4>1. ASSUME NEW c \in 1..Updates, c < u
            PROVE  c \in 0..(u - 1)
        BY <1>0, <4>1
      <4>. QED BY <1>0, <4>1 DEF Book!Before
    <3>2. \E c \in Book!Before(u) : \A d \in Book!Before(u) : d <= c
      BY <1>0, <2>2, <3>1, Greatest
    <3>3. Book!Previous(u) \in Book!Before(u)
      BY <2>2, <3>2 DEF Book!Previous
    <3>. QED BY <3>1, <3>3
  <2>. QED BY <2>1, <2>2
<1>. QED BY <1>0, <1>1 DEF Book!First

(* At the start the copy is not synchronized.                              *)
LEMMA BookInit ==
  ASSUME Book!BooksAssumption, Book!Init
  PROVE  BookInv
<1>1. Book!Empty \in Book!Books
  BY DEF Book!Empty, Book!Books, Book!BooksAssumption
<1>2. 0 \in 0..Updates /\ 0 \in 0..MaxFailures
  BY DEF Book!BooksAssumption
<1>3. Book!TypeOK
  BY <1>1, <1>2 DEF Book!Init, Book!TypeOK
<1>. QED BY <1>3 DEF Book!Init, BookInv

(* No event, snapshot, loss or reconnection disturbs it.                   *)
LEMMA BookStep ==
  ASSUME Book!BooksAssumption, BookInv, [Book!Next]_Book!vars
  PROVE  BookInv'
<1>. USE DEF BookInv
<1>1. CASE UNCHANGED Book!vars
  BY <1>1 DEF Book!vars, Book!TypeOK, Book!BookAt, Book!LastOf
<1>2. ASSUME NEW u \in cut, Book!Event(u)
      PROVE  BookInv'
  <2>0. u \in Book!Ids /\ u \in Nat /\ u > 0 /\ u <= Updates /\ Updates \in Nat
    BY <1>2 DEF Book!TypeOK, Book!Ids, Book!BooksAssumption
  <2>1. /\ Book!Previous(u) \in 0..(u - 1)
        /\ Book!First(u) \in 1..u /\ Book!First(u) = Book!Previous(u) + 1
    BY <2>0, PreviousIsBefore
  <2>2. CASE Book!Stale(u)
    BY <2>2 DEF Book!Stale, Book!vars, Book!TypeOK, Book!BookAt, Book!LastOf
  <2>3. ASSUME history' = history, cut' = cut, failures' \in 0..MaxFailures,
               last' \in Book!Ids, book' = Book!BookAt(last'), synced' \in BOOLEAN
        PROVE  BookInv'
    <3>1. book' \in Book!Books
      BY <2>3, BookIsTyped
    <3>2. last' > 0 /\ last' \in 0..Updates
      BY <2>0, <2>3 DEF Book!Ids
    <3>3. Book!BookAt(last)' = Book!BookAt(last')
      BY <2>3 DEF Book!BookAt, Book!LastOf
    <3>4. Book!TypeOK'
      BY <2>3, <3>1, <3>2 DEF Book!TypeOK, Book!Books, Book!Ids
    <3>. QED BY <2>3, <3>2, <3>3, <3>4
  <2>4. ASSUME NEW id \in Book!Ids, Book!Covers(u, id)
        PROVE  Book!Patched(Book!BookAt(id), u) = Book!BookAt(u)
    <3>1. id \in Nat
      BY DEF Book!Ids
    <3>. QED BY <2>0, <2>1, <2>4, <3>1, PatchIsTrue DEF Book!Covers
  <2>5. CASE Book!Apply(u)
    <3>1. last \in Book!Ids /\ last \in Nat /\ last <= u /\ book = Book!BookAt(last)
      BY <2>0, <2>5 DEF Book!Apply, Book!TypeOK, Book!Ids
    <3>2. Book!Patched(Book!BookAt(last), u) = Book!BookAt(u)
      <4>1. CASE synced
        <5>1. Book!First(u) = last + 1
          BY <2>1, <2>5, <4>1 DEF Book!Apply, Book!Follows
        <5>. QED BY <2>0, <2>1, <3>1, <5>1, PatchIsTrue
      <4>2. CASE ~synced
        BY <2>4, <2>5, <3>1, <4>2 DEF Book!Apply, Book!Follows
      <4>. QED BY <4>1, <4>2
    <3>. QED BY <2>0, <2>3, <2>5, <3>1, <3>2 DEF Book!Apply, Book!TypeOK
  <2>6. CASE Book!Resync(u)
    <3>1. PICK id \in Book!Ids :
             IF Book!Covers(u, id)
             THEN book' = Book!Patched(Book!BookAt(id), u) /\ last' = u /\ synced' = TRUE
             ELSE book' = Book!BookAt(id) /\ last' = id /\ synced' = FALSE
      BY <2>6 DEF Book!Resync
    <3>2. last' \in Book!Ids /\ book' = Book!BookAt(last') /\ synced' \in BOOLEAN
      BY <2>0, <2>4, <3>1
    <3>. QED BY <2>3, <2>6, <3>2 DEF Book!Resync, Book!TypeOK
  <2>7. CASE Book!ResyncFails(u)
    <3>1. failures' \in 0..MaxFailures
      BY <2>7 DEF Book!ResyncFails, Book!TypeOK, Book!BooksAssumption
    <3>2. Book!TypeOK'
      BY <2>7, <3>1 DEF Book!ResyncFails, Book!TypeOK, Book!Books, Book!Ids
    <3>3. Book!BookAt(last)' = Book!BookAt(last)
      BY <2>7 DEF Book!ResyncFails, Book!BookAt, Book!LastOf
    <3>. QED BY <2>7, <3>2, <3>3 DEF Book!ResyncFails
  <2>. QED BY <1>2, <2>2, <2>5, <2>6, <2>7 DEF Book!Event
<1>3. CASE Book!Invalidate
  <2>1. Book!Empty \in Book!Books /\ 0 \in 0..Updates
    BY DEF Book!Empty, Book!Books, Book!BooksAssumption
  <2>2. Book!TypeOK'
    BY <1>3, <2>1 DEF Book!Invalidate, Book!TypeOK, Book!Books, Book!Ids
  <2>. QED BY <1>3, <2>2 DEF Book!Invalidate
<1>. QED BY <1>1, <1>2, <1>3 DEF Book!Next

(* A synchronized copy is the exchange's book.                             *)
LEMMA BookTruth ==
  ASSUME BookInv
  PROVE  Book!BookIsTrue
BY DEF BookInv, Book!BookIsTrue

-----------------------------------------------------------------------------
(***************************************************************************)
(* SpreadHistory.                                                          *)
(***************************************************************************)
(* The samples that are taken count: no row, written or about to be,       *)
(* holds more of them than were taken, and what is neither in the          *)
(* accumulator nor lost to a fault is in a row.                            *)
Counted(b) ==
  /\ filed[b] <= taken[b] /\ tx.row[b] <= taken[b]
  /\ acc.count > 0 /\ b = acc.bucket => acc.count <= taken[b]
  /\ b \notin torn =>
       IF acc.count > 0 /\ b = acc.bucket THEN acc.count = taken[b]
       ELSE (IF tx.row[b] > 0 THEN tx.row[b] ELSE filed[b]) = taken[b]

(* The accumulator is of the newest bucket, and nothing is taken ahead.    *)
Newest ==
  /\ acc.count > 0 => acc.bucket <= History!BucketOf(now)
  /\ \A b \in History!Buckets :
       b > (IF acc.count > 0 THEN acc.bucket ELSE History!BucketOf(now)) => taken[b] = 0
  /\ acc.count = 0 /\ History!BucketOf(now) \notin torn => taken[History!BucketOf(now)] = 0

HistoryInv ==
  /\ now \in 1..HistoryTime /\ flushed \in 0..HistoryTime /\ faults \in 0..MaxFaults
  /\ acc \in [bucket : History!Buckets, count : Nat]
  /\ filed \in [History!Buckets -> Nat]
  /\ tx \in [open : BOOLEAN, row : [History!Buckets -> Nat]]
  /\ taken \in [History!Buckets -> Nat]
  /\ torn \subseteq History!Buckets
  /\ IF tx.open THEN acc.count > 0 ELSE tx = History!NoTx
  /\ Newest
  /\ \A b \in History!Buckets : Counted(b)

(* A later time has no earlier bucket.                                     *)
LEMMA LaterBuckets ==
  ASSUME NEW a \in Nat, NEW b \in Nat, NEW n \in Nat \ {0}, a <= b
  PROVE  a \div n \in Nat /\ b \div n \in Nat /\ a \div n <= b \div n
<1>1. a \div n \in Nat /\ b \div n \in Nat
  BY SMT
<1>2. PICK q \in Nat : q = a \div n
  BY <1>1
<1>3. PICK p \in Nat : p = b \div n
  BY <1>1
<1>4. n * q <= a /\ b < n * p + n
  BY <1>2, <1>3, SMT
<1>5. n * q < n * (p + 1)
  BY <1>4
<1>6. q < p + 1
  BY <1>5
<1>. QED BY <1>1, <1>2, <1>3, <1>6

(* Each time has a bucket.                                                 *)
LEMMA TimesHaveBuckets ==
  ASSUME History!HistoryAssumption, NEW t \in 1..HistoryTime
  PROVE  /\ History!Buckets \subseteq Nat /\ 0 \in History!Buckets
         /\ t \div Bucket \in History!Buckets
<1>1. HistoryTime \in Nat /\ Bucket \in Nat \ {0} /\ t \in Nat /\ t <= HistoryTime
  BY DEF History!HistoryAssumption
<1>2. t \div Bucket \in Nat /\ t \div Bucket <= HistoryTime \div Bucket
  BY <1>1, LaterBuckets
<1>3. HistoryTime \div Bucket \in Nat
  BY <1>1, LaterBuckets
<1>4. 0 \in 0..(HistoryTime \div Bucket)
  BY <1>3
<1>. QED BY <1>2, <1>3, <1>4 DEF History!Buckets

(* At the start no sample was taken.                                       *)
LEMMA HistoryInit ==
  ASSUME History!HistoryAssumption, History!Init
  PROVE  HistoryInv
<1>1. now \in 1..HistoryTime /\ 0 \in 0..HistoryTime /\ 0 \in 0..MaxFaults
  BY DEF History!HistoryAssumption, History!Init
<1>2. 0 \in History!Buckets /\ History!BucketOf(now) \in History!Buckets
  BY <1>1, TimesHaveBuckets DEF History!BucketOf
<1>3. /\ acc \in [bucket : History!Buckets, count : Nat] /\ acc.count = 0 /\ ~tx.open
      /\ tx = History!NoTx /\ tx \in [open : BOOLEAN, row : [History!Buckets -> Nat]]
      /\ \A b \in History!Buckets : tx.row[b] = 0
  BY <1>2 DEF History!Init, History!NoAcc, History!NoTx
<1>4. Newest /\ \A b \in History!Buckets : Counted(b)
  BY <1>2, <1>3 DEF History!Init, Newest, Counted
<1>. QED BY <1>1, <1>2, <1>3, <1>4 DEF History!Init, HistoryInv

(* A step that leaves the samples alone keeps them counted.                *)
LEMMA HistoryStep ==
  ASSUME History!HistoryAssumption, HistoryInv, [History!Next]_History!vars
  PROVE  HistoryInv'
<1>. DEFINE Bs == History!Buckets
            B == History!BucketOf(now)
<1>1. /\ Bs \subseteq Nat /\ 0 \in Bs /\ B \in Bs /\ B \in Nat
      /\ \A b \in Bs : b \in Nat
      /\ acc.bucket \in Bs /\ acc.bucket \in Nat /\ acc.count \in Nat
  BY TimesHaveBuckets DEF HistoryInv, History!BucketOf
<1>2. CASE UNCHANGED History!vars
  BY <1>2 DEF History!vars, HistoryInv, Newest, Counted, History!BucketOf
<1>3. CASE History!Tick
  <2>1. now' \in 1..HistoryTime /\ now <= now' /\ now \in Nat /\ now' \in Nat
    BY <1>3 DEF History!Tick, HistoryInv, History!HistoryAssumption
  <2>. DEFINE C == now' \div Bucket
  <2>2. History!BucketOf(now)' = C /\ C \in Nat /\ B <= C
    <3>1. Bucket \in Nat \ {0}
      BY DEF History!HistoryAssumption
    <3>2. now' \div Bucket \in Nat /\ now \div Bucket <= now' \div Bucket
      BY <2>1, <3>1, LaterBuckets
    <3>. QED BY <3>2 DEF History!BucketOf
  <2>. HIDE DEF B, C
  <2>3. Newest'
    <3>1. acc.count > 0 => acc.bucket <= C
      BY <1>1, <2>2 DEF HistoryInv, Newest, B
    <3>2. ASSUME acc.count = 0, NEW b \in Bs, b > B
          PROVE  taken[b] = 0
      BY <3>2 DEF HistoryInv, Newest, B
    <3>3. C \in Bs
      BY TimesHaveBuckets, <2>1 DEF C
    <3>4. acc.count = 0 /\ C \notin torn => taken[C] = 0
      BY <1>1, <2>2, <3>2, <3>3 DEF HistoryInv, Newest, B
    <3>5. \A b \in Bs : b > (IF acc.count > 0 THEN acc.bucket ELSE C) => taken[b] = 0
      BY <1>1, <2>2, <3>2 DEF HistoryInv, Newest
    <3>6. acc' = acc /\ taken' = taken /\ torn' = torn
      BY <1>3 DEF History!Tick
    <3>. QED BY <2>2, <3>1, <3>4, <3>5, <3>6 DEF Newest
  <2>4. \A b \in Bs : Counted(b)'
    BY <1>3 DEF History!Tick, HistoryInv, Counted
  <2>. QED BY <1>3, <2>1, <2>3, <2>4 DEF History!Tick, HistoryInv
<1>4. CASE History!Record
  <2>1. ~tx.open /\ tx.row = [b \in Bs |-> 0]
    BY <1>4 DEF History!Record, HistoryInv, History!NoTx
  <2>2. taken' = [taken EXCEPT ![B] = taken[B] + 1]
    BY <1>4 DEF History!Record
  <2>3. taken' \in [Bs -> Nat]
    BY <1>1, <2>2 DEF HistoryInv
  <2>4. /\ acc' \in [bucket : Bs, count : Nat]
        /\ acc'.bucket = B
        /\ acc'.count = IF acc.count = 0 \/ acc.bucket # B THEN 1 ELSE acc.count + 1
    BY <1>1, <1>4 DEF History!Record, History!Added, History!Begins, HistoryInv
  <2>5. PICK r : r = tx'.row
    OBVIOUS
  <2>6. /\ tx' \in [open : BOOLEAN, row : [Bs -> Nat]] /\ tx'.open
        /\ \A b \in Bs : b # B =>
             r[b] = IF acc.count > 0 /\ acc.bucket = b THEN acc.count ELSE 0
        /\ r[B] \in {0, acc'.count}
    <3>. DEFINE Left == History!LeftBucket
    <3>1. Left = IF (acc.count = 0 \/ acc.bucket # B) /\ acc.count > 0
                 THEN [tx.row EXCEPT ![acc.bucket] = acc.count] ELSE tx.row
      BY DEF History!LeftBucket, History!Written, History!Begins
    <3>2. /\ Left \in [Bs -> Nat]
          /\ \A b \in Bs : b # B => Left[b] = IF acc.count > 0 /\ acc.bucket = b THEN acc.count ELSE 0
          /\ Left[B] = 0
      BY <1>1, <2>1, <3>1 DEF HistoryInv
    <3>3. /\ tx' = [open |-> TRUE, row |-> r]
          /\ r = IF History!Due THEN [Left EXCEPT ![acc'.bucket] = acc'.count] ELSE Left
      BY <1>4, <2>5 DEF History!Record, History!Written
    <3>. HIDE DEF Left
    <3>. QED BY <1>1, <2>4, <3>2, <3>3
  <2>7. acc.count > 0 => acc.bucket <= B
    BY DEF HistoryInv, Newest
  <2>8. Newest'
    <3>1. History!BucketOf(now)' = B
      BY <1>4 DEF History!Record, History!BucketOf
    <3>2. acc'.count > 0
      BY <2>4 DEF HistoryInv
    <3>3. ASSUME NEW b \in Bs, b > B
          PROVE  taken'[b] = 0
      BY <1>1, <2>2, <2>7, <3>3 DEF HistoryInv, Newest
    <3>. QED BY <1>1, <2>4, <3>1, <3>2, <3>3 DEF Newest
  <2>9. ASSUME NEW b \in Bs
        PROVE  Counted(b)'
    <3>1. /\ filed' = filed /\ torn' = torn
          /\ b \in Nat /\ filed[b] \in Nat /\ taken[b] \in Nat /\ acc.count \in Nat
      BY <1>1, <1>4 DEF History!Record, HistoryInv
    <3>2. Counted(b) /\ tx.row[b] = 0
      BY <2>1 DEF HistoryInv
    <3>3. CASE b # B
      <4>1. taken'[b] = taken[b]
        BY <2>2, <3>3 DEF HistoryInv
      <4>2. tx'.row[b] = IF acc.count > 0 /\ acc.bucket = b THEN acc.count ELSE 0
        BY <2>5, <2>6, <3>3
      <4>3. acc'.bucket # b
        BY <2>4, <3>3
      <4>. QED BY <3>1, <3>2, <4>1, <4>2, <4>3 DEF Counted
    <3>4. CASE b = B
      <4>1. taken'[b] = taken[b] + 1
        BY <2>2, <3>4 DEF HistoryInv
      <4>2. acc.count = 0 \/ acc.bucket # B => acc'.count = 1
        BY <2>4
      <4>3. acc.count > 0 /\ acc.bucket # B => taken[b] = 0
        <5>1. ASSUME NEW x, x = B, acc.bucket # B, acc.count > 0
              PROVE  acc.bucket < x
          BY <1>1, <2>7, <5>1
        <5>. QED BY <1>1, <3>4, <5>1 DEF HistoryInv, Newest
      <4>6. acc.count = 0 /\ b \notin torn => taken[b] = 0
        BY <3>4 DEF HistoryInv, Newest
      <4>4. acc'.bucket = b /\ acc'.count \in Nat /\ acc'.count > 0
        BY <2>4, <3>1, <3>4
      <4>5. tx'.row[b] \in {0, acc'.count}
        BY <2>5, <2>6, <3>4
      <4>7. acc'.count <= taken'[b] /\ (b \notin torn => acc'.count = taken'[b])
        BY <2>4, <3>1, <3>2, <3>4, <4>1, <4>3, <4>6 DEF Counted
      <4>8. filed[b] <= taken'[b] /\ tx'.row[b] <= taken'[b]
        BY <3>1, <3>2, <4>1, <4>5, <4>7 DEF Counted
      <4>. QED BY <3>1, <4>4, <4>7, <4>8 DEF Counted
    <3>. QED BY <3>3, <3>4
  <2>10. flushed' \in 0..HistoryTime /\ now' = now /\ faults' = faults /\ filed' = filed /\ torn' = torn
    BY <1>4 DEF History!Record, HistoryInv
  <2>. QED BY <2>3, <2>4, <2>6, <2>8, <2>9, <2>10 DEF HistoryInv
<1>5. CASE History!Commit
  <2>1. filed' = [b \in Bs |-> IF tx.row[b] > 0 THEN tx.row[b] ELSE filed[b]] /\ tx' = History!NoTx
    BY <1>5 DEF History!Commit
  <2>2. filed' \in [Bs -> Nat]
    BY <2>1 DEF HistoryInv
  <2>3. tx' \in [open : BOOLEAN, row : [Bs -> Nat]] /\ \A b \in Bs : tx'.row[b] = 0
    BY <2>1 DEF History!NoTx
  <2>4. \A b \in Bs : Counted(b)'
    BY <1>5, <2>1, <2>3 DEF History!Commit, HistoryInv, Counted
  <2>5. Newest'
    BY <1>5 DEF History!Commit, HistoryInv, Newest, History!BucketOf
  <2>. QED BY <1>5, <2>1, <2>2, <2>3, <2>4, <2>5 DEF History!Commit, HistoryInv
<1>6. CASE History!Rollback
  <2>1. /\ tx' = History!NoTx /\ tx' \in [open : BOOLEAN, row : [Bs -> Nat]]
        /\ ~tx'.open /\ \A b \in Bs : tx'.row[b] = 0
    BY <1>6 DEF History!Rollback, History!NoTx
  <2>2. faults' \in 0..MaxFaults
    BY <1>6 DEF History!Rollback, HistoryInv, History!HistoryAssumption
  <2>3. \A b \in Bs : Counted(b)'
    BY <1>6, <2>1 DEF History!Rollback, HistoryInv, Counted
  <2>4. Newest'
    BY <1>6 DEF History!Rollback, HistoryInv, Newest, History!BucketOf
  <2>. QED BY <1>6, <2>1, <2>2, <2>3, <2>4 DEF History!Rollback, HistoryInv
<1>7. CASE History!Restart
  <2>1. /\ tx' = History!NoTx /\ tx' \in [open : BOOLEAN, row : [Bs -> Nat]]
        /\ ~tx'.open /\ \A b \in Bs : tx'.row[b] = 0
    BY <1>7 DEF History!Restart, History!NoTx
  <2>2. faults' \in 0..MaxFaults /\ flushed' \in 0..HistoryTime
    BY <1>7 DEF History!Restart, HistoryInv, History!HistoryAssumption
  <2>3. acc' \in [bucket : Bs, count : Nat] /\ acc'.count = 0
    BY <1>1, <1>7 DEF History!Restart, History!NoAcc
  <2>4. torn' \subseteq Bs
    BY <1>7 DEF History!Restart, HistoryInv
  <2>5. \A b \in Bs : Counted(b)'
    BY <1>7, <2>1, <2>3 DEF History!Restart, HistoryInv, Counted
  <2>6. Newest'
    <3>1. History!BucketOf(now)' = B /\ taken' = taken /\ torn \subseteq torn'
      BY <1>7 DEF History!Restart, History!BucketOf
    <3>2. acc.count > 0 => acc.bucket \in torn'
      BY <1>7 DEF History!Restart
    <3>3. acc.count > 0 => acc.bucket <= B
      BY DEF HistoryInv, Newest
    <3>. HIDE DEF B
    <3>4. \A b \in Bs : b > B => taken[b] = 0
      BY <1>1, <3>3 DEF HistoryInv, Newest, B
    <3>5. B \notin torn' => taken[B] = 0
      BY <1>1, <3>1, <3>2, <3>3 DEF HistoryInv, Newest, B
    <3>. QED BY <2>3, <3>1, <3>4, <3>5 DEF Newest
  <2>. QED BY <1>7, <2>1, <2>2, <2>3, <2>4, <2>5, <2>6 DEF History!Restart, HistoryInv
<1>. QED BY <1>2, <1>3, <1>4, <1>5, <1>6, <1>7 DEF History!Next

(* No bucket takes more samples than the bound.                            *)
Capped == \A b \in History!Buckets : taken[b] <= MaxSamples

LEMMA CappedAtStart == ASSUME History!HistoryAssumption, History!Init PROVE Capped
BY DEF History!HistoryAssumption, History!Init, Capped

LEMMA CappedStays ==
  ASSUME History!HistoryAssumption, HistoryInv, Capped, [History!Next]_History!vars
  PROVE  Capped'
<1>1. CASE History!Record
  <2>1. /\ taken' = [taken EXCEPT ![History!BucketOf(now)] = @ + 1]
        /\ taken[History!BucketOf(now)] < MaxSamples
    BY <1>1 DEF History!Record
  <2>2. taken \in [History!Buckets -> Nat] /\ MaxSamples \in Nat
    BY DEF HistoryInv, History!HistoryAssumption
  <2>. QED BY <2>1, <2>2 DEF Capped
<1>2. CASE ~ History!Record
  BY <1>2 DEF History!Next, History!Tick, History!Commit, History!Rollback, History!Restart,
    History!vars, Capped
<1>. QED BY <1>1, <1>2

(* With it the counts are in their ranges.                                 *)
LEMMA HistoryTyped ==
  ASSUME History!HistoryAssumption, HistoryInv, Capped
  PROVE  History!TypeOK
<1>1. MaxSamples \in Nat
  BY DEF History!HistoryAssumption
<1>2. \A b \in History!Buckets : /\ taken[b] \in 0..MaxSamples /\ filed[b] \in 0..MaxSamples
                               /\ tx.row[b] \in 0..MaxSamples
  <2>1. TAKE b \in History!Buckets
  <2>2. taken[b] \in Nat /\ filed[b] \in Nat /\ tx.row[b] \in Nat
    BY DEF HistoryInv
  <2>3. taken[b] <= MaxSamples /\ filed[b] <= taken[b] /\ tx.row[b] <= taken[b]
    BY DEF HistoryInv, Capped, Counted
  <2>. QED BY <1>1, <2>2, <2>3
<1>3. acc.count \in 0..MaxSamples
  <2>1. acc.count \in Nat /\ acc.bucket \in History!Buckets
    BY DEF HistoryInv
  <2>2. acc.count > 0 => acc.count <= taken[acc.bucket]
    BY <2>1 DEF HistoryInv, Counted
  <2>. QED BY <1>1, <1>2, <2>1, <2>2
<1>4. acc \in [bucket : History!Buckets, count : 0..MaxSamples]
  BY <1>3 DEF HistoryInv
<1>5. /\ taken \in [History!Buckets -> 0..MaxSamples] /\ filed \in [History!Buckets -> 0..MaxSamples]
      /\ tx \in [open : BOOLEAN, row : [History!Buckets -> 0..MaxSamples]]
  BY <1>2 DEF HistoryInv
<1>. QED BY <1>4, <1>5 DEF HistoryInv, History!TypeOK

(* The invariant makes every closed bucket whole.                          *)
LEMMA HistoryWhole ==
  ASSUME HistoryInv
  PROVE  History!BucketsAreWhole
<1>1. ASSUME NEW b \in History!Buckets, b \notin torn, ~tx.open, acc.count > 0, b < acc.bucket
      PROVE  filed[b] = taken[b]
  <2>1. tx.row[b] = 0
    BY <1>1 DEF HistoryInv, History!NoTx
  <2>2. b # acc.bucket
    BY <1>1 DEF HistoryInv, History!Buckets
  <2>. QED BY <1>1, <2>1, <2>2 DEF HistoryInv, Counted
<1>. QED BY <1>1 DEF HistoryInv, Counted, History!BucketsAreWhole

-----------------------------------------------------------------------------
(***************************************************************************)
(* Mt5Tradability.                                                         *)
(***************************************************************************)
(* A quarantine on record is in Redis at least as long, and no quarantine  *)
(* reaches beyond the one that would be set now.                           *)
Held ==
  /\ \A s \in Sides : trusted /\ barred[s] > now => key[s] >= barred[s]
  /\ \A s \in Sides : /\ barred[s] <= now + Quarantine
                      /\ key[s] <= now + Quarantine /\ pending[s] <= now + Quarantine

Asked == [step : {"idle", "session", "checked", "held", "stored", "passed"},
          action : Gate!Actions, side : Sides \cup {"buy"}]

GateInv ==
  /\ Gate!TypeOK /\ Held
  /\ gate \in Asked
  /\ gate.step # "idle" => gate.side \in Sides

Update == [at : Gate!Moment, side : Sides, allowed : BOOLEAN]

(* The times of the gate are numbers.                                      *)
LEMMA GateTimes ==
  ASSUME Gate!GateAssumption, Gate!TypeOK
  PROVE  /\ now \in Nat /\ now <= MaxTime /\ now \in Gate!Moment
         /\ MaxTime \in Nat /\ Quarantine \in Nat
         /\ \A s \in Sides : barred[s] \in Nat /\ key[s] \in Nat /\ pending[s] \in Nat
<1>1. MaxTime \in Nat /\ Quarantine \in Nat
  BY DEF Gate!GateAssumption
<1>2. 0 .. MaxTime + Quarantine \subseteq Nat
  BY <1>1
<1>. QED BY <1>1, <1>2 DEF Gate!TypeOK, Gate!Moment

(* At the start nothing is barred.                                         *)
LEMMA GateInit ==
  ASSUME Gate!GateAssumption, Gate!Init
  PROVE  GateInv
<1>1. MaxTime \in Nat /\ Quarantine \in Nat /\ MaxLosses \in Nat /\ MaxChanges \in Nat
  BY DEF Gate!GateAssumption
<1>2. now \in Gate!Moment /\ losses \in 0 .. MaxLosses /\ changes \in 0 .. MaxChanges
  BY <1>1 DEF Gate!Init, Gate!Moment
<1>3. key \in [Sides -> 0 .. MaxTime + Quarantine] /\ barred = key /\ pending = key
  BY <1>1 DEF Gate!Init
<1>4. Gate!TypeOK
  BY <1>2, <1>3 DEF Gate!Init, Gate!TypeOK, Gate!GateAssumption, Gate!NoGate
<1>5. Held
  BY <1>1 DEF Gate!Init, Held
<1>. QED BY <1>4, <1>5 DEF Gate!Init, GateInv, Gate!NoGate, Gate!Actions, Asked

(* A step that leaves clock and quarantines alone.                         *)
LEMMA StillHeld ==
  ASSUME Held, UNCHANGED <<now, key, barred, pending, trusted>>
  PROVE  Held'
BY DEF Held

(* An update that begins has the type of one.                              *)
LEMMA BegunUpdate ==
  ASSUME Gate!GateAssumption, Gate!TypeOK, NEW p, NEW s \in Sides, NEW yes \in BOOLEAN,
         Gate!BeginUpdate(p, s, yes)
  PROVE  draft' \in [Gate!Processes -> {Gate!None} \cup Update]
<1>1. [at |-> now, side |-> s, allowed |-> yes /\ ~Gate!Blocked(s)] \in Update
  BY DEF Gate!TypeOK, Update, Gate!Blocked
<1>. QED BY <1>1 DEF Gate!TypeOK, Gate!BeginUpdate, Update

(* An update that ends writes what has the type of a state.                *)
LEMMA EndedUpdate ==
  ASSUME Gate!TypeOK, NEW p \in Gate!Processes, Gate!EndUpdate(p)
  PROVE  /\ states' \in [Sides -> {Gate!None} \cup [at : Gate!Moment, allowed : BOOLEAN]]
         /\ draft' \in [Gate!Processes -> {Gate!None} \cup Update]
<1>1. draft[p] \in Update
  BY DEF Gate!TypeOK, Gate!EndUpdate, Update
<1>2. [at |-> draft[p].at, allowed |-> draft[p].allowed] \in [at : Gate!Moment, allowed : BOOLEAN]
  BY <1>1 DEF Update
<1>. QED BY <1>1, <1>2 DEF Gate!TypeOK, Gate!EndUpdate, Update

(* No update, refresh, loss of Redis or change of the market disturbs it.  *)
LEMMA GateStep ==
  ASSUME Gate!GateAssumption, GateInv, [Gate!Next]_Gate!vars
  PROVE  GateInv'
<1>. USE DEF GateInv
<1>0. /\ now \in Nat /\ now <= MaxTime /\ now \in Gate!Moment
      /\ MaxTime \in Nat /\ Quarantine \in Nat
      /\ \A s \in Sides : barred[s] \in Nat /\ key[s] \in Nat /\ pending[s] \in Nat
  BY GateTimes
<1>1. CASE UNCHANGED Gate!vars
  <2>1. Held'
    BY <1>1, StillHeld DEF Gate!vars
  <2>. QED BY <1>1, <2>1 DEF Gate!vars, Gate!TypeOK, Gate!Moment
<1>2. ASSUME NEW action \in Gate!Actions, NEW side \in Sides, Gate!AskSession(action, side)
      PROVE  GateInv'
  <2>1. Held'
    BY <1>2, StillHeld DEF Gate!AskSession
  <2>2. gate' = [step |-> "session", action |-> action, side |-> side] /\ gate' \in Asked
    BY <1>2 DEF Gate!AskSession, Asked
  <2>3. calendar \in {"none", "normal_trade"} => Gate!Remembered.mode # "disabled"
    BY <1>2 DEF Gate!AskSession, Gate!SessionAllows, Gate!Permitted
  <2>4. session' \in {Gate!None} \cup [at : Gate!Moment, mode : Modes]
    <3>1. CASE calendar \in {"none", "normal_trade"}
      <4>1. session' = Gate!Remembered
        BY <1>2, <3>1 DEF Gate!AskSession
      <4>2. CASE Gate!Remembered = session
        BY <4>1, <4>2 DEF Gate!TypeOK
      <4>3. CASE Gate!Remembered = [at |-> now, mode |-> IF ticking THEN mode ELSE "disabled"]
        <5>1. ticking
          BY <2>3, <3>1, <4>3
        <5>. QED BY <1>0, <4>1, <4>3, <5>1 DEF Gate!TypeOK
      <4>. QED BY <4>2, <4>3 DEF Gate!Remembered
    <3>2. CASE calendar \notin {"none", "normal_trade"}
      BY <1>2, <3>2 DEF Gate!AskSession, Gate!TypeOK
    <3>. QED BY <3>1, <3>2
  <2>. QED BY <1>2, <2>1, <2>2, <2>4 DEF Gate!AskSession, Gate!TypeOK, Gate!Moment
<1>3. CASE Gate!AskCheck
  <2>1. Held'
    BY <1>3, StillHeld DEF Gate!AskCheck
  <2>2. PICK yes \in Gate!CheckAnswers(gate.action, gate.side) :
          /\ Gate!BeginUpdate("worker", gate.side, yes)
          /\ gate' = [gate EXCEPT !.step = IF yes THEN "checked" ELSE "held"]
    BY <1>3 DEF Gate!AskCheck
  <2>3. gate.side \in Sides /\ yes \in BOOLEAN
    BY <1>3 DEF Gate!AskCheck, Gate!CheckAnswers
  <2>4. draft' \in [Gate!Processes -> {Gate!None} \cup Update]
    BY <2>2, <2>3, BegunUpdate
  <2>5. /\ gate' \in Asked
        /\ gate'.side \in Sides /\ gate'.step \in {"checked", "held"}
    BY <2>2, <2>3 DEF Asked
  <2>. QED BY <1>3, <2>1, <2>4, <2>5 DEF Gate!AskCheck, Gate!TypeOK, Gate!Moment, Update
<1>4. CASE Gate!StoreCheck
  <2>1. Held'
    BY <1>4, StillHeld DEF Gate!StoreCheck
  <2>2. /\ states' \in [Sides -> {Gate!None} \cup [at : Gate!Moment, allowed : BOOLEAN]]
        /\ draft' \in [Gate!Processes -> {Gate!None} \cup Update]
    BY <1>4, EndedUpdate DEF Gate!StoreCheck, Gate!Processes
  <2>3. /\ gate' \in Asked
        /\ gate'.step \in {"idle", "stored"} /\ (gate'.step # "idle" => gate'.side \in Sides)
    BY <1>4 DEF Gate!StoreCheck, Gate!NoGate, Gate!Actions, Asked
  <2>. QED BY <1>4, <2>1, <2>2, <2>3 DEF Gate!StoreCheck, Gate!TypeOK, Gate!Moment, Update
<1>5. CASE Gate!PassOrHold \/ Gate!Sent
  <2>1. Held'
    BY <1>5, StillHeld DEF Gate!PassOrHold, Gate!Sent
  <2>2. /\ gate' \in Asked
        /\ gate'.step \in {"idle", "passed"} /\ (gate'.step # "idle" => gate'.side \in Sides)
    BY <1>5 DEF Gate!PassOrHold, Gate!Sent, Gate!NoGate, Gate!Actions, Asked
  <2>. QED BY <1>5, <2>1, <2>2 DEF Gate!PassOrHold, Gate!Sent, Gate!TypeOK, Gate!Moment
<1>6. CASE Gate!LoadPersistentBlocks
  <2>1. /\ key' \in [Sides -> 0 .. MaxTime + Quarantine]
        /\ barred' \in [Sides -> 0 .. MaxTime + Quarantine]
    BY <1>0, <1>6 DEF Gate!LoadPersistentBlocks, Gate!Loaded, Gate!TypeOK
  <2>2. Held'
    BY <1>0, <1>6 DEF Gate!LoadPersistentBlocks, Gate!Loaded, Held
  <2>. QED BY <1>6, <2>1, <2>2 DEF Gate!LoadPersistentBlocks, Gate!TypeOK, Gate!Moment
<1>7. CASE Gate!RefreshSide
  <2>1. Held'
    BY <1>7, StillHeld DEF Gate!RefreshSide
  <2>2. draft' \in [Gate!Processes -> {Gate!None} \cup Update]
    BY <1>7, BegunUpdate DEF Gate!RefreshSide, Gate!TypeOK
  <2>. QED BY <1>7, <2>1, <2>2 DEF Gate!RefreshSide, Gate!TypeOK, Gate!Moment, Update
<1>8. CASE Gate!StoreRefresh
  <2>1. Held'
    BY <1>8, StillHeld DEF Gate!StoreRefresh
  <2>2. /\ states' \in [Sides -> {Gate!None} \cup [at : Gate!Moment, allowed : BOOLEAN]]
        /\ draft' \in [Gate!Processes -> {Gate!None} \cup Update]
    BY <1>8, EndedUpdate DEF Gate!StoreRefresh, Gate!Processes
  <2>. QED BY <1>8, <2>1, <2>2 DEF Gate!StoreRefresh, Gate!TypeOK, Gate!Moment, Update
<1>9. ASSUME NEW side \in Sides, Gate!Block(side)
      PROVE  GateInv'
  <2>1. /\ key' \in [Sides -> 0 .. MaxTime + Quarantine]
        /\ pending' \in [Sides -> 0 .. MaxTime + Quarantine]
    <3>1. now + Quarantine \in 0 .. MaxTime + Quarantine
      BY <1>0
    <3>. QED BY <1>9, <3>1 DEF Gate!Block, Gate!TypeOK
  <2>2. states' \in [Sides -> {Gate!None} \cup [at : Gate!Moment, allowed : BOOLEAN]]
    BY <1>0, <1>9 DEF Gate!Block, Gate!TypeOK
  <2>3. Held'
    BY <1>0, <1>9 DEF Gate!Block, Held, Gate!TypeOK
  <2>. QED BY <1>9, <2>1, <2>2, <2>3 DEF Gate!Block, Gate!TypeOK, Gate!Moment
<1>10. ASSUME NEW side \in Sides, Gate!Commit(side)
       PROVE  GateInv'
  <2>0. pending[side] \in 0 .. MaxTime + Quarantine /\ 0 \in 0 .. MaxTime + Quarantine
    BY <1>0 DEF Gate!TypeOK
  <2>1. /\ pending' = [pending EXCEPT ![side] = 0] /\ barred' = [barred EXCEPT ![side] = pending[side]]
        /\ trusted' = (trusted /\ key[side] = pending[side]) /\ now' = now /\ key' = key
    BY <1>10 DEF Gate!Commit
  <2>2. /\ pending' \in [Sides -> 0 .. MaxTime + Quarantine]
        /\ barred' \in [Sides -> 0 .. MaxTime + Quarantine]
    BY <2>0, <2>1 DEF Gate!TypeOK
  <2>3. trusted' \in BOOLEAN /\ (trusted' => trusted /\ key[side] = pending[side])
    BY <2>1, Zenon
  <2>4. \A s \in Sides : /\ barred'[s] = IF s = side THEN pending[side] ELSE barred[s]
                         /\ pending'[s] = IF s = side THEN 0 ELSE pending[s]
    BY <2>1 DEF Gate!TypeOK
  <2>5. Held'
    BY <1>0, <2>1, <2>3, <2>4 DEF Held
  <2>. QED BY <1>10, <2>2, <2>3, <2>5 DEF Gate!Commit, Gate!TypeOK, Gate!Moment
<1>11. ASSUME NEW side \in Sides, Gate!Rollback(side)
       PROVE  GateInv'
  <2>1. pending' \in [Sides -> 0 .. MaxTime + Quarantine]
    BY <1>0, <1>11 DEF Gate!Rollback, Gate!TypeOK
  <2>2. Held'
    BY <1>0, <1>11 DEF Gate!Rollback, Held, Gate!TypeOK
  <2>. QED BY <1>11, <2>1, <2>2 DEF Gate!Rollback, Gate!TypeOK, Gate!Moment
<1>12. CASE Gate!LoseRedis
  <2>1. key' \in [Sides -> 0 .. MaxTime + Quarantine]
    BY <1>0, <1>12 DEF Gate!LoseRedis
  <2>2. losses' \in 0 .. MaxLosses
    BY <1>12 DEF Gate!LoseRedis, Gate!TypeOK, Gate!GateAssumption
  <2>3. Held'
    BY <1>0, <1>12 DEF Gate!LoseRedis, Held
  <2>. QED BY <1>12, <2>1, <2>2, <2>3 DEF Gate!LoseRedis, Gate!TypeOK, Gate!Moment
<1>13. CASE Gate!Market
  <2>1. Held'
    BY <1>13, StillHeld DEF Gate!Market
  <2>2. changes' \in 0 .. MaxChanges
    BY <1>13 DEF Gate!Market, Gate!TypeOK, Gate!GateAssumption
  <2>3. calendar' \in Calendars /\ mode' \in Modes /\ ticking' \in BOOLEAN
    BY <1>13 DEF Gate!Market, Gate!TypeOK
  <2>. QED BY <1>13, <2>1, <2>2, <2>3 DEF Gate!Market, Gate!TypeOK, Gate!Moment
<1>14. CASE Gate!Tick
  <2>1. now' \in Gate!Moment
    BY <1>0, <1>14 DEF Gate!Tick, Gate!Moment
  <2>2. Held'
    BY <1>0, <1>14 DEF Gate!Tick, Held
  <2>. QED BY <1>14, <2>1, <2>2 DEF Gate!Tick, Gate!TypeOK, Gate!Moment
<1>. QED BY <1>1, <1>2, <1>3, <1>4, <1>5, <1>6, <1>7, <1>8, <1>9, <1>10, <1>12, <1>13, <1>14, <1>11 DEF Gate!Next

(* The invariant makes both readers answer "not allowed" while the         *)
(* quarantine lasts.                                                       *)
LEMMA GateHolds ==
  ASSUME Gate!GateAssumption, GateInv
  PROVE  Gate!BlockHolds
<1>1. ASSUME NEW s \in Sides, trusted, barred[s] > now
      PROVE  Gate!Blocked(s)
  <2>1. now \in Nat /\ barred[s] \in Nat /\ key[s] \in Nat
    BY GateTimes DEF GateInv
  <2>. QED BY <1>1, <2>1 DEF GateInv, Held, Gate!Blocked
<1>. QED BY <1>1 DEF Gate!BlockHolds, Gate!IsFreshAllowed, Gate!AllowedSnapshot

-----------------------------------------------------------------------------
(***************************************************************************)
(* Mt5Schedule.                                                            *)
(***************************************************************************)
(* Days are counted without end; a window is open from its start on each of*)
(* its days for as long as it lasts.                                       *)
Start(item, d) == d * 2880 + item.start
Today(time) == time \div 2880
OpenOn(item, d, time) == Start(item, d) <= time /\ time < Start(item, d) + Schedule!Length(item)

(* Half minutes of a day and of a week.                                    *)
LEMMA DayAndWeek == Schedule!Day = 2880 /\ Schedule!Week = 20160
BY DEF Schedule!Day, Schedule!Week, Schedule!Minute

(* Days and weeks, in numbers.                                             *)
LEMMA DayBefore ==
  ASSUME NEW t \in Int, NEW n \in Int, NEW d \in Int, NEW s \in Int, NEW l \in Int,
         n * 2880 <= t, t < n * 2880 + 2880, 0 <= s, s <= 2880, l <= 2880,
         d * 2880 + s <= t, t < d * 2880 + s + l
  PROVE  d - n \in {-1, 0}
BY SMT

(* A start that is less than eight days after the beginning of a day, is   *)
(* on one of eight days.                                                   *)
LEMMA DayAfter ==
  ASSUME NEW t \in Int, NEW n \in Int, NEW d \in Int, NEW a \in Int, NEW s \in Int,
         n * 2880 <= t, t < s, s = d * 2880 + a, s < n * 2880 + 23040, 0 <= a, a <= 2880
  PROVE  d - n \in 0 .. 7
BY SMT

(* The rest of a time by the week.                                         *)
LEMMA RestOfWeek ==
  ASSUME NEW x \in Int, NEW y \in Int, NEW q \in Int, x = 20160 * q + y, 0 <= y, y < 20160
  PROVE  x % 20160 = y
BY SMT

(* The rest of a day by the week.                                          *)
LEMMA DayOfWeek ==
  ASSUME NEW d \in Int
  PROVE  \E q \in Int : d = 7 * q + (d % 7) /\ d % 7 \in 0 .. 6
<1>1. d \div 7 \in Int /\ d = 7 * (d \div 7) + (d % 7) /\ d % 7 \in 0 .. 6
  BY SMT
<1>. QED BY <1>1

(* A weekday is its own rest in every week.                                *)
LEMMA DayInWeek ==
  ASSUME NEW q \in Int, NEW day \in 0 .. 6
  PROVE  (7 * q + day) % 7 = day
BY SMT

(* The same window of another week is weeks away.                          *)
LEMMA WeeksApart ==
  ASSUME NEW t \in Int, NEW s \in Int, NEW q \in Int, NEW d \in Int, NEW day \in Int, d = 7 * q + day
  PROVE  t - (day * 2880 + s) = 20160 * q + (t - (d * 2880 + s))
BY SMT

(* A window lasts, and no longer than a day.                               *)
LEMMA Lengths ==
  ASSUME NEW item \in Schedule!Windows
  PROVE  /\ item.days \in SUBSET (0 .. 6) /\ item.days # {}
         /\ item.start \in Int /\ 0 <= item.start /\ item.start <= 2880
         /\ Schedule!Length(item) \in Int
         /\ 1 <= Schedule!Length(item) /\ Schedule!Length(item) <= 2880
         /\ item.end \in Int
         /\ Schedule!Length(item) = IF item.end <= item.start THEN item.end + 2880 - item.start
                                    ELSE item.end - item.start
<1>1. /\ item.days \in SUBSET (0 .. 6) /\ item.days # {} /\ Schedule!Length(item) > 0
      /\ item.start \in 0 .. Schedule!Day /\ item.end \in 0 .. Schedule!Day
  BY DEF Schedule!Windows, Schedule!Days
<1>2. \A n \in Int : \A i \in 0 .. n : i \in Int /\ 0 <= i /\ i <= n
  OBVIOUS
<1>3. /\ item.start \in Int /\ 0 <= item.start /\ item.start <= 2880
      /\ item.end \in Int /\ 0 <= item.end /\ item.end <= 2880
  <2>1. Schedule!Day \in Int
    BY DayAndWeek
  <2>2. /\ item.start \in Int /\ 0 <= item.start /\ item.start <= Schedule!Day
        /\ item.end \in Int /\ 0 <= item.end /\ item.end <= Schedule!Day
    BY <1>1, <1>2, <2>1
  <2>. QED BY <2>2, DayAndWeek
<1>4. Schedule!Length(item) = IF item.end <= item.start THEN item.end + 2880 - item.start
                              ELSE item.end - item.start
  BY DayAndWeek DEF Schedule!Length
<1>5. \A i, j, l \in Int : /\ l = (IF j <= i THEN j + 2880 - i ELSE j - i)
                           /\ 0 <= i /\ j <= 2880 /\ l > 0
                           => 1 <= l /\ l <= 2880
  OBVIOUS
<1>6. Schedule!Length(item) \in Int
  BY <1>3, <1>4
<1>. QED BY <1>1, <1>3, <1>4, <1>5, <1>6

(* The spans looked at, day by day.                                        *)
SpanOn(item, d) == [start |-> Start(item, d), end |-> Start(item, d) + Schedule!Length(item)]

(* The windows the code looks at are those of yesterday, today and         *)
(* tomorrow.                                                               *)
LEMMA SpansByDay ==
  ASSUME NEW item \in Schedule!Windows, NEW time \in Nat
  PROVE  Schedule!Spans(item, time) =
           {SpanOn(item, Today(time) + e) : e \in {x \in -1 .. 1 : (Today(time) + x) % 7 \in item.days}}
<1>1. PICK today \in Int : today = time \div 2880
  <2>1. time \div 2880 \in Int
    BY SMT
  <2>. QED BY <2>1
<1>2. ASSUME NEW e \in -1 .. 1
      PROVE  (IF (today + e) * 2880 + item.end <= (today + e) * 2880 + item.start
              THEN (today + e) * 2880 + item.end + 2880
              ELSE (today + e) * 2880 + item.end) = Start(item, today + e) + Schedule!Length(item)
  <2>1. \A a, b, c, n \in Int :
          c = (IF b <= a THEN b + 2880 - a ELSE b - a) =>
            (IF n + b <= n + a THEN n + b + 2880 ELSE n + b) = n + a + c
    OBVIOUS
  <2>2. (today + e) * 2880 \in Int
    BY <1>1
  <2>. QED BY <2>1, <2>2, Lengths DEF Start
<1>3. Schedule!Spans(item, time) =
        {[start |-> (today + e) * 2880 + item.start,
          end |-> IF (today + e) * 2880 + item.end <= (today + e) * 2880 + item.start
                  THEN (today + e) * 2880 + item.end + 2880
                  ELSE (today + e) * 2880 + item.end] :
           e \in {x \in -1 .. 1 : (today + x) % 7 \in item.days}}
  BY <1>1, DayAndWeek DEF Schedule!Spans
<1>4. Schedule!Spans(item, time) =
        {SpanOn(item, today + e) : e \in {x \in -1 .. 1 : (today + x) % 7 \in item.days}}
  BY <1>2, <1>3 DEF SpanOn, Start
<1>. QED BY <1>1, <1>4 DEF Today

(* The three days looked at are enough.                                    *)
LEMMA MatchesIsOpen ==
  ASSUME NEW W \in SUBSET Schedule!Windows, NEW time \in Nat
  PROVE  Schedule!Matches(W, time) <=> \E item \in W, d \in Int : d % 7 \in item.days /\ OpenOn(item, d, time)
<1>1. PICK today \in Nat : today = Today(time) /\ today * 2880 <= time /\ time < today * 2880 + 2880
  <2>1. time \div 2880 \in Nat /\ (time \div 2880) * 2880 <= time /\ time < (time \div 2880) * 2880 + 2880
    BY SMT
  <2>. QED BY <2>1 DEF Today
<1>2. ASSUME NEW item \in W, NEW d \in Int, OpenOn(item, d, time)
      PROVE  \E e \in -1 .. 1 : d = today + e
  <2>1. d - today \in {-1, 0}
    <3>1. PICK s \in Int, l \in Int : s = item.start /\ l = Schedule!Length(item)
      BY Lengths
    <3>2. 0 <= s /\ s <= 2880 /\ l <= 2880
      BY <3>1, Lengths
    <3>3. d * 2880 + s <= time /\ time < d * 2880 + s + l
      BY <1>2, <3>1 DEF OpenOn, Start
    <3>4. today * 2880 <= time /\ time < today * 2880 + 2880 /\ time \in Int /\ today \in Int
      BY <1>1
    <3>. QED BY <3>2, <3>3, <3>4, DayBefore
  <2>2. d - today \in -1 .. 1 /\ d = today + (d - today)
    BY <2>1
  <2>. QED BY <2>2
<1>3. Schedule!Matches(W, time) <=>
        \E item \in W, e \in -1 .. 1 : (today + e) % 7 \in item.days /\ OpenOn(item, today + e, time)
  <2>1. ASSUME NEW item \in W
        PROVE  Schedule!Spans(item, time) =
                 {SpanOn(item, today + e) : e \in {x \in -1 .. 1 : (today + x) % 7 \in item.days}}
    <3>1. item \in Schedule!Windows
      OBVIOUS
    <3>. QED BY <1>1, <3>1, SpansByDay
  <2>2. ASSUME NEW item \in W
        PROVE  (\E span \in Schedule!Spans(item, time) : span.start <= time /\ time < span.end) <=>
               (\E e \in -1 .. 1 : (today + e) % 7 \in item.days /\ OpenOn(item, today + e, time))
    <3>1. \A d : OpenOn(item, d, time) <=> SpanOn(item, d).start <= time /\ time < SpanOn(item, d).end
      BY DEF OpenOn, SpanOn
    <3>2. ASSUME NEW span \in Schedule!Spans(item, time), span.start <= time, time < span.end
          PROVE  \E e \in -1 .. 1 : (today + e) % 7 \in item.days /\ OpenOn(item, today + e, time)
      <4>1. PICK e \in {x \in -1 .. 1 : (today + x) % 7 \in item.days} : span = SpanOn(item, today + e)
        BY <2>1
      <4>. QED BY <3>1, <3>2, <4>1
    <3>3. ASSUME NEW e \in -1 .. 1, (today + e) % 7 \in item.days, OpenOn(item, today + e, time)
          PROVE  \E span \in Schedule!Spans(item, time) : span.start <= time /\ time < span.end
      <4>1. SpanOn(item, today + e) \in Schedule!Spans(item, time)
        BY <2>1, <3>3
      <4>. QED BY <3>1, <3>3, <4>1
    <3>. QED BY <3>2, <3>3
  <2>. QED BY <2>2 DEF Schedule!Matches
<1>4. \A e \in -1 .. 1 : today + e \in Int
  OBVIOUS
<1>. QED BY <1>2, <1>3, <1>4

(* ... and the calendar of the week is the same calendar.                  *)
LEMMA InsideIsOpen ==
  ASSUME NEW W \in SUBSET Schedule!Windows, NEW time \in Nat
  PROVE  Schedule!Inside(W, time) <=> \E item \in W, d \in Int : d % 7 \in item.days /\ OpenOn(item, d, time)
<1>1. ASSUME NEW item \in W, NEW day \in item.days,
             (time - (day * 2880 + item.start)) % 20160 < Schedule!Length(item)
      PROVE  \E d \in Int : d % 7 \in item.days /\ OpenOn(item, d, time)
  <2>1. day \in 0 .. 6 /\ item.start \in Int /\ Schedule!Length(item) \in Int
    BY Lengths
  <2>2. PICK x \in Int : x = time - (day * 2880 + item.start)
    BY <2>1
  <2>3. PICK q \in Int : x = 20160 * q + (x % 20160) /\ x % 20160 \in Int /\ 0 <= x % 20160
    <3>1. /\ x \div 20160 \in Int /\ x = 20160 * (x \div 20160) + (x % 20160)
          /\ x % 20160 \in Int /\ 0 <= x % 20160
      BY SMT
    <3>. QED BY <3>1
  <2>4. PICK d \in Int : d = 7 * q + day
    BY <2>1
  <2>5. d % 7 = day
    BY <2>1, <2>4, DayInWeek
  <2>6. time - (day * 2880 + item.start) = 20160 * q + (time - (d * 2880 + item.start))
    BY <2>1, <2>4, WeeksApart
  <2>7. \A y, l \in Int : x = 20160 * q + y /\ x % 20160 < l => 0 <= y /\ y < l
    BY <2>3
  <2>8. time - (d * 2880 + item.start) \in Int
    BY <2>1
  <2>12. x % 20160 < Schedule!Length(item) /\ x = 20160 * q + (time - (d * 2880 + item.start))
    BY <1>1, <2>2, <2>6
  <2>9. 0 <= time - (d * 2880 + item.start) /\ time - (d * 2880 + item.start) < Schedule!Length(item)
    BY <2>1, <2>7, <2>8, <2>12
  <2>10. \A t, n, s, l \in Int : 0 <= t - (n + s) /\ t - (n + s) < l => n + s <= t /\ t < n + s + l
    OBVIOUS
  <2>11. OpenOn(item, d, time)
    BY <2>1, <2>9, <2>10 DEF OpenOn, Start
  <2>. QED BY <2>5, <2>11
<1>2. ASSUME NEW item \in W, NEW d \in Int, d % 7 \in item.days, OpenOn(item, d, time)
      PROVE  (time - ((d % 7) * 2880 + item.start)) % 20160 < Schedule!Length(item)
  <2>1. item.start \in Int /\ Schedule!Length(item) \in Int /\ Schedule!Length(item) <= 2880
    BY Lengths
  <2>2. PICK q \in Int : d = 7 * q + (d % 7) /\ d % 7 \in 0 .. 6
    BY DayOfWeek
  <2>3. time - ((d % 7) * 2880 + item.start) = 20160 * q + (time - (d * 2880 + item.start))
    BY <2>1, <2>2, WeeksApart
  <2>4. \A t, n, s, l \in Int : n + s <= t /\ t < n + s + l => 0 <= t - (n + s) /\ t - (n + s) < l
    OBVIOUS
  <2>5. /\ time - (d * 2880 + item.start) \in Int
        /\ 0 <= time - (d * 2880 + item.start) /\ time - (d * 2880 + item.start) < Schedule!Length(item)
    BY <1>2, <2>1, <2>4 DEF OpenOn, Start
  <2>6. time - ((d % 7) * 2880 + item.start) \in Int
    BY <2>1, <2>2
  <2>7. (time - ((d % 7) * 2880 + item.start)) % 20160 = time - (d * 2880 + item.start)
    BY <2>1, <2>3, <2>5, <2>6, RestOfWeek
  <2>. QED BY <2>5, <2>7
<1>. QED BY <1>1, <1>2, DayAndWeek DEF Schedule!Inside

-----------------------------------------------------------------------------
(* A week has every day.                                                   *)
LEMMA DayAhead ==
  ASSUME NEW n \in Int, NEW day \in 0 .. 6
  PROVE  \E k \in 1 .. 7 : (n + k) % 7 = day
<1>1. PICK x \in Int : x = day - n - 1
  OBVIOUS
<1>2. PICK q \in Int : x = 7 * q + (x % 7) /\ x % 7 \in 0 .. 6
  BY DayOfWeek
<1>3. PICK k \in 1 .. 7 : k = (x % 7) + 1
  BY <1>2
<1>4. n + k = 7 * (0 - q) + day
  BY <1>1, <1>2, <1>3
<1>5. (7 * (0 - q) + day) % 7 = day
  BY DayInWeek
<1>. QED BY <1>4, <1>5

(* The starts looked through are those of windows, and the starts of the   *)
(* coming week are among them.                                             *)
StartsSeen(W, time) ==
  UNION {UNION {{span.start : span \in Schedule!Spans(item, time + offset * Schedule!Day)} :
                   item \in W} : offset \in 0 .. 7}

(* The starts the code looks at are those of today and the next seven      *)
(* days.                                                                   *)
LEMMA StartsByDay ==
  ASSUME NEW W \in SUBSET Schedule!Windows, NEW time \in Nat,
         NEW today \in Nat, today = Today(time)
  PROVE  /\ \A s \in StartsSeen(W, time) :
               \E item \in W, d \in Int : d % 7 \in item.days /\ s = Start(item, d)
         /\ \A item \in W, k \in 0 .. 7 :
               (today + k) % 7 \in item.days => Start(item, today + k) \in StartsSeen(W, time)
<1>1. ASSUME NEW item \in W, NEW offset \in 0 .. 7
      PROVE  Schedule!Spans(item, time + offset * Schedule!Day) =
               {SpanOn(item, (today + offset) + e) :
                  e \in {x \in -1 .. 1 : ((today + offset) + x) % 7 \in item.days}}
  <2>1. item \in Schedule!Windows
    OBVIOUS
  <2>2. time + offset * 2880 \in Nat
    OBVIOUS
  <2>3. today + offset = (time + offset * 2880) \div 2880
    BY SMT DEF Today
  <2>4. PICK t \in Nat : t = time + offset * 2880 /\ Today(t) = today + offset
    BY <2>2, <2>3 DEF Today
  <2>5. Schedule!Spans(item, t) =
          {SpanOn(item, Today(t) + e) : e \in {x \in -1 .. 1 : (Today(t) + x) % 7 \in item.days}}
    BY <2>1, SpansByDay
  <2>6. t = time + offset * Schedule!Day
    BY <2>4, DayAndWeek
  <2>. QED BY <2>4, <2>5, <2>6
<1>2. \A item, d : SpanOn(item, d).start = Start(item, d)
  BY DEF SpanOn
<1>3. ASSUME NEW item \in W, NEW offset \in 0 .. 7,
             NEW span \in Schedule!Spans(item, time + offset * Schedule!Day)
      PROVE  \E d \in Int : d % 7 \in item.days /\ span.start = Start(item, d)
  <2>1. PICK e \in -1 .. 1 : /\ ((today + offset) + e) % 7 \in item.days
                             /\ span = SpanOn(item, (today + offset) + e)
    BY <1>1, <1>3
  <2>2. (today + offset) + e \in Int
    OBVIOUS
  <2>. QED BY <1>2, <2>1, <2>2
<1>4. ASSUME NEW item \in W, NEW k \in 0 .. 7, (today + k) % 7 \in item.days
      PROVE  \E span \in Schedule!Spans(item, time + k * Schedule!Day) : span.start = Start(item, today + k)
  <2>1. (today + k) + 0 = today + k /\ 0 \in -1 .. 1
    OBVIOUS
  <2>2. SpanOn(item, (today + k) + 0) \in Schedule!Spans(item, time + k * Schedule!Day)
    BY <1>1, <1>4, <2>1
  <2>. QED BY <1>2, <2>1, <2>2
<1>5. ASSUME NEW s \in StartsSeen(W, time)
      PROVE  \E item \in W, d \in Int : d % 7 \in item.days /\ s = Start(item, d)
  <2>1. PICK offset \in 0 .. 7, item \in W :
           \E span \in Schedule!Spans(item, time + offset * Schedule!Day) : s = span.start
    BY <1>5 DEF StartsSeen
  <2>. QED BY <1>3, <2>1
<1>6. ASSUME NEW item \in W, NEW k \in 0 .. 7, (today + k) % 7 \in item.days
      PROVE  Start(item, today + k) \in StartsSeen(W, time)
  <2>1. PICK span \in Schedule!Spans(item, time + k * Schedule!Day) : span.start = Start(item, today + k)
    BY <1>4, <1>6
  <2>. QED BY <2>1 DEF StartsSeen
<1>. QED BY <1>5, <1>6

(* The next start found is an opening, and nothing opens before it.        *)
LEMMA NextStart ==
  ASSUME NEW W \in SUBSET Schedule!Windows, W # {}, NEW time \in Nat, ~Schedule!Matches(W, time),
         NEW n, n = Schedule!SecondsToNext(W, time)
  PROVE  /\ n \in Nat /\ n >= 1 /\ Schedule!Matches(W, time + n)
         /\ \A u \in Int : time < u /\ u < time + n => ~Schedule!Matches(W, u)
<1>1. PICK today \in Nat : today = Today(time) /\ today * 2880 <= time /\ time < today * 2880 + 2880
  <2>1. time \div 2880 \in Nat /\ (time \div 2880) * 2880 <= time /\ time < (time \div 2880) * 2880 + 2880
    BY SMT
  <2>. QED BY <2>1 DEF Today
<1>2. \A item \in W, d \in Int : Start(item, d) \in Int
  BY Lengths DEF Start
<1>10. /\ \A s \in StartsSeen(W, time) : \E i \in W, d \in Int : d % 7 \in i.days /\ s = Start(i, d)
       /\ \A i \in W, j \in 0 .. 7 : (today + j) % 7 \in i.days => Start(i, today + j) \in StartsSeen(W, time)
  <2>1. today = Today(time)
    BY <1>1
  <2>. QED BY <2>1, StartsByDay, Zenon
<1>. DEFINE later == {s - time : s \in {t \in StartsSeen(W, time) : t > time}}
<1>3. later \subseteq Nat /\ \A s \in StartsSeen(W, time) : s \in Int
  <2>1. \A s \in StartsSeen(W, time) : s \in Int
    BY <1>2, <1>10
  <2>2. \A s \in Int : s > time => s - time \in Nat
    OBVIOUS
  <2>. QED BY <2>1, <2>2
<1>4. PICK item \in W, k \in 1 .. 7 : (today + k) % 7 \in item.days
  <2>1. PICK item \in W : TRUE
    OBVIOUS
  <2>2. PICK day \in 0 .. 6 : day \in item.days
    BY Lengths
  <2>3. \E k \in 1 .. 7 : (today + k) % 7 = day
    BY DayAhead
  <2>. QED BY <2>2, <2>3
<1>5. /\ Start(item, today + k) - time \in later
      /\ Start(item, today + k) <= today * 2880 + 23040
  <2>1. Start(item, today + k) \in StartsSeen(W, time)
    BY <1>4, <1>10
  <2>2. (today + k) * 2880 + item.start > time /\ (today + k) * 2880 + item.start <= today * 2880 + 23040
    <3>1. item.start \in Int /\ 0 <= item.start /\ item.start <= 2880
      BY Lengths
    <3>2. \A a \in Int : 0 <= a /\ a <= 2880 =>
             (today + k) * 2880 + a > time /\ (today + k) * 2880 + a <= today * 2880 + 23040
      BY <1>1
    <3>. QED BY <3>1, <3>2
  <2>. QED BY <2>1, <2>2 DEF Start
<1>6. /\ n \in later /\ \A m \in later : n <= m
  <2>0. later # {}
    BY <1>5
  <2>1. \E x \in later : \A m \in later : x <= m
    BY <1>3, <2>0, Least, Zenon
  <2>2. n = CHOOSE x \in later : \A m \in later : x <= m
    <3>1. n = IF later = {} THEN Schedule!Never ELSE CHOOSE x \in later : \A m \in later : x <= m
      BY DEF Schedule!SecondsToNext, StartsSeen
    <3>. HIDE DEF later
    <3>2. later # {}
      BY <1>5
    <3>. QED BY <3>1, <3>2
  <2>. HIDE DEF later
  <2>. QED BY <2>1, <2>2
<1>7. n \in Nat /\ n >= 1 /\ time + n \in StartsSeen(W, time)
  BY <1>3, <1>6
<1>8. Schedule!Matches(W, time + n)
  <2>1. PICK i \in W, d \in Int : d % 7 \in i.days /\ time + n = Start(i, d)
    BY <1>7, <1>10
  <2>2. OpenOn(i, d, time + n)
    BY <1>2, <2>1, Lengths DEF OpenOn
  <2>3. time + n \in Nat
    BY <1>7
  <2>. QED BY <2>1, <2>2, <2>3, MatchesIsOpen
<1>9. ASSUME NEW u \in Int, time < u, u < time + n, Schedule!Matches(W, u)
      PROVE  FALSE
  <2>0. u \in Nat
    BY <1>9
  <2>1. PICK i \in W, d \in Int : d % 7 \in i.days /\ OpenOn(i, d, u)
    BY <1>9, <2>0, MatchesIsOpen
  <2>2. Start(i, d) \in Int /\ Start(i, d) <= u /\ u < Start(i, d) + Schedule!Length(i)
    BY <1>2, <2>1 DEF OpenOn
  <2>3. Schedule!Length(i) \in Int /\ i.start \in Int /\ 0 <= i.start /\ i.start <= 2880
    BY Lengths
  <2>4. time < Start(i, d)
    <3>1. SUFFICES ASSUME Start(i, d) <= time PROVE FALSE
      BY <2>2
    <3>2. OpenOn(i, d, time)
      BY <1>9, <2>2, <2>3, <3>1 DEF OpenOn
    <3>. QED BY <2>1, <3>2, MatchesIsOpen
  <2>5. n <= Start(item, today + k) - time
    BY <1>5, <1>6
  <2>6. PICK s \in Int : s = Start(i, d)
    BY <2>2
  <2>7. s = d * 2880 + i.start /\ s < today * 2880 + 23040
    <3>1. PICK p \in Int : p = Start(item, today + k)
      BY <1>2
    <3>2. s <= u /\ u < time + n /\ n <= p - time /\ p <= today * 2880 + 23040
      BY <1>5, <1>9, <2>2, <2>5, <2>6, <3>1
    <3>3. s < today * 2880 + 23040
      BY <1>7, <3>2
    <3>. QED BY <2>6, <3>3 DEF Start
  <2>8. d - today \in 0 .. 7
    <3>1. PICK a \in Int : a = i.start /\ 0 <= a /\ a <= 2880
      BY <2>3
    <3>2. time < s /\ s = d * 2880 + a
      BY <2>4, <2>6, <2>7, <3>1
    <3>. QED BY <1>1, <2>7, <3>1, <3>2, DayAfter
  <2>9. PICK j \in 0 .. 7 : d = today + j
    <3>1. d = today + (d - today)
      OBVIOUS
    <3>. QED BY <2>8, <3>1
  <2>10. Start(i, d) \in StartsSeen(W, time)
    BY <1>10, <2>1, <2>9
  <2>11. Start(i, d) - time \in later
    BY <2>4, <2>10
  <2>. HIDE DEF later
  <2>12. n <= s - time
    BY <1>6, <2>6, <2>11
  <2>. QED BY <1>7, <1>9, <2>2, <2>6, <2>12
<1>. QED BY <1>7, <1>8, <1>9

-----------------------------------------------------------------------------
(* Every calendar that can be in force is made of windows.                 *)
Calendar == [regular : SUBSET Schedule!Windows, closeOnly : SUBSET Schedule!Windows,
             quoteOnly : SUBSET Schedule!Windows]

(* What Window makes of days and times is a window.                        *)
LEMMA WindowIs ==
  ASSUME NEW days \in SUBSET Schedule!Days, days # {}, NEW a \in Int, NEW b \in Int,
         0 <= a, a < 2880, 0 <= b, b <= 2880
  PROVE  Schedule!Window(days, a, b) \in Schedule!Windows
<1>1. Schedule!Window(days, a, b) = [days |-> days, start |-> a, end |-> b]
  BY DEF Schedule!Window
<1>2. Schedule!Length([days |-> days, start |-> a, end |-> b]) > 0
  BY DayAndWeek DEF Schedule!Length
<1>3. a \in 0 .. Schedule!Day /\ b \in 0 .. Schedule!Day
  BY DayAndWeek
<1>4. days \in (SUBSET Schedule!Days) \ {{}}
  OBVIOUS
<1>. QED BY <1>1, <1>2, <1>3, <1>4 DEF Schedule!Windows

(* The days of the templates are days.                                     *)
LEMMA DaysOfTemplates ==
  /\ Schedule!Days \in SUBSET Schedule!Days /\ Schedule!Days # {}
  /\ Schedule!MonThu \in SUBSET Schedule!Days /\ Schedule!MonThu # {}
  /\ Schedule!MonFri \in SUBSET Schedule!Days /\ Schedule!MonFri # {}
  /\ Schedule!Fri \in SUBSET Schedule!Days /\ Schedule!Fri # {}
  /\ Schedule!Sun \in SUBSET Schedule!Days /\ Schedule!Sun # {}
BY DEF Schedule!Days, Schedule!MonThu, Schedule!MonFri, Schedule!Fri, Schedule!Sun

(* The times of the templates in half minutes.                             *)
LEMMA TimesOfTemplates ==
  /\ Schedule!At(10, 0) = 1200
  /\ Schedule!At(13, 40) = 1640
  /\ Schedule!At(19, 45) = 2370
  /\ Schedule!At(20, 45) = 2490
  /\ Schedule!At(20, 55) = 2510
  /\ Schedule!At(20, 58) = 2516
  /\ Schedule!At(20, 59) = 2518
  /\ Schedule!At(21, 0) = 2520
  /\ Schedule!At(21, 5) = 2530
  /\ Schedule!At(22, 0) = 2640
  /\ Schedule!At(22, 1) = 2642
  /\ Schedule!At(22, 2) = 2644
  /\ Schedule!At(22, 5) = 2650
  /\ Schedule!At(22, 10) = 2660
BY DEF Schedule!At, Schedule!Minute

(* Each template is a calendar.                                            *)
LEMMA PayloadIsCalendar ==
  ASSUME NEW t
  PROVE  Schedule!Payload(t) \in Calendar
<1>. USE DEF Calendar
<1>1. Schedule!Nothing \in Calendar
  BY DEF Schedule!Nothing
<1>2. CASE t \in {"always", "crypto_major"}
  <2>1. Schedule!Window(Schedule!Days, 0, Schedule!Day) \in Schedule!Windows
    BY WindowIs, DaysOfTemplates, TimesOfTemplates, DayAndWeek
  <2>. QED BY <1>2, <2>1 DEF Schedule!Payload, Schedule!Nothing
<1>3. CASE t = "fx"
  <2>1. Schedule!Window(Schedule!Sun, Schedule!At(21, 5), Schedule!Day) \in Schedule!Windows
    BY WindowIs, DaysOfTemplates, TimesOfTemplates, DayAndWeek
  <2>2. Schedule!Window(Schedule!MonThu, 0, Schedule!Day) \in Schedule!Windows
    BY WindowIs, DaysOfTemplates, TimesOfTemplates, DayAndWeek
  <2>3. Schedule!Window(Schedule!Fri, 0, Schedule!At(20, 59)) \in Schedule!Windows
    BY WindowIs, DaysOfTemplates, TimesOfTemplates, DayAndWeek
  <2>. QED BY <1>3, <2>1, <2>2, <2>3 DEF Schedule!Payload, Schedule!Nothing
<1>4. CASE t = "stock_us_close_only"
  <2>1. Schedule!Window(Schedule!MonFri, Schedule!At(13, 40), Schedule!At(19, 45)) \in Schedule!Windows
    BY WindowIs, DaysOfTemplates, TimesOfTemplates, DayAndWeek
  <2>2. Schedule!Window(Schedule!MonFri, Schedule!At(10, 0), Schedule!At(13, 40)) \in Schedule!Windows
    BY WindowIs, DaysOfTemplates, TimesOfTemplates, DayAndWeek
  <2>. QED BY <1>4, <2>1, <2>2 DEF Schedule!Payload, Schedule!Nothing
<1>5. CASE t = "index_us_jp"
  <2>1. Schedule!Window(Schedule!Sun, Schedule!At(22, 5), Schedule!Day) \in Schedule!Windows
    BY WindowIs, DaysOfTemplates, TimesOfTemplates, DayAndWeek
  <2>2. Schedule!Window(Schedule!MonThu, 0, Schedule!At(20, 59)) \in Schedule!Windows
    BY WindowIs, DaysOfTemplates, TimesOfTemplates, DayAndWeek
  <2>3. Schedule!Window(Schedule!MonThu, Schedule!At(22, 1), Schedule!Day) \in Schedule!Windows
    BY WindowIs, DaysOfTemplates, TimesOfTemplates, DayAndWeek
  <2>4. Schedule!Window(Schedule!Fri, 0, Schedule!At(20, 55)) \in Schedule!Windows
    BY WindowIs, DaysOfTemplates, TimesOfTemplates, DayAndWeek
  <2>5. Schedule!Window(Schedule!Sun, Schedule!At(22, 0), Schedule!At(22, 5)) \in Schedule!Windows
    BY WindowIs, DaysOfTemplates, TimesOfTemplates, DayAndWeek
  <2>6. Schedule!Window(Schedule!MonThu, Schedule!At(20, 59), Schedule!At(21, 0)) \in Schedule!Windows
    BY WindowIs, DaysOfTemplates, TimesOfTemplates, DayAndWeek
  <2>7. Schedule!Window(Schedule!MonThu, Schedule!At(22, 0), Schedule!At(22, 1)) \in Schedule!Windows
    BY WindowIs, DaysOfTemplates, TimesOfTemplates, DayAndWeek
  <2>8. Schedule!Window(Schedule!MonThu, Schedule!At(21, 0), Schedule!At(22, 0)) \in Schedule!Windows
    BY WindowIs, DaysOfTemplates, TimesOfTemplates, DayAndWeek
  <2>. QED BY <1>5, <2>1, <2>2, <2>3, <2>4, <2>5, <2>6, <2>7, <2>8 DEF Schedule!Payload, Schedule!Nothing
<1>6. CASE t = "xauusd"
  <2>1. Schedule!Window(Schedule!Sun, Schedule!At(22, 5), Schedule!Day) \in Schedule!Windows
    BY WindowIs, DaysOfTemplates, TimesOfTemplates, DayAndWeek
  <2>2. Schedule!Window(Schedule!MonThu, 0, Schedule!At(22, 0)) \in Schedule!Windows
    BY WindowIs, DaysOfTemplates, TimesOfTemplates, DayAndWeek
  <2>3. Schedule!Window(Schedule!MonThu, Schedule!At(22, 2), Schedule!Day) \in Schedule!Windows
    BY WindowIs, DaysOfTemplates, TimesOfTemplates, DayAndWeek
  <2>4. Schedule!Window(Schedule!Fri, 0, Schedule!At(20, 58)) \in Schedule!Windows
    BY WindowIs, DaysOfTemplates, TimesOfTemplates, DayAndWeek
  <2>5. Schedule!Window(Schedule!Sun, Schedule!At(22, 1) + 1, Schedule!At(22, 5)) \in Schedule!Windows
    BY WindowIs, DaysOfTemplates, TimesOfTemplates, DayAndWeek
  <2>6. Schedule!Window(Schedule!MonThu, Schedule!At(22, 0) + 1, Schedule!At(22, 2)) \in Schedule!Windows
    BY WindowIs, DaysOfTemplates, TimesOfTemplates, DayAndWeek
  <2>7. Schedule!Window(Schedule!MonThu, Schedule!At(20, 58), Schedule!At(22, 0) + 1) \in Schedule!Windows
    BY WindowIs, DaysOfTemplates, TimesOfTemplates, DayAndWeek
  <2>. QED BY <1>6, <2>1, <2>2, <2>3, <2>4, <2>5, <2>6, <2>7 DEF Schedule!Payload, Schedule!Nothing
<1>7. CASE t = "energy"
  <2>1. Schedule!Window(Schedule!Sun, Schedule!At(22, 10), Schedule!Day) \in Schedule!Windows
    BY WindowIs, DaysOfTemplates, TimesOfTemplates, DayAndWeek
  <2>2. Schedule!Window(Schedule!MonThu, 0, Schedule!At(20, 59)) \in Schedule!Windows
    BY WindowIs, DaysOfTemplates, TimesOfTemplates, DayAndWeek
  <2>3. Schedule!Window(Schedule!MonThu, Schedule!At(22, 1), Schedule!Day) \in Schedule!Windows
    BY WindowIs, DaysOfTemplates, TimesOfTemplates, DayAndWeek
  <2>4. Schedule!Window(Schedule!Fri, 0, Schedule!At(20, 45)) \in Schedule!Windows
    BY WindowIs, DaysOfTemplates, TimesOfTemplates, DayAndWeek
  <2>5. Schedule!Window(Schedule!MonThu, Schedule!At(20, 59), Schedule!At(22, 1)) \in Schedule!Windows
    BY WindowIs, DaysOfTemplates, TimesOfTemplates, DayAndWeek
  <2>. QED BY <1>7, <2>1, <2>2, <2>3, <2>4, <2>5 DEF Schedule!Payload, Schedule!Nothing
<1>8. CASE t \notin {"always", "crypto_major", "fx", "stock_us_close_only", "index_us_jp", "xauusd", "energy"}
  BY <1>1, <1>8 DEF Schedule!Payload
<1>. QED BY <1>2, <1>3, <1>4, <1>5, <1>6, <1>7, <1>8

(* The calendar in force is one, and its moments are times.                *)
LEMMA EffectiveIsCalendar ==
  ASSUME Schedule!ScheduleAssumption, Schedule!TypeOK
  PROVE  /\ Schedule!Effective \in Calendar
         /\ \A t \in Schedule!Moments : t \in Nat
         /\ now \in Nat
<1>1. Schedule!Nothing \in Calendar /\ Own \in Calendar
  BY DEF Schedule!Nothing, Calendar, Schedule!ScheduleAssumption
<1>2. stored \in Calendar
  BY <1>1, PayloadIsCalendar DEF Schedule!TypeOK
<1>3. Schedule!Effective \in Calendar
  BY <1>2, PayloadIsCalendar DEF Schedule!Effective
<1>4. \A t \in Schedule!TimesOfDay : t \in Int
  <2>1. \A w \in Calendar : Schedule!Kinds(w) \subseteq Schedule!Windows
    BY DEF Schedule!Kinds, Calendar
  <2>2. \A w \in {Schedule!Payload(t) : t \in Templates} \cup {Own} : w \in Calendar
    BY <1>1, PayloadIsCalendar
  <2>3. \A i \in Schedule!Windows : i.start \in Int /\ i.end \in Int
    BY Lengths
  <2>. QED BY <2>1, <2>2, <2>3 DEF Schedule!TimesOfDay
<1>5. \A t \in Schedule!Moments : t \in Nat
  <2>1. ASSUME NEW d \in 0 .. 6, NEW x \in Int
        PROVE  20160 + d * 2880 + (x % 2880) \in Nat
    <3>1. x % 2880 \in Nat
      BY SMT
    <3>. QED BY <3>1
  <2>2. \A x \in Int, near \in {-1, 0, 1} : x + near \in Int
    OBVIOUS
  <2>. QED BY <1>4, <2>1, <2>2, DayAndWeek DEF Schedule!Moments, Schedule!Days
<1>6. now \in Nat
  BY <1>5, DayAndWeek DEF Schedule!TypeOK
<1>. QED BY <1>3, <1>5, <1>6

-----------------------------------------------------------------------------
(* At the start the types hold.                                            *)
LEMMA ScheduleInit ==
  ASSUME Schedule!ScheduleAssumption, Schedule!Init
  PROVE  Schedule!TypeOK
BY DEF Schedule!Init, Schedule!TypeOK

(* They hold after a change of the calendar or the time.                   *)
LEMMA ScheduleStep ==
  ASSUME Schedule!ScheduleAssumption, Schedule!TypeOK, [Schedule!Next]_Schedule!vars
  PROVE  Schedule!TypeOK'
<1>1. ASSUME NEW selected \in Templates \cup {"auto"}, Schedule!ApplyTemplate(selected)
      PROVE  Schedule!TypeOK'
  <2>1. template' \in Templates
    BY <1>1 DEF Schedule!ApplyTemplate, Schedule!Inferred
  <2>2. stored' \in {Schedule!Payload(t) : t \in Templates}
    BY <1>1, <2>1 DEF Schedule!ApplyTemplate
  <2>3. now' = now
    BY <1>1 DEF Schedule!ApplyTemplate
  <2>. QED BY <2>1, <2>2, <2>3 DEF Schedule!TypeOK
<1>2. CASE Schedule!SyncTemplates
  <2>1. template \in Templates \cup {"auto"}
    BY <1>2 DEF Schedule!SyncTemplates, Schedule!TypeOK
  <2>. QED BY <1>1, <1>2, <2>1 DEF Schedule!SyncTemplates
<1>3. CASE Schedule!SelectTemplate
  BY <1>1, <1>3 DEF Schedule!SelectTemplate
<1>4. CASE Schedule!EditWindows
  BY <1>4 DEF Schedule!EditWindows, Schedule!TypeOK
<1>5. CASE Schedule!Wait
  BY <1>5 DEF Schedule!Wait, Schedule!TypeOK
<1>6. CASE UNCHANGED Schedule!vars
  BY <1>6 DEF Schedule!vars, Schedule!TypeOK
<1>. QED BY <1>2, <1>3, <1>4, <1>5, <1>6 DEF Schedule!Next

(* The status of a symbol is the one the week prescribes.                  *)
LEMMA CalendarHolds ==
  ASSUME Schedule!ScheduleAssumption, Schedule!TypeOK
  PROVE  Schedule!StatusIsTheCalendar
<1>1. Schedule!Effective \in Calendar /\ now \in Nat
  BY EffectiveIsCalendar
<1>2. \A W \in SUBSET Schedule!Windows : Schedule!Matches(W, now) <=> Schedule!Inside(W, now)
  BY <1>1, MatchesIsOpen, InsideIsOpen
<1>3. /\ Schedule!Effective.regular \in SUBSET Schedule!Windows
      /\ Schedule!Effective.closeOnly \in SUBSET Schedule!Windows
      /\ Schedule!Effective.quoteOnly \in SUBSET Schedule!Windows
  BY <1>1 DEF Calendar
<1>. QED BY <1>2, <1>3 DEF Schedule!StatusIsTheCalendar, Schedule!Status

(* A symbol is closed when no window of any kind matches.                  *)
AllWindows == Schedule!Effective.regular \cup Schedule!Effective.closeOnly \cup Schedule!Effective.quoteOnly

(* A symbol is closed when no window matches.                              *)
LEMMA ClosedIsNoWindow ==
  ASSUME NEW time, Schedule!Effective # Schedule!Nothing
  PROVE  Schedule!Status(time) = "closed" <=> ~Schedule!Matches(AllWindows, time)
<1>1. Schedule!Matches(AllWindows, time) <=>
        \/ Schedule!Matches(Schedule!Effective.regular, time)
        \/ Schedule!Matches(Schedule!Effective.closeOnly, time)
        \/ Schedule!Matches(Schedule!Effective.quoteOnly, time)
  BY DEF Schedule!Matches, AllWindows
<1>. QED BY <1>1 DEF Schedule!Status

(* A symbol opens when it is said to, and not before.                      *)
LEMMA OpeningHolds ==
  ASSUME Schedule!ScheduleAssumption, Schedule!TypeOK
  PROVE  Schedule!OpensWhenSaid
<1>. SUFFICES ASSUME Schedule!Status(now) = "closed"
              PROVE  LET opening == now + Schedule!SecondsToOpen(now)
                         retry == now + Schedule!RetrySeconds(now)
                     IN /\ Schedule!SecondsToOpen(now) # Schedule!Never
                        /\ Schedule!Status(opening) # "closed"
                        /\ \A t \in {m \in Schedule!Moments \cup {m + Schedule!Week : m \in Schedule!Moments} :
                                       now < m /\ m < opening} : Schedule!Status(t) = "closed"
                        /\ retry <= opening + 1
                        /\ retry - now \in 1 .. 5 * Schedule!Minute
  BY DEF Schedule!OpensWhenSaid
<1>1. Schedule!Effective \in Calendar /\ now \in Nat /\ \A t \in Schedule!Moments : t \in Nat
  BY EffectiveIsCalendar
<1>2. Schedule!Effective # Schedule!Nothing
  BY DEF Schedule!Status
<1>3. AllWindows \in SUBSET Schedule!Windows /\ AllWindows # {}
  BY <1>1, <1>2 DEF AllWindows, Calendar, Schedule!Nothing
<1>4. ~Schedule!Matches(AllWindows, now)
  BY <1>2, ClosedIsNoWindow
<1>5. PICK n : n = Schedule!SecondsToNext(AllWindows, now)
  OBVIOUS
<1>6. /\ n \in Nat /\ n >= 1 /\ Schedule!Matches(AllWindows, now + n)
      /\ \A u \in Int : now < u /\ u < now + n => ~Schedule!Matches(AllWindows, u)
  BY <1>1, <1>3, <1>4, <1>5, NextStart
<1>7. Schedule!SecondsToOpen(now) = n
  BY <1>5 DEF Schedule!SecondsToOpen, AllWindows
<1>8. n # Schedule!Never
  BY <1>6 DEF Schedule!Never
<1>9. Schedule!Status(now + n) # "closed"
  BY <1>2, <1>6, ClosedIsNoWindow
<1>10. \A t \in Schedule!Moments \cup {m + Schedule!Week : m \in Schedule!Moments} : t \in Int
  BY <1>1, DayAndWeek
<1>11. \A t \in {m \in Schedule!Moments \cup {m + Schedule!Week : m \in Schedule!Moments} :
                   now < m /\ m < now + n} : Schedule!Status(t) = "closed"
  BY <1>2, <1>6, <1>10, ClosedIsNoWindow
<1>12. Schedule!RetrySeconds(now) = IF n < 10 THEN n ELSE 10
  BY <1>6, <1>7, <1>8 DEF Schedule!RetrySeconds, Schedule!Minute
<1>13. now + Schedule!RetrySeconds(now) <= (now + n) + 1
  BY <1>1, <1>6, <1>12
<1>14. (now + Schedule!RetrySeconds(now)) - now \in 1 .. 5 * Schedule!Minute
  BY <1>1, <1>6, <1>12 DEF Schedule!Minute
<1>. QED BY <1>7, <1>8, <1>9, <1>11, <1>13, <1>14

(* The status of a symbol is the calendar's, and a symbol that is closed   *)
(* opens when it is said to.                                               *)
LEMMA ScheduleHolds ==
  ASSUME Schedule!ScheduleAssumption, Schedule!TypeOK
  PROVE  Schedule!ScheduleIsTrue
BY CalendarHolds, OpeningHolds DEF Schedule!ScheduleIsTrue

-----------------------------------------------------------------------------
(***************************************************************************)
(* CircuitBreaker.                                                         *)
(***************************************************************************)
Spread == [at : 0 .. MaxTime, spread : Spreads]
Ratio == 0 .. 60

(* The samples of a window are in the order of their times, none is of the *)
(* future, and no two are further apart than the detection window.         *)
InOrder(w) ==
  /\ \A i, j \in DOMAIN w : i <= j => w[i].at <= w[j].at
  /\ \A i \in DOMAIN w : w[i].at <= now
Short(w) == \A i, j \in DOMAIN w : w[j].at - w[i].at <= Detection

(* The ratio of a direction is that of its window, as its own last quote   *)
(* left it; with that, a ratio that trips is that of a window that turned. *)
BreakerInv ==
  /\ Breaker!TypeOK
  /\ \A d \in Ways : InOrder(window[d]) /\ Short(window[d]) /\ jitter[d] = Breaker!Jitter(window[d])
  /\ Breaker!TripIsWarranted

(* The breaker counts as the theorems on finite sets do.                   *)
LEMMA BreakerCounts ==
  ASSUME NEW S
  PROVE  Breaker!Cardinality(S) = Cardinality(S)
BY DEF Breaker!Cardinality, Cardinality

(* The moves of a window, and those that turn, are finitely many; the      *)
(* first move turns from none.                                             *)
LEMMA TurnsAreFewer ==
  ASSUME NEW w \in Seq(Spread)
  PROVE  /\ Cardinality(Breaker!Moves(w)) \in Nat
         /\ Cardinality(Breaker!Turns(w)) \in Nat
         /\ Breaker!Moves(w) # {} => Cardinality(Breaker!Turns(w)) < Cardinality(Breaker!Moves(w))
<1>. DEFINE M == Breaker!Moves(w)  T == Breaker!Turns(w)
<1>1. M \subseteq 1 .. Len(w) - 1 /\ T \subseteq M
  BY DEF Breaker!Moves, Breaker!Turns
<1>2. Len(w) \in Nat
  OBVIOUS
<1>3. IsFiniteSet(1 .. Len(w) - 1)
  BY <1>2, FS_Interval
<1>4. IsFiniteSet(M) /\ Cardinality(M) \in Nat
  BY <1>1, <1>3, FS_Subset, FS_CardinalityType, Zenon
<1>5. IsFiniteSet(T) /\ Cardinality(T) \in Nat
  BY <1>1, <1>4, FS_Subset, FS_CardinalityType, Zenon
<1>6. ASSUME M # {} PROVE Cardinality(T) < Cardinality(M)
  <2>1. M \subseteq Nat
    BY <1>1, <1>2
  <2>2. PICK a \in M : \A b \in M : a <= b
    BY <1>6, <2>1, Least, Zenon
  <2>3. a \notin T
    BY <2>1, <2>2 DEF Breaker!Turns
  <2>4. T # M
    BY <2>2, <2>3
  <2>5. Cardinality(T) <= Cardinality(M) /\ Cardinality(T) # Cardinality(M)
    BY <1>1, <1>4, <2>4, FS_Subset, Zenon
  <2>. QED BY <1>4, <1>5, <2>5
<1>. QED BY <1>4, <1>5, <1>6

(* A part of a whole, counted in sixtieths.                                *)
LEMMA PartOfWhole ==
  ASSUME NEW n \in Nat, NEW m \in Nat \ {0}, n <= m
  PROVE  /\ (n * 60) \div m \in Ratio
         /\ n = 0 => (n * 60) \div m = 0
<1>. DEFINE q == (n * 60) \div m
<1>1. q \in Nat /\ q * m <= n * 60
  OBVIOUS
<1>2. n * 60 <= 60 * m
  OBVIOUS
<1>3. ASSUME q > 60 PROVE FALSE
  <2>1. q * m >= 61 * m
    BY <1>1, <1>3
  <2>. QED BY <1>1, <1>2, <2>1
<1>4. n = 0 => q = 0
  OBVIOUS
<1>. QED BY <1>1, <1>3, <1>4 DEF Ratio

(* Two moves of a window, one after the other, that go opposite ways.      *)
Opposed(w, i, j) ==
  /\ i < j /\ \A k \in Breaker!Moves(w) : ~ (i < k /\ k < j)
  /\ Breaker!Rises(w, i) # Breaker!Rises(w, j)

(* A window has a ratio, and one that is not zero has two moves that are   *)
(* opposed.                                                                *)
LEMMA RatioOfWindow ==
  ASSUME NEW w \in Seq(Spread)
  PROVE  /\ Breaker!Jitter(w) \in Ratio
         /\ Breaker!Jitter(w) # 0 =>
              \E i, j \in Breaker!Moves(w) : Opposed(w, i, j)
<1>. DEFINE M == Breaker!Moves(w)  T == Breaker!Turns(w)
<1>1. Breaker!Jitter(w) = IF Len(w) < 3 \/ Cardinality(M) < 2 THEN 0
                          ELSE (Cardinality(T) * 60) \div (Cardinality(M) - 1)
  BY BreakerCounts DEF Breaker!Jitter, Breaker!Scale
<1>2. Cardinality(M) \in Nat /\ Cardinality(T) \in Nat /\ (M # {} => Cardinality(T) < Cardinality(M))
  BY TurnsAreFewer
<1>3. M = {} => Cardinality(M) = 0
  BY FS_EmptySet
<1>4. CASE Len(w) < 3 \/ Cardinality(M) < 2
  BY <1>1, <1>4 DEF Ratio
<1>5. CASE ~ (Len(w) < 3 \/ Cardinality(M) < 2)
  <2>. DEFINE n == Cardinality(T)  m == Cardinality(M) - 1
  <2>1. m \in Nat \ {0} /\ n \in Nat /\ n <= m
    BY <1>2, <1>3, <1>5
  <2>2. Breaker!Jitter(w) = (n * 60) \div m
    BY <1>1, <1>5
  <2>. HIDE DEF n, m
  <2>3. Breaker!Jitter(w) \in Ratio /\ (n = 0 => Breaker!Jitter(w) = 0)
    BY <2>1, <2>2, PartOfWhole
  <2>4. n # 0 => T # {}
    BY FS_EmptySet DEF n
  <2>5. T # {} => \E i, j \in M : Opposed(w, i, j)
    BY Zenon DEF Breaker!Turns, Opposed
  <2>. QED BY <2>3, <2>4, <2>5
<1>. QED BY <1>4, <1>5

(* Between two opposed moves the spread stays where it is: it turned.      *)
LEMMA MovesMakeTurn ==
  ASSUME Breaker!BreakerAssumption, NEW w \in Seq(Spread), Short(w),
         NEW i \in Breaker!Moves(w), NEW j \in Breaker!Moves(w), Opposed(w, i, j)
  PROVE  Breaker!Turned(w)
<1>. DEFINE S(k) == w[k].spread
<1>1. /\ i \in 1 .. Len(w) - 1 /\ j \in 1 .. Len(w) - 1 /\ Len(w) \in Nat /\ i < j
      /\ S(i + 1) # S(i) /\ S(j + 1) # S(j)
      /\ ~ ((S(i) < S(i + 1)) <=> (S(j) < S(j + 1)))
  BY DEF Breaker!Moves, Breaker!Rises, Opposed
<1>2. DOMAIN w = 1 .. Len(w)
  OBVIOUS
<1>3. \A k \in DOMAIN w : S(k) \in Int
  <2>1. \A k \in DOMAIN w : w[k] \in Spread
    OBVIOUS
  <2>2. \A e \in Spread : e.spread \in Int
    BY DEF Spread, Breaker!BreakerAssumption
  <2>. QED BY <2>1, <2>2
<1>4. \A k \in (i + 1) .. (j - 1) : S(k + 1) = S(k)
  BY <1>1 DEF Breaker!Moves, Opposed
<1>. HIDE DEF S
<1>5. S(i + 1) = S(j)
  <2>. DEFINE D == {k \in (i + 1) .. j : S(k) # S(i + 1)}
  <2>1. SUFFICES ASSUME D # {} PROVE FALSE
    BY <1>1
  <2>2. D \subseteq Nat
    BY <1>1
  <2>3. PICK k \in D : \A l \in D : k <= l
    BY <2>1, <2>2, Least, Zenon
  <2>4. k - 1 \in (i + 1) .. (j - 1) /\ k - 1 \notin D
    BY <1>1, <2>3
  <2>5. S(k - 1 + 1) = S(k - 1) /\ k - 1 + 1 = k
    BY <1>4, <2>4, <2>3, <1>1
  <2>. QED BY <1>1, <2>3, <2>4, <2>5
<1>6. i \in DOMAIN w /\ i + 1 \in DOMAIN w /\ j + 1 \in DOMAIN w /\ i < i + 1 /\ i + 1 < j + 1
  BY <1>1, <1>2
<1>7. \/ S(i) < S(i + 1) /\ S(i + 1) > S(j + 1)
      \/ S(i) > S(i + 1) /\ S(i + 1) < S(j + 1)
  BY <1>1, <1>2, <1>3, <1>5, <1>6
<1>. QED BY <1>6, <1>7, Zenon DEF Breaker!Turned, Short, S

-----------------------------------------------------------------------------
(* The largest of the ratios is one of them.                               *)
LEMMA LargestRatio ==
  ASSUME NEW S, S \subseteq Ratio, S # {}
  PROVE  Breaker!Largest(S) \in S /\ \A y \in S : y <= Breaker!Largest(S)
<1>1. \E x \in S : \A y \in S : y <= x
  BY Greatest, 60 \in Nat DEF Ratio
<1>. QED BY <1>1, Zenon DEF Breaker!Largest

(* The samples that are not above a sample, and those below it.            *)
UpTo(samples, x) == {i \in DOMAIN samples : samples[i] <= x}
Below(samples, x) == {i \in DOMAIN samples : samples[i] < x}

LEMMA SamplesCount ==
  ASSUME NEW s \in Seq(Ratio), NEW P, P \subseteq DOMAIN s
  PROVE  /\ IsFiniteSet(P) /\ Cardinality(P) \in 0 .. Len(s)
         /\ Cardinality(DOMAIN s) = Len(s)
<1>1. DOMAIN s = 1 .. Len(s) /\ Len(s) \in Nat
  OBVIOUS
<1>2. IsFiniteSet(DOMAIN s) /\ Cardinality(DOMAIN s) = Len(s)
  <2>1. IsFiniteSet(1 .. Len(s)) /\ Cardinality(1 .. Len(s)) = Len(s)
    <3>. DEFINE n == Len(s)
    <3>1. n \in Int /\ n >= 0
      BY <1>1
    <3>. HIDE DEF n
    <3>2. IsFiniteSet(1 .. n) /\ Cardinality(1 .. n) = IF 1 > n THEN 0 ELSE n - 1 + 1
      BY <3>1, FS_Interval
    <3>3. Cardinality(1 .. n) = n
      BY <3>1, <3>2
    <3>. QED BY <3>2, <3>3 DEF n
  <2>. QED BY <1>1, <2>1
<1>3. IsFiniteSet(P) /\ Cardinality(P) <= Cardinality(DOMAIN s)
  BY <1>2, FS_Subset, Zenon
<1>4. Cardinality(P) \in Nat
  BY <1>3, FS_CardinalityType
<1>. QED BY <1>1, <1>2, <1>3, <1>4

(* Every index of the sorted samples has a sample.                         *)
LEMMA SampleAtIndex ==
  ASSUME NEW s \in Seq(Ratio), NEW at \in Nat, at < Len(s)
  PROVE  \E x \in {s[i] : i \in DOMAIN s} :
            Cardinality(Below(s, x)) <= at /\ Cardinality(UpTo(s, x)) > at
<1>. DEFINE R == {s[i] : i \in DOMAIN s}
           T == {x \in R : Cardinality(UpTo(s, x)) > at}
<1>1. DOMAIN s = 1 .. Len(s) /\ Len(s) \in Nat /\ \A i \in DOMAIN s : s[i] \in Ratio
  OBVIOUS
<1>2. R \subseteq Ratio /\ R # {} /\ Ratio \subseteq Nat
  BY <1>1 DEF Ratio
<1>3. T # {}
  <2>1. PICK x \in R : \A y \in R : y <= x
    BY <1>2, Greatest, 60 \in Nat DEF Ratio
  <2>2. UpTo(s, x) = DOMAIN s
    BY <2>1 DEF UpTo
  <2>3. Cardinality(DOMAIN s) = Len(s)
    BY SamplesCount
  <2>. QED BY <1>1, <2>2, <2>3
<1>4. PICK x \in T : \A y \in T : x <= y
  BY <1>2, <1>3, Least
<1>5. ASSUME Below(s, x) # {} PROVE Cardinality(Below(s, x)) <= at
  <2>. DEFINE B == {y \in R : y < x}
  <2>1. B \subseteq Ratio /\ B # {}
    BY <1>2, <1>5 DEF Below
  <2>2. PICK y \in B : \A z \in B : z <= y
    BY <2>1, Greatest, 60 \in Nat DEF Ratio
  <2>3. Below(s, x) = UpTo(s, y)
    <3>1. \A i \in DOMAIN s : s[i] < x <=> s[i] <= y
      <4>1. TAKE i \in DOMAIN s
      <4>2. s[i] \in R /\ s[i] \in Nat /\ x \in Nat /\ y \in Nat /\ y < x
        BY <1>2, <1>4, <2>2
      <4>3. s[i] < x => s[i] \in B
        BY <4>2
      <4>. QED BY <2>2, <4>2, <4>3
    <3>. QED BY <3>1 DEF Below, UpTo
  <2>4. y \notin T
    <3>1. y \in Nat /\ x \in Nat /\ y < x
      BY <1>2, <1>4, <2>2
    <3>. QED BY <1>4, <3>1
  <2>5. ~ (Cardinality(UpTo(s, y)) > at)
    BY <2>2, <2>4
  <2>6. Cardinality(UpTo(s, y)) \in Nat
    BY SamplesCount DEF UpTo
  <2>. QED BY <2>3, <2>5, <2>6
<1>6. Below(s, x) = {} => Cardinality(Below(s, x)) <= at
  BY FS_EmptySet
<1>. QED BY <1>4, <1>5, <1>6

(* A percentile is a sample that more than three quarters do not exceed.   *)
LEMMA PercentileHolds ==
  ASSUME NEW s \in Seq(Ratio), s # << >>
  PROVE  /\ Breaker!P75(s) \in Ratio
         /\ Cardinality(UpTo(s, Breaker!P75(s))) > (Len(s) * 3) \div 4
<1>. DEFINE at == (Len(s) * 3) \div 4
           R == {s[i] : i \in DOMAIN s}
<1>1. Len(s) \in Nat \ {0} /\ R \subseteq Ratio
  OBVIOUS
<1>2. at \in Nat /\ at < Len(s)
  BY <1>1
<1>3. Breaker!P75(s) = Breaker!Sorted(s, at)
  BY <1>2 DEF Breaker!P75
<1>4. \E x \in R : Cardinality(Below(s, x)) <= at /\ Cardinality(UpTo(s, x)) > at
  BY <1>2, SampleAtIndex
<1>5. Breaker!Sorted(s, at) =
        CHOOSE x \in R : Cardinality(Below(s, x)) <= at /\ Cardinality(UpTo(s, x)) > at
  BY BreakerCounts DEF Breaker!Sorted, Below, UpTo
<1>6. Breaker!Sorted(s, at) \in R /\ Cardinality(UpTo(s, Breaker!Sorted(s, at))) > at
  BY <1>4, <1>5, Zenon
<1>. QED BY <1>1, <1>3, <1>6

(* A ratio beyond a multiple of the percentile is beyond that multiple of  *)
(* all but a quarter of the samples.                                       *)
LEMMA FewAbove ==
  ASSUME NEW s \in Seq(Ratio), s # << >>, NEW m \in Nat, NEW top \in Nat,
         top > Breaker!P75(s) * m
  PROVE  4 * Cardinality({i \in DOMAIN s : s[i] * m >= top}) <= Len(s)
<1>. DEFINE x == Breaker!P75(s)
           A == {i \in DOMAIN s : s[i] * m >= top}
           B == UpTo(s, x)
<1>1. x \in Ratio /\ Cardinality(B) > (Len(s) * 3) \div 4
  BY PercentileHolds
<1>2. x \in Nat /\ Len(s) \in Nat /\ \A i \in DOMAIN s : s[i] \in Nat
  <2>1. \A i \in DOMAIN s : s[i] \in Ratio
    OBVIOUS
  <2>2. Ratio \subseteq Nat
    BY DEF Ratio
  <2>3. Len(s) \in Nat
    OBVIOUS
  <2>. HIDE DEF x
  <2>. QED BY <1>1, <2>1, <2>2, <2>3
<1>. HIDE DEF x
<1>3. A \cap B = {}
  <2>1. ASSUME NEW i \in A, i \in B PROVE FALSE
    <3>1. i \in DOMAIN s /\ s[i] <= x /\ s[i] * m >= top
      BY <2>1 DEF UpTo
    <3>2. s[i] * m <= x * m /\ s[i] * m \in Nat /\ x * m \in Nat
      BY <1>2, <3>1
    <3>3. x * m < top
      BY DEF x
    <3>. DEFINE a == s[i] * m  b == x * m
    <3>4. a >= top /\ a <= b /\ b < top /\ a \in Nat /\ b \in Nat
      BY <3>1, <3>2, <3>3
    <3>. HIDE DEF a, b
    <3>. QED BY <3>4
  <2>. QED BY <2>1
<1>4. IsFiniteSet(A) /\ Cardinality(A) \in Nat /\ IsFiniteSet(B) /\ Cardinality(B) \in Nat
  <2>1. A \subseteq DOMAIN s /\ B \subseteq DOMAIN s
    BY DEF UpTo
  <2>. HIDE DEF A, B
  <2>. QED BY <1>2, <2>1, SamplesCount
<1>5. Cardinality(A \cup B) <= Len(s)
  <2>1. A \cup B \subseteq DOMAIN s
    BY DEF UpTo
  <2>. HIDE DEF A, B
  <2>. QED BY <1>2, <2>1, SamplesCount
<1>6. Cardinality(A \cup B) = Cardinality(A) + Cardinality(B)
  <2>. HIDE DEF A, B
  <2>1. Cardinality(A \cup B) = Cardinality(A) + Cardinality(B) - Cardinality(A \cap B)
    BY <1>4, FS_Union, Zenon
  <2>2. Cardinality(A \cap B) = 0
    BY <1>3, FS_EmptySet
  <2>. QED BY <1>4, <2>1, <2>2
<1>7. 4 * Cardinality(A) <= Len(s)
  <2>. HIDE DEF A, B
  <2>. QED BY <1>1, <1>2, <1>4, <1>5, <1>6
<1>. QED BY <1>7

-----------------------------------------------------------------------------
(* A window takes a sample of this moment: what is left of it is in order, *)
(* and no longer than the detection window.                                *)
LEMMA PruneKeeps ==
  ASSUME Breaker!BreakerAssumption, now \in 0 .. MaxTime,
         NEW w \in Seq(Spread), InOrder(w), NEW x \in Spreads
  PROVE  LET p == Breaker!Prune(Append(w, [at |-> now, spread |-> x]))
         IN p \in Seq(Spread) /\ InOrder(p) /\ Short(p)
<1>. DEFINE e == [at |-> now, spread |-> x]
           v == Append(w, e)
           kept == {i \in DOMAIN v : v[i].at >= now - Detection}
           k == Breaker!Least(kept)
           p == SubSeq(v, k, Len(v))
<1>1. Detection \in Nat /\ now \in Nat /\ e \in Spread
  BY DEF Breaker!BreakerAssumption, Spread
<1>2. /\ v \in Seq(Spread) /\ Len(v) = Len(w) + 1 /\ Len(w) \in Nat
      /\ v[Len(v)] = e /\ \A i \in 1 .. Len(w) : v[i] = w[i]
  BY <1>1
<1>3. DOMAIN v = 1 .. Len(v) /\ DOMAIN w = 1 .. Len(w)
  BY <1>2
<1>4. \A i \in DOMAIN v : v[i] \in Spread /\ v[i].at \in Nat
  <2>1. \A i \in DOMAIN v : v[i] \in Spread
    BY <1>2
  <2>. QED BY <2>1 DEF Spread
<1>. HIDE DEF v
<1>5. InOrder(v)
  <2>1. \A i \in DOMAIN v : v[i].at <= now
    BY <1>1, <1>2, <1>3 DEF InOrder
  <2>2. ASSUME NEW i \in DOMAIN v, NEW j \in DOMAIN v, i <= j PROVE v[i].at <= v[j].at
    <3>1. CASE j = Len(v)
      BY <1>2, <2>1, <3>1
    <3>2. CASE j # Len(v)
      <4>1. i \in 1 .. Len(w) /\ j \in 1 .. Len(w)
        BY <1>2, <1>3, <2>2, <3>2
      <4>. QED BY <1>2, <1>3, <2>2, <4>1 DEF InOrder
    <3>. QED BY <3>1, <3>2
  <2>. QED BY <2>1, <2>2 DEF InOrder
<1>6. k \in kept /\ \A i \in kept : k <= i
  <2>1. Len(v) \in kept
    BY <1>1, <1>2, <1>3
  <2>2. kept \subseteq Nat /\ kept # {}
    BY <1>2, <1>3, <2>1
  <2>3. \E i \in kept : \A j \in kept : i <= j
    <3>. HIDE DEF kept
    <3>. QED BY <2>2, Least
  <2>. QED BY <2>3, Zenon DEF Breaker!Least
<1>7. k \in 1 .. Len(v) /\ v[k].at >= now - Detection
  BY <1>3, <1>6
<1>. HIDE DEF k
<1>8. /\ p \in Seq(Spread) /\ DOMAIN p = 1 .. Len(v) - k + 1
      /\ \A i \in DOMAIN p : p[i] = v[k + i - 1] /\ k + i - 1 \in DOMAIN v
  BY <1>2, <1>3, <1>7
<1>. HIDE DEF p
<1>9. InOrder(p)
  <2>1. \A i \in DOMAIN p : p[i].at <= now
    BY <1>5, <1>8 DEF InOrder
  <2>2. \A i, j \in DOMAIN p : i <= j => p[i].at <= p[j].at
    <3>1. \A i, j \in DOMAIN p : i <= j => k + i - 1 <= k + j - 1
      BY <1>7, <1>8
    <3>. QED BY <1>5, <1>8, <3>1 DEF InOrder
  <2>. QED BY <2>1, <2>2 DEF InOrder
<1>10. Short(p)
  <2>1. ASSUME NEW i \in DOMAIN p PROVE p[i].at \in Nat /\ p[i].at <= now /\ p[i].at >= now - Detection
    <3>1. k <= k + i - 1 /\ k \in DOMAIN v
      BY <1>3, <1>7, <1>8
    <3>2. v[k].at <= p[i].at
      BY <1>5, <1>8, <3>1 DEF InOrder
    <3>. QED BY <1>1, <1>4, <1>7, <1>8, <1>9, <3>1, <3>2 DEF InOrder
  <2>. QED BY <1>1, <2>1 DEF Short
<1>11. Breaker!Prune(v) = p
  BY DEF Breaker!Prune, k, p
<1>. QED BY <1>8, <1>9, <1>10, <1>11 DEF v

(* Nothing moved yet.                                                      *)
LEMMA BreakerInit == Breaker!BreakerAssumption /\ Breaker!Init => BreakerInv
<1>. SUFFICES ASSUME Breaker!BreakerAssumption, Breaker!Init PROVE BreakerInv
  OBVIOUS
<1>1. Breaker!TypeOK
  BY DEF Breaker!TypeOK, Breaker!Init, Breaker!BreakerAssumption, Breaker!NoTrip, Breaker!Scale
<1>2. \A d \in Ways : window[d] = << >> /\ jitter[d] = 0
  BY DEF Breaker!Init
<1>3. InOrder(<< >>) /\ Short(<< >>) /\ Breaker!Jitter(<< >>) = 0
  BY DEF InOrder, Short, Breaker!Jitter
<1>. QED BY <1>1, <1>2, <1>3 DEF BreakerInv, Breaker!TripIsWarranted, Breaker!Init

(* A quote: the window, its ratio and the baseline take it, and a trip     *)
(* records what it rests on.                                               *)
LEMMA UpdateKeeps ==
  ASSUME Breaker!BreakerAssumption, BreakerInv,
         NEW d \in Ways, NEW x \in Spreads, Breaker!Update(d, x)
  PROVE  BreakerInv'
<1>. DEFINE w == Breaker!Prune(Append(window[d], [at |-> now, spread |-> x]))
           seen == [jitter EXCEPT ![d] = Breaker!Jitter(w)]
           all == {seen[e] : e \in Ways}
           top == Breaker!Largest(all)
           samples == Breaker!Sampled(top)
           trips == Breaker!Trips(top, samples)
           above == {i \in DOMAIN samples : samples[i] * Multiplier >= top}
<1>1. /\ updates' = updates + 1 /\ updates < MaxUpdates
      /\ window' = [window EXCEPT ![d] = w]
      /\ jitter' = seen /\ current' = top /\ baseline' = samples
      /\ threshold' = Breaker!Adapted(samples)
      /\ state' = IF trips THEN "OPEN" ELSE state
      /\ tripped' = IF trips THEN now ELSE tripped
      /\ now' = now
      /\ trip' = IF trips
            THEN [turned |-> \E e \in Ways : Breaker!Turned(window'[e]) /\ seen[e] = top,
                  above |-> Cardinality(above), samples |-> Len(samples)]
            ELSE trip
  BY BreakerCounts DEF Breaker!Update
<1>2. /\ now \in 0 .. MaxTime /\ updates \in 0 .. MaxUpdates
      /\ window \in [Ways -> Seq(Spread)] /\ jitter \in [Ways -> Ratio]
      /\ baseline \in Seq(Ratio) /\ Len(baseline) <= BaselineCap
      /\ threshold \in Nat /\ state \in {"CLOSED", "OPEN"} /\ tripped \in 0 .. MaxTime
      /\ trip \in [turned : BOOLEAN, above : 0 .. BaselineCap, samples : 0 .. BaselineCap]
  BY DEF BreakerInv, Breaker!TypeOK, Spread, Ratio, Breaker!Scale
<1>3. w \in Seq(Spread) /\ InOrder(w) /\ Short(w)
  BY <1>2, PruneKeeps DEF BreakerInv
<1>4. Breaker!Jitter(w) \in Ratio
  BY <1>3, RatioOfWindow
<1>. HIDE DEF w
<1>5. window' \in [Ways -> Seq(Spread)] /\ seen \in [Ways -> Ratio]
  BY <1>1, <1>2, <1>3, <1>4
<1>6. \A e \in Ways : InOrder(window'[e]) /\ Short(window'[e]) /\ seen[e] = Breaker!Jitter(window'[e])
  BY <1>1, <1>2, <1>3 DEF BreakerInv
<1>7. all \subseteq Ratio /\ all # {}
  BY <1>5
<1>8. top \in all /\ top \in Ratio
  <2>. HIDE DEF all
  <2>. QED BY <1>7, LargestRatio
<1>. HIDE DEF top
<1>9. samples \in Seq(Ratio) /\ Len(samples) <= BaselineCap /\ samples # << >>
  <2>1. BaselineCap \in Nat \ {0}
    BY DEF Breaker!BreakerAssumption
  <2>. DEFINE more == Append(baseline, top)
  <2>2. more \in Seq(Ratio) /\ Len(more) = Len(baseline) + 1 /\ Len(baseline) \in Nat
    BY <1>2, <1>8
  <2>. HIDE DEF more
  <2>3. CASE Len(more) > BaselineCap
    <3>1. more # << >> /\ Tail(more) \in Seq(Ratio) /\ Len(Tail(more)) = Len(more) - 1
      BY <2>2
    <3>2. Len(Tail(more)) = BaselineCap
      BY <1>2, <2>1, <2>2, <2>3, <3>1
    <3>3. samples = Tail(more)
      BY <2>3 DEF Breaker!Sampled, more
    <3>4. Tail(more) # << >>
      BY <2>1, <3>1, <3>2
    <3>. QED BY <2>1, <3>1, <3>2, <3>3, <3>4
  <2>4. CASE ~ (Len(more) > BaselineCap)
    <3>1. more # << >> /\ Len(more) <= BaselineCap
      BY <2>1, <2>2, <2>4
    <3>2. samples = more
      BY <2>4 DEF Breaker!Sampled, more
    <3>. QED BY <2>2, <3>1, <3>2
  <2>. QED BY <2>3, <2>4
<1>. HIDE DEF samples
<1>10. Breaker!P75(samples) \in Ratio /\ Multiplier \in Nat
  BY <1>9, PercentileHolds DEF Breaker!BreakerAssumption
<1>11. /\ Breaker!Adapted(samples) \in Nat
       /\ Len(samples) >= BaselineSamples => Breaker!Adapted(samples) = Breaker!P75(samples) * Multiplier
  <2>1. Breaker!P75(samples) * Multiplier \in Nat
    BY <1>10 DEF Ratio
  <2>. QED BY <1>2, <2>1 DEF Breaker!Adapted
<1>12. ASSUME trips PROVE trip'.turned
  <2>1. top > Breaker!Adapted(samples)
    BY <1>12 DEF Breaker!Trips
  <2>2. PICK e \in Ways : seen[e] = top
    BY <1>8
  <2>3. Breaker!Jitter(window'[e]) # 0
    BY <1>6, <1>8, <1>11, <2>1, <2>2 DEF Ratio
  <2>4. window'[e] \in Seq(Spread)
    BY <1>5
  <2>5. PICK i \in Breaker!Moves(window'[e]), j \in Breaker!Moves(window'[e]) : Opposed(window'[e], i, j)
    BY <2>3, <2>4, RatioOfWindow
  <2>6. Breaker!Turned(window'[e])
    BY <1>6, <2>4, <2>5, MovesMakeTurn
  <2>. QED BY <1>1, <1>12, <2>2, <2>6
<1>13. ASSUME trips, Len(samples) >= BaselineSamples PROVE 4 * Cardinality(above) <= Len(samples)
  <2>1. top > Breaker!P75(samples) * Multiplier /\ top \in Nat
    BY <1>8, <1>11, <1>13 DEF Breaker!Trips, Ratio
  <2>. QED BY <1>9, <1>10, <2>1, FewAbove
<1>14. Cardinality(above) \in 0 .. BaselineCap /\ Len(samples) \in 0 .. BaselineCap
  <2>1. above \subseteq DOMAIN samples
    OBVIOUS
  <2>2. Cardinality(above) \in 0 .. Len(samples)
    <3>. HIDE DEF above
    <3>. QED BY <1>9, <2>1, SamplesCount
  <2>3. Len(samples) \in Nat /\ BaselineCap \in Nat
    BY <1>9 DEF Breaker!BreakerAssumption
  <2>. QED BY <1>9, <2>2, <2>3
<1>. HIDE DEF above, trips, seen, all
<1>15. trip' \in [turned : BOOLEAN, above : 0 .. BaselineCap, samples : 0 .. BaselineCap]
  <2>1. CASE trips
    BY <1>1, <1>14, <2>1
  <2>2. CASE ~ trips
    BY <1>1, <1>2, <2>2
  <2>. QED BY <2>1, <2>2
<1>16. updates' \in 0 .. MaxUpdates
  BY <1>1, <1>2 DEF Breaker!BreakerAssumption
<1>17. Breaker!TypeOK'
  BY <1>1, <1>2, <1>5, <1>8, <1>9, <1>11, <1>15, <1>16
  DEF Breaker!TypeOK, Spread, Ratio, Breaker!Scale
<1>18. Breaker!TripIsWarranted'
  <2>1. CASE trips
    <3>1. trip'.turned /\ trip'.above = Cardinality(above) /\ trip'.samples = Len(samples)
      BY <1>1, <1>12, <2>1
    <3>. QED BY <1>13, <2>1, <3>1 DEF Breaker!TripIsWarranted
  <2>2. CASE ~ trips
    BY <1>1, <2>2 DEF Breaker!TripIsWarranted, BreakerInv
  <2>. QED BY <2>1, <2>2
<1>19. \A e \in Ways : InOrder(window[e])' /\ Short(window[e])' /\ jitter'[e] = Breaker!Jitter(window'[e])
  BY <1>1, <1>6 DEF InOrder, Short
<1>. QED BY <1>17, <1>18, <1>19 DEF BreakerInv, InOrder, Short

(* Every step keeps the invariant: the others touch neither a window nor   *)
(* what the last trip rested on.                                           *)
LEMMA BreakerStep ==
  Breaker!BreakerAssumption /\ BreakerInv /\ [Breaker!Next]_Breaker!vars => BreakerInv'
<1>. SUFFICES ASSUME Breaker!BreakerAssumption, BreakerInv, [Breaker!Next]_Breaker!vars
              PROVE  BreakerInv'
  OBVIOUS
<1>1. ASSUME NEW d \in Ways, NEW x \in Spreads, Breaker!Update(d, x) PROVE BreakerInv'
  BY <1>1, UpdateKeeps
<1>2. CASE Breaker!IsBlocked \/ Breaker!ApplyConfig \/ UNCHANGED Breaker!vars
  <2>1. /\ UNCHANGED <<now, window, jitter, baseline, current, tripped, updates, trip>>
        /\ threshold' \in {threshold, InitialThreshold} /\ state' \in {state, "CLOSED"}
    BY <1>2 DEF Breaker!IsBlocked, Breaker!ApplyConfig, Breaker!vars
  <2>2. Breaker!TypeOK'
    BY <2>1 DEF Breaker!TypeOK, BreakerInv, Breaker!BreakerAssumption
  <2>3. Breaker!TripIsWarranted'
    BY <2>1 DEF Breaker!TripIsWarranted, BreakerInv
  <2>. QED BY <2>1, <2>2, <2>3 DEF BreakerInv, InOrder, Short
<1>3. CASE Breaker!Tick
  <2>1. /\ UNCHANGED <<window, jitter, baseline, current, threshold, state, tripped, updates, trip>>
        /\ now' = now + 1 /\ now < MaxTime
    BY <1>3 DEF Breaker!Tick
  <2>2. now \in 0 .. MaxTime /\ MaxTime \in Nat /\ window \in [Ways -> Seq(Spread)]
    BY DEF Breaker!TypeOK, BreakerInv, Breaker!BreakerAssumption, Spread
  <2>3. now' \in 0 .. MaxTime
    BY <2>1, <2>2
  <2>4. Breaker!TypeOK'
    BY <2>1, <2>3 DEF Breaker!TypeOK, BreakerInv
  <2>5. Breaker!TripIsWarranted'
    BY <2>1 DEF Breaker!TripIsWarranted, BreakerInv
  <2>6. ASSUME NEW d \in Ways PROVE InOrder(window[d])'
    <3>1. \A i \in DOMAIN window[d] : window[d][i].at \in Nat /\ window[d][i].at <= now
      <4>1. \A i \in DOMAIN window[d] : window[d][i] \in Spread
        BY <2>2
      <4>2. \A i \in DOMAIN window[d] : window[d][i].at \in Nat
        BY <4>1 DEF Spread
      <4>. QED BY <4>2 DEF BreakerInv, InOrder
    <3>2. \A i \in DOMAIN window[d] : window[d][i].at <= now + 1
      BY <2>2, <3>1
    <3>. QED BY <2>1, <3>2 DEF BreakerInv, InOrder
  <2>7. ASSUME NEW d \in Ways PROVE Short(window[d])' /\ jitter'[d] = Breaker!Jitter(window'[d])
    BY <2>1 DEF BreakerInv, Short
  <2>. QED BY <2>1, <2>4, <2>5, <2>6, <2>7 DEF BreakerInv, InOrder, Short
<1>. QED BY <1>1, <1>2, <1>3 DEF Breaker!Next

(* However the quotes of the directions, the settings job and the cooldown *)
(* interleave, the breaker is open on a warrant.                           *)
THEOREM TripsAreWarranted == Breaker!BreakerAssumption => (Breaker!Spec => []Breaker!TripIsWarranted)
<1>. SUFFICES ASSUME Breaker!BreakerAssumption PROVE Breaker!Spec => []Breaker!TripIsWarranted
  OBVIOUS
<1>1. Breaker!Init => BreakerInv
  BY BreakerInit
<1>2. BreakerInv /\ [Breaker!Next]_Breaker!vars => BreakerInv'
  BY BreakerStep
<1>3. BreakerInv => Breaker!TripIsWarranted
  BY DEF BreakerInv
<1>. QED BY <1>1, <1>2, <1>3, PTL DEF Breaker!Spec
=============================================================================
