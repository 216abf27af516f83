----------------------------- MODULE ExecutionLemmas -----------------------------
(***************************************************************************)
(* Proofs about the parts around the worker and the gateway, each for all  *)
(* values of its constants, with the variables under names of their own.   *)
(* ExecutionPartsProofs puts them together.                                *)
(***************************************************************************)
EXTENDS Integers, Sequences, FiniteSetTheorems, WellFoundedInduction, TLAPS

CONSTANTS
    MaxReports, StreamFaults,
    ConnectorKinds, MaxUnits, Step, FillingModes,
    Platforms, LegA, OldLots,
    HeldKinds, Positions, OwnPosition, MaxSize, MaxMoves, MaxUpsets, EarlyUpdates,
    SilentErrors,
    PoolTime, Concurrent,
    Runs, RunQuantity,
    Prices, ClosePrice, RawFee, Mt5Charge, LateAnswers, Batched,
    Probes, Makers, LeastQuantity, CrashAtSubmit, Expiring, MaxFailures,
    Envs, Payloads, Powers, Shown, Callers, ApiCallers, MaxSaves, Overlap,
    Jobs, Flagged, MaxStarts

VARIABLES
    streamKind, report, connected, everConnected, wire, watched, lastState, \* PrivateStreams
    queue, requested, recovering, known, early, gaveUp, unasked, restarted, breaks,
    connector, request, placed, takings, attempts, calling, reply, remembered, \* Connectors
    platform, orderStatus, books, failed, old, oldGroup, events, kept, shadow,   \* LegacyReconciler
    tracking, account, copied, stream, websocket, ready, sampled, worker,     \* LivePositions
    missed, holding, moves, upsets,
    clock, saved, creating, cached, writer, closer, flushed, load, settled, \* HedgePool
    probeRun, baseline, probeIntent, probeSize, probeLeg, probeOrder,       \* ProbeRuns
    probeVenue, probeOwed,
    price, paid, reports, fills, asked, result, outdated,                \* Financials
    lock, stage, flattened, probeRow, exchange, opened, position, heard,    \* HybridProbe
    news, entries, pc, probe, snapshot, entered, expired, failures,
    credential, underTest, dirty, store, asking, saves,                     \* Credentials
    running, flag, chain, current, main, left, starts                       \* Scheduler

Streams == INSTANCE PrivateStreams WITH kind <- streamKind, faults <- breaks, MaxFaults <- StreamFaults
Connector == INSTANCE Connectors WITH
  kind <- connector, order <- placed, told <- reply, cache <- remembered,
  Kinds <- ConnectorKinds, Modes <- FillingModes
Legacy == INSTANCE LegacyReconciler WITH
  venue <- platform, ledger <- books, group <- oldGroup, held <- kept, Lots <- OldLots,
  status <- orderStatus
Held == INSTANCE LivePositions WITH
  kind <- tracking, cache <- websocket, taken <- sampled, group <- holding, changes <- moves, faults <- upsets,
  Kinds <- HeldKinds, Own <- OwnPosition, MaxChanges <- MaxMoves, MaxFaults <- MaxUpsets,
  rows <- copied
Pool == INSTANCE HedgePool WITH now <- clock, row <- saved, MaxTime <- PoolTime
ProbeRun == INSTANCE ProbeRuns WITH run <- probeRun, intent <- probeIntent, size <- probeSize, leg <- probeLeg,
    order <- probeOrder, venue <- probeVenue, owed <- probeOwed, Quantity <- RunQuantity
Cash == INSTANCE Financials WITH row <- paid, group <- result, stale <- outdated,
  answered <- asked
Hybrid == INSTANCE HybridProbe WITH row <- probeRow, venue <- exchange, held <- opened,
            answer <- snapshot, filled <- entered, faults <- failures,
            Quantity <- LeastQuantity, MaxFaults <- MaxFailures
Keys == INSTANCE Credentials WITH row <- credential, test <- underTest, call <- asking
Timers == INSTANCE Scheduler

-----------------------------------------------------------------------------
(***************************************************************************)
(* PrivateStreams.                                                         *)
(***************************************************************************)
(* A report is in a sequence.                                              *)
In(r, s) == \E n \in DOMAIN s : s[n] = r

(* The gateway watches an order that is not over, and has emitted no more  *)
(* than there is.                                                          *)
PollerInv ==
  /\ lastState <= report
  /\ Streams!Websocket => ~watched
  /\ ~Streams!Websocket /\ ~restarted /\ report \in 1 .. (MaxReports - 1) => watched

StreamsInv == Streams!TypeOK /\ PollerInv /\ Streams!NoSilentLoss

(* An element put behind a sequence is in it, and so is what was there.    *)
LEMMA AppendedIn ==
  ASSUME NEW S, NEW s \in Seq(S), NEW x \in S
  PROVE  In(x, Append(s, x)) /\ \A r : In(r, s) => In(r, Append(s, x))
<1>1. /\ Append(s, x) \in Seq(S) /\ Len(Append(s, x)) = Len(s) + 1 /\ Append(s, x)[Len(s) + 1] = x
      /\ \A n \in 1 .. Len(s) : Append(s, x)[n] = s[n]
      /\ Len(s) \in Nat /\ DOMAIN s = 1 .. Len(s) /\ DOMAIN Append(s, x) = 1 .. Len(s) + 1
  OBVIOUS
<1>. QED BY <1>1 DEF In

(* What is in a sequence is its head or in its tail.                       *)
LEMMA HeadOrTail ==
  ASSUME NEW S, NEW s \in Seq(S), s # << >>
  PROVE  \A r : In(r, s) => r = Head(s) \/ In(r, Tail(s))
<1>1. /\ Len(s) \in Nat /\ Len(s) > 0 /\ DOMAIN s = 1 .. Len(s) /\ Head(s) = s[1]
      /\ Len(Tail(s)) = Len(s) - 1 /\ DOMAIN Tail(s) = 1 .. Len(s) - 1
      /\ \A n \in 1 .. Len(s) - 1 : Tail(s)[n] = s[n + 1]
  OBVIOUS
<1>2. ASSUME NEW r, NEW n \in DOMAIN s, s[n] = r, n # 1
      PROVE  In(r, Tail(s))
  <2>1. n - 1 \in 1 .. Len(s) - 1 /\ Tail(s)[n - 1] = s[n]
    BY <1>1, <1>2
  <2>. QED BY <1>1, <1>2, <2>1 DEF In
<1>. QED BY <1>1, <1>2 DEF In

(* At the start nothing was reported, and the worker is recovering.        *)
LEMMA StreamsInit ==
  ASSUME Streams!StreamsAssumption, Streams!Init
  PROVE  StreamsInv
<1>1. << >> \in Seq(0 .. MaxReports) /\ 0 \in 0 .. MaxReports /\ 0 \in 0 .. StreamFaults
  BY DEF Streams!StreamsAssumption
<1>2. Streams!TypeOK
  BY <1>1, Zenon DEF Streams!Init, Streams!TypeOK, Streams!Reports
<1>3. PollerInv /\ Streams!NoSilentLoss
  BY DEF Streams!StreamsAssumption, Streams!Init, PollerInv, Streams!NoSilentLoss
<1>. QED BY <1>2, <1>3 DEF StreamsInv

(* No step of a venue, a stream, the poller or the worker disturbs what is *)
(* known of the reports.                                                   *)
LEMMA StreamsStep ==
  ASSUME Streams!StreamsAssumption, StreamsInv, [Streams!Next]_Streams!vars
  PROVE  StreamsInv'
<1>0. /\ MaxReports \in Nat \ {0} /\ StreamFaults \in Nat
      /\ streamKind \in Streams!Kinds
      /\ report \in 0 .. MaxReports /\ known \in 0 .. MaxReports /\ lastState \in 0 .. MaxReports
      /\ early \in 0 .. MaxReports /\ gaveUp \in 0 .. MaxReports
      /\ wire \in Seq(0 .. MaxReports) /\ queue \in Seq(0 .. MaxReports)
      /\ connected \in BOOLEAN /\ everConnected \in BOOLEAN /\ watched \in BOOLEAN /\ requested \in BOOLEAN
      /\ recovering \in BOOLEAN /\ unasked \in BOOLEAN /\ restarted \in BOOLEAN
      /\ breaks \in 0 .. StreamFaults
  BY DEF Streams!StreamsAssumption, StreamsInv, Streams!TypeOK, Streams!Reports
<1>. DEFINE Way(r) == In(r, wire) \/ In(r, queue) \/ (streamKind = "mt5" /\ watched /\ lastState < r)
            Loss == connected /\ ~restarted /\ report > early /\ report > gaveUp =>
                      known >= report \/ Way(report) \/ requested \/ recovering
<1>a. \A r : Streams!OnTheWay(r) <=> Way(r)
  BY DEF Streams!OnTheWay, In
<1>b. Streams!NoSilentLoss <=> Loss
  BY <1>a DEF Streams!NoSilentLoss
<1>c. (Streams!NoSilentLoss <=> Loss)'
  BY DEF Streams!NoSilentLoss, Streams!OnTheWay, In
<1>d. PollerInv /\ Loss
  BY <1>b DEF StreamsInv
<1>e. Streams!Websocket <=> streamKind # "mt5"
  BY DEF Streams!Websocket
<1>f. Streams!Fault => breaks' \in 0 .. StreamFaults
  BY <1>0 DEF Streams!Fault
<1>g. << >> \in Seq(0 .. MaxReports) /\ 0 \in 0 .. MaxReports
  BY <1>0
<1>h. \A x \in 0 .. MaxReports : Append(wire, x) \in Seq(0 .. MaxReports)
  BY <1>0
<1>. HIDE DEF Way
<1>1. CASE UNCHANGED Streams!vars
  BY <1>1 DEF StreamsInv, Streams!vars, Streams!stream, Streams!poller, Streams!worker, Streams!past,
    Streams!TypeOK, PollerInv, Streams!NoSilentLoss, Streams!OnTheWay, Streams!Websocket
<1>. SUFFICES ASSUME Streams!Next
              PROVE  Streams!TypeOK' /\ PollerInv' /\ Loss'
  BY <1>1, <1>c DEF StreamsInv
<1>. USE DEF Streams!stream, Streams!poller, Streams!worker, Streams!past
<1>2. CASE Streams!Submit
  <2>1. /\ report' = 1 /\ known' = 1 /\ watched' \in BOOLEAN /\ (watched' <=> ~Streams!Websocket) /\ report = 0
        /\ UNCHANGED <<streamKind, connected, everConnected, wire, lastState, queue, requested, recovering,
                       early, gaveUp, unasked, restarted, breaks>>
    BY <1>2 DEF Streams!Submit
  <2>2. Streams!TypeOK'
    BY <1>0, <1>f, <1>g, <2>1 DEF Streams!TypeOK, Streams!Reports, Streams!Kinds
  <2>3. PollerInv'
    BY <1>0, <1>d, <2>1 DEF PollerInv, Streams!Websocket
  <2>4. Loss'
    BY <1>0, <1>d, <2>1 DEF Way
  <2>. QED BY <2>2, <2>3, <2>4
<1>3. CASE Streams!VenueReports
  <2>1. /\ report \in 1 .. (MaxReports - 1) /\ report' = report + 1
        /\ wire' = IF Streams!Websocket /\ connected THEN Append(wire, report') ELSE wire
        /\ UNCHANGED <<streamKind, connected, everConnected, watched, lastState, queue, requested, recovering,
                       known, early, gaveUp, unasked, restarted, breaks>>
    BY <1>3 DEF Streams!VenueReports
  <2>2. report' \in 0 .. MaxReports /\ wire' \in Seq(0 .. MaxReports)
    <3>1. report' \in 0 .. MaxReports
      BY <1>0, <2>1
    <3>. QED BY <1>0, <1>h, <2>1, <3>1
  <2>3. Streams!TypeOK'
    BY <1>0, <2>1, <2>2 DEF Streams!TypeOK, Streams!Reports
  <2>4. PollerInv'
    BY <1>0, <1>d, <2>1 DEF PollerInv, Streams!Websocket
  <2>5. Loss'
    <3>1. CASE streamKind # "mt5"
      <4>1. ASSUME connected PROVE In(report', wire')
        <5>1. report' \in 0 .. MaxReports /\ wire' = Append(wire, report')
          BY <1>e, <2>1, <2>2, <3>1, <4>1
        <5>. QED BY <1>0, <5>1, AppendedIn
      <4>. QED BY <2>1, <4>1 DEF Way
    <3>2. CASE streamKind = "mt5"
      BY <1>0, <1>d, <2>1, <3>2 DEF PollerInv, Streams!Websocket, Way
    <3>. QED BY <3>1, <3>2
  <2>. QED BY <2>3, <2>4, <2>5
<1>4. CASE Streams!Connect
  <2>1. /\ Streams!Websocket /\ connected' = TRUE /\ everConnected' = TRUE /\ wire' = << >>
        /\ (requested' = TRUE /\ early' = early) \/ (early' = report /\ requested' = requested)
        /\ UNCHANGED <<streamKind, report, watched, lastState, queue, recovering, known,
                       gaveUp, unasked, restarted, breaks>>
    BY <1>4 DEF Streams!Connect, Streams!RequestReconciliation
  <2>2. Streams!TypeOK'
    BY <1>0, <1>f, <1>g, <2>1 DEF Streams!TypeOK, Streams!Reports, Streams!Kinds
  <2>3. PollerInv'
    BY <1>0, <1>d, <2>1 DEF PollerInv, Streams!Websocket
  <2>4. Loss'
    BY <1>0, <1>d, <2>1 DEF Way
  <2>. QED BY <2>2, <2>3, <2>4
<1>5. CASE Streams!Disconnect \/ Streams!ListenKeyExpires
  <2>1. /\ Streams!Fault /\ connected' = FALSE /\ wire' = << >>
        /\ requested' \in {TRUE, requested}
        /\ UNCHANGED <<streamKind, report, everConnected, watched, lastState, queue, recovering, known,
                       early, gaveUp, unasked, restarted>>
    BY <1>5 DEF Streams!Disconnect, Streams!ListenKeyExpires, Streams!RequestReconciliation
  <2>2. Streams!TypeOK'
    BY <1>0, <1>f, <1>g, <2>1 DEF Streams!TypeOK, Streams!Reports, Streams!Kinds
  <2>3. PollerInv'
    BY <1>0, <1>d, <2>1 DEF PollerInv, Streams!Websocket
  <2>4. Loss'
    BY <1>0, <1>d, <2>1 DEF Way
  <2>. QED BY <2>2, <2>3, <2>4
<1>6. CASE Streams!Receive
  <2>1. /\ wire # << >> /\ queue' = Append(queue, Head(wire)) /\ wire' = Tail(wire)
        /\ UNCHANGED <<streamKind, report, connected, everConnected, watched, lastState, requested, recovering,
                       known, early, gaveUp, unasked, restarted, breaks>>
    BY <1>6 DEF Streams!Receive
  <2>2. Head(wire) \in 0 .. MaxReports /\ wire' \in Seq(0 .. MaxReports) /\ queue' \in Seq(0 .. MaxReports)
    BY <1>0, <2>1
  <2>3. \A r : In(r, wire) \/ In(r, queue) => In(r, wire') \/ In(r, queue')
    BY <1>0, <2>1, <2>2, AppendedIn, HeadOrTail
  <2>4. Streams!TypeOK'
    BY <1>0, <2>1, <2>2 DEF Streams!TypeOK, Streams!Reports
  <2>5. PollerInv'
    BY <1>d, <2>1 DEF PollerInv, Streams!Websocket
  <2>6. \A r : Way(r) => Way(r)'
    BY <2>1, <2>3 DEF Way
  <2>. QED BY <1>d, <2>1, <2>6, <2>4, <2>5
<1>7. CASE Streams!PollerStep
  <2>1. /\ streamKind = "mt5" /\ watched /\ lastState # report
        /\ lastState' = report /\ watched' \in BOOLEAN /\ (watched' <=> report # MaxReports)
        /\ \/ connected' = TRUE /\ wire' = Append(wire, report)
           \/ ~connected /\ UNCHANGED <<connected, wire>>
        /\ UNCHANGED <<streamKind, report, everConnected, queue, requested, recovering, known,
                       early, gaveUp, unasked, restarted, breaks>>
    BY <1>7 DEF Streams!PollerStep, Streams!Poll, Streams!Over
  <2>2. wire' \in Seq(0 .. MaxReports) /\ connected' \in BOOLEAN
    BY <1>0, <1>h, <2>1
  <2>3. Streams!TypeOK'
    BY <1>0, <2>1, <2>2 DEF Streams!TypeOK, Streams!Reports
  <2>4. PollerInv'
    BY <1>0, <1>d, <2>1 DEF PollerInv, Streams!Websocket
  <2>5. connected' => In(report, wire')
    BY <1>0, <2>1, AppendedIn
  <2>. QED BY <2>1, <2>3, <2>4, <2>5 DEF Way
<1>8. CASE Streams!GatewayRestarts
  <2>1. /\ Streams!Fault /\ watched /\ watched' = FALSE /\ lastState' = 0 /\ restarted' = TRUE
        /\ UNCHANGED <<streamKind, report, connected, everConnected, wire, queue, requested, recovering, known,
                       early, gaveUp, unasked>>
    BY <1>8 DEF Streams!GatewayRestarts
  <2>2. Streams!TypeOK'
    BY <1>0, <1>f, <1>g, <2>1 DEF Streams!TypeOK, Streams!Reports, Streams!Kinds
  <2>3. PollerInv'
    BY <1>0, <1>d, <2>1 DEF PollerInv, Streams!Websocket
  <2>4. Loss'
    BY <1>0, <1>d, <2>1 DEF Way
  <2>. QED BY <2>2, <2>3, <2>4
<1>9. CASE Streams!Project
  <2>1. /\ ~recovering /\ queue' = << >>
        /\ known' \in Streams!Newest({known} \cup Streams!Range(queue))
        /\ UNCHANGED <<streamKind, report, connected, everConnected, wire, watched, lastState, requested, recovering,
                       early, gaveUp, unasked, restarted, breaks>>
    BY <1>9 DEF Streams!Project
  <2>2. known' \in 0 .. MaxReports /\ known <= known' /\ \A r : In(r, queue) => r <= known'
    <3>1. \A n \in DOMAIN queue : queue[n] \in 0 .. MaxReports
      BY <1>0
    <3>2. known' \in {known} \cup Streams!Range(queue) /\ \A r \in {known} \cup Streams!Range(queue) : r <= known'
      BY <2>1 DEF Streams!Newest
    <3>3. known' = known \/ \E n \in DOMAIN queue : known' = queue[n]
      BY <3>2 DEF Streams!Range
    <3>4. \A r : In(r, queue) => r \in Streams!Range(queue)
      BY DEF In, Streams!Range
    <3>. QED BY <1>0, <3>1, <3>2, <3>3, <3>4
  <2>3. Streams!TypeOK'
    BY <1>0, <2>1, <2>2 DEF Streams!TypeOK, Streams!Reports
  <2>4. PollerInv'
    BY <1>d, <2>1 DEF PollerInv, Streams!Websocket
  <2>5. Loss'
    BY <1>0, <1>d, <2>1, <2>2 DEF Way
  <2>. QED BY <2>3, <2>4, <2>5
<1>10. CASE Streams!Reconcile \/ Streams!Recover
  <2>1. /\ (known' = report /\ gaveUp' = gaveUp) \/ (known' = known /\ gaveUp' = report)
        /\ requested' \in BOOLEAN /\ recovering' \in BOOLEAN /\ unasked' \in BOOLEAN
        /\ UNCHANGED <<streamKind, report, connected, everConnected, wire, watched, lastState, queue,
                       early, restarted, breaks>>
    BY <1>0, <1>10 DEF Streams!Reconcile, Streams!Recover, Streams!Answered, Streams!PassedOver
  <2>2. Streams!TypeOK'
    <3>1. known' \in 0 .. MaxReports /\ gaveUp' \in 0 .. MaxReports
      BY <1>0, <2>1
    <3>. QED BY <1>0, <2>1, <3>1 DEF Streams!TypeOK, Streams!Reports
  <2>3. PollerInv'
    BY <1>0, <1>d, <2>1 DEF PollerInv, Streams!Websocket
  <2>4. Loss'
    BY <1>0, <1>d, <2>1 DEF Way
  <2>. QED BY <2>2, <2>3, <2>4
<1>11. CASE Streams!WorkerRestarts
  <2>1. /\ Streams!Fault /\ connected' = FALSE /\ everConnected' = FALSE /\ wire' = << >>
        /\ queue' = << >> /\ requested' = FALSE /\ recovering' = TRUE
        /\ UNCHANGED <<streamKind, report, watched, lastState, known, early, gaveUp, unasked, restarted>>
    BY <1>11 DEF Streams!WorkerRestarts
  <2>2. Streams!TypeOK'
    BY <1>0, <1>f, <1>g, <2>1 DEF Streams!TypeOK, Streams!Reports, Streams!Kinds
  <2>3. PollerInv'
    BY <1>0, <1>d, <2>1 DEF PollerInv, Streams!Websocket
  <2>4. Loss'
    BY <1>0, <1>d, <2>1 DEF Way
  <2>. QED BY <2>2, <2>3, <2>4
<1>. QED BY <1>2, <1>3, <1>4, <1>5, <1>6, <1>7, <1>8, <1>9, <1>10, <1>11 DEF Streams!Next

-----------------------------------------------------------------------------
(***************************************************************************)
(* Connectors.                                                             *)
(***************************************************************************)
(* An order at a venue is over when it is filled, and has the size that was*)
(* asked for, but at Binance, where it is rounded.                         *)
Placed(o) ==
  \/ o = Connector!NoOrder
  \/ /\ o \in Connector!Order /\ o.state # "NONE" /\ o.filled <= o.size
     /\ o.state = "FILLED" <=> o.filled = o.size
     /\ connector # "binance" => o.size = request.quantity

(* Before the first answer nothing was taken; and only a request the venue *)
(* did not take is sent again.                                             *)
Untaken ==
  calling \/ reply.call = "none" =>
    /\ takings = 0 /\ placed = Connector!NoOrder /\ reply = Connector!NotAsked
    /\ \/ attempts = 0
       \/ connector = "binance" /\ attempts <= 1
       \/ connector = "mt5" /\ attempts < FillingModes

ConnectorInv == Connector!TypeOK /\ Placed(placed) /\ Untaken /\ Connector!AnswersAreTrue

(* What an answer may say of an order.                                     *)
Says(a, o) ==
  /\ a \in Connector!Answer /\ a.call # "none"
  /\ a.call = "submit" /\ (a.definite \/ a.status = "REJECTED") => o = Connector!NoOrder
  /\ a.status \in Connector!Final => o = Connector!NoOrder \/ (Connector!Over(o) /\ o.filled = a.filled)

(* What stands for the lack of an order has the type of one.               *)
LEMMA NoOrderIsOrder == Connector!ConnectorsAssumption => Connector!NoOrder \in Connector!Order
BY DEF Connector!ConnectorsAssumption, Connector!NoOrder, Connector!Order, Connector!Units

(* What is told with these words of an order.                              *)
LEMMA ToldIs ==
  ASSUME NEW call \in {"submit", "query", "cancel"}, NEW o, NEW filled \in Connector!Units,
         NEW status \in Connector!Final \cup {"ACCEPTED", "PARTIALLY_FILLED", "PENDING_CANCEL", "UNKNOWN", "ERROR"},
         call = "submit" => status # "REJECTED",
         status \in Connector!Final => Connector!Over(o) /\ o.filled = filled,
         Connector!Tell(call, status, filled)
  PROVE  Says(reply', o)
BY DEF Connector!Tell, Says, Connector!Answer

(* A call that raises says nothing of an order, or for certain that there  *)
(* is none.                                                                *)
LEMMA FailedIs ==
  ASSUME Connector!ConnectorsAssumption, NEW call \in {"submit", "query", "cancel"}, NEW o, NEW definite \in BOOLEAN,
         definite => o = Connector!NoOrder, Connector!Fail(call, definite)
  PROVE  Says(reply', o)
BY DEF Connector!ConnectorsAssumption, Connector!Fail, Says, Connector!Answer, Connector!Final, Connector!Units

(* Each connector shows an order over only when it is.                     *)
LEMMA ShownIs ==
  ASSUME Connector!ConnectorsAssumption, Connector!TypeOK, NEW o, Placed(o), o # Connector!NoOrder,
         NEW call \in {"submit", "query", "cancel"},
         \/ connector = "binance" /\ Connector!BinanceShows(call, o)
         \/ connector = "hyperliquid" /\ call # "submit" /\ Connector!HyperliquidShows(call, o)
         \/ connector = "paper" /\ Connector!PaperShows(call, o)
         \/ connector = "mt5" /\ Connector!Mt5Shows(call, o)
  PROVE  Says(reply', o)
<1>1. /\ o.state \in {"OPEN", "FILLED", "CANCELED"} /\ o.filled \in Connector!Units /\ o.filled <= o.size
      /\ o.filled \in Nat /\ o.size \in Nat /\ request.quantity \in Nat
      /\ o.state = "FILLED" <=> o.filled = o.size
      /\ connector # "binance" => o.size = request.quantity
  BY DEF Placed, Connector!Order, Connector!Units, Connector!TypeOK, Connector!ConnectorsAssumption
<1>2. PICK status : /\ Connector!Tell(call, status, o.filled)
                    /\ \/ connector = "binance" /\ status = Connector!BinanceStatus(o)
                       \/ connector = "hyperliquid" /\ call # "submit" /\ status \in Connector!HyperliquidStatus(o)
                       \/ connector = "paper" /\ status = Connector!PaperStatus(o)
                       \/ connector = "mt5" /\ status = Connector!Mt5Status(o)
  BY DEF Connector!BinanceShows, Connector!HyperliquidShows, Connector!PaperShows, Connector!Mt5Shows
<1>3. CASE connector = "binance"
  <2>1. status = Connector!BinanceStatus(o)
    BY <1>2, <1>3
  <2>2. status \in {"ACCEPTED", "PARTIALLY_FILLED", "FILLED", "CANCELED"}
        /\ (status \in {"FILLED", "CANCELED"} => Connector!Over(o))
    BY <1>1, <2>1 DEF Connector!BinanceStatus, Connector!Over
  <2>. QED BY <1>1, <1>2, <2>2, ToldIs DEF Connector!Final
<1>4. CASE connector = "hyperliquid"
  <2>1. call # "submit" /\ status \in {"ACCEPTED", "FILLED", "CANCELED", "REJECTED"}
        /\ (status # "ACCEPTED" => Connector!Over(o))
    BY <1>1, <1>2, <1>4 DEF Connector!HyperliquidStatus, Connector!Over
  <2>. QED BY <1>1, <1>2, <2>1, ToldIs DEF Connector!Final
<1>5. CASE connector = "paper"
  <2>1. status \in {"ACCEPTED", "PARTIALLY_FILLED", "FILLED", "CANCELED"}
        /\ (status \in {"FILLED", "CANCELED"} => Connector!Over(o))
    BY <1>1, <1>2, <1>5 DEF Connector!PaperStatus, Connector!Over
  <2>. QED BY <1>1, <1>2, <2>1, ToldIs DEF Connector!Final
<1>6. CASE connector = "mt5"
  <2>1. status \in {"ACCEPTED", "PARTIALLY_FILLED", "FILLED", "CANCELED"}
        /\ (status \in {"FILLED", "CANCELED"} => Connector!Over(o))
    BY <1>1, <1>2, <1>6 DEF Connector!Mt5Status, Connector!Over
  <2>. QED BY <1>1, <1>2, <2>1, ToldIs DEF Connector!Final
<1>. QED BY <1>3, <1>4, <1>5, <1>6

(* An order the venue takes.                                               *)
LEMMA TakenIs ==
  ASSUME Connector!ConnectorsAssumption, Connector!TypeOK, NEW q \in Connector!Units,
         connector # "binance" => q = request.quantity,
         NEW o \in Connector!NewOrders(q)
  PROVE  Placed(o) /\ o # Connector!NoOrder /\ o \in Connector!Order
BY DEF Connector!NewOrders, Placed, Connector!NoOrder

(* An answer keeps what is known, if it was the first and the venue took   *)
(* one order at most, or the order is as it was answered.                  *)
LEMMA AnsweredKeeps ==
  ASSUME Connector!ConnectorsAssumption, Connector!TypeOK,
         connector' = connector, request' = request, Says(reply', placed'), calling' = FALSE,
         Placed(placed'), takings' \in 0 .. 1, attempts' \in 0 .. FillingModes + 1,
         remembered' \in Connector!Answer
  PROVE  ConnectorInv'
<1>1. placed' \in Connector!Order
  BY NoOrderIsOrder DEF Placed
<1>2. Connector!TypeOK'
  <2>1. takings' \in 0 .. 2
    OBVIOUS
  <2>2. reply' \in Connector!Answer /\ calling' \in BOOLEAN
    BY DEF Says
  <2>. QED BY <1>1, <2>1, <2>2 DEF Connector!TypeOK
<1>3. Placed(placed)'
  BY DEF Placed
<1>4. Untaken'
  BY DEF Untaken, Says
<1>5. Connector!AnswersAreTrue'
  BY DEF Connector!AnswersAreTrue, Connector!CertainIsTrue, Connector!FinalIsOver, Says, Connector!Over
<1>. QED BY <1>2, <1>3, <1>4, <1>5 DEF ConnectorInv
(* Before the first request nothing was taken and nothing is remembered.   *)
LEMMA ConnectorInit ==
  ASSUME Connector!ConnectorsAssumption, Connector!Init
  PROVE  ConnectorInv
<1>1. Connector!NotAsked \in Connector!Answer
  BY DEF Connector!NotAsked, Connector!Answer, Connector!Units, Connector!ConnectorsAssumption
<1>2. Connector!TypeOK
  <2>1. 0 \in 0 .. 2 /\ 0 \in 0 .. FillingModes + 1
    BY DEF Connector!ConnectorsAssumption
  <2>. QED BY <1>1, <2>1, NoOrderIsOrder DEF Connector!Init, Connector!TypeOK
<1>3. Connector!AnswersAreTrue
  BY DEF Connector!Init, Connector!AnswersAreTrue, Connector!CertainIsTrue, Connector!FinalIsOver, Connector!NotAsked,
    Connector!Final
<1>4. Placed(placed) /\ Untaken
  BY DEF Connector!Init, Placed, Untaken
<1>. QED BY <1>2, <1>3, <1>4 DEF ConnectorInv

(* A call that goes on has had no order taken.                             *)
LEMMA GoneOn ==
  ASSUME Connector!ConnectorsAssumption, ConnectorInv, calling, Connector!GoOn, Connector!Ignores, Connector!Sent,
         UNCHANGED <<connector, request, remembered>>,
         \/ connector = "binance" /\ attempts = 0
         \/ connector = "mt5" /\ attempts' < FillingModes
  PROVE  ConnectorInv'
<1>1. /\ UNCHANGED <<connector, request, placed, takings, reply, remembered>>
      /\ calling' = TRUE /\ attempts' = attempts + 1 /\ attempts \in 0 .. FillingModes + 1
      /\ takings = 0 /\ placed = Connector!NoOrder /\ reply = Connector!NotAsked
  BY DEF Connector!GoOn, Connector!Ignores, Connector!Sent, ConnectorInv, Connector!TypeOK, Untaken
<1>2. attempts' \in 0 .. FillingModes + 1 /\ FillingModes \in Nat
  BY <1>1 DEF Connector!ConnectorsAssumption
<1>3. Connector!TypeOK'
  BY <1>1, <1>2 DEF ConnectorInv, Connector!TypeOK
<1>4. Untaken'
  BY <1>1, <1>2 DEF Untaken
<1>5. Placed(placed)' /\ Connector!AnswersAreTrue'
  BY <1>1 DEF ConnectorInv, Placed, Connector!AnswersAreTrue, Connector!CertainIsTrue, Connector!FinalIsOver, Connector!Over,
    Connector!NotAsked
<1>. QED BY <1>3, <1>4, <1>5 DEF ConnectorInv

(* The ways a submission ends.                                             *)
LEMMA RefusedKeeps ==
  ASSUME Connector!ConnectorsAssumption, ConnectorInv, calling, Connector!Ignores,
         \/ Connector!Refused \/ Connector!Lost \/ Connector!Tell("submit", "REJECTED", 0),
         calling' = FALSE, UNCHANGED <<connector, request>>,
         attempts' \in 0 .. FillingModes + 1, remembered' \in Connector!Answer
  PROVE  ConnectorInv'
<1>1. placed' = Connector!NoOrder /\ takings' = 0 /\ Connector!TypeOK
  BY DEF Connector!Ignores, ConnectorInv, Untaken
<1>2. Says(reply', placed')
  <2>1. CASE Connector!Refused
    BY <1>1, <2>1, FailedIs DEF Connector!Refused
  <2>2. CASE Connector!Lost
    BY <1>1, <2>2, FailedIs DEF Connector!Lost
  <2>3. CASE Connector!Tell("submit", "REJECTED", 0)
    BY <1>1, <2>3 DEF Connector!Tell, Says, Connector!Answer, Connector!Final, Connector!Units,
      Connector!ConnectorsAssumption
  <2>. QED BY <2>1, <2>2, <2>3
<1>3. Placed(placed') /\ takings' \in 0 .. 1
  BY <1>1 DEF Placed
<1>. QED BY <1>1, <1>2, <1>3, AnsweredKeeps

(* A submission that the venue takes ends the call, with whatever the      *)
(* connector tells of the order.                                           *)
LEMMA TakenKeeps ==
  ASSUME Connector!ConnectorsAssumption, ConnectorInv, calling,
         NEW q \in Connector!Units, connector # "binance" => q = request.quantity,
         NEW o \in Connector!NewOrders(q), Connector!Takes(o),
         Says(reply', o),
         calling' = FALSE, UNCHANGED <<connector, request>>,
         attempts' \in 0 .. FillingModes + 1, remembered' \in Connector!Answer
  PROVE  ConnectorInv'
<1>1. placed' = o /\ takings' = 1 /\ Connector!TypeOK
  BY DEF Connector!Takes, ConnectorInv, Untaken
<1>2. Placed(placed') /\ takings' \in 0 .. 1
  BY <1>1, TakenIs
<1>. QED BY <1>1, <1>2, AnsweredKeeps

(* A call without an answer says nothing that could be false.              *)
LEMMA LostIs ==
  ASSUME Connector!ConnectorsAssumption, NEW o, Connector!Lost
  PROVE  Says(reply', o)
BY FailedIs DEF Connector!Lost

(* A call counts what it sends.                                            *)
LEMMA AttemptsAre ==
  ASSUME Connector!ConnectorsAssumption, ConnectorInv, calling,
         attempts' = attempts \/ Connector!Sent
  PROVE  attempts' \in 0 .. FillingModes + 1
BY DEF Connector!ConnectorsAssumption, ConnectorInv, Untaken, Connector!TypeOK, Connector!Sent

(* Rounding down to a step gives no more than there was.                   *)
LEMMA FloorIsLess ==
  ASSUME NEW q \in Nat, NEW d \in Nat \ {0}
  PROVE  (q \div d) * d \in Nat /\ (q \div d) * d <= q
<1>1. PICK n \in Nat : n = q \div d
  OBVIOUS
<1>2. PICK r \in Nat : r = q % d
  OBVIOUS
<1>3. n * d + r = q
  <2>1. d * (q \div d) + (q % d) = q
    OBVIOUS
  <2>2. d * n + r = q
    BY <1>1, <1>2, <2>1
  <2>. QED BY <2>2
<1>4. \A a, b, c \in Nat : a + b = c => a <= c
  OBVIOUS
<1>5. n * d \in Nat
  OBVIOUS
<1>6. n * d <= q
  BY <1>3, <1>4, <1>5
<1>. QED BY <1>1, <1>5, <1>6

(* A rounded quantity is one that can be sent.                             *)
LEMMA FloorIsUnits ==
  ASSUME Connector!ConnectorsAssumption, Connector!TypeOK
  PROVE  Connector!FloorToStep(request.quantity) \in Connector!Units
<1>1. /\ request.quantity \in Nat /\ request.quantity <= MaxUnits
      /\ Step \in Nat \ {0} /\ MaxUnits \in Nat
  BY DEF Connector!TypeOK, Connector!Units, Connector!ConnectorsAssumption
<1>2. PICK floor \in Nat : floor = (request.quantity \div Step) * Step /\ floor <= request.quantity
  BY <1>1, FloorIsLess
<1>3. floor \in 0 .. MaxUnits
  BY <1>1, <1>2
<1>. QED BY <1>2, <1>3 DEF Connector!FloorToStep, Connector!Units

(* submit_order of Binance, refused before it is sent, or sent.            *)
LEMMA BinanceKeeps ==
  ASSUME Connector!ConnectorsAssumption, ConnectorInv, Connector!BinanceRefuse \/ Connector!BinanceSubmit
  PROVE  ConnectorInv'
<1>0. remembered \in Connector!Answer /\ Connector!TypeOK
  BY DEF ConnectorInv, Connector!TypeOK
<1>1. CASE Connector!BinanceRefuse
  <2>1. /\ calling /\ Connector!Ignores /\ (Connector!Refused \/ Connector!Lost) /\ calling' = FALSE
        /\ UNCHANGED <<connector, request, attempts, remembered>>
    BY <1>1 DEF Connector!BinanceRefuse, Connector!Calls, Connector!Return
  <2>. QED BY <1>0, <2>1, RefusedKeeps, AttemptsAre
<1>2. CASE Connector!BinanceSubmit
  <2>1. /\ calling /\ connector = "binance" /\ Connector!Sent /\ Connector!BinanceSigned
        /\ UNCHANGED <<connector, request, remembered>>
    BY <1>2 DEF Connector!BinanceSubmit, Connector!Calls
  <2>2. attempts' \in 0 .. FillingModes + 1
    BY <2>1, AttemptsAre
  <2>3. ASSUME NEW o \in Connector!NewOrders(Connector!FloorToStep(request.quantity)), Connector!Takes(o),
               Connector!BinanceShows("submit", o) \/ Connector!BinanceError, Connector!Return
        PROVE  ConnectorInv'
    <3>1. Placed(o) /\ o # Connector!NoOrder
      BY <1>0, <2>1, <2>3, FloorIsUnits, TakenIs
    <3>2. Says(reply', o)
      BY <1>0, <2>1, <2>3, <3>1, ShownIs, LostIs DEF Connector!BinanceError
    <3>. QED BY <1>0, <2>1, <2>2, <2>3, <3>2, FloorIsUnits, TakenKeeps DEF Connector!Return
  <2>4. ASSUME Connector!Ignores, Connector!Refused \/ Connector!BinanceError, Connector!Return
        PROVE  ConnectorInv'
    BY <1>0, <2>1, <2>2, <2>4, RefusedKeeps DEF Connector!BinanceError, Connector!Return
  <2>5. ASSUME Connector!Ignores, attempts = 0, Connector!GoOn
        PROVE  ConnectorInv'
    BY <2>1, <2>5, GoneOn
  <2>. QED BY <2>1, <2>3, <2>4, <2>5 DEF Connector!BinanceSigned
<1>. QED BY <1>1, <1>2

(* submit_order of Hyperliquid, refused before it is sent, or sent.        *)
LEMMA HyperliquidKeeps ==
  ASSUME Connector!ConnectorsAssumption, ConnectorInv, Connector!HyperliquidRefuse \/ Connector!HyperliquidSubmit
  PROVE  ConnectorInv'
<1>0. remembered \in Connector!Answer /\ Connector!TypeOK
  BY DEF ConnectorInv, Connector!TypeOK
<1>1. CASE Connector!HyperliquidRefuse
  <2>1. /\ calling /\ Connector!Ignores /\ (Connector!Refused \/ Connector!Lost) /\ calling' = FALSE
        /\ UNCHANGED <<connector, request, attempts, remembered>>
    BY <1>1 DEF Connector!HyperliquidRefuse, Connector!Calls, Connector!Return
  <2>. QED BY <1>0, <2>1, RefusedKeeps, AttemptsAre
<1>2. CASE Connector!HyperliquidSubmit
  <2>1. /\ calling /\ connector = "hyperliquid" /\ Connector!Sent /\ calling' = FALSE
        /\ UNCHANGED <<connector, request>>
        /\ remembered' = IF reply'.status = "ERROR" THEN remembered ELSE reply'
        /\ \/ \E o \in Connector!NewOrders(request.quantity) :
                 Connector!Takes(o) /\ (Connector!HyperliquidAnswer(o) \/ Connector!Lost)
           \/ Connector!Ignores /\ Connector!Lost
    BY <1>2 DEF Connector!HyperliquidSubmit, Connector!Calls, Connector!Return, Connector!Remember
  <2>2. attempts' \in 0 .. FillingModes + 1 /\ request.quantity \in Connector!Units
    BY <1>0, <2>1, AttemptsAre DEF Connector!TypeOK
  <2>3. ASSUME NEW o \in Connector!NewOrders(request.quantity), Connector!Takes(o),
               Connector!HyperliquidAnswer(o) \/ Connector!Lost
        PROVE  ConnectorInv'
    <3>1. o \in Connector!Order /\ o.filled \in Connector!Units /\ 0 \in Connector!Units
      BY <2>3 DEF Connector!NewOrders, Connector!Order, Connector!Units, Connector!ConnectorsAssumption
    <3>2. ASSUME Connector!HyperliquidAnswer(o) PROVE Says(reply', o)
      BY <3>1, <3>2, ToldIs DEF Connector!HyperliquidAnswer, Connector!SubmitShows, Connector!Final
    <3>3. Says(reply', o)
      BY <2>3, <3>2, LostIs
    <3>4. remembered' \in Connector!Answer
      BY <1>0, <2>1, <3>3 DEF Says
    <3>. QED BY <2>1, <2>2, <2>3, <3>3, <3>4, TakenKeeps
  <2>4. ASSUME Connector!Ignores, Connector!Lost PROVE ConnectorInv'
    <3>1. reply'.status = "ERROR"
      BY <2>4 DEF Connector!Lost, Connector!Fail
    <3>. QED BY <1>0, <2>1, <2>2, <2>4, <3>1, RefusedKeeps
  <2>. QED BY <2>1, <2>3, <2>4
<1>. QED BY <1>1, <1>2

(* submit_order of the paper connector, matched against one book.          *)
LEMMA PaperKeeps ==
  ASSUME Connector!ConnectorsAssumption, ConnectorInv, Connector!PaperSubmit
  PROVE  ConnectorInv'
<1>0. remembered \in Connector!Answer /\ Connector!TypeOK /\ request.quantity \in Connector!Units
  BY DEF ConnectorInv, Connector!TypeOK
<1>1. /\ calling /\ connector = "paper" /\ calling' = FALSE
      /\ UNCHANGED <<connector, request, attempts, remembered>>
      /\ \/ \E o \in Connector!NewOrders(request.quantity) : Connector!Takes(o) /\ Connector!PaperShows("submit", o)
         \/ Connector!Ignores /\ Connector!Tell("submit", "REJECTED", 0)
  BY DEF Connector!PaperSubmit, Connector!Calls, Connector!Return
<1>2. attempts' \in 0 .. FillingModes + 1
  BY <1>1, AttemptsAre
<1>3. ASSUME NEW o \in Connector!NewOrders(request.quantity), Connector!Takes(o), Connector!PaperShows("submit", o)
      PROVE  ConnectorInv'
  <2>1. Placed(o) /\ o # Connector!NoOrder
    BY <1>0, <1>1, <1>3, TakenIs
  <2>2. Says(reply', o)
    BY <1>0, <1>1, <1>3, <2>1, ShownIs
  <2>. QED BY <1>0, <1>1, <1>2, <1>3, <2>2, TakenKeeps
<1>4. ASSUME Connector!Ignores, Connector!Tell("submit", "REJECTED", 0) PROVE ConnectorInv'
  BY <1>0, <1>1, <1>2, <1>4, RefusedKeeps
<1>. QED BY <1>1, <1>3, <1>4

(* submit_order of the MT5 gateway, which may try one filling mode after   *)
(* the other.                                                              *)
LEMMA Mt5Keeps ==
  ASSUME Connector!ConnectorsAssumption, ConnectorInv, Connector!Mt5Refuse \/ Connector!Mt5Submit
  PROVE  ConnectorInv'
<1>0. remembered \in Connector!Answer /\ Connector!TypeOK /\ request.quantity \in Connector!Units
  BY DEF ConnectorInv, Connector!TypeOK
<1>1. CASE Connector!Mt5Refuse
  <2>1. /\ calling /\ Connector!Ignores /\ Connector!Refused /\ calling' = FALSE
        /\ UNCHANGED <<connector, request, attempts, remembered>>
    BY <1>1 DEF Connector!Mt5Refuse, Connector!Calls, Connector!Return
  <2>. QED BY <1>0, <2>1, RefusedKeeps, AttemptsAre
<1>2. CASE Connector!Mt5Submit
  <2>1. /\ calling /\ connector = "mt5" /\ Connector!Sent
        /\ UNCHANGED <<connector, request, remembered>>
        /\ \/ \E o \in Connector!NewOrders(request.quantity) :
                 Connector!Takes(o) /\ (Connector!Mt5Shows("submit", o) \/ Connector!Lost) /\ calling' = FALSE
           \/ Connector!Ignores /\ attempts' < FillingModes /\ Connector!GoOn
           \/ Connector!Ignores /\ (Connector!Refused \/ Connector!Lost) /\ calling' = FALSE
    BY <1>2 DEF Connector!Mt5Submit, Connector!Calls, Connector!Return, Connector!Mt5NextMode
  <2>2. attempts' \in 0 .. FillingModes + 1
    BY <2>1, AttemptsAre
  <2>3. ASSUME NEW o \in Connector!NewOrders(request.quantity), Connector!Takes(o),
               Connector!Mt5Shows("submit", o) \/ Connector!Lost, calling' = FALSE
        PROVE  ConnectorInv'
    <3>1. Placed(o) /\ o # Connector!NoOrder
      BY <1>0, <2>1, <2>3, TakenIs
    <3>2. Says(reply', o)
      BY <1>0, <2>1, <2>3, <3>1, ShownIs, LostIs
    <3>. QED BY <1>0, <2>1, <2>2, <2>3, <3>2, TakenKeeps
  <2>4. ASSUME Connector!Ignores, Connector!Refused \/ Connector!Lost, calling' = FALSE PROVE ConnectorInv'
    BY <1>0, <2>1, <2>2, <2>4, RefusedKeeps
  <2>5. ASSUME Connector!Ignores, attempts' < FillingModes, Connector!GoOn PROVE ConnectorInv'
    BY <2>1, <2>5, GoneOn
  <2>. QED BY <2>1, <2>3, <2>4, <2>5
<1>. QED BY <1>1, <1>2

(* The answers to later questions.                                         *)
LEMMA QueriedKeeps ==
  ASSUME Connector!ConnectorsAssumption, ConnectorInv, UNCHANGED <<connector, request, takings, attempts, calling>>,
         Placed(placed'), Says(reply', placed'), ~calling, reply.call # "none",
         remembered' \in Connector!Answer, placed' = placed \/ takings \in 0 .. 1
  PROVE  ConnectorInv'
<1>1. takings \in 0 .. 1 /\ attempts \in 0 .. FillingModes + 1 /\ calling = FALSE /\ Connector!TypeOK
  BY DEF ConnectorInv, Connector!TypeOK, Connector!AnswersAreTrue, Connector!CertainIsTrue
<1>. QED BY <1>1, AnsweredKeeps

(* get_order of each connector: from the venue, or from what is            *)
(* remembered.                                                             *)
LEMMA QueriesKeep ==
  ASSUME Connector!ConnectorsAssumption, ConnectorInv,
         \/ Connector!BinanceGetOrder \/ Connector!HyperliquidGetOrder
         \/ Connector!PaperGetOrder \/ Connector!Mt5GetOrder
  PROVE  ConnectorInv'
<1>1. /\ ~calling /\ reply.call # "none" /\ UNCHANGED <<connector, request, placed, takings, attempts, calling, remembered>>
      /\ \/ Connector!Fail("query", FALSE)
         \/ /\ placed # Connector!NoOrder
            /\ \/ connector = "binance" /\ Connector!BinanceShows("query", placed)
               \/ connector = "hyperliquid" /\ Connector!HyperliquidShows("query", placed)
               \/ connector = "paper" /\ Connector!PaperShows("query", placed)
               \/ connector = "mt5" /\ Connector!Mt5Shows("query", placed)
               \/ Connector!Mt5DealsShow(placed)
  BY DEF Connector!BinanceGetOrder, Connector!HyperliquidGetOrder, Connector!PaperGetOrder, Connector!Mt5GetOrder,
    Connector!Asks, Connector!Asked, Connector!Unfound, Connector!Known
<1>2. Placed(placed) /\ Connector!TypeOK /\ remembered \in Connector!Answer /\ placed.filled \in Connector!Units
  BY DEF ConnectorInv, Connector!TypeOK, Connector!Order
<1>3. ASSUME Connector!Mt5DealsShow(placed) PROVE Says(reply', placed)
  BY <1>2, <1>3, ToldIs DEF Connector!Mt5DealsShow, Connector!Final
<1>4. Says(reply', placed)
  BY <1>1, <1>2, <1>3, ShownIs, FailedIs
<1>. QED BY <1>1, <1>2, <1>4, QueriedKeeps

(* An order that is taken back is over with what it has filled.            *)
LEMMA CancelsIs ==
  ASSUME Connector!ConnectorsAssumption, ConnectorInv, Connector!Cancels(placed)
  PROVE  /\ Placed(placed') /\ placed' # Connector!NoOrder /\ placed'.state = "CANCELED"
         /\ placed'.filled = placed.filled /\ placed.filled \in Connector!Units
BY DEF ConnectorInv, Connector!TypeOK, Connector!Cancels, Placed, Connector!Order, Connector!NoOrder

(* cancel_order of each connector, before or after the order is over.      *)
LEMMA CancelsKeep ==
  ASSUME Connector!ConnectorsAssumption, ConnectorInv, connector' = connector,
         \/ Connector!BinanceCancel \/ Connector!HyperliquidCancel
         \/ Connector!PaperCancel \/ Connector!Mt5Cancel
  PROVE  ConnectorInv'
<1>1. Placed(placed) /\ Connector!TypeOK /\ remembered \in Connector!Answer /\ placed.filled \in Connector!Units
      /\ takings \in 0 .. 1
  BY DEF ConnectorInv, Connector!TypeOK, Connector!Order, Connector!AnswersAreTrue, Connector!CertainIsTrue
<1>2. ~calling /\ reply.call # "none" /\ UNCHANGED <<connector, request, takings, attempts, calling>>
  BY DEF Connector!BinanceCancel, Connector!HyperliquidCancel, Connector!PaperCancel, Connector!Mt5Cancel, Connector!Asks,
    Connector!Canceled
<1>3. ASSUME Connector!Cancels(placed) \/ Connector!Late(placed)
      PROVE  /\ Placed(placed') /\ placed' # Connector!NoOrder /\ Connector!Over(placed')
             /\ placed'.filled = placed.filled
  BY <1>1, <1>3, CancelsIs DEF Connector!Late, Connector!Over, Connector!NoOrder
<1>4. CASE Connector!BinanceCancel
  <2>1. /\ remembered' = remembered /\ connector = "binance"
        /\ \/ Connector!Cancels(placed) /\ Connector!BinanceShows("cancel", placed')
           \/ Connector!Late(placed) /\ Connector!Fail("cancel", FALSE)
    BY <1>4 DEF Connector!BinanceCancel, Connector!Asks, Connector!Canceled
  <2>2. Says(reply', placed')
    BY <1>1, <1>3, <2>1, ShownIs, FailedIs
  <2>. QED BY <1>1, <1>2, <1>3, <2>1, <2>2, QueriedKeeps
<1>5. CASE Connector!HyperliquidCancel
  <2>1. /\ remembered' = reply' /\ (Connector!Cancels(placed) \/ Connector!Late(placed))
        /\ Connector!Tell("cancel", "PENDING_CANCEL", IF remembered = Connector!NotAsked THEN placed'.filled ELSE remembered.filled)
    BY <1>5 DEF Connector!HyperliquidCancel
  <2>2. (IF remembered = Connector!NotAsked THEN placed'.filled ELSE remembered.filled) \in Connector!Units
    BY <1>1, <1>3, <2>1 DEF Connector!Answer
  <2>3. Says(reply', placed')
    BY <2>1, <2>2, ToldIs DEF Connector!Final
  <2>. QED BY <1>1, <1>2, <1>3, <2>1, <2>3, QueriedKeeps DEF Says
<1>6. CASE Connector!PaperCancel
  <2>1. /\ remembered' = remembered /\ connector = "paper" /\ placed # Connector!NoOrder
        /\ \/ Connector!Cancels(placed) /\ Connector!Tell("cancel", "CANCELED", placed.filled)
           \/ Connector!Late(placed) /\ Connector!PaperShows("cancel", placed)
    BY <1>6 DEF Connector!PaperCancel, Connector!Asks, Connector!Canceled, Connector!Known
  <2>2. Says(reply', placed')
    <3>1. CASE Connector!Cancels(placed) /\ Connector!Tell("cancel", "CANCELED", placed.filled)
      BY <1>1, <1>3, <3>1, ToldIs DEF Connector!Final
    <3>2. CASE Connector!Late(placed) /\ Connector!PaperShows("cancel", placed)
      <4>1. placed' = placed /\ Says(reply', placed)
        BY <1>1, <2>1, <3>2, ShownIs DEF Connector!Late
      <4>. QED BY <4>1
    <3>. QED BY <2>1, <3>1, <3>2
  <2>. QED BY <1>1, <1>2, <1>3, <2>1, <2>2, QueriedKeeps
<1>7. CASE Connector!Mt5Cancel
  <2>1. /\ remembered' = remembered
        /\ \/ Connector!Cancels(placed) /\ Connector!Tell("cancel", "PENDING_CANCEL", placed'.filled)
           \/ Connector!Late(placed) /\ Connector!Fail("cancel", FALSE)
    BY <1>7 DEF Connector!Mt5Cancel, Connector!Canceled
  <2>2. Says(reply', placed')
    BY <1>1, <1>3, <2>1, ToldIs, FailedIs DEF Connector!Final
  <2>. QED BY <1>1, <1>2, <1>3, <2>1, <2>2, QueriedKeeps
<1>. QED BY <1>4, <1>5, <1>6, <1>7

(* The venue goes on with an order only while it is open.                  *)
LEMMA VenueKeeps ==
  ASSUME Connector!ConnectorsAssumption, ConnectorInv, Connector!VenueMoves
  PROVE  ConnectorInv'
<1>1. PICK n \in placed.filled .. placed.size, s \in {"OPEN", "FILLED", "CANCELED"} :
        /\ s = "FILLED" <=> n = placed.size
        /\ placed' = [placed EXCEPT !.filled = n, !.state = s]
  BY DEF Connector!VenueMoves
<1>2. /\ placed.state = "OPEN" /\ UNCHANGED <<connector, request, takings, attempts, calling, reply, remembered>>
  BY DEF Connector!VenueMoves
<1>3. /\ placed \in Connector!Order /\ placed # Connector!NoOrder /\ placed.filled <= placed.size
      /\ placed.filled \in Nat /\ placed.size \in Nat /\ placed.size <= MaxUnits /\ MaxUnits \in Nat
      /\ connector # "binance" => placed.size = request.quantity
  BY <1>2 DEF ConnectorInv, Connector!TypeOK, Placed, Connector!Order, Connector!NoOrder, Connector!Units,
    Connector!ConnectorsAssumption
<1>4. /\ placed'.filled = n /\ placed'.state = s /\ placed'.size = placed.size /\ placed' \in Connector!Order
      /\ placed' # Connector!NoOrder
  <2>1. n \in Connector!Units
    BY <1>3 DEF Connector!Units
  <2>2. placed = [state |-> placed.state, size |-> placed.size, filled |-> placed.filled]
        /\ placed.size \in Connector!Units
    BY <1>3 DEF Connector!Order
  <2>3. placed' = [state |-> s, size |-> placed.size, filled |-> n]
    BY <1>1, <2>2
  <2>. QED BY <2>1, <2>2, <2>3 DEF Connector!Order, Connector!NoOrder
<1>5. Placed(placed)'
  BY <1>1, <1>2, <1>3, <1>4 DEF Placed
<1>6. Untaken'
  BY <1>2, <1>3 DEF ConnectorInv, Untaken
<1>7. Connector!TypeOK'
  BY <1>2, <1>4 DEF ConnectorInv, Connector!TypeOK
<1>8. Connector!AnswersAreTrue'
  BY <1>2, <1>3 DEF ConnectorInv, Connector!AnswersAreTrue, Connector!CertainIsTrue, Connector!FinalIsOver, Connector!Over,
    Untaken, Connector!NotAsked, Connector!Final
<1>. QED BY <1>5, <1>6, <1>7, <1>8 DEF ConnectorInv

(* No step of a connector or of its venue disturbs what its answers may    *)
(* say.                                                                    *)
LEMMA ConnectorStep ==
  ASSUME Connector!ConnectorsAssumption, ConnectorInv, [Connector!Next]_Connector!vars
  PROVE  ConnectorInv'
<1>1. CASE UNCHANGED Connector!vars
  BY <1>1 DEF Connector!vars, ConnectorInv, Connector!TypeOK, Placed, Untaken, Connector!AnswersAreTrue,
    Connector!CertainIsTrue, Connector!FinalIsOver, Connector!Over
<1>2. CASE Connector!Begin
  BY <1>2 DEF Connector!Begin, ConnectorInv, Connector!TypeOK, Placed, Untaken, Connector!AnswersAreTrue,
    Connector!CertainIsTrue, Connector!FinalIsOver, Connector!Over
<1>3. CASE \/ Connector!BinanceCancel \/ Connector!HyperliquidCancel
           \/ Connector!PaperCancel \/ Connector!Mt5Cancel
  <2>1. connector' = connector
    BY <1>3 DEF Connector!BinanceCancel, Connector!HyperliquidCancel, Connector!PaperCancel, Connector!Mt5Cancel,
      Connector!Canceled
  <2>. QED BY <1>3, <2>1, CancelsKeep
<1>. QED BY <1>1, <1>2, <1>3, BinanceKeeps, HyperliquidKeeps, PaperKeeps, Mt5Keeps, QueriesKeep, VenueKeeps
     DEF Connector!Next

-----------------------------------------------------------------------------
(***************************************************************************)
(* LegacyReconciler.                                                       *)
(***************************************************************************)
(* What a platform has decided about an order stays so, and the row of an  *)
(* order says so only when it is.                                          *)
Decided == {"filled"} \cup Legacy!FailedStatuses
RowsAreReal ==
  \A p \in Platforms :
    /\ Legacy!Plausible(platform[p])
    /\ orderStatus[p] \in Decided => platform[p].status = orderStatus[p]

(* Both sides of a group that was opened, or closed, are in the ledger.    *)
BothRecorded == oldGroup \in {"open", "closed"} => \A p \in Platforms : books[p] > 0

LegacyInv ==
  Legacy!TypeOK /\ RowsAreReal /\ Legacy!LegacyLedgerReal /\ BothRecorded /\ Legacy!ShadowIsReal

(* A group the reconciler inherits has an empty ledger and rows that       *)
(* decide nothing.                                                         *)
LEMMA LegacyInit ==
  ASSUME Legacy!ReconcilerAssumption, Legacy!Init
  PROVE  LegacyInv
<1>1. OldLots \in Nat \ {0} /\ 0 \in 0 .. OldLots
  BY DEF Legacy!ReconcilerAssumption
<1>2. Legacy!TypeOK
  BY <1>1 DEF Legacy!Init, Legacy!TypeOK, Legacy!Statuses, Legacy!PendingStatuses
<1>3. RowsAreReal
  BY DEF Legacy!Init, RowsAreReal, Decided, Legacy!FailedStatuses
<1>4. Legacy!LegacyLedgerReal
  BY <1>1 DEF Legacy!Init, Legacy!LegacyLedgerReal, Legacy!VenueRow
<1>5. BothRecorded /\ Legacy!ShadowIsReal
  BY DEF Legacy!Init, BothRecorded, Legacy!ShadowIsReal
<1>. QED BY <1>2, <1>3, <1>4, <1>5 DEF LegacyInv

(* An answer never takes a fill off the ledger, nor adds one there is not. *)
LEMMA RefreshedIs ==
  ASSUME LegacyInv, Legacy!ReconcilerAssumption, NEW p \in Platforms, NEW full \in BOOLEAN
  PROVE  /\ Legacy!RefreshedLedger(p, full) \in 0 .. OldLots
         /\ books[p] <= Legacy!RefreshedLedger(p, full)
         /\ Legacy!RefreshedLedger(p, full) <= platform[p].filled
<1>1. /\ books[p] \in 0 .. OldLots /\ platform[p].filled \in 0 .. OldLots /\ books[p] <= platform[p].filled
      /\ OldLots \in Nat
  BY DEF LegacyInv, Legacy!TypeOK, Legacy!VenueRow, Legacy!LegacyLedgerReal, Legacy!ReconcilerAssumption
<1>. QED BY <1>1 DEF Legacy!RefreshedLedger

(* What a platform has filled only grows, and what it has decided stays.   *)
LEMMA PlatformKeeps ==
  ASSUME Legacy!ReconcilerAssumption, LegacyInv, NEW p \in Platforms, Legacy!VenueMoves(p)
  PROVE  LegacyInv'
<1>1. PICK r \in Legacy!VenueRow :
        /\ Legacy!Plausible(r) /\ r.filled >= platform[p].filled
        /\ platform' = [platform EXCEPT ![p] = r]
  BY DEF Legacy!VenueMoves
<1>2. /\ platform[p].status \in {"accepted", "partially_filled"}
      /\ UNCHANGED <<orderStatus, books, failed, old, oldGroup, events, kept, shadow>>
  BY DEF Legacy!VenueMoves
<1>3. platform \in [Platforms -> Legacy!VenueRow]
  BY DEF LegacyInv, Legacy!TypeOK
<1>4. platform' \in [Platforms -> Legacy!VenueRow] /\ platform'[p] = r
      /\ \A q \in Platforms : q # p => platform'[q] = platform[q]
  BY <1>1, <1>3
<1>5. Legacy!TypeOK'
  BY <1>2, <1>4 DEF LegacyInv, Legacy!TypeOK
<1>6. RowsAreReal'
  BY <1>1, <1>2, <1>4 DEF LegacyInv, RowsAreReal, Decided, Legacy!FailedStatuses, Legacy!Plausible
<1>7. Legacy!LegacyLedgerReal'
  <2>1. books[p] <= r.filled
    <3>1. books[p] \in Nat /\ platform[p].filled \in Nat /\ r.filled \in Nat /\ books[p] <= platform[p].filled
      BY <1>1, <1>3 DEF LegacyInv, Legacy!TypeOK, Legacy!VenueRow, Legacy!LegacyLedgerReal, Legacy!ReconcilerAssumption
    <3>. QED BY <1>1, <3>1
  <2>. QED BY <1>2, <1>4, <2>1 DEF LegacyInv, Legacy!LegacyLedgerReal
<1>8. BothRecorded' /\ Legacy!ShadowIsReal'
  BY <1>2, <1>4 DEF LegacyInv, BothRecorded, Legacy!ShadowIsReal, Legacy!FailedStatuses
<1>. QED BY <1>5, <1>6, <1>7, <1>8 DEF LegacyInv

(* A pass writes what the platforms say, and nothing else.                 *)
LEMMA PassKeeps ==
  ASSUME Legacy!ReconcilerAssumption, LegacyInv,
         NEW listed \in SUBSET Platforms, NEW answered \in SUBSET Platforms, NEW silent \in SUBSET answered,
         Legacy!Pass(listed, answered, silent)
  PROVE  LegacyInv'
<1>. DEFINE first    == [p \in Platforms |-> IF p \in listed THEN platform[p].status ELSE orderStatus[p]]
            newStat  == [p \in Platforms |-> IF p \in answered THEN platform[p].status ELSE first[p]]
            newLed   == [p \in Platforms |-> IF p \in answered THEN Legacy!RefreshedLedger(p, p \notin silent)
                                             ELSE books[p]]
            advanced == IF Legacy!Moving THEN Legacy!Advanced(newStat, newLed) ELSE oldGroup
<1>1. /\ orderStatus' = newStat /\ books' = newLed /\ shadow' = Legacy!Mirrored(newStat, newLed)
      /\ oldGroup' \in {"manual_intervention", advanced}
      /\ failed' \subseteq failed \cup Platforms
      /\ events' \subseteq events \cup {"late_external_fill", "detached_order_reconcile_required",
                                        "external_reconcile_required", "residual_position"}
      /\ listed \subseteq Legacy!Listed
      /\ UNCHANGED <<platform, old, kept>>
  BY DEF Legacy!Pass
<1>2. /\ platform \in [Platforms -> Legacy!VenueRow] /\ orderStatus \in [Platforms -> Legacy!Statuses]
      /\ books \in [Platforms -> 0 .. OldLots] /\ OldLots \in Nat \ {0}
      /\ failed \subseteq Platforms
      /\ oldGroup \in {"opening", "open", "closing", "closed", "failed", "manual_intervention"}
  BY DEF LegacyInv, Legacy!TypeOK, Legacy!ReconcilerAssumption
<1>3. \A p \in Platforms : /\ newStat[p] \in Legacy!Statuses
                           /\ newStat[p] \in {platform[p].status, orderStatus[p]}
  <2>1. \A p \in Platforms : platform[p].status \in Legacy!Statuses
    BY <1>2 DEF Legacy!VenueRow, Legacy!Statuses, Legacy!PendingStatuses, Legacy!EffectStatuses, Legacy!FailedStatuses
  <2>. QED BY <1>2, <2>1
<1>4. \A p \in Platforms : /\ newLed[p] \in 0 .. OldLots /\ books[p] <= newLed[p] /\ newLed[p] <= platform[p].filled
  <2>. SUFFICES ASSUME NEW p \in Platforms
                PROVE  newLed[p] \in 0 .. OldLots /\ books[p] <= newLed[p] /\ newLed[p] <= platform[p].filled
    OBVIOUS
  <2>1. CASE p \in answered
    <3>1. newLed[p] = Legacy!RefreshedLedger(p, p \notin silent)
      BY <2>1
    <3>2. (p \notin silent) \in BOOLEAN
      OBVIOUS
    <3>. QED BY <3>1, <3>2, RefreshedIs
  <2>2. CASE p \notin answered
    <3>1. newLed[p] = books[p] /\ books[p] \in 0 .. OldLots /\ books[p] <= platform[p].filled
      BY <1>2, <2>2 DEF LegacyInv, Legacy!LegacyLedgerReal
    <3>. QED BY <1>2, <3>1
  <2>. QED BY <2>1, <2>2
<1>5. DOMAIN newStat = Platforms /\ DOMAIN newLed = Platforms
      /\ newStat = [p \in Platforms |-> newStat[p]] /\ newLed = [p \in Platforms |-> newLed[p]]
  OBVIOUS
<1>6. \A p \in Platforms : newStat[p] \in Decided => platform[p].status = newStat[p]
  BY <1>3 DEF LegacyInv, RowsAreReal
<1>. HIDE DEF newStat, newLed
<1>7. \A p \in Platforms : shadow'[p] = Legacy!Shadowed(newStat, newLed, p)
  BY <1>1 DEF Legacy!Mirrored
<1>8. \A p \in Platforms : newLed[p] >= OldLots => platform[p].status = "filled"
  <2>. SUFFICES ASSUME NEW p \in Platforms, newLed[p] >= OldLots PROVE platform[p].status = "filled"
    OBVIOUS
  <2>1. platform[p].filled \in 0 .. OldLots /\ newLed[p] \in 0 .. OldLots /\ newLed[p] <= platform[p].filled
    BY <1>2, <1>4 DEF Legacy!VenueRow
  <2>2. platform[p].filled = OldLots
    BY <1>2, <2>1
  <2>. QED BY <2>2 DEF LegacyInv, RowsAreReal, Legacy!Plausible
<1>9. Legacy!ShadowIsReal'
  BY <1>1, <1>6, <1>7, <1>8
  DEF Legacy!ShadowIsReal, Legacy!Shadowed, Legacy!Normalized, Decided, Legacy!FailedStatuses
<1>10. advanced \in {"opening", "open", "closing", "closed", "failed", "manual_intervention"}
  BY <1>2 DEF Legacy!Advanced, Legacy!Moving
<1>11. BothRecorded'
  <2>. SUFFICES ASSUME advanced \in {"open", "closed"} PROVE \A p \in Platforms : newLed[p] > 0
    BY <1>1 DEF BothRecorded
  <2>1. CASE Legacy!Moving
    <3>1. {p \in Platforms : Legacy!HasEffect(newStat, newLed, p)} = Platforms
      BY <2>1 DEF Legacy!Advanced, Legacy!Moving
    <3>. QED BY <3>1 DEF Legacy!HasEffect
  <2>2. CASE ~Legacy!Moving
    <3>1. \A p \in Platforms : books[p] > 0
      BY <2>2 DEF LegacyInv, BothRecorded
    <3>2. \A p \in Platforms : books[p] \in Nat /\ newLed[p] \in Nat /\ books[p] <= newLed[p]
      BY <1>2, <1>4
    <3>. QED BY <3>1, <3>2
  <2>. QED BY <2>1, <2>2
<1>12. \A p \in Platforms : shadow'[p] \in {"NONE", "RUNNING", "COMPLETED", "FAILED"}
  BY <1>7 DEF Legacy!Shadowed
<1>13. shadow' \in [Platforms -> {"NONE", "RUNNING", "COMPLETED", "FAILED"}]
  BY <1>1, <1>12 DEF Legacy!Mirrored
<1>14. Legacy!TypeOK'
  <2>1. orderStatus' \in [Platforms -> Legacy!Statuses]
    BY <1>1, <1>3, <1>5
  <2>2. books' \in [Platforms -> 0 .. OldLots]
    BY <1>1, <1>4, <1>5
  <2>3. failed' \subseteq Platforms
    BY <1>1, <1>2
  <2>4. oldGroup' \in {"opening", "open", "closing", "closed", "failed", "manual_intervention"}
    BY <1>1, <1>10
  <2>. QED BY <1>1, <1>13, <2>1, <2>2, <2>3, <2>4 DEF LegacyInv, Legacy!TypeOK
<1>15. RowsAreReal' /\ Legacy!LegacyLedgerReal'
  BY <1>1, <1>4, <1>6 DEF LegacyInv, RowsAreReal, Legacy!LegacyLedgerReal
<1>. QED BY <1>9, <1>11, <1>14, <1>15 DEF LegacyInv

(* No pass of the reconciler and no move of a platform disturbs it.        *)
LEMMA LegacyStep ==
  ASSUME Legacy!ReconcilerAssumption, LegacyInv, [Legacy!Next]_Legacy!vars
  PROVE  LegacyInv'
<1>1. CASE UNCHANGED <<platform, orderStatus, books, failed, oldGroup, events, shadow>> /\ old' \subseteq old \cup Platforms
           /\ kept' \subseteq kept \cup Platforms
  BY <1>1 DEF LegacyInv, Legacy!TypeOK, RowsAreReal, Legacy!LegacyLedgerReal, BothRecorded, Legacy!ShadowIsReal
<1>2. ASSUME UNCHANGED Legacy!vars \/ \E p \in Platforms : Legacy!GrowOld(p) \/ Legacy!PositionSynced(p)
      PROVE  /\ UNCHANGED <<platform, orderStatus, books, failed, oldGroup, events, shadow>>
             /\ old' \subseteq old \cup Platforms /\ kept' \subseteq kept \cup Platforms
  BY <1>2 DEF Legacy!vars, Legacy!GrowOld, Legacy!PositionSynced
<1>. QED BY <1>1, <1>2, PlatformKeeps, PassKeeps DEF Legacy!Next

(* A group the ledger shows on both sides is on both sides of the venues.  *)
LEMMA LegacyIsSafe ==
  ASSUME Legacy!ReconcilerAssumption, LegacyInv
  PROVE  Legacy!OpenOnBothSides /\ Legacy!ShadowIsReal /\ Legacy!LegacyLedgerReal
<1>1. \A p \in Platforms : books[p] \in Nat /\ platform[p].filled \in Nat /\ books[p] <= platform[p].filled
  BY DEF LegacyInv, Legacy!TypeOK, Legacy!VenueRow, Legacy!LegacyLedgerReal, Legacy!ReconcilerAssumption
<1>2. \A m, n \in Nat : m > 0 /\ m <= n => n > 0
  OBVIOUS
<1>3. Legacy!OpenOnBothSides
  BY <1>1, <1>2 DEF LegacyInv, BothRecorded, Legacy!OpenOnBothSides
<1>. QED BY <1>3 DEF LegacyInv

-----------------------------------------------------------------------------
(***************************************************************************)
(* LivePositions.                                                          *)
(***************************************************************************)
PositionEvents == [clears : BOOLEAN, position : Positions, size : 0 .. MaxSize]

(* The last event of a sequence that sets the row of a position, and what  *)
(* it sets it to.                                                          *)
About(e, p) == e.clears \/ e.position = p
SetTo(e) == IF e.clears THEN 0 ELSE e.size
LastAbout(s, p, k) == k \in DOMAIN s /\ About(s[k], p) /\ \A j \in DOMAIN s : About(s[j], p) => j <= k

(* The table, or what will be the table when the sync commits.             *)
Tables == IF sampled = {} THEN {copied} ELSE sampled

(* What is on its way ends with the account, position by position; where   *)
(* nothing is on its way the table has it already, unless it was missed.   *)
Following ==
  \A p \in Positions :
    /\ \A k : LastAbout(stream, p, k) => SetTo(stream[k]) = account[p]
    /\ p \notin missed /\ (\A k \in DOMAIN stream : ~About(stream[k], p)) =>
         \A table \in Tables : table[p] = account[p]

(* Nothing is on its way to a worker that is down, nor about MT5; a worker *)
(* syncs only as it starts, and what its websocket knows by then is all.   *)
Syncing ==
  /\ tracking = "polled" \/ worker = "down" => stream = << >>
  /\ sampled # {} => tracking = "polled" \/ worker = "starting"
  /\ worker = "starting" /\ sampled = {} /\ tracking # "polled" /\ ready => websocket = account

HeldInv == Held!TypeOK /\ stream \in Seq(PositionEvents) /\ Syncing /\ Following

HeldAssumption == Held!PositionsAssumption /\ ~EarlyUpdates /\ ~SilentErrors

(* Finiteness and size in the instance are those of FiniteSets.            *)
LEMMA HeldCounts ==
  ASSUME NEW S
  PROVE  /\ Held!IsFiniteSet(S) <=> IsFiniteSet(S)
         /\ Held!Cardinality(S) = Cardinality(S)
<1>1. Held!IsFiniteSet(S) <=> IsFiniteSet(S)
  BY DEF Held!IsFiniteSet, IsFiniteSet
<1>2. Held!Cardinality(S) = Cardinality(S)
  BY DEF Held!Cardinality, Cardinality
<1>. QED BY <1>1, <1>2

(* A finite set put into an order is all there.                            *)
LEMMA OrderedIs ==
  ASSUME NEW S, IsFiniteSet(S)
  PROVE  /\ Held!SetToSeq(S) \in [1 .. Cardinality(S) -> S] /\ Cardinality(S) \in Nat
         /\ \A x \in S : \E k \in 1 .. Cardinality(S) : Held!SetToSeq(S)[k] = x
<1>. DEFINE n == Cardinality(S)
<1>1. n \in Nat /\ IsFiniteSet(1 .. n) /\ Cardinality(1 .. n) = n
  <2>1. n \in Nat
    BY FS_CardinalityType
  <2>2. IsFiniteSet(1 .. n) /\ Cardinality(1 .. n) = IF 1 > n THEN 0 ELSE n - 1 + 1
    BY <2>1, FS_Interval
  <2>. QED BY <2>1, <2>2
<1>2. ExistsBijection(1 .. n, S)
  BY <1>1, FS_SameCardinalityBij
<1>3. PICK g : g \in Bijection(1 .. n, S)
  BY <1>2 DEF ExistsBijection
<1>4. g \in [1 .. n -> S] /\ Held!IsInjective(g)
  BY <1>3 DEF Bijection, Injection, IsInjective, Held!IsInjective
<1>5. Held!SetToSeq(S) = CHOOSE f \in [1 .. n -> S] : Held!IsInjective(f)
  BY HeldCounts DEF Held!SetToSeq
<1>6. Held!SetToSeq(S) \in [1 .. n -> S] /\ Held!IsInjective(Held!SetToSeq(S))
  BY <1>4, <1>5
<1>7. Held!SetToSeq(S) \in Injection(1 .. n, S)
  BY <1>6 DEF Injection, IsInjective, Held!IsInjective
<1>8. Held!SetToSeq(S) \in Surjection(1 .. n, S)
  BY <1>1, <1>7, FS_Injection
<1>. QED BY <1>1, <1>6, <1>8 DEF Surjection

(* What the stream says of a change ends with the account.                 *)
LEMMA ReportedIs ==
  ASSUME HeldAssumption, NEW a \in Held!Sizes, NEW p \in Positions
  PROVE  /\ Held!Reported(a, p) \in Seq(PositionEvents)
         /\ \A q \in Positions : \A k : LastAbout(Held!Reported(a, p), q, k) => SetTo(Held!Reported(a, p)[k]) = a[q]
         /\ \E k \in DOMAIN Held!Reported(a, p) : About(Held!Reported(a, p)[k], p)
         /\ tracking = "snapshot" =>
              \A q \in Positions : \E k \in DOMAIN Held!Reported(a, p) : About(Held!Reported(a, p)[k], q)
<1>. DEFINE N == Held!Reported(a, p)
<1>0. OwnPosition \in Positions /\ MaxSize \in Nat /\ IsFiniteSet(Positions) /\ a \in [Positions -> 0 .. MaxSize]
  BY HeldCounts DEF HeldAssumption, Held!PositionsAssumption, Held!Sizes
<1>1. CASE tracking # "snapshot"
  <2>1. N = <<[clears |-> FALSE, position |-> p, size |-> a[p]]>>
    BY <1>1 DEF Held!Reported, Held!Event
  <2>2. [clears |-> FALSE, position |-> p, size |-> a[p]] \in PositionEvents
    BY <1>0 DEF PositionEvents
  <2>3. N \in Seq(PositionEvents) /\ DOMAIN N = {1} /\ N[1] = [clears |-> FALSE, position |-> p, size |-> a[p]]
    BY <2>1, <2>2
  <2>. HIDE DEF N
  <2>4. \A q \in Positions : \A k : LastAbout(N, q, k) => SetTo(N[k]) = a[q]
    BY <2>3 DEF LastAbout, About, SetTo
  <2>5. \E k \in DOMAIN N : About(N[k], p)
    BY <2>3 DEF About
  <2>. QED BY <1>1, <2>3, <2>4, <2>5 DEF N
<1>2. CASE tracking = "snapshot"
  <2>. DEFINE S == {x \in Positions : a[x] > 0}
              held == Held!SetToSeq(S)
              n == Cardinality(S)
              rest == [k \in 1 .. n |-> [clears |-> FALSE, position |-> held[k], size |-> a[held[k]]]]
              first == [clears |-> TRUE, position |-> OwnPosition, size |-> 0]
  <2>1. IsFiniteSet(S)
    BY <1>0, FS_Subset
  <2>2. n \in Nat /\ held \in [1 .. n -> S] /\ \A x \in S : \E k \in 1 .. n : held[k] = x
    BY <2>1, OrderedIs
  <2>3. N = <<first>> \o rest
    <3>1. Len(held) = n
      BY <2>2
    <3>. QED BY <1>2, <3>1 DEF Held!Reported, Held!Listed, Held!Event, Held!Clear
  <2>4. first \in PositionEvents /\ \A k \in 1 .. n : rest[k] \in PositionEvents
    <3>1. first \in PositionEvents
      BY <1>0 DEF PositionEvents
    <3>2. \A k \in 1 .. n : held[k] \in Positions
      <4>1. S \subseteq Positions
        OBVIOUS
      <4>. HIDE DEF S, held, n
      <4>. QED BY <2>2, <4>1
    <3>3. \A k \in 1 .. n : a[held[k]] \in 0 .. MaxSize
      <4>. HIDE DEF held, n
      <4>. QED BY <1>0, <3>2
    <3>. HIDE DEF held, n
    <3>. QED BY <3>1, <3>2, <3>3 DEF PositionEvents
  <2>5. \A k \in 1 .. n : /\ ~rest[k].clears /\ rest[k].position = held[k] /\ rest[k].size = a[held[k]]
                          /\ rest[k] \in PositionEvents
    BY <2>4
  <2>6. rest \in Seq(PositionEvents) /\ Len(rest) = n
    BY <2>2, <2>4
  <2>7. first.clears /\ first \in PositionEvents
    BY <2>4
  <2>. HIDE DEF S, held, n, rest, first, N
  <2>8. /\ N \in Seq(PositionEvents) /\ DOMAIN N = 1 .. n + 1 /\ N[1] = first
        /\ \A k \in 1 .. n : N[k + 1] = rest[k]
    BY <2>2, <2>3, <2>6, <2>7
  <2>9. 1 \in DOMAIN N /\ About(N[1], p) /\ \A q \in Positions : About(N[1], q)
    BY <2>2, <2>7, <2>8 DEF About
  <2>10. ASSUME NEW q \in Positions, NEW k, LastAbout(N, q, k)
         PROVE  SetTo(N[k]) = a[q]
    <3>1. k \in 1 .. n + 1
      BY <2>8, <2>10 DEF LastAbout
    <3>2. CASE k = 1
      <4>1. \A j \in 1 .. n : held[j] # q
        <5>. SUFFICES ASSUME NEW j \in 1 .. n, held[j] = q PROVE FALSE
          OBVIOUS
        <5>0. j \in Nat /\ n \in Nat /\ j <= n /\ j > 0
          BY <2>2
        <5>1. About(N[j + 1], q) /\ j + 1 \in DOMAIN N /\ j + 1 > 1
          <6>1. N[j + 1] = rest[j] /\ rest[j].position = q
            BY <2>5, <2>8
          <6>2. j + 1 \in 1 .. n + 1 /\ j + 1 > 1
            BY <5>0
          <6>. QED BY <2>8, <6>1, <6>2 DEF About
        <5>. QED BY <2>10, <3>2, <5>1, <2>2 DEF LastAbout
      <4>2. q \notin S
        BY <2>2, <4>1
      <4>3. a[q] = 0
        BY <1>0, <4>2 DEF S
      <4>. QED BY <2>7, <2>8, <3>2, <4>3 DEF SetTo
    <3>3. CASE k # 1
      <4>1. k - 1 \in 1 .. n /\ N[k] = rest[k - 1]
        <5>1. k - 1 \in 1 .. n
          BY <2>2, <3>1, <3>3
        <5>2. N[(k - 1) + 1] = rest[k - 1]
          BY <2>8, <5>1
        <5>3. (k - 1) + 1 = k
          BY <3>1, <2>2
        <5>. QED BY <5>1, <5>2, <5>3
      <4>2. held[k - 1] = q
        BY <2>5, <2>10, <4>1 DEF LastAbout, About
      <4>. QED BY <2>5, <4>1, <4>2 DEF SetTo
    <3>. QED BY <3>2, <3>3
  <2>. QED BY <2>8, <2>9, <2>10 DEF N
<1>. QED BY <1>1, <1>2

(* The last event of two sequences is that of the second, if it has one.   *)
LEMMA LastOfBoth ==
  ASSUME NEW s \in Seq(PositionEvents), NEW t \in Seq(PositionEvents), NEW p
  PROVE  /\ \A k : LastAbout(s \o t, p, k) =>
              \/ /\ LastAbout(t, p, k - Len(s)) /\ (s \o t)[k] = t[k - Len(s)]
              \/ /\ LastAbout(s, p, k) /\ (s \o t)[k] = s[k]
                 /\ \A j \in DOMAIN t : ~About(t[j], p)
         /\ (\A k \in DOMAIN (s \o t) : ~About((s \o t)[k], p)) =>
              /\ \A k \in DOMAIN s : ~About(s[k], p)
              /\ \A k \in DOMAIN t : ~About(t[k], p)
<1>. DEFINE m == Len(s)
            n == Len(t)
            st == s \o t
<1>1. /\ m \in Nat /\ n \in Nat /\ DOMAIN s = 1 .. m /\ DOMAIN t = 1 .. n /\ DOMAIN st = 1 .. m + n
      /\ \A k \in 1 .. m : st[k] = s[k]
  OBVIOUS
<1>2. \A j \in 1 .. n : st[m + j] = t[j] /\ m + j \in 1 .. m + n
  OBVIOUS
<1>. HIDE DEF m, n, st
<1>3. ASSUME NEW k, LastAbout(st, p, k)
      PROVE  \/ LastAbout(t, p, k - m) /\ st[k] = t[k - m]
             \/ LastAbout(s, p, k) /\ st[k] = s[k] /\ \A j \in 1 .. n : ~About(t[j], p)
  <2>1. k \in 1 .. m + n /\ About(st[k], p) /\ \A j \in 1 .. m + n : About(st[j], p) => j <= k
    BY <1>1, <1>3 DEF LastAbout
  <2>2. CASE k > m
    <3>1. k - m \in 1 .. n /\ m + (k - m) = k
      BY <1>1, <2>1, <2>2
    <3>2. st[k] = t[k - m]
      BY <1>2, <3>1
    <3>3. ASSUME NEW j \in 1 .. n, About(t[j], p) PROVE j <= k - m
      <4>1. m + j <= k
        BY <1>2, <2>1, <3>3
      <4>. QED BY <1>1, <2>1, <4>1
    <3>. QED BY <1>1, <2>1, <3>1, <3>2, <3>3 DEF LastAbout
  <2>3. CASE k <= m
    <3>1. k \in 1 .. m /\ st[k] = s[k]
      BY <1>1, <2>1, <2>3
    <3>2. ASSUME NEW j \in 1 .. m, About(s[j], p) PROVE j <= k
      <4>1. j \in 1 .. m + n /\ st[j] = s[j]
        BY <1>1
      <4>. QED BY <2>1, <3>2, <4>1
    <3>3. ASSUME NEW j \in 1 .. n, About(t[j], p) PROVE FALSE
      <4>1. m + j <= k
        BY <1>2, <2>1, <3>3
      <4>. QED BY <1>1, <2>1, <2>3, <4>1
    <3>. QED BY <1>1, <2>1, <3>1, <3>2, <3>3 DEF LastAbout
  <2>. QED BY <1>1, <2>1, <2>2, <2>3
<1>4. ASSUME \A k \in 1 .. m + n : ~About(st[k], p)
      PROVE  (\A k \in 1 .. m : ~About(s[k], p)) /\ (\A k \in 1 .. n : ~About(t[k], p))
  <2>1. \A k \in 1 .. m : k \in 1 .. m + n
    BY <1>1
  <2>. QED BY <1>1, <1>2, <1>4, <2>1
<1>. QED BY <1>1, <1>3, <1>4 DEF m, n, st
(* At the start the account, the table and the cache are empty.            *)
LEMMA HeldInit ==
  ASSUME HeldAssumption, Held!Init
  PROVE  HeldInv
<1>0. /\ HeldAssumption /\ 0 \in 0 .. MaxSize /\ 0 \in 0 .. MaxMoves /\ 0 \in 0 .. MaxUpsets
      /\ << >> \in Seq(PositionEvents) /\ DOMAIN << >> = {}
  BY DEF HeldAssumption, Held!PositionsAssumption
<1>1. Held!TypeOK
  BY <1>0 DEF Held!Init, Held!TypeOK, Held!Nothing, Held!Sizes
<1>2. Following
  BY <1>0 DEF Held!Init, Following, LastAbout, Tables
<1>3. Syncing
  BY DEF Held!Init, Syncing
<1>. QED BY <1>0, <1>1, <1>2, <1>3 DEF Held!Init, HeldInv

(* A change is told, or missed.                                            *)
LEMMA ChangeKeeps ==
  ASSUME HeldAssumption, HeldInv, NEW p \in Positions, NEW size \in 0 .. MaxSize, Held!Change(p, size),
         holding' \in {"none", "opening", "open", "closing", "closed"}
  PROVE  HeldInv'
<1>. DEFINE a == [account EXCEPT ![p] = size]
<1>0. /\ tracking \in HeldKinds /\ account \in Held!Sizes /\ copied \in Held!Sizes /\ websocket \in Held!Sizes
      /\ stream \in Seq(PositionEvents) /\ sampled \subseteq Held!Sizes /\ missed \subseteq Positions
      /\ worker \in {"down", "starting", "up"} /\ ready \in BOOLEAN /\ upsets \in 0 .. MaxUpsets
      /\ moves \in 0 .. MaxMoves /\ MaxMoves \in Nat /\ HeldKinds \subseteq {"polled", "snapshot", "delta"}
  BY DEF HeldInv, Held!TypeOK, HeldAssumption, Held!PositionsAssumption
<1>1. a \in Held!Sizes /\ a[p] = size /\ \A q \in Positions : q # p => a[q] = account[q]
  BY <1>0 DEF Held!Sizes
<1>2. /\ moves < MaxMoves /\ moves' = moves + 1 /\ account' = a
      /\ tracking # "delta" \/ worker # "starting"
      /\ UNCHANGED <<tracking, copied, sampled, worker, upsets>>
  BY DEF Held!Change, HeldAssumption
<1>3. moves' \in 0 .. MaxMoves
  BY <1>0, <1>2
<1>4. Tables' = Tables
  BY <1>2 DEF Tables
<1>. HIDE DEF a
<1>5. CASE tracking = "polled" \/ worker = "down"
  <2>1. missed' = missed \cup {p} /\ UNCHANGED <<stream, websocket, ready>> /\ stream = << >> /\ DOMAIN stream = {}
    BY <1>5 DEF Held!Change, HeldInv, Syncing
  <2>2. Held!TypeOK'
    BY <1>0, <1>1, <1>2, <1>3, <2>1 DEF Held!TypeOK, HeldInv
  <2>3. Following'
    BY <1>1, <1>2, <1>4, <2>1 DEF HeldInv, Following, LastAbout
  <2>4. Syncing'
    BY <1>2, <1>5, <2>1 DEF HeldInv, Syncing
  <2>. QED BY <1>0, <2>1, <2>2, <2>3, <2>4 DEF HeldInv
<1>6. CASE ~(tracking = "polled" \/ worker = "down")
  <2>. DEFINE N == Held!Reported(a, p)
  <2>1. /\ stream' = stream \o N /\ ready' = TRUE /\ missed' = missed
        /\ websocket' = IF tracking = "snapshot" THEN a ELSE [websocket EXCEPT ![p] = size]
    BY <1>6 DEF Held!Change, a
  <2>2. /\ N \in Seq(PositionEvents)
        /\ \A q \in Positions : \A k : LastAbout(N, q, k) => SetTo(N[k]) = a[q]
        /\ \E k \in DOMAIN N : About(N[k], p)
        /\ tracking = "snapshot" => \A q \in Positions : \E k \in DOMAIN N : About(N[k], q)
    BY <1>1, ReportedIs
  <2>. HIDE DEF N
  <2>3. stream' \in Seq(PositionEvents)
    BY <1>0, <2>1, <2>2
  <2>4. websocket' \in Held!Sizes /\ (tracking = "snapshot" => websocket' = a)
    BY <1>0, <1>1, <2>1 DEF Held!Sizes
  <2>5. \A k \in DOMAIN stream' : stream'[k].position \in Positions /\ stream'[k].size \in 0 .. MaxSize
    <3>1. \A k \in DOMAIN stream' : stream'[k] \in PositionEvents
      BY <2>3
    <3>. QED BY <3>1 DEF PositionEvents
  <2>6. Held!TypeOK'
    BY <1>0, <1>1, <1>2, <1>3, <2>1, <2>4, <2>5 DEF Held!TypeOK
  <2>7. Syncing'
    BY <1>0, <1>2, <1>6, <2>1, <2>4 DEF HeldInv, Syncing
  <2>8. Following'
    <3>. SUFFICES ASSUME NEW q \in Positions
         PROVE  /\ \A k : LastAbout(stream', q, k) => SetTo(stream'[k]) = a[q]
                /\ q \notin missed /\ (\A k \in DOMAIN stream' : ~About(stream'[k], q)) =>
                     \A table \in Tables : table[q] = a[q]
      BY <1>2, <1>4, <2>1 DEF Following, LastAbout, About, SetTo
    <3>0. q = p \/ a[q] = account[q]
      BY <1>1
    <3>1. ASSUME NEW k, LastAbout(stream', q, k) PROVE SetTo(stream'[k]) = a[q]
      <4>1. CASE LastAbout(N, q, k - Len(stream)) /\ stream'[k] = N[k - Len(stream)]
        BY <2>2, <4>1
      <4>2. CASE LastAbout(stream, q, k) /\ stream'[k] = stream[k] /\ \A j \in DOMAIN N : ~About(N[j], q)
        <5>1. q # p
          BY <2>2, <4>2
        <5>. QED BY <3>0, <4>2, <5>1 DEF HeldInv, Following
      <4>3. LastAbout(stream \o N, q, k) /\ stream' = stream \o N
        BY <2>1, <3>1
      <4>4. \/ LastAbout(N, q, k - Len(stream)) /\ (stream \o N)[k] = N[k - Len(stream)]
            \/ /\ LastAbout(stream, q, k) /\ (stream \o N)[k] = stream[k]
               /\ \A j \in DOMAIN N : ~About(N[j], q)
        BY <1>0, <2>2, <4>3, LastOfBoth, Zenon
      <4>. QED BY <4>1, <4>2, <4>3, <4>4
    <3>2. ASSUME q \notin missed, \A k \in DOMAIN stream' : ~About(stream'[k], q)
          PROVE  \A table \in Tables : table[q] = a[q]
      <4>1. (\A k \in DOMAIN stream : ~About(stream[k], q)) /\ (\A k \in DOMAIN N : ~About(N[k], q))
        BY <1>0, <2>1, <2>2, <3>2, LastOfBoth
      <4>2. q # p
        BY <2>2, <4>1
      <4>. QED BY <3>0, <3>2, <4>1, <4>2 DEF HeldInv, Following
    <3>. QED BY <3>1, <3>2
  <2>. QED BY <2>3, <2>6, <2>7, <2>8 DEF HeldInv
<1>. QED BY <1>5, <1>6

(* The head of the events is projected: what it sets is the account's, if  *)
(* no later event is about the same position.                              *)
LEMMA PositionKeeps ==
  ASSUME HeldAssumption, HeldInv, Held!Project
  PROVE  HeldInv'
<1>. DEFINE head == Head(stream)
<1>0. /\ copied \in Held!Sizes /\ stream \in Seq(PositionEvents) /\ stream # << >> /\ worker = "up"
      /\ copied' = Held!Applied(head) /\ stream' = Tail(stream)
      /\ UNCHANGED <<tracking, account, websocket, ready, sampled, worker, missed, holding, moves, upsets>>
      /\ MaxSize \in Nat
  BY DEF HeldInv, Held!TypeOK, Held!Project, HeldAssumption, Held!PositionsAssumption
<1>1. /\ Len(stream) \in Nat /\ Len(stream) > 0 /\ DOMAIN stream = 1 .. Len(stream) /\ head = stream[1]
      /\ stream' \in Seq(PositionEvents) /\ DOMAIN stream' = 1 .. Len(stream) - 1
      /\ \A k \in 1 .. Len(stream) - 1 : stream'[k] = stream[k + 1]
      /\ head \in PositionEvents
  BY <1>0
<1>2. tracking # "polled" /\ sampled = {}
  BY <1>0 DEF HeldInv, Syncing
<1>. HIDE DEF head
<1>3. /\ copied' \in Held!Sizes
      /\ \A q \in Positions : copied'[q] = IF About(head, q) THEN SetTo(head) ELSE copied[q]
  BY <1>0, <1>1 DEF Held!Applied, Held!Nothing, Held!Sizes, PositionEvents, About, SetTo
<1>4. \A k \in DOMAIN stream' : stream'[k].position \in Positions /\ stream'[k].size \in 0 .. MaxSize
  <2>1. \A k \in DOMAIN stream' : stream'[k] \in PositionEvents
    BY <1>1
  <2>. QED BY <2>1 DEF PositionEvents
<1>5. Held!TypeOK'
  BY <1>0, <1>3, <1>4 DEF HeldInv, Held!TypeOK
<1>6. Syncing'
  BY <1>0, <1>2 DEF HeldInv, Syncing
<1>7. \A k \in DOMAIN stream : k = 1 \/ (k - 1 \in DOMAIN stream' /\ stream'[k - 1] = stream[k])
  <2>. SUFFICES ASSUME NEW k \in 1 .. Len(stream), k # 1
                PROVE  k - 1 \in 1 .. Len(stream) - 1 /\ stream'[k - 1] = stream[k]
    BY <1>1
  <2>1. k - 1 \in 1 .. Len(stream) - 1 /\ (k - 1) + 1 = k
    BY <1>1
  <2>2. stream'[k - 1] = stream[(k - 1) + 1]
    BY <1>1, <2>1
  <2>. QED BY <2>1, <2>2
<1>8. Following'
  <2>. SUFFICES ASSUME NEW q \in Positions
       PROVE  /\ \A k : LastAbout(stream', q, k) => SetTo(stream'[k]) = account[q]
              /\ q \notin missed /\ (\A k \in DOMAIN stream' : ~About(stream'[k], q)) => copied'[q] = account[q]
    BY <1>0, <1>2 DEF Following, LastAbout, About, SetTo, Tables
  <2>1. ASSUME NEW k, LastAbout(stream', q, k) PROVE SetTo(stream'[k]) = account[q]
    <3>1. k \in 1 .. Len(stream) - 1 /\ About(stream'[k], q) /\ k + 1 \in 1 .. Len(stream)
          /\ stream'[k] = stream[k + 1]
      BY <1>1, <2>1 DEF LastAbout
    <3>2. ASSUME NEW j \in DOMAIN stream, About(stream[j], q) PROVE j <= k + 1
      <4>1. CASE j = 1
        BY <3>1, <4>1
      <4>2. CASE j # 1
        <5>1. j - 1 \in DOMAIN stream' /\ About(stream'[j - 1], q)
          BY <1>7, <3>2, <4>2
        <5>2. j - 1 <= k
          BY <2>1, <5>1 DEF LastAbout
        <5>3. j \in Int /\ k \in Int
          BY <1>1, <3>1
        <5>. QED BY <5>2, <5>3
      <4>. QED BY <4>1, <4>2
    <3>3. LastAbout(stream, q, k + 1)
      BY <1>1, <3>1, <3>2 DEF LastAbout
    <3>. QED BY <3>1, <3>3 DEF HeldInv, Following
  <2>2. ASSUME q \notin missed, \A k \in DOMAIN stream' : ~About(stream'[k], q)
        PROVE  copied'[q] = account[q]
    <3>1. \A k \in DOMAIN stream : About(stream[k], q) => k = 1
      BY <1>7, <2>2
    <3>2. CASE About(head, q)
      <4>1. LastAbout(stream, q, 1)
        BY <1>1, <3>1, <3>2 DEF LastAbout
      <4>. QED BY <1>1, <1>3, <3>2, <4>1 DEF HeldInv, Following
    <3>3. CASE ~About(head, q)
      <4>1. \A k \in DOMAIN stream : ~About(stream[k], q)
        BY <1>1, <3>1, <3>3
      <4>2. copied[q] = account[q]
        BY <1>2, <2>2, <4>1 DEF HeldInv, Following, Tables
      <4>. QED BY <1>3, <3>3, <4>2
    <3>. QED BY <3>2, <3>3
  <2>. QED BY <2>1, <2>2
<1>. QED BY <1>1, <1>5, <1>6, <1>8 DEF HeldInv

(* The syncs, and the starts and stops of the worker.                      *)
LEMMA SyncKeeps ==
  ASSUME HeldAssumption, HeldInv,
         \/ Held!Take \/ Held!TakeFails \/ Held!Commit \/ Held!WorkerStarts \/ Held!WorkerStops
  PROVE  HeldInv'
<1>0. /\ tracking \in HeldKinds /\ account \in Held!Sizes /\ copied \in Held!Sizes /\ websocket \in Held!Sizes
      /\ stream \in Seq(PositionEvents) /\ sampled \subseteq Held!Sizes /\ missed \subseteq Positions
      /\ worker \in {"down", "starting", "up"} /\ ready \in BOOLEAN /\ upsets \in 0 .. MaxUpsets
      /\ moves \in 0 .. MaxMoves /\ MaxMoves \in Nat /\ MaxUpsets \in Nat /\ MaxSize \in Nat
      /\ holding \in {"none", "opening", "open", "closing", "closed"}
      /\ \A k \in DOMAIN stream : stream[k].position \in Positions /\ stream[k].size \in 0 .. MaxSize
  BY DEF HeldInv, Held!TypeOK, HeldAssumption, Held!PositionsAssumption
<1>1. CASE Held!Take
  <2>1. /\ Held!MaySync /\ sampled' = {Held!Snapshot}
        /\ websocket' \in {websocket, Held!Snapshot} /\ ready' = (tracking # "polled")
        /\ missed' = {}
        /\ UNCHANGED <<tracking, account, copied, stream, worker, holding, moves, upsets>>
    BY <1>1 DEF Held!Take, Held!Answers, HeldAssumption
  <2>2. Held!Snapshot = account
    BY <2>1 DEF HeldInv, Syncing, Held!MaySync, Held!Snapshot
  <2>3. Held!TypeOK'
    BY <1>0, <2>1, <2>2 DEF Held!TypeOK
  <2>4. Syncing'
    BY <2>1 DEF HeldInv, Syncing, Held!MaySync
  <2>5. Following'
    BY <2>1, <2>2 DEF HeldInv, Following, LastAbout, Tables
  <2>. QED BY <1>0, <2>1, <2>3, <2>4, <2>5 DEF HeldInv
<1>2. CASE Held!TakeFails
  <2>1. /\ sampled = {} /\ copied' = copied /\ worker' \in {worker, "up"} /\ upsets' = upsets + 1 /\ upsets < MaxUpsets
        /\ worker' = "starting" => worker # "starting" /\ worker' = worker
        /\ worker' = "down" => worker = "down"
        /\ UNCHANGED <<tracking, account, stream, websocket, ready, sampled, missed, holding, moves>>
    BY <1>2 DEF Held!TakeFails, Held!MaySync, Held!Fails, Held!WithoutSnapshot
  <2>2. Held!TypeOK'
    BY <1>0, <2>1 DEF Held!TypeOK
  <2>3. Syncing'
    BY <2>1 DEF HeldInv, Syncing
  <2>4. Following'
    BY <2>1 DEF HeldInv, Following, LastAbout, Tables
  <2>. QED BY <1>0, <2>1, <2>2, <2>3, <2>4 DEF HeldInv
<1>3. CASE Held!Commit
  <2>1. /\ sampled # {} /\ sampled' = {} /\ copied' \in sampled /\ worker' \in {worker, "up"}
        /\ worker' = "starting" => worker # "starting" /\ worker' = worker
        /\ worker' = "down" => worker = "down"
        /\ UNCHANGED <<tracking, account, stream, websocket, ready, missed, holding, moves, upsets>>
    BY <1>3 DEF Held!Commit
  <2>2. Held!TypeOK'
    BY <1>0, <2>1 DEF Held!TypeOK
  <2>3. Syncing'
    BY <2>1 DEF HeldInv, Syncing
  <2>4. Tables' \subseteq Tables
    BY <2>1 DEF Tables
  <2>5. Following'
    BY <2>1, <2>4 DEF HeldInv, Following, LastAbout
  <2>. QED BY <1>0, <2>1, <2>2, <2>3, <2>5 DEF HeldInv
<1>4. CASE Held!WorkerStarts
  <2>1. /\ sampled = {} /\ worker = "down" /\ worker' = "starting" /\ websocket' = Held!Nothing /\ ready' = FALSE
        /\ UNCHANGED <<tracking, account, copied, stream, sampled, missed, holding, moves, upsets>>
    BY <1>4 DEF Held!WorkerStarts
  <2>2. Held!Nothing \in Held!Sizes
    BY <1>0 DEF Held!Nothing, Held!Sizes
  <2>3. Held!TypeOK'
    BY <1>0, <2>1, <2>2 DEF Held!TypeOK
  <2>4. Syncing'
    BY <2>1 DEF HeldInv, Syncing
  <2>5. Following'
    BY <2>1 DEF HeldInv, Following, LastAbout, Tables
  <2>. QED BY <1>0, <2>1, <2>3, <2>4, <2>5 DEF HeldInv
<1>5. CASE Held!WorkerStops
  <2>1. /\ sampled = {} /\ worker = "up" /\ worker' = "down" /\ upsets < MaxUpsets /\ upsets' = upsets + 1
        /\ missed' = missed \cup (IF stream = <<>> THEN {} ELSE Positions) /\ stream' = << >> /\ DOMAIN stream' = {}
        /\ UNCHANGED <<tracking, account, copied, websocket, ready, sampled, holding, moves>>
    BY <1>5 DEF Held!WorkerStops, Held!Fails
  <2>2. Held!TypeOK'
    BY <1>0, <2>1 DEF Held!TypeOK
  <2>3. Syncing'
    BY <2>1 DEF HeldInv, Syncing
  <2>4. DOMAIN << >> = {} /\ << >> \in Seq(PositionEvents)
    OBVIOUS
  <2>5. Following'
    BY <2>1, <2>4 DEF HeldInv, Following, LastAbout, Tables
  <2>. QED BY <1>0, <2>1, <2>2, <2>3, <2>4, <2>5 DEF HeldInv
<1>. QED BY <1>1, <1>2, <1>3, <1>4, <1>5

(* No step of the account, the stream, the worker or a sync disturbs what  *)
(* is known of the table.                                                  *)
LEMMA HeldStep ==
  ASSUME HeldAssumption, HeldInv, [Held!Next]_Held!vars
  PROVE  HeldInv'
<1>0. /\ OwnPosition \in Positions /\ MaxSize \in Nat /\ account[OwnPosition] \in 0 .. MaxSize
      /\ holding \in {"none", "opening", "open", "closing", "closed"}
  BY DEF HeldAssumption, Held!PositionsAssumption, HeldInv, Held!TypeOK, Held!Sizes
<1>1. CASE UNCHANGED Held!vars \/ Held!Open \/ Held!Close
  <2>1. /\ UNCHANGED <<tracking, account, copied, stream, websocket, ready, sampled, worker, missed, moves, upsets>>
        /\ holding' \in {"opening", "closing", holding}
    BY <1>1 DEF Held!vars, Held!Open, Held!Close
  <2>2. Held!TypeOK'
    BY <2>1 DEF HeldInv, Held!TypeOK
  <2>. QED BY <2>1, <2>2 DEF HeldInv, Following, LastAbout, Tables, Syncing
<1>2. CASE Held!OpenFill
  <2>1. account[OwnPosition] + 1 \in 0 .. MaxSize
    BY <1>0, <1>2 DEF Held!OpenFill
  <2>. QED BY <1>0, <1>2, <2>1, ChangeKeeps DEF Held!OpenFill
<1>3. CASE Held!CloseFill
  <2>1. account[OwnPosition] - 1 \in 0 .. MaxSize
    BY <1>0, <1>3 DEF Held!CloseFill
  <2>. QED BY <1>0, <1>3, <2>1, ChangeKeeps DEF Held!CloseFill
<1>4. CASE Held!External
  BY <1>0, <1>4, ChangeKeeps DEF Held!External
<1>. QED BY <1>1, <1>2, <1>3, <1>4, PositionKeeps, SyncKeeps DEF Held!Next

(* When nothing is on its way the table shows the account, but for changes *)
(* no one was told of, so that a position without a group blocks.          *)
LEMMA HeldIsSafe ==
  ASSUME HeldAssumption, HeldInv
  PROVE  Held!TableFollows /\ Held!ReadyIsExplained
<1>1. Held!TableFollows
  <2>1. DOMAIN << >> = {}
    OBVIOUS
  <2>. QED BY <2>1 DEF HeldInv, Held!TableFollows, Held!Settled, Following, Tables
<1>. QED BY <1>1 DEF Held!TableFollows, Held!ReadyIsExplained, Held!Blocked, Held!Explained

-----------------------------------------------------------------------------
(***************************************************************************)
(* HedgePool.                                                              *)
(***************************************************************************)
(* The row gets younger and never older, and what others hold of it is no  *)
(* younger than it: but for what auto_closer has flushed, while it locks   *)
(* the row.                                                                *)
Ages ==
  /\ saved.version <= clock /\ creating <= clock /\ flushed <= clock
  /\ writer.version <= saved.version /\ load.read.version <= saved.version
  /\ flushed # 0 => flushed > saved.version

(* Before the group is committed nobody has seen it; afterwards its status *)
(* is one; and auto_closer only holds a group that was open.               *)
Seen ==
  /\ saved = Pool!Nothing => cached = Pool!Nothing /\ writer = Pool!Nothing /\ closer = Pool!Nothing
                             /\ load.read = Pool!Nothing
  /\ saved # Pool!Nothing => saved.status \in Pool!Statuses
  /\ creating # 0 => saved = Pool!Nothing
  /\ closer # Pool!Nothing => closer.status = "open"
  /\ flushed # 0 => closer # Pool!Nothing

(* A load nothing disturbs has read the row as it is, and merges it.       *)
Undisturbed ==
  settled =>
    /\ load.phase # "rest" => load.read = (IF saved.status \in Pool!PoolStatuses THEN saved ELSE Pool!Nothing)
                              /\ load.started >= saved.version
    /\ load.phase = "clean" /\ load.read # Pool!Nothing =>
         cached = load.read \/ cached.version > load.read.version

PoolInv == Pool!TypeOK /\ Ages /\ Seen /\ Undisturbed /\ Pool!AheadMeansOpen /\ Pool!LoadRepairs

(* At the start there is no group and nothing in the pool.                 *)
LEMMA PoolInit ==
  ASSUME Pool!PoolAssumption, Pool!Init
  PROVE  PoolInv
<1>1. 0 \in 0 .. PoolTime /\ Pool!Nothing \in Pool!Snapshot
  BY DEF Pool!PoolAssumption, Pool!Nothing, Pool!Snapshot
<1>2. Pool!TypeOK
  BY <1>1 DEF Pool!Init, Pool!TypeOK, Pool!Resting
<1>3. Ages /\ Seen /\ Undisturbed /\ Pool!AheadMeansOpen /\ Pool!LoadRepairs
  BY DEF Pool!Init, Ages, Seen, Undisturbed, Pool!AheadMeansOpen, Pool!LoadRepairs, Pool!Nothing, Pool!Resting
<1>. QED BY <1>2, <1>3 DEF PoolInv

(* The types of the rows, the pool and the load, spelt out.                *)
LEMMA PoolFacts ==
  ASSUME Pool!PoolAssumption, PoolInv
  PROVE  /\ PoolTime \in Nat /\ clock \in 0 .. PoolTime /\ creating \in 0 .. PoolTime /\ flushed \in 0 .. PoolTime
         /\ saved \in Pool!Snapshot /\ cached \in Pool!Snapshot /\ writer \in Pool!Snapshot /\ closer \in Pool!Snapshot
         /\ saved.version \in Nat /\ cached.version \in Nat /\ writer.version \in Nat
         /\ load.read \in Pool!Snapshot /\ load.read.version \in Nat /\ load.started \in 0 .. PoolTime
         /\ load.phase \in {"rest", "merge", "clean"}
         /\ load \in [phase : {"rest", "merge", "clean"}, started : 0 .. PoolTime, read : Pool!Snapshot]
         /\ Pool!Nothing \in Pool!Snapshot /\ Pool!Nothing.version = 0 /\ Pool!Nothing.status = "none"
         /\ settled \in BOOLEAN /\ 0 \in 0 .. PoolTime
BY DEF Pool!PoolAssumption, PoolInv, Pool!TypeOK, Pool!Snapshot, Pool!Nothing

(* What is put is the snapshot or nothing.                                 *)
LEMMA PutIs ==
  ASSUME NEW s \in Pool!Snapshot, Pool!Put(s), Pool!Nothing \in Pool!Snapshot
  PROVE  cached' \in Pool!Snapshot /\ cached' \in {s, Pool!Nothing}
BY DEF Pool!Put

(* The writers of the row.                                                 *)
LEMMA CreatesKeep ==
  ASSUME Pool!PoolAssumption, PoolInv, Pool!CreateFlush \/ Pool!CreateCommit
  PROVE  PoolInv'
<1>. USE PoolFacts
<1>1. CASE Pool!CreateFlush
  <2>1. /\ saved = Pool!Nothing /\ clock < PoolTime /\ clock' = clock + 1 /\ creating' = clock + 1 /\ settled' = FALSE
        /\ UNCHANGED <<saved, cached, writer, closer, flushed, load>>
    BY <1>1 DEF Pool!CreateFlush, Pool!Tick
  <2>2. clock' \in 0 .. PoolTime /\ creating' \in 0 .. PoolTime
    BY <2>1
  <2>3. Pool!TypeOK'
    BY <2>1, <2>2 DEF PoolInv, Pool!TypeOK
  <2>4. Ages' /\ Seen'
    BY <2>1 DEF PoolInv, Ages, Seen
  <2>5. Undisturbed' /\ Pool!AheadMeansOpen' /\ Pool!LoadRepairs'
    BY <2>1 DEF PoolInv, Undisturbed, Pool!AheadMeansOpen, Pool!LoadRepairs
  <2>. QED BY <2>3, <2>4, <2>5 DEF PoolInv
<1>2. CASE Pool!CreateCommit
  <2>1. /\ creating # 0 /\ saved' = [status |-> "opening", version |-> creating] /\ creating' = 0 /\ settled' = FALSE
        /\ UNCHANGED <<clock, cached, writer, closer, flushed, load>>
    BY <1>2 DEF Pool!CreateCommit
  <2>2. saved' \in Pool!Snapshot /\ saved'.status = "opening" /\ saved'.version = creating /\ saved' # Pool!Nothing
    BY <2>1 DEF Pool!Snapshot, Pool!Statuses, Pool!PoolStatuses, Pool!Nothing
  <2>3. /\ saved = Pool!Nothing /\ cached = Pool!Nothing /\ writer = Pool!Nothing /\ closer = Pool!Nothing
        /\ load.read = Pool!Nothing
    BY <2>1 DEF PoolInv, Seen
  <2>4. Pool!TypeOK'
    BY <2>1, <2>2 DEF PoolInv, Pool!TypeOK
  <2>5. flushed = 0
    BY <2>3 DEF PoolInv, Seen
  <2>6. Ages' /\ Seen'
    BY <2>1, <2>2, <2>3, <2>5 DEF PoolInv, Ages, Seen, Pool!Statuses, Pool!PoolStatuses
  <2>7. Undisturbed' /\ Pool!AheadMeansOpen' /\ Pool!LoadRepairs'
    BY <2>1, <2>2, <2>3 DEF PoolInv, Undisturbed, Pool!AheadMeansOpen, Pool!LoadRepairs
  <2>. QED BY <2>4, <2>6, <2>7 DEF PoolInv
<1>. QED BY <1>1, <1>2
(* A transaction of the worker or the API process commits a newer row.     *)
LEMMA CommitKeeps ==
  ASSUME Pool!PoolAssumption, PoolInv, Pool!Commit
  PROVE  PoolInv'
<1>. USE PoolFacts
<1>1. /\ writer = Pool!Nothing /\ flushed = 0 /\ saved # Pool!Nothing /\ writer' = saved' /\ settled' = FALSE
      /\ UNCHANGED <<creating, cached, closer, flushed, load>>
      /\ \/ /\ clock < PoolTime /\ clock' = clock + 1
            /\ \E s \in Pool!Moves(saved.status) : saved' = [status |-> s, version |-> clock + 1]
         \/ UNCHANGED <<clock, saved>>
  BY DEF Pool!Commit, Pool!Tick
<1>2. clock' \in 0 .. PoolTime /\ clock <= clock'
  BY <1>1
<1>3. /\ saved' \in Pool!Snapshot /\ saved'.version \in Nat /\ saved.version <= saved'.version
      /\ saved'.version <= clock' /\ saved' # Pool!Nothing /\ saved'.status \in Pool!Statuses
  <2>1. CASE UNCHANGED <<clock, saved>>
    BY <1>1, <2>1 DEF PoolInv, Ages, Seen
  <2>2. CASE clock < PoolTime /\ clock' = clock + 1
             /\ \E s \in Pool!Moves(saved.status) : saved' = [status |-> s, version |-> clock + 1]
    <3>1. PICK s \in Pool!Moves(saved.status) : saved' = [status |-> s, version |-> clock + 1]
      BY <2>2
    <3>2. s \in Pool!Statuses /\ s # "none"
      BY DEF Pool!Moves, Pool!Statuses, Pool!PoolStatuses
    <3>3. clock + 1 \in 0 .. PoolTime
      BY <2>2
    <3>. QED BY <2>2, <3>1, <3>2, <3>3 DEF Pool!Snapshot, PoolInv, Ages
  <2>. QED BY <1>1, <2>1, <2>2
<1>4. Pool!TypeOK'
  BY <1>1, <1>2, <1>3 DEF PoolInv, Pool!TypeOK
<1>5. Ages' /\ Seen'
  BY <1>1, <1>2, <1>3 DEF PoolInv, Ages, Seen
<1>6. saved.status # "none"
  BY <1>1 DEF PoolInv, Seen, Pool!Statuses, Pool!PoolStatuses
<1>7. Undisturbed' /\ Pool!AheadMeansOpen' /\ Pool!LoadRepairs'
  BY <1>1, <1>3, <1>6 DEF PoolInv, Undisturbed, Pool!AheadMeansOpen, Pool!LoadRepairs
<1>. QED BY <1>4, <1>5, <1>7 DEF PoolInv

(* What the worker or the API puts into the pool.                          *)
LEMMA UpsertKeeps ==
  ASSUME Pool!PoolAssumption, PoolInv, Pool!Upsert
  PROVE  PoolInv'
<1>. USE PoolFacts
<1>1. /\ writer # Pool!Nothing /\ writer' = Pool!Nothing /\ settled' = FALSE /\ Pool!Put(writer)
      /\ UNCHANGED <<clock, saved, creating, closer, flushed, load>>
  BY DEF Pool!Upsert
<1>2. cached' \in Pool!Snapshot /\ cached' \in {writer, Pool!Nothing}
  BY <1>1, PutIs
<1>3. cached'.version <= saved.version
  BY <1>2 DEF PoolInv, Ages
<1>4. Pool!TypeOK'
  BY <1>1, <1>2 DEF PoolInv, Pool!TypeOK
<1>5. Ages' /\ Seen'
  BY <1>1, <1>2 DEF PoolInv, Ages, Seen
<1>6. Undisturbed' /\ Pool!AheadMeansOpen' /\ Pool!LoadRepairs'
  <2>1. cached'.version \in Nat
    BY <1>2
  <2>. QED BY <1>1, <1>3, <2>1 DEF PoolInv, Undisturbed, Pool!AheadMeansOpen, Pool!LoadRepairs
<1>. QED BY <1>4, <1>5, <1>6 DEF PoolInv

(* mark_manual puts the snapshot first and commits then.                   *)
LEMMA ManualKeeps ==
  ASSUME Pool!PoolAssumption, PoolInv, Pool!MarkManual
  PROVE  PoolInv'
<1>. USE PoolFacts
<1>. DEFINE s == [saved EXCEPT !.status = "manual_intervention"]
<1>1. /\ writer = Pool!Nothing /\ flushed = 0 /\ saved.status \in {"opening", "open", "closing"}
      /\ clock < PoolTime /\ clock' = clock + 1 /\ Pool!Put(s)
      /\ saved' = [status |-> "manual_intervention", version |-> clock + 1] /\ settled' = FALSE
      /\ UNCHANGED <<creating, writer, closer, flushed, load>>
  BY DEF Pool!MarkManual, Pool!Tick
<1>2. s \in Pool!Snapshot /\ s.version = saved.version
  BY DEF Pool!Snapshot, Pool!Statuses, Pool!PoolStatuses
<1>. HIDE DEF s
<1>3. clock + 1 \in 0 .. PoolTime
  BY <1>1
<1>4. /\ saved' \in Pool!Snapshot /\ saved'.version = clock + 1 /\ saved'.status \in Pool!Statuses
      /\ saved' # Pool!Nothing
  BY <1>1, <1>3 DEF Pool!Snapshot, Pool!Statuses, Pool!PoolStatuses
<1>5. cached' \in Pool!Snapshot /\ cached' \in {s, Pool!Nothing}
  BY <1>1, <1>2, PutIs
<1>6. cached'.version \in Nat /\ cached'.version <= saved.version /\ saved.version <= clock
  BY <1>2, <1>5 DEF PoolInv, Ages
<1>7. Pool!TypeOK'
  BY <1>1, <1>3, <1>4, <1>5 DEF PoolInv, Pool!TypeOK
<1>8. saved # Pool!Nothing
  BY <1>1
<1>9. Ages' /\ Seen'
  BY <1>1, <1>3, <1>4, <1>8 DEF PoolInv, Ages, Seen
<1>10. Undisturbed' /\ Pool!AheadMeansOpen' /\ Pool!LoadRepairs'
  BY <1>1, <1>4, <1>6 DEF PoolInv, Undisturbed, Pool!AheadMeansOpen, Pool!LoadRepairs
<1>. QED BY <1>7, <1>9, <1>10 DEF PoolInv

(* auto_closer.                                                            *)
LEMMA CloserKeeps ==
  ASSUME Pool!PoolAssumption, PoolInv, Pool!CloserReads \/ Pool!CloserFlushes \/ Pool!CloserEnds
  PROVE  PoolInv'
<1>. USE PoolFacts
<1>1. CASE Pool!CloserReads
  <2>1. /\ saved.status = "open" /\ closer' = saved
        /\ UNCHANGED <<clock, saved, creating, cached, writer, flushed, load, settled>>
    BY <1>1 DEF Pool!CloserReads
  <2>2. Pool!TypeOK'
    BY <2>1 DEF PoolInv, Pool!TypeOK
  <2>3. Ages' /\ Seen'
    BY <2>1 DEF PoolInv, Ages, Seen
  <2>4. Undisturbed' /\ Pool!AheadMeansOpen' /\ Pool!LoadRepairs'
    BY <2>1, Zenon DEF PoolInv, Undisturbed, Pool!AheadMeansOpen, Pool!LoadRepairs
  <2>. QED BY <2>2, <2>3, <2>4 DEF PoolInv
<1>2. CASE Pool!CloserFlushes
  <2>. DEFINE s == [status |-> closer.status, version |-> clock + 1]
  <2>1. /\ closer # Pool!Nothing /\ clock < PoolTime /\ clock' = clock + 1 /\ flushed' = clock + 1
        /\ Pool!Put(s) /\ settled' = FALSE
        /\ UNCHANGED <<saved, creating, writer, closer, load>>
    BY <1>2 DEF Pool!CloserFlushes, Pool!Tick
  <2>2. clock + 1 \in 0 .. PoolTime
    BY <2>1
  <2>3. s \in Pool!Snapshot /\ s.status = "open"
    BY <2>1, <2>2 DEF Pool!Snapshot, PoolInv, Seen
  <2>4. cached' \in Pool!Snapshot /\ cached' \in {s, Pool!Nothing}
    <3>. HIDE DEF s
    <3>. QED BY <2>1, <2>3, PutIs
  <2>. HIDE DEF s
  <2>5. Pool!TypeOK'
    BY <2>1, <2>2, <2>4 DEF PoolInv, Pool!TypeOK
  <2>6. saved # Pool!Nothing /\ saved.version <= clock
    BY <2>1 DEF PoolInv, Seen, Ages
  <2>7. Ages' /\ Seen'
    BY <2>1, <2>2, <2>6 DEF PoolInv, Ages, Seen
  <2>8. Undisturbed' /\ Pool!AheadMeansOpen' /\ Pool!LoadRepairs'
    BY <2>1, <2>3, <2>4 DEF PoolInv, Undisturbed, Pool!AheadMeansOpen, Pool!LoadRepairs
  <2>. QED BY <2>5, <2>7, <2>8 DEF PoolInv
<1>3. CASE Pool!CloserEnds
  <2>1. /\ closer # Pool!Nothing /\ closer' = Pool!Nothing /\ flushed' = 0 /\ settled' = FALSE
        /\ (flushed # 0 /\ saved' = [saved EXCEPT !.version = flushed]) \/ saved' = saved
        /\ UNCHANGED <<clock, creating, cached, writer, load>>
    BY <1>3 DEF Pool!CloserEnds
  <2>2. saved # Pool!Nothing /\ saved.status # "none"
    BY <2>1 DEF PoolInv, Seen, Pool!Statuses, Pool!PoolStatuses
  <2>3. /\ saved' \in Pool!Snapshot /\ saved'.status = saved.status /\ saved'.version \in Nat
        /\ saved.version <= saved'.version /\ saved'.version <= clock /\ saved' # Pool!Nothing
    <3>1. CASE saved' = saved
      BY <2>2, <3>1 DEF PoolInv, Ages
    <3>2. CASE flushed # 0 /\ saved' = [saved EXCEPT !.version = flushed]
      <4>1. saved' \in Pool!Snapshot /\ saved'.status = saved.status /\ saved'.version = flushed
        BY <3>2 DEF Pool!Snapshot
      <4>2. flushed \in Nat /\ flushed > saved.version /\ flushed <= clock
        BY <3>2 DEF PoolInv, Ages
      <4>3. saved'.status # "none"
        BY <2>2, <4>1
      <4>4. saved' # Pool!Nothing
        BY <4>3 DEF Pool!Nothing
      <4>5. saved.version \in Nat /\ clock \in Nat
        OBVIOUS
      <4>6. saved.version <= flushed
        BY <4>2, <4>5
      <4>. QED BY <4>1, <4>2, <4>4, <4>6
    <3>. QED BY <2>1, <3>1, <3>2
  <2>4. Pool!TypeOK'
    BY <2>1, <2>3 DEF PoolInv, Pool!TypeOK
  <2>5. Ages' /\ Seen'
    BY <2>1, <2>2, <2>3 DEF PoolInv, Ages, Seen
  <2>6. Undisturbed' /\ Pool!AheadMeansOpen' /\ Pool!LoadRepairs'
    BY <2>1, <2>2, <2>3 DEF PoolInv, Undisturbed, Pool!AheadMeansOpen, Pool!LoadRepairs
  <2>. QED BY <2>4, <2>5, <2>6 DEF PoolInv
<1>. QED BY <1>1, <1>2, <1>3

(* A load.                                                                 *)
LEMMA LoadKeeps ==
  ASSUME Pool!PoolAssumption, PoolInv, Pool!LoadReads \/ Pool!LoadMerges \/ Pool!LoadCleans
  PROVE  PoolInv'
<1>. USE PoolFacts
<1>1. CASE Pool!LoadReads
  <2>. DEFINE r == IF saved.status \in Pool!PoolStatuses THEN saved ELSE Pool!Nothing
  <2>1. /\ load' = [phase |-> "merge", started |-> clock, read |-> r] /\ settled' = TRUE
        /\ UNCHANGED <<clock, saved, creating, cached, writer, closer, flushed>>
    BY <1>1 DEF Pool!LoadReads
  <2>2. r \in Pool!Snapshot /\ r \in {saved, Pool!Nothing}
    OBVIOUS
  <2>3. load'.phase = "merge" /\ load'.started = clock /\ load'.read = r
    BY <2>1
  <2>4. Pool!TypeOK'
    BY <2>1, <2>2 DEF PoolInv, Pool!TypeOK
  <2>5. Ages' /\ Seen'
    BY <2>1, <2>2, <2>3 DEF PoolInv, Ages, Seen
  <2>6. Undisturbed' /\ Pool!AheadMeansOpen' /\ Pool!LoadRepairs'
    BY <2>1, <2>3 DEF PoolInv, Undisturbed, Pool!AheadMeansOpen, Pool!LoadRepairs, Ages, Pool!Resting
  <2>. QED BY <2>4, <2>5, <2>6 DEF PoolInv
<1>2. CASE Pool!LoadMerges
  <2>1. /\ load.phase = "merge" /\ load' = [load EXCEPT !.phase = "clean"]
        /\ cached' = IF load.read = Pool!Nothing THEN cached
                      ELSE IF cached # Pool!Nothing /\ cached.version > load.read.version THEN cached ELSE load.read
        /\ UNCHANGED <<clock, saved, creating, writer, closer, flushed, settled>>
    BY <1>2 DEF Pool!LoadMerges, Pool!Merged
  <2>2. /\ load' \in [phase : {"rest", "merge", "clean"}, started : 0 .. PoolTime, read : Pool!Snapshot]
        /\ load'.phase = "clean" /\ load'.started = load.started /\ load'.read = load.read
    BY <2>1
  <2>3. cached' \in Pool!Snapshot /\ cached' \in {cached, load.read}
    BY <2>1
  <2>4. Pool!TypeOK'
    BY <2>1, <2>2, <2>3 DEF PoolInv, Pool!TypeOK
  <2>5. Ages' /\ Seen'
    BY <2>1, <2>2, <2>3 DEF PoolInv, Ages, Seen
  <2>6. Undisturbed' /\ Pool!AheadMeansOpen' /\ Pool!LoadRepairs'
    BY <2>1, <2>2, <2>3 DEF PoolInv, Undisturbed, Pool!AheadMeansOpen, Pool!LoadRepairs, Ages, Pool!Resting
  <2>. QED BY <2>4, <2>5, <2>6 DEF PoolInv
<1>3. CASE Pool!LoadCleans
  <2>1. /\ load.phase = "clean" /\ load' = Pool!Resting
        /\ cached' = IF load.read = Pool!Nothing /\ cached.version <= load.started THEN Pool!Nothing ELSE cached
        /\ UNCHANGED <<clock, saved, creating, writer, closer, flushed, settled>>
    BY <1>3 DEF Pool!LoadCleans
  <2>2. /\ load' \in [phase : {"rest", "merge", "clean"}, started : 0 .. PoolTime, read : Pool!Snapshot]
        /\ load'.phase = "rest" /\ load'.read = Pool!Nothing
    BY <2>1 DEF Pool!Resting
  <2>3. cached' \in Pool!Snapshot /\ cached' \in {cached, Pool!Nothing}
    BY <2>1
  <2>4. Pool!TypeOK'
    BY <2>1, <2>2, <2>3 DEF PoolInv, Pool!TypeOK
  <2>5. Ages' /\ Seen'
    BY <2>1, <2>2, <2>3 DEF PoolInv, Ages, Seen
  <2>6. Undisturbed' /\ Pool!AheadMeansOpen'
    BY <2>1, <2>2, <2>3 DEF PoolInv, Undisturbed, Pool!AheadMeansOpen
  <2>7. Pool!LoadRepairs'
    <3>. SUFFICES ASSUME settled
                  PROVE  /\ saved.status = "open" => cached'.status = "open"
                         /\ cached'.version <= saved.version /\ saved.status # "none" =>
                              cached'.status = IF saved.status \in Pool!PoolStatuses THEN saved.status ELSE "none"
      BY <2>1 DEF Pool!LoadRepairs
    <3>1. /\ load.read = (IF saved.status \in Pool!PoolStatuses THEN saved ELSE Pool!Nothing)
          /\ load.started >= saved.version
          /\ load.read # Pool!Nothing => cached = load.read \/ cached.version > load.read.version
      BY <2>1 DEF PoolInv, Undisturbed
    <3>2. "open" \in Pool!PoolStatuses /\ "none" \notin Pool!PoolStatuses
      BY DEF Pool!PoolStatuses
    <3>3. CASE saved.status \in Pool!PoolStatuses
      <4>1. load.read = saved /\ load.read # Pool!Nothing /\ cached' = cached
        BY <2>1, <3>1, <3>2, <3>3
      <4>2. cached = saved \/ cached.version > saved.version
        BY <3>1, <4>1
      <4>. QED BY <3>2, <3>3, <4>1, <4>2 DEF PoolInv, Pool!AheadMeansOpen
    <3>4. CASE saved.status \notin Pool!PoolStatuses
      <4>1. load.read = Pool!Nothing
        BY <3>1, <3>4
      <4>2. cached' = Pool!Nothing \/ (cached' = cached /\ cached.version > load.started)
        BY <2>1, <4>1
      <4>. QED BY <3>1, <3>2, <3>4, <4>2
    <3>. QED BY <3>3, <3>4
  <2>. QED BY <2>4, <2>5, <2>6, <2>7 DEF PoolInv
<1>. QED BY <1>1, <1>2, <1>3

(* No step of a writer, of auto_closer or of a load disturbs it.           *)
LEMMA PoolStep ==
  ASSUME Pool!PoolAssumption, PoolInv, [Pool!Next]_Pool!vars
  PROVE  PoolInv'
<1>1. CASE UNCHANGED Pool!vars
  BY <1>1 DEF Pool!vars, PoolInv, Pool!TypeOK, Ages, Seen, Undisturbed, Pool!AheadMeansOpen, Pool!LoadRepairs
<1>. QED BY <1>1, CreatesKeep, CommitKeeps, UpsertKeeps, ManualKeeps, CloserKeeps, LoadKeeps DEF Pool!Next

-----------------------------------------------------------------------------
(***************************************************************************)
(* ProbeRuns.                                                              *)
(***************************************************************************)
RunsTypes ==
  /\ probeRun \in [Runs -> ProbeRun!RunStatus]
  /\ probeIntent \in [ProbeRun!Legs -> {"ABSENT", "CREATED", "RUNNING", "COMPLETED", "FAILED", "RECOVERY_REQUIRED"}]
  /\ probeSize \in [ProbeRun!Legs -> ProbeRun!Lots] /\ probeLeg \in [ProbeRun!Legs -> ProbeRun!LegStatus]
  /\ probeOrder \in [ProbeRun!Legs -> ProbeRun!Row] /\ probeVenue \in [ProbeRun!Legs -> ProbeRun!Row]
  /\ probeOwed \subseteq ProbeRun!Legs

(* An order is at its venue as reports tell of it: whole, cut short, or    *)
(* untouched.                                                              *)
VenueIs(o, n) ==
  \/ o = ProbeRun!NoOrder
  \/ o.status = "ACCEPTED" /\ o.filled = 0
  \/ o.status = "FILLED" /\ o.filled = n
  \/ o.status = "CANCELED" /\ o.filled < n

(* What is known of the order of one leg is true, and final once the leg   *)
(* is.                                                                     *)
OrderOf(l) ==
  /\ VenueIs(probeVenue[l], probeSize[l])
  /\ probeOrder[l].filled <= probeVenue[l].filled
  /\ probeVenue[l] # ProbeRun!NoOrder => probeOrder[l] # ProbeRun!NoOrder
  /\ probeIntent[l] = "ABSENT" => probeOrder[l] = ProbeRun!NoOrder /\ l \notin probeOwed
                                  /\ probeLeg[l] = "PLANNED"
  /\ l \in probeOwed => probeVenue[l] # ProbeRun!NoOrder
  /\ probeIntent[l] # "ABSENT" => probeSize[l] > 0
  /\ probeLeg[l] \in ProbeRun!TerminalLeg =>
       /\ probeOrder[l].filled = probeVenue[l].filled
       /\ \/ probeVenue[l].status \in {"FILLED", "CANCELED"}
          \/ probeVenue[l] = ProbeRun!NoOrder /\ probeOrder[l].status = "REJECTED"

(* A run starts with its entry, and the exit is of what the entry filled   *)
(* when it was final.                                                      *)
Chained(r) ==
  /\ probeRun[r] = "NONE" => probeIntent[<<r, "entry">>] = "ABSENT"
  /\ probeIntent[<<r, "entry">>] = "ABSENT" => probeIntent[<<r, "exit">>] = "ABSENT"
  /\ probeIntent[<<r, "entry">>] # "ABSENT" => probeSize[<<r, "entry">>] = RunQuantity
  /\ probeIntent[<<r, "exit">>] # "ABSENT" =>
       /\ probeVenue[<<r, "entry">>].status \in {"FILLED", "CANCELED"}
       /\ probeSize[<<r, "exit">>] = probeVenue[<<r, "entry">>].filled

RunsSafe(r) ==
  /\ probeRun[r] = "FLAT" => /\ probeIntent[<<r, "exit">>] # "ABSENT"
                             /\ probeVenue[<<r, "exit">>] = [status |-> "FILLED", filled |-> RunQuantity]
                             /\ probeVenue[<<r, "entry">>].filled = RunQuantity
  /\ probeRun[r] = "FAILED_NO_EXPOSURE" =>
       \/ probeVenue[<<r, "entry">>] = [status |-> "CANCELED", filled |-> 0]
       \/ probeVenue[<<r, "entry">>] = ProbeRun!NoOrder /\ probeOrder[<<r, "entry">>].status = "REJECTED"

RunsInv ==
  /\ RunsTypes
  /\ \A l \in ProbeRun!Legs : OrderOf(l)
  /\ \A r \in Runs : Chained(r) /\ RunsSafe(r)

(* The legs are the entries and the exits of the runs.                     *)
LEMMA LegsAre ==
  /\ \A r \in Runs : <<r, "entry">> \in ProbeRun!Legs /\ <<r, "exit">> \in ProbeRun!Legs
  /\ \A l \in ProbeRun!Legs : \E r \in Runs : l = <<r, "entry">> \/ l = <<r, "exit">>
  /\ \A l \in ProbeRun!Legs : l[1] \in Runs /\ l[2] \in {"entry", "exit"} /\ l = <<l[1], l[2]>>
BY DEF ProbeRun!Legs, ProbeRun!Stages

(* At the start no run has begun.                                          *)
LEMMA RunsInit ==
  ASSUME ProbeRun!RunsAssumption, ProbeRun!Init
  PROVE  RunsInv
<1>1. 0 \in ProbeRun!Lots /\ ProbeRun!NoOrder \in ProbeRun!Row
  BY DEF ProbeRun!RunsAssumption, ProbeRun!Lots, ProbeRun!Row, ProbeRun!NoOrder, ProbeRun!OrderStatus, ProbeRun!VenueStatus
<1>2. RunsTypes
  BY <1>1 DEF ProbeRun!Init, RunsTypes, ProbeRun!RunStatus, ProbeRun!LegStatus
<1>3. \A l \in ProbeRun!Legs : OrderOf(l)
  BY DEF ProbeRun!Init, OrderOf, VenueIs, ProbeRun!NoOrder, ProbeRun!TerminalLeg
<1>4. \A r \in Runs : Chained(r) /\ RunsSafe(r)
  BY LegsAre DEF ProbeRun!Init, Chained, RunsSafe
<1>. QED BY <1>2, <1>3, <1>4 DEF RunsInv

(* The ranges of the rows of one leg.                                      *)
LEMMA RunsFacts ==
  ASSUME ProbeRun!RunsAssumption, RunsInv, NEW l \in ProbeRun!Legs
  PROVE  /\ RunQuantity \in Nat /\ RunQuantity > 0 /\ OrderOf(l)
         /\ probeSize[l] \in Nat /\ probeSize[l] \in ProbeRun!Lots
         /\ probeOrder[l] \in ProbeRun!Row /\ probeOrder[l].filled \in Nat
         /\ probeVenue[l] \in ProbeRun!Row /\ probeVenue[l].filled \in Nat /\ probeVenue[l].filled <= probeSize[l]
BY DEF ProbeRun!RunsAssumption, RunsInv, RunsTypes, ProbeRun!Lots, ProbeRun!Row, OrderOf, VenueIs, ProbeRun!NoOrder

-----------------------------------------------------------------------------
(* What a report makes of order and leg.                                   *)

(* A report of what the venue has, v of an order of n, known as o; or that *)
(* it refused it.                                                          *)
Told(o, l, v) ==
  /\ o \in ProbeRun!Row /\ o.filled <= v.filled /\ o.status # "NONE"
  /\ l \in ProbeRun!LegStatus
  /\ l \in ProbeRun!TerminalLeg =>
       /\ o.filled = v.filled
       /\ \/ v.status \in {"FILLED", "CANCELED"}
          \/ v = ProbeRun!NoOrder /\ o.status = "REJECTED"

(* The answer of a gateway, applied to a leg, tells of its order what the  *)
(* venue has.                                                              *)
LEMMA GatewayTells ==
  ASSUME RunQuantity \in Nat, NEW o \in ProbeRun!Row, NEW v \in ProbeRun!Row, NEW n \in Nat, n > 0, n <= RunQuantity,
         VenueIs(v, n), o.filled <= v.filled, v # ProbeRun!NoOrder
  PROVE  Told(ProbeRun!GatewayOrder(o, v, n), ProbeRun!GatewayLeg(o, v, n), v)
<1>1. o.filled \in Nat /\ v.filled \in Nat /\ o.status \in ProbeRun!OrderStatus /\ v.status \in ProbeRun!OrderStatus
      /\ o.filled \in ProbeRun!Lots /\ v.filled \in ProbeRun!Lots
  BY DEF ProbeRun!Row, ProbeRun!Lots
<1>2. ProbeRun!Larger(o.filled, v.filled) = v.filled
  BY <1>1 DEF ProbeRun!Larger
<1>3. /\ v.status \in {"ACCEPTED", "FILLED", "CANCELED"}
      /\ v.filled >= n <=> v.status = "FILLED"
  BY <1>1 DEF VenueIs
<1>4. /\ ProbeRun!GatewayOrder(o, v, n) = [status |-> v.status, filled |-> v.filled]
      /\ ProbeRun!GatewayLeg(o, v, n) \in {"FILLED", "FAILED", "PARTIALLY_FILLED", "SUBMITTED"}
      /\ ProbeRun!GatewayLeg(o, v, n) \in {"FILLED", "FAILED"} => v.status \in {"FILLED", "CANCELED"}
  BY <1>2, <1>3 DEF ProbeRun!GatewayOrder, ProbeRun!GatewayLeg, ProbeRun!FailureOrderStatuses
<1>5. [status |-> v.status, filled |-> v.filled] \in ProbeRun!Row
  BY <1>1 DEF ProbeRun!Row
<1>. QED BY <1>1, <1>3, <1>4, <1>5 DEF Told, ProbeRun!TerminalLeg, ProbeRun!LegStatus

(* So does an event of the stream.                                         *)
LEMMA EventTells ==
  ASSUME RunQuantity \in Nat, NEW o \in ProbeRun!Row, NEW v \in ProbeRun!Row, NEW n \in Nat,
         VenueIs(v, n), o.filled <= v.filled, v # ProbeRun!NoOrder
  PROVE  Told(ProbeRun!EventOrder(o, v), ProbeRun!EventLeg(o, v), v)
<1>1. o.filled \in Nat /\ v.filled \in Nat /\ o.status \in ProbeRun!OrderStatus /\ v.status \in ProbeRun!OrderStatus
      /\ o.filled \in ProbeRun!Lots /\ v.filled \in ProbeRun!Lots
  BY DEF ProbeRun!Row, ProbeRun!Lots
<1>2. ProbeRun!Larger(o.filled, v.filled) = v.filled
  BY <1>1 DEF ProbeRun!Larger
<1>3. v.status \in {"ACCEPTED", "FILLED", "CANCELED"}
  BY <1>1 DEF VenueIs
<1>4. /\ ProbeRun!EventOrder(o, v) = [status |-> v.status, filled |-> v.filled]
      /\ ProbeRun!EventLeg(o, v) \in {"FILLED", "FAILED", "PARTIALLY_FILLED", "SUBMITTED"}
      /\ ProbeRun!EventLeg(o, v) \in {"FILLED", "FAILED"} => v.status \in {"FILLED", "CANCELED"}
  BY <1>2, <1>3 DEF ProbeRun!EventOrder, ProbeRun!EventLeg, ProbeRun!FailureOrderStatuses
<1>5. [status |-> v.status, filled |-> v.filled] \in ProbeRun!Row
  BY <1>1 DEF ProbeRun!Row
<1>. QED BY <1>1, <1>3, <1>4, <1>5 DEF Told, ProbeRun!TerminalLeg, ProbeRun!LegStatus

(* A refusal leaves no order and ends the leg.                             *)
LEMMA RefusalTells ==
  ASSUME RunQuantity \in Nat, NEW n \in Nat, n > 0, NEW r, r = [status |-> "REJECTED", filled |-> 0]
  PROVE  Told(ProbeRun!GatewayOrder(ProbeRun!NoOrder, r, n), ProbeRun!GatewayLeg(ProbeRun!NoOrder, r, n), ProbeRun!NoOrder)
<1>1. ProbeRun!Larger(0, 0) = 0
  BY DEF ProbeRun!Larger
<1>2. /\ ProbeRun!GatewayOrder(ProbeRun!NoOrder, r, n) = [status |-> "REJECTED", filled |-> 0]
      /\ ProbeRun!GatewayLeg(ProbeRun!NoOrder, r, n) = "FAILED"
  BY <1>1 DEF ProbeRun!GatewayOrder, ProbeRun!GatewayLeg, ProbeRun!NoOrder, ProbeRun!FailureOrderStatuses
<1>. QED BY <1>2 DEF Told, ProbeRun!Row, ProbeRun!OrderStatus, ProbeRun!Lots, ProbeRun!LegStatus, ProbeRun!NoOrder, ProbeRun!TerminalLeg

-----------------------------------------------------------------------------
(* A report that is told to a leg, and what the run makes of it.           *)
LEMMA AdvanceKeeps ==
  ASSUME ProbeRun!RunsAssumption, RunsInv, NEW l \in ProbeRun!Legs, NEW o, NEW s, NEW v, NEW a \in BOOLEAN,
         probeIntent[l] # "ABSENT",
         Told(o, s, v), v \in ProbeRun!Row, VenueIs(v, probeSize[l]),
         \/ v = probeVenue[l]
         \/ probeVenue[l] = ProbeRun!NoOrder /\ probeOrder[l] = ProbeRun!NoOrder,
         ProbeRun!Applied(l, o, s, a),
         probeVenue' = [probeVenue EXCEPT ![l] = v],
         probeOwed' \subseteq ProbeRun!Legs, probeOwed' \subseteq probeOwed \cup {l}, l \in probeOwed' => l \in probeOwed \/ v # ProbeRun!NoOrder
  PROVE  RunsInv'
<1>. DEFINE r == l[1]
            entry == <<r, "entry">>
            exit == <<r, "exit">>
<1>1. /\ r \in Runs /\ (l = entry \/ l = exit) /\ entry \in ProbeRun!Legs /\ exit \in ProbeRun!Legs /\ entry # exit
      /\ l[2] = "entry" <=> l = entry
      /\ l[2] = "exit" <=> l = exit
      /\ \A q \in Runs : q # r => <<q, "entry">> \notin {entry, exit} /\ <<q, "exit">> \notin {entry, exit}
  BY LegsAre DEF ProbeRun!Legs
<1>2. probeOrder' = [probeOrder EXCEPT ![l] = o] /\ probeLeg' = [probeLeg EXCEPT ![l] = s] /\ ProbeRun!Advance(l, o, s, a)
  BY DEF ProbeRun!Applied
<1>. HIDE DEF r, entry, exit
<1>3. /\ probeOrder \in [ProbeRun!Legs -> ProbeRun!Row] /\ probeVenue \in [ProbeRun!Legs -> ProbeRun!Row]
      /\ probeLeg \in [ProbeRun!Legs -> ProbeRun!LegStatus] /\ probeSize \in [ProbeRun!Legs -> ProbeRun!Lots]
      /\ probeRun \in [Runs -> ProbeRun!RunStatus]
      /\ probeIntent \in [ProbeRun!Legs -> {"ABSENT", "CREATED", "RUNNING", "COMPLETED", "FAILED", "RECOVERY_REQUIRED"}]
  BY DEF RunsInv, RunsTypes
<1>4. /\ o \in ProbeRun!Row /\ o.filled \in Nat /\ o.filled \in ProbeRun!Lots /\ v.filled \in Nat /\ s \in ProbeRun!LegStatus
      /\ RunQuantity \in Nat /\ RunQuantity > 0 /\ probeSize[l] \in Nat /\ v.filled <= probeSize[l]
      /\ probeSize[l] > 0 /\ o # ProbeRun!NoOrder
  BY RunsFacts DEF Told, ProbeRun!Row, ProbeRun!Lots, ProbeRun!NoOrder, VenueIs, OrderOf
(* the run and its intents *)
<1>5. \/ /\ l = entry /\ s \notin ProbeRun!TerminalLeg
         /\ probeRun' = [probeRun EXCEPT ![r] = "OPENING"]
         /\ probeIntent' = [probeIntent EXCEPT ![entry] = "RUNNING"] /\ probeSize' = probeSize
      \/ /\ l = entry /\ s \in ProbeRun!TerminalLeg /\ o.filled = 0
         /\ probeRun' = [probeRun EXCEPT ![r] = "FAILED_NO_EXPOSURE"]
         /\ probeIntent' = [probeIntent EXCEPT ![entry] = "FAILED"] /\ probeSize' = probeSize
      \/ /\ l = entry /\ s \in ProbeRun!TerminalLeg /\ o.filled > 0 /\ probeIntent[exit] = "ABSENT"
         /\ probeRun' = [probeRun EXCEPT ![r] = "FLATTENING"]
         /\ probeIntent' = [probeIntent EXCEPT ![entry] = "COMPLETED", ![exit] = "CREATED"]
         /\ probeSize' = [probeSize EXCEPT ![exit] = o.filled]
      \/ /\ l = entry /\ probeIntent[exit] # "ABSENT"
         /\ probeIntent' = [probeIntent EXCEPT ![entry] = "COMPLETED"] /\ probeRun' = probeRun /\ probeSize' = probeSize
      \/ /\ l = exit
         /\ \E x \in {"FLATTENING", "RECOVERY_REQUIRED"}, i \in {"RUNNING", "RECOVERY_REQUIRED"} :
               probeRun' = [probeRun EXCEPT ![r] = x] /\ probeIntent' = [probeIntent EXCEPT ![exit] = i]
         /\ probeSize' = probeSize
      \/ /\ l = exit /\ s \in ProbeRun!TerminalLeg /\ ~(RunQuantity - o.filled > 0)
         /\ probeRun' = [probeRun EXCEPT ![r] = "FLAT"] /\ probeIntent' = [probeIntent EXCEPT ![exit] = "COMPLETED"]
         /\ probeSize' = probeSize
  <2>1. CASE l = entry
    <3>1. ProbeRun!AdvanceEntry(r, o, s)
      BY <1>1, <1>2, <2>1 DEF ProbeRun!Advance, r
    <3>. QED BY <2>1, <3>1 DEF ProbeRun!AdvanceEntry, entry, exit
  <2>2. CASE l = exit
    <3>1. ProbeRun!AdvanceExit(r, o, s, a)
      BY <1>1, <1>2, <2>2 DEF ProbeRun!Advance, r
    <3>. QED BY <2>2, <3>1 DEF ProbeRun!AdvanceExit, exit
  <2>. QED BY <1>1, <2>1, <2>2
<1>6. /\ probeVenue' = [probeVenue EXCEPT ![l] = v] /\ probeVenue'[l] = v /\ probeOrder'[l] = o /\ probeLeg'[l] = s
      /\ \A k \in ProbeRun!Legs : k # l => probeVenue'[k] = probeVenue[k] /\ probeOrder'[k] = probeOrder[k] /\ probeLeg'[k] = probeLeg[k]
      /\ probeIntent'[l] # "ABSENT"
      /\ \A k \in ProbeRun!Legs : k \notin {entry, exit} => probeIntent'[k] = probeIntent[k]
      /\ \A q \in Runs : q # r => probeRun'[q] = probeRun[q]
  BY <1>1, <1>2, <1>3, <1>5
<1>7. /\ probeIntent' \in [ProbeRun!Legs -> {"ABSENT", "CREATED", "RUNNING", "COMPLETED", "FAILED", "RECOVERY_REQUIRED"}]
      /\ probeRun' \in [Runs -> ProbeRun!RunStatus] /\ probeRun'[r] # "NONE"
      /\ probeSize' \in [ProbeRun!Legs -> ProbeRun!Lots]
  <2>1. "OPENING" \in ProbeRun!RunStatus /\ "FLAT" \in ProbeRun!RunStatus /\ "FLATTENING" \in ProbeRun!RunStatus
        /\ "RECOVERY_REQUIRED" \in ProbeRun!RunStatus /\ "FAILED_NO_EXPOSURE" \in ProbeRun!RunStatus
    BY DEF ProbeRun!RunStatus
  <2>2. probeIntent[exit] # "ABSENT" => probeRun[r] # "NONE"
    BY <1>1 DEF RunsInv, Chained, entry, exit
  <2>3. probeSize' \in [ProbeRun!Legs -> ProbeRun!Lots]
    BY <1>3, <1>4, <1>5
  <2>. QED BY <1>1, <1>3, <1>5, <2>1, <2>2, <2>3
<1>8. RunsTypes'
  <2>1. probeOrder' \in [ProbeRun!Legs -> ProbeRun!Row] /\ probeLeg' \in [ProbeRun!Legs -> ProbeRun!LegStatus]
    BY <1>2, <1>3, <1>4
  <2>2. probeVenue' \in [ProbeRun!Legs -> ProbeRun!Row]
    BY <1>3
  <2>. QED BY <1>7, <2>1, <2>2 DEF RunsTypes
(* the size of the exit is set once *)
<1>9. /\ \A k \in ProbeRun!Legs : k # exit => probeSize'[k] = probeSize[k]
      /\ \/ probeSize'[exit] = probeSize[exit]
         \/ /\ l = entry /\ s \in ProbeRun!TerminalLeg /\ o.filled > 0 /\ probeIntent[exit] = "ABSENT"
            /\ probeSize'[exit] = o.filled
  BY <1>1, <1>3, <1>5
<1>10. OrderOf(l)'
  <2>1. probeSize'[l] = probeSize[l]
    BY <1>1, <1>9
  <2>2. l \in probeOwed' => v # ProbeRun!NoOrder
    BY RunsFacts DEF OrderOf
  <2>3. o # ProbeRun!NoOrder /\ probeSize[l] > 0 /\ VenueIs(v, probeSize[l])
    BY <1>4
  <2>. HIDE DEF RunsInv
  <2>. QED BY <1>6, <2>1, <2>2, <2>3 DEF OrderOf, Told
<1>11. ASSUME NEW k \in ProbeRun!Legs, k # l PROVE OrderOf(k)'
  <2>1. OrderOf(k) /\ probeSize[k] \in Nat
    BY RunsFacts
  <2>2. /\ probeVenue'[k] = probeVenue[k] /\ probeOrder'[k] = probeOrder[k] /\ probeLeg'[k] = probeLeg[k]
        /\ k \in probeOwed' => k \in probeOwed
    BY <1>6, <1>11
  <2>3. CASE probeSize'[k] = probeSize[k] /\ (probeIntent'[k] = "ABSENT" <=> probeIntent[k] = "ABSENT")
    BY <2>1, <2>2, <2>3 DEF OrderOf
  <2>4. CASE ~(probeSize'[k] = probeSize[k] /\ (probeIntent'[k] = "ABSENT" <=> probeIntent[k] = "ABSENT"))
    <3>1. k = exit /\ l = entry /\ probeIntent[exit] = "ABSENT" /\ probeSize'[exit] = o.filled /\ o.filled > 0
          /\ probeIntent'[exit] = "CREATED"
      BY <1>1, <1>3, <1>5, <1>6, <1>9, <1>11, <2>4
    <3>2. /\ probeVenue[k] = ProbeRun!NoOrder /\ probeOrder[k] = ProbeRun!NoOrder /\ k \notin probeOwed /\ probeLeg[k] = "PLANNED"
      BY <2>1, <3>1 DEF OrderOf
    <3>. QED BY <2>2, <3>1, <3>2 DEF OrderOf, VenueIs, ProbeRun!NoOrder, ProbeRun!TerminalLeg
  <2>. QED BY <2>3, <2>4
<1>12. ASSUME NEW q \in Runs, q # r PROVE (Chained(q) /\ RunsSafe(q))'
  <2>1. <<q, "entry">> \in ProbeRun!Legs /\ <<q, "exit">> \in ProbeRun!Legs
        /\ <<q, "entry">> \notin {entry, exit, l} /\ <<q, "exit">> \notin {entry, exit, l}
    BY <1>1, <1>12, LegsAre
  <2>2. /\ probeRun'[q] = probeRun[q]
        /\ probeIntent'[<<q, "entry">>] = probeIntent[<<q, "entry">>] /\ probeIntent'[<<q, "exit">>] = probeIntent[<<q, "exit">>]
        /\ probeSize'[<<q, "entry">>] = probeSize[<<q, "entry">>] /\ probeSize'[<<q, "exit">>] = probeSize[<<q, "exit">>]
        /\ probeVenue'[<<q, "entry">>] = probeVenue[<<q, "entry">>] /\ probeVenue'[<<q, "exit">>] = probeVenue[<<q, "exit">>]
        /\ probeOrder'[<<q, "entry">>] = probeOrder[<<q, "entry">>]
    BY <1>6, <1>9, <1>12, <2>1
  <2>3. Chained(q) /\ RunsSafe(q)
    BY DEF RunsInv
  <2>. QED BY <2>2, <2>3 DEF Chained, RunsSafe
<1>13. /\ Chained(r) /\ RunsSafe(r) /\ OrderOf(entry) /\ OrderOf(exit)
       /\ probeVenue[entry].filled \in Nat /\ probeVenue[exit].filled \in Nat /\ probeVenue[exit] \in ProbeRun!Row
  BY <1>1, RunsFacts DEF RunsInv
<1>14. v.status \in {"FILLED", "CANCELED"} \/ probeVenue[l].status \notin {"FILLED", "CANCELED"}
  BY DEF ProbeRun!NoOrder
<1>15. Chained(r)' /\ RunsSafe(r)'
  <2>1. CASE l = entry
    <3>1. probeVenue'[exit] = probeVenue[exit] /\ probeVenue'[entry] = v /\ probeSize'[entry] = probeSize[entry]
          /\ probeIntent'[entry] # "ABSENT" /\ probeOrder'[entry] = o
      BY <1>1, <1>6, <1>9, <2>1
    <3>2. probeSize[entry] = RunQuantity
      BY <1>13, <2>1 DEF Chained, entry
    <3>3. probeIntent[exit] # "ABSENT" => v = probeVenue[entry] /\ probeIntent'[exit] # "ABSENT" /\ probeSize'[exit] = probeSize[exit]
      <4>1. probeIntent[exit] # "ABSENT" => v = probeVenue[entry]
        BY <1>13, <2>1 DEF Chained, entry, exit, ProbeRun!NoOrder
      <4>2. probeIntent[exit] # "ABSENT" => probeIntent'[exit] # "ABSENT"
        BY <1>1, <1>3, <1>5, <2>1
      <4>. QED BY <1>9, <4>1, <4>2
    <3>4. probeIntent[exit] = "ABSENT" /\ probeIntent'[exit] # "ABSENT" =>
            s \in ProbeRun!TerminalLeg /\ o.filled > 0 /\ probeSize'[exit] = o.filled /\ probeRun'[r] = "FLATTENING"
      BY <1>1, <1>3, <1>5, <2>1
    <3>5. s \in ProbeRun!TerminalLeg => o.filled = v.filled /\ (v.status \in {"FILLED", "CANCELED"} \/ (v = ProbeRun!NoOrder /\ o.status = "REJECTED"))
      BY DEF Told
    <3>6. ProbeRun!NoOrder.filled = 0
      BY DEF ProbeRun!NoOrder
    <3>7. Chained(r)'
      <4>1. probeIntent'[exit] # "ABSENT" => v.status \in {"FILLED", "CANCELED"} /\ probeSize'[exit] = v.filled
        <5>1. CASE probeIntent[exit] # "ABSENT"
          BY <1>13, <2>1, <3>3, <5>1 DEF Chained, entry, exit
        <5>2. CASE probeIntent[exit] = "ABSENT"
          BY <1>4, <3>4, <3>5, <3>6, <5>2
        <5>. QED BY <5>1, <5>2
      <4>. QED BY <1>7, <3>1, <3>2, <4>1 DEF Chained, entry, exit
    <3>8. probeRun'[r] = "FLAT" => probeRun[r] = "FLAT" /\ probeIntent[exit] # "ABSENT"
      BY <1>1, <1>3, <1>5, <2>1
    <3>9. probeRun'[r] = "FAILED_NO_EXPOSURE" =>
             v = [status |-> "CANCELED", filled |-> 0] \/ (v = ProbeRun!NoOrder /\ o.status = "REJECTED")
      <4>. SUFFICES ASSUME probeRun'[r] = "FAILED_NO_EXPOSURE"
                    PROVE v = [status |-> "CANCELED", filled |-> 0] \/ (v = ProbeRun!NoOrder /\ o.status = "REJECTED")
        OBVIOUS
      <4>1. CASE s \in ProbeRun!TerminalLeg /\ o.filled = 0
        <5>1. v.filled = 0 /\ v.status # "FILLED"
          BY <1>4, <3>5, <3>6, <4>1 DEF VenueIs, ProbeRun!NoOrder
        <5>2. v.status = "CANCELED" => v = [status |-> "CANCELED", filled |-> 0]
          BY <5>1 DEF ProbeRun!Row
        <5>. QED BY <3>5, <4>1, <5>1, <5>2
      <4>2. CASE probeIntent[exit] # "ABSENT" /\ probeRun' = probeRun
        <5>1. probeRun[r] = "FAILED_NO_EXPOSURE" /\ v = probeVenue[entry] /\ v.status \in {"FILLED", "CANCELED"}
          BY <1>13, <3>3, <4>2 DEF Chained, entry, exit
        <5>. QED BY <1>13, <5>1 DEF RunsSafe, entry, ProbeRun!NoOrder
      <4>. QED BY <1>1, <1>3, <1>5, <2>1, <4>1, <4>2
    <3>10. RunsSafe(r)'
      <4>1. probeRun'[r] = "FLAT" => /\ probeIntent'[exit] # "ABSENT"
                                     /\ probeVenue'[exit] = [status |-> "FILLED", filled |-> RunQuantity]
                                     /\ probeVenue'[entry].filled = RunQuantity
        BY <1>13, <3>1, <3>3, <3>8 DEF RunsSafe, entry, exit
      <4>. QED BY <3>1, <3>9, <4>1 DEF RunsSafe, entry, exit
    <3>. QED BY <3>7, <3>10
  <2>2. CASE l = exit
    <3>1. probeVenue'[entry] = probeVenue[entry] /\ probeVenue'[exit] = v /\ probeSize' = probeSize
          /\ probeIntent'[entry] = probeIntent[entry] /\ probeIntent'[exit] # "ABSENT" /\ probeIntent[exit] # "ABSENT"
          /\ probeOrder'[entry] = probeOrder[entry]
      BY <1>1, <1>3, <1>5, <1>6, <2>2
    <3>2. /\ probeVenue[entry].status \in {"FILLED", "CANCELED"} /\ probeSize[exit] = probeVenue[entry].filled
          /\ probeIntent[entry] # "ABSENT" /\ probeSize[entry] = RunQuantity
      BY <1>13, <3>1 DEF Chained, entry, exit
    <3>3. Chained(r)'
      BY <1>7, <3>1, <3>2 DEF Chained, entry, exit
    <3>4. probeRun'[r] # "FAILED_NO_EXPOSURE"
      BY <1>1, <1>3, <1>5, <2>2
    <3>5. probeRun'[r] = "FLAT" => s \in ProbeRun!TerminalLeg /\ ~(RunQuantity - o.filled > 0)
      BY <1>1, <1>3, <1>5, <2>2
    <3>6. probeRun'[r] = "FLAT" => v = [status |-> "FILLED", filled |-> RunQuantity] /\ probeVenue[entry].filled = RunQuantity
      <4>. SUFFICES ASSUME probeRun'[r] = "FLAT"
                    PROVE  v = [status |-> "FILLED", filled |-> RunQuantity] /\ probeVenue[entry].filled = RunQuantity
        OBVIOUS
      <4>1. o.filled = v.filled /\ v.filled >= RunQuantity
        BY <1>4, <3>5 DEF Told
      <4>2. probeVenue[entry].filled <= RunQuantity
        BY <1>1, <3>2, RunsFacts
      <4>3. v.filled = RunQuantity /\ probeVenue[entry].filled = RunQuantity /\ probeSize[l] = RunQuantity
        BY <1>4, <1>13, <2>2, <3>2, <4>1, <4>2
      <4>4. v.status = "FILLED"
        BY <1>4, <4>3 DEF VenueIs, ProbeRun!NoOrder
      <4>. QED BY <4>3, <4>4 DEF ProbeRun!Row
    <3>7. RunsSafe(r)'
      BY <3>1, <3>4, <3>6 DEF RunsSafe, entry, exit
    <3>. QED BY <3>3, <3>7
  <2>. QED BY <1>1, <2>1, <2>2
<1>. QED BY <1>8, <1>10, <1>11, <1>12, <1>15 DEF RunsInv

(* What a venue may report of an order of n.                               *)
LEMMA ReportsAre ==
  ASSUME ProbeRun!RunsAssumption, RunsInv, NEW l \in ProbeRun!Legs, NEW v \in ProbeRun!Reports(l), probeSize[l] > 0
  PROVE  v \in ProbeRun!Row /\ VenueIs(v, probeSize[l]) /\ v # ProbeRun!NoOrder /\ v.filled \in Nat
<1>1. probeSize[l] \in Nat /\ probeSize[l] \in 0 .. RunQuantity /\ RunQuantity \in Nat
  BY RunsFacts DEF ProbeRun!Lots
<1>2. \A n \in 0 .. (probeSize[l] - 1) : n \in 0 .. RunQuantity /\ n < probeSize[l] /\ n \in Nat
  BY <1>1
<1>3. 0 \in 0 .. RunQuantity
  BY <1>1
<1>4. CASE v \in {[status |-> "ACCEPTED", filled |-> 0], [status |-> "FILLED", filled |-> probeSize[l]]}
  BY <1>1, <1>3, <1>4 DEF ProbeRun!Row, ProbeRun!Lots, ProbeRun!OrderStatus, ProbeRun!VenueStatus, VenueIs, ProbeRun!NoOrder
<1>5. CASE v \in {[status |-> "CANCELED", filled |-> n] : n \in 0 .. (probeSize[l] - 1)}
  BY <1>2, <1>5 DEF ProbeRun!Row, ProbeRun!Lots, ProbeRun!OrderStatus, ProbeRun!VenueStatus, VenueIs, ProbeRun!NoOrder
<1>. QED BY <1>4, <1>5 DEF ProbeRun!Reports

(* A run is created, with an entry of the whole quantity.                  *)
LEMMA CreateKeeps ==
  ASSUME ProbeRun!RunsAssumption, RunsInv, NEW r \in Runs, ProbeRun!Create(r)
  PROVE  RunsInv'
<1>. DEFINE entry == <<r, "entry">>
            exit == <<r, "exit">>
<1>1. /\ probeRun[r] = "NONE" /\ probeRun' = [probeRun EXCEPT ![r] = "OPENING"]
      /\ probeIntent' = [probeIntent EXCEPT ![entry] = "CREATED"]
      /\ probeSize' = [probeSize EXCEPT ![entry] = RunQuantity]
      /\ UNCHANGED <<probeLeg, probeOrder, probeVenue, probeOwed>>
  BY DEF ProbeRun!Create
<1>2. entry \in ProbeRun!Legs /\ exit \in ProbeRun!Legs /\ exit # entry /\ RunQuantity \in Nat /\ RunQuantity > 0
      /\ RunQuantity \in ProbeRun!Lots
  BY LegsAre DEF ProbeRun!RunsAssumption, ProbeRun!Lots
<1>3. /\ probeIntent[entry] = "ABSENT" /\ probeIntent[exit] = "ABSENT" /\ OrderOf(entry)
      /\ probeVenue[entry] = ProbeRun!NoOrder /\ probeOrder[entry] = ProbeRun!NoOrder /\ entry \notin probeOwed
      /\ probeLeg[entry] = "PLANNED"
  BY <1>1, <1>2 DEF RunsInv, Chained, OrderOf
<1>. HIDE DEF entry, exit
<1>4. RunsTypes'
  BY <1>1, <1>2 DEF RunsInv, RunsTypes, ProbeRun!RunStatus
<1>5. /\ probeIntent'[entry] = "CREATED" /\ probeSize'[entry] = RunQuantity /\ probeRun'[r] = "OPENING"
      /\ \A l \in ProbeRun!Legs : l # entry => probeIntent'[l] = probeIntent[l] /\ probeSize'[l] = probeSize[l]
      /\ \A q \in Runs : q # r => probeRun'[q] = probeRun[q]
  BY <1>1, <1>2 DEF RunsInv, RunsTypes
<1>6. ASSUME NEW l \in ProbeRun!Legs PROVE OrderOf(l)'
  <2>1. OrderOf(l)
    BY DEF RunsInv
  <2>2. CASE l # entry
    BY <1>1, <1>5, <2>1, <2>2 DEF OrderOf
  <2>3. CASE l = entry
    BY <1>1, <1>2, <1>3, <1>5, <2>3 DEF OrderOf, VenueIs, ProbeRun!NoOrder, ProbeRun!TerminalLeg
  <2>. QED BY <2>2, <2>3
<1>7. ASSUME NEW q \in Runs PROVE Chained(q)' /\ RunsSafe(q)'
  <2>1. Chained(q) /\ RunsSafe(q)
    BY DEF RunsInv
  <2>2. CASE q # r
    <3>1. <<q, "entry">> \in ProbeRun!Legs /\ <<q, "exit">> \in ProbeRun!Legs /\ <<q, "entry">> # entry /\ <<q, "exit">> # entry
      BY <2>2, LegsAre DEF entry
    <3>. QED BY <1>1, <1>5, <2>1, <2>2, <3>1 DEF Chained, RunsSafe
  <2>3. CASE q = r
    <3>1. probeIntent'[exit] = "ABSENT"
      BY <1>2, <1>3, <1>5
    <3>. QED BY <1>5, <2>3, <3>1 DEF Chained, RunsSafe, entry, exit
  <2>. QED BY <2>2, <2>3
<1>. QED BY <1>4, <1>6, <1>7 DEF RunsInv

(* A leg learns of its order by a query or by an event.                    *)
LEMMA ReportedKeeps ==
  ASSUME ProbeRun!RunsAssumption, RunsInv, NEW l \in ProbeRun!Legs,
         ProbeRun!Query(l) \/ ProbeRun!Project(l)
  PROVE  RunsInv'
<1>1. /\ OrderOf(l) /\ probeOrder[l] \in ProbeRun!Row /\ probeVenue[l] \in ProbeRun!Row /\ probeSize[l] \in Nat
      /\ RunQuantity \in Nat /\ probeSize[l] <= RunQuantity
  BY RunsFacts DEF ProbeRun!Lots
<1>2. /\ probeVenue[l] # ProbeRun!NoOrder /\ probeIntent[l] # "ABSENT"
      /\ probeVenue' = probeVenue /\ probeOwed' \subseteq probeOwed
  <2>1. CASE ProbeRun!Query(l)
    <3>1. probeVenue[l] # ProbeRun!NoOrder /\ probeOrder[l] # ProbeRun!NoOrder
      BY <2>1 DEF ProbeRun!Query, ProbeRun!NoOrder, ProbeRun!NonTerminalOrderStatuses
    <3>2. probeVenue' = probeVenue /\ probeOwed' \subseteq probeOwed
      BY <2>1 DEF ProbeRun!Query
    <3>. QED BY <1>1, <3>1, <3>2 DEF OrderOf
  <2>2. CASE ProbeRun!Project(l)
    <3>1. l \in probeOwed /\ probeVenue' = probeVenue /\ probeOwed' \subseteq probeOwed
      BY <2>2 DEF ProbeRun!Project
    <3>. QED BY <1>1, <3>1 DEF OrderOf
  <2>. QED BY <2>1, <2>2
<1>3. probeSize[l] > 0 /\ VenueIs(probeVenue[l], probeSize[l]) /\ probeOrder[l].filled <= probeVenue[l].filled
  BY <1>1, <1>2 DEF OrderOf
<1>4. probeVenue' = [probeVenue EXCEPT ![l] = probeVenue[l]]
  BY <1>2 DEF RunsInv, RunsTypes
<1>5. /\ probeOwed' \subseteq ProbeRun!Legs /\ probeOwed' \subseteq probeOwed \cup {l}
      /\ l \in probeOwed' => l \in probeOwed
  BY <1>2 DEF RunsInv, RunsTypes
<1>6. CASE ProbeRun!Query(l)
  <2>. DEFINE o == ProbeRun!GatewayOrder(probeOrder[l], probeVenue[l], probeSize[l])
              s == ProbeRun!GatewayLeg(probeOrder[l], probeVenue[l], probeSize[l])
  <2>1. Told(o, s, probeVenue[l])
    BY <1>1, <1>2, <1>3, GatewayTells
  <2>2. \E a \in BOOLEAN : ProbeRun!Applied(l, o, s, a)
    BY <1>6 DEF ProbeRun!Query, ProbeRun!FromGateway
  <2>. HIDE DEF o, s
  <2>. QED BY <1>1, <1>2, <1>3, <1>4, <1>5, <2>1, <2>2, AdvanceKeeps
<1>7. CASE ProbeRun!Project(l)
  <2>. DEFINE o == ProbeRun!EventOrder(probeOrder[l], probeVenue[l])
              s == ProbeRun!EventLeg(probeOrder[l], probeVenue[l])
  <2>1. Told(o, s, probeVenue[l])
    BY <1>1, <1>2, <1>3, EventTells
  <2>2. ProbeRun!Applied(l, o, s, FALSE)
    BY <1>7 DEF ProbeRun!Project
  <2>. HIDE DEF o, s
  <2>. QED BY <1>1, <1>2, <1>3, <1>4, <1>5, <2>1, <2>2, AdvanceKeeps
<1>. QED BY <1>6, <1>7

(* A run that waits for its exit looks at the row of the order again.      *)
LEMMA RecheckKeeps ==
  ASSUME ProbeRun!RunsAssumption, RunsInv, NEW r \in Runs, ProbeRun!Recheck(r)
  PROVE  RunsInv'
<1>. DEFINE l == <<r, "exit">>
<1>1. /\ l \in ProbeRun!Legs /\ l[1] = r /\ l[2] = "exit"
      /\ probeOrder[l].status # "NONE" /\ ProbeRun!AdvanceExit(r, probeOrder[l], probeLeg[l], TRUE)
      /\ UNCHANGED <<probeLeg, probeOrder, probeVenue, probeOwed>>
  BY LegsAre DEF ProbeRun!Recheck
<1>. HIDE DEF l
<1>2. /\ OrderOf(l) /\ probeOrder[l] \in ProbeRun!Row /\ probeVenue[l] \in ProbeRun!Row /\ probeLeg[l] \in ProbeRun!LegStatus
  BY <1>1, RunsFacts DEF RunsInv, RunsTypes
<1>3. /\ probeIntent[l] # "ABSENT" /\ VenueIs(probeVenue[l], probeSize[l])
      /\ Told(probeOrder[l], probeLeg[l], probeVenue[l])
  BY <1>1, <1>2 DEF OrderOf, ProbeRun!NoOrder, Told
<1>4. /\ probeVenue' = [probeVenue EXCEPT ![l] = probeVenue[l]]
      /\ probeOrder' = [probeOrder EXCEPT ![l] = probeOrder[l]] /\ probeLeg' = [probeLeg EXCEPT ![l] = probeLeg[l]]
      /\ probeOwed' \subseteq ProbeRun!Legs /\ probeOwed' = probeOwed
  BY <1>1 DEF RunsInv, RunsTypes
<1>5. ProbeRun!Applied(l, probeOrder[l], probeLeg[l], TRUE)
  BY <1>1, <1>4 DEF ProbeRun!Applied, ProbeRun!Advance
<1>. QED BY <1>1, <1>2, <1>3, <1>4, <1>5, AdvanceKeeps

(* The order of a leg is sent, and answered or not.                        *)
LEMMA SubmitKeeps ==
  ASSUME ProbeRun!RunsAssumption, RunsInv, NEW l \in ProbeRun!Legs, ProbeRun!Submit(l)
  PROVE  RunsInv'
<1>1. /\ OrderOf(l) /\ probeSize[l] \in Nat /\ RunQuantity \in Nat /\ probeSize[l] <= RunQuantity
      /\ probeOrder[l] = ProbeRun!NoOrder /\ probeIntent[l] # "ABSENT" /\ ProbeRun!NoOrder \in ProbeRun!Row
  BY RunsFacts DEF ProbeRun!Submit, ProbeRun!Lots
<1>2. probeVenue[l] = ProbeRun!NoOrder /\ probeSize[l] > 0 /\ l \notin probeOwed
  BY <1>1 DEF OrderOf
<1>3. CASE /\ ProbeRun!FromGateway(l, [status |-> "REJECTED", filled |-> 0])
           /\ UNCHANGED <<probeVenue, probeOwed>>
  <2>. DEFINE r == [status |-> "REJECTED", filled |-> 0]
              o == ProbeRun!GatewayOrder(probeOrder[l], r, probeSize[l])
              s == ProbeRun!GatewayLeg(probeOrder[l], r, probeSize[l])
  <2>1. Told(o, s, ProbeRun!NoOrder)
    BY <1>1, <1>2, RefusalTells
  <2>2. \E a \in BOOLEAN : ProbeRun!Applied(l, o, s, a)
    BY <1>3 DEF ProbeRun!FromGateway
  <2>3. /\ probeVenue' = [probeVenue EXCEPT ![l] = ProbeRun!NoOrder] /\ VenueIs(ProbeRun!NoOrder, probeSize[l])
        /\ probeOwed' \subseteq ProbeRun!Legs /\ probeOwed' = probeOwed
    BY <1>2, <1>3 DEF RunsInv, RunsTypes, VenueIs
  <2>. HIDE DEF o, s
  <2>. QED BY <1>1, <1>2, <2>1, <2>2, <2>3, AdvanceKeeps
<1>4. ASSUME NEW v \in ProbeRun!Reports(l),
             probeVenue' = [probeVenue EXCEPT ![l] = v], probeOwed' = probeOwed \cup {l}
      PROVE  /\ ProbeRun!FromGateway(l, v) => RunsInv'
             /\ ProbeRun!Unknown(l) => RunsInv'
  <2>1. v \in ProbeRun!Row /\ VenueIs(v, probeSize[l]) /\ v # ProbeRun!NoOrder /\ v.filled \in Nat
    BY <1>2, ReportsAre
  <2>2. probeOwed' \subseteq ProbeRun!Legs /\ \A k \in ProbeRun!Legs : k \in probeOwed' => k \in probeOwed \/ k = l
    BY <1>4 DEF RunsInv, RunsTypes
  <2>3. ASSUME ProbeRun!FromGateway(l, v) PROVE RunsInv'
    <3>. DEFINE o == ProbeRun!GatewayOrder(probeOrder[l], v, probeSize[l])
                s == ProbeRun!GatewayLeg(probeOrder[l], v, probeSize[l])
    <3>1. ProbeRun!NoOrder.filled <= v.filled
      BY <2>1 DEF ProbeRun!NoOrder
    <3>2. Told(o, s, v)
      BY <1>1, <1>2, <2>1, <3>1, GatewayTells
    <3>3. PICK a \in BOOLEAN : ProbeRun!Applied(l, o, s, a)
      BY <2>3 DEF ProbeRun!FromGateway
    <3>4. probeOwed' \subseteq probeOwed \cup {l} /\ v # ProbeRun!NoOrder
      BY <1>4, <2>1
    <3>. HIDE DEF o, s
    <3>5. /\ probeIntent[l] # "ABSENT" /\ v \in ProbeRun!Row /\ VenueIs(v, probeSize[l])
          /\ probeVenue[l] = ProbeRun!NoOrder /\ probeOrder[l] = ProbeRun!NoOrder
          /\ probeVenue' = [probeVenue EXCEPT ![l] = v] /\ probeOwed' \subseteq ProbeRun!Legs
      BY <1>1, <1>2, <1>4, <2>1, <2>2
    <3>. QED BY <3>2, <3>3, <3>4, <3>5, AdvanceKeeps
  <2>4. ASSUME ProbeRun!Unknown(l) PROVE RunsInv'
    <3>1. /\ probeOrder' = [probeOrder EXCEPT ![l].status = "UNKNOWN"] /\ probeLeg' = [probeLeg EXCEPT ![l] = "UNKNOWN"]
          /\ probeIntent' = [probeIntent EXCEPT ![l] = "RECOVERY_REQUIRED"]
          /\ probeRun' = probeRun /\ probeSize' = probeSize
      BY <2>4 DEF ProbeRun!Unknown
    <3>2. [status |-> "UNKNOWN", filled |-> 0] \in ProbeRun!Row
      BY <1>1 DEF ProbeRun!Row, ProbeRun!NoOrder, ProbeRun!OrderStatus
    <3>3. /\ probeOrder'[l] = [status |-> "UNKNOWN", filled |-> 0] /\ probeLeg'[l] = "UNKNOWN"
          /\ probeIntent'[l] = "RECOVERY_REQUIRED" /\ probeVenue'[l] = v
          /\ \A k \in ProbeRun!Legs : k # l =>
                probeOrder'[k] = probeOrder[k] /\ probeLeg'[k] = probeLeg[k] /\ probeIntent'[k] = probeIntent[k]
                /\ probeVenue'[k] = probeVenue[k]
      BY <1>1, <1>4, <3>1 DEF RunsInv, RunsTypes, ProbeRun!NoOrder
    <3>4. RunsTypes'
      <4>1. probeOrder' \in [ProbeRun!Legs -> ProbeRun!Row]
        <5>1. probeOrder' = [k \in ProbeRun!Legs |-> probeOrder'[k]]
          BY <3>1 DEF RunsInv, RunsTypes
        <5>2. \A k \in ProbeRun!Legs : probeOrder'[k] \in ProbeRun!Row
          BY <3>2, <3>3 DEF RunsInv, RunsTypes
        <5>. QED BY <5>1, <5>2
      <4>2. probeLeg' \in [ProbeRun!Legs -> ProbeRun!LegStatus]
        BY <3>1 DEF RunsInv, RunsTypes, ProbeRun!LegStatus
      <4>3. probeVenue' \in [ProbeRun!Legs -> ProbeRun!Row]
        BY <1>4, <2>1 DEF RunsInv, RunsTypes
      <4>. QED BY <2>2, <3>1, <4>1, <4>2, <4>3 DEF RunsInv, RunsTypes
    <3>5. ASSUME NEW k \in ProbeRun!Legs PROVE OrderOf(k)'
      <4>1. CASE k = l
        <5>1. /\ probeVenue'[k] = v /\ probeSize'[k] = probeSize[k] /\ probeOrder'[k] = [status |-> "UNKNOWN", filled |-> 0]
              /\ probeIntent'[k] = "RECOVERY_REQUIRED" /\ probeLeg'[k] = "UNKNOWN"
          BY <3>1, <3>3, <4>1
        <5>. QED BY <1>2, <2>1, <4>1, <5>1 DEF OrderOf, ProbeRun!NoOrder, ProbeRun!TerminalLeg
      <4>2. CASE k # l
        <5>1. OrderOf(k)
          BY DEF RunsInv
        <5>. QED BY <2>2, <3>1, <3>3, <4>2, <5>1 DEF OrderOf
      <4>. QED BY <4>1, <4>2
    <3>6. ASSUME NEW q \in Runs PROVE Chained(q)' /\ RunsSafe(q)'
      <4>1. Chained(q) /\ RunsSafe(q) /\ <<q, "entry">> \in ProbeRun!Legs /\ <<q, "exit">> \in ProbeRun!Legs
        BY LegsAre DEF RunsInv
      <4>2. probeVenue[l].status \notin {"FILLED", "CANCELED"} /\ probeOrder[l].status # "REJECTED"
        BY <1>1, <1>2 DEF ProbeRun!NoOrder
      <4>3. /\ probeIntent'[<<q, "entry">>] = "ABSENT" <=> probeIntent[<<q, "entry">>] = "ABSENT"
            /\ probeIntent'[<<q, "exit">>] = "ABSENT" <=> probeIntent[<<q, "exit">>] = "ABSENT"
        BY <1>1, <3>3, <4>1
      <4>4. /\ <<q, "entry">> = l => /\ probeIntent[<<q, "exit">>] = "ABSENT" /\ probeRun[q] # "FAILED_NO_EXPOSURE" /\ probeRun[q] # "FLAT"
            /\ <<q, "exit">> = l => probeRun[q] # "FLAT"
        BY <1>1, <1>2, <4>1, <4>2 DEF Chained, RunsSafe, ProbeRun!NoOrder
      <4>5. <<q, "entry">> # <<q, "exit">>
        OBVIOUS
      <4>. QED BY <3>1, <3>3, <4>1, <4>3, <4>4, <4>5 DEF Chained, RunsSafe
    <3>. QED BY <3>4, <3>5, <3>6 DEF RunsInv
  <2>. QED BY <2>3, <2>4
<1>. QED BY <1>3, <1>4 DEF ProbeRun!Submit

(* The venue executes what it has accepted.                                *)
LEMMA VenueMovesKeep ==
  ASSUME ProbeRun!RunsAssumption, RunsInv, NEW l \in ProbeRun!Legs, ProbeRun!VenueMoves(l)
  PROVE  RunsInv'
<1>1. PICK v \in ProbeRun!Reports(l) : probeVenue' = [probeVenue EXCEPT ![l] = v]
  BY DEF ProbeRun!VenueMoves
<1>2. /\ probeVenue[l].status = "ACCEPTED" /\ probeOwed' = probeOwed \cup {l}
      /\ UNCHANGED <<probeRun, probeIntent, probeSize, probeLeg, probeOrder>>
  BY DEF ProbeRun!VenueMoves
<1>3. OrderOf(l) /\ probeSize[l] \in Nat /\ probeOrder[l].filled \in Nat
  BY RunsFacts
<1>4. /\ probeIntent[l] # "ABSENT" /\ probeSize[l] > 0 /\ probeLeg[l] \notin ProbeRun!TerminalLeg
      /\ probeVenue[l] # ProbeRun!NoOrder /\ probeOrder[l].filled = 0 /\ probeOrder[l] # ProbeRun!NoOrder
  BY <1>2, <1>3 DEF OrderOf, VenueIs, ProbeRun!NoOrder
<1>5. v \in ProbeRun!Row /\ VenueIs(v, probeSize[l]) /\ v # ProbeRun!NoOrder /\ v.filled \in Nat
  BY <1>4, ReportsAre
<1>6. probeVenue'[l] = v /\ \A k \in ProbeRun!Legs : k # l => probeVenue'[k] = probeVenue[k]
  BY <1>1 DEF RunsInv, RunsTypes
<1>7. RunsTypes'
  BY <1>1, <1>2, <1>5 DEF RunsInv, RunsTypes
<1>8. ASSUME NEW k \in ProbeRun!Legs PROVE OrderOf(k)'
  <2>1. CASE k = l
    BY <1>2, <1>3, <1>4, <1>5, <1>6, <2>1 DEF OrderOf
  <2>2. CASE k # l
    <3>1. OrderOf(k)
      BY DEF RunsInv
    <3>. QED BY <1>2, <1>6, <2>2, <3>1 DEF OrderOf
  <2>. QED BY <2>1, <2>2
<1>9. ASSUME NEW q \in Runs PROVE Chained(q)' /\ RunsSafe(q)'
  <2>1. Chained(q) /\ RunsSafe(q) /\ <<q, "entry">> \in ProbeRun!Legs /\ <<q, "exit">> \in ProbeRun!Legs
    BY LegsAre DEF RunsInv
  <2>2. /\ <<q, "entry">> = l => /\ probeIntent[<<q, "exit">>] = "ABSENT" /\ probeRun[q] # "FAILED_NO_EXPOSURE" /\ probeRun[q] # "FLAT"
        /\ <<q, "exit">> = l => probeRun[q] # "FLAT"
    BY <1>2, <1>4, <2>1 DEF Chained, RunsSafe
  <2>3. <<q, "entry">> # <<q, "exit">>
    OBVIOUS
  <2>. QED BY <1>2, <1>6, <2>1, <2>2, <2>3 DEF Chained, RunsSafe
<1>. QED BY <1>7, <1>8, <1>9 DEF RunsInv

(* No step of a run, of its legs or of the venue disturbs the chain from   *)
(* entry to exit.                                                          *)
LEMMA RunsStep ==
  ASSUME ProbeRun!RunsAssumption, RunsInv, [ProbeRun!Next]_ProbeRun!vars
  PROVE  RunsInv'
<1>1. ASSUME UNCHANGED ProbeRun!vars PROVE RunsInv'
  BY <1>1 DEF ProbeRun!vars, RunsInv, RunsTypes, OrderOf, Chained, RunsSafe
<1>. QED BY <1>1, CreateKeeps, RecheckKeeps, SubmitKeeps, ReportedKeeps, VenueMovesKeep DEF ProbeRun!Next

(* A run that is said to be flat sold what it had bought.                  *)
LEMMA RunsAreSafe ==
  ASSUME ProbeRun!RunsAssumption, RunsInv
  PROVE  ProbeRun!FlatMeansClosed
<1>. SUFFICES ASSUME NEW r \in Runs
     PROVE  /\ probeRun[r] = "FLAT" => ProbeRun!Held(r) = 0 /\ probeVenue[<<r, "exit">>].status = "FILLED"
            /\ probeRun[r] = "FAILED_NO_EXPOSURE" =>
                  probeVenue[<<r, "entry">>] \in {ProbeRun!NoOrder, [status |-> "CANCELED", filled |-> 0]}
  BY DEF ProbeRun!FlatMeansClosed
<1>1. RunsSafe(r) /\ RunQuantity \in Nat
  BY DEF RunsInv, ProbeRun!RunsAssumption
<1>2. RunQuantity - RunQuantity = 0
  BY <1>1
<1>. QED BY <1>1, <1>2 DEF RunsSafe, ProbeRun!Held

-----------------------------------------------------------------------------
(***************************************************************************)
(* Financials.                                                             *)
(***************************************************************************)
CashTypes ==
  /\ price \in [Cash!Orders \X (1..2) -> Nat]
  /\ paid \in [Cash!Orders -> [filled : Int, avg2 : Int, fee : Int]]
  /\ reports \in [Cash!Orders -> Nat] /\ fills \in [Cash!Orders -> Nat]
  /\ outdated \in BOOLEAN

(* The row of an order is, once both channels have told of all of it, what *)
(* the exchange says of the whole order, and before that no more than it.  *)
PaidOf(o) ==
  /\ reports[o] <= Cash!Parts(o) /\ fills[o] <= Cash!Parts(o)
  /\ paid[o].filled <= Cash!Whole(o)
  /\ 0 <= paid[o].fee /\ paid[o].fee <= Cash!After(o, Cash!Parts(o)).fee
  /\ reports[o] = Cash!Parts(o) /\ fills[o] = Cash!Parts(o) => paid[o] = Cash!After(o, Cash!Parts(o))

AllKnown == \A leg \in {"a", "b"}, action \in {"OPEN", "CLOSE"} : Cash!Known(leg, action)

(* A result that is not out of date is what the rows say.                  *)
ResultIs ==
  result.status = "closed" /\ ~outdated /\ AllKnown =>
    /\ result.fees = Cash!FeesTotal
    /\ result.realized2 = (Cash!Spread2("OPEN") - Cash!Spread2("CLOSE")) * Cash!Quantity - 2 * Cash!FeesTotal

CashInv ==
  /\ CashTypes /\ ResultIs
  /\ \A o \in Cash!Orders : PaidOf(o)

(* What the exchange says of the first k parts of an order.                *)
LEMMA PartsAre ==
  /\ \A o \in Cash!Orders : Cash!Parts(o) \in {1, 2} /\ Cash!Size(o) \in {1, 2} /\ Cash!Leg(o) \in {"a", "b"}
  /\ \A o \in Cash!Orders : Cash!Parts(o) = 2 => Cash!Size(o) = 1
BY DEF Cash!Orders, Cash!Parts, Cash!Size, Cash!Leg, Cash!Action

(* A fee is never negative and grows with the parts that were charged.     *)
LEMMA CostGrows ==
  ASSUME NEW leg, NEW raw \in Int, NEW k \in {1, 2}, NEW n \in {1, 2}, k <= n
  PROVE  /\ 0 <= Cash!CommissionCost(leg, k * raw) /\ Cash!CommissionCost(leg, k * raw) <= Cash!CommissionCost(leg, n * raw)
         /\ Cash!CommissionCost(leg, k * raw) \in Int
<1>1. k * raw \in {raw, 2 * raw} /\ n * raw \in {raw, 2 * raw} /\ (k = 2 => n = 2)
  OBVIOUS
<1>2. CASE k = 1 /\ n = 1
  BY <1>2 DEF Cash!CommissionCost
<1>3. CASE k = 1 /\ n = 2
  BY <1>3 DEF Cash!CommissionCost
<1>4. CASE k = 2 /\ n = 2
  BY <1>4 DEF Cash!CommissionCost
<1>. QED BY <1>1, <1>2, <1>3, <1>4

(* What the exchange says after each part of an order, with the types and  *)
(* bounds of its fields.                                                   *)
LEMMA AfterIs ==
  ASSUME Cash!FinancialsAssumption, CashTypes, NEW o \in Cash!Orders, NEW k \in 1 .. Cash!Parts(o)
  PROVE  /\ Cash!After(o, k).filled \in Int /\ Cash!After(o, k).avg2 \in Int /\ Cash!After(o, k).fee \in Int
         /\ Cash!After(o, k).filled <= Cash!Whole(o)
         /\ 0 <= Cash!After(o, k).fee /\ Cash!After(o, k).fee <= Cash!After(o, Cash!Parts(o)).fee
         /\ Cash!After(o, Cash!Parts(o)).filled = Cash!Whole(o)
         /\ Cash!After(o, k) = [filled |-> Cash!After(o, k).filled, avg2 |-> Cash!After(o, k).avg2, fee |-> Cash!After(o, k).fee]
<1>. DEFINE n == Cash!Parts(o)
            s == Cash!Size(o)
<1>1. n \in {1, 2} /\ k \in {1, 2} /\ k <= n /\ s \in {1, 2}
  BY PartsAre
<1>2. price[<<o, 1>>] \in Nat /\ price[<<o, 2>>] \in Nat
  BY DEF CashTypes
<1>3. Cash!Raw(o) \in Int
  BY DEF Cash!Raw, Cash!FinancialsAssumption
<1>. HIDE DEF n, s
<1>4. Cash!Notional(o, k) \in Int
  BY <1>1, <1>2 DEF Cash!Notional, s
<1>5. k * s \in {1, 2, 4} /\ k * s <= n * s /\ n * s \in Int
  BY <1>1
<1>6. (2 * Cash!Notional(o, k)) \div (k * s) \in Int
  <2>. DEFINE x == Cash!Notional(o, k)
              d == k * s
  <2>. HIDE DEF x, d
  <2>1. x \in Int /\ d \in Int /\ d > 0
    BY <1>4, <1>5 DEF x, d
  <2>2. (2 * x) \div d \in Int
    BY <2>1
  <2>. QED BY <2>2 DEF x, d
<1>7. /\ Cash!After(o, k) = [filled |-> k * s, avg2 |-> (2 * Cash!Notional(o, k)) \div (k * s),
                             fee |-> Cash!CommissionCost(Cash!Leg(o), k * Cash!Raw(o))]
      /\ Cash!After(o, n).fee = Cash!CommissionCost(Cash!Leg(o), n * Cash!Raw(o))
      /\ Cash!After(o, n).filled = n * s /\ Cash!Whole(o) = n * s
  BY DEF Cash!After, Cash!Whole, n, s
<1>8. /\ 0 <= Cash!CommissionCost(Cash!Leg(o), k * Cash!Raw(o))
      /\ Cash!CommissionCost(Cash!Leg(o), k * Cash!Raw(o)) <= Cash!CommissionCost(Cash!Leg(o), n * Cash!Raw(o))
      /\ Cash!CommissionCost(Cash!Leg(o), k * Cash!Raw(o)) \in Int
  BY <1>1, <1>3, CostGrows
<1>. QED BY <1>5, <1>6, <1>7, <1>8 DEF n

(* At the start the group is open and nothing has been told.               *)
LEMMA CashInit ==
  ASSUME Cash!FinancialsAssumption, Cash!Init
  PROVE  CashInv
<1>1. CashTypes
  <2>1. PICK p \in [Cash!Chosen -> Prices] :
          price = [f \in Cash!Orders \X (1..2) |-> IF f \in Cash!Chosen THEN p[f] ELSE ClosePrice]
    BY DEF Cash!Init
  <2>2. price \in [Cash!Orders \X (1..2) -> Nat]
    BY <2>1 DEF Cash!FinancialsAssumption
  <2>3. paid \in [Cash!Orders -> [filled : Int, avg2 : Int, fee : Int]]
    BY DEF Cash!Init
  <2>4. reports \in [Cash!Orders -> Nat] /\ fills \in [Cash!Orders -> Nat] /\ outdated \in BOOLEAN
    BY DEF Cash!Init
  <2>. QED BY <2>2, <2>3, <2>4 DEF CashTypes
<1>2. ResultIs
  BY DEF Cash!Init, ResultIs
<1>3. ASSUME NEW o \in Cash!Orders PROVE PaidOf(o)
  <2>1. Cash!Parts(o) \in {1, 2} /\ Cash!Size(o) \in {1, 2} /\ Cash!Parts(o) \in 1 .. Cash!Parts(o)
    BY PartsAre
  <2>2. 0 <= Cash!After(o, Cash!Parts(o)).fee
    BY <1>1, <2>1, AfterIs
  <2>3. 0 <= Cash!Whole(o)
    BY <2>1 DEF Cash!Whole
  <2>. QED BY <2>1, <2>2, <2>3 DEF Cash!Init, PaidOf
<1>. QED BY <1>1, <1>2, <1>3 DEF CashInv

(* A row is written, by whichever channel.                                 *)
LEMMA WriteKeeps ==
  ASSUME Cash!FinancialsAssumption, CashInv, NEW o \in Cash!Orders, NEW k \in 1 .. Cash!Parts(o), NEW f,
         NEW r \in Nat, NEW g \in Nat,
         outdated' = TRUE, price' = price,
         f \in Int, 0 <= f, f <= Cash!After(o, Cash!Parts(o)).fee,
         paid' = [paid EXCEPT ![o] = [filled |-> Cash!Larger(paid[o].filled, Cash!After(o, k).filled),
                                      avg2 |-> Cash!After(o, k).avg2, fee |-> f]],
         reports' = [reports EXCEPT ![o] = r], fills' = [fills EXCEPT ![o] = g],
         r <= Cash!Parts(o), g <= Cash!Parts(o),
         r = Cash!Parts(o) /\ g = Cash!Parts(o) =>
            k = Cash!Parts(o) /\ f = Cash!After(o, Cash!Parts(o)).fee
  PROVE  CashInv'
<1>0. /\ reports' \in [Cash!Orders -> Nat] /\ fills' \in [Cash!Orders -> Nat] /\ reports'[o] = r /\ fills'[o] = g
      /\ \A q \in Cash!Orders : q # o => reports'[q] = reports[q] /\ fills'[q] = fills[q]
  BY DEF CashInv, CashTypes
<1>. DEFINE a == Cash!After(o, k)
            z == Cash!After(o, Cash!Parts(o))
            w == [filled |-> Cash!Larger(paid[o].filled, a.filled), avg2 |-> a.avg2, fee |-> f]
<1>1. /\ a.filled \in Int /\ a.avg2 \in Int /\ a.filled <= Cash!Whole(o) /\ z.filled = Cash!Whole(o)
      /\ a = [filled |-> a.filled, avg2 |-> a.avg2, fee |-> a.fee]
  BY AfterIs DEF CashInv
<1>2. paid[o].filled \in Int /\ paid[o].filled <= Cash!Whole(o) /\ Cash!Whole(o) \in Int
  BY PartsAre DEF CashInv, CashTypes, PaidOf, Cash!Whole
<1>3. \A q, j : Cash!After(q, j)' = Cash!After(q, j)
  BY DEF Cash!After, Cash!Notional
<1>4. k = Cash!Parts(o) => a = z
  OBVIOUS
<1>. HIDE DEF a, z
<1>5. /\ w.filled \in Int /\ w.filled <= Cash!Whole(o) /\ w \in [filled : Int, avg2 : Int, fee : Int]
      /\ a.filled = Cash!Whole(o) => w.filled = Cash!Whole(o)
  BY <1>1, <1>2 DEF Cash!Larger
<1>6. paid'[o] = w /\ \A q \in Cash!Orders : q # o => paid'[q] = paid[q]
  BY DEF CashInv, CashTypes, a
<1>7. paid' \in [Cash!Orders -> [filled : Int, avg2 : Int, fee : Int]]
  BY <1>5 DEF CashInv, CashTypes, a
<1>8. CashTypes' /\ ResultIs'
  BY <1>0, <1>7 DEF CashInv, CashTypes, ResultIs
<1>9. ASSUME reports'[o] = Cash!Parts(o) /\ fills'[o] = Cash!Parts(o) PROVE w = z
  <2>1. a = z /\ f = z.fee
    BY <1>0, <1>4, <1>9 DEF z
  <2>. QED BY <1>1, <1>5, <2>1
<1>10. ASSUME NEW q \in Cash!Orders PROVE PaidOf(q)'
  <2>1. CASE q = o
    BY <1>0, <1>3, <1>5, <1>6, <1>9, <2>1 DEF PaidOf, z
  <2>2. CASE q # o
    BY <1>0, <1>3, <1>6, <2>2 DEF PaidOf, CashInv
  <2>. QED BY <2>1, <2>2
<1>. QED BY <1>8, <1>10 DEF CashInv

(* A report, a fill, an answer or a batch writes a row that says no more   *)
(* than the exchange does.                                                 *)
LEMMA ChannelKeeps ==
  ASSUME Cash!FinancialsAssumption, ~LateAnswers, CashInv, NEW o \in Cash!Orders,
         Cash!Report(o) \/ Cash!Fill(o) \/ Cash!Answer(o) \/ Cash!Batch(o)
  PROVE  CashInv'
<1>1. /\ Cash!Parts(o) \in {1, 2} /\ PaidOf(o) /\ paid \in [Cash!Orders -> [filled : Int, avg2 : Int, fee : Int]]
      /\ reports \in [Cash!Orders -> Nat] /\ fills \in [Cash!Orders -> Nat] /\ reports[o] \in Nat /\ fills[o] \in Nat
      /\ paid[o].fee \in Int
  BY PartsAre DEF CashInv, CashTypes
<1>. DEFINE n == Cash!Parts(o)
            z == Cash!After(o, n)
<1>2. \A k \in 1 .. n : /\ Cash!After(o, k).fee \in Int /\ 0 <= Cash!After(o, k).fee /\ Cash!After(o, k).fee <= z.fee
                        /\ Cash!After(o, k) = [filled |-> Cash!After(o, k).filled, avg2 |-> Cash!After(o, k).avg2, fee |-> Cash!After(o, k).fee]
  BY AfterIs DEF CashInv
<1>3. z.fee \in Int /\ 0 <= paid[o].fee /\ paid[o].fee <= z.fee /\ reports[o] <= n /\ fills[o] <= n /\ n \in 1 .. n
  BY <1>1, <1>2 DEF PaidOf
<1>. HIDE DEF n, z
<1>4. CASE Cash!Report(o)
  <2>. DEFINE k == reports[o] + 1
              f == Cash!Larger(paid[o].fee, Cash!After(o, k).fee)
  <2>1. /\ reports[o] < n /\ reports' = [reports EXCEPT ![o] = k] /\ price' = price /\ fills' = fills /\ outdated' = TRUE
        /\ paid' = [paid EXCEPT ![o] = [filled |-> Cash!Larger(paid[o].filled, Cash!After(o, k).filled), avg2 |-> Cash!After(o, k).avg2, fee |-> f]]
    BY <1>4 DEF Cash!Report, Cash!Projected, n
  <2>2. k \in 1 .. n /\ k \in Nat
    BY <1>1, <1>3, <2>1 DEF n
  <2>. HIDE DEF k
  <2>3. f \in Int /\ 0 <= f /\ f <= z.fee /\ (k = n => f = z.fee)
    BY <1>1, <1>2, <1>3, <2>2 DEF Cash!Larger, z
  <2>4. fills' = [fills EXCEPT ![o] = fills[o]] /\ k <= n
    BY <1>1, <2>1, <2>2
  <2>. HIDE DEF f
  <2>. QED BY <1>1, <1>3, <2>1, <2>2, <2>3, <2>4, WriteKeeps DEF n, z
<1>5. CASE Cash!Fill(o)
  <2>. DEFINE k == fills[o] + 1
              f == Cash!After(o, k).fee
  <2>1. /\ fills[o] < n /\ fills' = [fills EXCEPT ![o] = k] /\ price' = price /\ reports' = reports /\ outdated' = TRUE
        /\ paid' = [paid EXCEPT ![o] = [Cash!After(o, k) EXCEPT !.filled = Cash!Larger(paid[o].filled, Cash!After(o, k).filled)]]
    BY <1>5 DEF Cash!Fill, Cash!Projected, n
  <2>2. k \in 1 .. n /\ k \in Nat
    BY <1>1, <1>3, <2>1 DEF n
  <2>. HIDE DEF k
  <2>3. f \in Int /\ 0 <= f /\ f <= z.fee /\ (k = n => f = z.fee)
    BY <1>2, <2>2 DEF z
  <2>4. reports' = [reports EXCEPT ![o] = reports[o]] /\ k <= n
    BY <1>1, <2>1, <2>2
  <2>5. [Cash!After(o, k) EXCEPT !.filled = Cash!Larger(paid[o].filled, Cash!After(o, k).filled)]
        = [filled |-> Cash!Larger(paid[o].filled, Cash!After(o, k).filled), avg2 |-> Cash!After(o, k).avg2, fee |-> f]
    BY <1>2, <2>2
  <2>. HIDE DEF f
  <2>. QED BY <1>1, <1>3, <2>1, <2>2, <2>3, <2>4, <2>5, WriteKeeps DEF n, z
<1>6. CASE Cash!Answer(o)
  <2>1. PICK k \in 1 .. n :
          /\ k >= Cash!Larger(reports[o], fills[o])
          /\ outdated' = TRUE
          /\ paid' = [paid EXCEPT ![o] = [filled |-> Cash!Larger(paid[o].filled, Cash!After(o, k).filled), avg2 |-> Cash!After(o, k).avg2,
                                          fee |-> IF Cash!After(o, k).fee > 0 THEN Cash!After(o, k).fee ELSE paid[o].fee]]
    BY <1>6 DEF Cash!Answer, Cash!Projected, n
  <2>2. price' = price /\ reports' = reports /\ fills' = fills
    BY <1>6 DEF Cash!Answer
  <2>. DEFINE f == IF Cash!After(o, k).fee > 0 THEN Cash!After(o, k).fee ELSE paid[o].fee
  <2>3. f \in Int /\ 0 <= f /\ f <= z.fee /\ (k = n => f = z.fee)
    BY <1>1, <1>2, <1>3 DEF z
  <2>4. reports[o] = n => k = n
    BY <1>1, <1>3, <2>1 DEF Cash!Larger, n
  <2>. HIDE DEF f
  <2>5. paid' = [paid EXCEPT ![o] = [filled |-> Cash!Larger(paid[o].filled, Cash!After(o, k).filled), avg2 |-> Cash!After(o, k).avg2, fee |-> f]]
    BY <2>1 DEF f
  <2>6. reports' = [reports EXCEPT ![o] = reports[o]] /\ fills' = [fills EXCEPT ![o] = fills[o]]
    BY <1>1, <2>2
  <2>. QED BY <1>1, <1>3, <2>1, <2>2, <2>3, <2>4, <2>5, <2>6, WriteKeeps DEF n, z
<1>7. CASE Cash!Batch(o)
  <2>1. /\ reports' = [reports EXCEPT ![o] = 1] /\ fills' = [fills EXCEPT ![o] = 1] /\ price' = price /\ outdated' = TRUE
        /\ paid' = [paid EXCEPT ![o] = Cash!After(o, 1)] /\ o \in Batched /\ reports[o] = 0
    BY <1>7 DEF Cash!Batch, Cash!Projected
  <2>2. n = 1
    BY <2>1 DEF Cash!FinancialsAssumption, Cash!Parts, n
  <2>3. paid[o].filled <= Cash!After(o, 1).filled /\ paid[o].filled \in Int /\ Cash!After(o, 1).filled \in Int
    BY <1>1, <2>2, AfterIs DEF PaidOf, CashInv, n
  <2>4. Cash!Larger(paid[o].filled, Cash!After(o, 1).filled) = Cash!After(o, 1).filled
    BY <2>3 DEF Cash!Larger
  <2>. DEFINE f == Cash!After(o, 1).fee
  <2>5. Cash!After(o, 1) = [filled |-> Cash!Larger(paid[o].filled, Cash!After(o, 1).filled), avg2 |-> Cash!After(o, 1).avg2, fee |-> f]
    BY <1>2, <2>2, <2>4
  <2>6. f \in Int /\ 0 <= f /\ f <= z.fee /\ f = z.fee
    BY <1>2, <2>2 DEF z
  <2>7. 1 \in 1 .. n /\ 1 \in Nat /\ 1 <= n
    BY <2>2
  <2>8. paid' = [paid EXCEPT ![o] = [filled |-> Cash!Larger(paid[o].filled, Cash!After(o, 1).filled), avg2 |-> Cash!After(o, 1).avg2, fee |-> f]]
    BY <2>1, <2>5
  <2>. HIDE DEF f
  <2>. QED BY <2>1, <2>2, <2>6, <2>7, <2>8, WriteKeeps DEF n, z
<1>. QED BY <1>4, <1>5, <1>6, <1>7

(* The average over the orders of a set is a function of the set and rows. *)
Total(S, f) == IF S = {} THEN 0
               ELSE LET o == CHOOSE x \in S : TRUE
                    IN f[o] + (IF S = {o} THEN 0 ELSE f[CHOOSE x \in S \ {o} : TRUE])
Average2(S, rows) == Total(S, [o \in S |-> rows[o].filled * rows[o].avg2]) \div Total(S, [o \in S |-> rows[o].filled])

(* The average the code computes over the orders of a leg is that of the   *)
(* rows, before and after a step.                                          *)
LEMMA AverageIs ==
  /\ \A leg, action : Cash!Weighted2(leg, action) = Average2(Cash!With(leg, action), paid)
  /\ \A leg, action : Cash!Weighted2(leg, action)' = Average2(Cash!With(leg, action)', paid')
<1>1. ASSUME NEW leg, NEW action PROVE Cash!Weighted2(leg, action) = Average2(Cash!With(leg, action), paid)
  BY <1>1 DEF Cash!Weighted2, Cash!Sum, Average2, Total
<1>2. ASSUME NEW leg, NEW action PROVE Cash!Weighted2(leg, action)' = Average2(Cash!With(leg, action)', paid')
  BY <1>2 DEF Cash!Weighted2, Cash!Sum, Average2, Total
<1>. QED BY <1>1, <1>2

(* The sums and averages are of the rows alone.                            *)
LEMMA RowsSayIt ==
  ASSUME paid' = paid
  PROVE  /\ Cash!FeesTotal' = Cash!FeesTotal /\ Cash!Spread2("OPEN")' = Cash!Spread2("OPEN")
         /\ Cash!Spread2("CLOSE")' = Cash!Spread2("CLOSE") /\ (AllKnown' <=> AllKnown)
<1>1. Cash!FeesTotal' = Cash!FeesTotal
  BY DEF Cash!FeesTotal
<1>2. \A leg, action : Cash!With(leg, action)' = Cash!With(leg, action)
  BY DEF Cash!With
<1>3. AllKnown' <=> AllKnown
  BY <1>2 DEF AllKnown, Cash!Known
<1>4. \A leg, action : Cash!Weighted2(leg, action)' = Cash!Weighted2(leg, action)
  BY <1>2, AverageIs
<1>. QED BY <1>1, <1>3, <1>4 DEF Cash!Spread2

(* The result is computed from the rows, which stay as they are.           *)
LEMMA ResultKeeps ==
  ASSUME Cash!FinancialsAssumption, CashInv, Cash!Close \/ Cash!Reconcile
  PROVE  CashInv'
<1>1. result' = Cash!Refreshed(result) /\ outdated' = FALSE /\ UNCHANGED <<price, paid, reports, fills>>
  BY DEF Cash!Close, Cash!Reconcile
<1>2. /\ Cash!FeesTotal' = Cash!FeesTotal /\ Cash!Spread2("OPEN")' = Cash!Spread2("OPEN")
      /\ Cash!Spread2("CLOSE")' = Cash!Spread2("CLOSE") /\ (AllKnown' <=> AllKnown)
  BY <1>1, RowsSayIt
<1>3. AllKnown => /\ result'.fees = Cash!FeesTotal
                  /\ result'.realized2 = (Cash!Spread2("OPEN") - Cash!Spread2("CLOSE")) * Cash!Quantity - 2 * Cash!FeesTotal
  BY <1>1 DEF Cash!Refreshed, AllKnown
<1>4. ResultIs'
  <2>1. Cash!Quantity' = Cash!Quantity
    BY DEF Cash!Quantity
  <2>. QED BY <1>2, <1>3, <2>1 DEF ResultIs
<1>5. CashTypes' /\ \A o \in Cash!Orders : PaidOf(o)'
  BY <1>1 DEF CashInv, CashTypes, PaidOf, Cash!After, Cash!Notional
<1>. QED BY <1>4, <1>5 DEF CashInv

(* No step of the channels, and neither the closing nor its refresh,       *)
(* disturbs what the rows say.                                             *)
LEMMA CashStep ==
  ASSUME Cash!FinancialsAssumption, ~LateAnswers, CashInv, [Cash!Next]_Cash!vars
  PROVE  CashInv'
<1>1. ASSUME UNCHANGED Cash!vars PROVE CashInv'
  <2>1. UNCHANGED <<price, paid, reports, fills, result, outdated>>
    BY <1>1 DEF Cash!vars
  <2>2. CashTypes' /\ \A o \in Cash!Orders : PaidOf(o)'
    BY <2>1 DEF CashInv, CashTypes, PaidOf, Cash!After, Cash!Notional
  <2>3. ResultIs'
    BY <2>1, RowsSayIt DEF CashInv, ResultIs, Cash!Quantity
  <2>. QED BY <2>2, <2>3 DEF CashInv
<1>. QED BY <1>1, ChannelKeeps, ResultKeeps DEF Cash!Next

(* What the result says once all reports are in.                           *)
LEMMA AverageOfTwo ==
  ASSUME NEW m, NEW n, m # n, NEW rows,
         rows[m].filled \in Int, rows[n].filled \in Int, rows[m].avg2 \in Int, rows[n].avg2 \in Int
  PROVE  Average2({m, n}, rows)
         = (rows[m].filled * rows[m].avg2 + rows[n].filled * rows[n].avg2) \div (rows[m].filled + rows[n].filled)
<1>. DEFINE S == {m, n}
            first == CHOOSE x \in S : TRUE
            other == CHOOSE x \in S \ {first} : TRUE
<1>1. S # {} /\ first \in S
  OBVIOUS
<1>2. S \ {first} # {} /\ S # {first}
  <2>1. PICK x \in S : x # first
    <3>. HIDE DEF first
    <3>. QED BY <1>1
  <2>. HIDE DEF first
  <2>. QED BY <2>1
<1>3. other \in S \ {first}
  BY <1>2
<1>4. (first = m /\ other = n) \/ (first = n /\ other = m)
  BY <1>1, <1>3
<1>. HIDE DEF first, other
<1>5. ASSUME NEW f, f[m] \in Int, f[n] \in Int PROVE Total(S, f) = f[m] + f[n]
  <2>1. Total(S, f) = f[first] + f[other]
    BY <1>1, <1>2 DEF Total, first, other
  <2>. QED BY <1>4, <1>5, <2>1
<1>. DEFINE worth == [o \in S |-> rows[o].filled * rows[o].avg2]
            much == [o \in S |-> rows[o].filled]
<1>6. worth[m] = rows[m].filled * rows[m].avg2 /\ worth[n] = rows[n].filled * rows[n].avg2
  OBVIOUS
<1>7. much[m] = rows[m].filled /\ much[n] = rows[n].filled
  OBVIOUS
<1>8. worth[m] \in Int /\ worth[n] \in Int
  BY <1>6
<1>9. Average2(S, rows) = Total(S, worth) \div Total(S, much)
  BY DEF Average2
<1>. HIDE DEF worth, much, S
<1>10. Total(S, worth) = worth[m] + worth[n]
  BY <1>5, <1>8
<1>11. Total(S, much) = much[m] + much[n]
  BY <1>5, <1>7
<1>. QED BY <1>6, <1>7, <1>9, <1>10, <1>11 DEF S

(* Of one order the average is its own.                                    *)
LEMMA AverageOfOne ==
  ASSUME NEW m, NEW rows, rows[m].filled \in Int, rows[m].avg2 \in Int
  PROVE  Average2({m}, rows) = (rows[m].filled * rows[m].avg2) \div rows[m].filled
<1>1. (CHOOSE x \in {m} : TRUE) = m /\ {m} # {}
  OBVIOUS
<1>2. ASSUME NEW f, f[m] \in Int PROVE Total({m}, f) = f[m]
  BY <1>1, <1>2 DEF Total
<1>. DEFINE worth == [o \in {m} |-> rows[o].filled * rows[o].avg2]
            much == [o \in {m} |-> rows[o].filled]
<1>3. worth[m] = rows[m].filled * rows[m].avg2 /\ much[m] = rows[m].filled /\ worth[m] \in Int
  OBVIOUS
<1>4. Average2({m}, rows) = Total({m}, worth) \div Total({m}, much)
  BY DEF Average2
<1>. HIDE DEF worth, much
<1>5. Total({m}, worth) = worth[m] /\ Total({m}, much) = much[m]
  BY <1>2, <1>3
<1>. QED BY <1>3, <1>4, <1>5

(* The two ways a doubled average is halved.                               *)
LEMMA Halves ==
  /\ \A x \in Int : (2 * x) \div 1 = 2 * x /\ (2 * x) \div 2 = x
OBVIOUS

(* When all reports are in, a result that is not out of date is the cash   *)
(* that was moved.                                                         *)
LEMMA CashMeans ==
  ASSUME Cash!FinancialsAssumption, CashInv
  PROVE  Cash!RealizedIsCash
<1>. SUFFICES ASSUME Cash!AllIn, result.status = "closed", ~outdated
     PROVE  result.fees = Cash!Charged /\ result.realized2 = Cash!Cash2 - 2 * Cash!Charged
  BY DEF Cash!RealizedIsCash
<1>. DEFINE p == price[<<"maker_a", 1>>]
            q == price[<<"market_a", 1>>]
            b1 == price[<<"open_b", 1>>]
            b2 == price[<<"open_b", 2>>]
            ca == price[<<"close_a", 1>>]
            cb == price[<<"close_b", 1>>]
<1>1. p \in Int /\ q \in Int /\ b1 \in Int /\ b2 \in Int /\ ca \in Int /\ cb \in Int
  BY DEF CashInv, CashTypes, Cash!Orders
<1>2. \A o \in Cash!Orders : paid[o] = Cash!After(o, Cash!Parts(o))
  BY DEF CashInv, PaidOf, Cash!AllIn
<1>. HIDE DEF p, q, b1, b2, ca, cb
<1>3. /\ Cash!Notional("maker_a", 1) = p /\ Cash!Notional("market_a", 1) = q
      /\ Cash!Notional("open_b", 2) = b1 + b2
      /\ Cash!Notional("close_a", 1) = 2 * ca /\ Cash!Notional("close_b", 1) = 2 * cb
  BY <1>1 DEF Cash!Notional, Cash!Size, Cash!Action, p, q, b1, b2, ca, cb
<1>4. paid["maker_a"].filled = 1 /\ paid["maker_a"].avg2 = 2 * p
  <2>1. paid["maker_a"] = Cash!After("maker_a", 1)
    BY <1>2 DEF Cash!Orders, Cash!Parts
  <2>2. paid["maker_a"].filled = 1 * 1 /\ paid["maker_a"].avg2 = (2 * p) \div (1 * 1)
    BY <1>3, <2>1 DEF Cash!After, Cash!Size, Cash!Action
  <2>. QED BY <1>1, <2>2, Halves
<1>5. paid["market_a"].filled = 1 /\ paid["market_a"].avg2 = 2 * q
  <2>1. paid["market_a"] = Cash!After("market_a", 1)
    BY <1>2 DEF Cash!Orders, Cash!Parts
  <2>2. paid["market_a"].filled = 1 * 1 /\ paid["market_a"].avg2 = (2 * q) \div (1 * 1)
    BY <1>3, <2>1 DEF Cash!After, Cash!Size, Cash!Action
  <2>. QED BY <1>1, <2>2, Halves
<1>6. paid["open_b"].filled = 2 /\ paid["open_b"].avg2 = b1 + b2
  <2>1. paid["open_b"] = Cash!After("open_b", 2)
    BY <1>2 DEF Cash!Orders, Cash!Parts
  <2>2. paid["open_b"].filled = 2 * 1 /\ paid["open_b"].avg2 = (2 * (b1 + b2)) \div (2 * 1)
    BY <1>3, <2>1 DEF Cash!After, Cash!Size, Cash!Action
  <2>. QED BY <1>1, <2>2, Halves
<1>7. paid["close_a"].filled = 2 /\ paid["close_a"].avg2 = 2 * ca
  <2>1. paid["close_a"] = Cash!After("close_a", 1)
    BY <1>2 DEF Cash!Orders, Cash!Parts
  <2>2. paid["close_a"].filled = 1 * 2 /\ paid["close_a"].avg2 = (2 * (2 * ca)) \div (1 * 2)
    BY <1>3, <2>1 DEF Cash!After, Cash!Size, Cash!Action
  <2>. QED BY <1>1, <2>2, Halves
<1>8. paid["close_b"].filled = 2 /\ paid["close_b"].avg2 = 2 * cb
  <2>1. paid["close_b"] = Cash!After("close_b", 1)
    BY <1>2 DEF Cash!Orders, Cash!Parts
  <2>2. paid["close_b"].filled = 1 * 2 /\ paid["close_b"].avg2 = (2 * (2 * cb)) \div (1 * 2)
    BY <1>3, <2>1 DEF Cash!After, Cash!Size, Cash!Action
  <2>. QED BY <1>1, <2>2, Halves
<1>9. /\ Cash!With("a", "OPEN") = {"maker_a", "market_a"} /\ Cash!With("b", "OPEN") = {"open_b"}
      /\ Cash!With("a", "CLOSE") = {"close_a"} /\ Cash!With("b", "CLOSE") = {"close_b"}
  BY <1>4, <1>5, <1>6, <1>7, <1>8 DEF Cash!With, Cash!Orders, Cash!Leg, Cash!Action
<1>10. Cash!Weighted2("a", "OPEN") = p + q
  <2>1. Cash!Weighted2("a", "OPEN") = Average2({"maker_a", "market_a"}, paid)
    BY <1>9, AverageIs
  <2>2. Average2({"maker_a", "market_a"}, paid) = (1 * (2 * p) + 1 * (2 * q)) \div (1 + 1)
    <3>1. /\ "maker_a" # "market_a"
          /\ paid["maker_a"].filled \in Int /\ paid["market_a"].filled \in Int
          /\ paid["maker_a"].avg2 \in Int /\ paid["market_a"].avg2 \in Int
      BY <1>1, <1>4, <1>5
    <3>2. Average2({"maker_a", "market_a"}, paid)
          = (paid["maker_a"].filled * paid["maker_a"].avg2 + paid["market_a"].filled * paid["market_a"].avg2)
            \div (paid["maker_a"].filled + paid["market_a"].filled)
      BY <3>1, AverageOfTwo
    <3>. QED BY <1>4, <1>5, <3>2
  <2>3. 1 * (2 * p) + 1 * (2 * q) = 2 * (p + q) /\ p + q \in Int
    BY <1>1
  <2>. QED BY <2>1, <2>2, <2>3, Halves
<1>11. Cash!Weighted2("b", "OPEN") = b1 + b2
  <2>1. Cash!Weighted2("b", "OPEN") = (2 * (b1 + b2)) \div 2
    BY <1>1, <1>6, <1>9, AverageIs, AverageOfOne
  <2>. QED BY <1>1, <2>1, Halves
<1>12. Cash!Weighted2("a", "CLOSE") = 2 * ca
  <2>1. Cash!Weighted2("a", "CLOSE") = (2 * (2 * ca)) \div 2
    <3>1. paid["close_a"].filled \in Int /\ paid["close_a"].avg2 \in Int
      BY <1>1, <1>7
    <3>2. Average2({"close_a"}, paid) = (paid["close_a"].filled * paid["close_a"].avg2) \div paid["close_a"].filled
      BY <3>1, AverageOfOne
    <3>. QED BY <1>7, <1>9, <3>2, AverageIs
  <2>. QED BY <1>1, <2>1, Halves
<1>13. Cash!Weighted2("b", "CLOSE") = 2 * cb
  <2>1. Cash!Weighted2("b", "CLOSE") = (2 * (2 * cb)) \div 2
    <3>1. paid["close_b"].filled \in Int /\ paid["close_b"].avg2 \in Int
      BY <1>1, <1>8
    <3>2. Average2({"close_b"}, paid) = (paid["close_b"].filled * paid["close_b"].avg2) \div paid["close_b"].filled
      BY <3>1, AverageOfOne
    <3>. QED BY <1>8, <1>9, <3>2, AverageIs
  <2>. QED BY <1>1, <2>1, Halves
<1>14. AllKnown
  BY <1>9 DEF AllKnown, Cash!Known
<1>15. /\ result.fees = Cash!FeesTotal
       /\ result.realized2 = (Cash!Spread2("OPEN") - Cash!Spread2("CLOSE")) * 2 - 2 * Cash!FeesTotal
  BY <1>14 DEF CashInv, ResultIs, Cash!Quantity
<1>16. Cash!FeesTotal = Cash!Charged
  <2>1. /\ paid["maker_a"].fee = Cash!CommissionCost("a", 1 * RawFee)
        /\ paid["market_a"].fee = Cash!CommissionCost("a", 1 * RawFee)
        /\ paid["close_a"].fee = Cash!CommissionCost("a", 1 * RawFee)
        /\ paid["open_b"].fee = Cash!CommissionCost("b", 2 * (-Mt5Charge))
        /\ paid["close_b"].fee = Cash!CommissionCost("b", 1 * (-Mt5Charge))
    BY <1>2 DEF Cash!Orders, Cash!Parts, Cash!After, Cash!Leg, Cash!Raw
  <2>2. RawFee \in Int /\ Mt5Charge \in Int
    BY DEF Cash!FinancialsAssumption
  <2>. QED BY <2>1, <2>2 DEF Cash!FeesTotal, Cash!Charged, Cash!CommissionCost
<1>17. Cash!Cash2 = 2 * ((b1 + b2) + 2 * ca - p - q - 2 * cb)
  BY <1>1, <1>3 DEF Cash!Cash2
<1>18. Cash!Spread2("OPEN") = (b1 + b2) - (p + q) /\ Cash!Spread2("CLOSE") = 2 * cb - 2 * ca
  BY <1>10, <1>11, <1>12, <1>13 DEF Cash!Spread2
<1>19. (Cash!Spread2("OPEN") - Cash!Spread2("CLOSE")) * 2 = Cash!Cash2
  BY <1>1, <1>17, <1>18
<1>. QED BY <1>15, <1>16, <1>19

-----------------------------------------------------------------------------
(***************************************************************************)
(* HybridProbe.                                                            *)
(***************************************************************************)
EntryOf(p) == exchange[<<p, "entry">>]
FlattenOf(p) == exchange[<<p, "flatten">>]
HeardEntry(p) == heard[<<p, "entry">>]
HeardFlatten(p) == heard[<<p, "flatten">>]
Snapshots == [status : Hybrid!Status, filled : Nat]
Refused == [status |-> "REJECTED", filled |-> 0]

HybridTypes ==
  /\ lock \in Probes \cup {Hybrid!NoOne}
  /\ stage \in [Probes -> Hybrid!Stage] /\ probeRow \in [Probes -> Hybrid!RowStatus]
  /\ exchange \in [Hybrid!Orders -> Snapshots] /\ heard \in [Hybrid!Orders -> Snapshots]
  /\ opened \in [Probes -> Int] /\ position \in Int /\ entries \in [Probes -> Nat]
  /\ pc \in Hybrid!Steps /\ snapshot \in Snapshots /\ entered \in Nat /\ expired \in BOOLEAN

IsTrue(o, s) == s.status \in Hybrid!Terminal => s = o \/ (s = Refused /\ o = Hybrid!Nothing)
EntryIsOver(p) == EntryOf(p).status \in Hybrid!Terminal /\ EntryOf(p).filled > 0
Under(p) == stage[p] \notin Hybrid!Final \cup {"NONE"}

(* What the thread knows where it is.                                      *)
ThreadInv ==
  /\ pc # "idle" => probe \in Probes
  /\ pc = "check" => stage[probe] = "NONE"
  /\ pc = "release" => stage[probe] \in Hybrid!Final
  /\ pc \notin {"idle", "check", "release"} => Under(probe)
  /\ pc \in {"save entry", "wait entry", "cancel", "wait cancel"} => IsTrue(EntryOf(probe), snapshot)
  /\ pc \in {"flatten", "save flatten", "wait flatten", "finish"} =>
       EntryIsOver(probe) /\ entered = EntryOf(probe).filled
  /\ pc \in {"save flatten", "wait flatten"} =>
       (snapshot.status \in Hybrid!Terminal /\ snapshot.filled > 0 => snapshot = FlattenOf(probe))
  /\ pc = "wait flatten" =>
       (snapshot.status \notin Hybrid!Terminal /\ HeardFlatten(probe).status \in Hybrid!Terminal
          => HeardFlatten(probe) = FlattenOf(probe))
  /\ pc = "finish" => FlattenOf(probe).status \in Hybrid!Terminal

(* What the venue, the saved state and the waiter know of a probe.         *)
ProbeInv(p) ==
  /\ stage[p] = "NONE" => EntryOf(p) = Hybrid!Nothing
  /\ stage[p] = "PREPARED" /\ ~(pc = "save entry" /\ probe = p) => EntryOf(p) = Hybrid!Nothing
  /\ entries[p] = IF EntryOf(p) = Hybrid!Nothing THEN 0 ELSE 1
  /\ FlattenOf(p) # Hybrid!Nothing => EntryIsOver(p)
  /\ FlattenOf(p) = Hybrid!Nothing => opened[p] = EntryOf(p).filled
  /\ IsTrue(EntryOf(p), HeardEntry(p))
  /\ HeardEntry(p).status \in Hybrid!Terminal /\ EntryOf(p) = Hybrid!Nothing =>
       stage[p] \in Hybrid!Final \/ (pc = "wait entry" /\ probe = p /\ snapshot.status = "REJECTED")
  /\ probeRow[p] \in Hybrid!Final => stage[p] \in Hybrid!Final

Resting(p) == EntryOf(p).status = "ACCEPTED" \/ FlattenOf(p).status = "ACCEPTED"

(* Without an expired lock only its owner has a position or an order at    *)
(* work.                                                                   *)
LockInv(p) ==
  /\ Under(p) => lock = p
  /\ stage[p] \in Hybrid!Final => opened[p] = 0 /\ ~Resting(p)
  /\ lock # p => opened[p] = 0
  /\ lock = p => position = opened[p]

LocksInv ==
  ~expired =>
    /\ pc = "check" => lock = probe
    /\ \A p \in Probes : LockInv(p)
    /\ lock = Hybrid!NoOne => position = 0

HybridInv ==
  /\ HybridTypes /\ ThreadInv
  /\ \A p \in Probes : ProbeInv(p)
  /\ LocksInv

-----------------------------------------------------------------------------
(* At the start no probe has a lock, a state or an order.                  *)
LEMMA HybridInit ==
  ASSUME Hybrid!ProbeAssumption, Hybrid!Init
  PROVE  HybridInv
<1>1. /\ lock = Hybrid!NoOne /\ stage = [p \in Probes |-> "NONE"] /\ probeRow = stage
      /\ exchange = [o \in Hybrid!Orders |-> Hybrid!Nothing] /\ heard = exchange
      /\ opened = [p \in Probes |-> 0] /\ position = 0 /\ entries = opened
      /\ pc = "idle" /\ snapshot = Hybrid!Nothing /\ entered = 0 /\ expired = FALSE
  BY DEF Hybrid!Init
<1>2. Hybrid!Nothing \in Snapshots /\ Hybrid!Nothing.status = "NONE" /\ Hybrid!Nothing.filled = 0
  BY DEF Snapshots, Hybrid!Nothing, Hybrid!Status
<1>3. HybridTypes
  <2>1. stage \in [Probes -> Hybrid!Stage] /\ probeRow \in [Probes -> Hybrid!RowStatus]
    BY <1>1 DEF Hybrid!Stage, Hybrid!RowStatus
  <2>2. exchange \in [Hybrid!Orders -> Snapshots] /\ heard \in [Hybrid!Orders -> Snapshots]
    BY <1>1, <1>2
  <2>3. opened \in [Probes -> Int] /\ position \in Int /\ entries \in [Probes -> Nat]
    BY <1>1
  <2>4. pc \in Hybrid!Steps /\ snapshot \in Snapshots /\ entered \in Nat /\ expired \in BOOLEAN /\ lock = Hybrid!NoOne
    BY <1>1, <1>2 DEF Hybrid!Steps
  <2>. QED BY <2>1, <2>2, <2>3, <2>4 DEF HybridTypes
<1>4. ThreadInv
  BY <1>1 DEF ThreadInv
<1>5. ASSUME NEW p \in Probes
      PROVE  /\ EntryOf(p) = Hybrid!Nothing /\ FlattenOf(p) = Hybrid!Nothing /\ HeardEntry(p) = Hybrid!Nothing
             /\ stage[p] = "NONE" /\ probeRow[p] = "NONE" /\ opened[p] = 0 /\ entries[p] = 0
  BY <1>1 DEF EntryOf, FlattenOf, HeardEntry, Hybrid!Orders, Hybrid!Sides
<1>6. ASSUME NEW p \in Probes PROVE ProbeInv(p)
  BY <1>1, <1>2, <1>5 DEF ProbeInv, IsTrue, Hybrid!Terminal, Hybrid!Final
<1>7. LocksInv
  BY <1>1, <1>5 DEF LocksInv, LockInv, Under, Hybrid!ProbeAssumption, Hybrid!Final
<1>. QED BY <1>3, <1>4, <1>6, <1>7 DEF HybridInv

(* What nobody changes stays known.                                        *)
LEMMA ThreadStep ==
  ASSUME Hybrid!ProbeAssumption, HybridInv,
         UNCHANGED <<exchange, opened, position, heard, entries>>
  PROVE  /\ \A p \in Probes : EntryOf(p)' = EntryOf(p) /\ FlattenOf(p)' = FlattenOf(p)
                              /\ HeardEntry(p)' = HeardEntry(p) /\ HeardFlatten(p)' = HeardFlatten(p)
                              /\ (EntryIsOver(p)' <=> EntryIsOver(p)) /\ (Resting(p)' <=> Resting(p))
                              /\ opened'[p] = opened[p] /\ entries'[p] = entries[p]
         /\ \A p \in Probes : opened[p] \in Int
         /\ exchange' \in [Hybrid!Orders -> Snapshots] /\ heard' \in [Hybrid!Orders -> Snapshots]
         /\ opened' \in [Probes -> Int] /\ position' \in Int /\ entries' \in [Probes -> Nat]
BY DEF HybridInv, HybridTypes, EntryOf, FlattenOf, HeardEntry, HeardFlatten, EntryIsOver, Resting

(* What stands for no order and for a refused one.                         *)
LEMMA NothingIs == /\ Hybrid!Nothing \in Snapshots /\ Hybrid!Nothing.status = "NONE" /\ Hybrid!Nothing.filled = 0
                   /\ Refused \in Snapshots /\ Refused.status = "REJECTED" /\ Refused.filled = 0
                   /\ Hybrid!Nothing.status \notin Hybrid!Terminal
BY DEF Snapshots, Hybrid!Nothing, Hybrid!Status, Refused, Hybrid!Terminal

(* A probe takes the lock, and the checks before its entry begin.          *)
LEMMA AcquireKeeps ==
  ASSUME Hybrid!ProbeAssumption, HybridInv, NEW r \in Probes, Hybrid!Acquire(r)
  PROVE  HybridInv'
<1>1. /\ pc = "idle" /\ stage[r] = "NONE" /\ lock = Hybrid!NoOne /\ lock' = r /\ pc' = "check" /\ probe' = r
      /\ UNCHANGED <<stage, flattened, probeRow, exchange, opened, position, news, entries, heard, snapshot, entered, expired>>
  BY DEF Hybrid!Acquire, Hybrid!market
<1>2. UNCHANGED <<exchange, opened, position, heard, entries>>
  BY <1>1
<1>3. HybridTypes'
  BY <1>1, <1>2, ThreadStep DEF HybridInv, HybridTypes, Hybrid!Steps
<1>4. ThreadInv'
  BY <1>1, <1>2, ThreadStep DEF ThreadInv
<1>5. ASSUME NEW p \in Probes PROVE ProbeInv(p)'
  BY <1>1, <1>2, ThreadStep DEF HybridInv, ProbeInv, IsTrue, EntryOf
<1>6. LocksInv'
  <2>1. opened[r] = EntryOf(r).filled /\ EntryOf(r) = Hybrid!Nothing
    BY <1>1, NothingIs DEF HybridInv, ProbeInv, EntryIsOver
  <2>2. ASSUME ~expired' PROVE position' = 0 /\ opened'[r] = 0
    BY <1>1, <2>1, <2>2, NothingIs DEF HybridInv, LocksInv
  <2>3. ASSUME ~expired', NEW p \in Probes PROVE LockInv(p)'
    BY <1>1, <1>2, <2>2, <2>3, ThreadStep DEF HybridInv, LocksInv, LockInv, Under, Hybrid!ProbeAssumption
  <2>. QED BY <1>1, <2>2, <2>3 DEF LocksInv, Hybrid!ProbeAssumption
<1>. QED BY <1>3, <1>4, <1>5, <1>6 DEF HybridInv

(* A probe that fails its checks is over before it has sent anything.      *)
LEMMA FailKeeps ==
  ASSUME Hybrid!ProbeAssumption, HybridInv, Hybrid!FailBeforeExposure
  PROVE  HybridInv'
<1>1. /\ pc = "check" /\ lock' = (IF lock = probe THEN Hybrid!NoOne ELSE lock)
      /\ pc' = "idle" /\ probe' = Hybrid!NoOne /\ snapshot' = Hybrid!Nothing /\ entered' = 0
      /\ UNCHANGED <<stage, flattened, probeRow, exchange, opened, position, news, entries, heard, expired>>
  BY DEF Hybrid!FailBeforeExposure, Hybrid!market, Hybrid!Return, Hybrid!Released
<1>2. UNCHANGED <<exchange, opened, position, heard, entries>>
  BY <1>1
<1>3. HybridTypes'
  BY <1>1, <1>2, ThreadStep, NothingIs DEF HybridInv, HybridTypes, Hybrid!Steps
<1>4. ThreadInv'
  BY <1>1 DEF ThreadInv
<1>5. ASSUME NEW p \in Probes PROVE ProbeInv(p)'
  BY <1>1, <1>2, ThreadStep DEF HybridInv, ProbeInv, IsTrue, EntryOf
<1>6. LocksInv'
  <2>1. probe \in Probes /\ stage[probe] = "NONE"
    BY <1>1 DEF HybridInv, ThreadInv
  <2>2. opened[probe] = 0
    BY <2>1, NothingIs DEF HybridInv, ProbeInv, EntryIsOver
  <2>3. ASSUME ~expired', NEW p \in Probes PROVE LockInv(p)'
    BY <1>1, <1>2, <2>1, <2>2, <2>3, ThreadStep DEF HybridInv, LocksInv, LockInv, Under, Hybrid!ProbeAssumption
  <2>4. ASSUME ~expired' PROVE lock' = Hybrid!NoOne => position' = 0
    BY <1>1, <2>1, <2>2, <2>4 DEF HybridInv, LocksInv, LockInv
  <2>. QED BY <1>1, <2>3, <2>4 DEF LocksInv
<1>. QED BY <1>3, <1>4, <1>5, <1>6 DEF HybridInv

(* The checks are passed on a flat account; the state is saved before the  *)
(* entry.                                                                  *)
LEMMA PrepareKeeps ==
  ASSUME Hybrid!ProbeAssumption, HybridInv, Hybrid!Prepare
  PROVE  HybridInv'
<1>1. /\ pc = "check" /\ pc' = "entry" /\ probe' = probe
      /\ stage' = [stage EXCEPT ![probe] = "PREPARED"] /\ probeRow' = [probeRow EXCEPT ![probe] = "OPENING"]
      /\ UNCHANGED <<lock, flattened, exchange, opened, position, news, entries, heard, snapshot, entered, expired>>
  BY DEF Hybrid!Prepare, Hybrid!market, Hybrid!GoTo, Hybrid!Save, Hybrid!SaveRow
<1>2. UNCHANGED <<exchange, opened, position, heard, entries>>
  BY <1>1
<1>3. probe \in Probes /\ stage[probe] = "NONE"
  BY <1>1 DEF HybridInv, ThreadInv
<1>4. HybridTypes'
  BY <1>1, <1>2, <1>3, ThreadStep DEF HybridInv, HybridTypes, Hybrid!Steps, Hybrid!Stage, Hybrid!RowStatus
<1>5. /\ stage'[probe] = "PREPARED" /\ probeRow'[probe] = "OPENING"
      /\ \A p \in Probes : p # probe => stage'[p] = stage[p] /\ probeRow'[p] = probeRow[p]
  BY <1>1, <1>3 DEF HybridInv, HybridTypes
<1>6. ThreadInv'
  BY <1>1, <1>3, <1>5 DEF ThreadInv, Under, Hybrid!Final
<1>7. ASSUME NEW p \in Probes PROVE ProbeInv(p)'
  <2>1. CASE p = probe
    BY <1>1, <1>2, <1>3, <1>5, <2>1, ThreadStep, NothingIs DEF HybridInv, ProbeInv, IsTrue, Hybrid!Final
  <2>2. CASE p # probe
    BY <1>1, <1>2, <1>5, <2>2, ThreadStep DEF HybridInv, ProbeInv, IsTrue
  <2>. QED BY <2>1, <2>2
<1>8. LocksInv'
  <2>1. ASSUME ~expired', NEW p \in Probes PROVE LockInv(p)'
    BY <1>1, <1>2, <1>3, <1>5, <2>1, ThreadStep DEF HybridInv, LocksInv, LockInv, Under, Hybrid!Final
  <2>. QED BY <1>1, <2>1 DEF HybridInv, LocksInv
<1>. QED BY <1>4, <1>6, <1>7, <1>8 DEF HybridInv

(* A probe that was left under the lock is taken up where its saved state  *)
(* stands.                                                                 *)
LEMMA ResumeKeeps ==
  ASSUME Hybrid!ProbeAssumption, HybridInv, NEW r \in Probes, Hybrid!Resume(r)
  PROVE  HybridInv'
<1>1. /\ pc = "idle" /\ stage[r] \notin Hybrid!Final \cup {"NONE"} /\ pc' = "entry" /\ probe' = r
      /\ UNCHANGED <<lock, stage, flattened, probeRow, exchange, opened, position, news, entries, heard, snapshot, entered, expired>>
  BY DEF Hybrid!Resume, Hybrid!market, Hybrid!redis
<1>2. UNCHANGED <<exchange, opened, position, heard, entries>>
  BY <1>1
<1>3. HybridTypes'
  BY <1>1, <1>2, ThreadStep DEF HybridInv, HybridTypes, Hybrid!Steps
<1>4. ThreadInv'
  BY <1>1 DEF ThreadInv, Under
<1>5. ASSUME NEW p \in Probes PROVE ProbeInv(p)'
  BY <1>1, <1>2, ThreadStep DEF HybridInv, ProbeInv, IsTrue
<1>6. LocksInv'
  BY <1>1, <1>2, ThreadStep DEF HybridInv, LocksInv, LockInv, Under
<1>. QED BY <1>3, <1>4, <1>5, <1>6 DEF HybridInv

-----------------------------------------------------------------------------
(* The venue has something new of one order.                               *)
Others(r) ==
  \A p \in Probes : p # r =>
    /\ EntryOf(p)' = EntryOf(p) /\ FlattenOf(p)' = FlattenOf(p) /\ opened'[p] = opened[p]
    /\ (EntryIsOver(p)' <=> EntryIsOver(p)) /\ (Resting(p)' <=> Resting(p))
MarketTypes == /\ exchange \in [Hybrid!Orders -> Snapshots] /\ opened \in [Probes -> Int] /\ position \in Int

(* What a report of one order changes: that order, and the position by the *)
(* lots it adds.                                                           *)
LEMMA ReportIs ==
  ASSUME HybridInv, NEW r \in Probes, NEW d \in {"entry", "flatten"}, NEW from \in Snapshots, NEW s \in Snapshots,
         Hybrid!Reports(<<r, d>>, from, s)
  PROVE  /\ MarketTypes' /\ Others(r)
         /\ EntryOf(r)' = (IF d = "entry" THEN s ELSE EntryOf(r))
         /\ FlattenOf(r)' = (IF d = "flatten" THEN s ELSE FlattenOf(r))
         /\ opened'[r] = opened[r] + (IF d = "entry" THEN s.filled - from.filled ELSE from.filled - s.filled)
         /\ position' = position + (IF d = "entry" THEN s.filled - from.filled ELSE from.filled - s.filled)
<1>. DEFINE x == IF d = "entry" THEN s.filled - from.filled ELSE from.filled - s.filled
<1>1. x \in Int
  BY DEF Snapshots
<1>2. /\ exchange' = [exchange EXCEPT ![<<r, d>>] = s] /\ opened' = [opened EXCEPT ![r] = @ + x] /\ position' = position + x
  BY DEF Hybrid!Reports
<1>. HIDE DEF x
<1>3. /\ exchange \in [Hybrid!Orders -> Snapshots] /\ opened \in [Probes -> Int] /\ position \in Int
      /\ <<r, d>> \in Hybrid!Orders
  BY DEF HybridInv, HybridTypes, Hybrid!Orders, Hybrid!Sides
<1>4. opened'[r] = opened[r] + x /\ opened' \in [Probes -> Int] /\ position' \in Int
      /\ \A p \in Probes : p # r => opened'[p] = opened[p]
  BY <1>1, <1>2, <1>3
<1>5. exchange' \in [Hybrid!Orders -> Snapshots] /\ exchange'[<<r, d>>] = s
      /\ \A o \in Hybrid!Orders : o # <<r, d>> => exchange'[o] = exchange[o]
  BY <1>2, <1>3
<1>6. \A p \in Probes : <<p, "entry">> \in Hybrid!Orders /\ <<p, "flatten">> \in Hybrid!Orders
  BY DEF Hybrid!Orders, Hybrid!Sides
<1>7. \A p \in Probes : p # r => EntryOf(p)' = EntryOf(p) /\ FlattenOf(p)' = FlattenOf(p)
  BY <1>5, <1>6 DEF EntryOf, FlattenOf
<1>8. /\ EntryOf(r)' = (IF d = "entry" THEN s ELSE EntryOf(r))
      /\ FlattenOf(r)' = (IF d = "flatten" THEN s ELSE FlattenOf(r))
  <2>1. CASE d = "entry"
    BY <1>5, <1>6, <2>1 DEF EntryOf, FlattenOf
  <2>2. CASE d = "flatten"
    BY <1>5, <1>6, <2>2 DEF EntryOf, FlattenOf
  <2>. QED BY <2>1, <2>2
<1>. QED BY <1>2, <1>4, <1>5, <1>7, <1>8 DEF MarketTypes, Others, EntryIsOver, Resting, x

(* The snapshots a venue may send.                                         *)
LEMMA FillsAreIn ==
  ASSUME Hybrid!ProbeAssumption, NEW o, NEW q \in Nat, NEW s \in Hybrid!Taken(o, q)
  PROVE  s \in Snapshots /\ s.status \in {"ACCEPTED", "FILLED", "CANCELED"} /\ s # Hybrid!Nothing
BY DEF Hybrid!Taken, Snapshots, Hybrid!Status, Hybrid!Nothing

(* Whatever the thread learned of the venue before it failed: the lock and *)
(* the state stay for a later call.                                        *)
VenueInv(p) ==
  /\ entries[p] = IF EntryOf(p) = Hybrid!Nothing THEN 0 ELSE 1
  /\ FlattenOf(p) # Hybrid!Nothing => EntryIsOver(p)
  /\ FlattenOf(p) = Hybrid!Nothing => opened[p] = EntryOf(p).filled
  /\ IsTrue(EntryOf(p), HeardEntry(p))
VenuesInv == MarketTypes /\ heard \in [Hybrid!Orders -> Snapshots] /\ entries \in [Probes -> Nat] /\ \A p \in Probes : VenueInv(p)
HeardSame(r) == \A p \in Probes : p # r => HeardEntry(p)' = HeardEntry(p) /\ HeardFlatten(p)' = HeardFlatten(p)

(* A step that touches no order moves no position.                         *)
LEMMA VenuesStay ==
  ASSUME Hybrid!ProbeAssumption, HybridInv, UNCHANGED <<exchange, opened, position>>
  PROVE  MarketTypes' /\ (\A r \in Probes : Others(r) /\ position' - position = opened'[r] - opened[r])
BY DEF HybridInv, HybridTypes, MarketTypes, Others, EntryOf, FlattenOf, EntryIsOver, Resting

(* An exception leaves the lock and the state of the probe, with what it   *)
(* has seen.                                                               *)
LEMMA RaiseKeeps ==
  ASSUME Hybrid!ProbeAssumption, HybridInv, NEW r \in Probes, r = probe, Hybrid!Raise, pc \notin {"idle", "check", "release"}, expired' = expired,
         VenuesInv', Others(r), HeardSame(r), position' - position = opened'[r] - opened[r],
         HeardEntry(r)'.status \in Hybrid!Terminal => EntryOf(r)' # Hybrid!Nothing
  PROVE  HybridInv'
<1>1. /\ stage' = [stage EXCEPT ![probe] = "RECOVERY_REQUIRED"] /\ probeRow' = [probeRow EXCEPT ![probe] = "RECOVERY_REQUIRED"]
      /\ pc' = "idle" /\ probe' = Hybrid!NoOne /\ snapshot' = Hybrid!Nothing /\ entered' = 0 /\ lock' = lock
  BY DEF Hybrid!Raise, Hybrid!Save, Hybrid!SaveRow, Hybrid!Return
<1>2. probe \in Probes /\ Under(probe) /\ r = probe
  BY DEF HybridInv, ThreadInv
<1>3. HybridTypes'
  BY <1>1, <1>2, NothingIs DEF HybridInv, HybridTypes, VenuesInv, MarketTypes, Hybrid!Steps, Hybrid!Stage, Hybrid!RowStatus
<1>4. /\ stage'[probe] = "RECOVERY_REQUIRED" /\ probeRow'[probe] = "RECOVERY_REQUIRED"
      /\ \A p \in Probes : p # probe => stage'[p] = stage[p] /\ probeRow'[p] = probeRow[p]
  BY <1>1, <1>2 DEF HybridInv, HybridTypes
<1>5. ThreadInv'
  BY <1>1 DEF ThreadInv
<1>6. ASSUME NEW p \in Probes PROVE ProbeInv(p)'
  <2>1. VenueInv(p)'
    BY DEF VenuesInv
  <2>2. CASE p = probe
    BY <1>2, <1>4, <2>1, <2>2 DEF ProbeInv, VenueInv, Hybrid!Final
  <2>3. CASE p # probe
    <3>1. /\ EntryOf(p)' = EntryOf(p) /\ HeardEntry(p)' = HeardEntry(p) /\ stage'[p] = stage[p] /\ probeRow'[p] = probeRow[p]
      BY <1>2, <1>4, <2>3 DEF Others, HeardSame
    <3>. QED BY <1>1, <2>1, <2>3, <3>1 DEF ProbeInv, VenueInv, HybridInv
  <2>. QED BY <2>2, <2>3
<1>7. LocksInv'
  <2>1. ASSUME ~expired PROVE lock = probe /\ lock # Hybrid!NoOne
    BY <1>2, <2>1 DEF HybridInv, LocksInv, LockInv, Hybrid!ProbeAssumption
  <2>2. ASSUME ~expired', NEW p \in Probes PROVE LockInv(p)'
    <3>1. LockInv(p)
      BY <2>2 DEF HybridInv, LocksInv
    <3>2. CASE p = probe
      <4>1. position = opened[r] /\ position' \in Int /\ opened'[r] \in Int /\ opened[r] \in Int
        BY <1>2, <2>1, <2>2, <3>1, <3>2 DEF LockInv, VenuesInv, MarketTypes, HybridInv, HybridTypes
      <4>2. position' = opened'[r]
        BY <4>1
      <4>. QED BY <1>1, <1>4, <2>1, <2>2, <3>2, <4>2 DEF LockInv, Under, Hybrid!Final
    <3>3. CASE p # probe
      BY <1>1, <1>2, <1>4, <2>1, <2>2, <3>1, <3>3 DEF LockInv, Under, Others
    <3>. QED BY <3>2, <3>3
  <2>. QED BY <1>1, <2>1, <2>2 DEF LocksInv
<1>. QED BY <1>3, <1>5, <1>6, <1>7 DEF HybridInv

(* The thread goes on to another step of the same probe.                   *)
StageMoves(r, x, y) == /\ stage' = [stage EXCEPT ![r] = x] /\ probeRow' = [probeRow EXCEPT ![r] = y]

(* Two equal differences with equal subtrahends.                           *)
LEMMA SameMove == \A a, b, c, d \in Int : a - b = c - d /\ b = d => a = c
OBVIOUS

LEMMA ThreadKeeps ==
  ASSUME Hybrid!ProbeAssumption, HybridInv, NEW r \in Probes, r = probe, probe' = probe,
         pc \notin {"idle", "check", "release"}, pc' \in Hybrid!Steps \ {"idle", "check", "release"},
         NEW x \in Hybrid!Stage \ (Hybrid!Final \cup {"NONE"}), NEW y \in Hybrid!RowStatus \ Hybrid!Final,
         StageMoves(r, x, y), lock' = lock, expired' = expired,
         snapshot' \in Snapshots, entered' \in Nat,
         VenuesInv', Others(r), HeardSame(r), position' - position = opened'[r] - opened[r],
         x = "PREPARED" /\ pc' # "save entry" => EntryOf(r)' = Hybrid!Nothing,
         HeardEntry(r)'.status \in Hybrid!Terminal /\ EntryOf(r)' = Hybrid!Nothing =>
            pc' = "wait entry" /\ snapshot'.status = "REJECTED",
         pc' \in {"save entry", "wait entry", "cancel", "wait cancel"} => IsTrue(EntryOf(r)', snapshot'),
         pc' \in {"flatten", "save flatten", "wait flatten", "finish"} => EntryIsOver(r)' /\ entered' = EntryOf(r)'.filled,
         pc' \in {"save flatten", "wait flatten"} =>
            (snapshot'.status \in Hybrid!Terminal /\ snapshot'.filled > 0 => snapshot' = FlattenOf(r)'),
         pc' = "wait flatten" =>
            (snapshot'.status \notin Hybrid!Terminal /\ HeardFlatten(r)'.status \in Hybrid!Terminal
               => HeardFlatten(r)' = FlattenOf(r)'),
         pc' = "finish" => FlattenOf(r)'.status \in Hybrid!Terminal
  PROVE  HybridInv'
<1>1. Under(r) /\ stage \in [Probes -> Hybrid!Stage] /\ probeRow \in [Probes -> Hybrid!RowStatus]
  BY DEF HybridInv, ThreadInv, HybridTypes
<1>2. /\ stage'[r] = x /\ probeRow'[r] = y /\ stage' \in [Probes -> Hybrid!Stage] /\ probeRow' \in [Probes -> Hybrid!RowStatus]
      /\ \A p \in Probes : p # r => stage'[p] = stage[p] /\ probeRow'[p] = probeRow[p]
  BY <1>1 DEF StageMoves
<1>3. HybridTypes'
  BY <1>2 DEF HybridInv, HybridTypes, VenuesInv, MarketTypes
<1>4. ThreadInv'
  <2>1. EntryOf(probe)' = EntryOf(r)' /\ FlattenOf(probe)' = FlattenOf(r)' /\ HeardFlatten(probe)' = HeardFlatten(r)'
        /\ (EntryIsOver(probe)' <=> EntryIsOver(r)') /\ (IsTrue(EntryOf(probe), snapshot)' <=> IsTrue(EntryOf(r)', snapshot'))
    BY DEF EntryOf, FlattenOf, HeardFlatten, EntryIsOver, IsTrue
  <2>2. Under(probe)'
    BY <1>2 DEF Under
  <2>3. probe' = r /\ pc' \notin {"idle", "check", "release"}
    OBVIOUS
  <2>. QED BY <2>1, <2>2, <2>3 DEF ThreadInv
<1>5. ASSUME NEW p \in Probes PROVE ProbeInv(p)'
  <2>1. VenueInv(p)'
    BY DEF VenuesInv
  <2>2. CASE p = r
    BY <1>2, <2>1, <2>2 DEF ProbeInv, VenueInv, IsTrue
  <2>3. CASE p # r
    <3>1. /\ EntryOf(p)' = EntryOf(p) /\ HeardEntry(p)' = HeardEntry(p) /\ stage'[p] = stage[p] /\ probeRow'[p] = probeRow[p]
      BY <1>2, <2>3 DEF Others, HeardSame
    <3>. QED BY <2>1, <2>3, <3>1 DEF ProbeInv, VenueInv, HybridInv
  <2>. QED BY <2>2, <2>3
<1>6. LocksInv'
  <2>1. ASSUME ~expired PROVE lock = r /\ lock # Hybrid!NoOne
    BY <1>1, <2>1 DEF HybridInv, LocksInv, LockInv, Hybrid!ProbeAssumption
  <2>2. ASSUME ~expired', NEW p \in Probes PROVE LockInv(p)'
    <3>1. LockInv(p)
      BY <2>2 DEF HybridInv, LocksInv
    <3>2. CASE p = r
      <4>1. position = opened[r] /\ position' \in Int /\ opened'[r] \in Int /\ opened[r] \in Int
        BY <2>1, <2>2, <3>1, <3>2 DEF LockInv, VenuesInv, MarketTypes, HybridInv, HybridTypes
      <4>2. position' = opened'[r]
        BY <4>1, SameMove
      <4>. QED BY <1>2, <2>1, <2>2, <3>2, <4>2 DEF LockInv, Under
    <3>3. CASE p # r
      BY <1>2, <2>1, <2>2, <3>1, <3>3 DEF LockInv, Under, Others
    <3>. QED BY <3>2, <3>3
  <2>. QED BY <2>1, <2>2 DEF LocksInv
<1>. QED BY <1>3, <1>4, <1>5, <1>6 DEF HybridInv

(* A step of the thread alone leaves all that is known of the venue.       *)
LEMMA QuietVenues ==
  ASSUME Hybrid!ProbeAssumption, HybridInv, UNCHANGED <<exchange, opened, position, entries>>, NEW r \in Probes
  PROVE  /\ VenuesInv /\ Others(r) /\ position' - position = opened'[r] - opened[r]
         /\ (heard' = heard => VenuesInv' /\ HeardSame(r) /\ HeardEntry(r)' = HeardEntry(r) /\ HeardFlatten(r)' = HeardFlatten(r))
         /\ EntryOf(r)' = EntryOf(r) /\ FlattenOf(r)' = FlattenOf(r) /\ (EntryIsOver(r)' <=> EntryIsOver(r))
<1>1. VenuesInv
  BY DEF HybridInv, HybridTypes, VenuesInv, MarketTypes, ProbeInv, VenueInv
<1>2. position' - position = opened'[r] - opened[r]
  BY DEF HybridInv, HybridTypes
<1>3. heard' = heard => VenuesInv'
  BY <1>1 DEF VenuesInv, MarketTypes, VenueInv, EntryOf, FlattenOf, HeardEntry, EntryIsOver, IsTrue
<1>. QED BY <1>1, <1>2, <1>3 DEF Others, HeardSame, EntryOf, FlattenOf, HeardEntry, HeardFlatten, EntryIsOver, Resting

(* An exception of a step that asked the venue nothing.                    *)
LEMMA QuietRaise ==
  ASSUME Hybrid!ProbeAssumption, HybridInv, Hybrid!Raise, pc \notin {"idle", "check", "release"},
         UNCHANGED <<exchange, opened, position, entries, heard, expired>>,
         pc = "wait entry" => snapshot.status # "REJECTED"
  PROVE  HybridInv'
<1>1. PICK r \in Probes : r = probe
  BY DEF HybridInv, ThreadInv
<1>2. /\ VenuesInv' /\ Others(r) /\ position' - position = opened'[r] - opened[r] /\ HeardSame(r)
      /\ HeardEntry(r)' = HeardEntry(r) /\ EntryOf(r)' = EntryOf(r)
  BY QuietVenues
<1>3. ~(HeardEntry(r).status \in Hybrid!Terminal /\ EntryOf(r) = Hybrid!Nothing)
  BY <1>1 DEF HybridInv, ThreadInv, ProbeInv, Under
<1>. QED BY <1>1, <1>2, <1>3, RaiseKeeps

(* The waiter is told of an order of this probe.                           *)
LEMMA SeededIs ==
  ASSUME HybridInv, NEW r \in Probes, NEW d \in {"entry", "flatten"}, NEW s \in Snapshots,
         heard' = [heard EXCEPT ![<<r, d>>] = s]
  PROVE  /\ heard' \in [Hybrid!Orders -> Snapshots] /\ HeardSame(r)
         /\ HeardEntry(r)' = (IF d = "entry" THEN s ELSE HeardEntry(r))
         /\ HeardFlatten(r)' = (IF d = "flatten" THEN s ELSE HeardFlatten(r))
<1>1. heard \in [Hybrid!Orders -> Snapshots] /\ <<r, d>> \in Hybrid!Orders
  BY DEF HybridInv, HybridTypes, Hybrid!Orders, Hybrid!Sides
<1>2. heard' \in [Hybrid!Orders -> Snapshots] /\ heard'[<<r, d>>] = s
      /\ \A o \in Hybrid!Orders : o # <<r, d>> => heard'[o] = heard[o]
  BY <1>1
<1>3. \A p \in Probes : <<p, "entry">> \in Hybrid!Orders /\ <<p, "flatten">> \in Hybrid!Orders
  BY DEF Hybrid!Orders, Hybrid!Sides
<1>4. HeardSame(r)
  BY <1>2, <1>3 DEF HeardSame, HeardEntry, HeardFlatten
<1>5. CASE d = "entry"
  BY <1>2, <1>3, <1>4, <1>5 DEF HeardEntry, HeardFlatten
<1>6. CASE d = "flatten"
  BY <1>2, <1>3, <1>4, <1>6 DEF HeardEntry, HeardFlatten
<1>. QED BY <1>5, <1>6

(* What is known of one probe follows from a step that touches only its    *)
(* orders.                                                                 *)
LEMMA VenuesFrom ==
  ASSUME Hybrid!ProbeAssumption, HybridInv, NEW r \in Probes, MarketTypes', heard' \in [Hybrid!Orders -> Snapshots],
         entries' \in [Probes -> Nat], \A p \in Probes : p # r => entries'[p] = entries[p],
         Others(r), HeardSame(r), VenueInv(r)'
  PROVE  VenuesInv'
<1>1. ASSUME NEW p \in Probes, p # r PROVE VenueInv(p)'
  <2>1. VenueInv(p)
    BY DEF HybridInv, ProbeInv, VenueInv
  <2>. QED BY <1>1, <2>1 DEF VenueInv, Others, HeardSame
<1>. QED BY <1>1 DEF VenuesInv

(* A state that is not written is one that may stay.                       *)
LEMMA StagesStay ==
  ASSUME HybridInv, NEW r \in Probes, r = probe, pc \notin {"idle", "check", "release"}, UNCHANGED <<stage, probeRow>>
  PROVE  /\ StageMoves(r, stage[r], probeRow[r])
         /\ stage[r] \in Hybrid!Stage \ (Hybrid!Final \cup {"NONE"}) /\ probeRow[r] \in Hybrid!RowStatus \ Hybrid!Final
<1>1. stage \in [Probes -> Hybrid!Stage] /\ probeRow \in [Probes -> Hybrid!RowStatus] /\ Under(r) /\ ProbeInv(r)
  BY DEF HybridInv, HybridTypes, ThreadInv
<1>2. StageMoves(r, stage[r], probeRow[r])
  BY <1>1 DEF StageMoves
<1>. QED BY <1>1, <1>2 DEF Under, ProbeInv

(* _query_actual: the order is found.                                      *)
LEMMA QueryKeeps ==
  ASSUME Hybrid!ProbeAssumption, HybridInv, NEW r \in Probes, r = probe, probe' = probe, NEW d \in {"entry", "flatten"},
         pc = d, pc' = (IF d = "entry" THEN "wait entry" ELSE "wait flatten"),
         exchange[<<r, d>>] # Hybrid!Nothing, snapshot' = exchange[<<r, d>>],
         heard' = [heard EXCEPT ![<<r, d>>] = exchange[<<r, d>>]],
         d = "entry" => stage[r] # "PREPARED",
         UNCHANGED <<lock, stage, probeRow, exchange, opened, position, entries, entered, expired>>
  PROVE  HybridInv'
<1>. DEFINE s == exchange[<<r, d>>]
<1>1. s \in Snapshots /\ (d = "entry" => s = EntryOf(r)) /\ (d = "flatten" => s = FlattenOf(r)) /\ entered \in Nat
  BY DEF HybridInv, HybridTypes, Hybrid!Orders, Hybrid!Sides, EntryOf, FlattenOf
<1>. HIDE DEF s
<1>2. heard' = [heard EXCEPT ![<<r, d>>] = s] /\ snapshot' = s /\ s # Hybrid!Nothing
  BY DEF s
<1>3. /\ heard' \in [Hybrid!Orders -> Snapshots] /\ HeardSame(r)
      /\ HeardEntry(r)' = (IF d = "entry" THEN s ELSE HeardEntry(r))
      /\ HeardFlatten(r)' = (IF d = "flatten" THEN s ELSE HeardFlatten(r))
  BY <1>1, <1>2, SeededIs
<1>4. /\ Others(r) /\ position' - position = opened'[r] - opened[r] /\ MarketTypes'
      /\ EntryOf(r)' = EntryOf(r) /\ FlattenOf(r)' = FlattenOf(r) /\ (EntryIsOver(r)' <=> EntryIsOver(r))
  BY QuietVenues, VenuesStay
<1>5. pc \notin {"idle", "check", "release"} /\ pc' \in Hybrid!Steps \ {"idle", "check", "release"}
  BY DEF Hybrid!Steps
<1>6. Under(r) /\ ProbeInv(r) /\ (pc = "flatten" => EntryIsOver(r) /\ entered = EntryOf(r).filled)
  BY <1>5 DEF HybridInv, ThreadInv
<1>7. entries' \in [Probes -> Nat] /\ \A p \in Probes : entries'[p] = entries[p] /\ opened'[p] = opened[p]
  BY DEF HybridInv, HybridTypes
<1>8. VenueInv(r)'
  BY <1>1, <1>3, <1>4, <1>6, <1>7 DEF VenueInv, ProbeInv, IsTrue
<1>9. VenuesInv'
  BY <1>3, <1>4, <1>7, <1>8, VenuesFrom
<1>10. /\ StageMoves(r, stage[r], probeRow[r])
       /\ stage[r] \in Hybrid!Stage \ (Hybrid!Final \cup {"NONE"}) /\ probeRow[r] \in Hybrid!RowStatus \ Hybrid!Final
  BY <1>5, StagesStay
<1>11. CASE d = "entry"
  <2>1. snapshot' = EntryOf(r)' /\ HeardEntry(r)' = EntryOf(r)' /\ EntryOf(r)' # Hybrid!Nothing /\ pc' = "wait entry" /\ stage[r] # "PREPARED"
    BY <1>1, <1>2, <1>3, <1>4, <1>11
  <2>2. IsTrue(EntryOf(r)', snapshot')
    BY <2>1 DEF IsTrue
  <2>. QED BY <1>1, <1>2, <1>3, <1>4, <1>5, <1>9, <1>10, <2>1, <2>2, ThreadKeeps
<1>12. CASE d = "flatten"
  <2>1. /\ snapshot' = FlattenOf(r)' /\ HeardFlatten(r)' = FlattenOf(r)' /\ pc' = "wait flatten"
        /\ EntryIsOver(r)' /\ entered' = EntryOf(r)'.filled /\ entered' \in Nat
    BY <1>1, <1>2, <1>3, <1>4, <1>6, <1>12
  <2>2. EntryOf(r)' # Hybrid!Nothing /\ stage[r] # "PREPARED"
    BY <1>4, <1>6, <1>12, NothingIs DEF EntryIsOver, ProbeInv
  <2>3. snapshot' \in Snapshots
    BY <1>1, <1>2
  <2>. QED BY <1>3, <1>4, <1>5, <1>9, <1>10, <2>1, <2>2, <2>3, ThreadKeeps
<1>. QED BY <1>11, <1>12

(* submit_order: taken by the venue, and answered or not.                  *)
Answered(r, s, next) == /\ snapshot' = s /\ pc' = next /\ probe' = probe /\ UNCHANGED <<lock, stage, probeRow, entered>>

(* The entry is taken by the venue: answered, or its answer lost.          *)
LEMMA TakenEntry ==
  ASSUME Hybrid!ProbeAssumption, HybridInv, NEW r \in Probes, r = probe, pc = "entry",
         NEW s \in Snapshots, s # Hybrid!Nothing, EntryOf(r) = Hybrid!Nothing,
         Hybrid!Reports(<<r, "entry">>, Hybrid!Nothing, s), heard' = heard, expired' = expired,
         entries' = [entries EXCEPT ![r] = entries[r] + 1]
  PROVE  /\ Answered(r, s, "save entry") => HybridInv'
         /\ Hybrid!Raise => HybridInv'
<1>1. s.filled \in Nat /\ opened[r] \in Int /\ position \in Int /\ entries \in [Probes -> Nat] /\ entered \in Nat
      /\ heard \in [Hybrid!Orders -> Snapshots]
  BY DEF HybridInv, HybridTypes, Snapshots
<1>2. Under(r) /\ ProbeInv(r) /\ pc \notin {"idle", "check", "release"}
  BY DEF HybridInv, ThreadInv
<1>3. FlattenOf(r) = Hybrid!Nothing /\ opened[r] = 0 /\ entries[r] = 0 /\ HeardEntry(r).status \notin Hybrid!Terminal
  BY <1>2, NothingIs DEF ProbeInv, EntryIsOver, Under
<1>4. /\ MarketTypes' /\ Others(r) /\ EntryOf(r)' = s /\ FlattenOf(r)' = FlattenOf(r)
      /\ opened'[r] = opened[r] + (s.filled - Hybrid!Nothing.filled) /\ position' = position + (s.filled - Hybrid!Nothing.filled)
  <2>1. "entry" \in {"entry", "flatten"} /\ Hybrid!Nothing \in Snapshots
    BY NothingIs
  <2>. DEFINE from == Hybrid!Nothing
  <2>. HIDE DEF from
  <2>2. from \in Snapshots /\ Hybrid!Reports(<<r, "entry">>, from, s)
    BY <2>1 DEF from
  <2>3. /\ MarketTypes' /\ Others(r)
        /\ EntryOf(r)' = (IF "entry" = "entry" THEN s ELSE EntryOf(r))
        /\ FlattenOf(r)' = (IF "entry" = "flatten" THEN s ELSE FlattenOf(r))
        /\ opened'[r] = opened[r] + (IF "entry" = "entry" THEN s.filled - from.filled ELSE from.filled - s.filled)
        /\ position' = position + (IF "entry" = "entry" THEN s.filled - from.filled ELSE from.filled - s.filled)
    BY <2>1, <2>2, ReportIs
  <2>. QED BY <2>3 DEF from
<1>5. opened'[r] = s.filled /\ position' - position = opened'[r] - opened[r]
  BY <1>1, <1>3, <1>4, NothingIs
<1>6. HeardSame(r) /\ HeardEntry(r)' = HeardEntry(r) /\ HeardFlatten(r)' = HeardFlatten(r)
  BY DEF HeardSame, HeardEntry, HeardFlatten
<1>7. entries' \in [Probes -> Nat] /\ entries'[r] = 1 /\ \A p \in Probes : p # r => entries'[p] = entries[p]
  BY <1>1, <1>3
<1>8. VenueInv(r)'
  BY <1>3, <1>4, <1>5, <1>6, <1>7 DEF VenueInv, IsTrue
<1>9. VenuesInv'
  BY <1>1, <1>4, <1>6, <1>7, <1>8, VenuesFrom
<1>10. ASSUME Hybrid!Raise PROVE HybridInv'
  BY <1>2, <1>4, <1>5, <1>6, <1>9, <1>10, RaiseKeeps
<1>11. ASSUME Answered(r, s, "save entry") PROVE HybridInv'
  <2>1. /\ StageMoves(r, stage[r], probeRow[r])
        /\ stage[r] \in Hybrid!Stage \ (Hybrid!Final \cup {"NONE"}) /\ probeRow[r] \in Hybrid!RowStatus \ Hybrid!Final
    BY <1>2, <1>11, StagesStay DEF Answered
  <2>2. pc' \in Hybrid!Steps \ {"idle", "check", "release"}
    BY <1>11 DEF Hybrid!Steps, Answered
  <2>3. /\ pc' = "save entry" /\ snapshot' = s /\ entered' \in Nat /\ probe' = probe /\ lock' = lock
        /\ IsTrue(EntryOf(r)', snapshot')
    BY <1>1, <1>4, <1>11 DEF Answered, IsTrue
  <2>. QED BY <1>2, <1>4, <1>5, <1>6, <1>9, <2>1, <2>2, <2>3, ThreadKeeps
<1>. QED BY <1>10, <1>11

(* The closing order is taken by the venue: answered, or its answer lost.  *)
LEMMA TakenFlatten ==
  ASSUME Hybrid!ProbeAssumption, HybridInv, NEW r \in Probes, r = probe, pc = "flatten",
         NEW s \in Snapshots, s # Hybrid!Nothing,
         Hybrid!Reports(<<r, "flatten">>, Hybrid!Nothing, s), heard' = heard, expired' = expired, entries' = entries
  PROVE  /\ Answered(r, s, "save flatten") => HybridInv'
         /\ Hybrid!Raise => HybridInv'
<1>1. s.filled \in Nat /\ opened[r] \in Int /\ position \in Int /\ entries \in [Probes -> Nat] /\ entered \in Nat
      /\ heard \in [Hybrid!Orders -> Snapshots]
  BY DEF HybridInv, HybridTypes, Snapshots
<1>2. Under(r) /\ ProbeInv(r) /\ pc \notin {"idle", "check", "release"} /\ EntryIsOver(r) /\ entered = EntryOf(r).filled
  BY DEF HybridInv, ThreadInv
<1>3. /\ MarketTypes' /\ Others(r) /\ EntryOf(r)' = EntryOf(r) /\ FlattenOf(r)' = s
      /\ opened'[r] = opened[r] + (Hybrid!Nothing.filled - s.filled) /\ position' = position + (Hybrid!Nothing.filled - s.filled)
  <2>1. "flatten" \in {"entry", "flatten"} /\ Hybrid!Nothing \in Snapshots
    BY NothingIs
  <2>. DEFINE from == Hybrid!Nothing
  <2>. HIDE DEF from
  <2>2. from \in Snapshots /\ Hybrid!Reports(<<r, "flatten">>, from, s)
    BY <2>1 DEF from
  <2>3. /\ MarketTypes' /\ Others(r)
        /\ EntryOf(r)' = (IF "flatten" = "entry" THEN s ELSE EntryOf(r))
        /\ FlattenOf(r)' = (IF "flatten" = "flatten" THEN s ELSE FlattenOf(r))
        /\ opened'[r] = opened[r] + (IF "flatten" = "entry" THEN s.filled - from.filled ELSE from.filled - s.filled)
        /\ position' = position + (IF "flatten" = "entry" THEN s.filled - from.filled ELSE from.filled - s.filled)
    BY <2>1, <2>2, ReportIs
  <2>. QED BY <2>3 DEF from
<1>4. position' - position = opened'[r] - opened[r]
  BY <1>1, <1>3, NothingIs
<1>5. HeardSame(r) /\ HeardEntry(r)' = HeardEntry(r) /\ HeardFlatten(r)' = HeardFlatten(r)
  BY DEF HeardSame, HeardEntry, HeardFlatten
<1>6. EntryIsOver(r)' /\ EntryOf(r)' # Hybrid!Nothing /\ stage[r] # "PREPARED"
  BY <1>2, <1>3, NothingIs DEF EntryIsOver, ProbeInv
<1>7. VenueInv(r)'
  BY <1>2, <1>3, <1>5, <1>6 DEF VenueInv, ProbeInv, IsTrue
<1>8. VenuesInv'
  BY <1>1, <1>3, <1>5, <1>7, VenuesFrom
<1>9. ASSUME Hybrid!Raise PROVE HybridInv'
  BY <1>2, <1>3, <1>4, <1>5, <1>6, <1>8, <1>9, RaiseKeeps
<1>10. ASSUME Answered(r, s, "save flatten") PROVE HybridInv'
  <2>1. /\ StageMoves(r, stage[r], probeRow[r])
        /\ stage[r] \in Hybrid!Stage \ (Hybrid!Final \cup {"NONE"}) /\ probeRow[r] \in Hybrid!RowStatus \ Hybrid!Final
    BY <1>2, <1>10, StagesStay DEF Answered
  <2>2. pc' \in Hybrid!Steps \ {"idle", "check", "release"}
    BY <1>10 DEF Hybrid!Steps, Answered
  <2>3. /\ pc' = "save flatten" /\ snapshot' = FlattenOf(r)' /\ snapshot' \in Snapshots /\ entered' \in Nat /\ probe' = probe
        /\ lock' = lock /\ entered' = EntryOf(r)'.filled
    BY <1>1, <1>2, <1>3, <1>10 DEF Answered
  <2>. QED BY <1>2, <1>3, <1>4, <1>5, <1>6, <1>8, <2>1, <2>2, <2>3, ThreadKeeps
<1>. QED BY <1>9, <1>10

(* _entry_order: a state past PREPARED asks for the order first.           *)
LEMMA EntryKeeps ==
  ASSUME Hybrid!ProbeAssumption, HybridInv, Hybrid!Entry
  PROVE  HybridInv'
<1>1. PICK r \in Probes : r = probe
  BY DEF HybridInv, ThreadInv, Hybrid!Entry
<1>2. pc = "entry" /\ expired' = expired /\ pc \notin {"idle", "check", "release"} /\ Under(r) /\ ProbeInv(r)
  BY <1>1 DEF HybridInv, ThreadInv, Hybrid!Entry
<1>3. Hybrid!entry = <<r, "entry">> /\ exchange[Hybrid!entry] = EntryOf(r)
  BY <1>1 DEF Hybrid!entry, EntryOf
<1>4. CASE stage[probe] # "PREPARED" /\ Hybrid!Query(Hybrid!entry, "wait entry") /\ UNCHANGED Hybrid!market
  <2>1. UNCHANGED <<exchange, opened, position, entries>>
    BY <1>4 DEF Hybrid!market
  <2>2. ASSUME /\ exchange[<<r, "entry">>] # Hybrid!Nothing
               /\ snapshot' = exchange[<<r, "entry">>] /\ heard' = Hybrid!Seeded(<<r, "entry">>, exchange[<<r, "entry">>])
               /\ Hybrid!GoTo("wait entry") /\ UNCHANGED <<Hybrid!redis, entered>>
        PROVE  HybridInv'
    <3>1. /\ heard' = [heard EXCEPT ![<<r, "entry">>] = exchange[<<r, "entry">>]] /\ pc' = "wait entry" /\ probe' = probe
          /\ UNCHANGED <<lock, stage, probeRow, entered>>
      BY <2>2 DEF Hybrid!Seeded, Hybrid!GoTo, Hybrid!redis
    <3>2. stage[r] # "PREPARED" /\ "entry" \in {"entry", "flatten"}
      BY <1>1, <1>4
    <3>. QED BY <1>1, <1>2, <2>1, <2>2, <3>1, <3>2, QueryKeeps
  <2>3. ASSUME Hybrid!Raise, heard' = heard PROVE HybridInv'
    BY <1>2, <2>1, <2>3, QuietRaise
  <2>. QED BY <1>3, <1>4, <2>2, <2>3 DEF Hybrid!Query
<1>5. CASE /\ stage[probe] = "PREPARED" \/ exchange[Hybrid!entry] = Hybrid!Nothing
           /\ Hybrid!SubmitOrder(Hybrid!entry, LeastQuantity, "save entry") /\ heard' = heard
  <2>1. EntryOf(r) = Hybrid!Nothing
    BY <1>1, <1>2, <1>3, <1>5 DEF ProbeInv
  <2>2. ASSUME NEW s \in Hybrid!Taken(Hybrid!entry, LeastQuantity), Hybrid!Reports(Hybrid!entry, Hybrid!Nothing, s),
               entries' = (IF Hybrid!entry[2] = "entry" THEN [entries EXCEPT ![Hybrid!entry[1]] = @ + 1] ELSE entries)
        PROVE  /\ snapshot' = s /\ Hybrid!GoTo("save entry") /\ UNCHANGED <<Hybrid!redis, entered>> => HybridInv'
               /\ Hybrid!Raise => HybridInv'
    <3>1. s \in Snapshots /\ s # Hybrid!Nothing
      BY FillsAreIn DEF Hybrid!ProbeAssumption
    <3>2. Hybrid!Reports(<<r, "entry">>, Hybrid!Nothing, s) /\ entries' = [entries EXCEPT ![r] = entries[r] + 1]
      BY <1>3, <2>2
    <3>3. (Answered(r, s, "save entry") => HybridInv') /\ (Hybrid!Raise => HybridInv')
      BY <1>1, <1>2, <1>5, <2>1, <3>1, <3>2, TakenEntry
    <3>4. snapshot' = s /\ Hybrid!GoTo("save entry") /\ UNCHANGED <<Hybrid!redis, entered>> => Answered(r, s, "save entry")
      BY DEF Answered, Hybrid!GoTo, Hybrid!redis
    <3>. QED BY <3>3, <3>4
  <2>3. ASSUME snapshot' = Refused, Hybrid!GoTo("save entry"), UNCHANGED <<Hybrid!redis, Hybrid!market, entered>>
        PROVE  HybridInv'
    <3>1. /\ UNCHANGED <<exchange, opened, position, entries, lock, stage, probeRow, entered>> /\ pc' = "save entry" /\ probe' = probe
      BY <2>3 DEF Hybrid!market, Hybrid!redis, Hybrid!GoTo
    <3>2. /\ VenuesInv' /\ Others(r) /\ position' - position = opened'[r] - opened[r] /\ HeardSame(r)
          /\ HeardEntry(r)' = HeardEntry(r) /\ EntryOf(r)' = EntryOf(r)
      BY <1>5, <3>1, QuietVenues
    <3>3. /\ StageMoves(r, stage[r], probeRow[r])
          /\ stage[r] \in Hybrid!Stage \ (Hybrid!Final \cup {"NONE"}) /\ probeRow[r] \in Hybrid!RowStatus \ Hybrid!Final
      BY <1>1, <1>2, <3>1, StagesStay
    <3>4. snapshot' \in Snapshots /\ entered' \in Nat /\ IsTrue(EntryOf(r)', snapshot')
      BY <2>1, <2>3, <3>1, <3>2, NothingIs DEF IsTrue, HybridInv, HybridTypes
    <3>5. ~(HeardEntry(r).status \in Hybrid!Terminal)
      BY <1>2, <2>1 DEF ProbeInv, Under
    <3>6. pc' \in Hybrid!Steps \ {"idle", "check", "release"}
      BY <3>1 DEF Hybrid!Steps
    <3>. QED BY <1>1, <1>2, <3>1, <3>2, <3>3, <3>4, <3>5, <3>6, ThreadKeeps
  <2>4. ASSUME Hybrid!Raise, UNCHANGED Hybrid!market PROVE HybridInv'
    <3>1. UNCHANGED <<exchange, opened, position, entries>>
      BY <2>4 DEF Hybrid!market
    <3>. QED BY <1>2, <1>5, <2>4, <3>1, QuietRaise
  <2>. QED BY <1>5, <2>2, <2>3, <2>4 DEF Hybrid!SubmitOrder, Refused
<1>. QED BY <1>4, <1>5 DEF Hybrid!Entry

(* The state after the entry is saved, and the waiter is given the answer. *)
LEMMA SaveEntryKeeps ==
  ASSUME Hybrid!ProbeAssumption, HybridInv, Hybrid!SaveEntry
  PROVE  HybridInv'
<1>1. PICK r \in Probes : r = probe
  BY DEF HybridInv, ThreadInv, Hybrid!SaveEntry
<1>2. /\ pc = "save entry" /\ pc \notin {"idle", "check", "release"} /\ heard' = [heard EXCEPT ![<<r, "entry">>] = snapshot]
      /\ stage' = [stage EXCEPT ![r] = "ENTRY_SUBMITTED"] /\ pc' = "wait entry" /\ probe' = probe
      /\ UNCHANGED <<lock, probeRow, exchange, opened, position, entries, snapshot, entered, expired>>
  BY <1>1 DEF Hybrid!SaveEntry, Hybrid!Save, Hybrid!GoTo, Hybrid!Seeded, Hybrid!market, Hybrid!entry
<1>3. Under(r) /\ ProbeInv(r) /\ IsTrue(EntryOf(r), snapshot) /\ snapshot \in Snapshots /\ entered \in Nat
      /\ probeRow \in [Probes -> Hybrid!RowStatus]
  BY <1>1, <1>2 DEF HybridInv, ThreadInv, HybridTypes
<1>4. /\ Others(r) /\ position' - position = opened'[r] - opened[r] /\ MarketTypes' /\ EntryOf(r)' = EntryOf(r)
      /\ FlattenOf(r)' = FlattenOf(r) /\ (EntryIsOver(r)' <=> EntryIsOver(r))
  BY <1>2, QuietVenues, VenuesStay
<1>5. /\ heard' \in [Hybrid!Orders -> Snapshots] /\ HeardSame(r) /\ HeardEntry(r)' = snapshot
  <2>1. "entry" \in {"entry", "flatten"}
    OBVIOUS
  <2>. QED BY <1>2, <1>3, <2>1, SeededIs
<1>6. entries' \in [Probes -> Nat] /\ \A p \in Probes : entries'[p] = entries[p] /\ opened'[p] = opened[p]
  BY <1>2 DEF HybridInv, HybridTypes
<1>7. VenueInv(r)'
  BY <1>3, <1>4, <1>5, <1>6 DEF VenueInv, ProbeInv
<1>8. VenuesInv'
  BY <1>4, <1>5, <1>6, <1>7, VenuesFrom
<1>9. /\ StageMoves(r, "ENTRY_SUBMITTED", probeRow[r])
      /\ "ENTRY_SUBMITTED" \in Hybrid!Stage \ (Hybrid!Final \cup {"NONE"}) /\ probeRow[r] \in Hybrid!RowStatus \ Hybrid!Final
  BY <1>2, <1>3 DEF StageMoves, Hybrid!Stage, Hybrid!Final, Under, ProbeInv
<1>10. IsTrue(EntryOf(r)', snapshot')
  BY <1>2, <1>3, <1>4
<1>11. HeardEntry(r)'.status \in Hybrid!Terminal /\ EntryOf(r)' = Hybrid!Nothing => snapshot'.status = "REJECTED"
  BY <1>2, <1>3, <1>4, <1>5, NothingIs DEF IsTrue
<1>12. pc' \in Hybrid!Steps \ {"idle", "check", "release"} /\ snapshot' \in Snapshots /\ entered' \in Nat
  BY <1>2, <1>3 DEF Hybrid!Steps
<1>. QED BY <1>1, <1>2, <1>4, <1>5, <1>8, <1>9, <1>10, <1>11, <1>12, ThreadKeeps

(* The probe is over.                                                      *)
LEMMA FinalKeeps ==
  ASSUME Hybrid!ProbeAssumption, HybridInv, NEW r \in Probes, r = probe, probe' = probe,
         pc \notin {"idle", "check", "release"}, pc' = "release",
         NEW x \in Hybrid!Final, stage' = [stage EXCEPT ![r] = x],
         UNCHANGED <<lock, probeRow, exchange, opened, position, entries, heard, expired>>,
         snapshot' \in Snapshots, entered' \in Nat,
         ~expired => opened[r] = 0 /\ ~Resting(r)
  PROVE  HybridInv'
<1>1. Under(r) /\ stage \in [Probes -> Hybrid!Stage] /\ x \in Hybrid!Stage
  BY DEF HybridInv, ThreadInv, HybridTypes, Hybrid!Final, Hybrid!Stage
<1>2. stage'[r] = x /\ stage' \in [Probes -> Hybrid!Stage] /\ \A p \in Probes : p # r => stage'[p] = stage[p]
  BY <1>1
<1>3. UNCHANGED <<exchange, opened, position, heard, entries>>
  OBVIOUS
<1>4. HybridTypes'
  BY <1>2, <1>3, ThreadStep DEF HybridInv, HybridTypes, Hybrid!Steps
<1>5. ThreadInv'
  BY <1>2 DEF ThreadInv
<1>6. x # "NONE" /\ x # "PREPARED"
  BY DEF Hybrid!Final
<1>7. ASSUME NEW p \in Probes PROVE ProbeInv(p)'
  <2>1. CASE p = r
    BY <1>2, <1>3, <1>6, <2>1, ThreadStep DEF HybridInv, ProbeInv, IsTrue
  <2>2. CASE p # r
    <3>1. /\ EntryOf(p)' = EntryOf(p) /\ FlattenOf(p)' = FlattenOf(p) /\ HeardEntry(p)' = HeardEntry(p)
          /\ (EntryIsOver(p)' <=> EntryIsOver(p)) /\ stage'[p] = stage[p] /\ ProbeInv(p) /\ p # probe
      BY <1>2, <1>3, <2>2, ThreadStep DEF HybridInv
    <3>. QED BY <3>1 DEF ProbeInv, IsTrue
  <2>. QED BY <2>1, <2>2
<1>8. LocksInv'
  <2>1. ASSUME ~expired', NEW p \in Probes PROVE LockInv(p)'
    BY <1>2, <1>3, <2>1, ThreadStep DEF HybridInv, LocksInv, LockInv, Under
  <2>. QED BY <2>1 DEF HybridInv, LocksInv
<1>. QED BY <1>4, <1>5, <1>7, <1>8 DEF HybridInv

(* The wait for the entry: filled, still at work, refused, or no answer.   *)
LEMMA WaitEntryKeeps ==
  ASSUME Hybrid!ProbeAssumption, HybridInv, Hybrid!WaitEntry
  PROVE  HybridInv'
<1>1. PICK r \in Probes : r = probe
  BY DEF HybridInv, ThreadInv, Hybrid!WaitEntry
<1>. DEFINE s == IF snapshot.status \in Hybrid!Terminal THEN snapshot ELSE HeardEntry(r)
<1>2. /\ pc \in {"wait entry", "wait cancel"} /\ pc \notin {"idle", "check", "release"}
      /\ UNCHANGED <<exchange, opened, position, entries, heard, expired>> /\ Hybrid!Confirmed(Hybrid!entry) = s
  BY <1>1 DEF Hybrid!WaitEntry, Hybrid!market, Hybrid!Confirmed, Hybrid!entry, HeardEntry
<1>3. /\ Under(r) /\ ProbeInv(r) /\ IsTrue(EntryOf(r), snapshot) /\ snapshot \in Snapshots /\ entered \in Nat
      /\ HeardEntry(r) \in Snapshots /\ EntryOf(r) \in Snapshots
  BY <1>1, <1>2 DEF HybridInv, ThreadInv, HybridTypes, HeardEntry, EntryOf, Hybrid!Orders, Hybrid!Sides
<1>4. s \in Snapshots /\ IsTrue(EntryOf(r), s)
  BY <1>3 DEF ProbeInv
<1>. HIDE DEF s
<1>5. /\ VenuesInv' /\ Others(r) /\ position' - position = opened'[r] - opened[r] /\ HeardSame(r)
      /\ HeardEntry(r)' = HeardEntry(r) /\ HeardFlatten(r)' = HeardFlatten(r) /\ EntryOf(r)' = EntryOf(r)
      /\ FlattenOf(r)' = FlattenOf(r) /\ (EntryIsOver(r)' <=> EntryIsOver(r))
  BY <1>2, QuietVenues
<1>6. CASE Hybrid!EntryOver(s)
  <2>1. s.status \in Hybrid!Terminal /\ snapshot' = s /\ lock' = lock
    BY <1>6 DEF Hybrid!EntryOver
  <2>2. CASE s.filled = 0
    <3>1. stage' = [stage EXCEPT ![r] = "FAILED_NO_EXPOSURE"] /\ pc' = "release" /\ probe' = probe /\ UNCHANGED <<entered, probeRow>>
      BY <1>1, <1>6, <2>2 DEF Hybrid!EntryOver, Hybrid!Save, Hybrid!GoTo
    <3>2. EntryOf(r).filled = 0 /\ EntryOf(r).status # "ACCEPTED"
      BY <1>4, <2>1, <2>2, NothingIs DEF IsTrue, Hybrid!Terminal
    <3>3. FlattenOf(r) = Hybrid!Nothing /\ opened[r] = 0
      <4>1. ~EntryIsOver(r)
        BY <3>2 DEF EntryIsOver
      <4>. QED BY <1>3, <3>2, <4>1 DEF ProbeInv
    <3>4. opened[r] = 0 /\ ~Resting(r)
      BY <3>2, <3>3, NothingIs DEF Resting
    <3>5. "FAILED_NO_EXPOSURE" \in Hybrid!Final /\ snapshot' \in Snapshots /\ entered' \in Nat
      BY <1>3, <1>4, <2>1, <3>1 DEF Hybrid!Final
    <3>. QED BY <1>1, <1>2, <2>1, <3>1, <3>4, <3>5, FinalKeeps
  <2>3. CASE s.filled # 0
    <3>1. /\ stage' = [stage EXCEPT ![r] = "FLATTENING"] /\ probeRow' = [probeRow EXCEPT ![r] = "FLATTENING"]
          /\ pc' = "flatten" /\ probe' = probe /\ entered' = s.filled
      BY <1>1, <1>6, <2>3 DEF Hybrid!EntryOver, Hybrid!Save, Hybrid!SaveRow, Hybrid!GoTo
    <3>2. s = EntryOf(r) /\ EntryIsOver(r) /\ s.filled \in Nat
      BY <1>3, <1>4, <2>1, <2>3, NothingIs DEF IsTrue, EntryIsOver, Snapshots
    <3>3. /\ StageMoves(r, "FLATTENING", "FLATTENING") /\ "FLATTENING" \in Hybrid!Stage \ (Hybrid!Final \cup {"NONE"})
          /\ "FLATTENING" \in Hybrid!RowStatus \ Hybrid!Final
      BY <3>1 DEF StageMoves, Hybrid!Stage, Hybrid!Final, Hybrid!RowStatus
    <3>4. /\ pc' \in Hybrid!Steps \ {"idle", "check", "release"} /\ snapshot' \in Snapshots /\ entered' \in Nat
          /\ EntryIsOver(r)' /\ entered' = EntryOf(r)'.filled /\ EntryOf(r)' # Hybrid!Nothing
      BY <1>4, <1>5, <2>1, <3>1, <3>2, NothingIs DEF Hybrid!Steps, EntryIsOver
    <3>. QED BY <1>1, <1>2, <1>5, <2>1, <3>1, <3>3, <3>4, ThreadKeeps
  <2>. QED BY <2>2, <2>3
<1>7. CASE s.status \notin Hybrid!Terminal /\ Hybrid!GoTo("cancel") /\ UNCHANGED <<Hybrid!redis, snapshot, entered>>
  <2>1. pc' = "cancel" /\ probe' = probe /\ UNCHANGED <<lock, stage, probeRow, snapshot, entered>>
    BY <1>7 DEF Hybrid!GoTo, Hybrid!redis
  <2>2. /\ StageMoves(r, stage[r], probeRow[r])
        /\ stage[r] \in Hybrid!Stage \ (Hybrid!Final \cup {"NONE"}) /\ probeRow[r] \in Hybrid!RowStatus \ Hybrid!Final
    BY <1>1, <1>2, <2>1, StagesStay
  <2>3. snapshot.status \notin Hybrid!Terminal /\ snapshot.status # "REJECTED"
    BY <1>7 DEF s, Hybrid!Terminal
  <2>4. /\ ~(HeardEntry(r).status \in Hybrid!Terminal /\ EntryOf(r) = Hybrid!Nothing)
        /\ (stage[r] = "PREPARED" => EntryOf(r) = Hybrid!Nothing)
    BY <1>2, <1>3, <2>3 DEF ProbeInv, Under
  <2>5. /\ pc' \in Hybrid!Steps \ {"idle", "check", "release"} /\ snapshot' \in Snapshots /\ entered' \in Nat
        /\ IsTrue(EntryOf(r)', snapshot')
    BY <1>3, <1>5, <2>1 DEF Hybrid!Steps
  <2>. QED BY <1>1, <1>2, <1>5, <2>1, <2>2, <2>4, <2>5, ThreadKeeps
<1>8. CASE s.status \notin Hybrid!Terminal /\ Hybrid!Raise
  <2>1. snapshot.status # "REJECTED"
    BY <1>8 DEF s, Hybrid!Terminal
  <2>. QED BY <1>2, <1>8, <2>1, QuietRaise
<1>. QED BY <1>2, <1>6, <1>7, <1>8 DEF Hybrid!WaitEntry

(* What is left of the entry is taken back; the order may fill before it   *)
(* is.                                                                     *)
LEMMA CancelKeeps ==
  ASSUME Hybrid!ProbeAssumption, HybridInv, Hybrid!CancelEntry
  PROVE  HybridInv'
<1>1. PICK r \in Probes : r = probe
  BY DEF HybridInv, ThreadInv, Hybrid!CancelEntry
<1>2. pc = "cancel" /\ pc \notin {"idle", "check", "release"} /\ entries' = entries /\ expired' = expired
      /\ Hybrid!entry = <<r, "entry">> /\ exchange[Hybrid!entry] = EntryOf(r) /\ exchange'[Hybrid!entry] = EntryOf(r)'
  BY <1>1 DEF Hybrid!CancelEntry, Hybrid!entry, EntryOf
<1>3. Under(r) /\ ProbeInv(r) /\ entered \in Nat /\ EntryOf(r) \in Snapshots /\ opened[r] \in Int /\ position \in Int
      /\ heard \in [Hybrid!Orders -> Snapshots] /\ entries \in [Probes -> Nat]
  BY <1>1, <1>2 DEF HybridInv, ThreadInv, HybridTypes, EntryOf, Hybrid!Orders, Hybrid!Sides
<1>4. CASE /\ EntryOf(r).status = "ACCEPTED"
           /\ Hybrid!Reports(<<r, "entry">>, EntryOf(r), [EntryOf(r) EXCEPT !.status = "CANCELED"])
           /\ \/ /\ snapshot' = EntryOf(r)' /\ heard' = Hybrid!Seeded(<<r, "entry">>, EntryOf(r)')
                 /\ Hybrid!GoTo("wait cancel") /\ UNCHANGED <<Hybrid!redis, entered>>
              \/ Hybrid!Raise /\ heard' = heard
  <2>. DEFINE z == [EntryOf(r) EXCEPT !.status = "CANCELED"]
              e == EntryOf(r)
  <2>1. e \in Snapshots /\ z \in Snapshots /\ z.filled = e.filled /\ z.status = "CANCELED" /\ z.filled - e.filled = 0 /\ e.filled \in Nat
    BY <1>3 DEF Snapshots, Hybrid!Status
  <2>2. Hybrid!Reports(<<r, "entry">>, e, z) /\ "entry" \in {"entry", "flatten"}
    BY <1>4
  <2>. HIDE DEF z, e
  <2>3. /\ MarketTypes' /\ Others(r) /\ EntryOf(r)' = z /\ FlattenOf(r)' = FlattenOf(r)
        /\ opened'[r] = opened[r] + (z.filled - e.filled) /\ position' = position + (z.filled - e.filled)
    <3>1. /\ MarketTypes' /\ Others(r)
          /\ EntryOf(r)' = (IF "entry" = "entry" THEN z ELSE EntryOf(r))
          /\ FlattenOf(r)' = (IF "entry" = "flatten" THEN z ELSE FlattenOf(r))
          /\ opened'[r] = opened[r] + (IF "entry" = "entry" THEN z.filled - e.filled ELSE e.filled - z.filled)
          /\ position' = position + (IF "entry" = "entry" THEN z.filled - e.filled ELSE e.filled - z.filled)
      BY <2>1, <2>2, ReportIs
    <3>. QED BY <3>1
  <2>4. opened'[r] = opened[r] /\ position' - position = opened'[r] - opened[r]
    BY <1>3, <2>1, <2>3
  <2>5. EntryOf(r) # Hybrid!Nothing /\ ~EntryIsOver(r) /\ EntryOf(r)' # Hybrid!Nothing
    BY <1>4, <2>1, <2>3, NothingIs DEF EntryIsOver, Hybrid!Terminal
  <2>6. FlattenOf(r) = Hybrid!Nothing /\ opened[r] = EntryOf(r).filled /\ entries[r] = 1 /\ entries'[r] = 1
        /\ stage[r] # "PREPARED" /\ entries' \in [Probes -> Nat]
    BY <1>2, <1>3, <2>5 DEF ProbeInv
  <2>7. HeardEntry(r).status \notin Hybrid!Terminal
    BY <1>3, <1>4, <2>5 DEF ProbeInv, IsTrue, Hybrid!Terminal
  <2>8. ASSUME IsTrue(EntryOf(r)', HeardEntry(r)') PROVE VenueInv(r)'
    BY <2>1, <2>3, <2>4, <2>5, <2>6, <2>8 DEF VenueInv, e
  <2>9. ASSUME Hybrid!Raise, heard' = heard PROVE HybridInv'
    <3>1. HeardSame(r) /\ HeardEntry(r)' = HeardEntry(r)
      BY <2>9 DEF HeardSame, HeardEntry, HeardFlatten
    <3>2. VenueInv(r)'
      BY <2>7, <2>8, <3>1 DEF IsTrue
    <3>3. VenuesInv'
      BY <1>2, <1>3, <2>3, <2>6, <2>9, <3>1, <3>2, VenuesFrom
    <3>. QED BY <1>1, <1>2, <2>3, <2>4, <2>5, <2>9, <3>1, <3>3, RaiseKeeps
  <2>10. ASSUME /\ snapshot' = EntryOf(r)' /\ heard' = Hybrid!Seeded(<<r, "entry">>, EntryOf(r)')
                /\ Hybrid!GoTo("wait cancel") /\ UNCHANGED <<Hybrid!redis, entered>>
         PROVE  HybridInv'
    <3>1. /\ heard' = [heard EXCEPT ![<<r, "entry">>] = z] /\ pc' = "wait cancel" /\ probe' = probe /\ snapshot' = z
          /\ UNCHANGED <<lock, stage, probeRow, entered>>
      BY <2>3, <2>10 DEF Hybrid!Seeded, Hybrid!GoTo, Hybrid!redis
    <3>2. /\ heard' \in [Hybrid!Orders -> Snapshots] /\ HeardSame(r) /\ HeardEntry(r)' = z
      BY <2>1, <2>2, <3>1, SeededIs
    <3>3. IsTrue(EntryOf(r)', HeardEntry(r)') /\ IsTrue(EntryOf(r)', snapshot')
      BY <2>3, <3>1, <3>2 DEF IsTrue
    <3>4. VenuesInv'
      BY <1>2, <1>3, <2>3, <2>6, <2>8, <3>2, <3>3, VenuesFrom
    <3>5. /\ StageMoves(r, stage[r], probeRow[r])
          /\ stage[r] \in Hybrid!Stage \ (Hybrid!Final \cup {"NONE"}) /\ probeRow[r] \in Hybrid!RowStatus \ Hybrid!Final
      BY <1>1, <1>2, <3>1, StagesStay
    <3>6. pc' \in Hybrid!Steps \ {"idle", "check", "release"} /\ snapshot' \in Snapshots /\ entered' \in Nat
      BY <1>3, <2>1, <3>1 DEF Hybrid!Steps
    <3>. QED BY <1>1, <1>2, <2>3, <2>4, <2>5, <2>6, <3>1, <3>2, <3>3, <3>4, <3>5, <3>6, ThreadKeeps
  <2>. QED BY <1>4, <2>9, <2>10
<1>5. CASE Hybrid!Raise /\ UNCHANGED <<heard, exchange, opened, position, news>>
  BY <1>2, <1>5, QuietRaise
<1>. QED BY <1>2, <1>4, <1>5 DEF Hybrid!CancelEntry

(* _flatten_order: the closing order is asked for, then sent for what the  *)
(* entry filled.                                                           *)
LEMMA FlattenKeeps ==
  ASSUME Hybrid!ProbeAssumption, HybridInv, Hybrid!Flatten
  PROVE  HybridInv'
<1>1. PICK r \in Probes : r = probe
  BY DEF HybridInv, ThreadInv, Hybrid!Flatten
<1>2. /\ pc = "flatten" /\ expired' = expired /\ pc \notin {"idle", "check", "release"} /\ Under(r) /\ ProbeInv(r)
      /\ EntryIsOver(r) /\ entered = EntryOf(r).filled /\ entered \in Nat
  BY <1>1 DEF HybridInv, ThreadInv, Hybrid!Flatten, HybridTypes
<1>3. Hybrid!flatten = <<r, "flatten">> /\ exchange[Hybrid!flatten] = FlattenOf(r) /\ EntryOf(r) # Hybrid!Nothing
  BY <1>1, <1>2, NothingIs DEF Hybrid!flatten, FlattenOf, EntryIsOver
<1>4. CASE Hybrid!Query(Hybrid!flatten, "wait flatten") /\ UNCHANGED Hybrid!market
  <2>1. UNCHANGED <<exchange, opened, position, entries>>
    BY <1>4 DEF Hybrid!market
  <2>2. ASSUME /\ exchange[<<r, "flatten">>] # Hybrid!Nothing
               /\ snapshot' = exchange[<<r, "flatten">>] /\ heard' = Hybrid!Seeded(<<r, "flatten">>, exchange[<<r, "flatten">>])
               /\ Hybrid!GoTo("wait flatten") /\ UNCHANGED <<Hybrid!redis, entered>>
        PROVE  HybridInv'
    <3>1. /\ heard' = [heard EXCEPT ![<<r, "flatten">>] = exchange[<<r, "flatten">>]] /\ pc' = "wait flatten" /\ probe' = probe
          /\ UNCHANGED <<lock, stage, probeRow, entered>>
      BY <2>2 DEF Hybrid!Seeded, Hybrid!GoTo, Hybrid!redis
    <3>2. "flatten" \in {"entry", "flatten"}
      OBVIOUS
    <3>. QED BY <1>1, <1>2, <2>1, <2>2, <3>1, <3>2, QueryKeeps
  <2>3. ASSUME Hybrid!Raise, heard' = heard PROVE HybridInv'
    BY <1>2, <2>1, <2>3, QuietRaise
  <2>. QED BY <1>3, <1>4, <2>2, <2>3 DEF Hybrid!Query
<1>5. CASE Hybrid!SubmitOrder(Hybrid!flatten, entered, "save flatten") /\ heard' = heard
  <2>2. ASSUME NEW s \in Hybrid!Taken(Hybrid!flatten, entered), Hybrid!Reports(Hybrid!flatten, Hybrid!Nothing, s),
               entries' = (IF Hybrid!flatten[2] = "entry" THEN [entries EXCEPT ![Hybrid!flatten[1]] = @ + 1] ELSE entries)
        PROVE  /\ snapshot' = s /\ Hybrid!GoTo("save flatten") /\ UNCHANGED <<Hybrid!redis, entered>> => HybridInv'
               /\ Hybrid!Raise => HybridInv'
    <3>1. s \in Snapshots /\ s # Hybrid!Nothing
      BY <1>2, FillsAreIn
    <3>2. Hybrid!Reports(<<r, "flatten">>, Hybrid!Nothing, s) /\ entries' = entries
      BY <1>3, <2>2
    <3>3. (Answered(r, s, "save flatten") => HybridInv') /\ (Hybrid!Raise => HybridInv')
      BY <1>1, <1>2, <1>5, <3>1, <3>2, TakenFlatten
    <3>4. snapshot' = s /\ Hybrid!GoTo("save flatten") /\ UNCHANGED <<Hybrid!redis, entered>> => Answered(r, s, "save flatten")
      BY DEF Answered, Hybrid!GoTo, Hybrid!redis
    <3>. QED BY <3>3, <3>4
  <2>3. ASSUME snapshot' = Refused, Hybrid!GoTo("save flatten"), UNCHANGED <<Hybrid!redis, Hybrid!market, entered>>
        PROVE  HybridInv'
    <3>1. /\ UNCHANGED <<exchange, opened, position, entries, lock, stage, probeRow, entered>> /\ pc' = "save flatten" /\ probe' = probe
      BY <2>3 DEF Hybrid!market, Hybrid!redis, Hybrid!GoTo
    <3>2. /\ VenuesInv' /\ Others(r) /\ position' - position = opened'[r] - opened[r] /\ HeardSame(r)
          /\ EntryOf(r)' = EntryOf(r) /\ (EntryIsOver(r)' <=> EntryIsOver(r))
      BY <1>5, <3>1, QuietVenues
    <3>3. /\ StageMoves(r, stage[r], probeRow[r])
          /\ stage[r] \in Hybrid!Stage \ (Hybrid!Final \cup {"NONE"}) /\ probeRow[r] \in Hybrid!RowStatus \ Hybrid!Final
      BY <1>1, <1>2, <3>1, StagesStay
    <3>4. /\ snapshot' \in Snapshots /\ snapshot'.filled = 0 /\ entered' \in Nat /\ EntryIsOver(r)' /\ entered' = EntryOf(r)'.filled
          /\ stage[r] # "PREPARED" /\ EntryOf(r)' # Hybrid!Nothing
      BY <1>2, <1>3, <2>3, <3>1, <3>2, NothingIs DEF ProbeInv
    <3>5. ~(snapshot'.filled > 0)
      BY <3>4
    <3>6. pc' \in Hybrid!Steps \ {"idle", "check", "release"}
      BY <3>1 DEF Hybrid!Steps
    <3>. QED BY <1>1, <1>2, <3>1, <3>2, <3>3, <3>4, <3>5, <3>6, ThreadKeeps
  <2>4. ASSUME Hybrid!Raise, UNCHANGED Hybrid!market PROVE HybridInv'
    <3>1. UNCHANGED <<exchange, opened, position, entries>>
      BY <2>4 DEF Hybrid!market
    <3>. QED BY <1>2, <1>5, <2>4, <3>1, QuietRaise
  <2>. QED BY <1>5, <2>2, <2>3, <2>4 DEF Hybrid!SubmitOrder, Refused
<1>. QED BY <1>4, <1>5 DEF Hybrid!Flatten

(* The state after the closing order is saved.                             *)
LEMMA SaveFlattenKeeps ==
  ASSUME Hybrid!ProbeAssumption, HybridInv, Hybrid!SaveFlatten
  PROVE  HybridInv'
<1>1. PICK r \in Probes : r = probe
  BY DEF HybridInv, ThreadInv, Hybrid!SaveFlatten
<1>2. /\ pc = "save flatten" /\ pc \notin {"idle", "check", "release"} /\ heard' = [heard EXCEPT ![<<r, "flatten">>] = snapshot]
      /\ pc' = "wait flatten" /\ probe' = probe
      /\ UNCHANGED <<lock, stage, probeRow, exchange, opened, position, entries, snapshot, entered, expired>>
  BY <1>1 DEF Hybrid!SaveFlatten, Hybrid!GoTo, Hybrid!Seeded, Hybrid!market, Hybrid!flatten
<1>3. /\ ProbeInv(r) /\ snapshot \in Snapshots /\ entered \in Nat /\ EntryIsOver(r) /\ entered = EntryOf(r).filled
      /\ (snapshot.status \in Hybrid!Terminal /\ snapshot.filled > 0 => snapshot = FlattenOf(r))
  BY <1>1, <1>2 DEF HybridInv, ThreadInv, HybridTypes
<1>4. /\ Others(r) /\ position' - position = opened'[r] - opened[r] /\ MarketTypes' /\ EntryOf(r)' = EntryOf(r)
      /\ FlattenOf(r)' = FlattenOf(r) /\ (EntryIsOver(r)' <=> EntryIsOver(r))
  BY <1>2, QuietVenues, VenuesStay
<1>5. /\ heard' \in [Hybrid!Orders -> Snapshots] /\ HeardSame(r) /\ HeardFlatten(r)' = snapshot /\ HeardEntry(r)' = HeardEntry(r)
  <2>1. "flatten" \in {"entry", "flatten"} /\ "flatten" # "entry"
    OBVIOUS
  <2>. QED BY <1>2, <1>3, <2>1, SeededIs
<1>6. entries' \in [Probes -> Nat] /\ \A p \in Probes : entries'[p] = entries[p] /\ opened'[p] = opened[p]
  BY <1>2 DEF HybridInv, HybridTypes
<1>7. VenueInv(r)'
  BY <1>3, <1>4, <1>5, <1>6 DEF VenueInv, ProbeInv
<1>8. VenuesInv'
  BY <1>4, <1>5, <1>6, <1>7, VenuesFrom
<1>9. /\ StageMoves(r, stage[r], probeRow[r])
      /\ stage[r] \in Hybrid!Stage \ (Hybrid!Final \cup {"NONE"}) /\ probeRow[r] \in Hybrid!RowStatus \ Hybrid!Final
  BY <1>1, <1>2, StagesStay
<1>10. /\ EntryIsOver(r)' /\ entered' = EntryOf(r)'.filled /\ EntryOf(r)' # Hybrid!Nothing /\ stage[r] # "PREPARED"
  BY <1>2, <1>3, <1>4, NothingIs DEF EntryIsOver, ProbeInv
<1>11. (snapshot'.status \in Hybrid!Terminal /\ snapshot'.filled > 0 => snapshot' = FlattenOf(r)')
  BY <1>2, <1>3, <1>4
<1>12. pc' \in Hybrid!Steps \ {"idle", "check", "release"} /\ snapshot' \in Snapshots /\ entered' \in Nat /\ HeardFlatten(r)' = snapshot'
  BY <1>2, <1>3, <1>5 DEF Hybrid!Steps
<1>. QED BY <1>1, <1>2, <1>4, <1>5, <1>8, <1>9, <1>10, <1>11, <1>12, ThreadKeeps

(* The wait for the closing order, which has to be whole.                  *)
LEMMA WaitFlattenKeeps ==
  ASSUME Hybrid!ProbeAssumption, HybridInv, Hybrid!WaitFlatten
  PROVE  HybridInv'
<1>1. PICK r \in Probes : r = probe
  BY DEF HybridInv, ThreadInv, Hybrid!WaitFlatten
<1>. DEFINE s == IF snapshot.status \in Hybrid!Terminal THEN snapshot ELSE HeardFlatten(r)
<1>2. /\ pc = "wait flatten" /\ pc \notin {"idle", "check", "release"}
      /\ UNCHANGED <<exchange, opened, position, entries, heard, expired>> /\ Hybrid!Confirmed(Hybrid!flatten) = s
  BY <1>1 DEF Hybrid!WaitFlatten, Hybrid!market, Hybrid!Confirmed, Hybrid!flatten, HeardFlatten
<1>3. /\ ProbeInv(r) /\ snapshot \in Snapshots /\ entered \in Nat /\ EntryIsOver(r) /\ entered = EntryOf(r).filled
      /\ (snapshot.status \in Hybrid!Terminal /\ snapshot.filled > 0 => snapshot = FlattenOf(r))
      /\ (snapshot.status \notin Hybrid!Terminal /\ HeardFlatten(r).status \in Hybrid!Terminal => HeardFlatten(r) = FlattenOf(r))
  BY <1>1, <1>2 DEF HybridInv, ThreadInv, HybridTypes
<1>4. /\ VenuesInv' /\ Others(r) /\ position' - position = opened'[r] - opened[r] /\ HeardSame(r)
      /\ EntryOf(r)' = EntryOf(r) /\ FlattenOf(r)' = FlattenOf(r) /\ (EntryIsOver(r)' <=> EntryIsOver(r))
  BY <1>2, QuietVenues
<1>5. CASE s.status \in Hybrid!Terminal /\ s.filled >= entered /\ Hybrid!GoTo("finish") /\ UNCHANGED <<Hybrid!redis, snapshot, entered>>
  <2>1. pc' = "finish" /\ probe' = probe /\ UNCHANGED <<lock, stage, probeRow, snapshot, entered>>
    BY <1>5 DEF Hybrid!GoTo, Hybrid!redis
  <2>2. /\ StageMoves(r, stage[r], probeRow[r])
        /\ stage[r] \in Hybrid!Stage \ (Hybrid!Final \cup {"NONE"}) /\ probeRow[r] \in Hybrid!RowStatus \ Hybrid!Final
    BY <1>1, <1>2, <2>1, StagesStay
  <2>3. entered > 0 /\ EntryOf(r) # Hybrid!Nothing /\ stage[r] # "PREPARED"
    BY <1>2, <1>3, NothingIs DEF EntryIsOver, ProbeInv
  <2>4. FlattenOf(r).status \in Hybrid!Terminal
    <3>1. CASE snapshot.status \in Hybrid!Terminal
      <4>1. s = snapshot /\ snapshot.filled \in Nat
        BY <1>3, <3>1 DEF Snapshots
      <4>2. snapshot.filled > 0
        BY <1>3, <1>5, <2>3, <4>1
      <4>. QED BY <1>3, <3>1, <4>2
    <3>2. CASE snapshot.status \notin Hybrid!Terminal
      BY <1>3, <1>5, <3>2
    <3>. QED BY <3>1, <3>2
  <2>5. /\ pc' \in Hybrid!Steps \ {"idle", "check", "release"} /\ snapshot' \in Snapshots /\ entered' \in Nat
        /\ EntryIsOver(r)' /\ entered' = EntryOf(r)'.filled
    BY <1>3, <1>4, <2>1 DEF Hybrid!Steps
  <2>. QED BY <1>1, <1>2, <1>4, <2>1, <2>2, <2>3, <2>4, <2>5, ThreadKeeps
<1>6. CASE Hybrid!Raise
  BY <1>2, <1>6, QuietRaise
<1>. HIDE DEF s
<1>. QED BY <1>2, <1>5, <1>6 DEF Hybrid!WaitFlatten

(* The account is looked at; the probe is over when it is flat.            *)
LEMMA FinishKeeps ==
  ASSUME Hybrid!ProbeAssumption, HybridInv, Hybrid!Finish
  PROVE  HybridInv'
<1>1. PICK r \in Probes : r = probe
  BY DEF HybridInv, ThreadInv, Hybrid!Finish
<1>2. pc = "finish" /\ pc \notin {"idle", "check", "release"} /\ UNCHANGED <<exchange, opened, position, entries, heard, expired>>
  BY DEF Hybrid!Finish, Hybrid!market
<1>3. Under(r) /\ EntryIsOver(r) /\ FlattenOf(r).status \in Hybrid!Terminal /\ snapshot \in Snapshots /\ entered \in Nat
  BY <1>1, <1>2 DEF HybridInv, ThreadInv, HybridTypes
<1>4. ~Resting(r)
  BY <1>3 DEF Resting, EntryIsOver, Hybrid!Terminal
<1>5. CASE /\ position = 0
           /\ Hybrid!Save("FLAT") \/ Hybrid!Save("FAILED_SAMPLE_INVALID")
           /\ Hybrid!GoTo("release") /\ UNCHANGED <<lock, flattened, probeRow, snapshot, entered>>
  <2>1. PICK x \in Hybrid!Final : stage' = [stage EXCEPT ![r] = x]
    BY <1>1, <1>5 DEF Hybrid!Save, Hybrid!Final
  <2>2. ~expired => opened[r] = 0
    BY <1>3, <1>5 DEF HybridInv, LocksInv, LockInv
  <2>3. pc' = "release" /\ probe' = probe
    BY <1>5 DEF Hybrid!GoTo
  <2>. QED BY <1>1, <1>2, <1>3, <1>4, <1>5, <2>1, <2>2, <2>3, FinalKeeps
<1>6. CASE Hybrid!Raise
  BY <1>2, <1>6, QuietRaise
<1>. QED BY <1>5, <1>6 DEF Hybrid!Finish, Hybrid!AccountFlat

(* The lock is given back by a probe that is over.                         *)
LEMMA ReleaseKeeps ==
  ASSUME Hybrid!ProbeAssumption, HybridInv, Hybrid!Release
  PROVE  HybridInv'
<1>1. PICK r \in Probes : r = probe
  BY DEF HybridInv, ThreadInv, Hybrid!Release
<1>2. /\ pc = "release" /\ probeRow' = [probeRow EXCEPT ![r] = stage[r]] /\ lock' = (IF lock = r THEN Hybrid!NoOne ELSE lock)
      /\ pc' = "idle" /\ snapshot' = Hybrid!Nothing /\ entered' = 0
      /\ UNCHANGED <<stage, exchange, opened, position, entries, heard, expired>>
  BY <1>1 DEF Hybrid!Release, Hybrid!market, Hybrid!SaveRow, Hybrid!Released, Hybrid!Return
<1>3. stage[r] \in Hybrid!Final /\ stage[r] \in Hybrid!RowStatus /\ probeRow \in [Probes -> Hybrid!RowStatus]
  BY <1>1, <1>2 DEF HybridInv, ThreadInv, HybridTypes, Hybrid!Final, Hybrid!RowStatus, Hybrid!Stage
<1>4. UNCHANGED <<exchange, opened, position, heard, entries>>
  BY <1>2
<1>5. probeRow' \in [Probes -> Hybrid!RowStatus] /\ probeRow'[r] = stage[r] /\ \A p \in Probes : p # r => probeRow'[p] = probeRow[p]
  BY <1>2, <1>3
<1>6. HybridTypes'
  BY <1>2, <1>4, <1>5, ThreadStep, NothingIs DEF HybridInv, HybridTypes, Hybrid!Steps
<1>7. ThreadInv'
  BY <1>2 DEF ThreadInv
<1>8. ASSUME NEW p \in Probes PROVE ProbeInv(p)'
  <2>1. /\ EntryOf(p)' = EntryOf(p) /\ FlattenOf(p)' = FlattenOf(p) /\ HeardEntry(p)' = HeardEntry(p)
        /\ (EntryIsOver(p)' <=> EntryIsOver(p)) /\ stage'[p] = stage[p] /\ ProbeInv(p)
    BY <1>2, <1>4, ThreadStep DEF HybridInv
  <2>2. probeRow'[p] \in Hybrid!Final => stage'[p] \in Hybrid!Final
    BY <1>3, <1>5, <2>1 DEF ProbeInv
  <2>. QED BY <1>2, <2>1, <2>2 DEF ProbeInv, IsTrue
<1>9. LocksInv'
  <2>2. ASSUME ~expired', NEW p \in Probes PROVE LockInv(p)'
    <3>1. LockInv(p) /\ LockInv(r)
      BY <1>2, <2>2 DEF HybridInv, LocksInv
    <3>2. opened[r] = 0
      BY <1>3, <3>1 DEF LockInv
    <3>. QED BY <1>2, <1>3, <1>4, <3>1, <3>2, ThreadStep DEF LockInv, Under, Hybrid!ProbeAssumption
  <2>3. ASSUME ~expired', lock' = Hybrid!NoOne PROVE position' = 0
    <3>1. LockInv(r) /\ (lock = Hybrid!NoOne => position = 0)
      BY <1>2, <2>3 DEF HybridInv, LocksInv
    <3>. QED BY <1>2, <1>3, <2>3, <3>1 DEF LockInv
  <2>. QED BY <1>2, <2>2, <2>3 DEF LocksInv
<1>. QED BY <1>6, <1>7, <1>8, <1>9 DEF HybridInv

-----------------------------------------------------------------------------
(* The venue, the stream and the failures.                                 *)
LEMMA MovesKeeps ==
  ASSUME Hybrid!ProbeAssumption, HybridInv, NEW o \in Hybrid!Orders, Hybrid!VenueMoves(o)
  PROVE  HybridInv'
<1>1. PICK r \in Probes, d \in {"entry", "flatten"} : o = <<r, d>>
  BY DEF Hybrid!Orders, Hybrid!Sides
<1>2. /\ exchange[o].status = "ACCEPTED"
      /\ UNCHANGED <<lock, stage, probeRow, heard, entries, pc, probe, snapshot, entered, expired>>
  BY DEF Hybrid!VenueMoves, Hybrid!redis, Hybrid!thread
<1>3. PICK s \in Hybrid!Taken(o, Hybrid!Size(o)) : Hybrid!Reports(o, exchange[o], s)
  BY DEF Hybrid!VenueMoves
<1>4. /\ exchange \in [Hybrid!Orders -> Snapshots] /\ exchange[o] \in Snapshots /\ exchange[<<r, "entry">>] \in Snapshots
      /\ opened[r] \in Int /\ position \in Int
  BY <1>1 DEF HybridInv, HybridTypes, Hybrid!Orders, Hybrid!Sides
<1>5. Hybrid!Size(o) \in Nat
  BY <1>1, <1>4 DEF Hybrid!Size, Snapshots, Hybrid!ProbeAssumption
<1>6. s \in Snapshots /\ s # Hybrid!Nothing
  BY <1>5, FillsAreIn
<1>. DEFINE from == exchange[o]
            delta == IF d = "entry" THEN s.filled - from.filled ELSE from.filled - s.filled
<1>7. from \in Snapshots /\ Hybrid!Reports(<<r, d>>, from, s) /\ from.status = "ACCEPTED" /\ from # Hybrid!Nothing
  BY <1>1, <1>2, <1>3, <1>4, NothingIs
<1>8. (d = "entry" => from = EntryOf(r)) /\ (d = "flatten" => from = FlattenOf(r))
  BY <1>1 DEF EntryOf, FlattenOf
<1>9. delta \in Int /\ s.filled \in Nat /\ from.filled \in Nat /\ (d = "entry" => delta = s.filled - from.filled)
  BY <1>6, <1>7 DEF Snapshots
<1>. HIDE DEF from
<1>10. /\ MarketTypes' /\ Others(r)
       /\ EntryOf(r)' = (IF d = "entry" THEN s ELSE EntryOf(r))
       /\ FlattenOf(r)' = (IF d = "flatten" THEN s ELSE FlattenOf(r))
       /\ opened'[r] = opened[r] + delta /\ position' = position + delta
  BY <1>6, <1>7, ReportIs
<1>. HIDE DEF delta
<1>11. Resting(r) /\ ProbeInv(r)
  BY <1>7, <1>8 DEF Resting, HybridInv
<1>12. /\ d = "entry" => ~EntryIsOver(r) /\ EntryOf(r) # Hybrid!Nothing /\ FlattenOf(r) = Hybrid!Nothing
                          /\ HeardEntry(r).status \notin Hybrid!Terminal
       /\ d = "flatten" => EntryIsOver(r) /\ FlattenOf(r) # Hybrid!Nothing /\ EntryOf(r) # Hybrid!Nothing
  <2>1. ASSUME d = "entry" PROVE ~EntryIsOver(r) /\ EntryOf(r) # Hybrid!Nothing
    BY <1>7, <1>8, <2>1 DEF EntryIsOver, Hybrid!Terminal
  <2>2. ASSUME d = "entry" PROVE FlattenOf(r) = Hybrid!Nothing /\ HeardEntry(r).status \notin Hybrid!Terminal
    <3>1. EntryOf(r).status = "ACCEPTED"
      BY <1>7, <1>8, <2>2
    <3>. QED BY <1>11, <2>1, <2>2, <3>1 DEF ProbeInv, IsTrue, Hybrid!Terminal
  <2>3. ASSUME d = "flatten" PROVE EntryIsOver(r) /\ FlattenOf(r) # Hybrid!Nothing
    <3>1. FlattenOf(r) # Hybrid!Nothing
      BY <1>7, <1>8, <2>3
    <3>. QED BY <1>11, <3>1 DEF ProbeInv
  <2>4. EntryIsOver(r) => EntryOf(r) # Hybrid!Nothing
    BY NothingIs DEF EntryIsOver
  <2>. QED BY <2>1, <2>2, <2>3, <2>4
<1>13. EntryOf(r)' # Hybrid!Nothing /\ stage[r] # "NONE" /\ (stage[r] = "PREPARED" => pc = "save entry" /\ probe = r)
  BY <1>6, <1>10, <1>11, <1>12 DEF ProbeInv
<1>14. /\ HeardEntry(r)' = HeardEntry(r) /\ \A p \in Probes : HeardEntry(p)' = HeardEntry(p) /\ HeardFlatten(p)' = HeardFlatten(p)
       /\ entries' \in [Probes -> Nat] /\ heard' \in [Hybrid!Orders -> Snapshots]
  BY <1>2 DEF HeardEntry, HeardFlatten, HybridInv, HybridTypes
<1>15. HybridTypes'
  BY <1>2, <1>10, <1>14 DEF HybridInv, HybridTypes, MarketTypes
<1>16. ThreadInv'
  <2>1. CASE probe = r
    <3>1. /\ EntryOf(probe)' = EntryOf(r)' /\ FlattenOf(probe)' = FlattenOf(r)' /\ HeardFlatten(probe)' = HeardFlatten(r)
          /\ (EntryIsOver(probe)' <=> EntryIsOver(r)')
      BY <1>2, <1>14, <2>1 DEF EntryOf, FlattenOf, HeardFlatten, EntryIsOver
    <3>2. (Under(probe)' <=> Under(probe)) /\ (stage[probe])' = stage[probe]
      BY <1>2 DEF Under
    <3>3. CASE d = "entry"
      <4>1. /\ pc \in {"save entry", "wait entry", "cancel", "wait cancel"} => snapshot.status \notin Hybrid!Terminal
        BY <1>7, <1>8, <1>12, <2>1, <3>3 DEF HybridInv, ThreadInv, IsTrue, Hybrid!Terminal
      <4>2. pc \notin {"flatten", "save flatten", "wait flatten", "finish"}
        BY <1>12, <2>1, <3>3 DEF HybridInv, ThreadInv
      <4>. QED BY <1>2, <3>1, <3>2, <4>1, <4>2 DEF HybridInv, ThreadInv, IsTrue
    <3>4. CASE d = "flatten"
      <4>1. EntryOf(r)' = EntryOf(r) /\ (EntryIsOver(r)' <=> EntryIsOver(r)) /\ FlattenOf(r).status = "ACCEPTED"
        BY <1>7, <1>8, <1>10, <3>4 DEF EntryIsOver
      <4>2. /\ (pc \in {"save flatten", "wait flatten"} => ~(snapshot.status \in Hybrid!Terminal /\ snapshot.filled > 0))
            /\ (pc = "wait flatten" => ~(snapshot.status \notin Hybrid!Terminal /\ HeardFlatten(r).status \in Hybrid!Terminal))
            /\ pc # "finish"
        BY <2>1, <4>1 DEF HybridInv, ThreadInv, Hybrid!Terminal
      <4>. QED BY <1>2, <2>1, <3>1, <3>2, <4>1, <4>2 DEF HybridInv, ThreadInv, IsTrue
    <3>. QED BY <3>3, <3>4
  <2>2. CASE probe # r /\ pc # "idle"
    <3>1. probe \in Probes
      BY <2>2 DEF HybridInv, ThreadInv
    <3>2. PICK p \in Probes : p = probe /\ p # r
      BY <2>2, <3>1
    <3>3. /\ EntryOf(p)' = EntryOf(p) /\ FlattenOf(p)' = FlattenOf(p) /\ HeardFlatten(p)' = HeardFlatten(p)
          /\ (EntryIsOver(p)' <=> EntryIsOver(p))
      BY <1>10, <1>14, <3>2 DEF Others
    <3>4. /\ EntryOf(probe)' = EntryOf(probe) /\ FlattenOf(probe)' = FlattenOf(probe) /\ HeardFlatten(probe)' = HeardFlatten(probe)
          /\ (EntryIsOver(probe)' <=> EntryIsOver(probe)) /\ (Under(probe)' <=> Under(probe)) /\ (stage[probe])' = stage[probe]
      BY <1>2, <3>2, <3>3 DEF EntryOf, FlattenOf, HeardFlatten, EntryIsOver, Under
    <3>. QED BY <1>2, <3>4 DEF HybridInv, ThreadInv, IsTrue
  <2>3. CASE pc = "idle"
    BY <1>2, <2>3 DEF ThreadInv
  <2>. QED BY <2>1, <2>2, <2>3
<1>17. ASSUME NEW p \in Probes PROVE ProbeInv(p)'
  <2>1. ProbeInv(p)
    BY DEF HybridInv
  <2>2. CASE p = r
    <3>1. CASE d = "entry"
      <4>1. opened'[r] = s.filled /\ EntryOf(r)' = s /\ FlattenOf(r)' = Hybrid!Nothing
        <5>1. opened[r] = from.filled
          BY <1>8, <1>11, <1>12, <3>1 DEF ProbeInv
        <5>2. EntryOf(r)' = s /\ FlattenOf(r)' = Hybrid!Nothing
          BY <1>10, <1>12, <3>1
        <5>. QED BY <1>4, <1>9, <1>10, <3>1, <5>1, <5>2
      <4>. QED BY <1>2, <1>11, <1>12, <1>13, <1>14, <2>2, <3>1, <4>1 DEF ProbeInv, IsTrue
    <3>2. CASE d = "flatten"
      <4>1. EntryOf(r)' = EntryOf(r) /\ FlattenOf(r)' = s /\ EntryIsOver(r)'
        BY <1>10, <1>12, <3>2 DEF EntryIsOver
      <4>. QED BY <1>2, <1>6, <1>11, <1>13, <1>14, <2>2, <4>1 DEF ProbeInv, IsTrue
    <3>. QED BY <3>1, <3>2
  <2>3. CASE p # r
    BY <1>2, <1>10, <1>14, <2>1, <2>3 DEF ProbeInv, IsTrue, Others
  <2>. QED BY <2>2, <2>3
<1>18. LocksInv'
  <2>1. ASSUME ~expired PROVE lock = r /\ lock # Hybrid!NoOne /\ Under(r) /\ position = opened[r]
    <3>1. LockInv(r)
      BY <2>1 DEF HybridInv, LocksInv
    <3>2. Under(r)
      BY <1>11, <1>13, <3>1 DEF LockInv, Under
    <3>. QED BY <3>1, <3>2 DEF LockInv, Hybrid!ProbeAssumption
  <2>2. ASSUME ~expired', NEW p \in Probes PROVE LockInv(p)'
    <3>1. LockInv(p)
      BY <1>2, <2>2 DEF HybridInv, LocksInv
    <3>2. CASE p = r
      <4>1. position' = opened'[r]
        BY <1>2, <1>10, <2>1, <2>2
      <4>. QED BY <1>2, <2>1, <2>2, <3>2, <4>1 DEF LockInv, Under
    <3>3. CASE p # r
      BY <1>2, <1>10, <2>1, <2>2, <3>1, <3>3 DEF LockInv, Under, Others
    <3>. QED BY <3>2, <3>3
  <2>. QED BY <1>2, <2>1, <2>2 DEF LocksInv, HybridInv
<1>. QED BY <1>15, <1>16, <1>17, <1>18 DEF HybridInv

(* Only what the waiter has heard changes, and nothing is there unheard.   *)
LEMMA OnEventKeeps ==
  ASSUME Hybrid!ProbeAssumption, HybridInv, NEW o \in Hybrid!Orders, Hybrid!OnEvent(o)
  PROVE  HybridInv'
<1>1. PICK r \in Probes, d \in {"entry", "flatten"} : o = <<r, d>>
  BY DEF Hybrid!Orders, Hybrid!Sides
<1>2. /\ heard' = [heard EXCEPT ![<<r, d>>] = exchange[<<r, d>>]]
      /\ UNCHANGED <<lock, stage, probeRow, exchange, opened, position, entries, pc, probe, snapshot, entered, expired>>
  BY <1>1 DEF Hybrid!OnEvent, Hybrid!redis, Hybrid!thread
<1>. DEFINE s == exchange[<<r, d>>]
<1>3. s \in Snapshots /\ (d = "entry" => s = EntryOf(r)) /\ (d = "flatten" => s = FlattenOf(r))
  BY DEF HybridInv, HybridTypes, Hybrid!Orders, Hybrid!Sides, EntryOf, FlattenOf
<1>4. heard' = [heard EXCEPT ![<<r, d>>] = s]
  BY <1>2
<1>. HIDE DEF s
<1>5. /\ heard' \in [Hybrid!Orders -> Snapshots] /\ HeardSame(r)
      /\ HeardEntry(r)' = (IF d = "entry" THEN s ELSE HeardEntry(r))
      /\ HeardFlatten(r)' = (IF d = "flatten" THEN s ELSE HeardFlatten(r))
  BY <1>3, <1>4, SeededIs
<1>6. \A p \in Probes : /\ HeardEntry(p)' \in {HeardEntry(p), EntryOf(p)}
                         /\ HeardFlatten(p)' \in {HeardFlatten(p), FlattenOf(p)}
  BY <1>3, <1>5 DEF HeardSame
<1>7. \A p \in Probes : /\ EntryOf(p)' = EntryOf(p) /\ FlattenOf(p)' = FlattenOf(p) /\ opened'[p] = opened[p]
                         /\ (EntryIsOver(p)' <=> EntryIsOver(p)) /\ (Resting(p)' <=> Resting(p)) /\ (Under(p)' <=> Under(p))
  BY <1>2 DEF EntryOf, FlattenOf, EntryIsOver, Resting, Under
<1>8. HybridTypes'
  BY <1>2, <1>5 DEF HybridInv, HybridTypes
<1>9. ThreadInv'
  <2>1. CASE pc = "idle"
    BY <1>2, <2>1 DEF ThreadInv
  <2>2. CASE pc # "idle"
    <3>1. PICK p \in Probes : p = probe
      BY <2>2 DEF HybridInv, ThreadInv
    <3>2. /\ EntryOf(probe)' = EntryOf(p) /\ FlattenOf(probe)' = FlattenOf(p) /\ HeardFlatten(probe)' = HeardFlatten(p)'
          /\ (EntryIsOver(probe)' <=> EntryIsOver(p)) /\ (Under(probe)' <=> Under(p)) /\ (stage[probe])' = stage[p]
      BY <1>2, <3>1 DEF EntryOf, FlattenOf, HeardFlatten, EntryIsOver, Under
    <3>3. HeardFlatten(p)' \in {HeardFlatten(p), FlattenOf(p)}
      BY <1>6
    <3>. QED BY <1>2, <3>1, <3>2, <3>3 DEF HybridInv, ThreadInv, IsTrue
  <2>. QED BY <2>1, <2>2
<1>10. ASSUME NEW p \in Probes PROVE ProbeInv(p)'
  <2>1. ProbeInv(p) /\ HeardEntry(p)' \in {HeardEntry(p), EntryOf(p)}
    BY <1>6 DEF HybridInv
  <2>2. CASE HeardEntry(p)' = HeardEntry(p)
    BY <1>2, <1>7, <2>1, <2>2 DEF ProbeInv, IsTrue
  <2>3. CASE HeardEntry(p)' = EntryOf(p)
    BY <1>2, <1>7, <2>1, <2>3, NothingIs DEF ProbeInv, IsTrue
  <2>. QED BY <2>1, <2>2, <2>3
<1>11. LocksInv'
  BY <1>2, <1>7 DEF HybridInv, LocksInv, LockInv
<1>. QED BY <1>8, <1>9, <1>10, <1>11 DEF HybridInv

(* The process stops at any step but between a submission and the save     *)
(* after it; the lock and the state stay.                                  *)
LEMMA CrashKeeps ==
  ASSUME Hybrid!ProbeAssumption, ~CrashAtSubmit, HybridInv, Hybrid!Crash
  PROVE  HybridInv'
<1>1. /\ pc # "save entry" /\ pc' = "idle" /\ snapshot' = Hybrid!Nothing /\ entered' = 0
      /\ heard' = [o \in Hybrid!Orders |-> Hybrid!Nothing]
      /\ UNCHANGED <<lock, stage, probeRow, exchange, opened, position, entries, expired>>
  BY DEF Hybrid!Crash, Hybrid!redis, Hybrid!Return
<1>2. \A p \in Probes : /\ EntryOf(p)' = EntryOf(p) /\ FlattenOf(p)' = FlattenOf(p) /\ opened'[p] = opened[p]
                         /\ (EntryIsOver(p)' <=> EntryIsOver(p)) /\ (Resting(p)' <=> Resting(p)) /\ (Under(p)' <=> Under(p))
  BY <1>1 DEF EntryOf, FlattenOf, EntryIsOver, Resting, Under
<1>3. \A p \in Probes : HeardEntry(p)' = Hybrid!Nothing
  BY <1>1 DEF HeardEntry, Hybrid!Orders, Hybrid!Sides
<1>4. HybridTypes'
  BY <1>1, NothingIs DEF HybridInv, HybridTypes, Hybrid!Steps
<1>5. ThreadInv'
  BY <1>1 DEF ThreadInv
<1>6. ASSUME NEW p \in Probes PROVE ProbeInv(p)'
  BY <1>1, <1>2, <1>3, NothingIs DEF HybridInv, ProbeInv, IsTrue
<1>7. LocksInv'
  BY <1>1, <1>2 DEF HybridInv, LocksInv, LockInv
<1>. QED BY <1>4, <1>5, <1>6, <1>7 DEF HybridInv

(* The lock runs out, or nothing happens that the probe depends on.        *)
LEMMA QuietKeeps ==
  ASSUME Hybrid!ProbeAssumption, HybridInv,
         UNCHANGED <<stage, probeRow, exchange, opened, position, heard, entries, pc, probe, snapshot, entered>>,
         (lock' = lock /\ expired' = expired) \/ (lock' = Hybrid!NoOne /\ expired' = TRUE)
  PROVE  HybridInv'
<1>1. HybridTypes'
  BY DEF HybridInv, HybridTypes
<1>2. ThreadInv' /\ \A p \in Probes : ProbeInv(p)'
  BY DEF HybridInv, ThreadInv, ProbeInv, IsTrue, EntryOf, FlattenOf, HeardEntry, HeardFlatten, EntryIsOver, Under
<1>3. LocksInv'
  BY DEF HybridInv, LocksInv, LockInv, Under, Resting, EntryOf, FlattenOf
<1>. QED BY <1>1, <1>2, <1>3 DEF HybridInv

(* No step of a thread, of the venue or of a failure disturbs it.          *)
LEMMA HybridStep ==
  ASSUME Hybrid!ProbeAssumption, ~CrashAtSubmit, HybridInv, [Hybrid!Next]_Hybrid!vars
  PROVE  HybridInv'
<1>0. ASSUME UNCHANGED Hybrid!vars PROVE HybridInv'
  <2>1. /\ UNCHANGED <<stage, probeRow, exchange, opened, position, heard, entries, pc, probe, snapshot, entered>>
        /\ lock' = lock /\ expired' = expired
    BY <1>0 DEF Hybrid!vars, Hybrid!redis, Hybrid!market, Hybrid!thread
  <2>. QED BY <2>1, QuietKeeps
<1>1. ASSUME NEW o \in Hybrid!Orders, Hybrid!LoseEvent(o) PROVE HybridInv'
  BY <1>1, QuietKeeps DEF Hybrid!LoseEvent, Hybrid!redis, Hybrid!thread
<1>2. ASSUME Hybrid!LockExpires PROVE HybridInv'
  BY <1>2, QuietKeeps DEF Hybrid!LockExpires, Hybrid!market, Hybrid!thread
<1>. QED BY <1>0, <1>1, <1>2, AcquireKeeps, ResumeKeeps, FailKeeps, PrepareKeeps, EntryKeeps, SaveEntryKeeps, WaitEntryKeeps,
            CancelKeeps, FlattenKeeps, SaveFlattenKeeps, WaitFlattenKeeps, FinishKeeps, ReleaseKeeps, MovesKeeps,
            OnEventKeeps, CrashKeeps DEF Hybrid!Next

(* A probe that is over has closed what it opened, one that is exposed has *)
(* the lock, and each enters once.                                         *)
LEMMA HybridIsSafe ==
  ASSUME Hybrid!ProbeAssumption, HybridInv
  PROVE  Hybrid!SafeMeansClosed /\ Hybrid!ExposedIsLocked /\ Hybrid!EntersOnce
<1>1. \A p \in Probes : (Hybrid!Working(p) => Resting(p))
  BY DEF Hybrid!Working, Resting, Hybrid!Sides, EntryOf, FlattenOf
<1>2. Hybrid!SafeMeansClosed
  BY <1>1 DEF Hybrid!SafeMeansClosed, HybridInv, ProbeInv, LocksInv, LockInv
<1>3. ASSUME ~expired, NEW p \in Probes, opened[p] # 0 \/ Hybrid!Working(p) PROVE lock = p
  <2>1. LockInv(p) /\ ProbeInv(p)
    BY <1>3 DEF HybridInv, LocksInv
  <2>2. stage[p] = "NONE" => ~Resting(p)
    BY <2>1, NothingIs DEF ProbeInv, EntryIsOver, Resting
  <2>. QED BY <1>1, <1>3, <2>1, <2>2 DEF LockInv, Under
<1>4. Hybrid!EntersOnce
  <2>1. ASSUME NEW p \in Probes PROVE entries[p] \in {0, 1}
    BY DEF HybridInv, ProbeInv
  <2>. QED BY <2>1 DEF Hybrid!EntersOnce
<1>. QED BY <1>2, <1>3, <1>4 DEF Hybrid!ExposedIsLocked

-----------------------------------------------------------------------------
(***************************************************************************)
(* Credentials.                                                            *)
(***************************************************************************)
(* A connector is kept under the identity of the row it was made from, and *)
(* a thread builds the connector of the row it has read.                   *)
KeptByIdentity ==
  \A p \in Keys!Processes : \A k \in store[p] : k.id = Keys!Identity(k.connector)

CallsAreMade ==
  \A c \in Callers :
    /\ asking[c].step \in {"idle", "building", "answered"}
    /\ asking[c].step = "building" => asking[c].connector = Keys!Connector(asking[c].row)
    /\ asking[c].step = "answered" => Keys!Identity(asking[c].connector) = Keys!Identity(asking[c].row)

RightsInv == /\ DOMAIN store = Keys!Processes /\ DOMAIN asking = Callers
             /\ KeptByIdentity /\ CallsAreMade

(* Each thread belongs to a process.                                       *)
LEMMA CallerHasProcess == ASSUME NEW c \in Callers PROVE Keys!Process(c) \in Keys!Processes
BY DEF Keys!Process, Keys!Processes

(* A connector has the identity of the row it was made from.               *)
LEMMA OwnIdentity == ASSUME NEW r PROVE Keys!Identity(Keys!Connector(r)) = Keys!Identity(r)
BY DEF Keys!Identity, Keys!Connector

(* At the start no connector has been made.                                *)
LEMMA RightsInit == Keys!Init => RightsInv
BY DEF Keys!Init, RightsInv, KeptByIdentity, CallsAreMade, Keys!Idle, Keys!Processes

(* What does not concern the connectors, or only throws them away.         *)
LEMMA RightsOfRowSteps ==
  ASSUME RightsInv, Keys!Save \/ Keys!Delete \/ Keys!Invalidate \/ Keys!BeginTest \/ Keys!EndTest \/ UNCHANGED Keys!vars
  PROVE  RightsInv'
<1>1. CASE Keys!Invalidate
  <2>1. DOMAIN store' = Keys!Processes /\ asking' = asking
    BY <1>1 DEF Keys!Invalidate, RightsInv
  <2>2. KeptByIdentity'
    BY <1>1 DEF Keys!Invalidate, RightsInv, KeptByIdentity
  <2>. QED BY <2>1, <2>2 DEF RightsInv, CallsAreMade
<1>2. CASE Keys!Save \/ Keys!Delete \/ Keys!BeginTest \/ Keys!EndTest \/ UNCHANGED Keys!vars
  <2>1. UNCHANGED <<store, asking>>
    BY <1>2 DEF Keys!Save, Keys!Delete, Keys!BeginTest, Keys!EndTest, Keys!vars
  <2>. QED BY <2>1 DEF RightsInv, KeptByIdentity, CallsAreMade
<1>. QED BY <1>1, <1>2

(* A thread asks for a connector: it is kept, or has to be built.          *)
LEMMA RightsOfAsk ==
  ASSUME RightsInv, NEW c \in Callers, Keys!Ask(c)
  PROVE  RightsInv'
<1>1. store' = store /\ DOMAIN asking' = Callers
  BY DEF Keys!Ask, Keys!Calls, RightsInv
<1>2. KeptByIdentity'
  BY <1>1 DEF RightsInv, KeptByIdentity
<1>3. CallsAreMade'
  <2>1. CASE Keys!Kept(Keys!Process(c), Keys!Identity(credential)) # {}
    <3>1. PICK k \in Keys!Kept(Keys!Process(c), Keys!Identity(credential)) : Keys!Calls(c, "answered", credential, k.connector)
      BY <2>1 DEF Keys!Ask
    <3>2. Keys!Identity(k.connector) = Keys!Identity(credential)
      BY <3>1, CallerHasProcess DEF RightsInv, KeptByIdentity, Keys!Kept
    <3>. QED BY <3>1, <3>2 DEF RightsInv, CallsAreMade, Keys!Calls
  <2>2. CASE Keys!Kept(Keys!Process(c), Keys!Identity(credential)) = {}
    <3>1. Keys!Calls(c, "building", credential, Keys!Connector(credential))
      BY <2>2 DEF Keys!Ask
    <3>. QED BY <3>1 DEF RightsInv, CallsAreMade, Keys!Calls
  <2>. QED BY <2>1, <2>2
<1>. QED BY <1>1, <1>2, <1>3 DEF RightsInv

(* What is built is kept, unless another thread was faster.                *)
LEMMA RightsOfKeep ==
  ASSUME RightsInv, NEW c \in Callers, Keys!Keep(c)
  PROVE  RightsInv'
<1>. DEFINE p == Keys!Process(c)
            r == asking[c].row
<1>0. p \in Keys!Processes /\ asking[c].step = "building" /\ asking[c].connector = Keys!Connector(r)
  BY CallerHasProcess DEF Keys!Keep, RightsInv, CallsAreMade
<1>1. CASE Keys!Kept(p, Keys!Identity(r)) # {}
  <2>1. PICK k \in Keys!Kept(p, Keys!Identity(r)) : Keys!Calls(c, "answered", r, k.connector)
    BY <1>1 DEF Keys!Keep
  <2>2. Keys!Identity(k.connector) = Keys!Identity(r) /\ store' = store
    BY <1>0, <1>1, <2>1 DEF RightsInv, KeptByIdentity, Keys!Kept, Keys!Keep
  <2>3. CallsAreMade' /\ DOMAIN asking' = Callers
    BY <2>1, <2>2 DEF RightsInv, CallsAreMade, Keys!Calls
  <2>. QED BY <2>2, <2>3 DEF RightsInv, KeptByIdentity
<1>2. CASE Keys!Kept(p, Keys!Identity(r)) = {}
  <2>1. /\ Keys!Calls(c, "answered", r, asking[c].connector)
        /\ store' = [store EXCEPT ![p] = @ \cup {[id |-> Keys!Identity(r), connector |-> asking[c].connector]}]
    BY <1>2 DEF Keys!Keep
  <2>2. Keys!Identity(asking[c].connector) = Keys!Identity(r)
    BY <1>0, OwnIdentity
  <2>3. KeptByIdentity' /\ DOMAIN store' = Keys!Processes
    BY <1>0, <2>1, <2>2 DEF RightsInv, KeptByIdentity
  <2>4. CallsAreMade' /\ DOMAIN asking' = Callers
    BY <2>1, <2>2 DEF RightsInv, CallsAreMade, Keys!Calls
  <2>. QED BY <2>3, <2>4 DEF RightsInv
<1>. QED BY <1>1, <1>2

(* A thread is done with its connector.                                    *)
LEMMA RightsOfDone ==
  ASSUME RightsInv, NEW c \in Callers, Keys!Done(c)
  PROVE  RightsInv'
<1>1. store' = store /\ asking' = [asking EXCEPT ![c] = Keys!Idle] /\ Keys!Idle.step = "idle"
  BY DEF Keys!Done, Keys!Idle
<1>2. CallsAreMade' /\ DOMAIN asking' = Callers
  BY <1>1 DEF RightsInv, CallsAreMade
<1>. QED BY <1>1, <1>2 DEF RightsInv, KeptByIdentity

(* A step of the row, of a test or of a thread.                            *)
LEMMA RightsStep == RightsInv /\ [Keys!Next]_Keys!vars => RightsInv'
BY RightsOfRowSteps, RightsOfAsk, RightsOfKeep, RightsOfDone DEF Keys!Next

(* No thread ever gets a connector that may trade for a row that is        *)
(* read-only, nor one of another environment, whoever made it and whatever *)
(* was saved meanwhile (connector_for of venues/manager.py).               *)
LEMMA RightsAreTrue == RightsInv => Keys!RightsFollow
BY DEF RightsInv, CallsAreMade, Keys!RightsFollow, Keys!Identity

Trades(p) == {"fields", "signer", "read", "trade"} \subseteq Powers[p]

RowShape(r) == r \in Keys!Rows \cup {Keys!NoRow}

(* What a test has found is true of the row: a result "ok" is of a row     *)
(* that may only be read, or whose credentials trade; and a test under way *)
(* is about the row as it is now, but for its result.                      *)
TestsAreOfTheRow ==
  /\ RowShape(credential) /\ RowShape(underTest)
  /\ credential.tested = "ok" => credential.readOnly \/ Trades(credential.payload)
  /\ underTest # Keys!NoRow => underTest = credential

(* At the start nothing is configured.                                     *)
LEMMA TestsInit == Keys!Init => TestsAreOfTheRow
BY DEF Keys!Init, TestsAreOfTheRow, RowShape, Keys!NoRow

(* A test is passed by credentials that trade, or are not meant to.        *)
LEMMA VerdictIsTrue ==
  ASSUME NEW r \in Keys!Rows, Keys!Verdict(r) = "ok", ~r.readOnly
  PROVE  Trades(r.payload)
BY DEF Keys!Verdict, Keys!Missing, Trades

(* A save that changes what a test was about makes the row untested.       *)
LEMMA SaveKeepsTests ==
  ASSUME ~Overlap, TestsAreOfTheRow, Keys!Save
  PROVE  TestsAreOfTheRow'
<1>1. PICK given \in {{}} \cup {{p} : p \in Payloads}, env \in Envs,
           readOnly \in BOOLEAN, enabled \in BOOLEAN :
        /\ credential # Keys!NoRow \/ given # {}
        /\ credential' = Keys!Upserted(credential, given, env, readOnly, enabled)
  BY DEF Keys!Save
<1>2. underTest = Keys!NoRow /\ underTest' = Keys!NoRow
  BY DEF Keys!Save, Keys!MayChange
<1>3. given # {} => (CHOOSE p \in given : TRUE) \in Payloads
  BY <1>1
<1>4. credential # Keys!NoRow => credential \in Keys!Rows
  BY DEF TestsAreOfTheRow, RowShape
<1>5. credential' \in Keys!Rows
  BY <1>1, <1>3, <1>4 DEF Keys!Upserted, Keys!Rows
<1>6. ASSUME credential'.tested = "ok" PROVE credential'.readOnly \/ Trades(credential'.payload)
  <2>1. given = {} /\ credential # Keys!NoRow /\ ~Keys!Reconnected(credential, env, readOnly, enabled)
    BY <1>1, <1>6 DEF Keys!Upserted
  <2>2. credential'.payload = credential.payload /\ credential'.readOnly = readOnly /\ credential'.tested = credential.tested
    BY <1>1, <2>1 DEF Keys!Upserted
  <2>3. credential.readOnly = readOnly
    BY <2>1 DEF Keys!Reconnected
  <2>. QED BY <1>6, <2>2, <2>3 DEF TestsAreOfTheRow
<1>. QED BY <1>2, <1>5, <1>6 DEF TestsAreOfTheRow, RowShape

(* The result of a test is written to the row it was about.                *)
LEMMA EndKeepsTests ==
  ASSUME TestsAreOfTheRow, Keys!EndTest
  PROVE  TestsAreOfTheRow'
<1>1. underTest # Keys!NoRow /\ underTest' = Keys!NoRow /\ underTest = credential /\ credential \in Keys!Rows
  BY DEF Keys!EndTest, TestsAreOfTheRow, RowShape
<1>2. PICK verdict \in {Keys!Verdict(credential), "failed"} :
        credential' = IF credential = Keys!NoRow \/ verdict = credential.tested THEN credential ELSE [credential EXCEPT !.tested = verdict]
  BY <1>1 DEF Keys!EndTest
<1>3. CASE credential' = credential
  BY <1>1, <1>3 DEF TestsAreOfTheRow, RowShape
<1>4. CASE credential' = [credential EXCEPT !.tested = verdict]
  <2>1. verdict \in {"untested", "ok", "warning", "failed"}
    BY <1>2 DEF Keys!Verdict
  <2>2. credential' \in Keys!Rows /\ credential'.tested = verdict /\ credential'.readOnly = credential.readOnly
        /\ credential'.payload = credential.payload
    BY <1>1, <1>4, <2>1 DEF Keys!Rows
  <2>3. verdict = "ok" => credential.readOnly \/ Trades(credential.payload)
    BY <1>1, <1>2, VerdictIsTrue
  <2>. QED BY <1>1, <2>2, <2>3 DEF TestsAreOfTheRow, RowShape
<1>. QED BY <1>2, <1>3, <1>4

(* No other step touches the row or the test.                              *)
LEMMA StepKeepsTests ==
  ASSUME ~Overlap, TestsAreOfTheRow, [Keys!Next]_Keys!vars
  PROVE  TestsAreOfTheRow'
<1>1. CASE Keys!Save
  BY <1>1, SaveKeepsTests
<1>2. CASE Keys!Delete
  <2>1. credential' = Keys!NoRow /\ underTest' = Keys!NoRow
    BY <1>2 DEF Keys!Delete, Keys!MayChange
  <2>. QED BY <2>1 DEF TestsAreOfTheRow, RowShape, Keys!NoRow
<1>3. CASE Keys!BeginTest
  BY <1>3 DEF Keys!BeginTest, TestsAreOfTheRow, RowShape
<1>4. CASE Keys!EndTest
  BY <1>4, EndKeepsTests
<1>5. CASE UNCHANGED <<credential, underTest>>
  BY <1>5 DEF TestsAreOfTheRow, RowShape
<1>6. ASSUME Keys!Invalidate \/ UNCHANGED Keys!vars \/ \E c \in Callers : Keys!Ask(c) \/ Keys!Keep(c) \/ Keys!Done(c)
      PROVE  UNCHANGED <<credential, underTest>>
  BY <1>6 DEF Keys!Invalidate, Keys!vars, Keys!Ask, Keys!Keep, Keys!Done
<1>. QED BY <1>1, <1>2, <1>3, <1>4, <1>5, <1>6 DEF Keys!Next

(* As long as no save comes while a test is under way, a venue that passes *)
(* the checks before an opening can trade with the credentials it has.     *)
LEMMA ReadyIsTrue == TestsAreOfTheRow => Keys!ReadyCanTrade
BY DEF TestsAreOfTheRow, Keys!ReadyCanTrade, Keys!Ready, Trades

-----------------------------------------------------------------------------
(***************************************************************************)
(* Scheduler.                                                              *)
(***************************************************************************)
(* Where the main thread and the starts stand: jobs are left only while    *)
(* the main thread is at them, there was a start before it was anywhere    *)
(* but down, and it waits for none but a scheduler that runs.              *)
MainInv ==
  /\ main \in {"up", "starting", "stopping"} => starts \in Timers!Starts
  /\ main \in {"up", "starting"} => running

(* While the scheduler starts or is up, a job that has been scheduled      *)
(* keeps a round: the one of the last start, since its timer is cancelled  *)
(* only by a stop, and a round that ends finds _running set.               *)
RoundToCome ==
  /\ main = "starting" => \A j \in Jobs \ left : ~Timers!At(j, starts, "none")
  /\ main = "up" => \A j \in Jobs : ~Timers!At(j, starts, "none")

(* A start finds nothing to write over: the rounds of a later start, and   *)
(* of a job not scheduled yet, have not begun.                             *)
NotBegun ==
  \A j \in Jobs, k \in Timers!Starts :
    (k > starts \/ (k = starts /\ main = "starting" /\ j \in left)) => Timers!At(j, k, "none")

TimersInv == Timers!TypeOK /\ MainInv /\ NotBegun /\ RoundToCome /\ Timers!FlagIsHeld

(* At the start no job is scheduled and no round has begun.                *)
LEMMA TimersInit == Timers!SchedulerAssumption /\ Timers!Init => TimersInv
<1>. USE DEF Timers!At, Timers!Goes
<1>. SUFFICES ASSUME Timers!SchedulerAssumption, Timers!Init PROVE TimersInv
  OBVIOUS
<1>1. Timers!TypeOK
  <2>1. starts \in 0 .. MaxStarts /\ current \in [Jobs -> 0 .. MaxStarts]
    BY DEF Timers!Init, Timers!SchedulerAssumption
  <2>2. chain \in [Jobs -> [Timers!Starts -> Timers!Steps]]
    BY DEF Timers!Init, Timers!Steps
  <2>. QED BY <2>1, <2>2 DEF Timers!Init, Timers!TypeOK
<1>2. MainInv /\ NotBegun /\ RoundToCome
  BY DEF Timers!Init, MainInv, NotBegun, RoundToCome
<1>3. Timers!FlagIsHeld
  BY DEF Timers!Init, Timers!FlagIsHeld
<1>. QED BY <1>1, <1>2, <1>3 DEF TimersInv

(* The steps of the main thread.                                           *)
LEMMA MainSteps ==
  ASSUME Timers!SchedulerAssumption, TimersInv,
         Timers!Start \/ Timers!Stop \/ \E j \in Jobs : Timers!StartJob(j) \/ Timers!CancelJob(j)
  PROVE  TimersInv'
<1>. USE DEF Timers!At, Timers!Goes
<1>. USE DEF TimersInv, Timers!TypeOK, MainInv, NotBegun, RoundToCome, Timers!FlagIsHeld, Timers!Starts, Timers!Steps
<1>1. CASE Timers!Start
  BY <1>1 DEF Timers!Start, Timers!SchedulerAssumption
<1>2. CASE Timers!Stop
  BY <1>2 DEF Timers!Stop
<1>3. ASSUME NEW j \in Jobs, Timers!StartJob(j) PROVE TimersInv'
  <2>. starts \in Timers!Starts /\ running
    BY <1>3 DEF Timers!StartJob
  <2>1. Timers!TypeOK'
    BY <1>3 DEF Timers!StartJob
  <2>2. MainInv'
    BY <1>3 DEF Timers!StartJob
  <2>3. RoundToCome'
    <3>1. \A i \in Jobs \ left' : chain'[i][starts] # "none"
      <4>. SUFFICES ASSUME NEW i \in Jobs \ left' PROVE chain'[i][starts] # "none"
        OBVIOUS
      <4>0. chain' = [chain EXCEPT ![j][starts] = "waiting"] /\ left' = left \ {j} /\ main = "starting"
        BY <1>3 DEF Timers!StartJob
      <4>1. chain \in [Jobs -> [Timers!Starts -> Timers!Steps]]
        OBVIOUS
      <4>2. i # j => chain[i][starts] # "none"
        BY <4>0
      <4>. HIDE DEF TimersInv
      <4>3. CASE i = j
        BY <4>0, <4>1, <4>3
      <4>4. CASE i # j
        BY <4>0, <4>1, <4>2, <4>4
      <4>. QED BY <4>3, <4>4
    <3>2. main' = "up" => left' = {}
      BY <1>3 DEF Timers!StartJob
    <3>3. starts' = starts /\ left' \subseteq Jobs
      BY <1>3 DEF Timers!StartJob
    <3>4. CASE main' = "up"
      BY <3>1, <3>2, <3>3, <3>4
    <3>5. CASE main' # "up"
      BY <3>1, <3>3, <3>5
    <3>. QED BY <3>4, <3>5
  <2>4. NotBegun'
    BY <1>3 DEF Timers!StartJob
  <2>5. Timers!FlagIsHeld'
    <3>1. \A i \in Jobs, k \in Timers!Starts : chain[i][k] = "working" => chain'[i][k] = "working"
      BY <1>3 DEF Timers!StartJob
    <3>. QED BY <1>3, <3>1 DEF Timers!StartJob
  <2>. QED BY <2>1, <2>2, <2>3, <2>4, <2>5
<1>4. ASSUME NEW j \in Jobs, Timers!CancelJob(j) PROVE TimersInv'
  <2>. main = "stopping" /\ (main' = "down" \/ main' = main) /\ starts' = starts
    BY <1>4, Zenon DEF Timers!CancelJob
  <2>1. Timers!TypeOK'
    <3>1. chain' \in [Jobs -> [Timers!Starts -> Timers!Steps]]
      <4>1. CASE chain' = chain
        BY <4>1
      <4>2. CASE chain' = [chain EXCEPT ![j][current[j]] = "none"]
        BY <4>2
      <4>. QED BY <1>4, <4>1, <4>2 DEF Timers!CancelJob
    <3>. QED BY <1>4, <3>1 DEF Timers!CancelJob
  <2>2. MainInv' /\ RoundToCome'
    BY <1>4 DEF Timers!CancelJob
  <2>3. Timers!FlagIsHeld'
    <3>1. \A i \in Jobs, k \in Timers!Starts : chain[i][k] = "working" => chain'[i][k] = "working"
      <4>. SUFFICES ASSUME NEW i \in Jobs, NEW k \in Timers!Starts, chain[i][k] = "working"
                    PROVE  chain'[i][k] = "working"
        OBVIOUS
      <4>1. CASE chain' = chain
        BY <4>1
      <4>2. CASE chain[j][current[j]] = "waiting" /\ chain' = [chain EXCEPT ![j][current[j]] = "none"]
        BY <4>2
      <4>. QED BY <1>4, <4>1, <4>2 DEF Timers!CancelJob
    <3>. QED BY <1>4, <3>1 DEF Timers!CancelJob
  <2>4. NotBegun'
    <3>1. \A i \in Jobs, k \in Timers!Starts : chain[i][k] = "none" => chain'[i][k] = "none"
      <4>1. CASE chain' = chain
        BY <4>1
      <4>2. CASE chain' = [chain EXCEPT ![j][current[j]] = "none"]
        BY <4>2
      <4>. QED BY <1>4, <4>1, <4>2 DEF Timers!CancelJob
    <3>. QED BY <3>1
  <2>. QED BY <2>1, <2>2, <2>3, <2>4
<1>. QED BY <1>1, <1>2, <1>3, <1>4

(* The steps of a round, each of which takes the flag of its job along.    *)
LEMMA RoundSteps ==
  ASSUME Timers!SchedulerAssumption, TimersInv, NEW j \in Jobs, NEW k \in Timers!Starts,
         Timers!Fire(j, k) \/ Timers!Enter(j, k) \/ Timers!Work(j, k) \/ Timers!Finish(j, k) \/ Timers!Look(j, k) \/ Timers!ScheduleNext(j, k)
  PROVE  TimersInv'
<1>. USE DEF Timers!At, Timers!Goes
<1>. USE DEF TimersInv, Timers!TypeOK, MainInv, NotBegun, RoundToCome, Timers!FlagIsHeld, Timers!Starts, Timers!Steps
<1>1. CASE Timers!Fire(j, k)
  <2>1. Timers!TypeOK' /\ MainInv'
    BY <1>1 DEF Timers!Fire
  <2>2. NotBegun'
    BY <1>1 DEF Timers!Fire
  <2>3. RoundToCome'
    BY <1>1 DEF Timers!Fire
  <2>4. Timers!FlagIsHeld'
    BY <1>1 DEF Timers!Fire
  <2>. QED BY <2>1, <2>2, <2>3, <2>4
<1>2. CASE Timers!Enter(j, k)
  <2>1. Timers!TypeOK' /\ MainInv'
    BY <1>2 DEF Timers!Enter
  <2>2. NotBegun'
    BY <1>2 DEF Timers!Enter
  <2>3. RoundToCome'
    BY <1>2 DEF Timers!Enter
  <2>4. Timers!FlagIsHeld'
    BY <1>2 DEF Timers!Enter
  <2>. QED BY <2>1, <2>2, <2>3, <2>4
<1>3. CASE Timers!Work(j, k)
  <2>1. Timers!TypeOK' /\ MainInv' /\ NotBegun' /\ RoundToCome'
    BY <1>3 DEF Timers!Work
  <2>2. Timers!FlagIsHeld'
    <3>1. chain'[j][k] = "working"
      BY <1>3 DEF Timers!Work
    <3>2. ASSUME NEW i \in Jobs, i # j, flag'[i]
          PROVE  \E n \in Timers!Starts : chain'[i][n] = "working"
      <4>1. flag[i] /\ chain'[i] = chain[i]
        BY <1>3, <3>2 DEF Timers!Work
      <4>. QED BY <4>1
    <3>. QED BY <3>1, <3>2
  <2>. QED BY <2>1, <2>2
<1>4. CASE Timers!Finish(j, k)
  BY <1>4 DEF Timers!Finish, Timers!Afterwards
<1>5. CASE Timers!Look(j, k)
  <2>1. Timers!TypeOK' /\ MainInv'
    BY <1>5 DEF Timers!Look
  <2>2. NotBegun'
    BY <1>5 DEF Timers!Look
  <2>3. RoundToCome'
    BY <1>5 DEF Timers!Look
  <2>4. Timers!FlagIsHeld'
    BY <1>5 DEF Timers!Look
  <2>. QED BY <2>1, <2>2, <2>3, <2>4
<1>6. CASE Timers!ScheduleNext(j, k)
  <2>1. Timers!TypeOK' /\ MainInv'
    BY <1>6 DEF Timers!ScheduleNext
  <2>2. NotBegun'
    BY <1>6 DEF Timers!ScheduleNext
  <2>3. RoundToCome'
    BY <1>6 DEF Timers!ScheduleNext
  <2>4. Timers!FlagIsHeld'
    BY <1>6 DEF Timers!ScheduleNext
  <2>. QED BY <2>1, <2>2, <2>3, <2>4
<1>. QED BY <1>1, <1>2, <1>3, <1>4, <1>5, <1>6

(* No step of the main thread or of a round disturbs the invariant.        *)
LEMMA TimersStep == Timers!SchedulerAssumption /\ TimersInv /\ [Timers!Next]_Timers!vars => TimersInv'
<1>. USE DEF Timers!At, Timers!Goes
<1>. SUFFICES ASSUME Timers!SchedulerAssumption, TimersInv, [Timers!Next]_Timers!vars PROVE TimersInv'
  OBVIOUS
<1>1. CASE UNCHANGED Timers!vars
  BY <1>1 DEF Timers!vars, TimersInv, Timers!TypeOK, MainInv, NotBegun, RoundToCome, Timers!FlagIsHeld
<1>2. CASE Timers!Next
  BY <1>2, MainSteps, RoundSteps DEF Timers!Next
<1>. QED BY <1>1, <1>2

(* No flag is left behind by a round that is over: otherwise its job would *)
(* never work again (the finally blocks of scheduler.py); and every job of *)
(* a scheduler that is up has a round to come.                             *)
LEMMA TimersAreSafe == TimersInv => Timers!NeverForgotten /\ Timers!FlagIsHeld
BY DEF TimersInv, MainInv, RoundToCome, Timers!NeverForgotten, Timers!At

-----------------------------------------------------------------------------
(***************************************************************************)
(* The types of what the runs hold.                                        *)
(***************************************************************************)
(* What holds of 0, and of n + 1 whenever of n, holds of every number.     *)
LEMMA Induction ==
  ASSUME NEW S, 0 \in S, \A n \in Nat : n \in S => n + 1 \in S
  PROVE  \A n \in Nat : n \in S
<1>. DEFINE T == Nat \ S
<1>. SUFFICES ASSUME T # {} PROVE FALSE
  OBVIOUS
<1>1. \E x \in T : \A y \in T : <<y, x>> \notin OpToRel(<, Nat)
  BY WFMin, NatLessThanWellFounded, Zenon
<1>2. PICK x \in T : \A y \in T : ~ (y < x)
  BY <1>1 DEF OpToRel
<1>3. x - 1 \in Nat /\ x - 1 \notin T
  BY <1>2
<1>. QED BY <1>2, <1>3

(* The member a sum takes next, and the rule it follows on the sets of n   *)
(* members or fewer, when h says what each member adds.                    *)
First(s) == CHOOSE x \in s : TRUE
Added(g, h, s) == IF s = {} THEN 0 ELSE h[First(s)] + g[s \ {First(s)}]
SumsTo(g, h, S, n) == \A s \in SUBSET S : Cardinality(s) <= n => g[s] = Added(g, h, s)
IsSum(g, h, S) == g = [s \in SUBSET S |-> Added(g, h, s)]
SumOf(h, S) == (CHOOSE g : IsSum(g, h, S))[S]

(* Without its first member a set is smaller.                              *)
Shrinks(s, S) ==
  /\ Cardinality(s) \in Nat /\ Cardinality(s) <= Cardinality(S)
  /\ s = {} <=> Cardinality(s) = 0
  /\ s # {} => /\ First(s) \in s /\ s \ {First(s)} \in SUBSET S
               /\ Cardinality(s \ {First(s)}) = Cardinality(s) - 1 /\ Cardinality(s) > 0

LEMMA SmallerSet ==
  ASSUME NEW S, IsFiniteSet(S), NEW s \in SUBSET S
  PROVE  Shrinks(s, S)
<1>1. IsFiniteSet(s) /\ Cardinality(s) <= Cardinality(S)
  BY FS_Subset
<1>2. Cardinality(s) \in Nat
  BY <1>1, FS_CardinalityType
<1>3. ASSUME s # {} PROVE First(s) \in s
  BY <1>3 DEF First
<1>4. ASSUME s # {} PROVE Cardinality(s) # 0
  BY <1>1, <1>4, FS_EmptySet
<1>5. ASSUME s # {} PROVE Cardinality(s \ {First(s)}) = Cardinality(s) - 1
  BY <1>1, <1>3, <1>5, FS_RemoveElement
<1>6. s = {} => Cardinality(s) = 0
  BY FS_EmptySet
<1>. QED BY <1>1, <1>2, <1>3, <1>4, <1>5, <1>6 DEF Shrinks

(* A sum over a finite set exists.                                         *)
LEMMA SumExists ==
  ASSUME NEW S, IsFiniteSet(S), NEW h
  PROVE  \E g : IsSum(g, h, S)
<1>0. \A s \in SUBSET S : Shrinks(s, S)
  BY SmallerSet
<1>. DEFINE N == {n \in Nat : \E g : SumsTo(g, h, S, n)}
<1>1. 0 \in N
  <2>. DEFINE g == [s \in SUBSET S |-> 0]
  <2>1. ASSUME NEW s \in SUBSET S, Cardinality(s) <= 0 PROVE g[s] = Added(g, h, s)
    <3>1. Shrinks(s, S)
      BY <1>0
    <3>2. s = {}
      BY <2>1, <3>1 DEF Shrinks
    <3>. QED BY <3>2 DEF Added
  <2>. HIDE DEF g
  <2>3. SumsTo(g, h, S, 0)
    BY <2>1 DEF SumsTo
  <2>. QED BY <2>3
<1>2. ASSUME NEW n \in Nat, n \in N PROVE n + 1 \in N
  <2>1. PICK g : SumsTo(g, h, S, n)
    BY <1>2
  <2>. DEFINE k == [s \in SUBSET S |-> Added(g, h, s)]
  <2>2. \A s \in SUBSET S : k[s] = Added(g, h, s)
    OBVIOUS
  <2>. HIDE DEF k
  <2>4. ASSUME NEW s \in SUBSET S, Cardinality(s) <= n + 1 PROVE k[s] = Added(k, h, s)
    <3>0. Shrinks(s, S) /\ Cardinality(s) <= n + 1
      BY <1>0, <2>4
    <3>1. CASE s = {}
      BY <2>2, <3>1 DEF Added
    <3>2. CASE s # {}
      <4>. DEFINE t == s \ {First(s)}
      <4>1. t \in SUBSET S /\ Cardinality(t) <= n
        BY <3>0, <3>2 DEF Shrinks
      <4>2. k[t] = g[t]
        BY <2>1, <2>2, <4>1 DEF SumsTo
      <4>. QED BY <2>2, <3>2, <4>2 DEF Added
    <3>. QED BY <3>1, <3>2
  <2>5. SumsTo(k, h, S, n + 1)
    BY <2>4 DEF SumsTo
  <2>. QED BY <2>5
<1>3. \A n \in Nat : n \in N
  <2>. HIDE DEF N
  <2>. QED BY <1>1, <1>2, Induction
<1>4. PICK g : SumsTo(g, h, S, Cardinality(S))
  BY <1>3, FS_CardinalityType
<1>5. \A s \in SUBSET S : g[s] = Added(g, h, s)
  <2>. TAKE s \in SUBSET S
  <2>1. Shrinks(s, S)
    BY <1>0
  <2>. QED BY <1>4, <2>1 DEF Shrinks, SumsTo
<1>. DEFINE k == [s \in SUBSET S |-> g[s]]
<1>6. ASSUME NEW s \in SUBSET S PROVE g[s] = Added(k, h, s)
  <2>1. s # {} => s \ {First(s)} \in SUBSET S
    OBVIOUS
  <2>. QED BY <1>5, <2>1 DEF Added
<1>7. k = [s \in SUBSET S |-> Added(k, h, s)]
  BY <1>6
<1>. HIDE DEF k
<1>. QED BY <1>7 DEF IsSum

(* A sum of amounts none of which is larger than q.                        *)
LEMMA SumIsBounded ==
  ASSUME NEW S, IsFiniteSet(S), NEW q \in Nat, NEW h \in [S -> 0 .. q]
  PROVE  SumOf(h, S) \in 0 .. (Cardinality(S) * q)
<1>0. \A s \in SUBSET S : Shrinks(s, S)
  BY SmallerSet
<1>. DEFINE g == CHOOSE g : IsSum(g, h, S)
<1>1. IsSum(g, h, S)
  BY SumExists
<1>. HIDE DEF g
<1>2. \A s \in SUBSET S : g[s] = Added(g, h, s)
  BY <1>1 DEF IsSum
<1>. DEFINE N == {n \in Nat : \A s \in SUBSET S : Cardinality(s) <= n => g[s] \in 0 .. (Cardinality(s) * q)}
<1>3. 0 \in N
  <2>1. ASSUME NEW s \in SUBSET S, Cardinality(s) <= 0 PROVE g[s] \in 0 .. (Cardinality(s) * q)
    <3>1. Shrinks(s, S)
      BY <1>0
    <3>2. s = {} /\ Cardinality(s) = 0
      BY <2>1, <3>1 DEF Shrinks
    <3>3. g[s] = 0
      BY <1>2, <3>2 DEF Added
    <3>. QED BY <3>2, <3>3
  <2>. QED BY <2>1
<1>4. ASSUME NEW n \in Nat, n \in N PROVE n + 1 \in N
  <2>1. ASSUME NEW s \in SUBSET S, Cardinality(s) <= n + 1 PROVE g[s] \in 0 .. (Cardinality(s) * q)
    <3>0. Shrinks(s, S) /\ Cardinality(s) <= n + 1
      BY <1>0, <2>1
    <3>1. CASE s = {}
      <4>1. Cardinality(s) = 0
        BY <3>1, FS_EmptySet
      <4>2. g[s] = 0
        BY <1>2, <3>1 DEF Added
      <4>. QED BY <4>1, <4>2
    <3>2. CASE s # {}
      <4>. DEFINE t == s \ {First(s)}
                  c == Cardinality(s)
                  d == g[t]
                  b == h[First(s)]
      <4>1. t \in SUBSET S /\ Cardinality(t) <= n /\ Cardinality(t) = c - 1 /\ First(s) \in S /\ c \in Nat
        BY <3>0, <3>2 DEF Shrinks
      <4>2. d \in 0 .. (Cardinality(t) * q)
        BY <1>4, <4>1
      <4>3. b \in 0 .. q
        BY <4>1
      <4>4. g[s] = b + d
        BY <1>2, <3>2 DEF Added
      <4>. HIDE DEF t, c, d, b
      <4>5. (c - 1) * q + q = c * q /\ (c - 1) * q \in Int /\ c * q \in Int
        BY <4>1
      <4>6. b + d \in 0 .. (c * q)
        BY <4>1, <4>2, <4>3, <4>5
      <4>. QED BY <4>4, <4>6 DEF c
    <3>. QED BY <3>1, <3>2
  <2>. QED BY <2>1
<1>5. \A n \in Nat : n \in N
  <2>. HIDE DEF N
  <2>. QED BY <1>3, <1>4, Induction
<1>6. Cardinality(S) \in Nat /\ S \in SUBSET S
  BY FS_CardinalityType
<1>7. g[S] \in 0 .. (Cardinality(S) * q)
  BY <1>5, <1>6
<1>. QED BY <1>7 DEF SumOf, g

(* The runs are finitely many, in the one module as in the other.          *)
LEMMA RunsCount ==
  /\ ProbeRun!RunsAssumption => IsFiniteSet(Runs) /\ RunQuantity \in Nat /\ Cardinality(Runs) \in Nat
  /\ ProbeRun!Cardinality(Runs) = Cardinality(Runs)
<1>1. ProbeRun!IsFiniteSet(Runs) <=> IsFiniteSet(Runs)
  BY DEF ProbeRun!IsFiniteSet, IsFiniteSet
<1>2. ProbeRun!Cardinality(Runs) = Cardinality(Runs)
  BY DEF ProbeRun!Cardinality, Cardinality
<1>3. ProbeRun!RunsAssumption => IsFiniteSet(Runs) /\ RunQuantity \in Nat
  BY <1>1 DEF ProbeRun!RunsAssumption
<1>. QED BY <1>2, <1>3, FS_CardinalityType

(* What a run holds is no more than the quantity of its entry, and the     *)
(* account holds what its runs do.                                         *)
LEMMA PositionIsBounded ==
  ASSUME ProbeRun!RunsAssumption, RunsInv
  PROVE  ProbeRun!Position \in 0 .. (Cardinality(Runs) * RunQuantity)
<1>1. ASSUME NEW r \in Runs PROVE ProbeRun!Held(r) \in 0 .. RunQuantity
  <2>. DEFINE entry == <<r, "entry">>
              exit == <<r, "exit">>
  <2>1. entry \in ProbeRun!Legs /\ exit \in ProbeRun!Legs /\ Chained(r)
    BY LegsAre DEF RunsInv
  <2>. HIDE DEF entry, exit
  <2>2. /\ RunQuantity \in Nat /\ OrderOf(entry) /\ OrderOf(exit)
        /\ probeVenue[entry].filled \in Nat /\ probeVenue[exit].filled \in Nat
        /\ probeVenue[entry].filled <= probeSize[entry] /\ probeVenue[exit].filled <= probeSize[exit]
        /\ probeSize[entry] \in 0 .. RunQuantity /\ probeSize[exit] \in Nat
    BY <2>1, RunsFacts DEF ProbeRun!Lots
  <2>3. CASE probeIntent[exit] = "ABSENT"
    <3>1. probeVenue[exit].filled = 0
      BY <2>2, <2>3 DEF OrderOf, ProbeRun!NoOrder
    <3>. QED BY <2>2, <3>1 DEF ProbeRun!Held, entry, exit
  <2>4. CASE probeIntent[exit] # "ABSENT"
    <3>1. probeSize[exit] = probeVenue[entry].filled
      BY <2>1, <2>4 DEF Chained, entry, exit
    <3>. QED BY <2>2, <3>1 DEF ProbeRun!Held, entry, exit
  <2>. QED BY <2>3, <2>4
<1>. DEFINE h == [r \in Runs |-> ProbeRun!Held(r)]
<1>2. ProbeRun!Position = SumOf(h, Runs)
  <2>1. \A s \in SUBSET Runs : s # {} => First(s) \in Runs
    BY DEF First
  <2>. QED BY <2>1 DEF ProbeRun!Position, ProbeRun!MapThenSumSet, ProbeRun!MapThenFoldSet, SumOf, IsSum, Added, First
<1>3. h \in [Runs -> 0 .. RunQuantity] /\ RunQuantity \in Nat
  BY <1>1 DEF ProbeRun!RunsAssumption
<1>. HIDE DEF h
<1>. QED BY <1>2, <1>3, RunsCount, SumIsBounded

(* The state of the runs has its types, the baselines bounded by what the  *)
(* account can hold.                                                       *)
LEMMA RunsTypedInit ==
  ASSUME ProbeRun!RunsAssumption, ProbeRun!Init
  PROVE  ProbeRun!TypeOK
<1>1. RunQuantity \in Nat /\ Cardinality(Runs) \in Nat
  BY RunsCount
<1>2. Cardinality(Runs) * RunQuantity \in Nat
  BY <1>1
<1>3. baseline \in [Runs -> 0 .. (Cardinality(Runs) * RunQuantity)]
  BY <1>2 DEF ProbeRun!Init
<1>4. RunsTypes
  BY RunsInit DEF RunsInv
<1>. QED BY <1>3, <1>4, RunsCount DEF ProbeRun!TypeOK, RunsTypes

(* Only the creation of a run writes a baseline.                           *)
LEMMA RunsAreTyped ==
  ASSUME ProbeRun!RunsAssumption, RunsInv, ProbeRun!TypeOK, [ProbeRun!Next]_ProbeRun!vars
  PROVE  ProbeRun!TypeOK'
<1>1. RunsTypes'
  BY RunsStep DEF RunsInv
<1>2. baseline' \in [Runs -> 0 .. (Cardinality(Runs) * RunQuantity)]
  <2>0. baseline \in [Runs -> 0 .. (Cardinality(Runs) * RunQuantity)]
    BY RunsCount DEF ProbeRun!TypeOK
  <2>1. CASE \E r \in Runs : ProbeRun!Create(r)
    <3>1. PICK r \in Runs : baseline' = [baseline EXCEPT ![r] = ProbeRun!Position]
      BY <2>1 DEF ProbeRun!Create
    <3>2. ProbeRun!Position \in 0 .. (Cardinality(Runs) * RunQuantity)
      BY PositionIsBounded
    <3>. QED BY <2>0, <3>1, <3>2
  <2>2. CASE ~ \E r \in Runs : ProbeRun!Create(r)
    <3>1. baseline' = baseline
      BY <2>2 DEF ProbeRun!Next, ProbeRun!Recheck, ProbeRun!Submit, ProbeRun!Query, ProbeRun!Project, ProbeRun!VenueMoves, ProbeRun!vars
    <3>. QED BY <2>0, <3>1
  <2>. QED BY <2>1, <2>2
<1>. QED BY <1>1, <1>2, RunsCount DEF ProbeRun!TypeOK, RunsTypes

-----------------------------------------------------------------------------
(***************************************************************************)
(* The types of the hybrid probe.                                          *)
(***************************************************************************)
(* What the venue and the thread have of an order is no more than twice    *)
(* the quantity.                                                           *)
HybridMore ==
  /\ flattened \subseteq Probes /\ news \subseteq Hybrid!Orders /\ probe \in Probes \cup {Hybrid!NoOne}
  /\ exchange \in [Hybrid!Orders -> Hybrid!Snapshot] /\ heard \in [Hybrid!Orders -> Hybrid!Snapshot]
  /\ snapshot \in Hybrid!Snapshot /\ entered \in Hybrid!Lots /\ failures \in 0 .. MaxFailures

(* An order is reported with no more than its quantity.                    *)
LEMMA TakenInLots ==
  ASSUME Hybrid!ProbeAssumption, NEW o, NEW q \in Hybrid!Lots
  PROVE  Hybrid!Taken(o, q) \subseteq Hybrid!Snapshot
<1>1. LeastQuantity \in Nat /\ q \in 0 .. (2 * LeastQuantity)
  BY DEF Hybrid!ProbeAssumption, Hybrid!Lots
<1>2. \A m \in 0 .. (q - 1) : m \in 0 .. (2 * LeastQuantity)
  BY <1>1
<1>3. 0 \in 0 .. (2 * LeastQuantity)
  BY <1>1
<1>. QED BY <1>1, <1>2, <1>3 DEF Hybrid!Taken, Hybrid!Snapshot, Hybrid!Status, Hybrid!Lots

LEMMA NothingInLots ==
  ASSUME Hybrid!ProbeAssumption
  PROVE  /\ Hybrid!Nothing \in Hybrid!Snapshot /\ Refused \in Hybrid!Snapshot
         /\ 0 \in Hybrid!Lots /\ LeastQuantity \in Hybrid!Lots
BY DEF Hybrid!ProbeAssumption, Hybrid!Lots, Hybrid!Nothing, Hybrid!Snapshot, Hybrid!Status, Refused

LEMMA HybridMoreInit == Hybrid!ProbeAssumption /\ Hybrid!Init => HybridMore
<1>. SUFFICES ASSUME Hybrid!ProbeAssumption, Hybrid!Init PROVE HybridMore
  OBVIOUS
<1>1. MaxFailures \in Nat
  BY DEF Hybrid!ProbeAssumption
<1>. QED BY <1>1, NothingInLots DEF Hybrid!Init, HybridMore

(* What the venue, the stream and the failures do.                         *)
LEMMA HybridMoreAround ==
  ASSUME Hybrid!ProbeAssumption, HybridMore,
         \/ \E o \in Hybrid!Orders : Hybrid!VenueMoves(o) \/ Hybrid!OnEvent(o) \/ Hybrid!LoseEvent(o)
         \/ Hybrid!Crash \/ Hybrid!LockExpires \/ UNCHANGED Hybrid!vars
  PROVE  HybridMore'
<1>1. CASE \E o \in Hybrid!Orders : Hybrid!VenueMoves(o)
  <2>1. PICK o \in Hybrid!Orders : Hybrid!VenueMoves(o)
    BY <1>1
  <2>2. Hybrid!Size(o) \in Hybrid!Lots
    <3>1. o[2] # "entry" => <<o[1], "entry">> \in Hybrid!Orders
      BY DEF Hybrid!Orders, Hybrid!Sides
    <3>. QED BY <3>1, NothingInLots DEF Hybrid!Size, HybridMore, Hybrid!Snapshot
  <2>3. PICK s \in Hybrid!Taken(o, Hybrid!Size(o)) : exchange' = [exchange EXCEPT ![o] = s] /\ news' = news \cup {o}
    BY <2>1 DEF Hybrid!VenueMoves, Hybrid!Reports
  <2>4. s \in Hybrid!Snapshot
    BY <2>2, <2>3, TakenInLots
  <2>5. UNCHANGED <<flattened, heard, probe, snapshot, entered, failures>>
    BY <2>1 DEF Hybrid!VenueMoves, Hybrid!redis, Hybrid!thread
  <2>. QED BY <2>3, <2>4, <2>5 DEF HybridMore
<1>2. CASE \E o \in Hybrid!Orders : Hybrid!OnEvent(o) \/ Hybrid!LoseEvent(o)
  BY <1>2 DEF Hybrid!OnEvent, Hybrid!LoseEvent, Hybrid!redis, Hybrid!thread, HybridMore
<1>3. CASE Hybrid!Crash
  <2>1. /\ failures' = failures + 1 /\ failures < MaxFailures /\ MaxFailures \in Nat
        /\ heard' = [o \in Hybrid!Orders |-> Hybrid!Nothing] /\ news' = {}
        /\ probe' = Hybrid!NoOne /\ snapshot' = Hybrid!Nothing /\ entered' = 0 /\ UNCHANGED <<flattened, exchange>>
    BY <1>3 DEF Hybrid!Crash, Hybrid!Return, Hybrid!redis, Hybrid!ProbeAssumption
  <2>. QED BY <2>1, NothingInLots DEF HybridMore
<1>4. CASE Hybrid!LockExpires
  <2>1. /\ failures' = failures + 1 /\ failures < MaxFailures /\ MaxFailures \in Nat
        /\ UNCHANGED <<flattened, heard, news, exchange, probe, snapshot, entered>>
    BY <1>4 DEF Hybrid!LockExpires, Hybrid!market, Hybrid!thread, Hybrid!ProbeAssumption
  <2>. QED BY <2>1 DEF HybridMore
<1>5. CASE UNCHANGED Hybrid!vars
  BY <1>5 DEF Hybrid!vars, Hybrid!redis, Hybrid!market, Hybrid!thread, HybridMore
<1>. QED BY <1>1, <1>2, <1>3, <1>4, <1>5

(* A call that failed leaves the thread with nothing.                      *)
LEMMA RaiseIs ==
  ASSUME Hybrid!Raise
  PROVE  probe' = Hybrid!NoOne /\ snapshot' = Hybrid!Nothing /\ entered' = 0 /\ flattened' = flattened
BY DEF Hybrid!Raise, Hybrid!Return

(* An order is sent, or asked for.                                         *)
LEMMA SubmitInLots ==
  ASSUME Hybrid!ProbeAssumption, HybridMore, NEW o \in Hybrid!Orders, NEW q \in Hybrid!Lots, NEW next,
         Hybrid!SubmitOrder(o, q, next), heard' = heard, failures' = failures
  PROVE  HybridMore'
<1>1. CASE \E s \in Hybrid!Taken(o, q) :
             /\ Hybrid!Reports(o, Hybrid!Nothing, s)
             /\ \/ snapshot' = s /\ Hybrid!GoTo(next) /\ UNCHANGED <<Hybrid!redis, entered>>
                \/ Hybrid!Raise
  <2>1. PICK s \in Hybrid!Taken(o, q) :
             /\ Hybrid!Reports(o, Hybrid!Nothing, s)
             /\ \/ snapshot' = s /\ Hybrid!GoTo(next) /\ UNCHANGED <<Hybrid!redis, entered>>
                \/ Hybrid!Raise
    BY <1>1
  <2>2. s \in Hybrid!Snapshot
    BY TakenInLots
  <2>3. exchange' = [exchange EXCEPT ![o] = s] /\ news' = news \cup {o}
    BY <2>1 DEF Hybrid!Reports
  <2>4. CASE snapshot' = s /\ Hybrid!GoTo(next) /\ UNCHANGED <<Hybrid!redis, entered>>
    BY <2>2, <2>3, <2>4 DEF HybridMore, Hybrid!GoTo, Hybrid!redis
  <2>5. CASE Hybrid!Raise
    BY <2>2, <2>3, <2>5, RaiseIs, NothingInLots DEF HybridMore
  <2>. QED BY <2>1, <2>4, <2>5
<1>2. CASE /\ snapshot' = Refused /\ Hybrid!GoTo(next)
           /\ UNCHANGED <<Hybrid!redis, Hybrid!market, entered>>
  BY <1>2, NothingInLots DEF HybridMore, Hybrid!GoTo, Hybrid!redis, Hybrid!market
<1>3. CASE Hybrid!Raise /\ UNCHANGED Hybrid!market
  BY <1>3, RaiseIs, NothingInLots DEF HybridMore, Hybrid!market
<1>. QED BY <1>1, <1>2, <1>3 DEF Hybrid!SubmitOrder, Refused

LEMMA QueryInLots ==
  ASSUME Hybrid!ProbeAssumption, HybridMore, NEW o \in Hybrid!Orders, NEW next,
         Hybrid!Query(o, next), UNCHANGED Hybrid!market, failures' = failures
  PROVE  HybridMore'
<1>0. exchange' = exchange /\ news' = news /\ exchange[o] \in Hybrid!Snapshot
  BY DEF Hybrid!market, HybridMore
<1>1. CASE /\ snapshot' = exchange[o] /\ heard' = [heard EXCEPT ![o] = exchange[o]]
           /\ Hybrid!GoTo(next) /\ UNCHANGED <<Hybrid!redis, entered>>
  BY <1>0, <1>1 DEF HybridMore, Hybrid!GoTo, Hybrid!redis
<1>2. CASE Hybrid!Raise /\ UNCHANGED heard
  BY <1>0, <1>2, RaiseIs, NothingInLots DEF HybridMore
<1>. QED BY <1>1, <1>2 DEF Hybrid!Query, Hybrid!Seeded

(* The steps of the thread that send or ask.                               *)
LEMMA SendingInLots ==
  ASSUME Hybrid!ProbeAssumption, HybridInv, HybridMore, Hybrid!Entry \/ Hybrid!Flatten
  PROVE  HybridMore'
<1>1. probe \in Probes
  BY DEF HybridInv, ThreadInv, Hybrid!Entry, Hybrid!Flatten
<1>2. Hybrid!entry \in Hybrid!Orders /\ Hybrid!flatten \in Hybrid!Orders
  BY <1>1 DEF Hybrid!entry, Hybrid!flatten, Hybrid!Orders, Hybrid!Sides
<1>3. entered \in Hybrid!Lots /\ LeastQuantity \in Hybrid!Lots
  BY NothingInLots DEF HybridMore
<1>4. failures' = failures
  BY DEF Hybrid!Entry, Hybrid!Flatten
<1>5. CASE Hybrid!Entry
  BY <1>2, <1>3, <1>4, <1>5, SubmitInLots, QueryInLots DEF Hybrid!Entry
<1>6. CASE Hybrid!Flatten
  BY <1>2, <1>3, <1>4, <1>6, SubmitInLots, QueryInLots DEF Hybrid!Flatten
<1>. QED BY <1>5, <1>6

(* Its other steps.                                                        *)
LEMMA ThreadInLots ==
  ASSUME Hybrid!ProbeAssumption, HybridInv, HybridMore,
         \/ \E p \in Probes : Hybrid!Acquire(p) \/ Hybrid!Resume(p)
         \/ Hybrid!FailBeforeExposure \/ Hybrid!Prepare \/ Hybrid!SaveEntry \/ Hybrid!WaitEntry
         \/ Hybrid!SaveFlatten \/ Hybrid!WaitFlatten \/ Hybrid!Finish \/ Hybrid!Release
  PROVE  HybridMore'
<1>0. pc # "idle" => /\ probe \in Probes
                     /\ Hybrid!entry \in Hybrid!Orders /\ Hybrid!flatten \in Hybrid!Orders
  BY DEF HybridInv, ThreadInv, Hybrid!entry, Hybrid!flatten, Hybrid!Orders, Hybrid!Sides
<1>1. CASE \E p \in Probes : Hybrid!Acquire(p) \/ Hybrid!Resume(p)
  BY <1>1 DEF HybridMore, Hybrid!Acquire, Hybrid!Resume, Hybrid!redis, Hybrid!market
<1>2. CASE Hybrid!FailBeforeExposure \/ Hybrid!Release
  BY <1>2, NothingInLots DEF HybridMore, Hybrid!FailBeforeExposure, Hybrid!Release, Hybrid!Return, Hybrid!market
<1>3. CASE Hybrid!Prepare
  BY <1>3 DEF HybridMore, Hybrid!Prepare, Hybrid!GoTo, Hybrid!market
<1>4. CASE Hybrid!SaveEntry
  BY <1>0, <1>4 DEF HybridMore, Hybrid!SaveEntry, Hybrid!GoTo, Hybrid!market, Hybrid!Seeded
<1>5. CASE Hybrid!SaveFlatten
  BY <1>0, <1>5 DEF HybridMore, Hybrid!SaveFlatten, Hybrid!GoTo, Hybrid!market, Hybrid!Seeded
<1>6. CASE Hybrid!WaitEntry
  <2>1. /\ pc # "idle" /\ UNCHANGED <<exchange, news, heard, failures>>
        /\ Hybrid!Confirmed(Hybrid!entry) \in Hybrid!Snapshot
    BY <1>0, <1>6 DEF HybridMore, Hybrid!WaitEntry, Hybrid!market, Hybrid!Confirmed
  <2>2. CASE Hybrid!EntryOver(Hybrid!Confirmed(Hybrid!entry))
    <3>. DEFINE s == Hybrid!Confirmed(Hybrid!entry)
    <3>1. /\ snapshot' = s /\ probe' = probe /\ flattened' = flattened
          /\ entered' \in {entered, s.filled}
      BY <2>2 DEF Hybrid!EntryOver, Hybrid!GoTo
    <3>. QED BY <2>1, <3>1 DEF HybridMore, Hybrid!Snapshot
  <2>3. CASE Hybrid!GoTo("cancel") /\ UNCHANGED <<Hybrid!redis, snapshot, entered>>
    BY <2>1, <2>3 DEF HybridMore, Hybrid!GoTo, Hybrid!redis
  <2>4. CASE Hybrid!Raise
    BY <2>1, <2>4, RaiseIs, NothingInLots DEF HybridMore
  <2>. QED BY <1>6, <2>2, <2>3, <2>4 DEF Hybrid!WaitEntry
<1>7. CASE Hybrid!WaitFlatten \/ Hybrid!Finish
  <2>1. UNCHANGED <<exchange, news, heard, failures>>
    BY <1>7 DEF Hybrid!WaitFlatten, Hybrid!Finish, Hybrid!market
  <2>2. \/ Hybrid!Raise
        \/ UNCHANGED <<probe, snapshot, entered, flattened>>
    BY <1>7 DEF Hybrid!WaitFlatten, Hybrid!Finish, Hybrid!GoTo, Hybrid!redis
  <2>3. CASE Hybrid!Raise
    BY <2>1, <2>3, RaiseIs, NothingInLots DEF HybridMore
  <2>. QED BY <2>1, <2>2, <2>3 DEF HybridMore
<1>. QED BY <1>1, <1>2, <1>3, <1>4, <1>5, <1>6, <1>7

(* An entry is cancelled, at the venue or not even there.                  *)
LEMMA CancelInLots ==
  ASSUME Hybrid!ProbeAssumption, HybridInv, HybridMore, Hybrid!CancelEntry
  PROVE  HybridMore'
<1>. DEFINE o == Hybrid!entry
            s == [exchange[o] EXCEPT !.status = "CANCELED"]
<1>1. o \in Hybrid!Orders /\ failures' = failures
  BY DEF HybridInv, ThreadInv, Hybrid!CancelEntry, Hybrid!entry, Hybrid!Orders, Hybrid!Sides
<1>2. s \in Hybrid!Snapshot
  BY <1>1 DEF HybridMore, Hybrid!Snapshot, Hybrid!Status
<1>. HIDE DEF o, s
<1>3. CASE Hybrid!Reports(o, exchange[o], s)
  <2>1. exchange' = [exchange EXCEPT ![o] = s] /\ news' = news \cup {o}
    BY <1>3 DEF Hybrid!Reports
  <2>2. exchange'[o] = s
    BY <1>1, <2>1 DEF HybridMore
  <2>3. CASE Hybrid!Raise /\ UNCHANGED heard
    BY <1>1, <1>2, <2>1, <2>3, RaiseIs, NothingInLots DEF HybridMore
  <2>4. CASE /\ snapshot' = exchange'[o] /\ heard' = [heard EXCEPT ![o] = exchange'[o]]
             /\ Hybrid!GoTo("wait cancel") /\ UNCHANGED <<Hybrid!redis, entered>>
    BY <1>1, <1>2, <2>1, <2>2, <2>4 DEF HybridMore, Hybrid!GoTo, Hybrid!redis
  <2>. QED BY <1>3, <2>3, <2>4 DEF Hybrid!CancelEntry, Hybrid!Seeded, o, s
<1>4. CASE Hybrid!Raise /\ UNCHANGED <<heard, exchange, news>>
  BY <1>1, <1>4, RaiseIs, NothingInLots DEF HybridMore
<1>. QED BY <1>3, <1>4 DEF Hybrid!CancelEntry, o, s

LEMMA HybridMoreStep ==
  ASSUME Hybrid!ProbeAssumption, HybridInv, HybridMore, [Hybrid!Next]_Hybrid!vars
  PROVE  HybridMore'
BY HybridMoreAround, SendingInLots, ThreadInLots, CancelInLots DEF Hybrid!Next

(* The state of the probes has its types.                                  *)
LEMMA HybridIsTyped ==
  ASSUME HybridInv, HybridMore
  PROVE  Hybrid!TypeOK
<1>1. ASSUME NEW p \in Probes PROVE entries[p] \in 0 .. 2
  <2>1. entries[p] \in {0, 1}
    BY DEF HybridInv, ProbeInv
  <2>. QED BY <2>1
<1>2. entries \in [Probes -> 0 .. 2]
  BY <1>1 DEF HybridInv, HybridTypes
<1>. QED BY <1>2 DEF HybridInv, HybridTypes, HybridMore, Hybrid!TypeOK

-----------------------------------------------------------------------------
(***************************************************************************)
(* The types of the rows and the result of a group.                        *)
(***************************************************************************)
(* Every state of an order at the exchange has a price that is no less     *)
(* than nothing.                                                           *)
LEMMA AfterIsTyped ==
  ASSUME Cash!FinancialsAssumption, CashTypes, NEW o \in Cash!Orders, NEW k \in 1 .. Cash!Parts(o)
  PROVE  Cash!After(o, k).filled \in Nat /\ Cash!After(o, k).avg2 \in Nat
<1>. DEFINE s == Cash!Size(o)
            x == Cash!Notional(o, k)
            d == k * s
<1>1. Cash!Parts(o) \in {1, 2} /\ k \in {1, 2} /\ s \in {1, 2}
  BY PartsAre
<1>2. price[<<o, 1>>] \in Nat /\ price[<<o, 2>>] \in Nat
  BY DEF CashTypes
<1>. HIDE DEF s
<1>3. x \in Nat
  BY <1>1, <1>2 DEF Cash!Notional, s
<1>4. d \in {1, 2, 4}
  BY <1>1
<1>. HIDE DEF x, d
<1>5. (2 * x) \div d \in Nat
  BY <1>3, <1>4
<1>6. Cash!After(o, k).filled = d /\ Cash!After(o, k).avg2 = (2 * x) \div d
  BY DEF Cash!After, s, x, d
<1>. QED BY <1>4, <1>5, <1>6

(* What is added up over one or two orders.                                *)
LEMMA TotalIsTyped ==
  ASSUME NEW S, S # {}, NEW f, \A o \in S : f[o] \in Nat
  PROVE  Total(S, f) \in Nat /\ ((\A o \in S : f[o] > 0) => Total(S, f) > 0)
<1>. DEFINE o == CHOOSE x \in S : TRUE
            q == CHOOSE x \in S \ {o} : TRUE
<1>1. o \in S
  OBVIOUS
<1>2. S # {o} => q \in S
  BY <1>1
<1>3. Total(S, f) = f[o] + (IF S = {o} THEN 0 ELSE f[q])
  BY DEF Total
<1>. HIDE DEF o, q
<1>. QED BY <1>1, <1>2, <1>3

(* The average price of a leg that has filled is a number.                 *)
LEMMA AverageIsTyped ==
  ASSUME paid \in [Cash!Orders -> [filled : 0 .. Cash!Quantity, avg2 : Nat, fee : Nat]],
         NEW leg, NEW action, Cash!Known(leg, action)
  PROVE  Cash!Weighted2(leg, action) \in Int
<1>. DEFINE S == Cash!With(leg, action)
            f == [o \in S |-> paid[o].filled * paid[o].avg2]
            g == [o \in S |-> paid[o].filled]
            a == Total(S, f)
            b == Total(S, g)
<1>1. S # {} /\ \A o \in S : o \in Cash!Orders /\ paid[o].filled > 0
  BY DEF Cash!Known, Cash!With
<1>2. \A o \in S : paid[o].filled \in Nat /\ paid[o].avg2 \in Nat
  BY <1>1 DEF Cash!Quantity
<1>. HIDE DEF S
<1>3. /\ \A o \in S : f[o] \in Nat
      /\ \A o \in S : g[o] \in Nat /\ g[o] > 0
  BY <1>1, <1>2
<1>. HIDE DEF f, g
<1>4. a \in Nat /\ b \in Nat /\ b > 0
  BY <1>1, <1>3, TotalIsTyped
<1>. HIDE DEF a, b
<1>5. a \div b \in Int
  BY <1>4
<1>6. Cash!Weighted2(leg, action) = a \div b
  BY AverageIs DEF Average2, S, f, g, a, b
<1>. QED BY <1>5, <1>6

(* The state of the group's result at the start.                           *)
LEMMA CashTypedInit == Cash!FinancialsAssumption /\ Cash!Init => Cash!TypeOK
<1>. SUFFICES ASSUME Cash!FinancialsAssumption, Cash!Init PROVE Cash!TypeOK
  OBVIOUS
<1>1. PICK p \in [Cash!Chosen -> Prices] :
          price = [f \in Cash!Orders \X (1..2) |-> IF f \in Cash!Chosen THEN p[f] ELSE ClosePrice]
  BY DEF Cash!Init
<1>2. price \in [Cash!Orders \X (1..2) -> Prices \cup {ClosePrice}]
  BY <1>1
<1>3. \A o \in Cash!Orders : Cash!Parts(o) \in Nat
  BY PartsAre
<1>4. paid \in [Cash!Orders -> [filled : 0 .. Cash!Quantity, avg2 : Nat, fee : Nat]]
  BY DEF Cash!Init, Cash!Quantity
<1>5. \A o \in Cash!Orders : reports[o] \in 0 .. Cash!Parts(o) /\ fills[o] \in 0 .. Cash!Parts(o)
  BY <1>3 DEF Cash!Init
<1>6. asked = {} /\ outdated = FALSE /\ result = [status |-> "open", fees |-> 0, realized2 |-> 0]
  BY Zenon DEF Cash!Init
<1>7. outdated \in BOOLEAN
  BY <1>6
<1>8. result \in [status : {"open", "closed"}, fees : Nat, realized2 : Int]
  <2>1. [status |-> "open", fees |-> 0, realized2 |-> 0] \in [status : {"open", "closed"}, fees : Nat, realized2 : Int]
    OBVIOUS
  <2>. QED BY <1>6, <2>1, Zenon
<1>. QED BY <1>2, <1>4, <1>5, <1>6, <1>7, <1>8 DEF Cash!TypeOK

(* The rows keep their types, whichever channel writes them.               *)
LEMMA RowsAreTyped ==
  ASSUME Cash!FinancialsAssumption, ~LateAnswers, CashInv, Cash!TypeOK, NEW o \in Cash!Orders,
         Cash!Report(o) \/ Cash!Fill(o) \/ Cash!Answer(o) \/ Cash!Batch(o)
  PROVE  Cash!TypeOK'
<1>1. CashInv'
  BY ChannelKeeps
<1>2. /\ price' = price /\ result' = result /\ asked' \in {asked, asked \cup {o}} /\ outdated' = TRUE
      /\ asked \subseteq Cash!Orders
  BY DEF Cash!Report, Cash!Fill, Cash!Answer, Cash!Batch, Cash!Projected, Cash!TypeOK
<1>3. ASSUME NEW q \in Cash!Orders PROVE paid[q].filled \in Nat /\ paid[q].avg2 \in Nat
  BY DEF Cash!TypeOK, Cash!Quantity
<1>4. \E k \in 1 .. Cash!Parts(o) :
         /\ paid' = [paid EXCEPT ![o] = paid'[o]]
         /\ paid'[o].filled \in {paid[o].filled, Cash!After(o, k).filled}
         /\ paid'[o].avg2 = Cash!After(o, k).avg2
  <2>1. /\ paid \in [Cash!Orders -> [filled : Int, avg2 : Int, fee : Int]]
        /\ reports[o] \in Nat /\ fills[o] \in Nat /\ Cash!Parts(o) \in {1, 2}
    BY PartsAre DEF CashInv, CashTypes
  <2>2. CASE Cash!Report(o)
    <3>1. reports[o] + 1 \in 1 .. Cash!Parts(o)
      BY <2>1, <2>2 DEF Cash!Report
    <3>. QED BY <2>1, <2>2, <3>1 DEF Cash!Report, Cash!Projected, Cash!Larger
  <2>3. CASE Cash!Fill(o)
    <3>1. fills[o] + 1 \in 1 .. Cash!Parts(o)
      BY <2>1, <2>3 DEF Cash!Fill
    <3>2. Cash!After(o, fills[o] + 1) = [filled |-> Cash!After(o, fills[o] + 1).filled,
             avg2 |-> Cash!After(o, fills[o] + 1).avg2, fee |-> Cash!After(o, fills[o] + 1).fee]
      BY <3>1, AfterIs DEF CashInv
    <3>. QED BY <2>1, <2>3, <3>1, <3>2 DEF Cash!Fill, Cash!Projected, Cash!Larger
  <2>4. CASE Cash!Answer(o)
    BY <2>1, <2>4 DEF Cash!Answer, Cash!Projected, Cash!Larger
  <2>5. CASE Cash!Batch(o)
    <3>1. 1 \in 1 .. Cash!Parts(o)
      BY <2>1
    <3>. QED BY <2>1, <2>5, <3>1 DEF Cash!Batch, Cash!Projected
  <2>. QED BY <2>2, <2>3, <2>4, <2>5
<1>5. paid'[o].filled \in Nat /\ paid'[o].avg2 \in Nat /\ \A q \in Cash!Orders : q # o => paid'[q] = paid[q]
  BY <1>3, <1>4, AfterIsTyped DEF CashInv, CashTypes
<1>6. ASSUME NEW q \in Cash!Orders
      PROVE  paid'[q] \in [filled : 0 .. Cash!Quantity, avg2 : Nat, fee : Nat]
  <2>1. /\ paid'[q] \in [filled : Int, avg2 : Int, fee : Int] /\ paid'[q].filled <= Cash!Whole(q) /\ 0 <= paid'[q].fee
    BY <1>1 DEF CashInv, CashTypes, PaidOf
  <2>2. Cash!Whole(q) \in {1, 2}
    BY DEF Cash!Orders, Cash!Whole, Cash!Parts, Cash!Size, Cash!Action
  <2>3. paid'[q].filled \in Nat /\ paid'[q].avg2 \in Nat
    BY <1>3, <1>5
  <2>. QED BY <2>1, <2>2, <2>3 DEF Cash!Quantity
<1>7. /\ paid' \in [Cash!Orders -> [filled : 0 .. Cash!Quantity, avg2 : Nat, fee : Nat]]
      /\ \A q \in Cash!Orders : reports'[q] \in 0 .. Cash!Parts(q) /\ fills'[q] \in 0 .. Cash!Parts(q)
  <2>1. \A q \in Cash!Orders : reports'[q] \in Nat /\ fills'[q] \in Nat /\ reports'[q] <= Cash!Parts(q) /\ fills'[q] <= Cash!Parts(q)
    BY <1>1 DEF CashInv, CashTypes, PaidOf
  <2>2. \A q \in Cash!Orders : Cash!Parts(q) \in Nat
    BY PartsAre
  <2>. QED BY <1>1, <1>6, <2>1, <2>2 DEF CashInv, CashTypes
<1>. QED BY <1>2, <1>7 DEF Cash!TypeOK

LEMMA CashIsTyped ==
  ASSUME Cash!FinancialsAssumption, ~LateAnswers, CashInv, Cash!TypeOK, [Cash!Next]_Cash!vars
  PROVE  Cash!TypeOK'
<1>1. CASE UNCHANGED Cash!vars
  BY <1>1 DEF Cash!vars, Cash!TypeOK
<1>2. CASE Cash!Close \/ Cash!Reconcile
  <2>1. result' = Cash!Refreshed(result) /\ outdated' = FALSE /\ UNCHANGED <<price, paid, reports, fills, asked>>
    BY <1>2 DEF Cash!Close, Cash!Reconcile
  <2>2. paid \in [Cash!Orders -> [filled : 0 .. Cash!Quantity, avg2 : Nat, fee : Nat]]
    BY DEF Cash!TypeOK
  <2>3. Cash!FeesTotal \in Nat
    BY <2>2 DEF Cash!FeesTotal, Cash!Orders
  <2>4. ASSUME AllKnown PROVE Cash!Spread2("OPEN") \in Int /\ Cash!Spread2("CLOSE") \in Int
    BY <2>2, <2>4, AverageIsTyped DEF AllKnown, Cash!Spread2
  <2>5. AllKnown => (Cash!Spread2("OPEN") - Cash!Spread2("CLOSE")) * Cash!Quantity - 2 * Cash!FeesTotal \in Int
    BY <2>3, <2>4 DEF Cash!Quantity
  <2>6. Cash!Refreshed(result) \in [status : {"open", "closed"}, fees : Nat, realized2 : Int]
    BY <2>3, <2>5 DEF Cash!Refreshed, AllKnown, Cash!TypeOK
  <2>. QED BY <2>1, <2>6 DEF Cash!TypeOK
<1>. QED BY <1>1, <1>2, RowsAreTyped DEF Cash!Next

-----------------------------------------------------------------------------
(***************************************************************************)
(* The types of the credentials and the calls.                             *)
(***************************************************************************)
(* What is made of the row is a row of the table.                          *)
LEMMA RowsAreRows ==
  ASSUME Keys!CredentialsAssumption, Keys!TypeOK,
         Keys!Save \/ Keys!Delete \/ Keys!Invalidate \/ Keys!BeginTest \/ Keys!EndTest
  PROVE  /\ credential' \in Keys!Rows \cup {Keys!NoRow} /\ underTest' \in Keys!Rows \cup {Keys!NoRow}
         /\ dirty' \in BOOLEAN /\ saves' \in 0 .. MaxSaves
<1>1. /\ credential \in Keys!Rows \cup {Keys!NoRow} /\ underTest \in Keys!Rows \cup {Keys!NoRow}
      /\ dirty \in BOOLEAN /\ saves \in 0 .. MaxSaves /\ MaxSaves \in Nat
  BY DEF Keys!TypeOK, Keys!CredentialsAssumption
<1>2. CASE Keys!Save
  <2>1. PICK given \in {{}} \cup {{p} : p \in Payloads}, env \in Envs, readOnly \in BOOLEAN, enabled \in BOOLEAN :
          /\ credential # Keys!NoRow \/ given # {}
          /\ credential' = Keys!Upserted(credential, given, env, readOnly, enabled)
    BY <1>2 DEF Keys!Save
  <2>2. (IF given = {} THEN credential.payload ELSE CHOOSE p \in given : TRUE) \in Payloads
    BY <1>1, <2>1 DEF Keys!Rows
  <2>3. credential = Keys!NoRow \/ credential.tested \in {"untested", "ok", "warning", "failed"}
    BY <1>1 DEF Keys!Rows
  <2>4. credential' \in Keys!Rows
    BY <2>1, <2>2, <2>3 DEF Keys!Upserted, Keys!Rows
  <2>5. underTest' = underTest /\ dirty' = TRUE /\ saves' \in 0 .. MaxSaves
    BY <1>1, <1>2 DEF Keys!Save, Keys!MayChange
  <2>. QED BY <1>1, <2>4, <2>5
<1>3. CASE Keys!Delete
  <2>1. credential' = Keys!NoRow /\ underTest' = underTest /\ dirty' = TRUE /\ saves' \in 0 .. MaxSaves
    BY <1>1, <1>3 DEF Keys!Delete, Keys!MayChange
  <2>. QED BY <1>1, <2>1
<1>4. CASE Keys!Invalidate \/ Keys!BeginTest
  BY <1>1, <1>4 DEF Keys!Invalidate, Keys!BeginTest
<1>5. CASE Keys!EndTest
  <2>1. PICK tested \in {Keys!Verdict(underTest), "failed"} :
          credential' = IF credential = Keys!NoRow \/ tested = underTest.tested THEN credential ELSE [credential EXCEPT !.tested = tested]
    BY <1>5 DEF Keys!EndTest
  <2>2. tested \in {"untested", "ok", "warning", "failed"}
    BY DEF Keys!Verdict
  <2>3. credential' \in Keys!Rows \cup {Keys!NoRow}
    BY <1>1, <2>1, <2>2 DEF Keys!Rows
  <2>. QED BY <1>1, <1>5, <2>3 DEF Keys!EndTest
<1>. QED BY <1>2, <1>3, <1>4, <1>5

(* A call is of a row that is enabled, so of one of the table.             *)
LEMMA CallsAreTyped ==
  ASSUME Keys!TypeOK, RightsInv, NEW c \in Callers, Keys!Ask(c) \/ Keys!Keep(c) \/ Keys!Done(c)
  PROVE  Keys!TypeOK'
<1>. DEFINE Typed(a) == \/ a = Keys!Idle
                        \/ /\ a.step \in {"building", "answered"} /\ a.row \in Keys!Rows
                           /\ a.connector \in Keys!Connectors
<1>1. /\ \A d \in Callers : Typed(asking[d])
      /\ \A p \in Keys!Processes : \A k \in store[p] : k.connector \in Keys!Connectors
      /\ DOMAIN store = Keys!Processes /\ DOMAIN asking = Callers /\ Keys!Process(c) \in Keys!Processes
  BY CallerHasProcess DEF Keys!TypeOK, RightsInv
<1>2. UNCHANGED <<credential, underTest, dirty, saves>>
  BY DEF Keys!Ask, Keys!Keep, Keys!Done
<1>3. SUFFICES /\ \E a : Typed(a) /\ asking' = [asking EXCEPT ![c] = a]
               /\ \A p \in Keys!Processes : \A k \in store'[p] : k.connector \in Keys!Connectors
  BY <1>1, <1>2 DEF Keys!TypeOK
<1>4. \A r \in Keys!Rows : Keys!Connector(r) \in Keys!Connectors
  BY DEF Keys!Rows, Keys!Connector, Keys!Connectors
<1>5. ASSUME NEW r \in Keys!Rows, NEW x \in Keys!Connectors, NEW step \in {"building", "answered"},
             Keys!Calls(c, step, r, x)
      PROVE  \E a : Typed(a) /\ asking' = [asking EXCEPT ![c] = a]
  BY <1>5 DEF Keys!Calls
<1>. HIDE DEF Typed
<1>6. CASE Keys!Ask(c)
  <2>1. credential \in Keys!Rows /\ store' = store
    BY <1>6 DEF Keys!Ask, Keys!TypeOK, Keys!NoRow
  <2>2. \/ Keys!Calls(c, "building", credential, Keys!Connector(credential))
        \/ \E k \in store[Keys!Process(c)] : Keys!Calls(c, "answered", credential, k.connector)
    BY <1>6 DEF Keys!Ask, Keys!Kept
  <2>. QED BY <1>1, <1>4, <1>5, <2>1, <2>2
<1>7. CASE Keys!Keep(c)
  <2>1. asking[c].step = "building"
    BY <1>7 DEF Keys!Keep
  <2>2. asking[c].row \in Keys!Rows /\ asking[c].connector \in Keys!Connectors
    BY <1>1, <2>1 DEF Typed, Keys!Idle
  <2>3. \/ /\ \E k \in store[Keys!Process(c)] : Keys!Calls(c, "answered", asking[c].row, k.connector)
           /\ store' = store
        \/ /\ Keys!Calls(c, "answered", asking[c].row, asking[c].connector)
           /\ store' = [store EXCEPT ![Keys!Process(c)] =
                          @ \cup {[id |-> Keys!Identity(asking[c].row), connector |-> asking[c].connector]}]
    BY <1>7 DEF Keys!Keep, Keys!Kept
  <2>4. \A p \in Keys!Processes : \A k \in store'[p] : k.connector \in Keys!Connectors
    BY <1>1, <2>2, <2>3
  <2>. QED BY <1>1, <1>5, <2>2, <2>3, <2>4
<1>8. CASE Keys!Done(c)
  BY <1>1, <1>8 DEF Keys!Done, Typed
<1>. QED BY <1>6, <1>7, <1>8

(* The row, the test and the calls have their types in every step.         *)
LEMMA KeysAreTyped ==
  ASSUME Keys!CredentialsAssumption, Keys!TypeOK, RightsInv, [Keys!Next]_Keys!vars
  PROVE  Keys!TypeOK'
<1>1. CASE UNCHANGED Keys!vars
  BY <1>1 DEF Keys!vars, Keys!TypeOK
<1>2. CASE Keys!Save \/ Keys!Delete \/ Keys!Invalidate \/ Keys!BeginTest \/ Keys!EndTest
  <2>1. asking' = asking /\ (store' = store \/ store' = [store EXCEPT !["api"] = {}])
    BY <1>2 DEF Keys!Save, Keys!Delete, Keys!Invalidate, Keys!BeginTest, Keys!EndTest
  <2>2. \A p \in Keys!Processes : \A k \in store'[p] : k.connector \in Keys!Connectors
    BY <2>1 DEF Keys!TypeOK, RightsInv, Keys!Processes
  <2>. QED BY <1>2, <2>1, <2>2, RowsAreRows DEF Keys!TypeOK
<1>. QED BY <1>1, <1>2, CallsAreTyped DEF Keys!Next

(* At the start there is no row, no test and no call.                      *)
LEMMA KeysInit == Keys!CredentialsAssumption /\ Keys!Init => Keys!TypeOK
<1>. SUFFICES ASSUME Keys!CredentialsAssumption, Keys!Init PROVE Keys!TypeOK
  OBVIOUS
<1>1. /\ credential = Keys!NoRow /\ underTest = Keys!NoRow /\ dirty = FALSE /\ saves \in 0 .. MaxSaves
      /\ \A p \in Keys!Processes : store[p] = {}
      /\ \A c \in Callers : asking[c] = Keys!Idle
  BY DEF Keys!CredentialsAssumption, Keys!Init
<1>. QED BY <1>1 DEF Keys!TypeOK
================================================================================
