------------------------------ MODULE ExecutionParts ------------------------------
(***************************************************************************)
(* The parts around the worker and the gateway.  They share no state, and  *)
(* each of them has state enough of its own: a behaviour runs one part,    *)
(* chosen at the start, on as many of the variables as the part has.       *)
(***************************************************************************)
EXTENDS Integers

CONSTANTS
    \* HedgeGroups
    Venues, MaxIntents, GroupLots, StreamFills, LateEvents, MaxCrashes,
    \* VenueEvents
    EventLots, MaxDrops, MaxRepeats, Refreshing,
    \* LegacyReconciler
    Platforms, LegA, OldLots,
    \* HybridProbe
    Probes, Makers, LeastQuantity, CrashAtSubmit, Expiring, MaxFailures,
    \* ProbeRuns
    Runs, RunQuantity,
    \* HedgePool
    PoolTime, Concurrent,
    \* Connectors
    ConnectorKinds, MaxUnits, Step, FillingModes,
    \* PrivateStreams
    MaxReports, StreamFaults,
    \* Financials
    Prices, ClosePrice, RawFee, Mt5Charge, LateAnswers, Batched,
    \* Credentials
    Envs, Payloads, Powers, Shown, Callers, ApiCallers, MaxSaves, Overlap,
    \* LivePositions
    HeldKinds, Positions, OwnPosition, MaxSize, MaxMoves, MaxUpsets, EarlyUpdates,
    SilentErrors,
    \* Scheduler
    Jobs, Flagged, MaxStarts

VARIABLES
    part,   \* the part that runs
    s1, s2, s3, s4, s5, s6, s7, s8, s9, s10, s11, s12, s13, s14, s15, s16

vars == <<part, s1, s2, s3, s4, s5, s6, s7, s8, s9, s10, s11, s12, s13, s14, s15, s16>>

(* A hedge group, its intents and the worker.                              *)
Groups == INSTANCE HedgeGroups WITH
    group <- s1, intent <- s2, outbox <- s3, plan <- s4, leg <- s5,
    order <- s6, ledger <- s7, venue <- s8, owed <- s9, told <- s10,
    phase <- s11, current <- s12, answer <- s13, crashes <- s14,
    Lots <- GroupLots

(* One order and all reports about it, in batches of every size.           *)
Events == INSTANCE VenueEvents WITH
    venue <- s1, queue <- s2, seen <- s3, order <- s4, legacy <- s5,
    ledger <- s6, reply <- s7, gap <- s8, refresh <- s9, drops <- s10,
    repeats <- s11, missed <- s12, Lots <- EventLots

(* A group of an earlier version, in the hands of the reconciler.          *)
Legacy == INSTANCE LegacyReconciler WITH
    venue <- s1, status <- s2, ledger <- s3, failed <- s4, old <- s5,
    group <- s6, events <- s7, held <- s8, shadow <- s9,
    Lots <- OldLots

(* Probe commands that compete for the lock.                               *)
Hybrid == INSTANCE HybridProbe WITH
    lock <- s1, stage <- s2, flattened <- s3, row <- s4, venue <- s5,
    held <- s6, position <- s7, heard <- s8, news <- s9, entries <- s10,
    pc <- s11, probe <- s12, answer <- s13, filled <- s14, expired <- s15,
    faults <- s16, Quantity <- LeastQuantity, MaxFaults <- MaxFailures

(* Probe runs over the same account position.                              *)
ProbeRun == INSTANCE ProbeRuns WITH
    run <- s1, baseline <- s2, intent <- s3, size <- s4, leg <- s5,
    order <- s6, venue <- s7, owed <- s8, Quantity <- RunQuantity

(* The pool and a load that runs beside the writers.                       *)
Pool == INSTANCE HedgePool WITH
    now <- s1, row <- s2, creating <- s3, cached <- s4, writer <- s5,
    closer <- s6, flushed <- s7, load <- s8, settled <- s9, MaxTime <- PoolTime

(* One call of submit_order, and the answers after it, for each connector. *)
Connector == INSTANCE Connectors WITH
    kind <- s1, request <- s2, order <- s3, takings <- s4, attempts <- s5,
    calling <- s6, told <- s7, cache <- s8,
    Kinds <- ConnectorKinds, Modes <- FillingModes

(* The reports about one order that a worker gets by its streams.          *)
Streams == INSTANCE PrivateStreams WITH
    kind <- s1, report <- s2, connected <- s3, everConnected <- s4,
    wire <- s5, watched <- s6, lastState <- s7, queue <- s8, requested <- s9,
    recovering <- s10, known <- s11, early <- s12, gaveUp <- s13,
    unasked <- s14, restarted <- s15, faults <- s16,
    MaxFaults <- StreamFaults

(* The fills, fees and result of one closed group.                         *)
Cash == INSTANCE Financials WITH
    price <- s1, row <- s2, reports <- s3, fills <- s4, answered <- s5,
    group <- s6, stale <- s7

(* Threads that ask for a connector while its credentials are saved and    *)
(* tested.                                                                 *)
Keys == INSTANCE Credentials WITH
    row <- s1, test <- s2, dirty <- s3, store <- s4, call <- s5, saves <- s6

(* The table of positions, for each way it follows a venue.                *)
Held == INSTANCE LivePositions WITH
    kind <- s1, account <- s2, rows <- s3, stream <- s4, cache <- s5,
    ready <- s6, taken <- s7, worker <- s8, missed <- s9, group <- s10,
    changes <- s11, faults <- s12, Kinds <- HeldKinds,
    Own <- OwnPosition, MaxChanges <- MaxMoves, MaxFaults <- MaxUpsets

(* The timers of the jobs over several starts.                             *)
Timers == INSTANCE Scheduler WITH
    running <- s1, flag <- s2, chain <- s3, current <- s4, main <- s5,
    left <- s6, starts <- s7

ASSUME PartsAssumption ==
    /\ Groups!GroupsAssumption
    /\ Events!EventsAssumption
    /\ Legacy!ReconcilerAssumption
    /\ Hybrid!ProbeAssumption
    /\ ProbeRun!RunsAssumption
    /\ Pool!PoolAssumption
    /\ Connector!ConnectorsAssumption
    /\ Streams!StreamsAssumption
    /\ Cash!FinancialsAssumption
    /\ Keys!CredentialsAssumption
    /\ Held!PositionsAssumption
    /\ Timers!SchedulerAssumption

-----------------------------------------------------------------------------
Init ==
    \/ /\ part = "groups" /\ Groups!Init
       /\ s15 = 0 /\ s16 = 0
    \/ /\ part = "events" /\ Events!Init
       /\ s13 = 0 /\ s14 = 0 /\ s15 = 0 /\ s16 = 0
    \/ /\ part = "legacy" /\ Legacy!Init
       /\ s10 = 0 /\ s11 = 0 /\ s12 = 0 /\ s13 = 0 /\ s14 = 0 /\ s15 = 0 /\ s16 = 0
    \/ /\ part = "hybrid" /\ Hybrid!Init
    \/ /\ part = "runs" /\ ProbeRun!Init
       /\ s9 = 0 /\ s10 = 0 /\ s11 = 0 /\ s12 = 0 /\ s13 = 0 /\ s14 = 0 /\ s15 = 0 /\ s16 = 0
    \/ /\ part = "pool" /\ Pool!Init
       /\ s10 = 0 /\ s11 = 0 /\ s12 = 0 /\ s13 = 0 /\ s14 = 0 /\ s15 = 0 /\ s16 = 0
    \/ /\ part = "connectors" /\ Connector!Init
       /\ s9 = 0 /\ s10 = 0 /\ s11 = 0 /\ s12 = 0 /\ s13 = 0 /\ s14 = 0 /\ s15 = 0 /\ s16 = 0
    \/ /\ part = "streams" /\ Streams!Init
    \/ /\ part = "cash" /\ Cash!Init
       /\ s8 = 0 /\ s9 = 0 /\ s10 = 0 /\ s11 = 0 /\ s12 = 0 /\ s13 = 0 /\ s14 = 0 /\ s15 = 0
       /\ s16 = 0
    \/ /\ part = "keys" /\ Keys!Init
       /\ s7 = 0 /\ s8 = 0 /\ s9 = 0 /\ s10 = 0 /\ s11 = 0 /\ s12 = 0 /\ s13 = 0 /\ s14 = 0
       /\ s15 = 0 /\ s16 = 0
    \/ /\ part = "held" /\ Held!Init
       /\ s13 = 0 /\ s14 = 0 /\ s15 = 0 /\ s16 = 0
    \/ /\ part = "timers" /\ Timers!Init
       /\ s8 = 0 /\ s9 = 0 /\ s10 = 0 /\ s11 = 0 /\ s12 = 0 /\ s13 = 0 /\ s14 = 0 /\ s15 = 0
       /\ s16 = 0

Next ==
    /\ UNCHANGED part
    /\ \/ part = "groups" /\ Groups!Next /\ UNCHANGED <<s15, s16>>
       \/ part = "events" /\ Events!Next /\ UNCHANGED <<s13, s14, s15, s16>>
       \/ part = "legacy" /\ Legacy!Next /\ UNCHANGED <<s10, s11, s12, s13, s14, s15, s16>>
       \/ part = "hybrid" /\ Hybrid!Next
       \/ part = "runs" /\ ProbeRun!Next /\ UNCHANGED <<s9, s10, s11, s12, s13, s14, s15, s16>>
       \/ part = "pool" /\ Pool!Next /\ UNCHANGED <<s10, s11, s12, s13, s14, s15, s16>>
       \/ /\ part = "connectors" /\ Connector!Next
          /\ UNCHANGED <<s9, s10, s11, s12, s13, s14, s15, s16>>
       \/ part = "streams" /\ Streams!Next
       \/ part = "cash" /\ Cash!Next /\ UNCHANGED <<s8, s9, s10, s11, s12, s13, s14, s15, s16>>
       \/ part = "keys" /\ Keys!Next /\ UNCHANGED <<s7, s8, s9, s10, s11, s12, s13, s14, s15, s16>>
       \/ part = "held" /\ Held!Next /\ UNCHANGED <<s13, s14, s15, s16>>
       \/ part = "timers" /\ Timers!Next /\ UNCHANGED <<s8, s9, s10, s11, s12, s13, s14, s15, s16>>

Spec == Init /\ [][Next]_vars

-----------------------------------------------------------------------------
(* Properties: those of the parts, where they are stated with their reasons. *)

(* The type invariants of the parts.                                       *)
TypeOK ==
    /\ part = "groups" => Groups!TypeOK
    /\ part = "events" => Events!TypeOK
    /\ part = "legacy" => Legacy!TypeOK
    /\ part = "hybrid" => Hybrid!TypeOK
    /\ part = "runs" => ProbeRun!TypeOK
    /\ part = "pool" => Pool!TypeOK
    /\ part = "connectors" => Connector!TypeOK
    /\ part = "streams" => Streams!TypeOK
    /\ part = "cash" => Cash!TypeOK
    /\ part = "keys" => Keys!TypeOK
    /\ part = "held" => Held!TypeOK
    /\ part = "timers" => Timers!TypeOK

(* A group has one active intent at most, and one at work (coordinator.py, *)
(* voiding.py, the worker).                                                *)
OneAtWork ==
    /\ part = "groups" => Groups!OneAtWork /\ Groups!OneActive

(* A group shows what its latest intent, or its orders, came to.           *)
GroupsAreTrue ==
    /\ part = "groups" => Groups!GroupFollowsLatest
    /\ part = "legacy" => Legacy!OpenOnBothSides /\ Legacy!ShadowIsReal

(* The ledger follows what the venue has filled, and the table of positions*)
(* the account, over all their writers.                                    *)
LedgersAreTrue ==
    /\ part = "events" => Events!NeverOvercounted /\ Events!LedgerCovers /\ Events!FilledIsKnown
    /\ part = "legacy" => Legacy!LegacyLedgerReal
    /\ part = "held" => Held!TableFollows /\ Held!ReadyIsExplained

(* A probe enters once, is exposed only under its lock, and says that it is*)
(* safe only when it is.                                                   *)
ProbesAreSafe ==
    /\ part = "hybrid" => Hybrid!SafeMeansClosed /\ Hybrid!ExposedIsLocked /\ Hybrid!EntersOnce
    /\ part = "runs" => ProbeRun!FlatMeansClosed

(* A load repairs the pool.                                                *)
LoadRepairs ==
    /\ part = "pool" => Pool!LoadRepairs

(* A connector never gives a certain answer that the venue belies, and is  *)
(* used and reported ready only with the rights that it has.               *)
AnswersAreTrue ==
    /\ part = "connectors" => Connector!AnswersAreTrue
    /\ part = "keys" => Keys!RightsFollow /\ Keys!ReadyCanTrade

(* No report about an order is lost without a reconciliation, and no job   *)
(* without a round to come.                                                *)
NoSilentLoss ==
    /\ part = "streams" => Streams!NoSilentLoss
    /\ part = "timers" => Timers!NeverForgotten /\ Timers!FlagIsHeld

(* The realized profit of a closed group is the cash its fills moved.      *)
RealizedIsCash ==
    /\ part = "cash" => Cash!RealizedIsCash

=============================================================================
