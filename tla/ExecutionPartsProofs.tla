--------------------------- MODULE ExecutionPartsProofs ---------------------------
(***************************************************************************)
(* What ExecutionLemmas and EventAndGroupProofs prove of each part holds of *)
(* the parts as they run in ExecutionParts, on the variables s1, s2, ...:  *)
(* a definition reached through the lemmas and the same definition reached *)
(* through ExecutionParts are told to be one by the lemmas Same..., and the*)
(* invariant of a behaviour is that of its part.                           *)
(***************************************************************************)
EXTENDS ExecutionParts, TLAPS

L == INSTANCE ExecutionLemmas WITH
    streamKind <- s1, report <- s2, connected <- s3, everConnected <- s4, wire
    <- s5, watched <- s6, lastState <- s7, queue <- s8, requested <- s9,
    recovering <- s10, known <- s11, early <- s12, gaveUp <- s13, unasked <-
    s14, restarted <- s15, breaks <- s16,
    connector <- s1, request <- s2, placed <- s3, takings <- s4, attempts <-
    s5, calling <- s6, reply <- s7, remembered <- s8,
    platform <- s1, orderStatus <- s2, books <- s3, failed <- s4, old <- s5,
    oldGroup <- s6, events <- s7, kept <- s8, shadow <- s9,
    tracking <- s1, account <- s2, copied <- s3, stream <- s4, websocket <-
    s5, ready <- s6, sampled <- s7, worker <- s8, missed <- s9, holding <-
    s10, moves <- s11, upsets <- s12,
    clock <- s1, saved <- s2, creating <- s3, cached <- s4, writer <- s5,
    closer <- s6, flushed <- s7, load <- s8, settled <- s9,
    probeRun <- s1, baseline <- s2, probeIntent <- s3, probeSize <- s4,
    probeLeg <- s5, probeOrder <- s6, probeVenue <- s7, probeOwed <- s8,
    price <- s1, paid <- s2, reports <- s3, fills <- s4, asked <- s5, result
    <- s6, outdated <- s7,
    lock <- s1, stage <- s2, flattened <- s3, probeRow <- s4, exchange <- s5,
    opened <- s6, position <- s7, heard <- s8, news <- s9, entries <- s10, pc
    <- s11, probe <- s12, snapshot <- s13, entered <- s14, expired <- s15,
    failures <- s16,
    credential <- s1, underTest <- s2, dirty <- s3, store <- s4, asking <- s5,
    saves <- s6,
    running <- s1, flag <- s2, chain <- s3, current <- s4, main <- s5, left <-
    s6, starts <- s7

Reports == INSTANCE EventAndGroupProofs WITH
    venue <- s1, queue <- s2, seen <- s3, order <- s4, legacy <- s5, ledger <-
    s6, reply <- s7, gap <- s8, refresh <- s9, drops <- s10, repeats <- s11,
    missed <- s12, Lots <- EventLots,
    group <- s1, intent <- s2, outbox <- s3, plan <- s4, leg <- s5, placed <-
    s6, booked <- s7, exchange <- s8, owed <- s9, told <- s10, phase <- s11,
    working <- s12, answer <- s13, crashes <- s14

-----------------------------------------------------------------------------
(* The definitions of the lemmas are those of the parts.                   *)
LEMMA SameStreams ==
  /\ L!Streams!StreamsAssumption <=> Streams!StreamsAssumption
  /\ L!Streams!Init <=> Streams!Init
  /\ L!Streams!NoSilentLoss <=> Streams!NoSilentLoss
BY DEF Streams!StreamsAssumption, Streams!Init, Streams!NoSilentLoss,
  Streams!Kinds, Streams!OnTheWay, L!Streams!StreamsAssumption,
  L!Streams!Init, L!Streams!NoSilentLoss, L!Streams!Kinds, L!Streams!OnTheWay

LEMMA SameStreamsSubmit == L!Streams!Submit <=> Streams!Submit
BY DEF Streams!Submit, Streams!StreamReady, Streams!Websocket, Streams!stream,
  Streams!past, L!Streams!Submit, L!Streams!StreamReady, L!Streams!Websocket,
  L!Streams!stream, L!Streams!past

LEMMA SameStreamsVenueReports == L!Streams!VenueReports <=> Streams!VenueReports
BY DEF Streams!VenueReports, Streams!Websocket, Streams!poller,
  Streams!worker, Streams!past, L!Streams!VenueReports, L!Streams!Websocket,
  L!Streams!poller, L!Streams!worker, L!Streams!past

LEMMA SameStreamsConnect == L!Streams!Connect <=> Streams!Connect
BY DEF Streams!Connect, Streams!Websocket, Streams!RequestReconciliation,
  Streams!poller, L!Streams!Connect, L!Streams!Websocket,
  L!Streams!RequestReconciliation, L!Streams!poller

LEMMA SameStreamsDisconnect == L!Streams!Disconnect <=> Streams!Disconnect
BY DEF Streams!Disconnect, Streams!Websocket, Streams!Fault, Streams!poller,
  Streams!worker, L!Streams!Disconnect, L!Streams!Websocket, L!Streams!Fault,
  L!Streams!poller, L!Streams!worker

LEMMA SameStreamsListenKeyExpires == L!Streams!ListenKeyExpires <=> Streams!ListenKeyExpires
BY DEF Streams!ListenKeyExpires, Streams!Fault, Streams!RequestReconciliation,
  Streams!poller, L!Streams!ListenKeyExpires, L!Streams!Fault,
  L!Streams!RequestReconciliation, L!Streams!poller

LEMMA SameStreamsReceive == L!Streams!Receive <=> Streams!Receive
BY DEF Streams!Receive, Streams!poller, Streams!past, L!Streams!Receive,
  L!Streams!poller, L!Streams!past

LEMMA SameStreamsPollerStep == L!Streams!PollerStep <=> Streams!PollerStep
BY DEF Streams!PollerStep, Streams!Poll, Streams!worker, Streams!past,
  Streams!Over, L!Streams!PollerStep, L!Streams!Poll, L!Streams!worker,
  L!Streams!past, L!Streams!Over

LEMMA SameStreamsGatewayRestarts == L!Streams!GatewayRestarts <=> Streams!GatewayRestarts
BY DEF Streams!GatewayRestarts, Streams!Fault, Streams!stream, Streams!worker,
  L!Streams!GatewayRestarts, L!Streams!Fault, L!Streams!stream,
  L!Streams!worker

LEMMA SameStreamsProject == L!Streams!Project <=> Streams!Project
BY DEF Streams!Project, Streams!Newest, Streams!stream, Streams!poller,
  Streams!past, Streams!Range, L!Streams!Project, L!Streams!Newest,
  L!Streams!stream, L!Streams!poller, L!Streams!past, L!Streams!Range

LEMMA SameStreamsReconcile == L!Streams!Reconcile <=> Streams!Reconcile
BY DEF Streams!Reconcile, Streams!Answered, Streams!PassedOver,
  Streams!stream, Streams!poller, Streams!Over, L!Streams!Reconcile,
  L!Streams!Answered, L!Streams!PassedOver, L!Streams!stream,
  L!Streams!poller, L!Streams!Over

LEMMA SameStreamsRecover == L!Streams!Recover <=> Streams!Recover
BY DEF Streams!Recover, Streams!Answered, Streams!PassedOver, Streams!stream,
  Streams!poller, Streams!Over, L!Streams!Recover, L!Streams!Answered,
  L!Streams!PassedOver, L!Streams!stream, L!Streams!poller, L!Streams!Over

LEMMA SameStreamsWorkerRestarts == L!Streams!WorkerRestarts <=> Streams!WorkerRestarts
BY DEF Streams!WorkerRestarts, Streams!Fault, Streams!poller,
  L!Streams!WorkerRestarts, L!Streams!Fault, L!Streams!poller

LEMMA SameStepStreams == L!Streams!Next <=> Streams!Next
BY SameStreamsSubmit, SameStreamsVenueReports, SameStreamsConnect,
  SameStreamsDisconnect, SameStreamsListenKeyExpires, SameStreamsReceive,
  SameStreamsPollerStep, SameStreamsGatewayRestarts, SameStreamsProject,
  SameStreamsReconcile, SameStreamsRecover, SameStreamsWorkerRestarts DEF
  Streams!Next, L!Streams!Next

LEMMA SameConnector ==
  /\ L!Connector!ConnectorsAssumption <=> Connector!ConnectorsAssumption
  /\ L!Connector!Init <=> Connector!Init
  /\ L!Connector!AnswersAreTrue <=> Connector!AnswersAreTrue
BY DEF Connector!ConnectorsAssumption, Connector!Init,
  Connector!AnswersAreTrue, Connector!Units, Connector!NoOrder,
  Connector!NotAsked, Connector!CertainIsTrue, Connector!FinalIsOver,
  Connector!Final, Connector!Over, L!Connector!ConnectorsAssumption,
  L!Connector!Init, L!Connector!AnswersAreTrue, L!Connector!Units,
  L!Connector!NoOrder, L!Connector!NotAsked, L!Connector!CertainIsTrue,
  L!Connector!FinalIsOver, L!Connector!Final, L!Connector!Over

LEMMA SameStepConnector ==
  /\ L!Connector!Next <=> Connector!Next
BY DEF Connector!Next, Connector!Begin, Connector!VenueMoves,
  Connector!BinanceRefuse, Connector!BinanceSubmit,
  Connector!HyperliquidRefuse, Connector!HyperliquidSubmit,
  Connector!PaperSubmit, Connector!Mt5Refuse, Connector!Mt5Submit,
  Connector!BinanceGetOrder, Connector!HyperliquidGetOrder,
  Connector!PaperGetOrder, Connector!Mt5GetOrder, Connector!BinanceCancel,
  Connector!HyperliquidCancel, Connector!PaperCancel, Connector!Mt5Cancel,
  Connector!Calls, Connector!Refused, Connector!FloorToStep, Connector!Lost,
  Connector!Return, Connector!Ignores, Connector!Sent,
  Connector!BinanceSigned, Connector!NewOrders, Connector!Takes,
  Connector!HyperliquidAnswer, Connector!Remember, Connector!PaperShows,
  Connector!Tell, Connector!Mt5Shows, Connector!Mt5NextMode, Connector!Asks,
  Connector!Unfound, Connector!Known, Connector!BinanceShows, Connector!Asked,
  Connector!HyperliquidShows, Connector!Fail, Connector!Mt5DealsShow,
  Connector!Cancels, Connector!Late, Connector!Canceled, Connector!NotAsked,
  Connector!BinanceError, Connector!GoOn, Connector!Order,
  Connector!SubmitShows, Connector!Over, Connector!PaperStatus,
  Connector!Mt5Status, Connector!NoOrder, Connector!BinanceStatus,
  Connector!HyperliquidStatus, Connector!Units, L!Connector!Next,
  L!Connector!Begin, L!Connector!VenueMoves, L!Connector!BinanceRefuse,
  L!Connector!BinanceSubmit, L!Connector!HyperliquidRefuse,
  L!Connector!HyperliquidSubmit, L!Connector!PaperSubmit,
  L!Connector!Mt5Refuse, L!Connector!Mt5Submit, L!Connector!BinanceGetOrder,
  L!Connector!HyperliquidGetOrder, L!Connector!PaperGetOrder,
  L!Connector!Mt5GetOrder, L!Connector!BinanceCancel,
  L!Connector!HyperliquidCancel, L!Connector!PaperCancel,
  L!Connector!Mt5Cancel, L!Connector!Calls, L!Connector!Refused,
  L!Connector!FloorToStep, L!Connector!Lost, L!Connector!Return,
  L!Connector!Ignores, L!Connector!Sent, L!Connector!BinanceSigned,
  L!Connector!NewOrders, L!Connector!Takes, L!Connector!HyperliquidAnswer,
  L!Connector!Remember, L!Connector!PaperShows, L!Connector!Tell,
  L!Connector!Mt5Shows, L!Connector!Mt5NextMode, L!Connector!Asks,
  L!Connector!Unfound, L!Connector!Known, L!Connector!BinanceShows,
  L!Connector!Asked, L!Connector!HyperliquidShows, L!Connector!Fail,
  L!Connector!Mt5DealsShow, L!Connector!Cancels, L!Connector!Late,
  L!Connector!Canceled, L!Connector!NotAsked, L!Connector!BinanceError,
  L!Connector!GoOn, L!Connector!Order, L!Connector!SubmitShows,
  L!Connector!Over, L!Connector!PaperStatus, L!Connector!Mt5Status,
  L!Connector!NoOrder, L!Connector!BinanceStatus,
  L!Connector!HyperliquidStatus, L!Connector!Units

LEMMA SameLegacy ==
  /\ L!Legacy!ReconcilerAssumption <=> Legacy!ReconcilerAssumption
  /\ L!Legacy!Init <=> Legacy!Init
  /\ L!Legacy!OpenOnBothSides <=> Legacy!OpenOnBothSides
  /\ L!Legacy!ShadowIsReal <=> Legacy!ShadowIsReal
  /\ L!Legacy!LegacyLedgerReal <=> Legacy!LegacyLedgerReal
BY DEF Legacy!ReconcilerAssumption, Legacy!Init, Legacy!OpenOnBothSides,
  Legacy!ShadowIsReal, Legacy!LegacyLedgerReal, Legacy!VenueRow,
  Legacy!Plausible, Legacy!FailedStatuses, Legacy!Cardinality,
  L!Legacy!ReconcilerAssumption, L!Legacy!Init, L!Legacy!OpenOnBothSides,
  L!Legacy!ShadowIsReal, L!Legacy!LegacyLedgerReal, L!Legacy!VenueRow,
  L!Legacy!Plausible, L!Legacy!FailedStatuses, L!Legacy!Cardinality

LEMMA SameStepLegacy ==
  /\ L!Legacy!Next <=> Legacy!Next
BY DEF Legacy!Next, Legacy!Pass, Legacy!VenueMoves, Legacy!GrowOld,
  Legacy!PositionSynced, Legacy!Refreshable, Legacy!RefreshedLedger,
  Legacy!Moving, Legacy!Advanced, Legacy!Hopeless, Legacy!Detached,
  Legacy!Late, Legacy!Listed, Legacy!Residue, Legacy!Mirrored,
  Legacy!VenueRow, Legacy!Plausible, Legacy!PendingStatuses, Legacy!HasEffect,
  Legacy!FailedStatuses, Legacy!Shadowed, Legacy!EffectStatuses,
  Legacy!Normalized, Legacy!Cardinality, L!Legacy!Next, L!Legacy!Pass,
  L!Legacy!VenueMoves, L!Legacy!GrowOld, L!Legacy!PositionSynced,
  L!Legacy!Refreshable, L!Legacy!RefreshedLedger, L!Legacy!Moving,
  L!Legacy!Advanced, L!Legacy!Hopeless, L!Legacy!Detached, L!Legacy!Late,
  L!Legacy!Listed, L!Legacy!Residue, L!Legacy!Mirrored, L!Legacy!VenueRow,
  L!Legacy!Plausible, L!Legacy!PendingStatuses, L!Legacy!HasEffect,
  L!Legacy!FailedStatuses, L!Legacy!Shadowed, L!Legacy!EffectStatuses,
  L!Legacy!Normalized, L!Legacy!Cardinality

LEMMA SameHeld ==
  /\ L!Held!PositionsAssumption <=> Held!PositionsAssumption
  /\ L!Held!Init <=> Held!Init
  /\ L!Held!TableFollows <=> Held!TableFollows
  /\ L!Held!ReadyIsExplained <=> Held!ReadyIsExplained
BY DEF Held!PositionsAssumption, Held!Init, Held!TableFollows,
  Held!ReadyIsExplained, Held!Nothing, Held!Settled, Held!Blocked,
  Held!Explained, Held!IsFiniteSet, Held!Cardinality, Held!SetToSeq,
  Held!IsInjective, L!Held!PositionsAssumption, L!Held!Init,
  L!Held!TableFollows, L!Held!ReadyIsExplained, L!Held!Nothing,
  L!Held!Settled, L!Held!Blocked, L!Held!Explained, L!Held!IsFiniteSet,
  L!Held!Cardinality, L!Held!SetToSeq, L!Held!IsInjective

LEMMA SameStepHeld ==
  /\ L!Held!Next <=> Held!Next
BY DEF Held!Next, Held!OpenFill, Held!CloseFill, Held!External, Held!Project,
  Held!Take, Held!TakeFails, Held!Commit, Held!WorkerStarts, Held!WorkerStops,
  Held!Open, Held!Close, Held!Change, Held!Applied, Held!MaySync,
  Held!Answers, Held!Snapshot, Held!Fails, Held!WithoutSnapshot, Held!Nothing,
  Held!Blocked, Held!Reported, Held!Explained, Held!Clear, Held!Listed,
  Held!Event, Held!IsFiniteSet, Held!Cardinality, Held!SetToSeq,
  Held!IsInjective, L!Held!Next, L!Held!OpenFill, L!Held!CloseFill,
  L!Held!External, L!Held!Project, L!Held!Take, L!Held!TakeFails,
  L!Held!Commit, L!Held!WorkerStarts, L!Held!WorkerStops, L!Held!Open,
  L!Held!Close, L!Held!Change, L!Held!Applied, L!Held!MaySync, L!Held!Answers,
  L!Held!Snapshot, L!Held!Fails, L!Held!WithoutSnapshot, L!Held!Nothing,
  L!Held!Blocked, L!Held!Reported, L!Held!Explained, L!Held!Clear,
  L!Held!Listed, L!Held!Event, L!Held!IsFiniteSet, L!Held!Cardinality,
  L!Held!SetToSeq, L!Held!IsInjective

LEMMA SamePool ==
  /\ L!Pool!PoolAssumption <=> Pool!PoolAssumption
  /\ L!Pool!Init <=> Pool!Init
  /\ L!Pool!LoadRepairs <=> Pool!LoadRepairs
BY DEF Pool!PoolAssumption, Pool!Init, Pool!LoadRepairs, Pool!Nothing,
  Pool!Resting, Pool!PoolStatuses, L!Pool!PoolAssumption, L!Pool!Init,
  L!Pool!LoadRepairs, L!Pool!Nothing, L!Pool!Resting, L!Pool!PoolStatuses

LEMMA SameStepPool ==
  /\ L!Pool!Next <=> Pool!Next
BY DEF Pool!Next, Pool!CreateFlush, Pool!CreateCommit, Pool!Commit,
  Pool!Upsert, Pool!MarkManual, Pool!CloserReads, Pool!CloserFlushes,
  Pool!CloserEnds, Pool!LoadReads, Pool!LoadMerges, Pool!LoadCleans,
  Pool!Nothing, Pool!Resting, Pool!Tick, Pool!Moves, Pool!Put,
  Pool!PoolStatuses, Pool!Merged, L!Pool!Next, L!Pool!CreateFlush,
  L!Pool!CreateCommit, L!Pool!Commit, L!Pool!Upsert, L!Pool!MarkManual,
  L!Pool!CloserReads, L!Pool!CloserFlushes, L!Pool!CloserEnds,
  L!Pool!LoadReads, L!Pool!LoadMerges, L!Pool!LoadCleans, L!Pool!Nothing,
  L!Pool!Resting, L!Pool!Tick, L!Pool!Moves, L!Pool!Put, L!Pool!PoolStatuses,
  L!Pool!Merged

LEMMA SamePosition == L!ProbeRun!Position = ProbeRun!Position
BY DEF ProbeRun!Position, ProbeRun!Held, ProbeRun!MapThenSumSet,
  ProbeRun!MapThenFoldSet, L!ProbeRun!Position, L!ProbeRun!Held,
  L!ProbeRun!MapThenSumSet, L!ProbeRun!MapThenFoldSet

LEMMA SameProbeRun ==
  /\ L!ProbeRun!RunsAssumption <=> ProbeRun!RunsAssumption
  /\ L!ProbeRun!Init <=> ProbeRun!Init
  /\ L!ProbeRun!FlatMeansClosed <=> ProbeRun!FlatMeansClosed
BY DEF ProbeRun!RunsAssumption, ProbeRun!Init, ProbeRun!FlatMeansClosed,
  ProbeRun!Legs, ProbeRun!NoOrder, ProbeRun!Held, ProbeRun!Stages,
  ProbeRun!IsFiniteSet, L!ProbeRun!IsFiniteSet,
  L!ProbeRun!RunsAssumption, L!ProbeRun!Init, L!ProbeRun!FlatMeansClosed,
  L!ProbeRun!Legs, L!ProbeRun!NoOrder, L!ProbeRun!Held, L!ProbeRun!Stages

LEMMA SameProbeRunCreate == ASSUME NEW x PROVE L!ProbeRun!Create(x) <=> ProbeRun!Create(x)
BY SamePosition DEF ProbeRun!Create, L!ProbeRun!Create

LEMMA SameProbeRunRecheck == ASSUME NEW x PROVE L!ProbeRun!Recheck(x) <=> ProbeRun!Recheck(x)
BY SamePosition DEF ProbeRun!Recheck, ProbeRun!AdvanceExit,
  ProbeRun!TerminalLeg, L!ProbeRun!Recheck, L!ProbeRun!AdvanceExit,
  L!ProbeRun!TerminalLeg

LEMMA SameProbeRunSubmit == ASSUME NEW x PROVE L!ProbeRun!Submit(x) <=> ProbeRun!Submit(x)
BY SamePosition DEF ProbeRun!Submit, ProbeRun!NoOrder, ProbeRun!FromGateway,
  ProbeRun!Reports, ProbeRun!Unknown, ProbeRun!Applied, ProbeRun!GatewayOrder,
  ProbeRun!GatewayLeg, ProbeRun!Advance, ProbeRun!Larger,
  ProbeRun!FailureOrderStatuses, ProbeRun!AdvanceEntry, ProbeRun!AdvanceExit,
  ProbeRun!TerminalLeg, L!ProbeRun!Submit, L!ProbeRun!NoOrder,
  L!ProbeRun!FromGateway, L!ProbeRun!Reports, L!ProbeRun!Unknown,
  L!ProbeRun!Applied, L!ProbeRun!GatewayOrder, L!ProbeRun!GatewayLeg,
  L!ProbeRun!Advance, L!ProbeRun!Larger, L!ProbeRun!FailureOrderStatuses,
  L!ProbeRun!AdvanceEntry, L!ProbeRun!AdvanceExit, L!ProbeRun!TerminalLeg

LEMMA SameProbeRunQuery == ASSUME NEW x PROVE L!ProbeRun!Query(x) <=> ProbeRun!Query(x)
BY SamePosition DEF ProbeRun!Query, ProbeRun!NonTerminalOrderStatuses,
  ProbeRun!FromGateway, ProbeRun!Applied, ProbeRun!GatewayOrder,
  ProbeRun!GatewayLeg, ProbeRun!Advance, ProbeRun!Larger,
  ProbeRun!FailureOrderStatuses, ProbeRun!AdvanceEntry, ProbeRun!AdvanceExit,
  ProbeRun!TerminalLeg, L!ProbeRun!Query, L!ProbeRun!NonTerminalOrderStatuses,
  L!ProbeRun!FromGateway, L!ProbeRun!Applied, L!ProbeRun!GatewayOrder,
  L!ProbeRun!GatewayLeg, L!ProbeRun!Advance, L!ProbeRun!Larger,
  L!ProbeRun!FailureOrderStatuses, L!ProbeRun!AdvanceEntry,
  L!ProbeRun!AdvanceExit, L!ProbeRun!TerminalLeg

LEMMA SameProbeRunProject == ASSUME NEW x PROVE L!ProbeRun!Project(x) <=> ProbeRun!Project(x)
BY SamePosition DEF ProbeRun!Project, ProbeRun!Applied, ProbeRun!EventOrder,
  ProbeRun!EventLeg, ProbeRun!Advance, ProbeRun!Larger,
  ProbeRun!FailureOrderStatuses, ProbeRun!AdvanceEntry, ProbeRun!AdvanceExit,
  ProbeRun!TerminalLeg, L!ProbeRun!Project, L!ProbeRun!Applied,
  L!ProbeRun!EventOrder, L!ProbeRun!EventLeg, L!ProbeRun!Advance,
  L!ProbeRun!Larger, L!ProbeRun!FailureOrderStatuses, L!ProbeRun!AdvanceEntry,
  L!ProbeRun!AdvanceExit, L!ProbeRun!TerminalLeg

LEMMA SameProbeRunVenueMoves == ASSUME NEW x PROVE L!ProbeRun!VenueMoves(x) <=> ProbeRun!VenueMoves(x)
BY SamePosition DEF ProbeRun!VenueMoves, ProbeRun!Reports,
  L!ProbeRun!VenueMoves, L!ProbeRun!Reports

LEMMA SameStepProbeRun == L!ProbeRun!Next <=> ProbeRun!Next
BY SameProbeRunCreate, SameProbeRunRecheck, SameProbeRunSubmit,
  SameProbeRunQuery, SameProbeRunProject, SameProbeRunVenueMoves DEF
  ProbeRun!Next, ProbeRun!Legs, ProbeRun!Stages, L!ProbeRun!Next,
  L!ProbeRun!Legs, L!ProbeRun!Stages

LEMMA SameAverage == ASSUME NEW leg, NEW action PROVE L!Cash!Weighted2(leg, action) = Cash!Weighted2(leg, action)
<1>1. L!Cash!With(leg, action) = Cash!With(leg, action)
  BY DEF Cash!With, Cash!Orders, Cash!Leg, Cash!Action, L!Cash!With, L!Cash!Orders, L!Cash!Leg, L!Cash!Action
<1>2. QED
  BY <1>1 DEF Cash!Weighted2, L!Cash!Weighted2, Cash!Sum, L!Cash!Sum

LEMMA SameKnown == ASSUME NEW leg, NEW action PROVE L!Cash!Known(leg, action) <=> Cash!Known(leg, action)
BY DEF Cash!Known, Cash!With, Cash!Orders, Cash!Leg, Cash!Action,
  L!Cash!Known, L!Cash!With, L!Cash!Orders, L!Cash!Leg, L!Cash!Action

LEMMA SameResult == ASSUME NEW x PROVE L!Cash!Refreshed(x) = Cash!Refreshed(x)
BY SameAverage, SameKnown DEF Cash!Refreshed, Cash!FeesTotal, Cash!Spread2,
  Cash!Quantity, L!Cash!Refreshed, L!Cash!FeesTotal, L!Cash!Spread2,
  L!Cash!Quantity

LEMMA SameCash ==
  /\ L!Cash!FinancialsAssumption <=> Cash!FinancialsAssumption
  /\ L!Cash!Init <=> Cash!Init
  /\ L!Cash!RealizedIsCash <=> Cash!RealizedIsCash
BY DEF Cash!FinancialsAssumption, Cash!Init, Cash!RealizedIsCash, Cash!Chosen,
  Cash!Orders, Cash!AllIn, Cash!Charged, Cash!Cash2, Cash!Parts,
  Cash!Notional, Cash!Size, Cash!Action, L!Cash!FinancialsAssumption,
  L!Cash!Init, L!Cash!RealizedIsCash, L!Cash!Chosen, L!Cash!Orders,
  L!Cash!AllIn, L!Cash!Charged, L!Cash!Cash2, L!Cash!Parts, L!Cash!Notional,
  L!Cash!Size, L!Cash!Action

LEMMA SameCashReport == ASSUME NEW x PROVE L!Cash!Report(x) <=> Cash!Report(x)
BY DEF Cash!Report, Cash!Parts, Cash!After, Cash!Projected, Cash!Larger,
  Cash!Size, Cash!Notional, Cash!CommissionCost, Cash!Leg, Cash!Raw,
  Cash!Action, L!Cash!Report, L!Cash!Parts, L!Cash!After, L!Cash!Projected,
  L!Cash!Larger, L!Cash!Size, L!Cash!Notional, L!Cash!CommissionCost,
  L!Cash!Leg, L!Cash!Raw, L!Cash!Action

LEMMA SameCashFill == ASSUME NEW x PROVE L!Cash!Fill(x) <=> Cash!Fill(x)
BY DEF Cash!Fill, Cash!Parts, Cash!After, Cash!Projected, Cash!Larger,
  Cash!Size, Cash!Notional, Cash!CommissionCost, Cash!Leg, Cash!Raw,
  Cash!Action, L!Cash!Fill, L!Cash!Parts, L!Cash!After, L!Cash!Projected,
  L!Cash!Larger, L!Cash!Size, L!Cash!Notional, L!Cash!CommissionCost,
  L!Cash!Leg, L!Cash!Raw, L!Cash!Action

LEMMA SameCashAnswer == ASSUME NEW x PROVE L!Cash!Answer(x) <=> Cash!Answer(x)
BY DEF Cash!Answer, Cash!Parts, Cash!After, Cash!Larger, Cash!Projected,
  Cash!Size, Cash!Notional, Cash!CommissionCost, Cash!Leg, Cash!Raw,
  Cash!Action, L!Cash!Answer, L!Cash!Parts, L!Cash!After, L!Cash!Larger,
  L!Cash!Projected, L!Cash!Size, L!Cash!Notional, L!Cash!CommissionCost,
  L!Cash!Leg, L!Cash!Raw, L!Cash!Action

LEMMA SameCashBatch == ASSUME NEW x PROVE L!Cash!Batch(x) <=> Cash!Batch(x)
BY DEF Cash!Batch, Cash!Projected, Cash!After, Cash!Size, Cash!Notional,
  Cash!CommissionCost, Cash!Leg, Cash!Raw, Cash!Action, L!Cash!Batch,
  L!Cash!Projected, L!Cash!After, L!Cash!Size, L!Cash!Notional,
  L!Cash!CommissionCost, L!Cash!Leg, L!Cash!Raw, L!Cash!Action

LEMMA SameCashClose == L!Cash!Close <=> Cash!Close
BY SameResult DEF Cash!Close, Cash!Whole, Cash!Parts, Cash!Size, Cash!Action,
  L!Cash!Close, L!Cash!Whole, L!Cash!Parts, L!Cash!Size, L!Cash!Action

LEMMA SameCashReconcile == L!Cash!Reconcile <=> Cash!Reconcile
BY SameResult DEF Cash!Reconcile, L!Cash!Reconcile

LEMMA SameStepCash == L!Cash!Next <=> Cash!Next
BY SameCashReport, SameCashFill, SameCashAnswer, SameCashBatch, SameCashClose,
  SameCashReconcile DEF Cash!Next, Cash!Orders, L!Cash!Next, L!Cash!Orders

LEMMA SameHybrid ==
  /\ L!Hybrid!ProbeAssumption <=> Hybrid!ProbeAssumption
  /\ L!Hybrid!Init <=> Hybrid!Init
  /\ L!Hybrid!SafeMeansClosed <=> Hybrid!SafeMeansClosed
  /\ L!Hybrid!ExposedIsLocked <=> Hybrid!ExposedIsLocked
  /\ L!Hybrid!EntersOnce <=> Hybrid!EntersOnce
BY DEF Hybrid!ProbeAssumption, Hybrid!Init, Hybrid!SafeMeansClosed,
  Hybrid!ExposedIsLocked, Hybrid!EntersOnce, Hybrid!NoOne, Hybrid!Orders,
  Hybrid!Nothing, Hybrid!Final, Hybrid!Working, Hybrid!Sides, Hybrid!entry,
  Hybrid!flatten, L!Hybrid!ProbeAssumption, L!Hybrid!Init,
  L!Hybrid!SafeMeansClosed, L!Hybrid!ExposedIsLocked, L!Hybrid!EntersOnce,
  L!Hybrid!NoOne, L!Hybrid!Orders, L!Hybrid!Nothing, L!Hybrid!Final,
  L!Hybrid!Working, L!Hybrid!Sides, L!Hybrid!entry, L!Hybrid!flatten

LEMMA SameStepHybrid ==
  /\ L!Hybrid!Next <=> Hybrid!Next
BY DEF Hybrid!Next, Hybrid!Acquire, Hybrid!Resume, Hybrid!FailBeforeExposure,
  Hybrid!Prepare, Hybrid!Entry, Hybrid!SaveEntry, Hybrid!WaitEntry,
  Hybrid!CancelEntry, Hybrid!Flatten, Hybrid!SaveFlatten, Hybrid!WaitFlatten,
  Hybrid!Finish, Hybrid!Release, Hybrid!Orders, Hybrid!VenueMoves,
  Hybrid!OnEvent, Hybrid!LoseEvent, Hybrid!Crash, Hybrid!LockExpires,
  Hybrid!NoOne, Hybrid!market, Hybrid!Final, Hybrid!entry, Hybrid!redis,
  Hybrid!Released, Hybrid!Return, Hybrid!AccountFlat, Hybrid!Save,
  Hybrid!SaveRow, Hybrid!GoTo, Hybrid!Query, Hybrid!Nothing,
  Hybrid!SubmitOrder, Hybrid!Seeded, Hybrid!EntryOver, Hybrid!Confirmed,
  Hybrid!Terminal, Hybrid!Raise, Hybrid!Reports, Hybrid!flatten, Hybrid!Sides,
  Hybrid!Taken, Hybrid!Size, Hybrid!thread, Hybrid!Room, L!Hybrid!Next,
  L!Hybrid!Acquire, L!Hybrid!Resume, L!Hybrid!FailBeforeExposure,
  L!Hybrid!Prepare, L!Hybrid!Entry, L!Hybrid!SaveEntry, L!Hybrid!WaitEntry,
  L!Hybrid!CancelEntry, L!Hybrid!Flatten, L!Hybrid!SaveFlatten,
  L!Hybrid!WaitFlatten, L!Hybrid!Finish, L!Hybrid!Release, L!Hybrid!Orders,
  L!Hybrid!VenueMoves, L!Hybrid!OnEvent, L!Hybrid!LoseEvent, L!Hybrid!Crash,
  L!Hybrid!LockExpires, L!Hybrid!NoOne, L!Hybrid!market, L!Hybrid!Final,
  L!Hybrid!entry, L!Hybrid!redis, L!Hybrid!Released, L!Hybrid!Return,
  L!Hybrid!AccountFlat, L!Hybrid!Save, L!Hybrid!SaveRow, L!Hybrid!GoTo,
  L!Hybrid!Query, L!Hybrid!Nothing, L!Hybrid!SubmitOrder, L!Hybrid!Seeded,
  L!Hybrid!EntryOver, L!Hybrid!Confirmed, L!Hybrid!Terminal, L!Hybrid!Raise,
  L!Hybrid!Reports, L!Hybrid!flatten, L!Hybrid!Sides, L!Hybrid!Taken,
  L!Hybrid!Size, L!Hybrid!thread, L!Hybrid!Room

LEMMA SameKeys ==
  /\ L!Keys!CredentialsAssumption <=> Keys!CredentialsAssumption
  /\ L!Keys!Init <=> Keys!Init
  /\ L!Keys!RightsFollow <=> Keys!RightsFollow
  /\ L!Keys!ReadyCanTrade <=> Keys!ReadyCanTrade
BY DEF Keys!CredentialsAssumption, Keys!Init, Keys!RightsFollow,
  Keys!ReadyCanTrade, Keys!NoRow, Keys!Processes, Keys!Idle, Keys!Ready,
  Keys!Connector, L!Keys!CredentialsAssumption, L!Keys!Init,
  L!Keys!RightsFollow, L!Keys!ReadyCanTrade, L!Keys!NoRow, L!Keys!Processes,
  L!Keys!Idle, L!Keys!Ready, L!Keys!Connector

LEMMA SameStepKeys ==
  /\ L!Keys!Next <=> Keys!Next
BY DEF Keys!Next, Keys!Save, Keys!Delete, Keys!Invalidate, Keys!BeginTest,
  Keys!EndTest, Keys!Ask, Keys!Keep, Keys!Done, Keys!MayChange, Keys!NoRow,
  Keys!Upserted, Keys!Verdict, Keys!Kept, Keys!Process, Keys!Identity,
  Keys!Calls, Keys!Connector, Keys!Idle, Keys!Reconnected, Keys!Missing,
  L!Keys!Next, L!Keys!Save, L!Keys!Delete, L!Keys!Invalidate,
  L!Keys!BeginTest, L!Keys!EndTest, L!Keys!Ask, L!Keys!Keep, L!Keys!Done,
  L!Keys!MayChange, L!Keys!NoRow, L!Keys!Upserted, L!Keys!Verdict,
  L!Keys!Kept, L!Keys!Process, L!Keys!Identity, L!Keys!Calls,
  L!Keys!Connector, L!Keys!Idle, L!Keys!Reconnected, L!Keys!Missing

LEMMA SameTimers ==
  /\ L!Timers!SchedulerAssumption <=> Timers!SchedulerAssumption
  /\ L!Timers!Init <=> Timers!Init
  /\ L!Timers!NeverForgotten <=> Timers!NeverForgotten
  /\ L!Timers!FlagIsHeld <=> Timers!FlagIsHeld
BY DEF Timers!SchedulerAssumption, Timers!Init, Timers!NeverForgotten,
  Timers!FlagIsHeld, Timers!Starts, Timers!At, L!Timers!SchedulerAssumption,
  L!Timers!Init, L!Timers!NeverForgotten, L!Timers!FlagIsHeld,
  L!Timers!Starts, L!Timers!At

LEMMA SameStepTimers ==
  /\ L!Timers!Next <=> Timers!Next
BY DEF Timers!Next, Timers!Start, Timers!Stop, Timers!StartJob,
  Timers!CancelJob, Timers!Starts, Timers!Fire, Timers!Enter, Timers!Work,
  Timers!Finish, Timers!Look, Timers!ScheduleNext, Timers!Goes, Timers!At,
  Timers!Afterwards, L!Timers!Next, L!Timers!Start, L!Timers!Stop,
  L!Timers!StartJob, L!Timers!CancelJob, L!Timers!Starts, L!Timers!Fire,
  L!Timers!Enter, L!Timers!Work, L!Timers!Finish, L!Timers!Look,
  L!Timers!ScheduleNext, L!Timers!Goes, L!Timers!At, L!Timers!Afterwards

LEMMA SameEvents ==
  /\ Reports!EventsAssumption <=> Events!EventsAssumption
  /\ Reports!Init <=> Events!Init
  /\ Reports!NeverOvercounted <=> Events!NeverOvercounted
  /\ Reports!LedgerCovers <=> Events!LedgerCovers
  /\ Reports!FilledIsKnown <=> Events!FilledIsKnown
BY DEF Events!EventsAssumption, Events!Init, Events!NeverOvercounted,
  Events!LedgerCovers, Events!FilledIsKnown, Events!None, Events!NoRefresh,
  Events!Drained, Reports!EventsAssumption, Reports!Init,
  Reports!NeverOvercounted, Reports!LedgerCovers, Reports!FilledIsKnown,
  Reports!None, Reports!NoRefresh, Reports!Drained

LEMMA SameEventsSubmit == Reports!Submit <=> Events!Submit
BY DEF Events!Submit, Events!None, Events!Successors, Events!VenueMoves,
  Events!Messages, Events!FillEvent, Events!OrderEvent, Reports!Submit,
  Reports!None, Reports!Successors, Reports!VenueMoves, Reports!Messages,
  Reports!FillEvent, Reports!OrderEvent

LEMMA SameEventsTrade == Reports!Trade <=> Events!Trade
BY DEF Events!Trade, Events!Successors, Events!VenueMoves, Events!None,
  Events!Messages, Events!FillEvent, Events!OrderEvent, Reports!Trade,
  Reports!Successors, Reports!VenueMoves, Reports!None, Reports!Messages,
  Reports!FillEvent, Reports!OrderEvent

LEMMA SameEventsDrop == Reports!Drop <=> Events!Drop
BY DEF Events!Drop, Reports!Drop

LEMMA SameEventsRepeat == Reports!Repeat <=> Events!Repeat
BY DEF Events!Repeat, Reports!Repeat

LEMMA SameEventsRecordReply == Reports!RecordReply <=> Events!RecordReply
BY DEF Events!RecordReply, Events!None, Events!ApplyReport,
  Events!GatewayOrder, Events!Larger, Reports!RecordReply, Reports!None,
  Reports!ApplyReport, Reports!GatewayOrder, Reports!Larger

LEMMA SameEventsQuery == Reports!Query <=> Events!Query
BY DEF Events!Query, Events!Idle, Events!NonTerminalOrderStatuses,
  Events!None, Events!ApplyReport, Events!GatewayOrder, Events!Larger,
  Reports!Query, Reports!Idle, Reports!NonTerminalOrderStatuses, Reports!None,
  Reports!ApplyReport, Reports!GatewayOrder, Reports!Larger

LEMMA SameEventsProjectBatch == Reports!ProjectBatch <=> Events!ProjectBatch
BY DEF Events!ProjectBatch, Events!Idle, Events!Taken, Events!Fresh,
  Events!Clashes, Events!Projected, Events!None, Events!Highest,
  Events!Quantities, Events!Told, Events!FillEvents, Events!Cardinality,
  Events!IsFiniteSet, Reports!ProjectBatch, Reports!Idle, Reports!Taken,
  Reports!Fresh, Reports!Clashes, Reports!Projected, Reports!None,
  Reports!Highest, Reports!Quantities, Reports!Told, Reports!FillEvents,
  Reports!Cardinality, Reports!IsFiniteSet

LEMMA SameEventsRefreshRead == Reports!RefreshRead <=> Events!RefreshRead
BY DEF Events!RefreshRead, Events!NoRefresh, Events!None, Reports!RefreshRead,
  Reports!NoRefresh, Reports!None

LEMMA SameEventsRefreshWrite == Reports!RefreshWrite <=> Events!RefreshWrite
BY DEF Events!RefreshWrite, Events!NoRefresh, Events!Larger, Events!None,
  Reports!RefreshWrite, Reports!NoRefresh, Reports!Larger, Reports!None

LEMMA SameStepEvents == Reports!Next <=> Events!Next
BY SameEventsSubmit, SameEventsTrade, SameEventsDrop, SameEventsRepeat,
  SameEventsRecordReply, SameEventsQuery, SameEventsProjectBatch,
  SameEventsRefreshRead, SameEventsRefreshWrite DEF Events!Next, Reports!Next

LEMMA SameSum == ASSUME NEW f, NEW v, NEW kinds PROVE Reports!Groups!Sum(f, v, kinds) = Groups!Sum(f, v, kinds)
BY DEF Groups!Sum, Reports!Groups!Sum

LEMMA SameGroups ==
  /\ Reports!Groups!GroupsAssumption <=> Groups!GroupsAssumption
  /\ Reports!Groups!Init <=> Groups!Init
  /\ Reports!Groups!OneAtWork <=> Groups!OneAtWork
  /\ Reports!Groups!OneActive <=> Groups!OneActive
  /\ Reports!Groups!GroupFollowsLatest <=> Groups!GroupFollowsLatest
BY DEF Groups!GroupsAssumption, Groups!Init, Groups!OneAtWork,
  Groups!OneActive, Groups!GroupFollowsLatest, Groups!Intents,
  Groups!NoIntent, Groups!Legs, Groups!NoOrder, Groups!AtWork, Groups!Active,
  Groups!Latest, Groups!LegsOf, Groups!Waiting, Groups!ActiveIntentStatuses,
  Groups!Exists, Reports!Groups!GroupsAssumption, Reports!Groups!Init, Reports!Groups!OneAtWork,
  Reports!Groups!OneActive, Reports!Groups!GroupFollowsLatest, Reports!Groups!Intents,
  Reports!Groups!NoIntent, Reports!Groups!Legs, Reports!Groups!NoOrder, Reports!Groups!AtWork,
  Reports!Groups!Active, Reports!Groups!Latest, Reports!Groups!LegsOf, Reports!Groups!Waiting,
  Reports!Groups!ActiveIntentStatuses, Reports!Groups!Exists

LEMMA SameExposure == Reports!Groups!HasExposure <=> Groups!HasExposure
BY SameSum DEF Groups!HasExposure, Groups!Residual, Groups!Larger,
  Groups!Opened, Groups!Closed, Reports!Groups!HasExposure, Reports!Groups!Residual,
  Reports!Groups!Larger, Reports!Groups!Opened, Reports!Groups!Closed

LEMMA SameResiduals == Reports!Groups!Residuals = Groups!Residuals
BY SameSum DEF Groups!Residuals, Groups!Residual, Groups!Larger,
  Groups!Opened, Groups!Closed, Reports!Groups!Residuals, Reports!Groups!Residual,
  Reports!Groups!Larger, Reports!Groups!Opened, Reports!Groups!Closed

LEMMA SameGroupsCreateOpen == ASSUME NEW i PROVE Reports!Groups!CreateOpen(i) <=> Groups!CreateOpen(i)
BY DEF Groups!CreateOpen, Groups!WriteIntent, Groups!NewIntent, Groups!Exists,
  Groups!Intents, Groups!Legs, Groups!world, Groups!worker,
  Reports!Groups!CreateOpen, Reports!Groups!WriteIntent, Reports!Groups!NewIntent,
  Reports!Groups!Exists, Reports!Groups!Intents, Reports!Groups!Legs, Reports!Groups!world,
  Reports!Groups!worker

LEMMA SameGroupsCreateClose == ASSUME NEW i PROVE Reports!Groups!CreateClose(i) <=> Groups!CreateClose(i)
BY SameExposure, SameResiduals DEF Groups!CreateClose, Groups!CloseAllowed,
  Groups!WriteIntent, Groups!NewIntent, Groups!Intents, Groups!Active,
  Groups!Exists, Groups!Legs, Groups!world, Groups!worker,
  Groups!ActiveIntentStatuses, Reports!Groups!CreateClose, Reports!Groups!CloseAllowed,
  Reports!Groups!WriteIntent, Reports!Groups!NewIntent, Reports!Groups!Intents, Reports!Groups!Active,
  Reports!Groups!Exists, Reports!Groups!Legs, Reports!Groups!world, Reports!Groups!worker,
  Reports!Groups!ActiveIntentStatuses

LEMMA SameGroupsCreateRecovery == ASSUME NEW i PROVE Reports!Groups!CreateRecovery(i) <=> Groups!CreateRecovery(i)
BY SameExposure, SameResiduals DEF Groups!CreateRecovery,
  Groups!RecoverAllowed, Groups!Pending, Groups!WriteIntent, Groups!Intents,
  Groups!NewIntent, Groups!Legs, Groups!NonTerminalOrderStatuses,
  Groups!Exists, Groups!world, Groups!worker, Reports!Groups!CreateRecovery,
  Reports!Groups!RecoverAllowed, Reports!Groups!Pending, Reports!Groups!WriteIntent,
  Reports!Groups!Intents, Reports!Groups!NewIntent, Reports!Groups!Legs,
  Reports!Groups!NonTerminalOrderStatuses, Reports!Groups!Exists, Reports!Groups!world,
  Reports!Groups!worker

LEMMA SameGroupsTake == ASSUME NEW i PROVE Reports!Groups!Take(i) <=> Groups!Take(i)
BY DEF Groups!Take, Groups!world, Reports!Groups!Take, Reports!Groups!world

LEMMA SameGroupsVoid == Reports!Groups!Void <=> Groups!Void
BY DEF Groups!Void, Groups!VoidAllowed, Groups!Intents, Groups!Exists,
  Groups!Legs, Groups!world, Groups!worker, Groups!SafeEmptyStatuses,
  Reports!Groups!Void, Reports!Groups!VoidAllowed, Reports!Groups!Intents, Reports!Groups!Exists,
  Reports!Groups!Legs, Reports!Groups!world, Reports!Groups!worker, Reports!Groups!SafeEmptyStatuses

LEMMA SameGroupsDispatch == Reports!Groups!Dispatch <=> Groups!Dispatch
BY DEF Groups!Dispatch, Groups!Legs, Groups!LegsOf, Groups!world,
  Groups!Intents, Reports!Groups!Dispatch, Reports!Groups!Legs, Reports!Groups!LegsOf,
  Reports!Groups!world, Reports!Groups!Intents

LEMMA SameGroupsRecord == Reports!Groups!Record <=> Groups!Record
BY DEF Groups!Record, Groups!LegsOf, Groups!Legs, Groups!Ordered,
  Groups!Legged, Groups!Waiting, Groups!Ledgered, Groups!FinishCommand,
  Groups!NoOrder, Groups!world, Groups!Intents, Groups!GatewayOrder,
  Groups!GatewayLeg, Groups!Larger, Groups!IntentVerdict, Groups!GroupVerdict,
  Groups!FailureOrderStatuses, Groups!NonTerminalLegStatuses,
  Groups!OpenVerdict, Groups!CloseVerdict, Reports!Groups!Record, Reports!Groups!LegsOf,
  Reports!Groups!Legs, Reports!Groups!Ordered, Reports!Groups!Legged, Reports!Groups!Waiting,
  Reports!Groups!Ledgered, Reports!Groups!FinishCommand, Reports!Groups!NoOrder, Reports!Groups!world,
  Reports!Groups!Intents, Reports!Groups!GatewayOrder, Reports!Groups!GatewayLeg,
  Reports!Groups!Larger, Reports!Groups!IntentVerdict, Reports!Groups!GroupVerdict,
  Reports!Groups!FailureOrderStatuses, Reports!Groups!NonTerminalLegStatuses,
  Reports!Groups!OpenVerdict, Reports!Groups!CloseVerdict

LEMMA SameGroupsCrash == Reports!Groups!Crash <=> Groups!Crash
BY DEF Groups!Crash, Groups!Legs, Groups!NoOrder, Groups!rows, Groups!Intents,
  Reports!Groups!Crash, Reports!Groups!Legs, Reports!Groups!NoOrder, Reports!Groups!rows,
  Reports!Groups!Intents

LEMMA SameGroupsRecover == ASSUME NEW i, NEW S PROVE Reports!Groups!Recover(i, S) <=> Groups!Recover(i, S)
BY DEF Groups!Recover, Groups!LegsOf, Groups!Askable, Groups!Legged,
  Groups!Ordered, Groups!Ledgered, Groups!FinishCommand, Groups!world,
  Groups!worker, Groups!Legs, Groups!NonTerminalOrderStatuses,
  Groups!GatewayLeg, Groups!GatewayOrder, Groups!Larger, Groups!IntentVerdict,
  Groups!GroupVerdict, Groups!Intents, Groups!FailureOrderStatuses,
  Groups!NonTerminalLegStatuses, Groups!OpenVerdict, Groups!CloseVerdict,
  Reports!Groups!Recover, Reports!Groups!LegsOf, Reports!Groups!Askable, Reports!Groups!Legged,
  Reports!Groups!Ordered, Reports!Groups!Ledgered, Reports!Groups!FinishCommand, Reports!Groups!world,
  Reports!Groups!worker, Reports!Groups!Legs, Reports!Groups!NonTerminalOrderStatuses,
  Reports!Groups!GatewayLeg, Reports!Groups!GatewayOrder, Reports!Groups!Larger,
  Reports!Groups!IntentVerdict, Reports!Groups!GroupVerdict, Reports!Groups!Intents,
  Reports!Groups!FailureOrderStatuses, Reports!Groups!NonTerminalLegStatuses,
  Reports!Groups!OpenVerdict, Reports!Groups!CloseVerdict

LEMMA SameGroupsSubmit == ASSUME NEW l PROVE Reports!Groups!Submit(l) <=> Groups!Submit(l)
BY DEF Groups!Submit, Groups!Waiting, Groups!Taken, Groups!Unknown,
  Groups!Rejected, Groups!rows, Groups!LegsOf, Groups!Legs, Groups!Intents,
  Reports!Groups!Submit, Reports!Groups!Waiting, Reports!Groups!Taken, Reports!Groups!Unknown,
  Reports!Groups!Rejected, Reports!Groups!rows, Reports!Groups!LegsOf, Reports!Groups!Legs,
  Reports!Groups!Intents

LEMMA SameGroupsReconcile == ASSUME NEW l PROVE Reports!Groups!Reconcile(l) <=> Groups!Reconcile(l)
BY DEF Groups!Reconcile, Groups!Legged, Groups!Askable, Groups!Ordered,
  Groups!Ledgered, Groups!FinishCommand, Groups!world, Groups!worker,
  Groups!Legs, Groups!GatewayLeg, Groups!NonTerminalOrderStatuses,
  Groups!GatewayOrder, Groups!Larger, Groups!LegsOf, Groups!IntentVerdict,
  Groups!GroupVerdict, Groups!Intents, Groups!FailureOrderStatuses,
  Groups!NonTerminalLegStatuses, Groups!OpenVerdict, Groups!CloseVerdict,
  Reports!Groups!Reconcile, Reports!Groups!Legged, Reports!Groups!Askable, Reports!Groups!Ordered,
  Reports!Groups!Ledgered, Reports!Groups!FinishCommand, Reports!Groups!world, Reports!Groups!worker,
  Reports!Groups!Legs, Reports!Groups!GatewayLeg, Reports!Groups!NonTerminalOrderStatuses,
  Reports!Groups!GatewayOrder, Reports!Groups!Larger, Reports!Groups!LegsOf,
  Reports!Groups!IntentVerdict, Reports!Groups!GroupVerdict, Reports!Groups!Intents,
  Reports!Groups!FailureOrderStatuses, Reports!Groups!NonTerminalLegStatuses,
  Reports!Groups!OpenVerdict, Reports!Groups!CloseVerdict

LEMMA SameGroupsProject == ASSUME NEW l PROVE Reports!Groups!Project(l) <=> Groups!Project(l)
BY DEF Groups!Project, Groups!Larger, Groups!EventOrder, Groups!EventLeg,
  Groups!FinishCommand, Groups!worker, Groups!FailureOrderStatuses,
  Groups!LegsOf, Groups!IntentVerdict, Groups!GroupVerdict, Groups!Legs,
  Groups!NonTerminalLegStatuses, Groups!OpenVerdict, Groups!CloseVerdict,
  Groups!Intents, Reports!Groups!Project, Reports!Groups!Larger, Reports!Groups!EventOrder,
  Reports!Groups!EventLeg, Reports!Groups!FinishCommand, Reports!Groups!worker,
  Reports!Groups!FailureOrderStatuses, Reports!Groups!LegsOf, Reports!Groups!IntentVerdict,
  Reports!Groups!GroupVerdict, Reports!Groups!Legs, Reports!Groups!NonTerminalLegStatuses,
  Reports!Groups!OpenVerdict, Reports!Groups!CloseVerdict, Reports!Groups!Intents

LEMMA SameGroupsVenueMoves == ASSUME NEW l PROVE Reports!Groups!VenueMoves(l) <=> Groups!VenueMoves(l)
BY DEF Groups!VenueMoves, Groups!rows, Groups!worker, Reports!Groups!VenueMoves,
  Reports!Groups!rows, Reports!Groups!worker

LEMMA SameGroupsLoseReport == ASSUME NEW l PROVE Reports!Groups!LoseReport(l) <=> Groups!LoseReport(l)
BY DEF Groups!LoseReport, Groups!rows, Groups!worker, Reports!Groups!LoseReport,
  Reports!Groups!rows, Reports!Groups!worker

LEMMA SameStepGroups == Reports!Groups!Next <=> Groups!Next
BY SameGroupsCreateOpen, SameGroupsCreateClose, SameGroupsCreateRecovery,
  SameGroupsTake, SameGroupsVoid, SameGroupsDispatch, SameGroupsRecord,
  SameGroupsCrash, SameGroupsRecover, SameGroupsSubmit, SameGroupsReconcile,
  SameGroupsProject, SameGroupsVenueMoves, SameGroupsLoseReport DEF
  Groups!Next, Groups!Intents, Groups!LegsOf, Groups!Legs, Reports!Groups!Next,
  Reports!Groups!Intents, Reports!Groups!LegsOf, Reports!Groups!Legs

LEMMA SameStreamsTypes == L!Streams!TypeOK <=> Streams!TypeOK
BY DEF Streams!TypeOK, Streams!Kinds, Streams!Reports, L!Streams!TypeOK,
  L!Streams!Kinds, L!Streams!Reports

LEMMA SameConnectorTypes == L!Connector!TypeOK <=> Connector!TypeOK
BY DEF Connector!TypeOK, Connector!Units, Connector!Order, Connector!Answer,
  Connector!Final, L!Connector!TypeOK, L!Connector!Units, L!Connector!Order,
  L!Connector!Answer, L!Connector!Final

LEMMA SameLegacyTypes == L!Legacy!TypeOK <=> Legacy!TypeOK
BY DEF Legacy!TypeOK, Legacy!VenueRow, Legacy!Statuses,
  Legacy!PendingStatuses, Legacy!EffectStatuses, Legacy!FailedStatuses,
  L!Legacy!TypeOK, L!Legacy!VenueRow, L!Legacy!Statuses,
  L!Legacy!PendingStatuses, L!Legacy!EffectStatuses, L!Legacy!FailedStatuses

LEMMA SameHeldTypes == L!Held!TypeOK <=> Held!TypeOK
BY DEF Held!TypeOK, Held!Sizes, L!Held!TypeOK, L!Held!Sizes

LEMMA SamePoolTypes == L!Pool!TypeOK <=> Pool!TypeOK
BY DEF Pool!TypeOK, Pool!Snapshot, Pool!Statuses, Pool!PoolStatuses,
  L!Pool!TypeOK, L!Pool!Snapshot, L!Pool!Statuses, L!Pool!PoolStatuses

LEMMA SameProbeRunTypes == L!ProbeRun!TypeOK <=> ProbeRun!TypeOK
BY DEF ProbeRun!TypeOK, ProbeRun!RunStatus, ProbeRun!Cardinality,
  ProbeRun!IsFiniteSet, ProbeRun!Legs, ProbeRun!Lots, ProbeRun!LegStatus,
  ProbeRun!Row, ProbeRun!Stages, ProbeRun!OrderStatus, ProbeRun!VenueStatus,
  L!ProbeRun!TypeOK, L!ProbeRun!RunStatus, L!ProbeRun!Cardinality,
  L!ProbeRun!IsFiniteSet, L!ProbeRun!Legs, L!ProbeRun!Lots,
  L!ProbeRun!LegStatus, L!ProbeRun!Row, L!ProbeRun!Stages,
  L!ProbeRun!OrderStatus, L!ProbeRun!VenueStatus

LEMMA SameCashTypes == L!Cash!TypeOK <=> Cash!TypeOK
BY DEF Cash!TypeOK, Cash!Orders, Cash!Quantity, Cash!Parts, L!Cash!TypeOK,
  L!Cash!Orders, L!Cash!Quantity, L!Cash!Parts

LEMMA SameHybridTypes == L!Hybrid!TypeOK <=> Hybrid!TypeOK
BY DEF Hybrid!TypeOK, Hybrid!NoOne, Hybrid!Stage, Hybrid!RowStatus,
  Hybrid!Orders, Hybrid!Snapshot, Hybrid!Steps, Hybrid!Lots, Hybrid!Sides,
  Hybrid!Status, Hybrid!entry, Hybrid!flatten, L!Hybrid!TypeOK,
  L!Hybrid!NoOne, L!Hybrid!Stage, L!Hybrid!RowStatus, L!Hybrid!Orders,
  L!Hybrid!Snapshot, L!Hybrid!Steps, L!Hybrid!Lots, L!Hybrid!Sides,
  L!Hybrid!Status, L!Hybrid!entry, L!Hybrid!flatten

LEMMA SameKeysTypes == L!Keys!TypeOK <=> Keys!TypeOK
BY DEF Keys!TypeOK, Keys!Rows, Keys!NoRow, Keys!Processes, Keys!Connectors,
  Keys!Idle, Keys!Connector, L!Keys!TypeOK, L!Keys!Rows, L!Keys!NoRow,
  L!Keys!Processes, L!Keys!Connectors, L!Keys!Idle, L!Keys!Connector

LEMMA SameTimersTypes == L!Timers!TypeOK <=> Timers!TypeOK
BY DEF Timers!TypeOK, Timers!Starts, Timers!Steps, L!Timers!TypeOK,
  L!Timers!Starts, L!Timers!Steps

LEMMA SameEventsTypes == Reports!TypeOK <=> Events!TypeOK
BY DEF Events!TypeOK, Events!Report, Events!Event, Events!OrderStatus,
  Events!OrderEvents, Events!FillEvents, Events!VenueStatus, Reports!TypeOK,
  Reports!Report, Reports!Event, Reports!OrderStatus, Reports!OrderEvents,
  Reports!FillEvents, Reports!VenueStatus

LEMMA SameGroupsTypes == Reports!Groups!TypeOK <=> Groups!TypeOK
BY DEF Groups!TypeOK, Groups!GroupStatus, Groups!Intents, Groups!IntentRow,
  Groups!OutboxStatus, Groups!Legs, Groups!LegStatus, Groups!OrderRow,
  Groups!IntentKind, Groups!IntentStatus, Groups!OrderStatus,
  Groups!VenueStatus, Reports!Groups!TypeOK, Reports!Groups!GroupStatus,
  Reports!Groups!Intents, Reports!Groups!IntentRow,
  Reports!Groups!OutboxStatus, Reports!Groups!Legs, Reports!Groups!LegStatus,
  Reports!Groups!OrderRow, Reports!Groups!IntentKind,
  Reports!Groups!IntentStatus, Reports!Groups!OrderStatus,
  Reports!Groups!VenueStatus


-----------------------------------------------------------------------------
(***************************************************************************)
(* A behaviour runs one part; the invariant is that of the part.  Some     *)
(* parts are safe only as long as something does not happen, which a       *)
(* constant says may happen or not.                                        *)
(***************************************************************************)
PartsInv ==
  /\ part = "streams" => L!StreamsInv
  /\ part = "connectors" => L!ConnectorInv
  /\ part = "legacy" => L!LegacyInv
  /\ part = "held" /\ ~EarlyUpdates /\ ~SilentErrors => L!HeldInv
  /\ part = "pool" => L!PoolInv
  /\ part = "runs" => L!RunsInv
  /\ part = "cash" /\ ~LateAnswers => L!CashInv
  /\ part = "hybrid" /\ ~CrashAtSubmit => L!HybridInv
  /\ part = "keys" => L!RightsInv
  /\ part = "keys" /\ ~Overlap => L!TestsAreOfTheRow
  /\ part = "timers" => L!TimersInv
  /\ part = "events" => Reports!IInv /\ Reports!KnownInv
  /\ part = "groups" /\ ~LateEvents => Reports!GroupInv

LEMMA PartsInit == Init => PartsInv
<1>. SUFFICES ASSUME Init PROVE PartsInv
  OBVIOUS
<1>1. ASSUME part = "streams" PROVE L!StreamsInv
  <2>1. Streams!Init
    BY <1>1 DEF Init
  <2>. QED BY <1>1, <2>1, SameStreams, L!StreamsInit, PartsAssumption
<1>2. ASSUME part = "connectors" PROVE L!ConnectorInv
  <2>1. Connector!Init
    BY <1>2 DEF Init
  <2>. QED BY <1>2, <2>1, SameConnector, L!ConnectorInit, PartsAssumption
<1>3. ASSUME part = "legacy" PROVE L!LegacyInv
  <2>1. Legacy!Init
    BY <1>3 DEF Init
  <2>. QED BY <1>3, <2>1, SameLegacy, L!LegacyInit, PartsAssumption
<1>4. ASSUME part = "held", ~EarlyUpdates /\ ~SilentErrors PROVE L!HeldInv
  <2>1. Held!Init
    BY <1>4 DEF Init
  <2>. QED BY <1>4, <2>1, SameHeld, L!HeldInit, PartsAssumption DEF L!HeldAssumption
<1>5. ASSUME part = "pool" PROVE L!PoolInv
  <2>1. Pool!Init
    BY <1>5 DEF Init
  <2>. QED BY <1>5, <2>1, SamePool, L!PoolInit, PartsAssumption
<1>6. ASSUME part = "runs" PROVE L!RunsInv
  <2>1. ProbeRun!Init
    BY <1>6 DEF Init
  <2>. QED BY <1>6, <2>1, SameProbeRun, L!RunsInit, PartsAssumption
<1>7. ASSUME part = "cash", ~LateAnswers PROVE L!CashInv
  <2>1. Cash!Init
    BY <1>7 DEF Init
  <2>. QED BY <1>7, <2>1, SameCash, L!CashInit, PartsAssumption
<1>8. ASSUME part = "hybrid", ~CrashAtSubmit PROVE L!HybridInv
  <2>1. Hybrid!Init
    BY <1>8 DEF Init
  <2>. QED BY <1>8, <2>1, SameHybrid, L!HybridInit, PartsAssumption
<1>9. ASSUME part = "keys" PROVE L!RightsInv
  <2>1. Keys!Init
    BY <1>9 DEF Init
  <2>. QED BY <1>9, <2>1, SameKeys, L!RightsInit, PartsAssumption
<1>10. ASSUME part = "keys", ~Overlap PROVE L!TestsAreOfTheRow
  <2>1. Keys!Init
    BY <1>10 DEF Init
  <2>. QED BY <1>10, <2>1, SameKeys, L!TestsInit, PartsAssumption
<1>11. ASSUME part = "timers" PROVE L!TimersInv
  <2>1. Timers!Init
    BY <1>11 DEF Init
  <2>. QED BY <1>11, <2>1, SameTimers, L!TimersInit, PartsAssumption
<1>12. ASSUME part = "events" PROVE Reports!IInv /\ Reports!KnownInv
  <2>1. Events!Init
    BY <1>12 DEF Init
  <2>. QED BY <1>12, <2>1, SameEvents, Reports!InitHolds, Reports!KnownInit, PartsAssumption
<1>13. ASSUME part = "groups", ~LateEvents PROVE Reports!GroupInv
  <2>1. Groups!Init
    BY <1>13 DEF Init
  <2>. QED BY <1>13, <2>1, SameGroups, Reports!GroupInit, PartsAssumption
<1>. QED BY <1>1, <1>2, <1>3, <1>4, <1>5, <1>6, <1>7, <1>8, <1>9, <1>10, <1>11, <1>12, <1>13 DEF PartsInv

(* A step is a step of the part that runs, or leaves every variable alone. *)
LEMMA PartsStep == PartsInv /\ [Next]_vars => PartsInv'
<1>. SUFFICES ASSUME PartsInv, [Next]_vars PROVE PartsInv'
  OBVIOUS
<1>0. part' = part
  BY DEF Next, vars
<1>1. ASSUME part = "streams" PROVE L!StreamsInv'
  <2>1. L!Streams!Next \/ UNCHANGED L!Streams!vars
    BY <1>1, SameStepStreams DEF Next, vars, L!Streams!vars, L!Streams!stream, L!Streams!poller, L!Streams!worker, L!Streams!past
  <2>. QED BY <1>1, <2>1, SameStreams, L!StreamsStep, PartsAssumption DEF PartsInv
<1>2. ASSUME part = "connectors" PROVE L!ConnectorInv'
  <2>1. L!Connector!Next \/ UNCHANGED L!Connector!vars
    BY <1>2, SameStepConnector DEF Next, vars, L!Connector!vars
  <2>. QED BY <1>2, <2>1, SameConnector, L!ConnectorStep, PartsAssumption DEF PartsInv
<1>3. ASSUME part = "legacy" PROVE L!LegacyInv'
  <2>1. L!Legacy!Next \/ UNCHANGED L!Legacy!vars
    BY <1>3, SameStepLegacy DEF Next, vars, L!Legacy!vars
  <2>. QED BY <1>3, <2>1, SameLegacy, L!LegacyStep, PartsAssumption DEF PartsInv
<1>4. ASSUME part = "held", ~EarlyUpdates /\ ~SilentErrors PROVE L!HeldInv'
  <2>1. L!Held!Next \/ UNCHANGED L!Held!vars
    BY <1>4, SameStepHeld DEF Next, vars, L!Held!vars
  <2>. QED BY <1>4, <2>1, SameHeld, L!HeldStep, PartsAssumption DEF PartsInv, L!HeldAssumption
<1>5. ASSUME part = "pool" PROVE L!PoolInv'
  <2>1. L!Pool!Next \/ UNCHANGED L!Pool!vars
    BY <1>5, SameStepPool DEF Next, vars, L!Pool!vars
  <2>. QED BY <1>5, <2>1, SamePool, L!PoolStep, PartsAssumption DEF PartsInv
<1>6. ASSUME part = "runs" PROVE L!RunsInv'
  <2>1. L!ProbeRun!Next \/ UNCHANGED L!ProbeRun!vars
    BY <1>6, SameStepProbeRun DEF Next, vars, L!ProbeRun!vars
  <2>. QED BY <1>6, <2>1, SameProbeRun, L!RunsStep, PartsAssumption DEF PartsInv
<1>7. ASSUME part = "cash", ~LateAnswers PROVE L!CashInv'
  <2>1. L!Cash!Next \/ UNCHANGED L!Cash!vars
    BY <1>7, SameStepCash DEF Next, vars, L!Cash!vars
  <2>. QED BY <1>7, <2>1, SameCash, L!CashStep, PartsAssumption DEF PartsInv
<1>8. ASSUME part = "hybrid", ~CrashAtSubmit PROVE L!HybridInv'
  <2>1. L!Hybrid!Next \/ UNCHANGED L!Hybrid!vars
    BY <1>8, SameStepHybrid DEF Next, vars, L!Hybrid!vars, L!Hybrid!redis, L!Hybrid!market, L!Hybrid!thread
  <2>. QED BY <1>8, <2>1, SameHybrid, L!HybridStep, PartsAssumption DEF PartsInv
<1>9. ASSUME part = "keys" PROVE L!RightsInv'
  <2>1. L!Keys!Next \/ UNCHANGED L!Keys!vars
    BY <1>9, SameStepKeys DEF Next, vars, L!Keys!vars
  <2>. QED BY <1>9, <2>1, SameKeys, L!RightsStep, PartsAssumption DEF PartsInv
<1>10. ASSUME part = "keys", ~Overlap PROVE L!TestsAreOfTheRow'
  <2>1. L!Keys!Next \/ UNCHANGED L!Keys!vars
    BY <1>10, SameStepKeys DEF Next, vars, L!Keys!vars
  <2>. QED BY <1>10, <2>1, SameKeys, L!StepKeepsTests, PartsAssumption DEF PartsInv
<1>11. ASSUME part = "timers" PROVE L!TimersInv'
  <2>1. L!Timers!Next \/ UNCHANGED L!Timers!vars
    BY <1>11, SameStepTimers DEF Next, vars, L!Timers!vars
  <2>. QED BY <1>11, <2>1, SameTimers, L!TimersStep, PartsAssumption DEF PartsInv
<1>12. ASSUME part = "events" PROVE (Reports!IInv /\ Reports!KnownInv)'
  <2>1. Reports!Next \/ UNCHANGED Reports!vars
    BY <1>12, SameStepEvents DEF Next, vars, Reports!vars
  <2>. QED BY <1>12, <2>1, SameEvents, Reports!StepKeeps, Reports!KnownStep, PartsAssumption DEF PartsInv
<1>13. ASSUME part = "groups", ~LateEvents PROVE Reports!GroupInv'
  <2>1. Reports!Groups!Next \/ UNCHANGED Reports!Groups!vars
    BY <1>13, SameStepGroups DEF Next, vars, Reports!Groups!vars, Reports!Groups!rows, Reports!Groups!world, Reports!Groups!worker
  <2>. QED BY <1>13, <2>1, SameGroups, Reports!GroupStep, PartsAssumption DEF PartsInv
<1>. QED BY <1>0, <1>1, <1>2, <1>3, <1>4, <1>5, <1>6, <1>7, <1>8, <1>9, <1>10, <1>11, <1>12, <1>13
         DEF PartsInv

(* Whatever follows from the invariant of the part that runs is true       *)
(* always.                                                                 *)
THEOREM PartsInvariance == Spec => []PartsInv
<1>1. Init => PartsInv
  BY PartsInit
<1>2. PartsInv /\ [Next]_vars => PartsInv'
  BY PartsStep
<1>. QED BY <1>1, <1>2, PTL DEF Spec

-----------------------------------------------------------------------------
(* No report about an order is lost without a reconciliation, on any       *)
(* stream and however often it breaks, and no job without a round to come, *)
(* for any jobs and any number of starts.                                  *)
THEOREM NothingIsLost == Spec => []NoSilentLoss
<1>1. PartsInv => NoSilentLoss
  BY SameStreams, SameTimers, L!TimersAreSafe DEF PartsInv, NoSilentLoss, L!StreamsInv
<1>. QED BY <1>1, PartsInvariance, PTL

(* A load of the pool that nothing disturbs repairs it, for any number of  *)
(* writes.                                                                 *)
THEOREM LoadsRepair == Spec => []LoadRepairs
<1>1. PartsInv => LoadRepairs
  BY SamePool DEF PartsInv, LoadRepairs, L!PoolInv
<1>. QED BY <1>1, PartsInvariance, PTL

(* Both sides of a group of an earlier version that is shown open are, a   *)
(* ledger has no fill that the venue has not, whatever the order, the      *)
(* repetition and the loss of the reports, and the table of positions      *)
(* follows the account, as long as the account does not change before its  *)
(* first snapshot and the terminal does not answer with nothing.           *)
THEOREM TrueLedgers == ~EarlyUpdates /\ ~SilentErrors => (Spec => []LedgersAreTrue)
<1>. SUFFICES ASSUME ~EarlyUpdates, ~SilentErrors PROVE Spec => []LedgersAreTrue
  OBVIOUS
<1>1. PartsInv => LedgersAreTrue
  <2>1. ASSUME L!LegacyInv PROVE Legacy!LegacyLedgerReal
    BY <2>1, SameLegacy, L!LegacyIsSafe, PartsAssumption
  <2>2. ASSUME L!HeldInv PROVE Held!TableFollows /\ Held!ReadyIsExplained
    BY <2>2, SameHeld, L!HeldIsSafe, PartsAssumption DEF L!HeldAssumption
  <2>3. ASSUME Reports!IInv, Reports!KnownInv
        PROVE  Events!NeverOvercounted /\ Events!LedgerCovers /\ Events!FilledIsKnown
    BY <2>3, SameEvents, Reports!LedgerMeans, Reports!KnownMeans, PartsAssumption
  <2>. QED BY <2>1, <2>2, <2>3 DEF PartsInv, LedgersAreTrue
<1>. QED BY <1>1, PartsInvariance, PTL

(* A probe that is said to be flat has closed what it opened, is exposed   *)
(* only under its lock and enters once, as long as the process does not    *)
(* crash between a submission and the save after it.                       *)
THEOREM SafeProbes == ~CrashAtSubmit => (Spec => []ProbesAreSafe)
<1>. SUFFICES ASSUME ~CrashAtSubmit PROVE Spec => []ProbesAreSafe
  OBVIOUS
<1>1. PartsInv => ProbesAreSafe
  <2>1. ASSUME L!HybridInv PROVE Hybrid!SafeMeansClosed /\ Hybrid!ExposedIsLocked /\ Hybrid!EntersOnce
    BY <2>1, SameHybrid, L!HybridIsSafe, PartsAssumption
  <2>2. ASSUME L!RunsInv PROVE ProbeRun!FlatMeansClosed
    BY <2>2, SameProbeRun, L!RunsAreSafe, PartsAssumption
  <2>. QED BY <2>1, <2>2 DEF PartsInv, ProbesAreSafe
<1>. QED BY <1>1, PartsInvariance, PTL

(* A connector never gives a certain answer that the venue belies, for any *)
(* quantities and steps, and is used and reported ready only with the      *)
(* rights that it has, as long as no save comes while a test is under way. *)
THEOREM TrueAnswers == ~Overlap => (Spec => []AnswersAreTrue)
<1>. SUFFICES ASSUME ~Overlap PROVE Spec => []AnswersAreTrue
  OBVIOUS
<1>1. PartsInv => AnswersAreTrue
  BY SameConnector, SameKeys, L!RightsAreTrue, L!ReadyIsTrue DEF PartsInv, AnswersAreTrue, L!ConnectorInv
<1>. QED BY <1>1, PartsInvariance, PTL

(* The realized profit of a closed group is the cash its fills moved, at   *)
(* any prices and fees, as long as no answer is older than a report that   *)
(* has been projected.                                                     *)
THEOREM RealizedCash == ~LateAnswers => (Spec => []RealizedIsCash)
<1>. SUFFICES ASSUME ~LateAnswers PROVE Spec => []RealizedIsCash
  OBVIOUS
<1>1. PartsInv => RealizedIsCash
  <2>1. ASSUME L!CashInv PROVE Cash!RealizedIsCash
    BY <2>1, SameCash, L!CashMeans, PartsAssumption
  <2>. QED BY <2>1 DEF PartsInv, RealizedIsCash
<1>. QED BY <1>1, PartsInvariance, PTL

(* A group never has two commands at work, nor two that are active, for    *)
(* any number of commands, any quantities and any number of crashes, with  *)
(* or without fills on the streams, as long as no command is accepted      *)
(* while a stream owes a report.                                           *)
THEOREM OneIntentAtWork == ~LateEvents => (Spec => []OneAtWork)
<1>. SUFFICES ASSUME ~LateEvents PROVE Spec => []OneAtWork
  OBVIOUS
<1>1. PartsInv => OneAtWork
  <2>1. ASSUME Reports!GroupInv PROVE Groups!OneAtWork /\ Groups!OneActive
    BY <2>1, SameGroups, Reports!GroupIsSafe, PartsAssumption
  <2>. QED BY <2>1 DEF PartsInv, OneAtWork
<1>. QED BY <1>1, PartsInvariance, PTL

(* A group shows what its latest command came to, whatever was lost, asked *)
(* again or voided meanwhile; a group of an earlier version is shown open  *)
(* only with fills on both sides.                                          *)
THEOREM TrueGroups == ~LateEvents => (Spec => []GroupsAreTrue)
<1>. SUFFICES ASSUME ~LateEvents PROVE Spec => []GroupsAreTrue
  OBVIOUS
<1>1. PartsInv => GroupsAreTrue
  <2>1. ASSUME Reports!GroupInv PROVE Groups!GroupFollowsLatest
    BY <2>1, SameGroups, Reports!GroupIsSafe, PartsAssumption
  <2>2. ASSUME L!LegacyInv PROVE Legacy!OpenOnBothSides /\ Legacy!ShadowIsReal
    BY <2>2, SameLegacy, L!LegacyIsSafe, PartsAssumption
  <2>. QED BY <2>1, <2>2 DEF PartsInv, GroupsAreTrue
<1>. QED BY <1>1, PartsInvariance, PTL

-----------------------------------------------------------------------------
(* The types that the invariants of the parts leave out.                   *)
KeptTypes ==
  /\ part = "runs" => L!ProbeRun!TypeOK
  /\ part = "keys" => L!Keys!TypeOK
  /\ part = "hybrid" /\ ~CrashAtSubmit => L!HybridMore
  /\ part = "cash" /\ ~LateAnswers => L!Cash!TypeOK

LEMMA TypesInit == Init => KeptTypes
<1>. SUFFICES ASSUME Init PROVE KeptTypes
  OBVIOUS
<1>1. ASSUME part = "runs" PROVE L!ProbeRun!TypeOK
  <2>1. ProbeRun!Init
    BY <1>1 DEF Init
  <2>. QED BY <1>1, <2>1, SameProbeRun, L!RunsTypedInit, PartsAssumption
<1>2. ASSUME part = "keys" PROVE L!Keys!TypeOK
  <2>1. Keys!Init
    BY <1>2 DEF Init
  <2>. QED BY <1>2, <2>1, SameKeys, L!KeysInit, PartsAssumption
<1>3. ASSUME part = "hybrid" PROVE L!HybridMore
  <2>1. Hybrid!Init
    BY <1>3 DEF Init
  <2>. QED BY <1>3, <2>1, SameHybrid, L!HybridMoreInit, PartsAssumption
<1>4. ASSUME part = "cash" PROVE L!Cash!TypeOK
  <2>1. Cash!Init
    BY <1>4 DEF Init
  <2>. QED BY <1>4, <2>1, SameCash, L!CashTypedInit, PartsAssumption
<1>. QED BY <1>1, <1>2, <1>3, <1>4 DEF KeptTypes

LEMMA TypesStep == PartsInv /\ KeptTypes /\ [Next]_vars => KeptTypes'
<1>. SUFFICES ASSUME PartsInv, KeptTypes, [Next]_vars PROVE KeptTypes'
  OBVIOUS
<1>0. part' = part
  BY DEF Next, vars
<1>1. ASSUME part = "runs" PROVE L!ProbeRun!TypeOK'
  <2>1. L!ProbeRun!Next \/ UNCHANGED L!ProbeRun!vars
    BY <1>1, SameStepProbeRun DEF Next, vars, L!ProbeRun!vars
  <2>. QED BY <1>1, <2>1, SameProbeRun, L!RunsAreTyped, PartsAssumption DEF PartsInv, KeptTypes
<1>2. ASSUME part = "keys" PROVE L!Keys!TypeOK'
  <2>1. L!Keys!Next \/ UNCHANGED L!Keys!vars
    BY <1>2, SameStepKeys DEF Next, vars, L!Keys!vars
  <2>. QED BY <1>2, <2>1, SameKeys, L!KeysAreTyped, PartsAssumption DEF PartsInv, KeptTypes
<1>3. ASSUME part = "hybrid", ~CrashAtSubmit PROVE L!HybridMore'
  <2>1. L!Hybrid!Next \/ UNCHANGED L!Hybrid!vars
    BY <1>3, SameStepHybrid DEF Next, vars, L!Hybrid!vars, L!Hybrid!redis, L!Hybrid!market, L!Hybrid!thread
  <2>. QED BY <1>3, <2>1, SameHybrid, L!HybridMoreStep, PartsAssumption DEF PartsInv, KeptTypes
<1>4. ASSUME part = "cash", ~LateAnswers PROVE L!Cash!TypeOK'
  <2>1. L!Cash!Next \/ UNCHANGED L!Cash!vars
    BY <1>4, SameStepCash DEF Next, vars, L!Cash!vars
  <2>. QED BY <1>4, <2>1, SameCash, L!CashIsTyped, PartsAssumption DEF PartsInv, KeptTypes
<1>. QED BY <1>0, <1>1, <1>2, <1>3, <1>4 DEF KeptTypes

(* Every variable of every part keeps its type, for all values of the      *)
(* constants; of the parts whose invariant holds only as long as something *)
(* does not happen, as long as it does not.                                *)
THEOREM TypesHold ==
  ~EarlyUpdates /\ ~SilentErrors /\ ~LateAnswers /\ ~CrashAtSubmit /\ ~LateEvents => (Spec => []TypeOK)
<1>. SUFFICES ASSUME ~EarlyUpdates, ~SilentErrors, ~LateAnswers, ~CrashAtSubmit, ~LateEvents
              PROVE  Spec => []TypeOK
  OBVIOUS
<1>1. PartsInv /\ KeptTypes => TypeOK
  <2>. SUFFICES ASSUME PartsInv, KeptTypes PROVE TypeOK
    OBVIOUS
  <2>1. part = "streams" => Streams!TypeOK
    BY SameStreamsTypes DEF PartsInv, L!StreamsInv
  <2>2. part = "connectors" => Connector!TypeOK
    BY SameConnectorTypes DEF PartsInv, L!ConnectorInv
  <2>3. part = "legacy" => Legacy!TypeOK
    BY SameLegacyTypes DEF PartsInv, L!LegacyInv
  <2>4. part = "held" => Held!TypeOK
    BY SameHeldTypes DEF PartsInv, L!HeldInv
  <2>5. part = "pool" => Pool!TypeOK
    BY SamePoolTypes DEF PartsInv, L!PoolInv
  <2>6. part = "runs" => ProbeRun!TypeOK
    BY SameProbeRunTypes DEF KeptTypes
  <2>7. part = "cash" => Cash!TypeOK
    BY SameCashTypes DEF KeptTypes
  <2>8. part = "hybrid" => Hybrid!TypeOK
    BY SameHybridTypes, L!HybridIsTyped DEF PartsInv, KeptTypes
  <2>9. part = "keys" => Keys!TypeOK
    BY SameKeysTypes DEF KeptTypes
  <2>10. part = "timers" => Timers!TypeOK
    BY SameTimersTypes DEF PartsInv, L!TimersInv
  <2>11. part = "events" => Events!TypeOK
    BY SameEventsTypes DEF PartsInv, Reports!IInv
  <2>12. part = "groups" => Groups!TypeOK
    BY SameGroupsTypes DEF PartsInv, Reports!GroupInv
  <2>. QED BY <2>1, <2>2, <2>3, <2>4, <2>5, <2>6, <2>7, <2>8, <2>9, <2>10, <2>11, <2>12 DEF TypeOK
<1>2. Init => KeptTypes
  BY TypesInit
<1>3. PartsInv /\ KeptTypes /\ [Next]_vars => KeptTypes'
  BY TypesStep
<1>. QED BY <1>1, <1>2, <1>3, PartsInvariance, PTL DEF Spec
================================================================================
