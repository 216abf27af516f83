--------------------------- MODULE MakerThenMarket ---------------------------
(***************************************************************************)
(* Execution of one intent in the style maker_then_market: a post-only     *)
(* order rests on one venue, its fills are hedged by market orders on the  *)
(* other venue, and after a time-to-live it is cancelled and, if so        *)
(* configured, completed by a market order (execution/maker_state.py).     *)
(*                                                                         *)
(* Legs are added while the intent runs, each with an outbox row of its    *)
(* own; cancellations are outbox rows as well.  The worker that claims the *)
(* rows is the one of OutboxWorker (execution/outbox_worker.py); here a    *)
(* row is one command for one leg.  The database is the record db: every   *)
(* transaction of the worker is a function from db to db, and Advance is   *)
(* the state machine, run at the end of most of them.                      *)
(*                                                                         *)
(* Quantities are lots, and a lot of the maker is hedged by one lot.       *)
(***************************************************************************)
EXTENDS ExecutionStatus, FiniteSets, SequencesExt

CONSTANTS
    Kind,            \* "OPEN" or "CLOSE"
    Target,          \* lots of the maker, and of its hedge
    MarketFallback,  \* maker_unfilled_action = market_fallback (else: cancel)
    AutoFlatten,     \* single_leg_action flattens (else: manual intervention)
    MaxCrashes,      \* bound: crashes of the worker process
    MaxDrops,        \* bound: disconnections of private streams
    MaxUnanswered,   \* bound: submissions without an answer
    MaxUnread        \* bound: reports of one order the worker has not read

ASSUME MakerAssumption ==
    /\ Kind \in {"OPEN", "CLOSE"}
    /\ Target \in Nat \ {0}
    /\ MarketFallback \in BOOLEAN /\ AutoFlatten \in BOOLEAN
    /\ MaxCrashes \in Nat /\ MaxDrops \in Nat /\ MaxUnanswered \in Nat
    /\ MaxUnread \in Nat \ {0}

(* A leg is its role and its sequence number in that role.                 *)
Maker        == <<"MAKER", 0>>
Fallback     == <<"MAKER_FALLBACK", 0>>
Compensation == <<"COMPENSATION", 0>>
MakerLegs    == {Maker, Fallback}
HedgeLegs    == {"HEDGE"} \X (1..Target)
Legs         == MakerLegs \cup {Compensation} \cup HedgeLegs

(* The two venues: the hedge's, and that of all other legs.                *)
Venues     == {"maker venue", "hedge venue"}
VenueOf(l) == IF l \in HedgeLegs THEN "hedge venue" ELSE "maker venue"

VARIABLES
    db,         \* the rows of the intent, see Database
    expired,    \* the time-to-live of the maker leg has elapsed
    venue,      \* the orders as the venues have them
    wire,       \* submissions that timed out and may still reach the venue
    queue,      \* reports of the private streams the worker has not read yet
    online,     \* venues whose private stream is connected
    ever,       \* ... was connected before, in this process
    gap,        \* the reconciliation request flag
    phase,      \* where the worker process is
    fresh,      \* claimed rows that were PENDING
    stale,      \* claimed rows that were PROCESSING (recovery_only)
    result,     \* what the submit call returned
    submitted,  \* history: number of submit calls per leg
    crashes, drops, unanswered

world  == <<venue, wire>>
stream == <<queue, online, ever>>
worker == <<phase, fresh, stale, result>>
faults == <<crashes, drops, unanswered>>
vars   == <<db, expired, world, stream, gap, worker, submitted, faults>>

OrderRow == [status : OrderStatus, filled : 0..Target]
VenueRow == [status : VenueStatus, filled : 0..Target]
Command  == [kind : {"SUBMIT", "CANCEL"}, leg : Legs, status : OutboxStatus \ {"ABSENT"}]
Noted(status) == [status |-> status, filled |-> 0]
NoReport == Noted("NONE")

Database ==
    [intent   : {"CREATED", "RUNNING", "RECOVERY_REQUIRED", "COMPLETED", "FAILED"},
     group    : GroupStatus,
     finished : BOOLEAN,            \* the group event of this intent's end exists
     outbox   : Seq(Command),       \* in the order of the ids
     leg      : [Legs -> LegStatus],
     order    : [Legs -> OrderRow], \* status NONE: no VenueOrder
     qty      : [Legs -> 0..Target]]\* 0: the leg does not exist

TypeOK ==
    /\ db \in Database
    /\ expired \in BOOLEAN
    /\ venue \in [Legs -> VenueRow]
    /\ wire \subseteq Legs
    /\ queue \in [Legs -> Seq(VenueRow)]
    /\ online \subseteq Venues /\ ever \subseteq Venues
    /\ gap \in BOOLEAN
    /\ phase \in {"starting", "ready", "sending", "sent"}
    /\ fresh \subseteq DOMAIN db.outbox /\ stale \subseteq DOMAIN db.outbox
    /\ result \in OrderRow
    /\ submitted \in [Legs -> Nat]
    /\ crashes \in 0..MaxCrashes /\ drops \in 0..MaxDrops
    /\ unanswered \in 0..MaxUnanswered

Pending(kind, l) == [kind |-> kind, leg |-> l, status |-> "PENDING"]

(* The coordinator has written the intent, its maker leg and the command.  *)
Init ==
    /\ db = [intent   |-> "CREATED",
             group    |-> IF Kind = "OPEN" THEN "opening" ELSE "closing",
             finished |-> FALSE,
             outbox   |-> <<Pending("SUBMIT", Maker)>>,
             leg      |-> [l \in Legs |-> "PLANNED"],
             order    |-> [l \in Legs |-> NoReport],
             qty      |-> [l \in Legs |-> IF l = Maker THEN Target ELSE 0]]
    /\ expired = FALSE
    /\ venue = [l \in Legs |-> NoReport]
    /\ wire = {}
    /\ queue = [l \in Legs |-> << >>]
    /\ online = Venues /\ ever = Venues
    /\ gap = FALSE
    /\ phase = "ready"
    /\ fresh = {} /\ stale = {}
    /\ result = NoReport
    /\ submitted = [l \in Legs |-> 0]
    /\ crashes = 0 /\ drops = 0 /\ unanswered = 0

Idle == phase = "ready" /\ fresh = {} /\ stale = {}

-----------------------------------------------------------------------------
(* The state machine (advance_maker_intent): functions of the database.    *)

(* Lots over the maker legs, and over the hedge legs.                      *)
OfMakers(lots) == lots[Maker] + lots[Fallback]
OfHedges(lots) ==
    LET upTo[n \in 0..Target] == IF n = 0 THEN 0 ELSE lots[<<"HEDGE", n>>] + upTo[n - 1]
    IN upTo[Target]
Fills(orders) == [l \in Legs |-> orders[l].filled]

Exist(d, S)  == {l \in S : d.qty[l] > 0}
Open(d, S)   == {l \in Exist(d, S) : d.leg[l] \in NonTerminalLegStatuses}
Lesser(a, b) == IF a <= b THEN a ELSE b

Running(d)  == [d EXCEPT !.intent = "RUNNING"]
Recovery(d) == [d EXCEPT !.intent = "RECOVERY_REQUIRED", !.group = "manual_intervention"]
Send(d, command) == [d EXCEPT !.outbox = Append(@, command)]

(* enqueue_execution_leg                                                   *)
Enqueue(d, l, lots) ==
    Running(Send([d EXCEPT !.qty[l] = lots], Pending("SUBMIT", l)))

(* _maker_ttl_expired, _request_cancel                                     *)
(* A bug the runs must notice: cancelling what is over as well.            *)
CancelDueAlways(d) ==
    /\ d.order[Maker].status # "NONE"
    /\ d.order[Maker].status = "PENDING_CANCEL" \/ expired

CancelDue(d) ==
    /\ d.order[Maker].status # "NONE" /\ d.leg[Maker] \in NonTerminalLegStatuses
    /\ d.order[Maker].status = "PENDING_CANCEL" \/ expired

RequestCancel(d) ==
    IF d.order[Maker].status = "PENDING_CANCEL" THEN Running(d)
    ELSE Running(Send([d EXCEPT !.order[Maker].status = "PENDING_CANCEL",
                                   !.leg[Maker] = "SUBMITTED"],
                         Pending("CANCEL", Maker)))

(* What is left for the market order once no maker order is open.          *)
(* Bugs the runs must notice: all of it, or before the maker is over.      *)
UnfilledWhole(d) == Target - d.qty[Fallback]
FallbackDueEarly(d) ==
    MarketFallback /\ Target - OfMakers(Fills(d.order)) - d.qty[Fallback] > 0

Unfilled(d) == Target - OfMakers(Fills(d.order)) - d.qty[Fallback]
FallbackDue(d) == MarketFallback /\ Open(d, MakerLegs) = {} /\ Unfilled(d) > 0

Desired(d)  == Lesser(OfMakers(Fills(d.order)), Target)
(* A bug the runs must notice: hedges on their way are not counted.        *)
UnhedgedByFills(d) == Desired(d) - OfHedges(Fills(d.order))
Unhedged(d) == Desired(d) - OfHedges(d.qty)
NextHedge(d) == <<"HEDGE", Cardinality(Exist(d, HedgeLegs)) + 1>>

HedgeBroken(d) ==
    /\ \E l \in Exist(d, HedgeLegs) : d.leg[l] = "FAILED"
    /\ OfHedges(Fills(d.order)) < Desired(d)

(* _complete_maker_intent: m lots are matched by their hedge.              *)
Finish(d, m) ==
    LET whole == IF Kind = "OPEN" THEN "open" ELSE "closed"
        none  == IF Kind = "OPEN" THEN "failed" ELSE "open"
    IN IF d.finished THEN d
       ELSE [d EXCEPT !.finished = TRUE,
                      !.intent = IF m = 0 THEN "FAILED" ELSE "COMPLETED",
                      !.group = IF m = 0 THEN none
                                ELSE IF m = Target THEN whole ELSE "open_partial"]

(* A bug the runs must notice: the maker's fills decide alone.             *)
CompleteByMaker(d) == Finish(d, Desired(d))
Complete(d) == Finish(d, Lesser(Desired(d), OfHedges(Fills(d.order))))

(* _handle_failed_hedge: what the hedge will not cover is given back.      *)
(* A bug the runs must notice: asking for it is enough.                    *)
Unmatched(d) == OfMakers(Fills(d.order)) - OfHedges(Fills(d.order))
GivenBackOnRequest(d) == d.leg[Compensation] # "FAILED"
GivenBack(d) ==
    d.leg[Compensation] # "FAILED" /\ d.order[Compensation].filled >= Unmatched(d)

Unwind(d) ==
    IF ~AutoFlatten THEN Recovery(d)
    ELSE IF d.qty[Compensation] = 0 THEN Enqueue(d, Compensation, Unmatched(d))
    ELSE IF GivenBack(d) THEN Complete(d) ELSE Recovery(d)

(* A bug the runs must notice: a working order is as good as one that ended. *)
MakerDoneHasty(d) ==
    ~MarketFallback \/ OfMakers(Fills(d.order)) >= Target \/ OfMakers(d.qty) >= Target
MakerDone(d) ==
    /\ Open(d, MakerLegs) = {}
    /\ ~MarketFallback \/ OfMakers(Fills(d.order)) >= Target \/ OfMakers(d.qty) >= Target
HedgeDone(d) == Open(d, HedgeLegs) = {} /\ OfHedges(Fills(d.order)) >= Desired(d)

(* A claimed command i is done with; what comes next is one step: cancel,  *)
(* complete by a market order, hedge, give back or finish.                 *)
Acknowledged(d, i) ==
    [d EXCEPT !.outbox[i].status = IF @ = "PROCESSING" THEN "SENT" ELSE @]

Advance(before, i) ==
    LET d == Acknowledged(before, i) IN
    IF CancelDue(d) THEN RequestCancel(d)
    ELSE IF FallbackDue(d) THEN Enqueue(d, Fallback, Unfilled(d))
    ELSE IF Unhedged(d) > 0 THEN Enqueue(d, NextHedge(d), Unhedged(d))
    ELSE IF HedgeBroken(d) THEN Unwind(d)
    ELSE IF MakerDone(d) /\ HedgeDone(d) THEN Complete(d)
    ELSE Running(d)

(* enqueue_execution_leg raises for an intent that is over: the whole      *)
(* transaction is rolled back.                                             *)
AddsLeg(d) ==
    /\ ~CancelDue(d)
    /\ \/ FallbackDue(d) \/ Unhedged(d) > 0
       \/ HedgeBroken(d) /\ AutoFlatten /\ d.qty[Compensation] = 0
Raises(d) == d.intent \notin ActiveIntentStatuses /\ AddsLeg(d)

LastCommand(d) == Len(d.outbox)

-----------------------------------------------------------------------------
(* Transactions of the worker between two polls.                           *)

Answer(d, l, report) ==
    [d EXCEPT !.order[l] = GatewayOrder(@, report, d.qty[l]),
              !.leg[l] = GatewayLeg(d.order[l], report, d.qty[l])]

(* The reports on l, applied to its order and leg one after the other.     *)
Read(l) ==
    LET apply(row, report) == [order |-> EventOrder(row.order, report),
                               leg   |-> EventLeg(row.order, report)]
    IN FoldLeft(apply, [order |-> db.order[l], leg |-> db.leg[l]], queue[l])

(* project_venue_events_once: all reports, then the state machine, once,   *)
(* on the last command of the intent.  The reports have left the queue     *)
(* whether the transaction commits or not.                                 *)
Project ==
    LET seen == [db EXCEPT !.order = [l \in Legs |-> Read(l).order],
                           !.leg = [l \in Legs |-> Read(l).leg]]
    IN /\ Idle /\ \E l \in Legs : queue[l] # << >>
       /\ db' = IF Raises(seen) THEN db ELSE Advance(seen, LastCommand(db))
       /\ queue' = [l \in Legs |-> << >>]
       /\ UNCHANGED <<expired, world, online, ever, gap, worker, submitted, faults>>

(* advance_execution_timers_once                                           *)
Timer ==
    /\ Idle /\ db.intent = "RUNNING"
    /\ db' = Advance(db, LastCommand(db))
    /\ UNCHANGED <<expired, world, stream, gap, worker, submitted, faults>>

(* The repairs act on legs of which no order was ever recorded.  A bug the *)
(* runs must notice: without a look at the orders.                         *)
NotReported(l) == db.leg[l] = "PLANNED"
Untouched(l) == db.leg[l] = "PLANNED" /\ db.order[l].status = "NONE"

(* repair_stale_predispatch_intents_once                                   *)
RollBackStale ==
    /\ Idle
    /\ Kind = "CLOSE" /\ db.intent \in ActiveIntentStatuses
    /\ \A l \in Exist(db, Legs) : Untouched(l)
    /\ db' = [db EXCEPT !.outbox = [i \in DOMAIN @ |-> [@[i] EXCEPT !.status = "CANCELED"]],
                        !.intent = "FAILED",
                        !.group = IF @ = "closing" THEN "open" ELSE @]
    /\ UNCHANGED <<expired, world, stream, gap, worker, submitted, faults>>

(* repair_stale_unsent_outboxes_once                                       *)
RequeueUnsent(i) ==
    /\ Idle
    /\ db.outbox[i].status = "SENT" /\ db.intent \in {"RUNNING", "RECOVERY_REQUIRED"}
    /\ Untouched(db.outbox[i].leg)
    /\ db' = Running([db EXCEPT !.outbox[i].status = "PENDING"])
    /\ UNCHANGED <<expired, world, stream, gap, worker, submitted, faults>>

(* _outbox_for_leg: the last command of a leg.                             *)
OwnerOf(l) == CHOOSE i \in DOMAIN db.outbox :
    /\ db.outbox[i].leg = l
    /\ \A j \in DOMAIN db.outbox : db.outbox[j].leg = l => j <= i

Reconcilable ==
    {l \in Exist(db, Legs) : /\ db.order[l].status \in NonTerminalOrderStatuses
                             /\ db.outbox[OwnerOf(l)].status = "SENT"}

(* reconcile_execution_orders_once, the queries of the legs S being        *)
(* answered and the others failing.                                        *)
QueryOrders(S) ==
    LET answered ==
            [db EXCEPT !.order = [l \in Legs |->
                           IF l \in S THEN GatewayOrder(@[l], venue[l], db.qty[l]) ELSE @[l]],
                       !.leg = [l \in Legs |->
                           IF l \in S THEN GatewayLeg(db.order[l], venue[l], db.qty[l]) ELSE @[l]]]
    IN /\ S \subseteq {l \in Reconcilable : venue[l].status # "NONE"}
       /\ S # {} => db.intent \in {"RUNNING", "RECOVERY_REQUIRED"}
       /\ db' = IF S = {} THEN db ELSE Advance(answered, OwnerOf(CHOOSE l \in S : TRUE))

Start(S) ==
    /\ phase = "starting"
    /\ QueryOrders(S)
    /\ phase' = "ready"
    /\ UNCHANGED <<expired, world, stream, gap, fresh, stale, result, submitted, faults>>

Reconcile(S) ==
    /\ Idle /\ gap
    /\ gap' = FALSE
    /\ QueryOrders(S)
    /\ UNCHANGED <<expired, world, stream, worker, submitted, faults>>

-----------------------------------------------------------------------------
(* Commands.                                                               *)

RowsIn(status) == {i \in DOMAIN db.outbox : db.outbox[i].status = status}

(* _claim_outbox: all rows that are pending, and those rows P left in      *)
(* PROCESSING whose claim lease has run out.                               *)
Claim(P) ==
    /\ Idle /\ P \subseteq RowsIn("PROCESSING")
    /\ RowsIn("PENDING") \cup P # {}
    /\ fresh' = RowsIn("PENDING") /\ stale' = P
    /\ db' = [db EXCEPT !.outbox = [i \in DOMAIN @ |->
                  IF i \in fresh' THEN [@[i] EXCEPT !.status = "PROCESSING"] ELSE @[i]]]
    /\ UNCHANGED <<expired, world, stream, gap, phase, result, submitted, faults>>

(* The command at hand: claims are processed in the order of their ids.    *)
AtHand(i, claimed, kind) ==
    /\ i \in claimed /\ \A j \in fresh \cup stale : i <= j
    /\ db.outbox[i].kind = kind

(* The MT5 gate is closed: back to PENDING, nothing was sent.              *)
Defer(i) ==
    /\ phase = "ready" /\ AtHand(i, fresh, "SUBMIT")
    /\ db' = [db EXCEPT !.outbox[i].status = "PENDING"]
    /\ fresh' = fresh \ {i}
    /\ UNCHANGED <<expired, world, stream, gap, phase, stale, result, submitted, faults>>

(* The order id is on disk before the call leaves the process.             *)
Dispatch(i) ==
    /\ phase = "ready" /\ AtHand(i, fresh, "SUBMIT")
    /\ db' = Running([db EXCEPT !.order[db.outbox[i].leg].status =
                          IF @ = "NONE" THEN "INITIALIZED" ELSE @])
    /\ phase' = "sending"
    /\ UNCHANGED <<expired, world, stream, gap, fresh, stale, result, submitted, faults>>

(* What a venue may say of leg l.  A market order is over as soon as the   *)
(* venue has it; what it could not fill is cancelled.                      *)
Ended(q) == {[status |-> "FILLED", filled |-> q]}
            \cup {[status |-> "CANCELED", filled |-> f] : f \in 0..(q - 1)}
Resting(q) == {Noted("ACCEPTED")}
              \cup {[status |-> "PARTIALLY_FILLED", filled |-> f] : f \in 1..(q - 1)}
VenueReports(l) == Ended(db.qty[l]) \cup IF l = Maker THEN Resting(db.qty[l]) ELSE {}

Emit(l, report) ==
    queue' = IF VenueOf(l) \in online THEN [queue EXCEPT ![l] = Append(@, report)] ELSE queue

VenueMoves(l, report) ==
    /\ Len(queue[l]) < MaxUnread
    /\ venue' = [venue EXCEPT ![l] = report]
    /\ Emit(l, report)
    /\ UNCHANGED <<online, ever>>

(* One call of submit_order: answered, refused, or without an answer, the  *)
(* order being taken all the same or still on its way.                     *)
Submit(i) ==
    LET l == db.outbox[i].leg
    IN /\ phase = "sending" /\ AtHand(i, fresh, "SUBMIT")
       /\ submitted' = [submitted EXCEPT ![l] = @ + 1]
       /\ phase' = "sent"
       /\ \/ \E report \in VenueReports(l) :
                 /\ VenueMoves(l, report) /\ UNCHANGED wire
                 /\ result' \in {report, Noted("ACCEPTED"), Noted("UNKNOWN")}
          \/ /\ result' = Noted("REJECTED")
             /\ UNCHANGED <<world, stream>>
          \/ /\ result' = Noted("UNKNOWN")
             /\ wire' = wire \cup {l}
             /\ UNCHANGED <<venue, stream>>
       /\ unanswered' = unanswered + (IF result'.status = "UNKNOWN" THEN 1 ELSE 0)
       /\ unanswered' <= MaxUnanswered
       /\ UNCHANGED <<db, expired, gap, fresh, stale, crashes, drops>>

(* The end of _process_claim: an unknown result waits for a recovery-only  *)
(* claim, any other moves the state machine.                               *)
Record(i) ==
    LET l == db.outbox[i].leg
    IN /\ phase = "sent" /\ AtHand(i, fresh, "SUBMIT")
       /\ db' = IF result.status = "UNKNOWN"
                THEN [db EXCEPT !.order[l].status = "UNKNOWN", !.leg[l] = "UNKNOWN",
                                !.intent = "RECOVERY_REQUIRED"]
                ELSE Advance(Answer(db, l, result), i)
       /\ phase' = "ready" /\ fresh' = fresh \ {i}
       /\ result' = NoReport
       /\ UNCHANGED <<expired, world, stream, gap, stale, submitted, faults>>

(* A transaction that raises ends the poll: the claims left stay as they   *)
(* are, in PROCESSING.                                                     *)
AdvanceAfter(d, i) ==
    IF Raises(d) THEN db' = db /\ stale' = {} /\ fresh' = {}
    ELSE db' = Advance(d, i) /\ stale' = stale \ {i} /\ UNCHANGED fresh

(* _recover_without_resubmit of one leg: the query is answered, or the     *)
(* command fails; an order that is over is not queried.                    *)
Recover(i, answered) ==
    LET l == db.outbox[i].leg
        over == db.order[l].status \notin NonTerminalOrderStatuses \cup {"NONE"}
    IN /\ phase = "ready" /\ AtHand(i, stale, "SUBMIT")
       /\ answered => ~over /\ db.order[l].status # "NONE" /\ venue[l].status # "NONE"
       /\ IF over \/ answered
          THEN AdvanceAfter(IF over THEN db ELSE Answer(db, l, venue[l]), i)
          ELSE /\ db' = [db EXCEPT !.outbox[i].status = "FAILED", !.intent = "RECOVERY_REQUIRED"]
               /\ stale' = stale \ {i} /\ UNCHANGED fresh
       /\ UNCHANGED <<expired, world, stream, gap, phase, result, submitted, faults>>

(* _process_cancel_claim: the venue accepts the cancellation (some do so   *)
(* also for an order that is over), does not, or the call raises.          *)
CancelAccepted(i) ==
    /\ venue[Maker].status # "NONE"
    /\ db' = Running([db EXCEPT !.outbox[i].status = "SENT",
                                !.order[Maker].status = "PENDING_CANCEL"])
CancelRefused(i) ==
    db' = [db EXCEPT !.outbox[i].status = "FAILED", !.intent = "RECOVERY_REQUIRED"]
CancelRaises == db' = [db EXCEPT !.intent = "RECOVERY_REQUIRED"]

Cancel(i) ==
    /\ phase = "ready" /\ AtHand(i, fresh, "CANCEL")
    /\ CancelAccepted(i) \/ CancelRefused(i) \/ CancelRaises
    /\ fresh' = fresh \ {i}
    /\ UNCHANGED <<expired, world, stream, gap, phase, stale, result, submitted, faults>>

(* ... and after a crash or an exception only by a query.                  *)
RecoverCancel(i) ==
    /\ phase = "ready" /\ AtHand(i, stale, "CANCEL")
    /\ \/ CancelRaises /\ stale' = stale \ {i} /\ UNCHANGED fresh
       \/ /\ venue[Maker].status \in {"FILLED", "CANCELED"}
          /\ AdvanceAfter([Answer(db, Maker, venue[Maker]) EXCEPT !.outbox[i].status = "SENT"], i)
    /\ UNCHANGED <<expired, world, stream, gap, phase, result, submitted, faults>>

-----------------------------------------------------------------------------
(* Time, venues, streams and the process.                                  *)

TimeToLiveEnds ==
    /\ ~expired /\ expired' = TRUE
    /\ UNCHANGED <<db, world, stream, gap, worker, submitted, faults>>

VenueProgress ==
    /\ venue[Maker].status \in {"ACCEPTED", "PARTIALLY_FILLED"}
    /\ \E r \in VenueReports(Maker) :
           /\ IF r.status = "CANCELED" THEN r.filled = venue[Maker].filled
                                       ELSE r.filled > venue[Maker].filled
           /\ VenueMoves(Maker, r)
    /\ UNCHANGED <<db, expired, wire, gap, worker, submitted, faults>>

Arrive(l) ==
    /\ l \in wire
    /\ wire' = wire \ {l}
    /\ \E r \in VenueReports(l) : VenueMoves(l, r)
    /\ UNCHANGED <<db, expired, gap, worker, submitted, faults>>

Disconnect(v) ==
    /\ v \in online /\ drops < MaxDrops
    /\ online' = online \ {v}
    /\ drops' = drops + 1
    /\ UNCHANGED <<db, expired, world, queue, ever, gap, worker, submitted, crashes, unanswered>>

Connect(v) ==
    /\ v \notin online
    /\ online' = online \cup {v} /\ ever' = ever \cup {v}
    /\ gap' = (gap \/ v \in ever)
    /\ UNCHANGED <<db, expired, world, queue, worker, submitted, faults>>

Crash ==
    /\ phase # "starting" /\ crashes < MaxCrashes
    /\ crashes' = crashes + 1
    /\ phase' = "starting"
    /\ fresh' = {} /\ stale' = {} /\ result' = NoReport
    /\ queue' = [l \in Legs |-> << >>]
    /\ online' = {} /\ ever' = {} /\ gap' = FALSE
    /\ UNCHANGED <<db, expired, world, submitted, drops, unanswered>>

-----------------------------------------------------------------------------
Commands == DOMAIN db.outbox

ProcessClaim(i) ==
    \/ Defer(i) \/ Dispatch(i) \/ Submit(i) \/ Record(i)
    \/ \E answered \in BOOLEAN : Recover(i, answered)
    \/ Cancel(i) \/ RecoverCancel(i)

Next ==
    \/ \E l \in Legs : Arrive(l)
    \/ VenueProgress \/ Project \/ Timer \/ RollBackStale \/ TimeToLiveEnds
    \/ \E i \in Commands : RequeueUnsent(i) \/ ProcessClaim(i)
    \/ \E P \in SUBSET Commands : Claim(P)
    \/ \E S \in SUBSET Legs : Start(S) \/ Reconcile(S)
    \/ \E v \in Venues : Connect(v) \/ Disconnect(v)
    \/ Crash

Spec == Init /\ [][Next]_vars

Fairness ==
    /\ WF_vars(Timer) /\ WF_vars(TimeToLiveEnds)
    /\ WF_vars(\E S \in SUBSET Legs : Start(S))
    /\ SF_vars(\E S \in SUBSET Legs : Reconcile(S))
    /\ SF_vars(Project)
    /\ SF_vars(\E P \in SUBSET Commands : Claim(P))
    /\ WF_vars(\E i \in Commands : ProcessClaim(i))
    /\ \A v \in Venues : WF_vars(Connect(v))

FairSpec == Spec /\ Fairness

-----------------------------------------------------------------------------
(* Correctness.                                                            *)

MayStillFill(l) == venue[l].status \in {"ACCEPTED", "PARTIALLY_FILLED"} \/ l \in wire
Over(status) == status \in {"COMPLETED", "FAILED"}

(* Crashes, unanswered submissions, recovery claims and the requeueing of  *)
(* commands the timer acknowledged too early never send a leg twice        *)
(* (_process_claim, repair_stale_unsent_outboxes_once).                    *)
SubmittedOnce == \A l \in Legs : submitted[l] <= 1

(* The hedges asked for, sent or not, never exceed what the maker venue    *)
(* has filled: increments are computed from what is asked (_enqueue_hedge),*)
(* while answers, events and queries of the maker order overtake each      *)
(* other.                                                                  *)
HedgeFollowsMaker == OfHedges(db.qty) <= OfMakers(Fills(venue))

(* The market order exists only after the maker order has ended at its     *)
(* venue; an accepted cancellation is not that (maker_state.py docstring). *)
FallbackAfterMaker == db.qty[Fallback] > 0 => ~MayStillFill(Maker)

(* Maker and market order together never buy more than the target, though  *)
(* fills arrive while the cancellation is under way (_enqueue_fallback).   *)
NoOverfill == OfMakers(Fills(venue)) <= Target

(* An intent that is over has each maker lot it knows of hedged or given   *)
(* back; and unless something was given back, it leaves nothing at the     *)
(* venues: no order that may still fill, and no lot without its hedge      *)
(* (_complete_maker_intent).  When something was given back, the maker     *)
(* order may be working still: _handle_failed_hedge does not ask.          *)
OverMeansMatched ==
    Over(db.intent) =>
        /\ OfMakers(Fills(db.order)) - db.order[Compensation].filled <= OfHedges(Fills(db.order))
        /\ db.qty[Compensation] = 0 =>
               /\ \A l \in Legs : ~MayStillFill(l)
               /\ OfMakers(Fills(venue)) = OfHedges(Fills(venue))

(* A group is reported open (or closed) as a whole only when the hedge     *)
(* venue has filled the whole hedge (_complete_maker_intent).              *)
WholeMeansWhole ==
    db.finished /\ db.group \in {"open", "closed"} /\ db.intent = "COMPLETED" =>
        OfHedges(Fills(venue)) = Target

(* What the streams report as filled is on disk when the worker has read   *)
(* it: no transaction with a fill is rolled back because the intent was    *)
(* over too early (enqueue_execution_leg raises), unless it was ended by   *)
(* giving back, see OverMeansMatched.                                      *)
FillsAreRecorded ==
    [][phase' # "starting" /\ db.qty[Compensation] = 0 =>
           \A l \in Legs : queue[l] # << >> /\ queue'[l] = << >> =>
               db'.order[l].filled >= Last(queue[l]).filled]_vars

(* Each lot the maker is known to have filled is given a hedge, or to an   *)
(* operator (maker_state.py docstring).  Holds when the maker order cannot *)
(* end partly filled, see README.                                          *)
FillsAreHedged ==
    \A n \in 1..Target :
        OfMakers(Fills(db.order)) >= n ~>
            OfHedges(db.qty) >= n \/ db.intent = "RECOVERY_REQUIRED"

-----------------------------------------------------------------------------
(* What the code's texts say and the code does not always do.              *)

(* An intent that failed has no order left that may still fill: it         *)
(* "established no exposure" (_complete_maker_intent).                     *)
FailedMeansOver == db.intent = "FAILED" => \A l \in Legs : ~MayStillFill(l)
=============================================================================
