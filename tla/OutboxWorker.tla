---------------------------- MODULE OutboxWorker ----------------------------
(***************************************************************************)
(* The reliable execution protocol of CrossHedge: the single execution     *)
(* worker (execution/worker_main.py, execution/outbox_worker.py), the      *)
(* database rows it drives, the in-memory queue of private stream events   *)
(* (execution/venue_events.py) and, as its environment, the venues.        *)
(*                                                                         *)
(* An ExecutionIntent has one ExecutionOutbox row and one ExecutionLeg per *)
(* leg key; every leg gets one VenueOrder whose ClientOrderId is derived   *)
(* from the leg, so the VenueOrder of a leg stands for that id.  A step is *)
(* one database transaction of the worker, one call to a venue, one step   *)
(* of a venue, or a failure.  Time is abstracted: any delay (30 s claim    *)
(* lease, 300 s repair age, MT5 back-off) may pass between two steps.      *)
(***************************************************************************)
EXTENDS ExecutionStatus, FiniteSets, Sequences

CONSTANTS
    Intents,        \* ids of the execution intents, in creation order
    LegKeys,        \* leg keys; each leg trades on a venue of its own
    Mt5Keys,        \* the leg keys whose venue is MT5
    Groups,         \* hedge groups
    Kind,           \* intent |-> "OPEN", "CLOSE" or "RECOVER"
    GroupOf,        \* intent |-> its hedge group
    Lots,           \* largest quantity of a leg
    Plans,          \* the quantities a coordinator may ask for, per leg key
    LegacySent,     \* intents an earlier version may have marked SENT unsent
    LegacyRefused,  \* MT5 legs it may have recorded UNKNOWN for code 10018
    MaxCrashes,     \* bound: crashes of the worker process
    MaxDrops        \* bound: disconnections of private streams

Legs == Intents \X LegKeys

ASSUME ConstantsAssumption ==
    /\ Intents \subseteq Nat /\ IsFiniteSet(Intents)
    /\ Mt5Keys \subseteq LegKeys
    /\ Kind \in [Intents -> IntentKind]
    /\ GroupOf \in [Intents -> Groups]
    /\ Lots \in Nat \ {0}
    /\ Plans \subseteq [LegKeys -> 0..Lots]
    /\ LegacySent \subseteq Intents
    /\ LegacyRefused \subseteq Intents \X Mt5Keys
    /\ MaxCrashes \in Nat /\ MaxDrops \in Nat

VARIABLES
    intent,     \* ExecutionIntent.status
    outbox,     \* ExecutionOutbox.status
    leg,        \* ExecutionLeg.status
    order,      \* VenueOrder: status (NONE: no row) and filled_quantity
    logged,     \* legs with an ExecutionEvent row
    group,      \* HedgeGroup.status
    prev,       \* previous_group_status in the outbox payload
    refusals,   \* legs with a refusal (10018) logged as an unknown result
    plan,       \* ExecutionLeg.venue_order_quantity; 0: the leg does not exist
    venue,      \* the order as the venue has it
    wire,       \* submissions that timed out and may still reach the venue
    queue,      \* reports of the private streams the worker has not read yet
    online,     \* leg keys whose private stream is connected
    ever,       \* ... was connected before, in this process
    gap,        \* the reconciliation request flag
    phase,      \* where the worker process is
    fresh,      \* claimed outboxes that were PENDING
    stale,      \* claimed outboxes that were PROCESSING (recovery_only)
    sending,    \* legs whose submit call has not returned
    result,     \* what the submit calls returned
    submitted,  \* history: number of submit calls per leg
    asked,      \* history: legs whose order was queried by its stable id
    crashes, drops

rows    == <<intent, outbox, leg, order, logged, group>>
command == <<prev, refusals, plan>>
world   == <<venue, wire>>
stream  == <<queue, online, ever>>
worker  == <<phase, fresh, stale, sending, result>>
history == <<submitted, asked>>
faults  == <<crashes, drops>>
vars    == <<rows, command, world, stream, gap, worker, history, faults>>

(* A VenueOrder row, an order at its venue, and what a venue reports.       *)
OrderRow == [status : OrderStatus, filled : 0..Lots]
VenueRow == [status : VenueStatus, filled : 0..Lots]
Report   == [status : VenueStatus \ {"NONE"}, filled : 0..Lots]

NoReport == [status |-> "NONE", filled |-> 0]
Unknown  == [status |-> "UNKNOWN", filled |-> 0]
Rejected == [status |-> "REJECTED", filled |-> 0]

LegsOf(i)    == {l \in Legs : l[1] = i /\ plan[l] > 0}
IntentsOf(g) == {i \in Intents : GroupOf[i] = g}
Latest(S)    == CHOOSE i \in S : \A j \in S : j <= i

(* What a venue may say of an order of quantity q.                         *)
VenueReports(q) ==
    {[status |-> "ACCEPTED", filled |-> 0], [status |-> "FILLED", filled |-> q]}
    \cup {[status |-> "PARTIALLY_FILLED", filled |-> f] : f \in 1..(q - 1)}
    \cup {[status |-> "CANCELED", filled |-> f] : f \in 0..(q - 1)}

WorkingAtVenue(l) == venue[l].status \in {"ACCEPTED", "PARTIALLY_FILLED"}

TypeOK ==
    /\ intent \in [Intents -> IntentStatus]
    /\ outbox \in [Intents -> OutboxStatus]
    /\ leg \in [Legs -> LegStatus]
    /\ order \in [Legs -> OrderRow]
    /\ logged \subseteq Legs
    /\ group \in [Groups -> GroupStatus]
    /\ prev \in [Intents -> GroupStatus]
    /\ refusals \subseteq Legs
    /\ plan \in [Legs -> 0..Lots]
    /\ venue \in [Legs -> VenueRow]
    /\ wire \subseteq Legs
    /\ queue \in [Legs -> Seq(Report)]
    /\ online \subseteq LegKeys /\ ever \subseteq LegKeys
    /\ gap \in BOOLEAN
    /\ phase \in {"starting", "ready", "dispatching"}
    /\ fresh \subseteq Intents /\ stale \subseteq Intents
    /\ sending \subseteq Legs
    /\ result \in [Legs -> OrderRow]
    /\ submitted \in [Legs -> Nat]
    /\ asked \subseteq Legs
    /\ crashes \in 0..MaxCrashes /\ drops \in 0..MaxDrops

Init ==
    /\ intent = [i \in Intents |-> "ABSENT"]
    /\ outbox = [i \in Intents |-> "ABSENT"]
    /\ leg = [l \in Legs |-> "PLANNED"]
    /\ order = [l \in Legs |-> NoReport]
    /\ logged = {}
    /\ group = [g \in Groups |-> "absent"]
    /\ prev = [i \in Intents |-> "absent"]
    /\ refusals = {}
    /\ plan = [l \in Legs |-> 0]
    /\ venue = [l \in Legs |-> NoReport]
    /\ wire = {}
    /\ queue = [l \in Legs |-> << >>]
    /\ online = {} /\ ever = {}
    /\ gap = FALSE
    /\ phase = "starting"
    /\ fresh = {} /\ stale = {}
    /\ sending = {}
    /\ result = [l \in Legs |-> NoReport]
    /\ submitted = [l \in Legs |-> 0]
    /\ asked = {}
    /\ crashes = 0 /\ drops = 0

(* Between two polls of its loop the worker is free to project events, to  *)
(* repair, to reconcile and to claim.                                      *)
Idle == phase = "ready" /\ fresh = {} /\ stale = {}

-----------------------------------------------------------------------------
(* Projections shared by the transactions below.                           *)

(* _apply_gateway_result for every leg of S, answered by the reports r.    *)
AppliedOrder(S, r) ==
    [l \in Legs |-> IF l \in S THEN GatewayOrder(order[l], r[l], plan[l]) ELSE order[l]]
AppliedLeg(S, r) ==
    [l \in Legs |-> IF l \in S THEN GatewayLeg(order[l], r[l], plan[l]) ELSE leg[l]]

(* _finish_command and _project_hedge_group_state for the intents T, given *)
(* the legs of the transaction and the orders the database can see.        *)
FinishCommand(T, newLeg, visible) ==
    LET statuses(i)  == {newLeg[l] : l \in LegsOf(i)}
        filledAny(i) == \E l \in LegsOf(i) : visible[l].filled > 0
        touched(g)   == T \cap IntentsOf(g)
        verdict(i)   == GroupVerdict(Kind[i], statuses(i), filledAny(i), prev[i])
    IN /\ outbox' = [i \in Intents |-> IF i \in T THEN "SENT" ELSE outbox[i]]
       /\ intent' = [i \in Intents |-> IF i \in T THEN IntentVerdict(statuses(i))
                                       ELSE intent[i]]
       /\ group' = [g \in Groups |-> IF touched(g) = {} THEN group[g]
                                     ELSE verdict(Latest(touched(g)))]

-----------------------------------------------------------------------------
(* Intents arrive from the API process, in a transaction of its own.       *)

(* create_open_intent: a new group; create_close_intent: a group that      *)
(* stands open and has no active intent.                                   *)
MayCreate(i) ==
    /\ intent[i] = "ABSENT"
    /\ \A j \in Intents : j < i => intent[j] # "ABSENT"
    /\ \/ Kind[i] = "OPEN" /\ group[GroupOf[i]] = "absent"
       \/ /\ Kind[i] = "CLOSE" /\ group[GroupOf[i]] \in {"open", "open_partial"}
          /\ \A j \in IntentsOf(GroupOf[i]) : intent[j] \notin ActiveIntentStatuses

Planned(i, q) == [l \in Legs |-> IF l[1] = i THEN q[l[2]] ELSE plan[l]]

WriteIntent(i, q, intentStatus, outboxStatus) ==
    /\ MayCreate(i)
    /\ \E k \in LegKeys : q[k] > 0
    /\ plan' = Planned(i, q)
    /\ prev' = [prev EXCEPT ![i] = group[GroupOf[i]]]
    /\ intent' = [intent EXCEPT ![i] = intentStatus]
    /\ outbox' = [outbox EXCEPT ![i] = outboxStatus]
    /\ group' = [group EXCEPT ![GroupOf[i]] = IF Kind[i] = "OPEN" THEN "opening" ELSE "closing"]
    /\ UNCHANGED <<queue, online, ever, gap, worker, asked, faults>>

CreateIntent(i, q) ==
    /\ WriteIntent(i, q, "CREATED", "PENDING")
    /\ UNCHANGED <<refusals, leg, order, logged, venue, wire, submitted>>

(* Rows an earlier version of the worker left behind, found at start: a    *)
(* command marked SENT whose legs were never dispatched, ...               *)
InheritUnsent(i, q) ==
    /\ phase = "starting" /\ i \in LegacySent
    /\ WriteIntent(i, q, "RUNNING", "SENT")
    /\ UNCHANGED <<refusals, leg, order, logged, venue, wire, submitted>>

(* ... and a refusal by a closed MT5 market recorded as an unknown result, *)
(* the other legs of the intent being filled.                              *)
InheritRefused(i, q) ==
    LET refused(l) == l \in LegacyRefused
        mine(l)    == l[1] = i /\ q[l[2]] > 0
        full(l)    == [status |-> "FILLED", filled |-> q[l[2]]]
    IN /\ phase = "starting" /\ \E k \in LegKeys : refused(<<i, k>>) /\ q[k] > 0
       /\ WriteIntent(i, q, "RECOVERY_REQUIRED", "PROCESSING")
       /\ leg' = [l \in Legs |-> IF ~mine(l) THEN leg[l]
                                 ELSE IF refused(l) THEN "UNKNOWN" ELSE "FILLED"]
       /\ order' = [l \in Legs |-> IF ~mine(l) THEN order[l]
                                   ELSE IF refused(l) THEN Unknown ELSE full(l)]
       /\ venue' = [l \in Legs |-> IF mine(l) /\ ~refused(l) THEN full(l) ELSE venue[l]]
       /\ submitted' = [l \in Legs |-> IF mine(l) THEN 1 ELSE submitted[l]]
       /\ logged' = logged \cup {l \in Legs : mine(l)}
       /\ refusals' = refusals \cup {l \in Legs : mine(l) /\ refused(l)}
       /\ UNCHANGED wire

-----------------------------------------------------------------------------
(* Repairs, once a minute at the head of the worker loop.                  *)

(* A bug the runs must notice: the status of the legs alone is looked at.  *)
NeverReported(i) == \A l \in LegsOf(i) : leg[l] = "PLANNED"

NeverDispatched(i) ==
    \A l \in LegsOf(i) : leg[l] = "PLANNED" /\ order[l].status = "NONE" /\ l \notin logged

(* repair_stale_predispatch_intents_once                                   *)
RollBackStale(i) ==
    /\ Idle
    /\ Kind[i] = "CLOSE" /\ intent[i] \in ActiveIntentStatuses
    /\ NeverDispatched(i)
    /\ outbox' = [outbox EXCEPT ![i] = "CANCELED"]
    /\ intent' = [intent EXCEPT ![i] = "FAILED"]
    /\ group' = [group EXCEPT ![GroupOf[i]] =
                    IF @ = "closing"
                    THEN IF prev[i] \in {"open", "open_partial"} THEN prev[i] ELSE "open"
                    ELSE @]
    /\ UNCHANGED <<leg, order, logged, command, world, stream, gap, worker, history, faults>>

(* A bug the runs must notice: any command without a report is sent again. *)
RequeueUnreported(i) ==
    /\ Idle
    /\ outbox[i] \in {"PROCESSING", "SENT", "FAILED"} /\ NeverReported(i)
    /\ outbox' = [outbox EXCEPT ![i] = "PENDING"]
    /\ intent' = [intent EXCEPT ![i] = "RUNNING"]
    /\ UNCHANGED <<leg, order, logged, group, command, world, stream, gap, worker, history, faults>>

(* repair_stale_unsent_outboxes_once                                       *)
RequeueUnsent(i) ==
    /\ Idle
    /\ outbox[i] = "SENT" /\ intent[i] \in {"RUNNING", "RECOVERY_REQUIRED"}
    /\ NeverDispatched(i)
    /\ outbox' = [outbox EXCEPT ![i] = "PENDING"]
    /\ intent' = [intent EXCEPT ![i] = "RUNNING"]
    /\ UNCHANGED <<leg, order, logged, group, command, world, stream, gap, worker, history, faults>>

-----------------------------------------------------------------------------
(* Claiming and dispatching.                                               *)

(* Bugs the runs must notice: a row left in PROCESSING is dispatched like a *)
(* new one, or is never looked at again.                                   *)
ClaimAgain(F, P) ==
    /\ Idle /\ F \cup P # {}
    /\ \A i \in F \cup P : outbox[i] \in {"PENDING", "PROCESSING"}
    /\ outbox' = [i \in Intents |-> IF i \in F \cup P THEN "PROCESSING" ELSE outbox[i]]
    /\ fresh' = F \cup P /\ stale' = {}
    /\ UNCHANGED <<intent, leg, order, logged, group, command, world, stream, gap,
                   phase, sending, result, history, faults>>
ClaimPendingOnly(F, P) ==
    /\ Idle /\ F # {} /\ P = {}
    /\ \A i \in F : outbox[i] = "PENDING"
    /\ outbox' = [i \in Intents |-> IF i \in F THEN "PROCESSING" ELSE outbox[i]]
    /\ fresh' = F /\ stale' = {}
    /\ UNCHANGED <<intent, leg, order, logged, group, command, world, stream, gap,
                   phase, sending, result, history, faults>>

(* _claim_outbox: the rows that are due, F of them pending and P of them   *)
(* left in PROCESSING for longer than the claim lease.                     *)
Claim(F, P) ==
    /\ Idle /\ F \cup P # {}
    /\ \A i \in F : outbox[i] = "PENDING"
    /\ \A i \in P : outbox[i] = "PROCESSING"
    /\ outbox' = [i \in Intents |-> IF i \in F THEN "PROCESSING" ELSE outbox[i]]
    /\ fresh' = F /\ stale' = P
    /\ UNCHANGED <<intent, leg, order, logged, group, command, world, stream, gap,
                   phase, sending, result, history, faults>>

(* Claims are processed one at a time, in the order of their ids.          *)
NextClaim(i) ==
    /\ phase = "ready" /\ i \in fresh \cup stale
    /\ \A j \in fresh \cup stale : i <= j

(* _process_claim, MT5 gate closed: back to PENDING, nothing was sent.     *)
DeferClaim(i) ==
    /\ NextClaim(i) /\ i \in fresh
    /\ Mt5Keys # {}
    /\ outbox' = [outbox EXCEPT ![i] = "PENDING"]
    /\ fresh' = fresh \ {i}
    /\ UNCHANGED <<intent, leg, order, logged, group, command, world, stream, gap,
                   phase, stale, sending, result, history, faults>>

(* A bug the runs must notice: the calls leave before the ids are on disk. *)
DispatchUnrecorded(i) ==
    /\ NextClaim(i) /\ i \in fresh
    /\ intent' = [intent EXCEPT ![i] = "RUNNING"]
    /\ phase' = "dispatching"
    /\ sending' = LegsOf(i)
    /\ UNCHANGED <<order, outbox, leg, logged, group, command, world, stream, gap,
                   fresh, stale, result, history, faults>>

(* _process_claim up to its first commit: the VenueOrder rows, and with    *)
(* them the ids, are on disk before any call leaves the process.           *)
Dispatch(i) ==
    /\ NextClaim(i) /\ i \in fresh
    /\ intent' = [intent EXCEPT ![i] = "RUNNING"]
    /\ order' = [l \in Legs |-> IF l \in LegsOf(i) /\ order[l].status = "NONE"
                                THEN [status |-> "INITIALIZED", filled |-> 0]
                                ELSE order[l]]
    /\ phase' = "dispatching"
    /\ sending' = LegsOf(i)
    /\ UNCHANGED <<outbox, leg, logged, group, command, world, stream, gap,
                   fresh, stale, result, history, faults>>

(* The private stream carries a report only while it is connected.         *)
Emit(l, report) ==
    queue' = IF l[2] \in online THEN [queue EXCEPT ![l] = Append(@, report)] ELSE queue

Answered(l, report) ==
    /\ l \in sending
    /\ sending' = sending \ {l}
    /\ result' = [result EXCEPT ![l] = report]
    /\ submitted' = [submitted EXCEPT ![l] = @ + 1]
    /\ UNCHANGED <<rows, command, online, ever, gap, phase, fresh, stale, asked, faults>>

(* _submit_dispatch_command in its thread: the venue takes the order and   *)
(* answers, ...                                                            *)
SubmitAcknowledged(l) ==
    \E r \in VenueReports(plan[l]) :
        /\ Answered(l, r)
        /\ venue' = [venue EXCEPT ![l] = r]
        /\ Emit(l, r)
        /\ UNCHANGED wire

(* ... refuses it (or the connector does, before the call), ...            *)
SubmitRejected(l) ==
    /\ Answered(l, Rejected)
    /\ UNCHANGED <<venue, wire, queue>>

(* ... takes it while the answer is lost, ...                              *)
SubmitAnswerLost(l) ==
    \E r \in VenueReports(plan[l]) :
        /\ Answered(l, Unknown)
        /\ venue' = [venue EXCEPT ![l] = r]
        /\ Emit(l, r)
        /\ UNCHANGED wire

(* ... or the call times out before it, perhaps for ever.                  *)
SubmitTimesOut(l) ==
    /\ Answered(l, Unknown)
    /\ wire' = wire \cup {l}
    /\ UNCHANGED <<venue, queue>>

Submit(l) ==
    \/ SubmitAcknowledged(l)
    \/ SubmitRejected(l)
    \/ SubmitAnswerLost(l)
    \/ SubmitTimesOut(l)

(* _process_claim after the thread pool: results applied in one            *)
(* transaction; with an unknown result the outbox stays PROCESSING, for a  *)
(* later recovery-only claim.                                              *)
RecordResults(i) ==
    LET returned == LegsOf(i)
        unknown  == {l \in returned : result[l].status = "UNKNOWN"}
        known    == returned \ unknown
        newOrder == [l \in Legs |-> IF l \in unknown THEN [order[l] EXCEPT !.status = "UNKNOWN"]
                                    ELSE AppliedOrder(known, result)[l]]
        newLeg   == [l \in Legs |-> IF l \in unknown THEN "UNKNOWN"
                                    ELSE AppliedLeg(known, result)[l]]
    IN /\ phase = "dispatching" /\ sending = {}
       /\ i \in fresh /\ \A j \in fresh \cup stale : i <= j
       /\ order' = newOrder /\ leg' = newLeg
       /\ logged' = logged \cup returned
       /\ IF unknown # {}
          THEN /\ outbox' = [outbox EXCEPT ![i] = "PROCESSING"]
               /\ intent' = [intent EXCEPT ![i] = "RECOVERY_REQUIRED"]
               /\ UNCHANGED group
          ELSE FinishCommand({i}, newLeg, newOrder)
       /\ phase' = "ready" /\ fresh' = fresh \ {i}
       /\ result' = [l \in Legs |-> NoReport]
       /\ UNCHANGED <<command, world, stream, gap, stale, sending, history, faults>>

(* _recover_without_resubmit: the answers of get_order for the legs of S;  *)
(* an order without an answer, or without an id, leaves the command FAILED.*)
(* Nothing is flushed before the projection, so that the database still    *)
(* shows the orders as they were.                                          *)
Recover(i, S) ==
    LET open     == {l \in LegsOf(i) : order[l].status \in NonTerminalOrderStatuses}
        missing  == {l \in LegsOf(i) : order[l].status = "NONE"}
        refused  == {l \in open \cap refusals : order[l].filled = 0}
        applied  == S \cup refused
        reports  == [l \in Legs |-> IF l \in refused THEN Rejected ELSE venue[l]]
        newLeg   == AppliedLeg(applied, reports)
    IN /\ NextClaim(i) /\ i \in stale
       /\ S \subseteq {l \in open \ refused : venue[l].status # "NONE"}
       /\ stale' = stale \ {i}
       /\ leg' = newLeg
       /\ order' = AppliedOrder(applied, reports)
       /\ logged' = logged \cup applied
       /\ asked' = asked \cup (open \ refused)
       /\ IF missing = {} /\ open \subseteq applied
          THEN FinishCommand({i}, newLeg, order)
          ELSE /\ outbox' = [outbox EXCEPT ![i] = "FAILED"]
               /\ intent' = [intent EXCEPT ![i] = "RECOVERY_REQUIRED"]
               /\ UNCHANGED group
       /\ UNCHANGED <<command, world, stream, gap, phase, fresh, sending, result, submitted, faults>>

-----------------------------------------------------------------------------
(* Confirmation: private stream events, and the compensating query.        *)

(* project_venue_events_once for one order event.  A batch of events has   *)
(* the effect of its events one by one: the intent and its group are       *)
(* recomputed from the leg statuses.                                       *)
Project(l) ==
    /\ Idle /\ queue[l] # << >>
    /\ LET report == Head(queue[l])
           newOrder == [order EXCEPT ![l] = EventOrder(@, report)]
           newLeg   == [leg EXCEPT ![l] = EventLeg(order[l], report)]
       IN /\ order' = newOrder /\ leg' = newLeg
          /\ FinishCommand({l[1]}, newLeg, newOrder)
    /\ queue' = [queue EXCEPT ![l] = Tail(@)]
    /\ logged' = logged \cup {l}
    /\ UNCHANGED <<command, world, online, ever, gap, worker, history, faults>>

Reconcilable ==
    {l \in Legs : /\ order[l].status \in NonTerminalOrderStatuses
                  /\ intent[l[1]] \in {"RUNNING", "RECOVERY_REQUIRED"}
                  /\ outbox[l[1]] = "SENT"}

(* reconcile_execution_orders_once, the queries of the legs S being        *)
(* answered and the others failing.                                        *)
QueryOrders(S) ==
    LET newLeg == AppliedLeg(S, venue)
        newOrder == AppliedOrder(S, venue)
    IN /\ S \subseteq {l \in Reconcilable : venue[l].status # "NONE"}
       /\ order' = newOrder /\ leg' = newLeg
       /\ logged' = logged \cup S
       /\ asked' = asked \cup Reconcilable
       /\ FinishCommand({l[1] : l \in S}, newLeg, newOrder)

(* The worker start: recovery comes before the first claim.                *)
Start(S) ==
    /\ phase = "starting"
    /\ QueryOrders(S)
    /\ phase' = "ready"
    /\ UNCHANGED <<command, world, stream, gap, fresh, stale, sending, result, submitted, faults>>

(* After a reconnection: the request is consumed before the queries.       *)
Reconcile(S) ==
    /\ Idle /\ gap
    /\ gap' = FALSE
    /\ QueryOrders(S)
    /\ UNCHANGED <<command, world, stream, worker, submitted, faults>>

-----------------------------------------------------------------------------
(* Venues, private streams and the process.                                *)

VenueMoves(l, r) ==
    /\ venue' = [venue EXCEPT ![l] = r]
    /\ Emit(l, r)
    /\ UNCHANGED <<rows, command, online, ever, gap, worker, history, faults>>

VenueProgress(l) ==
    /\ WorkingAtVenue(l)
    /\ \E r \in VenueReports(plan[l]) :
           /\ r.status # "ACCEPTED"
           /\ IF r.status = "CANCELED" THEN r.filled = venue[l].filled
                                       ELSE r.filled > venue[l].filled
           /\ VenueMoves(l, r)
    /\ UNCHANGED wire

Arrive(l) ==
    /\ l \in wire
    /\ wire' = wire \ {l}
    /\ \E r \in VenueReports(plan[l]) : VenueMoves(l, r)

Disconnect(k) ==
    /\ k \in online /\ drops < MaxDrops
    /\ online' = online \ {k}
    /\ drops' = drops + 1
    /\ UNCHANGED <<rows, command, world, queue, ever, gap, worker, history, crashes>>

(* The private loop of a venue asks for reconciliation when it comes back, *)
(* not on the first connection of the process.                             *)
Connect(k) ==
    /\ k \notin online
    /\ online' = online \cup {k}
    /\ ever' = ever \cup {k}
    /\ gap' = (gap \/ k \in ever)
    /\ UNCHANGED <<rows, command, world, queue, worker, history, faults>>

(* Everything in memory is lost; a call on its way may still arrive.       *)
Crash ==
    /\ phase # "starting" /\ crashes < MaxCrashes
    /\ crashes' = crashes + 1
    /\ phase' = "starting"
    /\ fresh' = {} /\ stale' = {} /\ sending' = {}
    /\ result' = [l \in Legs |-> NoReport]
    /\ queue' = [l \in Legs |-> << >>]
    /\ online' = {} /\ ever' = {} /\ gap' = FALSE
    /\ UNCHANGED <<rows, command, world, history, drops>>

-----------------------------------------------------------------------------
ProcessClaim(i) ==
    \/ DeferClaim(i)
    \/ Dispatch(i)
    \/ RecordResults(i)
    \/ \E S \in SUBSET LegsOf(i) : Recover(i, S)

WorkerStep ==
    \/ \E i \in Intents : RollBackStale(i) \/ RequeueUnsent(i) \/ ProcessClaim(i)
    \/ \E F, P \in SUBSET Intents : Claim(F, P)
    \/ \E l \in Legs : Submit(l) \/ Project(l)
    \/ \E S \in SUBSET Legs : Start(S) \/ Reconcile(S)

Environment ==
    \/ \E i \in Intents, q \in Plans :
           CreateIntent(i, q) \/ InheritUnsent(i, q) \/ InheritRefused(i, q)
    \/ \E l \in Legs : VenueProgress(l) \/ Arrive(l)
    \/ \E k \in LegKeys : Connect(k) \/ Disconnect(k)

Next == WorkerStep \/ Environment \/ Crash

Spec == Init /\ [][Next]_vars

(* Every iteration of the worker loop drains the event queue, honours the  *)
(* reconciliation flag and claims whatever is due, and comes to its end:   *)
(* calls to venues have time-outs.  Streams reconnect with a back-off.     *)
Fairness ==
    /\ WF_vars(\E S \in SUBSET Legs : Start(S))
    /\ SF_vars(\E S \in SUBSET Legs : Reconcile(S))
    /\ \A l \in Legs : WF_vars(Submit(l)) /\ SF_vars(Project(l))
    /\ \A i \in Intents :
        /\ SF_vars(\E F, P \in SUBSET Intents : i \in F \cup P /\ Claim(F, P))
        /\ WF_vars(ProcessClaim(i))
    /\ \A k \in LegKeys : WF_vars(Connect(k))

FairSpec == Spec /\ Fairness

-----------------------------------------------------------------------------
(* Correctness.                                                            *)

(* No lost answer, crash, restart or repair ever makes the worker submit   *)
(* the order of a leg a second time.                                       *)
AtMostOnceSubmission == \A l \in Legs : submitted[l] <= 1

(* Whatever a venue has, or may still receive, is on record under its      *)
(* stable id: the id is committed before the call.                         *)
StableIdPersistedFirst ==
    \A l \in Legs : venue[l].status # "NONE" \/ l \in wire => order[l].status # "NONE"

(* A command rolled back as stale (or waiting to be sent, perhaps for the  *)
(* second time) has never reached out to a venue.                          *)
UnsentMeansUntouched ==
    \A i \in Intents : outbox[i] \in {"PENDING", "CANCELED"} =>
        \A l \in LegsOf(i) : submitted[l] = 0 /\ venue[l].status = "NONE" /\ l \notin wire

(* An intent is COMPLETED only when the venues have filled all its orders. *)
CompletionIsReal ==
    \A i \in Intents : intent[i] = "COMPLETED" =>
        \A l \in LegsOf(i) : venue[l] = [status |-> "FILLED", filled |-> plan[l]]

(* A group that failed to open has no order left that could still fill.    *)
FailedHasNoLiveOrder ==
    \A g \in Groups : group[g] = "failed" =>
        \A i \in IntentsOf(g) : \A l \in LegsOf(i) : ~WorkingAtVenue(l) /\ l \notin wire

(* A group is closed only on fills of a whole closing intent.              *)
ClosedMeansFilled ==
    \A g \in Groups : group[g] = "closed" =>
        \E i \in IntentsOf(g) : /\ Kind[i] # "OPEN" /\ LegsOf(i) # {}
                                /\ \A l \in LegsOf(i) : venue[l].status = "FILLED"

(* The books never show a fill the venue did not make, and a fill once on  *)
(* the books stays there, whatever order the reports come in.              *)
RecordedFillIsReal == \A l \in Legs : order[l].filled <= venue[l].filled
FilledNeverDecreases == [][\A l \in Legs : order'[l].filled >= order[l].filled]_vars

(* A claimed command comes to a decision (sent, failed, back to pending,   *)
(* rolled back), whatever the venues answer.                               *)
CommandSettles == \A i \in Intents : outbox[i] = "PROCESSING" ~> outbox[i] # "PROCESSING"

(* Every order lives the life StableOrder promises: recorded, submitted    *)
(* once, taken by its venue at most once.                                  *)
Promise == INSTANCE StableOrder WITH
               Orders   <- Legs,
               recorded <- {l \in Legs : order[l].status # "NONE"},
               sends    <- submitted,
               taken    <- {l \in Legs : venue[l].status # "NONE"}

KeepsPromise == Promise!Spec

(* Why submission happens once: the strengthening the proofs use.  Until   *)
(* a command is dispatched its orders are not on record; what is not on    *)
(* record was not sent; what is being sent was not sent before.            *)
BeingDispatched(i) ==
    phase = "dispatching" /\ i \in fresh /\ \A j \in fresh \cup stale : i <= j

LegSafe(l) ==
    /\ submitted[l] <= 1
    /\ order[l].status = "NONE" => submitted[l] = 0 /\ order[l].filled = 0
    /\ submitted[l] = 0 => venue[l].status = "NONE" /\ l \notin wire /\ queue[l] = << >>
    /\ l \in wire => venue[l].status = "NONE"
    /\ order[l].status # "NONE" => plan[l] > 0
    /\ l \in sending => submitted[l] = 0 /\ BeingDispatched(l[1]) /\ plan[l] > 0
    /\ BeingDispatched(l[1]) /\ plan[l] > 0 =>
           order[l].status # "NONE" /\ (l \in sending \/ result[l].status # "NONE")

IntentSafe(i) ==
    /\ \/ outbox[i] \in {"ABSENT", "PENDING", "CANCELED"}
       \/ i \in fresh /\ ~BeingDispatched(i)
       => \A l \in Legs : l[1] = i => order[l].status = "NONE"
    /\ i \in fresh \cup stale => outbox[i] = "PROCESSING"
    /\ intent[i] = "ABSENT" <=> outbox[i] = "ABSENT"

PhasesAreDistinct ==
    /\ fresh \cap stale = {}
    /\ phase = "starting" => fresh \cup stale = {}
    /\ phase # "dispatching" => sending = {}

SubmissionInv ==
    /\ \A l \in Legs : LegSafe(l)
    /\ \A i \in Intents : IntentSafe(i)
    /\ PhasesAreDistinct

-----------------------------------------------------------------------------
(* What the documentation says and the code does not always do.            *)

(* "all unfilled": the reason written on a group that goes to failed.      *)
FailedMeansUnfilled ==
    \A g \in Groups : group[g] = "failed" =>
        \A i \in IntentsOf(g) : Kind[i] = "OPEN" =>
            \A l \in LegsOf(i) : order[l].filled = 0

(* A submission with an unknown result goes to recovery: its order is      *)
(* queried by its stable id, unless a report settles it first.             *)
UnknownIsQueried ==
    \A l \in Legs : order[l].status = "UNKNOWN" ~>
                        (l \in asked \/ order[l].status # "UNKNOWN")
=============================================================================
