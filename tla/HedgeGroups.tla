---------------------------- MODULE HedgeGroups ----------------------------
(***************************************************************************)
(* The life of one live hedge group: the commands the API process accepts  *)
(* for it (open, close, recover, void), each in a transaction that locks   *)
(* the group row, and the worker that runs them and projects what it hears *)
(* onto the same rows without that lock.                                   *)
(*                                                                         *)
(* Quantities come from the ledger, the Fill rows of the legacy orders,    *)
(* and not from the orders: closing and recovery plans are made of its     *)
(* residuals.  Answers of a gateway bring the ledger of an order up to the *)
(* cumulative quantity; fill events of a private stream add a row each.    *)
(*                                                                         *)
(* The worker is coarser here than in OutboxWorker, which models its       *)
(* claims, repairs and queue: a command is taken, dispatched, sent leg by  *)
(* leg, recorded.  A reconnection, which asks for the compensating query,  *)
(* is possible whenever the worker is idle.                                *)
(***************************************************************************)
EXTENDS ExecutionStatus

CONSTANTS
    Venues,       \* the venues of the two legs
    MaxIntents,   \* bound: commands accepted for the group
    Lots,         \* planned quantity of an opening leg, per venue
    StreamFills,  \* the private streams carry fills beside orders
    LateEvents,   \* a command may come while a stream owes a report
    MaxCrashes    \* bound: crashes of the worker

GroupsAssumption ==
    /\ \E a, b \in Venues : a # b /\ Venues = {a, b}
    /\ MaxIntents \in Nat \ {0} /\ MaxCrashes \in Nat
    /\ Lots \in [Venues -> Nat \ {0}]
    /\ StreamFills \in BOOLEAN /\ LateEvents \in BOOLEAN

Intents == 1..MaxIntents
Legs    == Intents \X Venues

VARIABLES
    group,     \* HedgeGroup.status
    intent,    \* ExecutionIntent rows: kind, status, previous_group_status
    outbox,    \* ExecutionOutbox.status
    plan,      \* ExecutionLeg.venue_order_quantity, 0 for a leg that is not there
    leg,       \* ExecutionLeg.status
    order,     \* VenueOrder rows (and the status of their legacy Order)
    ledger,    \* sum of the Fill rows of the leg's legacy order
    venue,     \* the orders as their venues have them
    owed,      \* legs of which a stream has a report on its way
    told,      \* fills the stream of a leg has reported and the worker projected
    phase,     \* the worker: idle, read a claim, calls in their threads
    current,   \* the intent it works on, 0 when idle
    answer,    \* what its calls returned
    crashes

rows   == <<group, intent, outbox, plan, leg, order, ledger>>
world  == <<venue, owed, told>>
worker == <<phase, current, answer>>
vars   == <<rows, world, worker, crashes>>

IntentRow == [kind : IntentKind \cup {"NONE"}, status : IntentStatus, prev : GroupStatus]
OrderRow  == [status : OrderStatus, filled : Nat]

NoIntent == [kind |-> "NONE", status |-> "ABSENT", prev |-> "absent"]
NoOrder  == [status |-> "NONE", filled |-> 0]
Unknown  == [status |-> "UNKNOWN", filled |-> 0]
Rejected == [status |-> "REJECTED", filled |-> 0]

LegsOf(i) == {l \in Legs : l[1] = i /\ plan[l] > 0}
Exists(i) == intent[i].status # "ABSENT"
Active(i) == intent[i].status \in ActiveIntentStatuses

TypeOK ==
    /\ group \in GroupStatus
    /\ intent \in [Intents -> IntentRow]
    /\ outbox \in [Intents -> OutboxStatus]
    /\ plan \in [Legs -> Nat] /\ ledger \in [Legs -> Nat]
    /\ leg \in [Legs -> LegStatus]
    /\ order \in [Legs -> OrderRow] /\ venue \in [Legs -> OrderRow]
    /\ owed \subseteq Legs /\ told \in [Legs -> Nat]
    /\ phase \in {"idle", "read", "sent"}
    /\ current \in 0..MaxIntents
    /\ answer \in [Legs -> OrderRow]
    /\ crashes \in 0..MaxCrashes

Init ==
    /\ group = "absent"
    /\ intent = [i \in Intents |-> NoIntent]
    /\ outbox = [i \in Intents |-> "ABSENT"]
    /\ plan = [l \in Legs |-> 0] /\ ledger = [l \in Legs |-> 0]
    /\ leg = [l \in Legs |-> "PLANNED"]
    /\ order = [l \in Legs |-> NoOrder] /\ venue = [l \in Legs |-> NoOrder]
    /\ owed = {} /\ told = [l \in Legs |-> 0]
    /\ phase = "idle" /\ current = 0
    /\ answer = [l \in Legs |-> NoOrder]
    /\ crashes = 0

-----------------------------------------------------------------------------
(* What the database says of the group: actions.py and voiding.py.         *)

(* Quantity of the legs of a venue, as f counts them, over the intents of  *)
(* some kinds: the opening legs, and the closing ones.                     *)
Sum(f, v, kinds) ==
    LET upTo[n \in 0..MaxIntents] ==
            IF n = 0 THEN 0
            ELSE upTo[n - 1] + (IF intent[n].kind \in kinds THEN f[<<n, v>>] ELSE 0)
    IN upTo[MaxIntents]
Opened(f, v) == Sum(f, v, {"OPEN"})
Closed(f, v) == Sum(f, v, {"CLOSE", "RECOVER"})

(* _fill_residuals: floored, per venue.                                    *)
Residual(v)  == Larger(Opened(ledger, v) - Closed(ledger, v), 0)
HasExposure  == \E v \in Venues : Residual(v) > 0

(* Legacy orders that still wait for a confirmation.                       *)
Pending == {l \in Legs : order[l].status \in NonTerminalOrderStatuses}

(* hedge_group_actions, live mode.                                         *)
CloseAllowed ==
    /\ \A i \in Intents : ~Active(i)
    /\ group \in {"open", "open_partial"} /\ HasExposure
RecoverAllowed ==
    group \in {"manual_intervention", "failed"} /\ (HasExposure \/ Pending # {})

(* void_eligibility, no probe: no fill in an order or in the ledger, every *)
(* order in a status that says it never did anything.                      *)
SafeEmptyStatuses == {"NONE", "INITIALIZED", "REJECTED", "CANCELED"}
VoidAllowed ==
    /\ group \notin {"absent", "voided"}
    /\ \A l \in Legs : order[l].filled = 0 /\ order[l].status \in SafeEmptyStatuses
    /\ \A l \in Legs : ledger[l] = 0

-----------------------------------------------------------------------------
(* Commands of the API process.                                            *)

(* create_execution_intent: intent, legs and outbox in one transaction.    *)
WriteIntent(i, kind, q) ==
    /\ ~Exists(i) /\ \A j \in Intents : j < i => Exists(j)
    /\ LateEvents \/ owed = {}
    /\ \E v \in Venues : q[v] > 0
    /\ outbox' = [outbox EXCEPT ![i] = "PENDING"]
    /\ plan' = [l \in Legs |-> IF l[1] = i THEN q[l[2]] ELSE plan[l]]
    /\ group' = IF kind = "OPEN" THEN "opening" ELSE "closing"
    /\ UNCHANGED <<leg, order, ledger, world, worker, crashes>>

NewIntent(kind) == [kind |-> kind, status |-> "CREATED", prev |-> group]

CreateOpen(i) ==
    /\ group = "absent"
    /\ WriteIntent(i, "OPEN", Lots)
    /\ intent' = [intent EXCEPT ![i] = NewIntent("OPEN")]

Residuals == [v \in Venues |-> Residual(v)]

CreateClose(i) ==
    /\ CloseAllowed
    /\ WriteIntent(i, "CLOSE", Residuals)
    /\ intent' = [intent EXCEPT ![i] = NewIntent("CLOSE")]

(* Bug the runs must notice: no look at the orders that still wait.        *)
CreateRecoveryEarly(i) ==
    /\ RecoverAllowed
    /\ WriteIntent(i, "RECOVER", Residuals)
    /\ intent' = [j \in Intents |->
            IF j = i THEN NewIntent("RECOVER")
            ELSE IF intent[j].status = "RECOVERY_REQUIRED"
                 THEN [intent[j] EXCEPT !.status = "SUPERSEDED"] ELSE intent[j]]

(* Bug the runs must notice: what asked for the recovery stays as it is.   *)
CreateRecoveryBeside(i) ==
    /\ RecoverAllowed /\ Pending = {}
    /\ WriteIntent(i, "RECOVER", Residuals)
    /\ intent' = [intent EXCEPT ![i] = NewIntent("RECOVER")]

(* create_recovery_intent: after the last confirmation; the intents that   *)
(* asked for a recovery are superseded.                                    *)
CreateRecovery(i) ==
    /\ RecoverAllowed /\ Pending = {}
    /\ WriteIntent(i, "RECOVER", Residuals)
    /\ intent' = [j \in Intents |->
            IF j = i THEN NewIntent("RECOVER")
            ELSE IF intent[j].status = "RECOVERY_REQUIRED"
                 THEN [intent[j] EXCEPT !.status = "SUPERSEDED"] ELSE intent[j]]

(* void_hedge_group.                                                       *)
Void ==
    /\ VoidAllowed
    /\ group' = "voided"
    /\ intent' = [i \in Intents |->
            IF Exists(i) /\ intent[i].status \notin {"COMPLETED", "FAILED", "VOIDED"}
            THEN [intent[i] EXCEPT !.status = "VOIDED"] ELSE intent[i]]
    /\ leg' = [l \in Legs |-> IF plan[l] > 0 /\ leg[l] \notin {"FILLED", "FAILED", "CANCELED"}
                              THEN "CANCELED" ELSE leg[l]]
    /\ order' = [l \in Legs |-> IF order[l].status = "INITIALIZED"
                                THEN [order[l] EXCEPT !.status = "CANCELED"] ELSE order[l]]
    /\ outbox' = [i \in Intents |-> IF outbox[i] \in {"PENDING", "PROCESSING"}
                                    THEN "CANCELED" ELSE outbox[i]]
    /\ UNCHANGED <<plan, ledger, world, worker, crashes>>

-----------------------------------------------------------------------------
(* The worker.                                                             *)

(* _finish_command for intent i, given the legs of the transaction and the *)
(* orders its queries see.                                                 *)
FinishCommand(i, newLeg, visible) ==
    LET statuses  == {newLeg[l] : l \in LegsOf(i)}
        filledAny == \E l \in LegsOf(i) : visible[l].filled > 0
    IN /\ outbox' = [outbox EXCEPT ![i] = "SENT"]
       /\ intent' = [intent EXCEPT ![i].status = IntentVerdict(statuses)]
       /\ group' = GroupVerdict(intent[i].kind, statuses, filledAny, intent[i].prev)

(* _apply_gateway_result for the legs of S and the reports r: the ledger   *)
(* catches up with the cumulative quantity.                                *)
Ordered(S, r) ==
    [l \in Legs |-> IF l \in S THEN GatewayOrder(order[l], r[l], plan[l]) ELSE order[l]]
Legged(S, r) ==
    [l \in Legs |-> IF l \in S THEN GatewayLeg(order[l], r[l], plan[l]) ELSE leg[l]]
Ledgered(S, r) ==
    [l \in Legs |-> IF l \in S THEN Larger(ledger[l], GatewayOrder(order[l], r[l], plan[l]).filled)
                    ELSE ledger[l]]

(* A claim is taken and its row read; ...                                  *)
Take(i) ==
    /\ phase = "idle" /\ outbox[i] = "PENDING"
    /\ outbox' = [outbox EXCEPT ![i] = "PROCESSING"]
    /\ phase' = "read" /\ current' = i
    /\ UNCHANGED <<group, intent, plan, leg, order, ledger, world, answer, crashes>>

(* Bug the runs must notice: the intent takes the status of its orders.    *)
DispatchMarked ==
    /\ phase = "read"
    /\ intent' = [intent EXCEPT ![current].status = "INITIALIZED"]
    /\ order' = [l \in Legs |-> IF l \in LegsOf(current) /\ order[l].status = "NONE"
                                THEN [status |-> "INITIALIZED", filled |-> 0] ELSE order[l]]
    /\ phase' = "sent"
    /\ UNCHANGED <<group, outbox, plan, leg, ledger, world, current, answer, crashes>>

(* ... the ids are committed, over whatever a void has written meanwhile;  *)
Dispatch ==
    /\ phase = "read"
    /\ intent' = [intent EXCEPT ![current].status = "RUNNING"]
    /\ order' = [l \in Legs |-> IF l \in LegsOf(current) /\ order[l].status = "NONE"
                                THEN [status |-> "INITIALIZED", filled |-> 0] ELSE order[l]]
    /\ phase' = "sent"
    /\ UNCHANGED <<group, outbox, plan, leg, ledger, world, current, answer, crashes>>

(* What a venue may do with an order of quantity q when it takes it.       *)
Taken(q) ==
    {[status |-> "FILLED", filled |-> q], [status |-> "ACCEPTED", filled |-> 0]}
    \cup {[status |-> "CANCELED", filled |-> f] : f \in 1..(q - 1)}

Waiting(l) == phase = "sent" /\ l \in LegsOf(current) /\ answer[l].status = "NONE"

(* ... one call per leg is made, each acknowledged, refused, lost on the   *)
(* way back or lost on the way there;                                      *)
Submit(l) ==
    /\ Waiting(l)
    /\ \/ \E r \in Taken(plan[l]), heard \in BOOLEAN :
            /\ venue' = [venue EXCEPT ![l] = r]
            /\ owed' = owed \cup {l}
            /\ answer' = [answer EXCEPT ![l] = IF heard THEN r ELSE Unknown]
       \/ /\ answer' = [answer EXCEPT ![l] = Rejected]
          /\ UNCHANGED <<venue, owed>>
       \/ /\ answer' = [answer EXCEPT ![l] = Unknown]
          /\ UNCHANGED <<venue, owed>>
    /\ UNCHANGED <<rows, told, phase, current, crashes>>

(* ... and the answers are recorded in one transaction.                    *)
Record ==
    LET mine     == LegsOf(current)
        unknown  == {l \in mine : answer[l].status = "UNKNOWN"}
        known    == mine \ unknown
        newOrder == [l \in Legs |-> IF l \in unknown THEN [order[l] EXCEPT !.status = "UNKNOWN"]
                                    ELSE Ordered(known, answer)[l]]
        newLeg   == [l \in Legs |-> IF l \in unknown THEN "UNKNOWN" ELSE Legged(known, answer)[l]]
    IN /\ phase = "sent" /\ \A l \in mine : ~Waiting(l)
       /\ order' = newOrder /\ leg' = newLeg
       /\ ledger' = Ledgered(known, answer)
       /\ IF unknown = {} THEN FinishCommand(current, newLeg, newOrder)
          ELSE /\ outbox' = [outbox EXCEPT ![current] = "PROCESSING"]
               /\ intent' = [intent EXCEPT ![current].status = "RECOVERY_REQUIRED"]
               /\ UNCHANGED group
       /\ phase' = "idle" /\ current' = 0
       /\ answer' = [l \in Legs |-> NoOrder]
       /\ UNCHANGED <<plan, world, crashes>>

Askable(l) == order[l].status \in NonTerminalOrderStatuses

(* _recover_without_resubmit: a claim left in PROCESSING; the venues       *)
(* answer for the legs of S, the projection sees the orders as they were.  *)
Recover(i, S) ==
    LET asked  == {l \in LegsOf(i) : Askable(l)}
        newLeg == Legged(S, venue)
    IN /\ phase = "idle" /\ outbox[i] = "PROCESSING"
       /\ S \subseteq {l \in asked : venue[l].status # "NONE"}
       /\ order' = Ordered(S, venue) /\ leg' = newLeg /\ ledger' = Ledgered(S, venue)
       /\ IF S = asked /\ \A l \in LegsOf(i) : order[l].status # "NONE"
          THEN FinishCommand(i, newLeg, order)
          ELSE /\ outbox' = [outbox EXCEPT ![i] = "FAILED"]
               /\ intent' = [intent EXCEPT ![i].status = "RECOVERY_REQUIRED"]
               /\ UNCHANGED group
       /\ UNCHANGED <<plan, world, worker, crashes>>

(* reconcile_execution_orders_once: the query of leg l is answered.        *)
Reconcile(l) ==
    LET newLeg == Legged({l}, venue) IN
    /\ phase = "idle" /\ Askable(l) /\ venue[l].status # "NONE"
    /\ intent[l[1]].status \in {"RUNNING", "RECOVERY_REQUIRED"} /\ outbox[l[1]] = "SENT"
    /\ order' = Ordered({l}, venue) /\ leg' = newLeg /\ ledger' = Ledgered({l}, venue)
    /\ FinishCommand(l[1], newLeg, Ordered({l}, venue))
    /\ UNCHANGED <<plan, world, worker, crashes>>

(* project_venue_events_once for what the stream of leg l says: the fills  *)
(* it has not told yet, a ledger row each, then the order.                 *)
Project(l) ==
    LET news     == IF StreamFills THEN venue[l].filled - told[l] ELSE 0
        known    == [status |-> order[l].status, filled |-> Larger(order[l].filled, told[l] + news)]
        newOrder == [order EXCEPT ![l] = EventOrder(known, venue[l])]
        newLeg   == [leg EXCEPT ![l] = EventLeg(known, venue[l])]
    IN /\ phase = "idle" /\ l \in owed
       /\ order' = newOrder /\ leg' = newLeg
       /\ ledger' = [ledger EXCEPT ![l] = @ + news]
       /\ told' = [told EXCEPT ![l] = @ + news]
       /\ owed' = owed \ {l}
       /\ FinishCommand(l[1], newLeg, newOrder)
       /\ UNCHANGED <<plan, venue, worker, crashes>>

-----------------------------------------------------------------------------
(* Venues, streams and failures.                                           *)

VenueMoves(l) ==
    /\ venue[l].status = "ACCEPTED"
    /\ \E r \in {[status |-> "FILLED", filled |-> plan[l]]}
                \cup {[status |-> "CANCELED", filled |-> f] : f \in 0..(plan[l] - 1)} :
           venue' = [venue EXCEPT ![l] = r]
    /\ owed' = owed \cup {l}
    /\ UNCHANGED <<rows, told, worker, crashes>>

(* A report is lost with the connection that carried it.                   *)
LoseReport(l) ==
    /\ l \in owed
    /\ owed' = owed \ {l}
    /\ UNCHANGED <<rows, venue, told, worker, crashes>>

Crash ==
    /\ crashes < MaxCrashes /\ phase # "idle"
    /\ crashes' = crashes + 1
    /\ phase' = "idle" /\ current' = 0
    /\ answer' = [l \in Legs |-> NoOrder]
    /\ owed' = {}
    /\ UNCHANGED <<rows, venue, told>>

Next ==
    \/ \E i \in Intents : CreateOpen(i) \/ CreateClose(i) \/ CreateRecovery(i) \/ Take(i)
    \/ Void \/ Dispatch \/ Record \/ Crash
    \/ \E i \in Intents : \E S \in SUBSET LegsOf(i) : Recover(i, S)
    \/ \E l \in Legs : Submit(l) \/ Reconcile(l) \/ Project(l) \/ VenueMoves(l) \/ LoseReport(l)

Spec == Init /\ [][Next]_vars

-----------------------------------------------------------------------------
(* Properties.                                                             *)

(* An intent is at work while a call of it is on its way or one of its     *)
(* orders is open at its venue.                                            *)
AtWork(i) == \E l \in LegsOf(i) : Waiting(l) \/ venue[l].status = "ACCEPTED"

(* Two commands of a group are never at work at the same time: a closing   *)
(* or a recovery starts only when nothing of the earlier ones can fill any *)
(* more (require_group_action, pending_order_count).                       *)
OneAtWork == \A i, j \in Intents : AtWork(i) /\ AtWork(j) => i = j

(* At most one command of a group is active, and the group tells what the  *)
(* latest command has come to (require_group_action, _locked_hedge_group,  *)
(* _project_hedge_group_state).                                            *)
OneActive == \A i, j \in Intents : Active(i) /\ Active(j) => i = j

Latest == CHOOSE i \in Intents : Exists(i) /\ \A j \in Intents : Exists(j) => j <= i
GroupFollowsLatest ==
    group \notin {"absent", "voided"} =>
        LET last == intent[Latest]
            busy == IF last.kind = "OPEN" THEN "opening" ELSE "closing"
            done == IF last.kind = "OPEN" THEN "open" ELSE "closed"
        IN CASE last.status \in {"CREATED", "RUNNING"} -> group = busy
             [] last.status = "RECOVERY_REQUIRED" -> group \in {busy, "manual_intervention"}
             [] last.status = "COMPLETED" -> group = done
             [] last.status = "FAILED" -> group \in {"failed", "open", "manual_intervention"}
             [] OTHER -> FALSE
=============================================================================
