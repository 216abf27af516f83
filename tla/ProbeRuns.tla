----------------------------- MODULE ProbeRuns -----------------------------
(***************************************************************************)
(* Probe runs (ProbeRun): a real minimum order, entered by an intent of    *)
(* its own and closed by a second one, which the projection of the first   *)
(* creates.  A run is FLAT only after the account's position is again what *)
(* it was when the run was created.                                        *)
(*                                                                         *)
(* The worker sends the order of each intent and projects answers of the   *)
(* gateway, events of the stream and queries onto order, leg and run; of   *)
(* these only the events come without a connector to ask for the position. *)
(* All runs are of one account, instrument and side.                       *)
(***************************************************************************)
EXTENDS ExecutionStatus, FiniteSetsExt

CONSTANTS
    Runs,
    Quantity   \* probe_quantity, in lots

RunsAssumption == IsFiniteSet(Runs) /\ Quantity \in Nat \ {0}

Stages == {"entry", "exit"}
Legs   == Runs \X Stages
Lots   == 0..Quantity
RunStatus == {"NONE", "OPENING", "FLATTENING", "FLAT", "FAILED_NO_EXPOSURE", "RECOVERY_REQUIRED"}

VARIABLES
    run,       \* ProbeRun.status
    baseline,  \* ProbeRun.baseline_position_quantity
    intent,    \* ExecutionIntent.status of each stage
    size,      \* ExecutionLeg.venue_order_quantity
    leg,       \* ExecutionLeg.status
    order,     \* VenueOrder rows
    venue,     \* the orders at the venue
    owed       \* legs of which the stream has something to tell

vars == <<run, baseline, intent, size, leg, order, venue, owed>>

Row == [status : OrderStatus, filled : Lots]
NoOrder == [status |-> "NONE", filled |-> 0]

TypeOK ==
    /\ run \in [Runs -> RunStatus]
    /\ baseline \in [Runs -> 0..(Cardinality(Runs) * Quantity)]
    /\ intent \in [Legs -> {"ABSENT", "CREATED", "RUNNING", "COMPLETED", "FAILED", "RECOVERY_REQUIRED"}]
    /\ size \in [Legs -> Lots] /\ leg \in [Legs -> LegStatus]
    /\ order \in [Legs -> Row] /\ venue \in [Legs -> Row]
    /\ owed \subseteq Legs

Init ==
    /\ run = [r \in Runs |-> "NONE"] /\ baseline = [r \in Runs |-> 0]
    /\ intent = [l \in Legs |-> "ABSENT"]
    /\ size = [l \in Legs |-> 0] /\ leg = [l \in Legs |-> "PLANNED"]
    /\ order = [l \in Legs |-> NoOrder] /\ venue = order
    /\ owed = {}

Held(r)  == venue[<<r, "entry">>].filled - venue[<<r, "exit">>].filled
Position == MapThenSumSet(Held, Runs)

(* create_probe_run: baseline, run, entry intent.                          *)
Create(r) ==
    /\ run[r] = "NONE"
    /\ run' = [run EXCEPT ![r] = "OPENING"]
    /\ baseline' = [baseline EXCEPT ![r] = Position]
    /\ intent' = [intent EXCEPT ![<<r, "entry">>] = "CREATED"]
    /\ size' = [size EXCEPT ![<<r, "entry">>] = Quantity]
    /\ UNCHANGED <<leg, order, venue, owed>>

-----------------------------------------------------------------------------
(* advance_probe_intent, called with what a projection has made of the     *)
(* order and the leg.                                                      *)
TerminalLeg == {"FILLED", "FAILED"}

(* _advance_entry.                                                         *)
AdvanceEntry(r, o, legStatus) ==
    LET entry == <<r, "entry">>
        exit  == <<r, "exit">>
    IN \/ /\ legStatus \notin TerminalLeg
          /\ run' = [run EXCEPT ![r] = "OPENING"]
          /\ intent' = [intent EXCEPT ![entry] = "RUNNING"]
          /\ UNCHANGED size
       \/ /\ legStatus \in TerminalLeg /\ o.filled = 0
          /\ run' = [run EXCEPT ![r] = "FAILED_NO_EXPOSURE"]
          /\ intent' = [intent EXCEPT ![entry] = "FAILED"]
          /\ UNCHANGED size
       \/ /\ legStatus \in TerminalLeg /\ o.filled > 0
          /\ IF intent[exit] = "ABSENT"
             THEN /\ run' = [run EXCEPT ![r] = "FLATTENING"]
                  /\ intent' = [intent EXCEPT ![entry] = "COMPLETED", ![exit] = "CREATED"]
                  /\ size' = [size EXCEPT ![exit] = o.filled]
             ELSE /\ intent' = [intent EXCEPT ![entry] = "COMPLETED"]
                  /\ UNCHANGED <<run, size>>

(* A bug the runs must notice: what is left of the order is not looked at. *)
AdvanceExitFilled(r, o, legStatus, asks) ==
    LET to(s, i) == /\ run' = [run EXCEPT ![r] = s]
                    /\ intent' = [intent EXCEPT ![<<r, "exit">>] = i]
    IN /\ IF legStatus \notin TerminalLeg \/ ~asks THEN to("FLATTENING", "RUNNING")
          ELSE to("FLAT", "COMPLETED")
       /\ UNCHANGED size

(* _advance_exit: the residual is that of the probe's quantity; without a  *)
(* connector, or without its answer, the run waits.                        *)
AdvanceExit(r, o, legStatus, asks) ==
    LET to(s, i) == /\ run' = [run EXCEPT ![r] = s]
                    /\ intent' = [intent EXCEPT ![<<r, "exit">>] = i]
        residual == Quantity - o.filled
    IN /\ IF legStatus \notin TerminalLeg THEN to("FLATTENING", "RUNNING")
          ELSE IF residual > 0 THEN to("RECOVERY_REQUIRED", "RECOVERY_REQUIRED")
          ELSE IF ~asks THEN to("FLATTENING", "RUNNING")
          ELSE IF Position # baseline[r] THEN to("RECOVERY_REQUIRED", "RECOVERY_REQUIRED")
          ELSE to("FLAT", "COMPLETED")
       /\ UNCHANGED size

Advance(l, o, legStatus, asks) ==
    \/ l[2] = "entry" /\ AdvanceEntry(l[1], o, legStatus)
    \/ l[2] = "exit" /\ AdvanceExit(l[1], o, legStatus, asks)

(* A report of the gateway, or of the stream, about the order of leg l.    *)
Applied(l, o, legStatus, asks) ==
    /\ order' = [order EXCEPT ![l] = o]
    /\ leg' = [leg EXCEPT ![l] = legStatus]
    /\ Advance(l, o, legStatus, asks)

FromGateway(l, r) == Applied(l, GatewayOrder(order[l], r, size[l]), GatewayLeg(order[l], r, size[l]), TRUE)
                  \/ Applied(l, GatewayOrder(order[l], r, size[l]), GatewayLeg(order[l], r, size[l]), FALSE)

-----------------------------------------------------------------------------
(* The worker.                                                             *)

Reports(l) ==
    {[status |-> "ACCEPTED", filled |-> 0], [status |-> "FILLED", filled |-> size[l]]}
    \cup {[status |-> "CANCELED", filled |-> n] : n \in 0..(size[l] - 1)}

Unknown(l) ==
    /\ order' = [order EXCEPT ![l].status = "UNKNOWN"]
    /\ leg' = [leg EXCEPT ![l] = "UNKNOWN"]
    /\ intent' = [intent EXCEPT ![l] = "RECOVERY_REQUIRED"]
    /\ UNCHANGED <<run, size>>

(* _process_claim for the one leg of an intent: refused, answered, or not. *)
Submit(l) ==
    /\ intent[l] = "CREATED" /\ order[l] = NoOrder
    /\ \/ /\ FromGateway(l, [status |-> "REJECTED", filled |-> 0])
          /\ UNCHANGED <<venue, owed>>
       \/ \E r \in Reports(l) :
            /\ venue' = [venue EXCEPT ![l] = r]
            /\ owed' = owed \cup {l}
            /\ FromGateway(l, r) \/ Unknown(l)
    /\ UNCHANGED baseline

(* _recover_without_resubmit and reconcile_execution_orders_once.          *)
Query(l) ==
    /\ order[l].status \in NonTerminalOrderStatuses
    /\ venue[l].status # "NONE"
    /\ FromGateway(l, venue[l])
    /\ UNCHANGED <<baseline, venue, owed>>

Project(l) ==
    /\ l \in owed
    /\ Applied(l, EventOrder(order[l], venue[l]), EventLeg(order[l], venue[l]), FALSE)
    /\ owed' = owed \ {l}
    /\ UNCHANGED <<baseline, venue>>

(* reconcile_probe_runs_once.                                              *)
Recheck(r) ==
    /\ run[r] = "FLATTENING" /\ order[<<r, "exit">>].status # "NONE"
    /\ AdvanceExit(r, order[<<r, "exit">>], leg[<<r, "exit">>], TRUE)
    /\ UNCHANGED <<baseline, leg, order, venue, owed>>

VenueMoves(l) ==
    /\ venue[l].status = "ACCEPTED"
    /\ \E r \in Reports(l) \ {venue[l]} : venue' = [venue EXCEPT ![l] = r]
    /\ owed' = owed \cup {l}
    /\ UNCHANGED <<run, baseline, intent, size, leg, order>>

Next ==
    \/ \E r \in Runs : Create(r) \/ Recheck(r)
    \/ \E l \in Legs : Submit(l) \/ Query(l) \/ Project(l) \/ VenueMoves(l)

Spec == Init /\ [][Next]_vars

-----------------------------------------------------------------------------
(* Properties.                                                             *)

(* A run is FLAT only if it has closed all it has opened, and without      *)
(* exposure only if it never opened any, nor will: whatever order answers, *)
(* events and queries come in, and whatever the other runs hold.           *)
FlatMeansClosed ==
    \A r \in Runs :
        /\ run[r] = "FLAT" => Held(r) = 0 /\ venue[<<r, "exit">>].status = "FILLED"
        /\ run[r] = "FAILED_NO_EXPOSURE" =>
               venue[<<r, "entry">>] \in {NoOrder, [status |-> "CANCELED", filled |-> 0]}
=============================================================================
