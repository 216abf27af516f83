--------------------------- MODULE ExecutionStatus ---------------------------
(***************************************************************************)
(* The status vocabulary of the execution tables and the pure projections  *)
(* between them: what a venue report does to a VenueOrder and to its       *)
(* ExecutionLeg, and what the statuses of all legs of an ExecutionIntent   *)
(* say about the intent and about its HedgeGroup.  Two different           *)
(* projections of a venue report exist in the code, one for answers of the *)
(* gateway (submit, query) and one for events of the private stream; both  *)
(* are here because the modules that follow let them meet on one order.    *)
(*                                                                         *)
(* A report is [status, filled]; a quantity is a number of lots.  Prices,  *)
(* commissions, messages and audit rows are abstracted.                    *)
(***************************************************************************)
EXTENDS Integers

IntentKind   == {"OPEN", "CLOSE", "RECOVER"}
IntentStatus == {"ABSENT", "CREATED", "RUNNING", "RECOVERY_REQUIRED",
                 "COMPLETED", "FAILED", "SUPERSEDED", "VOIDED"}
OutboxStatus == {"ABSENT", "PENDING", "PROCESSING", "SENT", "FAILED", "CANCELED"}
LegStatus    == {"PLANNED", "SUBMITTED", "PARTIALLY_FILLED", "FILLED",
                 "FAILED", "UNKNOWN", "CANCELED"}
GroupStatus  == {"absent", "opening", "open", "open_partial", "closing",
                 "closed", "failed", "manual_intervention", "voided"}

(* Statuses a venue itself can report; "NONE" is an order it never saw.    *)
VenueStatus  == {"NONE", "ACCEPTED", "PARTIALLY_FILLED", "FILLED", "CANCELED"}
OrderStatus  == VenueStatus \cup
                {"INITIALIZED", "PENDING_CANCEL", "REJECTED", "UNKNOWN"}

ActiveIntentStatuses == {"CREATED", "RUNNING", "RECOVERY_REQUIRED"}
NonTerminalOrderStatuses ==
    {"INITIALIZED", "ACCEPTED", "PARTIALLY_FILLED", "PENDING_CANCEL", "UNKNOWN"}
FailureOrderStatuses == {"REJECTED", "CANCELED"}
NonTerminalLegStatuses == {"PLANNED", "SUBMITTED", "PARTIALLY_FILLED", "UNKNOWN"}

Larger(a, b) == IF a >= b THEN a ELSE b

-----------------------------------------------------------------------------
(* Answers of submit_order and get_order.  The cumulative filled quantity  *)
(* never goes down; a report that covers the whole order makes it FILLED.  *)

(* A bug the runs must notice: an answer counted on top of what is known.  *)
GatewayOrderSums(o, report, requested) ==
    LET filled == o.filled + report.filled IN
    [status |-> IF filled >= requested THEN "FILLED" ELSE report.status,
     filled |-> filled]

GatewayOrder(o, report, requested) ==
    LET filled == Larger(o.filled, report.filled) IN
    [status |-> IF report.status = "FILLED" \/ filled >= requested
                THEN "FILLED" ELSE report.status,
     filled |-> filled]

GatewayLeg(o, report, requested) ==
    LET filled == Larger(o.filled, report.filled) IN
    IF report.status = "FILLED" \/ filled >= requested THEN "FILLED"
    ELSE IF report.status \in FailureOrderStatuses THEN "FAILED"
    ELSE IF filled > 0 THEN "PARTIALLY_FILLED"
    ELSE "SUBMITTED"

-----------------------------------------------------------------------------
(* Order events of the private stream.  The status of the event is taken   *)
(* as it comes, whatever the order's status was.                           *)

(* Bugs the runs must notice: reports taken as increments, or as they come. *)
EventOrderSums(o, report) ==
    [status |-> report.status, filled |-> o.filled + report.filled]
EventOrderLatest(o, report) == [status |-> report.status, filled |-> report.filled]

EventOrder(o, report) ==
    [status |-> report.status, filled |-> Larger(o.filled, report.filled)]

EventLeg(o, report) ==
    LET filled == Larger(o.filled, report.filled) IN
    IF report.status = "FILLED" THEN "FILLED"
    ELSE IF report.status \in FailureOrderStatuses
         THEN IF filled > 0 THEN "PARTIALLY_FILLED" ELSE "FAILED"
    ELSE IF filled > 0 THEN "PARTIALLY_FILLED"
    ELSE "SUBMITTED"

-----------------------------------------------------------------------------
(* What the set of leg statuses of an intent says of the intent.           *)

(* A bug the runs must notice: one filled leg completes the intent.        *)
IntentVerdictOfAny(statuses) ==
    IF "FILLED" \in statuses THEN "COMPLETED"
    ELSE IF "FAILED" \in statuses THEN "FAILED" ELSE "RUNNING"

IntentVerdict(statuses) ==
    IF statuses \subseteq {"FILLED"} THEN "COMPLETED"
    ELSE IF "FAILED" \in statuses
         THEN IF statuses \cap NonTerminalLegStatuses # {}
              THEN "RECOVERY_REQUIRED" ELSE "FAILED"
    ELSE "RUNNING"

(* ... and of its hedge group.  filledAny is the answer of the database to *)
(* "has any order of the intent a fill?", previous the status the group    *)
(* had when the intent was created.                                        *)

(* Bugs the runs must notice: failure without a look at the orders still   *)
(* on their way, closing on the first filled leg.                          *)
OpenVerdictHasty(statuses, filledAny) ==
    IF statuses \subseteq {"FILLED"} THEN "open"
    ELSE IF "FAILED" \in statuses
         THEN IF filledAny THEN "manual_intervention" ELSE "failed"
    ELSE "opening"
CloseVerdictHasty(statuses, filledAny, previous) ==
    IF "FILLED" \in statuses THEN "closed"
    ELSE IF "FAILED" \in statuses THEN previous ELSE "closing"

OpenVerdict(statuses, filledAny) ==
    IF statuses \subseteq {"FILLED"} THEN "open"
    ELSE IF "FAILED" \in statuses
         THEN IF filledAny \/ statuses \cap NonTerminalLegStatuses # {}
              THEN "manual_intervention" ELSE "failed"
    ELSE "opening"

CloseVerdict(statuses, filledAny, previous) ==
    IF statuses \subseteq {"FILLED"} THEN "closed"
    ELSE IF "FAILED" \in statuses
         THEN IF filledAny \/ statuses \cap NonTerminalLegStatuses # {}
              THEN "manual_intervention"
              ELSE IF previous \in {"open", "open_partial"} THEN previous ELSE "open"
    ELSE "closing"

GroupVerdict(kind, statuses, filledAny, previous) ==
    IF kind = "OPEN" THEN OpenVerdict(statuses, filledAny)
    ELSE CloseVerdict(statuses, filledAny, previous)
=============================================================================
