-------------------------- MODULE LegacyReconciler --------------------------
(***************************************************************************)
(* The reconciler of the API process over a live hedge group an earlier    *)
(* version left behind: orders with an external id and no intent.  One     *)
(* pass is one transaction: it asks the venues, writes what they say into  *)
(* the orders and the ledger, moves the group, escalates what it cannot    *)
(* rebuild, and mirrors every order into a shadow intent.                  *)
(*                                                                         *)
(* Of each platform only its latest order counts (_latest_platform_orders) *)
(* so that there is one order per platform here: that of the opening, or,  *)
(* when the group was left closing, that of the closing.                   *)
(***************************************************************************)
EXTENDS Integers, FiniteSets

CONSTANTS
    Platforms,  \* the two platforms of the group
    LegA,       \* the platform of leg A, whose open orders are listed first
    Lots        \* quantity of each order

ReconcilerAssumption == Lots \in Nat \ {0} /\ Cardinality(Platforms) = 2 /\ LegA \in Platforms

PendingStatuses == {"initialized", "submitted", "accepted"}
EffectStatuses  == {"partially_filled", "filled"}
FailedStatuses  == {"rejected", "canceled"}
Statuses        == PendingStatuses \cup EffectStatuses \cup FailedStatuses

VARIABLES
    venue,    \* the orders as their platforms have them
    status,   \* Order.status
    ledger,   \* sum of the Fill rows of each order
    failed,   \* orders whose last query failed (error_message)
    old,      \* orders older than reconcile_pending_stale_seconds
    group,    \* HedgeGroup.status
    events,   \* kinds of HedgeGroupEvent rows that are written once
    held,     \* platforms with a Position row for the group's symbol
    shadow    \* status of the shadow intent of each order

vars == <<venue, status, ledger, failed, old, group, events, held, shadow>>

VenueRow == [status : {"accepted", "partially_filled", "filled", "rejected", "canceled"},
             filled : 0..Lots]
Plausible(r) ==
    /\ r.status \in {"accepted", "rejected"} => r.filled = 0
    /\ r.status = "partially_filled" => r.filled \in 1..(Lots - 1)
    /\ r.status = "filled" <=> r.filled = Lots

TypeOK ==
    /\ venue \in [Platforms -> VenueRow]
    /\ status \in [Platforms -> Statuses]
    /\ ledger \in [Platforms -> 0..Lots]
    /\ failed \subseteq Platforms /\ old \subseteq Platforms /\ held \subseteq Platforms
    /\ group \in {"opening", "open", "closing", "closed", "failed", "manual_intervention"}
    /\ events \subseteq {"late_external_fill", "detached_order_reconcile_required",
                         "external_reconcile_required", "residual_position"}
    /\ shadow \in [Platforms -> {"NONE", "RUNNING", "COMPLETED", "FAILED"}]

(* Rows as the earlier version left them: submitted, nothing recorded.     *)
Init ==
    /\ venue \in [Platforms -> {r \in VenueRow : Plausible(r)}]
    /\ status \in [Platforms -> {"submitted", "accepted"}]
    /\ ledger = [p \in Platforms |-> 0]
    /\ failed = {} /\ old = {} /\ events = {}
    /\ group \in {"opening", "closing"}
    /\ held = {}
    /\ shadow = [p \in Platforms |-> "NONE"]

-----------------------------------------------------------------------------
(* Queries.                                                                *)

Moving == group \in {"opening", "closing"}

(* _recover_hyperliquid_orders_from_account: a pending order of leg A that *)
(* its platform lists as open takes the status of the list, no quantity.   *)
Listed == {p \in {LegA} : /\ Moving /\ status[p] \in PendingStatuses
                          /\ venue[p].status \in {"accepted", "partially_filled"}}

(* The orders a pass asks about: reconcile_hedge_group leaves the partial  *)
(* fills of market orders alone, reconcile_unresolved_orders does not.     *)
Refreshable(st, p) == st[p] \in PendingStatuses \/ (~Moving /\ st[p] = "partially_filled")

(* A bug the runs must notice: what is recorded is not taken off.          *)
RefreshedLedgerTwice(p, full) ==
    IF full THEN IF ledger[p] + venue[p].filled <= Lots THEN ledger[p] + venue[p].filled ELSE Lots
    ELSE ledger[p]

(* _refresh_order: the cumulative quantity of the order, or, when get_order *)
(* does not know of any (full = FALSE), the single trades of get_fills, if *)
(* nothing was recorded before.                                            *)
RefreshedLedger(p, full) ==
    IF full THEN IF venue[p].filled > ledger[p] THEN venue[p].filled ELSE ledger[p]
    ELSE IF ledger[p] = 0 THEN venue[p].filled ELSE ledger[p]

HasEffect(st, led, p)  == st[p] \in EffectStatuses /\ led[p] > 0

(* A bug the runs must notice: one leg is enough.                          *)
AdvancedByOne(st, led) ==
    IF \E p \in Platforms : HasEffect(st, led, p)
    THEN IF group = "opening" THEN "open" ELSE "closed" ELSE group

(* _advance_group_state.                                                   *)
Advanced(st, led) ==
    LET effects  == {p \in Platforms : HasEffect(st, led, p)}
        failures == {p \in Platforms : st[p] \in FailedStatuses}
        pendings == {p \in Platforms : st[p] \in PendingStatuses}
    IN IF effects = Platforms THEN IF group = "opening" THEN "open" ELSE "closed"
       ELSE IF effects # {} /\ failures \cup pendings # {} THEN "manual_intervention"
       ELSE IF group = "opening" /\ failures = Platforms THEN "failed"
       ELSE group

(* _escalate_stale_unreconstructable_group: orders that will not be known. *)
Hopeless(st, broken) == {p \in broken \cap old : st[p] \in PendingStatuses}

(* _escalate_detached_unresolved_order: the same outside of a live move.   *)
Detached(targets, broken) ==
    /\ ~Moving /\ "detached_order_reconcile_required" \notin events
    /\ targets \cap broken \cap old # {}

(* reconcile_unresolved_orders: an order had no effect, and has one now.   *)
Late(answered, st, led) ==
    ~Moving /\ \E p \in answered : ~HasEffect(status, ledger, p) /\ HasEffect(st, led, p)

(* reconcile_residual_positions, once per group.                           *)
Residue(g) == g = "closed" /\ held # {} /\ "residual_position" \notin events

(* _normalized_status and _apply_snapshot: status and fills of an order    *)
(* give the status of its shadow.                                          *)
Normalized(st, led, p) == IF led[p] >= Lots THEN "filled" ELSE st[p]
Shadowed(st, led, p) ==
    IF Normalized(st, led, p) = "filled" THEN "COMPLETED"
    ELSE IF Normalized(st, led, p) \in FailedStatuses THEN "FAILED" ELSE "RUNNING"

(* project_legacy_order, for every order.                                  *)
Mirrored(st, led) == [p \in Platforms |-> Shadowed(st, led, p)]

-----------------------------------------------------------------------------
(* One pass (_reconcile_impl).  The platforms list the orders of listed as *)
(* open, then answer for those of answered, the ones in silent without a   *)
(* quantity; the queries of the other orders asked about fail.             *)
(* A group that has an intent is left to the worker, and the shadows count *)
(* as such: a group still moving after its first pass has seen its last.   *)
Pass(listed, answered, silent) ==
    LET first    == [p \in Platforms |-> IF p \in listed THEN venue[p].status ELSE status[p]]
        targets  == {p \in Platforms : Refreshable(first, p)}
        newStat  == [p \in Platforms |-> IF p \in answered THEN venue[p].status ELSE first[p]]
        newLed   == [p \in Platforms |-> IF p \in answered THEN RefreshedLedger(p, p \notin silent)
                                         ELSE ledger[p]]
        broken   == (failed \cup targets) \ answered
        advanced == IF Moving THEN Advanced(newStat, newLed) ELSE group
        expired  == advanced \in {"opening", "closing"} /\ Hopeless(newStat, broken) # {}
        detached == Detached(targets, broken)
        late     == Late(answered, newStat, newLed)
        between  == IF expired \/ detached \/ late THEN "manual_intervention" ELSE advanced
    IN /\ Moving => \A p \in Platforms : shadow[p] = "NONE"
       /\ listed \subseteq Listed /\ answered \subseteq targets /\ silent \subseteq answered
       /\ \A p \in silent : venue[p].filled > 0
       /\ status' = newStat /\ ledger' = newLed /\ failed' = broken
       /\ group' = IF Residue(between) THEN "manual_intervention" ELSE between
       /\ events' = events \cup (IF expired THEN {"external_reconcile_required"} ELSE {})
                           \cup (IF detached THEN {"detached_order_reconcile_required"} ELSE {})
                           \cup (IF late THEN {"late_external_fill"} ELSE {})
                           \cup (IF Residue(between) THEN {"residual_position"} ELSE {})
       /\ shadow' = Mirrored(newStat, newLed)
       /\ UNCHANGED <<venue, old, held>>

-----------------------------------------------------------------------------
(* Platforms, time, and the Position table that other writers fill.        *)
VenueMoves(p) ==
    /\ venue[p].status \in {"accepted", "partially_filled"}
    /\ \E r \in VenueRow :
           /\ Plausible(r) /\ r # venue[p] /\ r.status \notin {"accepted", "rejected"}
           /\ r.filled >= venue[p].filled
           /\ venue' = [venue EXCEPT ![p] = r]
    /\ UNCHANGED <<status, ledger, failed, old, group, events, held, shadow>>

GrowOld(p) ==
    /\ p \notin old
    /\ old' = old \cup {p}
    /\ UNCHANGED <<venue, status, ledger, failed, group, events, held, shadow>>

PositionSynced(p) ==
    /\ held' \in {held \cup {p}, held \ {p}} /\ held' # held
    /\ UNCHANGED <<venue, status, ledger, failed, old, group, events, shadow>>

Next ==
    \/ \E listed, answered \in SUBSET Platforms : \E silent \in SUBSET answered :
           Pass(listed, answered, silent)
    \/ \E p \in Platforms : VenueMoves(p) \/ GrowOld(p) \/ PositionSynced(p)

Spec == Init /\ [][Next]_vars

-----------------------------------------------------------------------------
(* Properties.                                                             *)

(* The two ways a fill comes into the ledger, the cumulative quantity of   *)
(* the order and the list of its trades, never count a lot twice, however  *)
(* often and in whatever order they are used (_refresh_order).             *)
LegacyLedgerReal == \A p \in Platforms : ledger[p] <= venue[p].filled

(* A group that the orders opened or closed has a fill on both platforms.  *)
OpenOnBothSides ==
    group \in {"open", "closed"} => \A p \in Platforms : venue[p].filled > 0 /\ ledger[p] > 0

(* A shadow intent is COMPLETED only when its order is wholly filled, and  *)
(* FAILED only when it is not and never will be.                           *)
ShadowIsReal ==
    \A p \in Platforms :
        /\ shadow[p] = "COMPLETED" => venue[p].status = "filled"
        /\ shadow[p] = "FAILED" => venue[p].status \in FailedStatuses
=============================================================================
