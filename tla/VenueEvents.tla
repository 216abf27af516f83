---------------------------- MODULE VenueEvents ----------------------------
(***************************************************************************)
(* What becomes of the reports about one order: the queue the network      *)
(* threads fill, the batches the worker projects, and the three writers of *)
(* the ledger (Fill rows): answers of the gateway, fill events of the      *)
(* private stream, and the reconciler of the API process, which asks the   *)
(* venue about legacy orders on its own.                                   *)
(*                                                                         *)
(* A lot is one trade, so that a fill event is named by its lot.  Lots are *)
(* filled in order: a venue that has filled n of them has filled 1..n.     *)
(***************************************************************************)
EXTENDS ExecutionStatus, FiniteSets, Sequences

CONSTANTS
    Lots,       \* quantity of the order
    MaxDrops,   \* bound: times the stream goes down
    MaxRepeats, \* bound: events the stream sends again
    Refreshing  \* the reconciler of the API process runs beside the worker

EventsAssumption ==
    /\ Lots \in Nat \ {0} /\ MaxDrops \in Nat /\ MaxRepeats \in Nat
    /\ Refreshing \in BOOLEAN

VARIABLES
    venue,    \* the order at its venue
    queue,    \* venue_event_queue
    seen,     \* ExecutionEvent rows that came from the stream
    order,    \* VenueOrder row
    legacy,   \* status of the legacy Order row
    ledger,   \* sum of its Fill rows
    reply,    \* answer of submit_order the worker has not recorded yet
    gap,      \* _reconciliation_requested
    refresh,  \* what the reconciler read of venue and ledger, before it writes
    drops, repeats,
    missed    \* history: an event was lost before it was projected

vars == <<venue, queue, seen, order, legacy, ledger, reply, gap, refresh, drops, repeats, missed>>

Report == [status : OrderStatus, filled : 0..Lots]
None   == [status |-> "NONE", filled |-> 0]

(* VenueEvent: an order snapshot with its cumulative quantity, or one fill. *)
OrderEvents == [type : {"ORDER"}, status : VenueStatus, filled : 0..Lots]
FillEvents  == [type : {"FILL"}, lot : 1..Lots]
Event       == OrderEvents \cup FillEvents

OrderEvent(r) == [type |-> "ORDER", status |-> r.status, filled |-> r.filled]
FillEvent(n)  == [type |-> "FILL", lot |-> n]

Told == {e.lot : e \in seen \cap FillEvents}

TypeOK ==
    /\ venue \in Report /\ order \in Report
    /\ queue \in Seq(Event)
    /\ seen \subseteq Event
    /\ legacy \in OrderStatus
    /\ ledger \in Nat
    /\ reply \in Report
    /\ gap \in BOOLEAN
    /\ refresh \in [at : Report, recorded : Nat]
    /\ drops \in 0..MaxDrops /\ repeats \in 0..MaxRepeats
    /\ missed \in BOOLEAN

NoRefresh == [at |-> None, recorded |-> 0]

Init ==
    /\ venue = None /\ order = [status |-> "INITIALIZED", filled |-> 0]
    /\ legacy = "INITIALIZED"
    /\ queue = << >> /\ seen = {}
    /\ ledger = 0
    /\ reply = None /\ gap = FALSE /\ refresh = NoRefresh
    /\ drops = 0 /\ repeats = 0 /\ missed = FALSE

-----------------------------------------------------------------------------
(* The venue and its private stream.                                       *)

(* What the venue may report after r, or of a new order.                   *)
Successors(r) ==
    {q \in [status : {"ACCEPTED", "PARTIALLY_FILLED", "FILLED", "CANCELED"}, filled : 0..Lots] :
        /\ q.filled >= r.filled /\ q # r
        /\ q.status = "ACCEPTED" => r = None /\ q.filled = 0
        /\ q.status = "PARTIALLY_FILLED" => q.filled \in (r.filled + 1)..(Lots - 1)
        /\ q.status = "FILLED" <=> q.filled = Lots
        /\ q.status = "CANCELED" /\ r # None => q.filled = r.filled}

(* The fills of a step, each an event, and the order snapshot, in either   *)
(* order: Binance sends both in one message, Hyperliquid on two channels.  *)
Messages(from, to) ==
    LET fills == [n \in 1..(to.filled - from.filled) |-> FillEvent(from.filled + n)]
    IN {fills \o <<OrderEvent(to)>>, <<OrderEvent(to)>> \o fills}

VenueMoves(to) ==
    /\ venue' = to
    /\ \E news \in Messages(venue, to) : queue' = queue \o news

(* _submit_dispatch_command: the order is taken; the answer waits to be    *)
(* recorded, or is lost.                                                   *)
Submit ==
    /\ venue = None /\ reply = None /\ order.status = "INITIALIZED"
    /\ \E to \in Successors(None) :
           /\ VenueMoves(to)
           /\ reply' \in {to, [status |-> "UNKNOWN", filled |-> 0]}
    /\ UNCHANGED <<seen, order, legacy, ledger, gap, refresh, drops, repeats, missed>>

Trade ==
    /\ venue.status \in {"ACCEPTED", "PARTIALLY_FILLED"}
    /\ \E to \in Successors(venue) : VenueMoves(to)
    /\ UNCHANGED <<seen, order, legacy, ledger, reply, gap, refresh, drops, repeats, missed>>

(* The connection drops with what it still had to deliver; coming back, it *)
(* asks for reconciliation.                                                *)
Drop ==
    /\ drops < MaxDrops
    /\ drops' = drops + 1
    /\ \E n \in 0..Len(queue) : queue' = SubSeq(queue, 1, n)
    /\ missed' = (missed \/ queue' # queue)
    /\ gap' = TRUE
    /\ UNCHANGED <<venue, seen, order, legacy, ledger, reply, refresh, repeats>>

(* After a subscription a stream sends recent events again.                *)
Repeat ==
    /\ repeats < MaxRepeats
    /\ repeats' = repeats + 1
    /\ \E e \in seen \cup {queue[n] : n \in DOMAIN queue} : queue' = Append(queue, e)
    /\ UNCHANGED <<venue, seen, order, legacy, ledger, reply, gap, refresh, drops, missed>>

-----------------------------------------------------------------------------
(* The worker.  Its transactions do not overlap each other.                *)

Idle == reply = None

(* _apply_gateway_result and _sync_legacy_order_and_fills.                 *)
ApplyReport(r) ==
    /\ order' = GatewayOrder(order, r, Lots)
    /\ legacy' = order'.status
    /\ ledger' = Larger(ledger, order'.filled)

RecordReply ==
    /\ reply # None
    /\ IF reply.status = "UNKNOWN"
       THEN /\ order' = [order EXCEPT !.status = "UNKNOWN"] /\ legacy' = "UNKNOWN"
            /\ UNCHANGED ledger
       ELSE ApplyReport(reply)
    /\ reply' = None
    /\ UNCHANGED <<venue, queue, seen, gap, refresh, drops, repeats, missed>>

(* reconcile_execution_orders_once: asked for, and only orders that are    *)
(* not terminal here; the query may fail.                                  *)
Query ==
    /\ Idle /\ gap
    /\ gap' = FALSE
    /\ \/ /\ order.status \in NonTerminalOrderStatuses /\ venue # None
          /\ ApplyReport(venue)
       \/ UNCHANGED <<order, legacy, ledger>>
    /\ UNCHANGED <<venue, queue, seen, reply, refresh, drops, repeats, missed>>

(* project_venue_events_once for the first n events of the queue.  Rows    *)
(* added by the batch are not flushed before its end: the totals that the  *)
(* fill events add to, and the search for a known id, see the rows of      *)
(* earlier batches only.  An id that comes twice in the batch violates the *)
(* unique key, and the whole batch is rolled back; the queue has lost it.  *)
Taken(n)  == SubSeq(queue, 1, n)
Fresh(b)  == {k \in DOMAIN b : b[k] \notin seen}
Clashes(b) == \E j, k \in Fresh(b) : j # k /\ b[j] = b[k]

(* A bug the runs must notice: a fill is added to what the order shows.    *)
QuantitiesOnTop(b) ==
    {b[k].filled : k \in {j \in Fresh(b) : b[j].type = "ORDER"}}
    \cup {order.filled + 1 : k \in {j \in Fresh(b) : b[j].type = "FILL"}}

Quantities(b) ==
    {b[k].filled : k \in {j \in Fresh(b) : b[j].type = "ORDER"}}
    \cup {Cardinality(Told) + 1 : k \in {j \in Fresh(b) : b[j].type = "FILL"}}

Highest(S, least) == CHOOSE x \in S \cup {least} : \A y \in S \cup {least} : y <= x

Projected(b) ==
    LET filled == Highest(Quantities(b), order.filled)
        last   == b[CHOOSE k \in Fresh(b) : \A j \in Fresh(b) : j <= k]
    IN [filled |-> filled,
        status |-> IF last.type = "ORDER" THEN last.status
                   ELSE IF filled >= Lots THEN "FILLED" ELSE "PARTIALLY_FILLED"]

ProjectBatch ==
    /\ Idle /\ queue # << >>
    /\ \E n \in 1..Len(queue) :
        LET b == Taken(n) IN
        /\ queue' = SubSeq(queue, n + 1, Len(queue))
        /\ IF Fresh(b) = {} \/ Clashes(b)
           THEN /\ missed' = (missed \/ Fresh(b) # {})
                /\ UNCHANGED <<seen, order, legacy, ledger>>
           ELSE /\ seen' = seen \cup {b[k] : k \in Fresh(b)}
                /\ order' = Projected(b)
                /\ legacy' = order'.status
                /\ ledger' = ledger + Cardinality({k \in Fresh(b) : b[k].type = "FILL"})
                /\ UNCHANGED missed
    /\ UNCHANGED <<venue, reply, gap, refresh, drops, repeats>>

-----------------------------------------------------------------------------
(* The reconciler of the API process (_refresh_order), a transaction that  *)
(* overlaps those of the worker: it asks the venue and sums the rows, then *)
(* adds what is missing.  It leaves the VenueOrder alone.                  *)
RefreshRead ==
    /\ Refreshing /\ refresh = NoRefresh
    /\ legacy \in {"INITIALIZED", "ACCEPTED", "PARTIALLY_FILLED"} /\ venue # None
    /\ refresh' = [at |-> venue, recorded |-> ledger]
    /\ UNCHANGED <<venue, queue, seen, order, legacy, ledger, reply, gap, drops, repeats, missed>>

RefreshWrite ==
    /\ refresh # NoRefresh
    /\ legacy' = refresh.at.status
    /\ ledger' = ledger + Larger(refresh.at.filled - refresh.recorded, 0)
    /\ refresh' = NoRefresh
    /\ UNCHANGED <<venue, queue, seen, order, reply, gap, drops, repeats, missed>>

Next ==
    \/ Submit \/ Trade \/ Drop \/ Repeat
    \/ RecordReply \/ Query \/ ProjectBatch
    \/ RefreshRead \/ RefreshWrite

Spec == Init /\ [][Next]_vars

-----------------------------------------------------------------------------
(* Properties.                                                             *)

(* The order never shows more than the venue has filled: repeated, late    *)
(* and reordered reports are not counted twice, whichever of the two       *)
(* countings (cumulative, event by event) they go through.                 *)
NeverOvercounted == order.filled <= venue.filled

(* When every report has been projected and none was lost, the ledger      *)
(* lacks no fill of the venue, ...                                         *)
Drained == queue = << >> /\ reply = None /\ ~missed
LedgerCovers == Drained => ledger >= venue.filled

(* ... and an order the venue has wholly filled shows its whole quantity,  *)
(* however its reports were ordered and cut into batches.                  *)
FilledIsKnown ==
    Drained /\ venue.status = "FILLED" => order = [status |-> "FILLED", filled |-> Lots]
=============================================================================
