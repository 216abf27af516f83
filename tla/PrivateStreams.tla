--------------------------- MODULE PrivateStreams ---------------------------
(***************************************************************************)
(* How a report about an order reaches the worker: the user stream of a    *)
(* venue (Binance, Hyperliquid) or the order poller of the MT5 gateway     *)
(* with its Redis stream, the queue of the worker's process, the queries   *)
(* after a restart of the worker or a gap in a stream.                     *)
(*                                                                         *)
(* The reports of an order are numbered and cumulative: who knows one      *)
(* knows all before it.  The last one, MaxReports, says that the order is  *)
(* over.                                                                   *)
(***************************************************************************)
EXTENDS Integers, Sequences, Functions

CONSTANTS
    MaxReports,   \* reports about the order
    MaxFaults     \* bound: broken connections, restarts

StreamsAssumption == MaxReports \in Nat \ {0} /\ MaxFaults \in Nat

Reports == 0..MaxReports
Kinds   == {"binance", "hyperliquid", "mt5"}

VARIABLES
    kind,        \* where the order is
    report,      \* the latest report there is; 0 before the order
    connected,   \* _private_connected; for MT5: the reader has a cursor
    everConnected,
    wire,        \* what the stream holds for the worker
    watched,     \* the poller's: the order is in _orders,
    lastState,   \*     and the last report it has emitted
    queue,       \* venue_event_queue
    requested,   \* _reconciliation_requested
    recovering,  \* recovery_pending
    known,       \* what the worker has projected
    early,       \* history: reports there were at the first connection,
    gaveUp,      \*     when a query about them failed,
    unasked,     \*     a recovery was over without an answer about the order,
    restarted,   \*     the gateway has forgotten what it watched
    faults

stream == <<connected, everConnected, wire>>
poller == <<watched, lastState>>
worker == <<queue, requested, recovering, known>>
past   == <<early, gaveUp, unasked, restarted, faults>>
vars   == <<kind, report, stream, poller, worker, past>>

TypeOK ==
    /\ kind \in Kinds
    /\ report \in Reports /\ known \in Reports /\ lastState \in Reports
    /\ connected \in BOOLEAN /\ everConnected \in BOOLEAN
    /\ wire \in Seq(Reports) /\ queue \in Seq(Reports)
    /\ watched \in BOOLEAN /\ requested \in BOOLEAN /\ recovering \in BOOLEAN
    /\ early \in Reports /\ gaveUp \in Reports
    /\ unasked \in BOOLEAN /\ restarted \in BOOLEAN
    /\ faults \in 0..MaxFaults

Init ==
    /\ kind \in Kinds
    /\ report = 0 /\ known = 0 /\ lastState = 0
    /\ connected = FALSE /\ everConnected = FALSE /\ wire = << >>
    /\ watched = FALSE
    /\ queue = << >> /\ requested = FALSE /\ recovering = TRUE
    /\ early = 0 /\ gaveUp = 0 /\ unasked = FALSE /\ restarted = FALSE
    /\ faults = 0

Fault        == faults < MaxFaults /\ faults' = faults + 1
Websocket    == kind # "mt5"
Over         == MaxReports

-----------------------------------------------------------------------------
(* The order.                                                              *)

(* private_stream_ready: nothing is submitted to a venue whose stream is   *)
(* down.                                                                   *)
StreamReady == Websocket => connected

(* submit_order, of a command that run_execution_outbox_once has claimed;  *)
(* the answer is the first report.  MT5: the gateway watches the ticket.   *)
Submit ==
    /\ report = 0 /\ ~recovering /\ StreamReady
    /\ report' = 1 /\ known' = 1
    /\ watched' = ~Websocket
    /\ UNCHANGED <<kind, stream, lastState, queue, requested, recovering, past>>

(* The order moves on; a stream that is connected has something to tell.   *)
VenueReports ==
    /\ report \in 1..(MaxReports - 1)
    /\ report' = report + 1
    /\ wire' = IF Websocket /\ connected THEN Append(wire, report') ELSE wire
    /\ UNCHANGED <<kind, connected, everConnected, poller, worker, past>>

-----------------------------------------------------------------------------
(* The user streams of Binance and Hyperliquid.                            *)

(* A bug the runs must notice: a stream that comes back is simply back.    *)
RequestReconciliationNever == UNCHANGED requested

(* _emit_stream_event(RECONCILIATION_REQUIRED): enqueue_venue_event sets   *)
(* the flag at once, from the network thread.                              *)
RequestReconciliation == requested' = TRUE

(* _private_loop and _main: after the first connection, each new one asks  *)
(* for a reconciliation.                                                   *)
Connect ==
    /\ Websocket /\ ~connected
    /\ connected' = TRUE /\ everConnected' = TRUE
    /\ wire' = << >>
    /\ IF everConnected THEN RequestReconciliation /\ UNCHANGED early
       ELSE early' = report /\ UNCHANGED requested
    /\ UNCHANGED <<kind, report, poller, queue, recovering, known,
                   gaveUp, unasked, restarted, faults>>

Disconnect ==
    /\ Websocket /\ connected /\ Fault
    /\ connected' = FALSE /\ wire' = << >>
    /\ UNCHANGED <<kind, report, everConnected, poller, worker, early, gaveUp, unasked, restarted>>

(* process_private_message of listenKeyExpired: a request, and the loop    *)
(* ends the connection.                                                    *)
ListenKeyExpires ==
    /\ kind = "binance" /\ connected /\ Fault
    /\ RequestReconciliation
    /\ connected' = FALSE /\ wire' = << >>
    /\ UNCHANGED <<kind, report, everConnected, poller, queue, recovering, known,
                   early, gaveUp, unasked, restarted>>

(* A message is read and handled: put into the queue.                      *)
Receive ==
    /\ wire # << >>
    /\ queue' = Append(queue, Head(wire)) /\ wire' = Tail(wire)
    /\ UNCHANGED <<kind, report, connected, everConnected, poller, requested, recovering, known, past>>

-----------------------------------------------------------------------------
(* The poller of the gateway and the reader of its events.                 *)

(* A bug the runs must notice: an order that is over is forgotten before   *)
(* it is emitted.                                                          *)
PollForgets ==
    /\ kind = "mt5" /\ watched
    /\ lastState # report
    /\ lastState' = report /\ watched' = (report # Over)
    /\ IF report = Over THEN UNCHANGED <<connected, wire>>
       ELSE connected' = TRUE /\ wire' = Append(wire, report)

(* poll_once: what has changed is emitted; what is over is no longer       *)
(* watched.  The reader of the worker starts from "$" every time until its *)
(* first message: one that comes between two reads is never read.          *)
Poll ==
    /\ kind = "mt5" /\ watched
    /\ lastState # report
    /\ lastState' = report /\ watched' = (report # Over)
    /\ \/ connected' = TRUE /\ wire' = Append(wire, report)
       \/ ~connected /\ UNCHANGED <<connected, wire>>

PollerStep ==
    /\ Poll
    /\ UNCHANGED <<kind, report, everConnected, worker, past>>

(* The orders of _orders are in memory only.                               *)
GatewayRestarts ==
    /\ kind = "mt5" /\ watched /\ Fault
    /\ watched' = FALSE /\ lastState' = 0 /\ restarted' = TRUE
    /\ UNCHANGED <<kind, report, stream, worker, early, gaveUp, unasked>>

-----------------------------------------------------------------------------
(* The worker.                                                             *)

(* The newest of some reports.                                             *)
Newest(some) == {r \in some : \A other \in some : other <= r}

Project ==
    /\ ~recovering /\ queue # << >>
    /\ known' \in Newest({known} \cup Range(queue))
    /\ queue' = << >>
    /\ UNCHANGED <<kind, report, stream, poller, requested, recovering, past>>

(* reconcile_execution_orders_once: an order that is not over here is      *)
(* asked about; a query that fails is passed over.                         *)
Answered   == known' = report /\ UNCHANGED gaveUp
PassedOver == known < Over /\ report > 0 /\ gaveUp' = report /\ UNCHANGED known

(* consume_reconciliation_request: the request is spent before the query.  *)
Reconcile ==
    /\ ~recovering /\ requested
    /\ requested' = FALSE
    /\ Answered \/ PassedOver
    /\ UNCHANGED <<kind, report, stream, poller, queue, recovering, early, unasked, restarted, faults>>

(* _recover_execution_state, before the first command of a process.        *)
Recover ==
    /\ recovering
    /\ recovering' = FALSE
    /\ \/ Answered /\ unasked' = FALSE
       \/ PassedOver /\ unasked' = TRUE
    /\ UNCHANGED <<kind, report, stream, poller, queue, requested, early, restarted, faults>>

(* Streams, queue and requests are in memory.                              *)
WorkerRestarts ==
    /\ Fault
    /\ connected' = FALSE /\ everConnected' = FALSE /\ wire' = << >>
    /\ queue' = << >> /\ requested' = FALSE /\ recovering' = TRUE
    /\ UNCHANGED <<kind, report, poller, known, early, gaveUp, unasked, restarted>>

Next ==
    \/ Submit \/ VenueReports
    \/ Connect \/ Disconnect \/ ListenKeyExpires \/ Receive
    \/ PollerStep \/ GatewayRestarts
    \/ Project \/ Reconcile \/ Recover \/ WorkerRestarts

Spec == Init /\ [][Next]_vars

-----------------------------------------------------------------------------
(* Properties.                                                             *)

OnTheWay(r) ==
    \/ \E s \in {wire, queue} : \E n \in DOMAIN s : s[n] = r
    \/ kind = "mt5" /\ watched /\ lastState < r

(* While its stream stands, the latest report of an order is known to the  *)
(* worker, on its way there, or about to be asked for; but for those older *)
(* than the first connection of this process, those a query has passed     *)
(* over, and those of a gateway that was restarted.                        *)
NoSilentLoss ==
    connected /\ ~restarted /\ report > early /\ report > gaveUp =>
        known >= report \/ OnTheWay(report) \/ requested \/ recovering

(* Recovery is over only when each unresolved order was answered for (what *)
(* worker_main.py says of a step that fails: that it is retried).          *)
RecoveryIsRetried == ~recovering => ~unasked
=============================================================================
