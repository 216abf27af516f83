---------------------------- MODULE LivePositions ----------------------------
(***************************************************************************)
(* The positions table of one venue and the opening it blocks              *)
(* (sync_live_positions, venue_events.py, execution/readiness.py).  The    *)
(* rows of MT5 are replaced by snapshots that are polled; those of         *)
(* Hyperliquid by a snapshot of the account in the stream, which clears    *)
(* them before it gives them one by one; those of Binance follow one event *)
(* for each change, on top of a snapshot taken when the worker starts.  An *)
(* opening is refused when a row is not explained by a group.              *)
(***************************************************************************)
EXTENDS Integers, SequencesExt

CONSTANTS
  Kinds,         \* of "polled", "snapshot", "delta": the venues looked at
  Positions,     \* the positions an account can hold: symbol and side
  Own,           \* the one that the group has on this venue, of size 1
  MaxSize,       \* bound: the size of a position
  MaxChanges,    \* bound: changes of the account
  MaxFaults,     \* bound: failed queries and stops of the worker
  EarlyUpdates,  \* whether the account may change before the first snapshot
  SilentErrors   \* whether the terminal may answer a query with nothing

PositionsAssumption ==
  /\ Kinds \subseteq {"polled", "snapshot", "delta"}
  /\ IsFiniteSet(Positions) /\ Own \in Positions
  /\ MaxSize \in Nat \ {0} /\ MaxChanges \in Nat /\ MaxFaults \in Nat
  /\ EarlyUpdates \in BOOLEAN /\ SilentErrors \in BOOLEAN

VARIABLES
  kind,     \* how the table follows this venue
  account,  \* the positions at the venue
  rows,     \* the positions in the table
  stream,   \* the events not yet projected
  cache,    \* the positions the websocket knows: a function on some of them
  ready,    \* _positions_ready
  taken,    \* the snapshot that a sync has and not yet committed, or {}
  worker,   \* "down", "starting" or "up"
  missed,   \* positions whose last change nothing on its way will show
  group,    \* the status of the group, "none" before it is opened
  changes, faults

vars == <<kind, account, rows, stream, cache, ready, taken, worker, missed, group, changes, faults>>

Nothing == [p \in Positions |-> 0]

Init ==
  /\ kind \in Kinds
  /\ account = Nothing /\ rows = Nothing
  /\ stream = <<>> /\ cache = Nothing /\ ready = FALSE /\ taken = {}
  /\ worker = "down" /\ missed = {} /\ group = "none"
  /\ changes = 0 /\ faults = 0

Fails == faults < MaxFaults /\ faults' = faults + 1

-----------------------------------------------------------------------------
(* What the stream says of a change to account a: Hyperliquid sends the    *)
(* account, and then each position it still has.                           *)
Clear == [clears |-> TRUE, position |-> Own, size |-> 0]
Event(p, size) == [clears |-> FALSE, position |-> p, size |-> size]
Listed(a) ==
  LET held == SetToSeq({x \in Positions : a[x] > 0})
  IN [k \in 1 .. Len(held) |-> Event(held[k], a[held[k]])]
Reported(a, p) ==
  IF kind = "snapshot" THEN <<Clear>> \o Listed(a)
  ELSE <<Event(p, a[p])>>

(* The venue changes a position, and tells it while the worker listens.    *)
Change(p, size) ==
  LET a == [account EXCEPT ![p] = size]
  IN /\ changes < MaxChanges /\ changes' = changes + 1
     /\ EarlyUpdates \/ kind # "delta" \/ worker # "starting"
     /\ account' = a
     /\ IF kind = "polled" \/ worker = "down"
          THEN missed' = missed \cup {p} /\ UNCHANGED <<stream, cache, ready>>
          ELSE /\ stream' = stream \o Reported(a, p)
               /\ cache' = IF kind = "snapshot" THEN a ELSE [cache EXCEPT ![p] = size]
               /\ ready' = TRUE
               /\ UNCHANGED missed
     /\ UNCHANGED <<kind, rows, taken, worker, faults>>

(* A trade of the group, or one the system knows nothing of. *)
OpenFill == group = "opening" /\ account[Own] < MaxSize
            /\ Change(Own, account[Own] + 1) /\ group' = "open"
CloseFill == group = "closing" /\ account[Own] > 0
             /\ Change(Own, account[Own] - 1) /\ group' = "closed"
External == \E p \in Positions, size \in 0 .. MaxSize :
              account[p] # size /\ Change(p, size) /\ UNCHANGED group

-----------------------------------------------------------------------------
(* A bug the run must notice: a position that was closed keeps its row.    *)
AppliedOpenOnly(e) ==
  IF e.clears THEN Nothing
  ELSE IF e.size = 0 THEN rows ELSE [rows EXCEPT ![e.position] = e.size]

(* _apply_account with positions_snapshot, and _apply_position. *)
Applied(e) == IF e.clears THEN Nothing ELSE [rows EXCEPT ![e.position] = e.size]

Project ==
  /\ worker = "up" /\ stream # <<>>
  /\ rows' = Applied(Head(stream)) /\ stream' = Tail(stream)
  /\ UNCHANGED <<kind, account, cache, ready, taken, worker, missed, group, changes, faults>>

-----------------------------------------------------------------------------
(* get_positions: what the websocket knows, once it knows anything, or the *)
(* account itself.                                                         *)
Snapshot == IF kind # "polled" /\ ready THEN cache ELSE account

(* sync_live_positions up to its commit, with the query, which seeds what  *)
(* the websocket knows: by the timer of the API process for MT5, and once  *)
(* by a worker that starts.                                                *)
MaySync == taken = {} /\ (kind = "polled" \/ worker = "starting")

(* A terminal that answers with nothing is taken to have no positions.     *)
Answers == {Snapshot} \cup (IF SilentErrors /\ kind = "polled" THEN {Nothing} ELSE {})

Take ==
  /\ MaySync
  /\ \E answer \in Answers : taken' = {answer}
  /\ cache' = IF kind = "polled" THEN cache ELSE Snapshot
  /\ ready' = (kind # "polled")
  /\ missed' = {}
  /\ UNCHANGED <<kind, account, rows, stream, worker, group, changes, faults>>

(* A bug the run must notice: the rows go although there is no snapshot.   *)
WithoutSnapshotEmptied == Nothing

(* The query fails: the rows stay as they are. *)
WithoutSnapshot == rows

TakeFails ==
  /\ MaySync /\ Fails
  /\ rows' = WithoutSnapshot
  /\ worker' = IF worker = "starting" THEN "up" ELSE worker
  /\ UNCHANGED <<kind, account, stream, cache, ready, taken, missed, group, changes>>

Commit ==
  /\ taken # {} /\ taken' = {}
  /\ rows' \in taken
  /\ worker' = IF worker = "starting" THEN "up" ELSE worker
  /\ UNCHANGED <<kind, account, stream, cache, ready, missed, group, changes, faults>>

(* The worker starts with a new connection, and stops with what it has not *)
(* projected.                                                              *)
WorkerStarts ==
  /\ worker = "down" /\ taken = {}
  /\ worker' = "starting" /\ cache' = Nothing /\ ready' = FALSE
  /\ UNCHANGED <<kind, account, rows, stream, taken, missed, group, changes, faults>>

WorkerStops ==
  /\ worker = "up" /\ taken = {} /\ Fails
  /\ worker' = "down" /\ stream' = <<>>
  /\ missed' = missed \cup (IF stream = <<>> THEN {} ELSE Positions)
  /\ UNCHANGED <<kind, account, rows, cache, ready, taken, group, changes>>

-----------------------------------------------------------------------------
(* _live_groups_for_position: a group that is closed explains any size,    *)
(* another one only its own.                                               *)
Explained(p) == p = Own /\ group # "none" /\ (group = "closed" \/ rows[p] = 1)

(* _position_safety_checks: an orphan, or what is left of a closed group.  *)
Blocked == \E p \in Positions : rows[p] > 0 /\ (~Explained(p) \/ group = "closed")

(* create_open_intent and create_close_intent. *)
Open ==
  /\ group = "none" /\ ~Blocked /\ group' = "opening"
  /\ UNCHANGED <<kind, account, rows, stream, cache, ready, taken, worker, missed, changes, faults>>
Close ==
  /\ group = "open" /\ group' = "closing"
  /\ UNCHANGED <<kind, account, rows, stream, cache, ready, taken, worker, missed, changes, faults>>

Next ==
  \/ OpenFill \/ CloseFill \/ External \/ Project
  \/ Take \/ TakeFails \/ Commit
  \/ WorkerStarts \/ WorkerStops \/ Open \/ Close

Spec == Init /\ [][Next]_vars

-----------------------------------------------------------------------------
Sizes == [Positions -> 0 .. MaxSize]

TypeOK ==
  /\ kind \in Kinds /\ account \in Sizes /\ rows \in Sizes
  /\ \A k \in DOMAIN stream : stream[k].position \in Positions /\ stream[k].size \in 0 .. MaxSize
  /\ cache \in Sizes /\ ready \in BOOLEAN /\ taken \subseteq Sizes
  /\ worker \in {"down", "starting", "up"} /\ missed \subseteq Positions
  /\ group \in {"none", "opening", "open", "closing", "closed"}
  /\ changes \in 0 .. MaxChanges /\ faults \in 0 .. MaxFaults

Settled == stream = <<>> /\ taken = {}

(* The table never loses a position it has once seen, nor keeps one that   *)
(* is closed, by a failed query, a restart or an older event: when nothing *)
(* is on its way it shows the account, but for changes no one was told of. *)
TableFollows == Settled => \A p \in Positions \ missed : rows[p] = account[p]

(* A venue is ready for an opening only when every position it was told of *)
(* belongs to a group that is not closed, and has its size.                *)
ReadyIsExplained ==
  Settled /\ ~Blocked =>
    \A p \in Positions \ missed :
       account[p] > 0 => (p = Own /\ account[p] = 1 /\ group \notin {"none", "closed"})
=============================================================================
