--------------------------- MODULE Mt5Tradability ---------------------------
(***************************************************************************)
(* Whether an order may be sent to MT5 now: the session of one symbol,     *)
(* from the calendar or the gateway (market/mt5_sessions.py), the cache of *)
(* order checks and quarantines in Redis (market/mt5_tradability.py), and  *)
(* the gate the execution worker passes before it sends                    *)
(* (_mt5_dispatch_block_reason).  The worker and the refresh job are two   *)
(* processes that share Redis; each update reads the quarantine and writes *)
(* the state in two commands.                                              *)
(***************************************************************************)
EXTENDS Integers, FiniteSets

CONSTANTS
  Sides,          \* of "buy" and "sell"
  Modes,          \* trade modes, of those Permitted names
  Calendars,      \* statuses of Mt5Schedule
  SessionTTL,     \* how long a process keeps a session (30 s)
  StateTTL,       \* tradability_cache_ttl_ms
  Quarantine,     \* trade_reject_quarantine_seconds
  MaxTime,        \* bound: the clock
  MaxLosses,      \* bound: losses of the keys in Redis
  MaxChanges      \* bound: changes of the calendar, the mode and the tick

GateAssumption ==
  /\ "none" \in Calendars /\ "full" \in Modes
  /\ SessionTTL \in Nat /\ StateTTL \in Nat /\ Quarantine \in Nat
  /\ MaxTime \in Nat /\ MaxLosses \in Nat /\ MaxChanges \in Nat

Actions == {"open", "close"}
Processes == {"worker", "refresher"}
None == [at |-> -1]

VARIABLES
  now,
  calendar,   \* the status local_schedule_state gives, see Mt5Schedule
  mode,       \* the trade mode of the symbol in the terminal
  ticking,    \* its last tick is recent and has both prices
  session,    \* the gateway session the worker remembers
  states,     \* the hash of TradabilityState, by side
  key,        \* when the quarantine key of a side expires in Redis
  row,        \* the persisted quarantine of a side, 0 for none
  pending,    \* the quarantine written but not yet committed
  draft,      \* per process, the update under way
  left,       \* sides the refresh job has still to check
  gate,       \* the command the worker is about to send
  trusted,    \* history: the quarantines were loaded since Redis last lost them
  losses,
  changes     \* how often the market or the terminal changed

vars == <<now, calendar, mode, ticking, session, states, key, row, pending, draft, left, gate,
          trusted, losses, changes>>

NoGate == [step |-> "idle", action |-> "open", side |-> "buy"]

-----------------------------------------------------------------------------
(* The permissions of a trade mode, as _gateway_tick_state reads it; an    *)
(* order that opens long is a buy, and one that closes long is a sell.     *)
Permitted(trade, action, side) ==
  CASE trade = "full" -> TRUE
    [] trade = "long_only" -> action = "close" \/ side = "buy"
    [] trade = "short_only" -> action = "close" \/ side = "sell"
    [] trade = "close_only" -> action = "close"
    [] OTHER -> FALSE

(* _from_local_schedule: what a calendar that is not open allows.          *)
CalendarAllows(status, action) == status = "reduce_only" /\ action = "close"

(* mt5_session_state: the calendar first; then the remembered session; then*)
(* the gateway, whose failure is remembered as well (_remember_session).   *)
Remembered ==
  IF session # None /\ now - session.at < SessionTTL THEN session
  ELSE [at |-> now, mode |-> IF ticking THEN mode ELSE "disabled"]

(* mt5_action_allowed *)
SessionAllows(action, side) ==
  IF calendar \in {"none", "normal_trade"}
  THEN Permitted(Remembered.mode, action, side)
  ELSE CalendarAllows(calendar, action)

(* _active_block *)
Blocked(side) == key[side] > now

(* is_fresh_allowed, and allowed_snapshot for the pairs of a scan.         *)
IsFreshAllowed(side) ==
  /\ ~Blocked(side)
  /\ states[side] # None
  /\ now - states[side].at <= StateTTL
  /\ states[side].allowed

AllowedSnapshot(sides) == {s \in sides : IsFreshAllowed(s)}

-----------------------------------------------------------------------------
Init ==
  /\ now = 0 /\ calendar = "none" /\ mode = "full" /\ ticking = TRUE
  /\ session = None /\ states = [s \in Sides |-> None]
  /\ key = [s \in Sides |-> 0] /\ row = [s \in Sides |-> 0] /\ pending = [s \in Sides |-> 0]
  /\ draft = [p \in Processes |-> None] /\ left = {} /\ gate = NoGate
  /\ trusted = TRUE /\ losses = 0 /\ changes = 0

(* The first half of update: the check is in hand, the quarantine is read. *)
BeginUpdate(p, side, checked) ==
  /\ draft[p] = None
  /\ draft' = [draft EXCEPT ![p] = [at |-> now, side |-> side, allowed |-> checked /\ ~Blocked(side)]]

(* The second half: the state is stored with the time of the check.        *)
EndUpdate(p) ==
  /\ draft[p] # None
  /\ states' = [states EXCEPT ![draft[p].side] = [at |-> draft[p].at, allowed |-> draft[p].allowed]]
  /\ draft' = [draft EXCEPT ![p] = None]

(* The broker's answer to order_check: never yes to what the mode forbids; *)
(* a failure of the gateway is a no.                                       *)
CheckAnswers(action, side) == IF Permitted(mode, action, side) THEN BOOLEAN ELSE {FALSE}

(* _mt5_dispatch_block_reason, before the first and the second gate.       *)
AskSession(action, side) ==
  /\ gate.step = "idle"
  /\ SessionAllows(action, side)
  /\ session' = IF calendar \in {"none", "normal_trade"} THEN Remembered ELSE session
  /\ gate' = [step |-> "session", action |-> action, side |-> side]
  /\ UNCHANGED <<now, calendar, mode, ticking, states, key, row, pending, draft, left, trusted, losses, changes>>

AskCheck ==
  /\ gate.step = "session"
  /\ \E checked \in CheckAnswers(gate.action, gate.side) :
        /\ BeginUpdate("worker", gate.side, checked)
        /\ gate' = [gate EXCEPT !.step = IF checked THEN "checked" ELSE "held"]
  /\ UNCHANGED <<now, calendar, mode, ticking, session, states, key, row, pending, left, trusted, losses, changes>>

StoreCheck ==
  /\ gate.step \in {"checked", "held"} /\ EndUpdate("worker")
  /\ gate' = IF gate.step = "checked" THEN [gate EXCEPT !.step = "stored"] ELSE NoGate
  /\ UNCHANGED <<now, calendar, mode, ticking, session, key, row, pending, left, trusted, losses, changes>>

(* The last gate: the state is read back, with the quarantine.             *)
PassOrHold ==
  /\ gate.step = "stored"
  /\ gate' = IF IsFreshAllowed(gate.side) THEN [gate EXCEPT !.step = "passed"] ELSE NoGate
  /\ UNCHANGED <<now, calendar, mode, ticking, session, states, key, row, pending, draft, left, trusted, losses, changes>>

(* The command goes to the venue. *)
Sent ==
  /\ gate.step = "passed"
  /\ gate' = NoGate
  /\ UNCHANGED <<now, calendar, mode, ticking, session, states, key, row, pending, draft, left, trusted, losses, changes>>

(* A bug the run must notice: a refresh that forgets to load them.        *)
LoadedNever(s) == key[s]

(* load_persistent_blocks: a quarantine that is not over gets its key.     *)
Loaded(s) == IF row[s] > now THEN row[s] ELSE key[s]

(* The refresh job: the quarantines are loaded, rows that are over are     *)
(* deleted, and each side is checked as an order that opens.               *)
LoadPersistentBlocks ==
  /\ left = {} /\ draft["refresher"] = None
  /\ key' = [s \in Sides |-> Loaded(s)]
  /\ row' = [s \in Sides |-> IF row[s] > now THEN row[s] ELSE 0]
  /\ left' = Sides /\ trusted' = TRUE
  /\ UNCHANGED <<now, calendar, mode, ticking, session, states, pending, draft, gate, losses, changes>>

RefreshSide ==
  /\ \E side \in left, checked \in BOOLEAN :
        /\ checked \in CheckAnswers("open", side)
        /\ BeginUpdate("refresher", side, checked)
        /\ left' = left \ {side}
  /\ UNCHANGED <<now, calendar, mode, ticking, session, states, key, row, pending, gate, trusted, losses, changes>>

StoreRefresh ==
  /\ EndUpdate("refresher")
  /\ UNCHANGED <<now, calendar, mode, ticking, session, key, row, pending, left, gate, trusted, losses, changes>>

(* block: key, row and state; the row is the caller's to commit.  Its own  *)
(* update writes a state that is not allowed, whatever it reads.           *)
Block(side) ==
  /\ pending[side] = 0
  /\ key' = [key EXCEPT ![side] = now + Quarantine]
  /\ pending' = [pending EXCEPT ![side] = now + Quarantine]
  /\ states' = [states EXCEPT ![side] = [at |-> now, allowed |-> FALSE]]
  /\ UNCHANGED <<now, calendar, mode, ticking, session, row, draft, left, gate, trusted, losses, changes>>

Commit(side) ==
  /\ pending[side] # 0
  /\ row' = [row EXCEPT ![side] = pending[side]]
  /\ pending' = [pending EXCEPT ![side] = 0]
  /\ trusted' = (trusted /\ key[side] = pending[side])
  /\ UNCHANGED <<now, calendar, mode, ticking, session, states, key, draft, left, gate, losses, changes>>

Rollback(side) ==
  /\ pending[side] # 0
  /\ pending' = [pending EXCEPT ![side] = 0]
  /\ UNCHANGED <<now, calendar, mode, ticking, session, states, key, row, draft, left, gate, trusted, losses, changes>>

(* Redis comes back empty. *)
LoseRedis ==
  /\ losses < MaxLosses
  /\ losses' = losses + 1
  /\ key' = [s \in Sides |-> 0] /\ states' = [s \in Sides |-> None] /\ trusted' = FALSE
  /\ UNCHANGED <<now, calendar, mode, ticking, session, row, pending, draft, left, gate, changes>>

Market ==
  /\ changes < MaxChanges
  /\ changes' = changes + 1
  /\ \/ calendar' \in Calendars /\ UNCHANGED <<mode, ticking>>
     \/ mode' \in Modes /\ UNCHANGED <<calendar, ticking>>
     \/ ticking' = ~ticking /\ UNCHANGED <<calendar, mode>>
  /\ UNCHANGED <<now, session, states, key, row, pending, draft, left, gate, trusted, losses>>

Tick ==
  /\ now < MaxTime
  /\ now' = now + 1
  /\ UNCHANGED <<calendar, mode, ticking, session, states, key, row, pending, draft, left, gate, trusted, losses, changes>>

Next ==
  \/ \E action \in Actions, side \in Sides : AskSession(action, side)
  \/ AskCheck \/ StoreCheck \/ PassOrHold \/ Sent
  \/ LoadPersistentBlocks \/ RefreshSide \/ StoreRefresh
  \/ \E side \in Sides : Block(side) \/ Commit(side) \/ Rollback(side)
  \/ LoseRedis \/ Market \/ Tick

Spec == Init /\ [][Next]_vars

-----------------------------------------------------------------------------
Moment == 0 .. MaxTime
TypeOK ==
  /\ now \in Moment /\ calendar \in Calendars /\ mode \in Modes /\ ticking \in BOOLEAN
  /\ session \in {None} \cup [at : Moment, mode : Modes]
  /\ states \in [Sides -> {None} \cup [at : Moment, allowed : BOOLEAN]]
  /\ \A q \in {key, row, pending} : q \in [Sides -> 0 .. MaxTime + Quarantine]
  /\ draft \in [Processes -> {None} \cup [at : Moment, side : Sides, allowed : BOOLEAN]]
  /\ left \subseteq Sides /\ trusted \in BOOLEAN /\ losses \in 0 .. MaxLosses
  /\ gate.step \in {"idle", "session", "checked", "held", "stored", "passed"}
  /\ changes \in 0 .. MaxChanges

(* A quarantine that was committed is answered "not allowed" until it is   *)
(* over, by both readers, whatever the two processes write meanwhile, and  *)
(* again from the first refresh after Redis lost it.                       *)
BlockHolds ==
  \A side \in Sides :
     (trusted /\ row[side] > now) => (~IsFreshAllowed(side) /\ side \notin AllowedSnapshot(Sides))
=============================================================================
