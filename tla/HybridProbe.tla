---------------------------- MODULE HybridProbe ----------------------------
(***************************************************************************)
(* Paper orders on a real account: a command of the worker is answered     *)
(* after a real minimum order was filled and closed again on the same      *)
(* instrument (HybridPaperProbeConnector).  The state of a probe is a      *)
(* Redis document saved between the calls; a lock per account and          *)
(* instrument keeps other probes away.  What a call of the private stream  *)
(* tells is kept in memory by an OrderEventWaiter, which also takes the    *)
(* answers of submissions ("seeds").                                       *)
(*                                                                         *)
(* All probes here are of one account, instrument and side, and are run by *)
(* the one thread that calls this connector.                               *)
(***************************************************************************)
EXTENDS Integers

CONSTANTS
    Probes,          \* the client order ids of the commands
    Makers,          \* those that enter with a post-only limit order
    Quantity,        \* minimum quantity of the instrument, in lots
    CrashAtSubmit,   \* a crash may fall between a submission and the save after it
    Expiring,        \* bound: probes whose lock may expire
    MaxFaults        \* bound: crashes and locks that expire

NoOne == "no one"

ProbeAssumption ==
    /\ Makers \subseteq Probes /\ Expiring \subseteq Probes /\ Quantity \in Nat \ {0}
    /\ CrashAtSubmit \in BOOLEAN /\ MaxFaults \in Nat /\ NoOne \notin Probes

Sides  == {"entry", "flatten"}
Orders == Probes \X Sides
Stage  == {"NONE", "PREPARED", "ENTRY_SUBMITTED", "FLATTENING", "FLAT",
           "FAILED_NO_EXPOSURE", "FAILED_SAMPLE_INVALID", "RECOVERY_REQUIRED"}
RowStatus == (Stage \ {"PREPARED", "ENTRY_SUBMITTED"}) \cup {"OPENING"}
Final  == {"FLAT", "FAILED_NO_EXPOSURE", "FAILED_SAMPLE_INVALID"}
Status == {"NONE", "ACCEPTED", "FILLED", "CANCELED", "REJECTED"}
Terminal == {"FILLED", "CANCELED", "REJECTED"}

Lots     == 0..(2 * Quantity)
Snapshot == [status : Status, filled : Lots]
Nothing  == [status |-> "NONE", filled |-> 0]

VARIABLES
    lock,      \* owner of the lock
    stage,     \* saved stage of each probe
    flattened, \* probes whose flatten_venue_order_id is saved
    row,       \* ProbeRun.status
    venue,     \* the latest order of each client order id at the venue
    held,      \* lots each probe has opened and not closed
    position,  \* lots of the account's position
    heard,     \* the event waiter: latest snapshot of each order
    news,      \* orders of which the stream has something to tell
    entries,   \* history: entry orders the venue has taken, per probe
    pc,        \* the thread: what it does next,
    probe,     \* for which probe,
    answer,    \* the snapshot it holds,
    filled,    \* and the entry it is to flatten
    expired,   \* history: a lock has expired
    faults

redis  == <<lock, stage, flattened, row>>
market == <<venue, held, position, news, entries>>
thread == <<pc, probe, answer, filled>>
vars   == <<redis, market, heard, thread, expired, faults>>

Steps == {"idle", "check", "entry", "save entry", "wait entry", "cancel", "wait cancel",
          "flatten", "save flatten", "wait flatten", "finish", "release"}

TypeOK ==
    /\ lock \in Probes \cup {NoOne}
    /\ stage \in [Probes -> Stage] /\ row \in [Probes -> RowStatus]
    /\ flattened \subseteq Probes
    /\ venue \in [Orders -> Snapshot] /\ heard \in [Orders -> Snapshot]
    /\ held \in [Probes -> Int] /\ position \in Int
    /\ news \subseteq Orders
    /\ entries \in [Probes -> 0..2]
    /\ pc \in Steps /\ probe \in Probes \cup {NoOne}
    /\ answer \in Snapshot /\ filled \in Lots
    /\ expired \in BOOLEAN /\ faults \in 0..MaxFaults

Init ==
    /\ lock = NoOne
    /\ stage = [p \in Probes |-> "NONE"] /\ row = stage
    /\ flattened = {}
    /\ venue = [o \in Orders |-> Nothing] /\ heard = venue
    /\ held = [p \in Probes |-> 0] /\ position = 0 /\ entries = held
    /\ news = {}
    /\ pc = "idle" /\ probe = NoOne /\ answer = Nothing /\ filled = 0
    /\ expired = FALSE /\ faults = 0

-----------------------------------------------------------------------------
(* The account.                                                            *)

(* _position_quantity: every position of the instrument counts.            *)
AccountFlat == position = 0

(* The quantity of an order: a closing order is for what the entry filled. *)
Size(o) == IF o[2] = "entry" THEN Quantity ELSE venue[<<o[1], "entry">>].filled

(* Lots an order can still fill: an entry its quantity, a closing order no *)
(* more than there is (hedge mode, reduce-only).                           *)
Room(o) == IF o[2] = "entry" THEN Quantity ELSE position

(* The venue has order o at snapshot s, where it was at `from'.            *)
Reports(o, from, s) ==
    /\ venue' = [venue EXCEPT ![o] = s]
    /\ LET opened == IF o[2] = "entry" THEN s.filled - from.filled ELSE from.filled - s.filled IN
       /\ held' = [held EXCEPT ![o[1]] = @ + opened]
       /\ position' = position + opened
    /\ news' = news \cup {o}

(* A new order of quantity q: taken, wholly filled, or cut short.          *)
Taken(o, q) ==
    {[status |-> "ACCEPTED", filled |-> 0]}
    \cup (IF q <= Room(o) THEN {[status |-> "FILLED", filled |-> q]} ELSE {})
    \cup {[status |-> "CANCELED", filled |-> n] : n \in {m \in 0..(q - 1) : m <= Room(o)}}

VenueMoves(o) ==
    /\ venue[o].status = "ACCEPTED"
    /\ \E s \in Taken(o, Size(o)) \ {venue[o]} : Reports(o, venue[o], s)
    /\ UNCHANGED <<redis, heard, entries, thread, expired, faults>>

-----------------------------------------------------------------------------
(* The private stream and OrderEventWaiter.                                *)

(* on_event: the stream tells what the order has become.                   *)
OnEvent(o) ==
    /\ o \in news
    /\ heard' = [heard EXCEPT ![o] = venue[o]]
    /\ news' = news \ {o}
    /\ UNCHANGED <<redis, venue, held, position, entries, thread, expired, faults>>

LoseEvent(o) ==
    /\ o \in news
    /\ news' = news \ {o}
    /\ UNCHANGED <<redis, venue, held, position, entries, heard, thread, expired, faults>>

(* seed: the latest caller is right.                                       *)
Seeded(o, s) == [heard EXCEPT ![o] = s]

(* wait_for_terminal: what has been heard of the order, or what the caller *)
(* has in hand.                                                            *)
Confirmed(o) == IF answer.status \in Terminal THEN answer ELSE heard[o]

-----------------------------------------------------------------------------
(* The thread.                                                             *)

entry   == <<probe, "entry">>
flatten == <<probe, "flatten">>

GoTo(step) == pc' = step /\ UNCHANGED probe
Return     == pc' = "idle" /\ probe' = NoOne /\ answer' = Nothing /\ filled' = 0

(* _release_lock: only the owner's.                                        *)
Released(p) == IF lock = p THEN NoOne ELSE lock

Save(s)    == stage' = [stage EXCEPT ![probe] = s]
SaveRow(s) == row' = [row EXCEPT ![probe] = s]

(* A bug the runs must notice: a call that failed gives the lock back.     *)
RaiseReleasing ==
    /\ Save("RECOVERY_REQUIRED") /\ SaveRow("RECOVERY_REQUIRED")
    /\ lock' = Released(probe)
    /\ Return
    /\ UNCHANGED flattened

(* The handler of _advance: whatever is raised leaves the state, and the   *)
(* lock, for a later call.                                                 *)
Raise ==
    /\ Save("RECOVERY_REQUIRED") /\ SaveRow("RECOVERY_REQUIRED")
    /\ Return
    /\ UNCHANGED <<lock, flattened>>

(* submit_order of a command without a state, up to the lock; or the       *)
(* command is rejected: switched off, locked by another.                   *)
Acquire(p) ==
    /\ pc = "idle" /\ stage[p] = "NONE" /\ lock = NoOne
    /\ lock' = p
    /\ pc' = "check" /\ probe' = p
    /\ UNCHANGED <<stage, flattened, row, market, heard, answer, filled, expired, faults>>

(* Quantity, notional, depth, daily limits, cooldown, or the account.      *)
FailBeforeExposure ==
    /\ pc = "check"
    /\ lock' = Released(probe)
    /\ Return
    /\ UNCHANGED <<stage, flattened, row, market, heard, expired, faults>>

Prepare ==
    /\ pc = "check" /\ AccountFlat
    /\ Save("PREPARED") /\ SaveRow("OPENING")
    /\ GoTo("entry")
    /\ UNCHANGED <<lock, flattened, market, heard, answer, filled, expired, faults>>

(* submit_order, get_order or cancel_order of a command with a state that  *)
(* is not final: _advance from the start, without the lock.                *)
Resume(p) ==
    /\ pc = "idle" /\ stage[p] \notin Final \cup {"NONE"}
    /\ pc' = "entry" /\ probe' = p
    /\ UNCHANGED <<redis, market, heard, answer, filled, expired, faults>>

(* live.submit_order for order o: taken and answered, taken and not        *)
(* answered, refused, not even sent.                                       *)
SubmitOrder(o, q, next) ==
    \/ \E s \in Taken(o, q) :
        /\ Reports(o, Nothing, s)
        /\ entries' = IF o[2] = "entry" THEN [entries EXCEPT ![o[1]] = @ + 1] ELSE entries
        /\ \/ answer' = s /\ GoTo(next) /\ UNCHANGED <<redis, filled>>
           \/ Raise
    \/ /\ answer' = [status |-> "REJECTED", filled |-> 0] /\ GoTo(next)
       /\ UNCHANGED <<redis, market, filled>>
    \/ Raise /\ UNCHANGED market

(* _query_actual: the order, or a failure; the caller goes on when the     *)
(* venue knows of none.                                                    *)
Query(o, next) ==
    \/ /\ venue[o] # Nothing
       /\ answer' = venue[o] /\ heard' = Seeded(o, venue[o])
       /\ GoTo(next) /\ UNCHANGED <<redis, filled>>
    \/ Raise /\ UNCHANGED heard

(* Bug the runs must notice: an order is sent whatever the state says.     *)
EntryBlind ==
    /\ pc = "entry"
    /\ SubmitOrder(entry, Quantity, "save entry")
    /\ UNCHANGED <<heard, expired, faults>>

(* _entry_order: only a state that is past PREPARED makes it ask first.    *)
Entry ==
    /\ pc = "entry"
    /\ \/ /\ stage[probe] # "PREPARED"
          /\ Query(entry, "wait entry")
          /\ UNCHANGED market
       \/ /\ stage[probe] = "PREPARED" \/ venue[entry] = Nothing
          /\ SubmitOrder(entry, Quantity, "save entry")
          /\ UNCHANGED heard
    /\ UNCHANGED <<expired, faults>>

SaveEntry ==
    /\ pc = "save entry"
    /\ heard' = Seeded(entry, answer)
    /\ Save("ENTRY_SUBMITTED")
    /\ GoTo("wait entry")
    /\ UNCHANGED <<lock, flattened, row, market, answer, filled, expired, faults>>

(* A bug the runs must notice: whatever is known when the time is over is  *)
(* taken for the end of the order.                                         *)
EntryOverHasty(s) ==
    /\ answer' = s
    /\ IF s.filled = 0
       THEN Save("FAILED_NO_EXPOSURE") /\ GoTo("release") /\ UNCHANGED <<filled, row>>
       ELSE Save("FLATTENING") /\ SaveRow("FLATTENING") /\ GoTo("flatten") /\ filled' = s.filled
    /\ UNCHANGED <<lock, flattened>>

(* _wait_for_entry: the end of the order, a timeout, or, for a maker, the  *)
(* cancellation of what is left of it.                                     *)
EntryOver(s) ==
    /\ s.status \in Terminal
    /\ answer' = s
    /\ IF s.filled = 0
       THEN Save("FAILED_NO_EXPOSURE") /\ GoTo("release") /\ UNCHANGED <<filled, row>>
       ELSE Save("FLATTENING") /\ SaveRow("FLATTENING") /\ GoTo("flatten") /\ filled' = s.filled
    /\ UNCHANGED <<lock, flattened>>

WaitEntry ==
    /\ pc \in {"wait entry", "wait cancel"}
    /\ \/ EntryOver(Confirmed(entry))
       \/ /\ Confirmed(entry).status \notin Terminal
          /\ IF probe \in Makers /\ pc = "wait entry"
             THEN GoTo("cancel") /\ UNCHANGED <<redis, answer, filled>>
             ELSE Raise
    /\ UNCHANGED <<market, heard, expired, faults>>

CancelEntry ==
    /\ pc = "cancel"
    /\ \/ /\ venue[entry].status = "ACCEPTED"
          /\ Reports(entry, venue[entry], [venue[entry] EXCEPT !.status = "CANCELED"])
          /\ \/ /\ answer' = venue'[entry] /\ heard' = Seeded(entry, venue'[entry])
                /\ GoTo("wait cancel") /\ UNCHANGED <<redis, filled>>
             \/ Raise /\ UNCHANGED heard
       \/ Raise /\ UNCHANGED <<heard, venue, held, position, news>>
    /\ UNCHANGED <<entries, expired, faults>>

(* _flatten_order: with the id of a closing order it asks first.           *)
Flatten ==
    /\ pc = "flatten"
    /\ \/ /\ probe \in flattened
          /\ Query(flatten, "wait flatten")
          /\ UNCHANGED market
       \/ /\ probe \notin flattened \/ venue[flatten] = Nothing
          /\ SubmitOrder(flatten, filled, "save flatten")
          /\ UNCHANGED heard
    /\ UNCHANGED <<expired, faults>>

SaveFlatten ==
    /\ pc = "save flatten"
    /\ heard' = Seeded(flatten, answer)
    /\ flattened' = flattened \cup {probe}
    /\ GoTo("wait flatten")
    /\ UNCHANGED <<lock, stage, row, market, answer, filled, expired, faults>>

WaitFlatten ==
    /\ pc = "wait flatten"
    /\ \/ /\ Confirmed(flatten).status \in Terminal /\ Confirmed(flatten).filled >= filled
          /\ GoTo("finish") /\ UNCHANGED <<redis, answer, filled>>
       \/ /\ Confirmed(flatten).status \notin Terminal \/ Confirmed(flatten).filled < filled
          /\ Raise
    /\ UNCHANGED <<market, heard, expired, faults>>

(* The account must be empty again; a sample without a price is no sample. *)
Finish ==
    /\ pc = "finish"
    /\ \/ /\ AccountFlat
          /\ Save("FLAT") \/ Save("FAILED_SAMPLE_INVALID")
          /\ GoTo("release") /\ UNCHANGED <<lock, flattened, row, answer, filled>>
       \/ Raise
    /\ UNCHANGED <<market, heard, expired, faults>>

(* The row and the lock follow the state.                                  *)
Release ==
    /\ pc = "release"
    /\ SaveRow(stage[probe])
    /\ lock' = Released(probe)
    /\ Return
    /\ UNCHANGED <<stage, flattened, market, heard, expired, faults>>

-----------------------------------------------------------------------------
(* Failures.                                                               *)
Crash ==
    /\ faults < MaxFaults /\ pc # "idle"
    /\ CrashAtSubmit \/ pc # "save entry"
    /\ faults' = faults + 1
    /\ Return
    /\ heard' = [o \in Orders |-> Nothing] /\ news' = {}
    /\ UNCHANGED <<redis, venue, held, position, entries, expired>>

LockExpires ==
    /\ faults < MaxFaults /\ lock \in Expiring
    /\ faults' = faults + 1 /\ expired' = TRUE
    /\ lock' = NoOne
    /\ UNCHANGED <<stage, flattened, row, market, heard, thread>>

Next ==
    \/ \E p \in Probes : Acquire(p) \/ Resume(p)
    \/ FailBeforeExposure \/ Prepare
    \/ Entry \/ SaveEntry \/ WaitEntry \/ CancelEntry
    \/ Flatten \/ SaveFlatten \/ WaitFlatten \/ Finish \/ Release
    \/ \E o \in Orders : VenueMoves(o) \/ OnEvent(o) \/ LoseEvent(o)
    \/ Crash \/ LockExpires

Spec == Init /\ [][Next]_vars

-----------------------------------------------------------------------------
(* Properties.                                                             *)

Working(p) == \E d \in Sides : venue[<<p, d>>].status = "ACCEPTED"

(* As long as no lock has expired: a probe whose row says that it is safe  *)
(* (SAFE_PROBE_STATUSES of voiding.py, by which a group may be archived)   *)
(* has closed all it ever opened and has no order left that could open     *)
(* more.                                                                   *)
SafeMeansClosed ==
    ~expired => \A p \in Probes : row[p] \in Final => held[p] = 0 /\ ~Working(p)

(* As long as no lock has expired: while a probe is exposed, or may become *)
(* so, it has the lock, so that no other probe starts from its position.   *)
ExposedIsLocked ==
    ~expired => \A p \in Probes : held[p] # 0 \/ Working(p) => lock = p

(* No probe enters twice: recovery asks by the stable client order id and  *)
(* never resubmits blindly (docstring of hybrid_probe.py).                 *)
EntersOnce == \A p \in Probes : entries[p] <= 1
=============================================================================
