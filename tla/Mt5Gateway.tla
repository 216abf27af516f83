----------------------------- MODULE Mt5Gateway -----------------------------
(***************************************************************************)
(* Remote calls to MetaTrader 5 over Redis: MT5RedisConnector._rpc         *)
(* (backend/app/venues/mt5/redis_connector.py) appends a command to a      *)
(* stream and waits for its answer; MT5Gateway (mt5_gateway/main.py), on   *)
(* the Windows host, reads the stream as a consumer group, executes the    *)
(* command in the terminal and answers.                                    *)
(*                                                                         *)
(* The stream delivers at least once.  What keeps an order from being sent *)
(* twice are two Redis keys per idempotency key: the state key, set before *)
(* the command is executed, and the result key, set after.  The gateway is *)
(* one process with one command thread; it can crash between any two Redis *)
(* operations, and any Redis operation can fail, before or after it took   *)
(* effect.  Redis itself is durable (AOF).                                 *)
(***************************************************************************)
EXTENDS Naturals, FiniteSets

CONSTANTS
    Requests,        \* commands, numbered in the order they enter the stream
    Keys,            \* idempotency keys
    NoKey,           \* the key of a query, which has none
    KeyOf,           \* request |-> its idempotency key, or NoKey
    Modes,           \* filling modes a submission tries, one after the other
    MaxCrashes,      \* bound: crashes of the gateway
    MaxFaults,       \* bound: failures of a Redis operation
    MaxLostReplies,  \* bound: order_send returns None for an order it placed
    MaxExpiries      \* bound: results older than a day that Redis drops

ASSUME GatewayAssumption ==
    /\ Requests \subseteq Nat /\ IsFiniteSet(Requests)
    /\ NoKey \notin Keys
    /\ KeyOf \in [Requests -> Keys \cup {NoKey}]
    /\ Modes \in Nat \ {0}
    /\ MaxCrashes \in Nat /\ MaxFaults \in Nat
    /\ MaxLostReplies \in Nat /\ MaxExpiries \in Nat

VARIABLES
    caller,    \* the call as its caller sees it, and the ticket it was given
    message,   \* the command in the stream and the consumer group
    old,       \* commands that have been pending for 30 s
    response,  \* first entry of the response stream, the one the caller reads
    cached,    \* result key: ticket of the order; 0: no result
    guard,     \* keys whose state key is set
    taken,     \* number of orders the terminal has for a key
    phase,     \* where the command thread is
    batch,     \* commands it has read and not handled
    tries,     \* filling modes tried for the current submission
    data,      \* ticket the current command has to report
    crashes, faults, lost, expiries

redis  == <<message, old, response, cached, guard>>
thread == <<phase, batch, tries, data>>
bounds == <<crashes, faults, lost, expiries>>
vars   == <<caller, redis, taken, thread, bounds>>

CallStatus == {"idle", "waiting", "accepted", "rejected", "unknown"}
Call       == [status : CallStatus, ticket : Nat]
NoCall     == [status |-> "idle", ticket |-> 0]
Answer     == [kind : {"none", "ok", "error"}, ticket : Nat]
NoAnswer   == [kind |-> "none", ticket |-> 0]

Phases == {"down", "claiming", "reading", "checking", "sending", "storing",
           "releasing", "answering", "acking", "refusing", "dropping"}

TypeOK ==
    /\ caller \in [Requests -> Call]
    /\ message \in [Requests -> {"absent", "new", "pending", "acked"}]
    /\ old \subseteq Requests
    /\ response \in [Requests -> Answer]
    /\ cached \in [Keys -> Nat]
    /\ guard \subseteq Keys
    /\ taken \in [Keys -> Nat]
    /\ phase \in Phases
    /\ batch \subseteq Requests
    /\ tries \in 0..Modes /\ (phase = "sending" => tries < Modes)
    /\ data \in Nat
    /\ crashes \in 0..MaxCrashes /\ faults \in 0..MaxFaults
    /\ lost \in 0..MaxLostReplies /\ expiries \in 0..MaxExpiries

Init ==
    /\ caller = [r \in Requests |-> NoCall]
    /\ message = [r \in Requests |-> "absent"]
    /\ old = {}
    /\ response = [r \in Requests |-> NoAnswer]
    /\ cached = [k \in Keys |-> 0]
    /\ guard = {}
    /\ taken = [k \in Keys |-> 0]
    /\ phase = "down"
    /\ batch = {}
    /\ tries = 0 /\ data = 0
    /\ crashes = 0 /\ faults = 0 /\ lost = 0 /\ expiries = 0

-----------------------------------------------------------------------------
(* The caller (_rpc), in the API or the execution worker.                  *)

(* No heartbeat of the gateway: the call fails before it is sent.          *)
FailFast(r) ==
    /\ caller[r].status = "idle"
    /\ caller' = [caller EXCEPT ![r].status = "rejected"]
    /\ UNCHANGED <<redis, taken, thread, bounds>>

Send(r) ==
    /\ caller[r].status = "idle"
    /\ \A s \in Requests : s < r => caller[s].status # "idle"
    /\ caller' = [caller EXCEPT ![r].status = "waiting"]
    /\ message' = [message EXCEPT ![r] = "new"]
    /\ UNCHANGED <<old, response, cached, guard, taken, thread, bounds>>

(* An answer with ok = 0 raises MT5GatewayError: a definite refusal.       *)
Receive(r) ==
    /\ caller[r].status = "waiting" /\ response[r].kind # "none"
    /\ caller' = [caller EXCEPT ![r] =
                     [status |-> IF response[r].kind = "ok" THEN "accepted" ELSE "rejected",
                      ticket |-> response[r].ticket]]
    /\ UNCHANGED <<redis, taken, thread, bounds>>

(* TimeoutError after 15 s: the outcome is unknown to the caller.          *)
GiveUp(r) ==
    /\ caller[r].status = "waiting" /\ response[r].kind = "none"
    /\ caller' = [caller EXCEPT ![r].status = "unknown"]
    /\ UNCHANGED <<redis, taken, thread, bounds>>

-----------------------------------------------------------------------------
(* Redis: ages and expiries.                                               *)

(* A pending command becomes old enough for XAUTOCLAIM (30 s), which is    *)
(* longer than its caller waits.                                           *)
Age(r) ==
    /\ message[r] = "pending" /\ r \notin old
    /\ caller[r].status # "waiting"
    /\ old' = old \cup {r}
    /\ UNCHANGED <<caller, message, response, cached, guard, taken, thread, bounds>>

(* The result key expires after 24 hours.                                  *)
Expire(k) ==
    /\ cached[k] # 0 /\ expiries < MaxExpiries
    /\ cached' = [cached EXCEPT ![k] = 0]
    /\ expiries' = expiries + 1
    /\ UNCHANGED <<caller, message, old, response, guard, taken, thread, crashes, faults, lost>>

-----------------------------------------------------------------------------
(* The command thread of the gateway.                                      *)

RedisFault ==
    /\ faults < MaxFaults
    /\ faults' = faults + 1

(* The command being handled: the oldest of the batch.                     *)
Current(r) == r \in batch /\ \A s \in batch : r <= s

Boot ==
    /\ phase = "down"
    /\ phase' = "claiming"
    /\ UNCHANGED <<caller, redis, taken, batch, tries, data, bounds>>

Crash ==
    /\ phase # "down" /\ crashes < MaxCrashes
    /\ crashes' = crashes + 1
    /\ phase' = "down"
    /\ batch' = {} /\ tries' = 0 /\ data' = 0
    /\ UNCHANGED <<caller, redis, taken, faults, lost, expiries>>

(* _recover_pending, once at the start of every Redis session: take over   *)
(* what has been pending for 30 s.  The claim makes it young again.        *)
ClaimOld ==
    LET abandoned == {r \in old : message[r] = "pending"}
    IN /\ phase = "claiming"
       /\ old' = old \ abandoned
       /\ \/ /\ phase' = IF abandoned = {} THEN "reading" ELSE "checking"
             /\ batch' = abandoned
             /\ UNCHANGED faults
          \/ RedisFault /\ UNCHANGED <<phase, batch>>
       /\ UNCHANGED <<caller, message, response, cached, guard, taken, tries, data,
                      crashes, lost, expiries>>

(* XREADGROUP: new commands become pending, even if the reply is lost; a   *)
(* failure ends the session.                                               *)
Read ==
    LET new == {r \in Requests : message[r] = "new"}
        delivered == [r \in Requests |-> IF r \in new THEN "pending" ELSE message[r]]
    IN /\ phase = "reading"
       /\ \/ /\ new # {}
             /\ message' = delivered
             /\ batch' = new /\ phase' = "checking"
             /\ UNCHANGED faults
          \/ /\ RedisFault
             /\ message' \in {message, delivered}
             /\ phase' = "claiming" /\ UNCHANGED batch
       /\ UNCHANGED <<caller, old, response, cached, guard, taken, tries, data,
                      crashes, lost, expiries>>

(* One Redis operation of _handle inside its try block: it succeeds and    *)
(* the handler goes on, or it raises, with or without its effect, and the  *)
(* handler goes on with the refusal.                                       *)
Tried(effect, next) ==
    \/ effect /\ phase' = next /\ UNCHANGED faults
    \/ (effect \/ UNCHANGED redis) /\ phase' = "refusing" /\ RedisFault

(* ... and in its except block, where an error ends the session.           *)
Caught(effect, next) ==
    \/ effect /\ phase' = next /\ UNCHANGED faults
    \/ (effect \/ UNCHANGED redis) /\ phase' = "claiming" /\ RedisFault

(* The next command of the batch, or the next read.                        *)
After(r) == IF batch = {r} THEN "reading" ELSE "checking"

HandlerUnchanged == UNCHANGED <<caller, crashes, lost, expiries>>

(* Bugs the runs must notice: the handler executes a command that has a    *)
(* result, reports one that is guarded as done, ...                        *)
CheckRepeated(r) ==
    /\ phase = "checking" /\ Current(r)
    /\ KeyOf[r] # NoKey /\ cached[KeyOf[r]] # 0
    /\ tries' = 0 /\ data' = 0
    /\ Tried(UNCHANGED redis, "sending")
    /\ UNCHANGED <<taken, batch>> /\ HandlerUnchanged

GuardedIsDone(r) ==
    LET k == KeyOf[r]
    IN /\ phase = "checking" /\ Current(r)
       /\ k # NoKey /\ cached[k] = 0 /\ k \in guard
       /\ phase' = "answering"
       /\ UNCHANGED <<redis, taken, batch, tries, data, faults>> /\ HandlerUnchanged

(* The result of an earlier execution is reused; without one, the state    *)
(* key says that an earlier execution may have happened (SET NX failed);   *)
(* else it is set, and the command is executed.                            *)
CheckCached(r) ==
    LET k == KeyOf[r]
    IN /\ phase = "checking" /\ Current(r)
       /\ k # NoKey /\ cached[k] # 0
       /\ data' = cached[k]
       /\ Tried(UNCHANGED redis, "answering")
       /\ UNCHANGED <<taken, batch, tries>> /\ HandlerUnchanged

CheckGuarded(r) ==
    LET k == KeyOf[r]
    IN /\ phase = "checking" /\ Current(r)
       /\ k # NoKey /\ cached[k] = 0 /\ k \in guard
       /\ phase' = "refusing"
       /\ UNCHANGED <<redis, taken, batch, tries, data, faults>> /\ HandlerUnchanged

(* ... or executes without it.                                             *)
CheckUnguarded(r) ==
    /\ phase = "checking" /\ Current(r)
    /\ KeyOf[r] # NoKey => cached[KeyOf[r]] = 0
    /\ Tried(UNCHANGED redis, "sending")
    /\ tries' = 0 /\ data' = 0
    /\ UNCHANGED <<taken, batch>> /\ HandlerUnchanged

CheckFresh(r) ==
    LET k == KeyOf[r]
    IN /\ phase = "checking" /\ Current(r)
       /\ k # NoKey => cached[k] = 0 /\ k \notin guard
       /\ Tried(/\ guard' = guard \cup ({k} \ {NoKey})
                /\ UNCHANGED <<message, old, response, cached>>, "sending")
       /\ tries' = 0 /\ data' = 0
       /\ UNCHANGED <<taken, batch>> /\ HandlerUnchanged

(* A query is answered by the terminal.                                    *)
Query(r) ==
    /\ phase = "sending" /\ Current(r) /\ KeyOf[r] = NoKey
    /\ phase' \in {"answering", "refusing"}
    /\ UNCHANGED <<redis, taken, batch, tries, data, faults>> /\ HandlerUnchanged

(* submit_order: order_send places the order, ...                          *)
OrderPlaced(r) ==
    LET k == KeyOf[r]
    IN /\ phase = "sending" /\ Current(r) /\ k # NoKey
       /\ taken' = [taken EXCEPT ![k] = @ + 1]
       /\ data' = taken[k] + 1
       /\ phase' = "storing"
       /\ UNCHANGED <<redis, batch, tries, faults>> /\ HandlerUnchanged

(* ... refuses it (or the connector does, before), by a retcode or an      *)
(* exception, ...                                                          *)
OrderRefused(r) ==
    /\ phase = "sending" /\ Current(r) /\ KeyOf[r] # NoKey
    /\ phase' = "refusing"
    /\ UNCHANGED <<redis, taken, batch, tries, data, faults>> /\ HandlerUnchanged

(* ... has to be asked again with another filling mode, by the retcode     *)
(* INVALID_FILL or because it returned None, ...                           *)
SameModeForever == "sending"
NextMode == IF tries + 1 < Modes THEN "sending" ELSE "refusing"

TryNextMode(r) ==
    /\ phase = "sending" /\ Current(r) /\ KeyOf[r] # NoKey
    /\ tries' = tries + 1
    /\ phase' = NextMode
    /\ UNCHANGED <<redis, taken, batch, data, faults>> /\ HandlerUnchanged

(* ... or places it and returns None (the terminal's answer timed out), on *)
(* which the next mode is tried all the same.                              *)
OrderReplyLost(r) ==
    LET k == KeyOf[r]
    IN /\ phase = "sending" /\ Current(r) /\ k # NoKey
       /\ lost < MaxLostReplies /\ lost' = lost + 1
       /\ taken' = [taken EXCEPT ![k] = @ + 1]
       /\ tries' = tries + 1
       /\ phase' = NextMode
       /\ UNCHANGED <<caller, redis, batch, data, crashes, faults, expiries>>

(* SET of the result key, then DELETE of the state key.                    *)
Store(r) ==
    /\ phase = "storing" /\ Current(r)
    /\ Tried(/\ cached' = [cached EXCEPT ![KeyOf[r]] = data]
             /\ UNCHANGED <<message, old, response, guard>>, "releasing")
    /\ UNCHANGED <<taken, batch, tries, data>> /\ HandlerUnchanged

Release(r) ==
    /\ phase = "releasing" /\ Current(r)
    /\ Tried(/\ guard' = guard \ {KeyOf[r]}
             /\ UNCHANGED <<message, old, response, cached>>, "answering")
    /\ UNCHANGED <<taken, batch, tries, data>> /\ HandlerUnchanged

(* _respond: the caller reads the first entry of the response stream.      *)
FirstAnswer(r, answer) ==
    response' = IF response[r].kind = "none" THEN [response EXCEPT ![r] = answer]
                ELSE response

Respond(r, answer) ==
    /\ FirstAnswer(r, answer)
    /\ UNCHANGED <<message, old, cached, guard>>

Acknowledge(r) ==
    /\ message' = [message EXCEPT ![r] = "acked"]
    /\ UNCHANGED <<old, response, cached, guard>>

AnswerOk(r) ==
    /\ phase = "answering" /\ Current(r)
    /\ Tried(Respond(r, [kind |-> "ok", ticket |-> data]), "acking")
    /\ UNCHANGED <<taken, batch, tries, data>> /\ HandlerUnchanged

Ack(r) ==
    /\ phase = "acking" /\ Current(r)
    /\ Tried(Acknowledge(r), After(r))
    /\ batch' = IF phase' = "refusing" THEN batch ELSE batch \ {r}
    /\ UNCHANGED <<taken, tries, data>> /\ HandlerUnchanged

(* Bugs the runs must notice: a refusal clears the state key as well, or   *)
(* is not written at all.                                                  *)
AnswerErrorReleases(r) ==
    /\ phase = "refusing" /\ Current(r)
    /\ Caught(/\ FirstAnswer(r, [kind |-> "error", ticket |-> 0])
              /\ guard' = guard \ {KeyOf[r]}
              /\ UNCHANGED <<message, old, cached>>, "dropping")
    /\ batch' = IF phase' = "claiming" THEN {} ELSE batch
    /\ UNCHANGED <<taken, tries, data>> /\ HandlerUnchanged

AnswerErrorSilently(r) ==
    /\ phase = "refusing" /\ Current(r)
    /\ Caught(UNCHANGED redis, "dropping")
    /\ batch' = IF phase' = "claiming" THEN {} ELSE batch
    /\ UNCHANGED <<taken, tries, data>> /\ HandlerUnchanged

AnswerError(r) ==
    /\ phase = "refusing" /\ Current(r)
    /\ Caught(Respond(r, [kind |-> "error", ticket |-> 0]), "dropping")
    /\ batch' = IF phase' = "claiming" THEN {} ELSE batch
    /\ UNCHANGED <<taken, tries, data>> /\ HandlerUnchanged

AckError(r) ==
    /\ phase = "dropping" /\ Current(r)
    /\ Caught(Acknowledge(r), After(r))
    /\ batch' = IF phase' = "claiming" THEN {} ELSE batch \ {r}
    /\ UNCHANGED <<taken, tries, data>> /\ HandlerUnchanged

-----------------------------------------------------------------------------
Handle(r) ==
    \/ CheckCached(r) \/ CheckGuarded(r) \/ CheckFresh(r)
    \/ Query(r)
    \/ OrderPlaced(r) \/ OrderRefused(r) \/ TryNextMode(r) \/ OrderReplyLost(r)
    \/ Store(r) \/ Release(r) \/ AnswerOk(r) \/ Ack(r)
    \/ AnswerError(r) \/ AckError(r)

CommandThread == Boot \/ ClaimOld \/ Read \/ \E r \in Requests : Handle(r)

Next ==
    \/ CommandThread \/ Crash
    \/ \E r \in Requests : FailFast(r) \/ Send(r) \/ Receive(r) \/ GiveUp(r) \/ Age(r)
    \/ \E k \in Keys : Expire(k)

Spec == Init /\ [][Next]_vars

-----------------------------------------------------------------------------
(* Correctness.                                                            *)

(* However often a command is delivered, repeated by its caller or         *)
(* interrupted by crashes and failures of Redis, the terminal gets at most *)
(* one order per idempotency key, and one more for each answer order_send  *)
(* loses and each result that expires: the two things _handle and          *)
(* submit_order do not survive.                                            *)
RepeatsAreCounted == \A k \in Keys : taken[k] <= 1 + lost + expiries

(* An accepted call names an order that the terminal really has.           *)
AcceptedIsReal ==
    \A r \in Requests : caller[r].status = "accepted" /\ KeyOf[r] # NoKey =>
        caller[r].ticket \in 1..taken[KeyOf[r]]

(* Until such a loss, all accepted calls with one key name one order.      *)
AnswersAgree ==
    lost + expiries = 0 =>
        \A r, s \in Requests :
            /\ caller[r].status = "accepted" /\ caller[s].status = "accepted"
            /\ KeyOf[r] = KeyOf[s] /\ KeyOf[r] # NoKey
            => caller[r].ticket = caller[s].ticket

(* A command leaves the pending list only when its answer is written, so   *)
(* that no command is silently dropped.                                    *)
AnsweredBeforeAck ==
    \A r \in Requests : message[r] = "acked" => response[r].kind # "none"

(* Why the order is not repeated: the last order of a key that no loss     *)
(* accounts for is protected by the state key until its result is on       *)
(* record; the state key is set when the command is executed.              *)
Accounted(k) == taken[k] <= lost + expiries

Protected ==
    /\ \A k \in Keys : Accounted(k) \/ cached[k] # 0 \/ k \in guard
    /\ \A r \in Requests : Current(r) /\ KeyOf[r] # NoKey =>
        /\ phase = "sending" => KeyOf[r] \in guard /\ Accounted(KeyOf[r])
        /\ phase = "storing" => KeyOf[r] \in guard
        /\ phase = "releasing" => cached[KeyOf[r]] # 0 \/ Accounted(KeyOf[r])

(* Why answers can be trusted: what a result, an answer or the command     *)
(* being handled names is an order of its key, and a command is answered   *)
(* before it is acknowledged.                                              *)
OrderOf(r, ticket) == KeyOf[r] # NoKey => ticket \in 1..taken[KeyOf[r]]

AnswersSound ==
    /\ \A k \in Keys : cached[k] <= taken[k]
    /\ \A r \in Requests :
        /\ response[r].kind = "ok" => OrderOf(r, response[r].ticket)
        /\ caller[r].status = "accepted" => OrderOf(r, caller[r].ticket)
        /\ message[r] = "acked" => response[r].kind # "none"
        /\ Current(r) /\ phase \in {"storing", "releasing", "answering"} => OrderOf(r, data)
        /\ Current(r) /\ phase \in {"acking", "dropping"} => response[r].kind # "none"

-----------------------------------------------------------------------------
(* What the documentation says and the code does not always do.            *)

(* An answer with an error means that no order was created for the command *)
(* (in an instance where it is the only one with its key).                 *)
RejectedMeansNoOrder ==
    \A r \in Requests : caller[r].status = "rejected" /\ KeyOf[r] # NoKey =>
        taken[KeyOf[r]] = 0
=============================================================================
