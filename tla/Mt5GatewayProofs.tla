-------------------------- MODULE Mt5GatewayProofs --------------------------
(***************************************************************************)
(* Proofs about Mt5Gateway, for every set of commands and keys, every      *)
(* number of filling modes, crashes and failures of Redis: an accepted     *)
(* call names a real order, no command is dropped unanswered, and an       *)
(* idempotency key stands for at most one order plus one for each lost     *)
(* answer of order_send and each expired result.                           *)
(***************************************************************************)
EXTENDS Mt5Gateway, TLAPS

LEMMA BoundsAreNat ==
  /\ MaxCrashes \in Nat /\ MaxFaults \in Nat
  /\ MaxLostReplies \in Nat /\ MaxExpiries \in Nat
  /\ Modes \in Nat /\ Modes > 0
  BY GatewayAssumption DEF GatewayAssumption

LEMMA KeysAreKeys ==
  /\ \A r \in Requests : KeyOf[r] # NoKey => KeyOf[r] \in Keys
  /\ NoKey \notin Keys
  BY GatewayAssumption DEF GatewayAssumption

LEMMA FaultsCounted ==
  ASSUME TypeOK, RedisFault \/ UNCHANGED faults
  PROVE  faults' \in 0..MaxFaults
  BY BoundsAreNat DEF TypeOK, RedisFault

LEMMA InitTypeOK == Init => TypeOK
  BY BoundsAreNat DEF Init, TypeOK, Phases, Call, CallStatus, NoCall, Answer, NoAnswer

(* The actions of a command, one by one: they leave well typed states.     *)
LEMMA CallerKeepsTypes ==
  ASSUME TypeOK, NEW r \in Requests,
         FailFast(r) \/ Send(r) \/ Receive(r) \/ GiveUp(r)
  PROVE  TypeOK'
<1>1. CASE FailFast(r)
  BY <1>1 DEF FailFast, TypeOK, Call, CallStatus, redis, thread, bounds
<1>2. CASE Send(r)
  BY <1>2 DEF Send, TypeOK, Call, CallStatus, redis, thread, bounds
<1>3. CASE Receive(r)
  BY <1>3 DEF Receive, TypeOK, Call, CallStatus, Answer, redis, thread, bounds
<1>4. CASE GiveUp(r)
  BY <1>4 DEF GiveUp, TypeOK, Call, CallStatus, redis, thread, bounds
<1> QED BY <1>1, <1>2, <1>3, <1>4

LEMMA SessionKeepsTypes ==
  ASSUME TypeOK, Boot \/ Crash \/ ClaimOld \/ Read
  PROVE  TypeOK'
<1>1. CASE Boot
  BY <1>1 DEF Boot, TypeOK, Phases, redis, bounds
<1>2. CASE Crash
  BY <1>2, BoundsAreNat DEF Crash, TypeOK, Phases, redis, bounds
<1>3. CASE ClaimOld
  BY <1>3, FaultsCounted DEF ClaimOld, TypeOK, Phases
<1>4. CASE Read
  BY <1>4, FaultsCounted DEF Read, TypeOK, Phases
<1> QED BY <1>1, <1>2, <1>3, <1>4

LEMMA TimeKeepsTypes ==
  ASSUME TypeOK
  PROVE  /\ \A r \in Requests : Age(r) => TypeOK'
         /\ \A k \in Keys : Expire(k) => TypeOK'
  BY BoundsAreNat DEF Age, Expire, TypeOK, thread, bounds

LEMMA HandlerKeepsTypes ==
  ASSUME TypeOK, NEW r \in Requests, Handle(r)
  PROVE  TypeOK'
<1> USE DEF TypeOK, Phases, Tried, Caught, HandlerUnchanged, After, redis
<1>1. CASE CheckCached(r)
  BY <1>1, BoundsAreNat, KeysAreKeys, FaultsCounted DEF CheckCached
<1>2. CASE CheckGuarded(r)
  BY <1>2, BoundsAreNat, KeysAreKeys, FaultsCounted DEF CheckGuarded
<1>3. CASE CheckFresh(r)
  BY <1>3, BoundsAreNat, KeysAreKeys, FaultsCounted DEF CheckFresh
<1>4. CASE Query(r)
  BY <1>4, BoundsAreNat, KeysAreKeys, FaultsCounted DEF Query
<1>5. CASE OrderPlaced(r)
  BY <1>5, BoundsAreNat, KeysAreKeys, FaultsCounted DEF OrderPlaced
<1>6. CASE OrderRefused(r)
  BY <1>6, BoundsAreNat, KeysAreKeys, FaultsCounted DEF OrderRefused
<1>7. CASE TryNextMode(r)
  BY <1>7, BoundsAreNat, KeysAreKeys, FaultsCounted DEF TryNextMode, NextMode
<1>8. CASE OrderReplyLost(r)
  BY <1>8, BoundsAreNat, KeysAreKeys, FaultsCounted DEF OrderReplyLost, NextMode
<1>9. CASE Store(r)
  BY <1>9, BoundsAreNat, KeysAreKeys, FaultsCounted DEF Store
<1>10. CASE Release(r)
  BY <1>10, BoundsAreNat, KeysAreKeys, FaultsCounted DEF Release
<1>11. CASE AnswerOk(r)
  BY <1>11, BoundsAreNat, KeysAreKeys, FaultsCounted DEF AnswerOk, Respond, FirstAnswer, Answer
<1>12. CASE Ack(r)
  BY <1>12, BoundsAreNat, KeysAreKeys, FaultsCounted DEF Ack, Acknowledge
<1>13. CASE AnswerError(r)
  <2>1. batch' \subseteq Requests /\ UNCHANGED <<message, old, cached, guard>>
    BY <1>13 DEF AnswerError, Respond
  <2>2. response' \in [Requests -> Answer]
    BY <1>13 DEF AnswerError, Respond, FirstAnswer, Answer
  <2> QED
    BY <1>13, <2>1, <2>2, BoundsAreNat, KeysAreKeys, FaultsCounted DEF AnswerError
<1>14. CASE AckError(r)
  BY <1>14, BoundsAreNat, KeysAreKeys, FaultsCounted DEF AckError, Acknowledge
<1> QED
  BY <1>1, <1>2, <1>3, <1>4, <1>5, <1>6, <1>7, <1>8, <1>9, <1>10, <1>11, <1>12,
     <1>13, <1>14 DEF Handle

(* Every state of the gateway, of its callers and of Redis is well typed.  *)
THEOREM GatewayTypeCorrect == Spec => []TypeOK
<1>1. TypeOK /\ [Next]_vars => TypeOK'
  <2> SUFFICES ASSUME TypeOK, [Next]_vars PROVE TypeOK'
    OBVIOUS
  <2>1. CASE UNCHANGED vars
    BY <2>1 DEF TypeOK, vars, redis, thread, bounds
  <2>2. CASE Next
    BY <2>2, CallerKeepsTypes, SessionKeepsTypes, TimeKeepsTypes, HandlerKeepsTypes
       DEF Next, CommandThread
  <2> QED BY <2>1, <2>2
<1> QED BY <1>1, InitTypeOK, PTL DEF Spec

-----------------------------------------------------------------------------
(* What a command being handled does to the answers.                       *)

LEMMA OneCurrent ==
  ASSUME TypeOK, NEW r \in Requests, NEW s \in Requests, Current(r), Current(s)
  PROVE  r = s
  BY GatewayAssumption DEF GatewayAssumption, TypeOK, Current

LEMMA HandlerKeepsAnswers ==
  ASSUME TypeOK, AnswersSound, NEW r \in Requests, Handle(r)
  PROVE  AnswersSound'
<1> USE DEF TypeOK, AnswersSound, OrderOf, Tried, Caught, HandlerUnchanged, After, redis, Current
<1>1. CASE CheckCached(r)
  BY <1>1, KeysAreKeys, OneCurrent DEF CheckCached
<1>2. CASE CheckGuarded(r)
  BY <1>2, KeysAreKeys, OneCurrent DEF CheckGuarded
<1>3. CASE CheckFresh(r)
  BY <1>3, KeysAreKeys, OneCurrent DEF CheckFresh
<1>4. CASE Query(r)
  BY <1>4, KeysAreKeys, OneCurrent DEF Query
<1>5. CASE OrderPlaced(r)
  BY <1>5, KeysAreKeys, OneCurrent DEF OrderPlaced
<1>6. CASE OrderRefused(r)
  BY <1>6, KeysAreKeys, OneCurrent DEF OrderRefused
<1>7. CASE TryNextMode(r)
  BY <1>7, KeysAreKeys, OneCurrent DEF TryNextMode, NextMode
<1>8. CASE OrderReplyLost(r)
  BY <1>8, KeysAreKeys, OneCurrent DEF OrderReplyLost, NextMode
<1>9. CASE Store(r)
  <2>1. /\ cached' = cached \/ cached' = [cached EXCEPT ![KeyOf[r]] = data]
        /\ phase' \in {"releasing", "refusing"} /\ phase = "storing" /\ Current(r)
        /\ UNCHANGED <<message, old, response, caller, taken, batch, tries, data>>
    BY <1>9 DEF Store
  <2>2. \A k \in Keys : k = KeyOf[r] => data <= taken[k]
    BY <2>1, GatewayAssumption DEF GatewayAssumption
  <2>3. \A k \in Keys : cached'[k] <= taken'[k]
    BY <2>1, <2>2
  <2> QED BY <2>1, <2>3
<1>10. CASE Release(r)
  BY <1>10, KeysAreKeys, OneCurrent DEF Release
<1>11. CASE AnswerOk(r)
  BY <1>11, KeysAreKeys, OneCurrent DEF AnswerOk, Respond, FirstAnswer, Answer
<1>12. CASE Ack(r)
  BY <1>12, KeysAreKeys, OneCurrent DEF Ack, Acknowledge
<1>13. CASE AnswerError(r)
  BY <1>13, KeysAreKeys, OneCurrent DEF AnswerError, Respond, FirstAnswer, Answer
<1>14. CASE AckError(r)
  BY <1>14, KeysAreKeys, OneCurrent DEF AckError, Acknowledge
<1> QED
  BY <1>1, <1>2, <1>3, <1>4, <1>5, <1>6, <1>7, <1>8, <1>9, <1>10, <1>11, <1>12,
     <1>13, <1>14 DEF Handle

LEMMA StepKeepsAnswers ==
  ASSUME TypeOK, AnswersSound, [Next]_vars
  PROVE  AnswersSound'
<1> USE DEF TypeOK, AnswersSound, OrderOf, Current, redis, thread, bounds
<1>1. ASSUME NEW r \in Requests, FailFast(r) \/ Send(r) \/ Receive(r) \/ GiveUp(r) \/ Age(r)
      PROVE  AnswersSound'
  <2>1. CASE FailFast(r)
    BY <2>1 DEF FailFast
  <2>2. CASE Send(r)
    BY <2>2 DEF Send
  <2>3. CASE Receive(r)
    BY <2>3 DEF Receive
  <2>4. CASE GiveUp(r)
    BY <2>4 DEF GiveUp
  <2>5. CASE Age(r)
    BY <2>5 DEF Age
  <2> QED BY <1>1, <2>1, <2>2, <2>3, <2>4, <2>5
<1>2. CASE Boot
  BY <1>2 DEF Boot
<1>3. CASE Crash
  BY <1>3 DEF Crash
<1>4. CASE ClaimOld
  BY <1>4 DEF ClaimOld
<1>5. CASE Read
  BY <1>5 DEF Read
<1>6. ASSUME NEW k \in Keys, Expire(k) PROVE AnswersSound'
  BY <1>6 DEF Expire
<1>7. CASE UNCHANGED vars
  BY <1>7 DEF vars
<1> QED
  BY <1>1, <1>2, <1>3, <1>4, <1>5, <1>6, <1>7, HandlerKeepsAnswers DEF Next, CommandThread

(* AnswersSound is an invariant: tickets name orders, in results, answers  *)
(* and calls, and no command is acknowledged before it is answered.        *)
THEOREM AnswersAreSound == Spec => []AnswersSound
<1>1. Init => AnswersSound
  BY DEF Init, AnswersSound, OrderOf, NoCall, NoAnswer
<1>2. TypeOK /\ AnswersSound /\ [Next]_vars => AnswersSound'
  BY StepKeepsAnswers
<1> QED BY <1>1, <1>2, GatewayTypeCorrect, PTL DEF Spec

(* An accepted call names an order that the terminal has, even if results  *)
(* expire, Redis fails and order_send loses its answers.                   *)
THEOREM AcceptedCallsAreReal == Spec => []AcceptedIsReal
<1>1. AnswersSound => AcceptedIsReal
  BY DEF AnswersSound, OrderOf, AcceptedIsReal
<1> QED BY <1>1, AnswersAreSound, PTL

(* No command leaves the pending list unanswered.                          *)
THEOREM NoCommandDropped == Spec => []AnsweredBeforeAck
<1>1. AnswersSound => AnsweredBeforeAck
  BY DEF AnswersSound, AnsweredBeforeAck
<1> QED BY <1>1, AnswersAreSound, PTL

-----------------------------------------------------------------------------
(* One order per key, but for the losses.                                  *)

OnceInv == Protected /\ RepeatsAreCounted

LEMMA HandlerKeepsOnce ==
  ASSUME TypeOK, AnswersSound, OnceInv, NEW r \in Requests, Handle(r)
  PROVE  OnceInv'
<1> USE OneCurrent, KeysAreKeys
    DEF TypeOK, OnceInv, Protected, Accounted, RepeatsAreCounted, Current, Tried, Caught,
        HandlerUnchanged, After, redis
<1>1. CASE CheckCached(r)
  BY <1>1 DEF CheckCached
<1>2. CASE CheckGuarded(r)
  BY <1>2 DEF CheckGuarded
<1>3. CASE CheckFresh(r)
  BY <1>3 DEF CheckFresh
<1>4. CASE Query(r)
  BY <1>4 DEF Query
<1>5. CASE OrderPlaced(r)
  BY <1>5 DEF OrderPlaced
<1>6. CASE OrderRefused(r)
  BY <1>6 DEF OrderRefused
<1>7. CASE TryNextMode(r)
  BY <1>7 DEF TryNextMode, NextMode
<1>8. CASE OrderReplyLost(r)
  BY <1>8 DEF OrderReplyLost, NextMode
<1>9. CASE Store(r)
  <2>1. KeyOf[r] # NoKey => data # 0
    BY <1>9 DEF Store, AnswersSound, OrderOf
  <2>2. /\ cached' = cached \/ cached' = [cached EXCEPT ![KeyOf[r]] = data]
        /\ phase' \in {"releasing", "refusing"} /\ phase = "storing" /\ Current(r)
        /\ phase' = "releasing" => cached' = [cached EXCEPT ![KeyOf[r]] = data]
        /\ UNCHANGED <<guard, taken, batch, lost, expiries>>
    BY <1>9 DEF Store
  <2> QED BY <2>1, <2>2
<1>10. CASE Release(r)
  BY <1>10 DEF Release
<1>11. CASE AnswerOk(r)
  BY <1>11 DEF AnswerOk, Respond
<1>12. CASE Ack(r)
  BY <1>12 DEF Ack, Acknowledge
<1>13. CASE AnswerError(r)
  BY <1>13 DEF AnswerError, Respond
<1>14. CASE AckError(r)
  BY <1>14 DEF AckError, Acknowledge
<1> QED
  BY <1>1, <1>2, <1>3, <1>4, <1>5, <1>6, <1>7, <1>8, <1>9, <1>10, <1>11, <1>12,
     <1>13, <1>14 DEF Handle

LEMMA StepKeepsOnce ==
  ASSUME TypeOK, AnswersSound, OnceInv, [Next]_vars
  PROVE  OnceInv'
<1> USE DEF TypeOK, OnceInv, Protected, Accounted, RepeatsAreCounted, Current, redis, thread, bounds
<1>1. ASSUME NEW r \in Requests, FailFast(r) \/ Send(r) \/ Receive(r) \/ GiveUp(r) \/ Age(r)
      PROVE  OnceInv'
  BY <1>1 DEF FailFast, Send, Receive, GiveUp, Age
<1>2. CASE Boot \/ Crash
  BY <1>2 DEF Boot, Crash
<1>3. CASE ClaimOld
  BY <1>3 DEF ClaimOld
<1>4. CASE Read
  BY <1>4 DEF Read
<1>5. ASSUME NEW k \in Keys, Expire(k) PROVE OnceInv'
  <2>1. /\ expiries' = expiries + 1 /\ expiries \in Nat /\ lost \in Nat
        /\ cached' = [cached EXCEPT ![k] = 0]
        /\ UNCHANGED <<guard, taken, batch, phase, lost>>
    BY <1>5, BoundsAreNat DEF Expire
  <2>2. \A j \in Keys : taken[j] \in Nat /\ taken[j] <= lost' + expiries'
    BY <2>1
  <2>3. RepeatsAreCounted' /\ \A j \in Keys : Accounted(j)'
    BY <2>1, <2>2
  <2>4. \A r \in Requests : KeyOf[r] # NoKey => Accounted(KeyOf[r])'
    BY <2>3, KeysAreKeys
  <2> QED BY <2>1, <2>3, <2>4
<1>6. CASE UNCHANGED vars
  BY <1>6 DEF vars
<1> QED
  BY <1>1, <1>2, <1>3, <1>4, <1>5, <1>6, HandlerKeepsOnce DEF Next, CommandThread

(* The state key protects an order until its result is on record, so that  *)
(* the command is executed again only after a loss.                        *)
THEOREM OnceHolds == Spec => []OnceInv
<1>1. Init => OnceInv
  BY DEF Init, OnceInv, Protected, Accounted, RepeatsAreCounted
<1>2. TypeOK /\ AnswersSound /\ OnceInv /\ [Next]_vars => OnceInv'
  BY StepKeepsOnce
<1> QED BY <1>1, <1>2, GatewayTypeCorrect, AnswersAreSound, PTL DEF Spec

(* However often a command is delivered, repeated or interrupted, a key    *)
(* has at most one order, and one more per lost answer and expired result. *)
THEOREM OneOrderAndTheLosses == Spec => []RepeatsAreCounted
<1>1. OnceInv => RepeatsAreCounted
  BY DEF OnceInv
<1> QED BY <1>1, OnceHolds, PTL

(* Until something is lost, accepted calls with one key name one order.    *)
THEOREM AcceptedCallsAgree == Spec => []AnswersAgree
<1>1. TypeOK /\ AnswersSound /\ OnceInv => AnswersAgree
  <2> SUFFICES ASSUME TypeOK, AnswersSound, OnceInv, lost + expiries = 0,
                      NEW r \in Requests, NEW s \in Requests,
                      caller[r].status = "accepted", caller[s].status = "accepted",
                      KeyOf[r] = KeyOf[s], KeyOf[r] # NoKey
               PROVE  caller[r].ticket = caller[s].ticket
    BY DEF AnswersAgree
  <2>1. KeyOf[r] \in Keys /\ taken[KeyOf[r]] \in Nat
    BY KeysAreKeys DEF TypeOK
  <2>2. taken[KeyOf[r]] <= 1
    BY <2>1, BoundsAreNat DEF OnceInv, RepeatsAreCounted, TypeOK
  <2>3. caller[r].ticket \in 1..taken[KeyOf[r]] /\ caller[s].ticket \in 1..taken[KeyOf[r]]
    BY DEF AnswersSound, OrderOf
  <2> QED BY <2>1, <2>2, <2>3
<1> QED BY <1>1, GatewayTypeCorrect, AnswersAreSound, OnceHolds, PTL
=============================================================================
