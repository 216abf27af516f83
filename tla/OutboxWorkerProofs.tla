------------------------- MODULE OutboxWorkerProofs -------------------------
(***************************************************************************)
(* Proofs about OutboxWorker, for every set of intents, legs and groups,   *)
(* every plan and every number of crashes and disconnections: its rows are *)
(* well typed, every order is on record before it is submitted and is      *)
(* submitted at most once, the worker implements StableOrder, and what the *)
(* books say of fills, completions, failures and closings is true.         *)
(***************************************************************************)
EXTENDS OutboxWorker, FiniteSetTheorems, SequenceTheorems, WellFoundedInduction, TLAPS

-----------------------------------------------------------------------------
(* What the projections return.                                            *)

LEMMA LotsIsNat == Lots \in Nat /\ Lots > 0
  BY ConstantsAssumption DEF ConstantsAssumption

LEMMA ReportsAreRows ==
  /\ Report \subseteq VenueRow /\ VenueRow \subseteq OrderRow
  /\ \A r \in VenueRow : r.status # "NONE" => r \in Report
  BY DEF Report, VenueRow, OrderRow, OrderStatus

(* A venue reports a status it knows and no more lots than were asked for. *)
LEMMA VenueReportsType ==
  ASSUME NEW q \in 0..Lots
  PROVE  VenueReports(q) \subseteq Report
  BY LotsIsNat DEF VenueReports, Report, VenueStatus

LEMMA GatewayOrderType ==
  ASSUME NEW o \in OrderRow, NEW r \in OrderRow, NEW q \in 0..Lots
  PROVE  /\ GatewayOrder(o, r, q) \in OrderRow
         /\ r.status # "NONE" => GatewayOrder(o, r, q).status # "NONE"
  BY LotsIsNat DEF GatewayOrder, Larger, OrderRow, OrderStatus, VenueStatus

LEMMA GatewayLegType ==
  ASSUME NEW o, NEW r, NEW q
  PROVE  GatewayLeg(o, r, q) \in LegStatus
  BY DEF GatewayLeg, LegStatus

LEMMA EventOrderType ==
  ASSUME NEW o \in OrderRow, NEW r \in Report
  PROVE  EventOrder(o, r) \in OrderRow /\ EventOrder(o, r).status # "NONE"
  BY LotsIsNat DEF EventOrder, Larger, OrderRow, Report, OrderStatus

LEMMA EventLegType ==
  ASSUME NEW o, NEW r
  PROVE  EventLeg(o, r) \in LegStatus
  BY DEF EventLeg, LegStatus

LEMMA IntentVerdictType ==
  ASSUME NEW S
  PROVE  IntentVerdict(S) \in IntentStatus \ {"ABSENT"}
  BY DEF IntentVerdict, IntentStatus

LEMMA GroupVerdictType ==
  ASSUME NEW k, NEW S, NEW f, NEW p
  PROVE  GroupVerdict(k, S, f, p) \in GroupStatus
  BY DEF GroupVerdict, OpenVerdict, CloseVerdict, GroupStatus

(* Finishing commands writes proper statuses, and makes no intent absent.  *)
LEMMA FinishCommandType ==
  ASSUME TypeOK, NEW T, NEW newLeg, NEW visible, FinishCommand(T, newLeg, visible)
  PROVE  /\ outbox' = [i \in Intents |-> IF i \in T THEN "SENT" ELSE outbox[i]]
         /\ outbox' \in [Intents -> OutboxStatus]
         /\ intent' \in [Intents -> IntentStatus]
         /\ group' \in [Groups -> GroupStatus]
         /\ \A i \in Intents : IF i \in T THEN intent'[i] # "ABSENT" ELSE intent'[i] = intent[i]
  BY IntentVerdictType, GroupVerdictType DEF FinishCommand, TypeOK, OutboxStatus

LEMMA AppliedOrderType ==
  ASSUME TypeOK, NEW S, NEW r, \A l \in Legs \cap S : r[l] \in OrderRow
  PROVE  AppliedOrder(S, r) \in [Legs -> OrderRow]
<1> SUFFICES ASSUME NEW l \in Legs
             PROVE  (IF l \in S THEN GatewayOrder(order[l], r[l], plan[l]) ELSE order[l]) \in OrderRow
    BY DEF AppliedOrder
<1> QED
    BY GatewayOrderType DEF TypeOK

LEMMA AppliedLegType ==
  ASSUME TypeOK, NEW S, NEW r
  PROVE  AppliedLeg(S, r) \in [Legs -> LegStatus]
  BY GatewayLegType DEF AppliedLeg, TypeOK

-----------------------------------------------------------------------------
(* The rows, the memory of the worker and the world keep their types.      *)

LEMMA InitTypeOK == Init => TypeOK
<1> SUFFICES ASSUME Init PROVE TypeOK
    OBVIOUS
<1>1. NoReport \in OrderRow /\ NoReport \in VenueRow
    BY LotsIsNat DEF NoReport, OrderRow, VenueRow, OrderStatus, VenueStatus
<1>2. /\ order \in [Legs -> OrderRow] /\ result \in [Legs -> OrderRow]
      /\ venue \in [Legs -> VenueRow]
    BY <1>1 DEF Init
<1>3. /\ intent \in [Intents -> IntentStatus] /\ outbox \in [Intents -> OutboxStatus]
      /\ leg \in [Legs -> LegStatus] /\ group \in [Groups -> GroupStatus]
      /\ prev \in [Intents -> GroupStatus]
    BY DEF Init, IntentStatus, OutboxStatus, LegStatus, GroupStatus
<1>4. /\ plan \in [Legs -> 0..Lots] /\ submitted \in [Legs -> Nat]
      /\ crashes \in 0..MaxCrashes /\ drops \in 0..MaxDrops
    BY LotsIsNat, ConstantsAssumption DEF Init, ConstantsAssumption
<1>5. queue \in [Legs -> Seq(Report)]
    BY DEF Init
<1> QED
    BY <1>2, <1>3, <1>4, <1>5 DEF Init, TypeOK

LEMMA CreationType ==
  ASSUME TypeOK, NEW i \in Intents, NEW q \in Plans,
         CreateIntent(i, q) \/ InheritUnsent(i, q) \/ InheritRefused(i, q)
  PROVE  TypeOK'
<1> USE LotsIsNat DEF TypeOK
<1>1. \A k \in LegKeys : q[k] \in 0..Lots
    BY ConstantsAssumption DEF ConstantsAssumption
<1>2. ASSUME NEW s \in IntentStatus, NEW t \in OutboxStatus, WriteIntent(i, q, s, t)
      PROVE  /\ intent' \in [Intents -> IntentStatus] /\ outbox' \in [Intents -> OutboxStatus]
             /\ group' \in [Groups -> GroupStatus] /\ prev' \in [Intents -> GroupStatus]
             /\ plan' \in [Legs -> 0..Lots]
             /\ UNCHANGED <<queue, online, ever, gap, worker, asked, faults>>
    <2>1. plan' \in [Legs -> 0..Lots]
        BY <1>1, <1>2 DEF WriteIntent, Planned, Legs
    <2>2. /\ intent' \in [Intents -> IntentStatus] /\ outbox' \in [Intents -> OutboxStatus]
          /\ group' \in [Groups -> GroupStatus]
        BY <1>2 DEF WriteIntent, GroupStatus
    <2>3. prev' \in [Intents -> GroupStatus]
        BY <1>2, ConstantsAssumption DEF WriteIntent, ConstantsAssumption
    <2> QED
        BY <1>2, <2>1, <2>2, <2>3 DEF WriteIntent
<1>3. CASE CreateIntent(i, q)
    <2>1. WriteIntent(i, q, "CREATED", "PENDING")
        BY <1>3 DEF CreateIntent
    <2> QED
        BY <1>2, <1>3, <2>1 DEF CreateIntent, worker, faults, IntentStatus, OutboxStatus
<1>4. CASE InheritUnsent(i, q)
    <2>1. WriteIntent(i, q, "RUNNING", "SENT")
        BY <1>4 DEF InheritUnsent
    <2> QED
        BY <1>2, <1>4, <2>1 DEF InheritUnsent, worker, faults, IntentStatus, OutboxStatus
<1>5. CASE InheritRefused(i, q)
    <2>1. WriteIntent(i, q, "RECOVERY_REQUIRED", "PROCESSING")
        BY <1>5 DEF InheritRefused
    <2>2. leg' \in [Legs -> LegStatus]
        BY <1>5 DEF InheritRefused, LegStatus
    <2>3. order' \in [Legs -> OrderRow]
        BY <1>1, <1>5 DEF OrderRow, InheritRefused, Unknown, OrderStatus, VenueStatus, Legs
    <2>4. venue' \in [Legs -> VenueRow]
        BY <1>1, <1>5 DEF VenueRow, InheritRefused, VenueStatus, Legs
    <2>5. /\ submitted' \in [Legs -> Nat] /\ wire' \subseteq Legs
          /\ logged' \subseteq Legs /\ refusals' \subseteq Legs
        BY <1>5 DEF InheritRefused
    <2> QED
        BY <1>2, <2>1, <2>2, <2>3, <2>4, <2>5 DEF worker, faults, IntentStatus, OutboxStatus
<1> QED
    BY <1>3, <1>4, <1>5

LEMMA RepairType ==
  ASSUME TypeOK, NEW i \in Intents, RollBackStale(i) \/ RequeueUnsent(i)
  PROVE  TypeOK'
<1> USE DEF TypeOK, command, world, stream, worker, history, faults
<1>1. CASE RollBackStale(i)
    BY <1>1, ConstantsAssumption
    DEF ConstantsAssumption, RollBackStale, IntentStatus, OutboxStatus, GroupStatus
<1>2. CASE RequeueUnsent(i)
    BY <1>2 DEF RequeueUnsent, IntentStatus, OutboxStatus
<1> QED
    BY <1>1, <1>2

LEMMA ClaimType ==
  ASSUME TypeOK, NEW F \in SUBSET Intents, NEW P \in SUBSET Intents, Claim(F, P)
  PROVE  TypeOK'
  BY DEF TypeOK, Claim, command, world, stream, history, faults, OutboxStatus

LEMMA SubmitType ==
  ASSUME TypeOK, NEW l \in Legs, Submit(l)
  PROVE  TypeOK'
<1> USE DEF TypeOK
<1>1. ASSUME NEW r \in OrderRow, Answered(l, r)
      PROVE  /\ sending' \subseteq Legs /\ submitted' \in [Legs -> Nat]
             /\ result' \in [Legs -> OrderRow]
             /\ UNCHANGED <<rows, command, online, ever, gap, phase, fresh, stale, asked, faults>>
    BY <1>1 DEF Answered
<1>2. ASSUME NEW r \in Report, Emit(l, r)
      PROVE  queue' \in [Legs -> Seq(Report)]
    BY <1>2, AppendProperties DEF Emit
<1>3. Unknown \in OrderRow /\ Rejected \in OrderRow
    BY LotsIsNat DEF Unknown, Rejected, OrderRow, OrderStatus
<1>4. CASE SubmitAcknowledged(l) \/ SubmitAnswerLost(l)
    <2>1. PICK r \in VenueReports(plan[l]) :
              /\ Answered(l, r) \/ Answered(l, Unknown)
              /\ venue' = [venue EXCEPT ![l] = r] /\ Emit(l, r) /\ UNCHANGED wire
        BY <1>4 DEF SubmitAcknowledged, SubmitAnswerLost
    <2>2. r \in Report /\ r \in VenueRow /\ r \in OrderRow
        BY <2>1, VenueReportsType, ReportsAreRows
    <2> QED
        BY <1>1, <1>2, <1>3, <2>1, <2>2 DEF rows, command, faults
<1>5. CASE SubmitRejected(l)
    BY <1>1, <1>3, <1>5 DEF SubmitRejected, rows, command, faults
<1>6. CASE SubmitTimesOut(l)
    BY <1>1, <1>3, <1>6 DEF SubmitTimesOut, rows, command, faults
<1> QED
    BY <1>4, <1>5, <1>6 DEF Submit

LEMMA DispatchType ==
  ASSUME TypeOK, NEW i \in Intents, DeferClaim(i) \/ Dispatch(i)
  PROVE  TypeOK'
<1> USE DEF TypeOK, command, world, stream, history, faults
<1>1. CASE DeferClaim(i)
    BY <1>1 DEF DeferClaim, OutboxStatus
<1>2. CASE Dispatch(i)
    <2>1. [status |-> "INITIALIZED", filled |-> 0] \in OrderRow
        BY LotsIsNat DEF OrderRow, OrderStatus
    <2>2. LegsOf(i) \subseteq Legs
        BY DEF LegsOf
    <2> QED
        BY <1>2, <2>1, <2>2 DEF Dispatch, IntentStatus
<1> QED
    BY <1>1, <1>2

LEMMA RecordResultsType ==
  ASSUME TypeOK, NEW i \in Intents, RecordResults(i)
  PROVE  TypeOK'
<1> USE DEF TypeOK
<1> DEFINE unknown  == {l \in LegsOf(i) : result[l].status = "UNKNOWN"}
           known    == LegsOf(i) \ unknown
           newOrder == [l \in Legs |-> IF l \in unknown THEN [order[l] EXCEPT !.status = "UNKNOWN"]
                                       ELSE AppliedOrder(known, result)[l]]
           newLeg   == [l \in Legs |-> IF l \in unknown THEN "UNKNOWN"
                                       ELSE AppliedLeg(known, result)[l]]
<1>1. order' = newOrder /\ order' \in [Legs -> OrderRow]
    <2>1. order' = newOrder
        BY RecordResults(i) DEF RecordResults
    <2>2. AppliedOrder(known, result) \in [Legs -> OrderRow]
        BY AppliedOrderType
    <2>3. \A r \in OrderRow : [r EXCEPT !.status = "UNKNOWN"] \in OrderRow
        BY DEF OrderRow, OrderStatus
    <2>3a. \A l \in Legs : [order[l] EXCEPT !.status = "UNKNOWN"] \in OrderRow
        BY <2>3
    <2>4. newOrder \in [Legs -> OrderRow]
        BY <2>2, <2>3a
    <2> QED
        BY <2>1, <2>4
<1>2. leg' = newLeg /\ newLeg \in [Legs -> LegStatus]
    BY AppliedLegType, RecordResults(i) DEF RecordResults, LegStatus
<1>3. LegsOf(i) \subseteq Legs
    BY DEF LegsOf
<1>4. /\ intent' \in [Intents -> IntentStatus] /\ outbox' \in [Intents -> OutboxStatus]
      /\ group' \in [Groups -> GroupStatus]
    <2>1. CASE unknown # {}
        <3>1. /\ outbox' = [outbox EXCEPT ![i] = "PROCESSING"]
              /\ intent' = [intent EXCEPT ![i] = "RECOVERY_REQUIRED"]
              /\ UNCHANGED group
            BY <2>1, RecordResults(i) DEF RecordResults
        <3> QED
            BY <3>1 DEF IntentStatus, OutboxStatus
    <2>2. CASE unknown = {}
        <3>1. FinishCommand({i}, newLeg, newOrder)
            BY <2>2, RecordResults(i) DEF RecordResults
        <3> QED
            BY <3>1, FinishCommandType
    <2> QED
        BY <2>1, <2>2
<1>5. result' \in [Legs -> OrderRow]
    <2>1. NoReport \in OrderRow
        BY LotsIsNat DEF NoReport, OrderRow, OrderStatus, VenueStatus
    <2> QED
        BY <2>1, RecordResults(i) DEF RecordResults
<1>6. /\ logged' \subseteq Legs /\ phase' = "ready" /\ fresh' \subseteq Intents
      /\ UNCHANGED <<command, world, stream, gap, stale, sending, history, faults>>
    BY <1>3, RecordResults(i) DEF RecordResults
<1>7. leg' \in [Legs -> LegStatus]
    BY <1>2
<1> HIDE DEF newOrder, newLeg, known, unknown
<1> QED
    BY <1>1, <1>4, <1>5, <1>6, <1>7 DEF command, world, stream, history, faults

(* The orders a query or a recovery applies: an answer is what the venue   *)
(* has, a refusal of old is a rejection.                                   *)
LEMMA RecoverType ==
  ASSUME TypeOK, NEW i \in Intents, NEW S \in SUBSET LegsOf(i), Recover(i, S)
  PROVE  TypeOK'
<1> USE DEF TypeOK
<1> DEFINE open    == {l \in LegsOf(i) : order[l].status \in NonTerminalOrderStatuses}
           missing == {l \in LegsOf(i) : order[l].status = "NONE"}
           refused == {l \in open \cap refusals : order[l].filled = 0}
           reports == [l \in Legs |-> IF l \in refused THEN Rejected ELSE venue[l]]
           applied == S \cup refused
           newLeg  == AppliedLeg(applied, reports)
<1>1. LegsOf(i) \subseteq Legs
    BY DEF LegsOf
<1>2. reports \in [Legs -> OrderRow]
    BY LotsIsNat, ReportsAreRows DEF Rejected, OrderRow, OrderStatus
<1>3. order' = AppliedOrder(applied, reports) /\ leg' = newLeg
    BY Recover(i, S) DEF Recover
<1>4. order' \in [Legs -> OrderRow] /\ leg' \in [Legs -> LegStatus]
    BY <1>2, <1>3, AppliedOrderType, AppliedLegType
<1>5. /\ intent' \in [Intents -> IntentStatus] /\ outbox' \in [Intents -> OutboxStatus]
      /\ group' \in [Groups -> GroupStatus]
    <2>1. CASE missing = {} /\ open \subseteq applied
        <3>1. FinishCommand({i}, newLeg, order)
            BY <2>1, Recover(i, S) DEF Recover
        <3> QED
            BY <3>1, FinishCommandType
    <2>2. CASE ~(missing = {} /\ open \subseteq applied)
        <3>1. /\ outbox' = [outbox EXCEPT ![i] = "FAILED"]
              /\ intent' = [intent EXCEPT ![i] = "RECOVERY_REQUIRED"]
              /\ UNCHANGED group
            BY <2>2, Recover(i, S) DEF Recover
        <3> QED
            BY <3>1 DEF IntentStatus, OutboxStatus
    <2> QED
        BY <2>1, <2>2
<1>6. logged' \subseteq Legs /\ asked' \subseteq Legs /\ stale' \subseteq Intents
    BY <1>1, Recover(i, S) DEF Recover
<1> QED
    BY <1>4, <1>5, <1>6, Recover(i, S) DEF Recover, command, world, stream, faults

LEMMA ProjectType ==
  ASSUME TypeOK, NEW l \in Legs, Project(l)
  PROVE  TypeOK'
<1> USE DEF TypeOK
<1> DEFINE report   == Head(queue[l])
           newOrder == [order EXCEPT ![l] = EventOrder(@, report)]
           newLeg   == [leg EXCEPT ![l] = EventLeg(order[l], report)]
<1>1. report \in Report /\ Tail(queue[l]) \in Seq(Report)
    BY HeadTailProperties, Project(l) DEF Project
<1>2. order' = newOrder /\ leg' = newLeg /\ FinishCommand({l[1]}, newLeg, newOrder)
    BY Project(l) DEF Project
<1>3. order' \in [Legs -> OrderRow] /\ leg' \in [Legs -> LegStatus]
    BY <1>1, <1>2, EventOrderType, EventLegType
<1>4. /\ intent' \in [Intents -> IntentStatus] /\ outbox' \in [Intents -> OutboxStatus]
      /\ group' \in [Groups -> GroupStatus]
    BY <1>2, FinishCommandType
<1>5. queue' \in [Legs -> Seq(Report)] /\ logged' \subseteq Legs
    BY <1>1, Project(l) DEF Project
<1> QED
    BY <1>3, <1>4, <1>5, Project(l) DEF Project, command, world, worker, history, faults

LEMMA QueryOrdersType ==
  ASSUME TypeOK, NEW S \in SUBSET Legs, QueryOrders(S)
  PROVE  /\ order' \in [Legs -> OrderRow] /\ leg' \in [Legs -> LegStatus]
         /\ intent' \in [Intents -> IntentStatus] /\ outbox' \in [Intents -> OutboxStatus]
         /\ group' \in [Groups -> GroupStatus]
         /\ logged' \subseteq Legs /\ asked' \subseteq Legs
<1> USE DEF TypeOK
<1>1. venue \in [Legs -> OrderRow]
    BY ReportsAreRows
<1>2. /\ order' = AppliedOrder(S, venue) /\ leg' = AppliedLeg(S, venue)
      /\ FinishCommand({l[1] : l \in S}, AppliedLeg(S, venue), AppliedOrder(S, venue))
    BY QueryOrders(S) DEF QueryOrders
<1>3. order' \in [Legs -> OrderRow] /\ leg' \in [Legs -> LegStatus]
    BY <1>1, <1>2, AppliedOrderType, AppliedLegType
<1>4. /\ intent' \in [Intents -> IntentStatus] /\ outbox' \in [Intents -> OutboxStatus]
      /\ group' \in [Groups -> GroupStatus]
    BY <1>2, FinishCommandType
<1> QED
    BY <1>3, <1>4, QueryOrders(S) DEF QueryOrders, Reconcilable

LEMMA ReconcileType ==
  ASSUME TypeOK, NEW S \in SUBSET Legs, Start(S) \/ Reconcile(S)
  PROVE  TypeOK'
<1>1. QueryOrders(S)
    BY DEF Start, Reconcile
<1> QED
    BY <1>1, QueryOrdersType DEF TypeOK, Start, Reconcile, command, world, stream, worker, faults

LEMMA WorldType ==
  ASSUME TypeOK, NEW l \in Legs, VenueProgress(l) \/ Arrive(l)
  PROVE  TypeOK'
<1> USE DEF TypeOK
<1>1. PICK r \in VenueReports(plan[l]) : VenueMoves(l, r)
    BY DEF VenueProgress, Arrive
<1>2. r \in Report /\ r \in VenueRow
    BY <1>1, VenueReportsType, ReportsAreRows
<1>3. venue' \in [Legs -> VenueRow] /\ queue' \in [Legs -> Seq(Report)]
    BY <1>1, <1>2, AppendProperties DEF VenueMoves, Emit
<1>4. wire' \subseteq Legs
    BY DEF VenueProgress, Arrive
<1> QED
    BY <1>1, <1>3, <1>4 DEF VenueMoves, rows, command, worker, history, faults

LEMMA FaultType ==
  ASSUME TypeOK,
         (\E k \in LegKeys : Connect(k) \/ Disconnect(k)) \/ Crash
  PROVE  TypeOK'
<1> USE ConstantsAssumption DEF TypeOK, ConstantsAssumption, rows, command, world, worker, history, faults
<1>1. ASSUME NEW k \in LegKeys, Connect(k) \/ Disconnect(k) PROVE TypeOK'
    <2>1. gap' \in BOOLEAN
        BY <1>1, Zenon DEF Connect, Disconnect
    <2>2. CASE Connect(k)
        BY <2>1, <2>2 DEF Connect
    <2>3. CASE Disconnect(k)
        BY <2>1, <2>3 DEF Disconnect
    <2> QED
        BY <1>1, <2>2, <2>3
<1>2. CASE Crash
    <2>1. NoReport \in OrderRow
        BY LotsIsNat DEF NoReport, OrderRow, OrderStatus, VenueStatus
    <2>2. /\ result' = [l \in Legs |-> NoReport] /\ queue' = [l \in Legs |-> << >>]
          /\ crashes' = crashes + 1 /\ crashes < MaxCrashes
        BY <1>2 DEF Crash
    <2>3. result' \in [Legs -> OrderRow]
        BY <2>1, <2>2
    <2>4. queue' \in [Legs -> Seq(Report)]
        BY <2>2
    <2>5. crashes' \in 0..MaxCrashes
        BY <2>2
    <2> QED
        BY <1>2, <2>3, <2>4, <2>5 DEF Crash
<1> QED
    BY <1>1, <1>2

LEMMA StepType ==
  ASSUME TypeOK, [Next]_vars
  PROVE  TypeOK'
<1>1. CASE UNCHANGED vars
    BY <1>1 DEF TypeOK, vars, rows, command, world, stream, worker, history, faults
<1>2. CASE WorkerStep
    BY <1>2, RepairType, ClaimType, DispatchType, SubmitType, RecordResultsType, RecoverType,
       ProjectType, ReconcileType
    DEF WorkerStep, ProcessClaim
<1>3. CASE Environment
    BY <1>3, CreationType, WorldType, FaultType DEF Environment
<1>4. CASE Crash
    BY <1>4, FaultType
<1> QED
    BY <1>1, <1>2, <1>3, <1>4 DEF Next

(* Every row of the execution tables keeps a status of its vocabulary, and *)
(* no more lots are ever booked than a leg may ask for.                    *)
THEOREM TypeCorrect == Spec => []TypeOK
<1>1. Init => TypeOK
    BY InitTypeOK
<1>2. TypeOK /\ [Next]_vars => TypeOK'
    BY StepType
<1> QED
    BY <1>1, <1>2, PTL DEF Spec

-----------------------------------------------------------------------------
(* Submission happens once.  IInv is inductive: each lemma takes a group   *)
(* of actions, and in it the rows of a leg and then those of an intent.    *)

IInv == TypeOK /\ SubmissionInv

LEMMA LegsArePairs ==
  /\ \A l \in Legs : l[1] \in Intents /\ l[2] \in LegKeys
  /\ \A i \in Intents : LegsOf(i) \subseteq Legs
  /\ \A i \in Intents : \A l \in LegsOf(i) : l[1] = i /\ plan[l] > 0
  /\ \A i, j \in Intents : i <= j /\ j <= i => i = j
  BY ConstantsAssumption DEF ConstantsAssumption, Legs, LegsOf

LEMMA InitSafe == Init => SubmissionInv
  BY LegsArePairs
  DEF Init, SubmissionInv, LegSafe, IntentSafe, PhasesAreDistinct, BeingDispatched, NoReport

(* A new intent is nobody's: its orders are not on record and no claim     *)
(* holds it.                                                               *)
LEMMA CreationSafe ==
  ASSUME IInv, NEW i \in Intents, NEW q \in Plans,
         CreateIntent(i, q) \/ InheritUnsent(i, q) \/ InheritRefused(i, q)
  PROVE  SubmissionInv'
<1> USE DEF IInv
<1>1. /\ intent[i] = "ABSENT" /\ outbox[i] = "ABSENT"
      /\ intent'[i] # "ABSENT" /\ outbox'[i] \in {"PENDING", "SENT", "PROCESSING"}
      /\ \A j \in Intents \ {i} : intent'[j] = intent[j] /\ outbox'[j] = outbox[j]
      /\ \A l \in Legs : plan'[l] = IF l[1] = i THEN q[l[2]] ELSE plan[l]
      /\ UNCHANGED <<phase, fresh, stale, sending, result, queue>>
    BY DEF CreateIntent, InheritUnsent, InheritRefused, WriteIntent, MayCreate, Planned, TypeOK,
           SubmissionInv, IntentSafe, worker
<1>2. i \notin fresh \cup stale /\ \A l \in Legs : l[1] = i => order[l].status = "NONE"
    BY <1>1 DEF SubmissionInv, IntentSafe
<1>3. \A j \in Intents : BeingDispatched(j)' <=> BeingDispatched(j)
    BY <1>1 DEF BeingDispatched
<1>4. ~BeingDispatched(i)
    BY <1>2 DEF BeingDispatched
<1>5. PhasesAreDistinct'
    BY <1>1 DEF SubmissionInv, PhasesAreDistinct
<1>6. CASE CreateIntent(i, q) \/ InheritUnsent(i, q)
    <2>1. UNCHANGED <<order, venue, wire, submitted>>
        BY <1>6 DEF CreateIntent, InheritUnsent
    <2>2. ASSUME NEW l \in Legs PROVE LegSafe(l)'
        BY <1>1, <1>2, <1>3, <1>4, <2>1, LegsArePairs DEF SubmissionInv, LegSafe
    <2>3. ASSUME NEW j \in Intents PROVE IntentSafe(j)'
        BY <1>1, <1>2, <1>3, <2>1 DEF SubmissionInv, IntentSafe
    <2> QED
        BY <1>5, <2>2, <2>3 DEF SubmissionInv
<1>7. CASE InheritRefused(i, q)
    <2> DEFINE mine(l) == l[1] = i /\ q[l[2]] > 0
    <2>1. /\ UNCHANGED wire /\ outbox'[i] = "PROCESSING"
          /\ \A l \in Legs : IF mine(l) THEN order'[l].status # "NONE" /\ submitted'[l] = 1
                             ELSE order'[l] = order[l] /\ submitted'[l] = submitted[l]
                                  /\ venue'[l] = venue[l]
        BY <1>7 DEF InheritRefused, WriteIntent, Unknown, TypeOK
    <2>2. ASSUME NEW l \in Legs PROVE LegSafe(l)'
        <3>1. CASE mine(l)
            BY <1>1, <1>2, <1>3, <1>4, <2>1, <3>1, LegsArePairs DEF SubmissionInv, LegSafe, TypeOK
        <3>2. CASE ~mine(l)
            BY <1>1, <1>2, <1>3, <1>4, <2>1, <3>2, LegsArePairs DEF SubmissionInv, LegSafe, TypeOK
        <3> QED
            BY <3>1, <3>2
    <2>3. ASSUME NEW j \in Intents PROVE IntentSafe(j)'
        BY <1>1, <1>2, <1>3, <2>1 DEF SubmissionInv, IntentSafe
    <2> QED
        BY <1>5, <2>2, <2>3 DEF SubmissionInv
<1> QED
    BY <1>6, <1>7

(* A step that leaves the legs' side of the state alone.                   *)
LEMMA LegsUntouched ==
  ASSUME IInv, UNCHANGED <<order, plan, venue, wire, queue, submitted, sending, result>>,
         \A i \in Intents : BeingDispatched(i)' <=> BeingDispatched(i)
  PROVE  \A l \in Legs : LegSafe(l)'
  BY LegsArePairs DEF IInv, SubmissionInv, LegSafe

LEMMA RepairSafe ==
  ASSUME IInv, NEW i \in Intents, RollBackStale(i) \/ RequeueUnsent(i)
  PROVE  SubmissionInv'
<1> USE DEF IInv
<1>1. /\ Idle /\ NeverDispatched(i)
      /\ outbox'[i] \in {"CANCELED", "PENDING"} /\ intent'[i] # "ABSENT"
      /\ \A j \in Intents \ {i} : intent'[j] = intent[j] /\ outbox'[j] = outbox[j]
      /\ UNCHANGED <<order, plan, venue, wire, queue, submitted, worker>>
    BY DEF RollBackStale, RequeueUnsent, TypeOK, command, world, stream, history
<1>2. \A l \in Legs : l[1] = i => order[l].status = "NONE"
    BY <1>1, LotsIsNat DEF NeverDispatched, LegsOf, SubmissionInv, LegSafe
<1>3. \A l \in Legs : LegSafe(l)'
    BY <1>1, LegsUntouched DEF worker, BeingDispatched
<1>4. \A j \in Intents : IntentSafe(j)'
    BY <1>1, <1>2 DEF SubmissionInv, IntentSafe, Idle, worker, BeingDispatched
<1> QED
    BY <1>1, <1>3, <1>4 DEF SubmissionInv, PhasesAreDistinct, worker

LEMMA ClaimSafe ==
  ASSUME IInv, NEW F \in SUBSET Intents, NEW P \in SUBSET Intents, Claim(F, P)
  PROVE  SubmissionInv'
<1> USE DEF IInv
<1>1. /\ phase = "ready" /\ phase' = "ready" /\ fresh' = F /\ stale' = P
      /\ \A i \in F : outbox[i] = "PENDING"
      /\ \A i \in P : outbox[i] = "PROCESSING"
      /\ \A i \in Intents : outbox'[i] = IF i \in F THEN "PROCESSING" ELSE outbox[i]
      /\ UNCHANGED <<intent, order, plan, venue, wire, queue, submitted, sending, result>>
    BY DEF Claim, Idle, command, world, stream, history
<1>2. \A l \in Legs : LegSafe(l)'
    BY <1>1, LegsUntouched DEF BeingDispatched
<1>3. \A i \in Intents : IntentSafe(i)'
    BY <1>1 DEF SubmissionInv, IntentSafe, BeingDispatched
<1> QED
    BY <1>1, <1>2, <1>3 DEF SubmissionInv, PhasesAreDistinct

LEMMA DispatchSafe ==
  ASSUME IInv, NEW i \in Intents, DeferClaim(i) \/ Dispatch(i)
  PROVE  SubmissionInv'
<1> USE DEF IInv
<1>1. phase = "ready" /\ i \in fresh /\ \A j \in fresh \cup stale : i <= j
    BY DEF DeferClaim, Dispatch, NextClaim
<1>2. \A l \in Legs : l[1] = i => order[l].status = "NONE" /\ submitted[l] = 0
    BY <1>1 DEF SubmissionInv, IntentSafe, LegSafe, BeingDispatched
<1>3. CASE DeferClaim(i)
    <2>1. /\ phase' = "ready" /\ fresh' = fresh \ {i} /\ outbox'[i] = "PENDING"
          /\ \A j \in Intents \ {i} : outbox'[j] = outbox[j]
          /\ UNCHANGED <<intent, order, plan, venue, wire, queue, submitted, stale, sending, result>>
        BY <1>1, <1>3 DEF DeferClaim, TypeOK, command, world, stream, history
    <2>2. \A l \in Legs : LegSafe(l)'
        BY <1>1, <2>1, LegsUntouched DEF BeingDispatched
    <2>3. \A j \in Intents : IntentSafe(j)'
        BY <1>1, <1>2, <2>1 DEF SubmissionInv, PhasesAreDistinct, IntentSafe, BeingDispatched
    <2> QED
        BY <1>1, <2>1, <2>2, <2>3 DEF SubmissionInv, PhasesAreDistinct
<1>4. CASE Dispatch(i)
    <2>1. /\ phase' = "dispatching" /\ sending' = LegsOf(i) /\ intent'[i] = "RUNNING"
          /\ \A j \in Intents \ {i} : intent'[j] = intent[j]
          /\ \A l \in Legs : IF l \in LegsOf(i) THEN order'[l].status # "NONE"
                                                ELSE order'[l] = order[l]
          /\ UNCHANGED <<outbox, plan, venue, wire, queue, submitted, fresh, stale, result>>
        BY <1>4 DEF Dispatch, TypeOK, command, world, stream, history
    <2>2. \A j \in Intents : BeingDispatched(j)' <=> j = i
        BY <1>1, <2>1, LegsArePairs DEF BeingDispatched, TypeOK
    <2>3. \A l \in Legs : sending = {} /\ (l \in LegsOf(i) <=> l[1] = i /\ plan[l] > 0)
        BY <1>1 DEF SubmissionInv, PhasesAreDistinct, LegsOf
    <2>4. ASSUME NEW l \in Legs PROVE LegSafe(l)'
        BY <1>2, <2>1, <2>2, <2>3, LegsArePairs DEF SubmissionInv, LegSafe
    <2>5. ASSUME NEW j \in Intents PROVE IntentSafe(j)'
        <3>1. CASE j = i
            BY <1>1, <2>1, <2>2, <3>1 DEF SubmissionInv, IntentSafe
        <3>2. CASE j # i
            BY <1>1, <2>1, <2>2, <2>3, <3>2 DEF SubmissionInv, IntentSafe, BeingDispatched
        <3> QED
            BY <3>1, <3>2
    <2> QED
        BY <1>1, <2>1, <2>4, <2>5 DEF SubmissionInv, PhasesAreDistinct
<1> QED
    BY <1>3, <1>4

LEMMA SubmitSafe ==
  ASSUME IInv, NEW l \in Legs, Submit(l)
  PROVE  SubmissionInv'
<1> USE DEF IInv
<1>1. PICK r \in OrderRow : r.status # "NONE" /\ Answered(l, r)
    <2>1. Unknown \in OrderRow /\ Rejected \in OrderRow
        BY LotsIsNat DEF Unknown, Rejected, OrderRow, OrderStatus
    <2>2. \A r \in VenueReports(plan[l]) : r \in OrderRow /\ r.status # "NONE"
        BY VenueReportsType, ReportsAreRows DEF TypeOK, Report
    <2> QED
        BY <2>1, <2>2 DEF Submit, SubmitAcknowledged, SubmitRejected, SubmitAnswerLost,
                          SubmitTimesOut, Unknown, Rejected
<1>2. /\ l \in sending /\ sending' = sending \ {l}
      /\ result' = [result EXCEPT ![l] = r] /\ submitted' = [submitted EXCEPT ![l] = @ + 1]
      /\ UNCHANGED <<intent, outbox, order, plan, phase, fresh, stale>>
    BY <1>1 DEF Answered, rows, command
<1>3. /\ \A k \in Legs \ {l} : /\ venue'[k] = venue[k] /\ queue'[k] = queue[k]
                               /\ (k \in wire' <=> k \in wire)
      /\ l \in wire' => venue'[l] = venue[l] \/ l \in wire
    BY DEF Submit, SubmitAcknowledged, SubmitRejected, SubmitAnswerLost, SubmitTimesOut, Emit, TypeOK
<1>4. \A j \in Intents : BeingDispatched(j)' <=> BeingDispatched(j)
    BY <1>2 DEF BeingDispatched
<1>5. /\ submitted[l] = 0 /\ submitted'[l] = 1 /\ order[l].status # "NONE"
      /\ BeingDispatched(l[1]) /\ venue[l].status = "NONE" /\ l \notin wire
    BY <1>2 DEF SubmissionInv, LegSafe, TypeOK
<1>6. LegSafe(l)'
    BY <1>1, <1>2, <1>3, <1>5 DEF SubmissionInv, LegSafe, TypeOK
<1>7. ASSUME NEW k \in Legs \ {l} PROVE LegSafe(k)'
    BY <1>2, <1>3, <1>4, LegsArePairs DEF SubmissionInv, LegSafe, TypeOK
<1>8. \A j \in Intents : IntentSafe(j)'
    BY <1>2, <1>4 DEF SubmissionInv, IntentSafe
<1> QED
    BY <1>2, <1>5, <1>6, <1>7, <1>8 DEF SubmissionInv, PhasesAreDistinct, BeingDispatched

(* A transaction that projects answers or events on orders already on      *)
(* record, none of them being sent, and finishes some commands.            *)
Projection(S, T) ==
  /\ S \subseteq Legs /\ T \subseteq Intents
  /\ \A l \in S : order[l].status # "NONE" /\ order'[l].status # "NONE"
  /\ \A l \in Legs \ S : order'[l] = order[l]
  /\ \A l \in S : l[1] \in T
  /\ \A i \in T : /\ outbox[i] # "ABSENT" /\ intent'[i] # "ABSENT"
                  /\ outbox'[i] \in {"SENT", "PROCESSING", "FAILED"}
                  /\ i \notin fresh' \cup stale'
  /\ \A i \in Intents \ T : intent'[i] = intent[i] /\ outbox'[i] = outbox[i]
  /\ sending = {} /\ sending' = {} /\ phase' = "ready"
  /\ fresh' \subseteq fresh /\ stale' \subseteq stale
  /\ \A i \in fresh' : ~BeingDispatched(i)
  /\ \A l \in Legs : queue[l] = << >> => queue'[l] = << >>
  /\ UNCHANGED <<plan, venue, wire, submitted>>

LEMMA ProjectionSafe ==
  ASSUME IInv, NEW S, NEW T, Projection(S, T)
  PROVE  SubmissionInv'
<1> USE DEF IInv, Projection
<1>1. ASSUME NEW l \in Legs PROVE LegSafe(l)'
    BY LegsArePairs DEF SubmissionInv, LegSafe, BeingDispatched
<1>2. ASSUME NEW i \in Intents PROVE IntentSafe(i)'
    <2>1. CASE i \in T
        BY <2>1 DEF SubmissionInv, IntentSafe
    <2>2. CASE i \notin T
        BY <2>2 DEF SubmissionInv, IntentSafe
    <2> QED
        BY <2>1, <2>2
<1>3. PhasesAreDistinct'
    BY DEF SubmissionInv, PhasesAreDistinct
<1> QED
    BY <1>1, <1>2, <1>3 DEF SubmissionInv

LEMMA RecordResultsProjects ==
  ASSUME IInv, NEW i \in Intents, RecordResults(i)
  PROVE  \E S, T : Projection(S, T)
<1> USE DEF IInv
<1> DEFINE unknown  == {l \in LegsOf(i) : result[l].status = "UNKNOWN"}
           known    == LegsOf(i) \ unknown
           newLeg   == [l \in Legs |-> IF l \in unknown THEN "UNKNOWN"
                                       ELSE AppliedLeg(known, result)[l]]
           newOrder == [l \in Legs |-> IF l \in unknown THEN [order[l] EXCEPT !.status = "UNKNOWN"]
                                       ELSE AppliedOrder(known, result)[l]]
<1>1. /\ BeingDispatched(i) /\ sending = {} /\ sending' = {} /\ phase' = "ready"
      /\ fresh' = fresh \ {i} /\ stale' = stale
      /\ UNCHANGED <<plan, venue, wire, submitted, queue>>
    BY DEF RecordResults, BeingDispatched, command, world, stream, history
<1>2. order' = newOrder
    BY RecordResults(i) DEF RecordResults
<1>3. \A l \in Legs \ LegsOf(i) : order'[l] = order[l]
    BY <1>2 DEF AppliedOrder
<1>4. \A l \in LegsOf(i) : /\ order[l].status # "NONE" /\ result[l] \in OrderRow
                           /\ result[l].status # "NONE" /\ l[1] = i
    <2>1. \A l \in LegsOf(i) : l \in Legs /\ l[1] = i /\ plan[l] > 0
        BY LegsArePairs
    <2>2. \A l \in LegsOf(i) : result[l].status # "NONE"
        BY <1>1, <2>1 DEF SubmissionInv, LegSafe
    <2>3. \A l \in LegsOf(i) : order[l].status # "NONE"
        BY <1>1, <2>1 DEF SubmissionInv, LegSafe
    <2> QED
        BY <2>1, <2>2, <2>3 DEF TypeOK
<1>5. \A l \in LegsOf(i) : order'[l].status # "NONE"
    <2> TAKE l \in LegsOf(i)
    <2>1. l \in Legs
        BY LegsArePairs
    <2>2. CASE l \in unknown
        BY <1>2, <2>1, <2>2 DEF TypeOK, OrderRow
    <2>3. CASE l \notin unknown
        <3>1. order'[l] = GatewayOrder(order[l], result[l], plan[l])
            BY <1>2, <2>1, <2>3 DEF AppliedOrder
        <3>2. order[l] \in OrderRow /\ plan[l] \in 0..Lots
            BY <2>1 DEF TypeOK
        <3>3. result[l] \in OrderRow /\ result[l].status # "NONE"
            BY <1>4
        <3>4. GatewayOrder(order[l], result[l], plan[l]).status # "NONE"
            BY <3>2, <3>3, GatewayOrderType
        <3> QED
            BY <3>1, <3>4
    <2> QED
        BY <2>2, <2>3
<1>6. /\ outbox[i] # "ABSENT" /\ intent'[i] # "ABSENT"
      /\ outbox'[i] \in {"SENT", "PROCESSING"}
      /\ \A j \in Intents \ {i} : intent'[j] = intent[j] /\ outbox'[j] = outbox[j]
    <2>1. outbox[i] # "ABSENT"
        BY <1>1 DEF SubmissionInv, IntentSafe, BeingDispatched
    <2>2. CASE unknown # {}
        BY <2>1, <2>2, RecordResults(i) DEF RecordResults, TypeOK
    <2>3. CASE unknown = {}
        <3>1. FinishCommand({i}, newLeg, newOrder)
            BY <2>3, RecordResults(i) DEF RecordResults
        <3> QED
            BY <2>1, <3>1, FinishCommandType
    <2> QED
        BY <2>2, <2>3
<1>7. i \notin stale /\ \A j \in fresh' : ~BeingDispatched(j)
    BY <1>1, LegsArePairs DEF SubmissionInv, PhasesAreDistinct, BeingDispatched, TypeOK
<1> HIDE DEF unknown, known, newLeg, newOrder
<1>9. Projection(LegsOf(i), {i})
    BY <1>1, <1>3, <1>4, <1>5, <1>6, <1>7, LegsArePairs DEF Projection
<1> QED
    BY <1>9

LEMMA RecoverProjects ==
  ASSUME IInv, NEW i \in Intents, NEW S \in SUBSET LegsOf(i), Recover(i, S)
  PROVE  \E R, T : Projection(R, T)
<1> USE DEF IInv
<1> DEFINE open    == {l \in LegsOf(i) : order[l].status \in NonTerminalOrderStatuses}
           missing == {l \in LegsOf(i) : order[l].status = "NONE"}
           refused == {l \in open \cap refusals : order[l].filled = 0}
           reports == [l \in Legs |-> IF l \in refused THEN Rejected ELSE venue[l]]
           applied == S \cup refused
           newLeg  == AppliedLeg(applied, reports)
<1>1. /\ phase = "ready" /\ i \in stale /\ stale' = stale \ {i}
      /\ S \subseteq {l \in open \ refused : venue[l].status # "NONE"}
      /\ order' = AppliedOrder(applied, reports)
      /\ UNCHANGED <<phase, fresh, sending, plan, venue, wire, submitted, queue>>
    BY Recover(i, S) DEF Recover, NextClaim, command, world, stream
<1>2. applied \subseteq LegsOf(i) /\ applied \subseteq Legs
    BY <1>1, LegsArePairs
<1>3. \A l \in applied : order[l].status # "NONE" /\ l[1] = i
    BY <1>1, LegsArePairs DEF NonTerminalOrderStatuses
<1>4. \A l \in applied : order'[l].status # "NONE"
    <2> TAKE l \in applied
    <2>1. reports[l] \in OrderRow /\ reports[l].status # "NONE"
        BY <1>1, <1>2, LotsIsNat, ReportsAreRows DEF Rejected, OrderRow, OrderStatus, TypeOK
    <2>2. order'[l] = GatewayOrder(order[l], reports[l], plan[l])
        BY <1>1, <1>2 DEF AppliedOrder
    <2> QED
        BY <1>2, <2>1, <2>2, GatewayOrderType DEF TypeOK
<1>5. \A l \in Legs \ applied : order'[l] = order[l]
    BY <1>1 DEF AppliedOrder
<1>6. /\ outbox[i] # "ABSENT" /\ intent'[i] # "ABSENT" /\ outbox'[i] \in {"SENT", "FAILED"}
      /\ \A j \in Intents \ {i} : intent'[j] = intent[j] /\ outbox'[j] = outbox[j]
    <2>1. outbox[i] # "ABSENT"
        BY <1>1 DEF SubmissionInv, IntentSafe
    <2>2. CASE missing = {} /\ open \subseteq applied
        <3>1. FinishCommand({i}, newLeg, order)
            BY <2>2, Recover(i, S) DEF Recover
        <3> QED
            BY <2>1, <3>1, FinishCommandType
    <2>3. CASE ~(missing = {} /\ open \subseteq applied)
        <3>1. /\ outbox' = [outbox EXCEPT ![i] = "FAILED"]
              /\ intent' = [intent EXCEPT ![i] = "RECOVERY_REQUIRED"]
            BY <2>3, Recover(i, S) DEF Recover
        <3> QED
            BY <2>1, <3>1 DEF TypeOK
    <2> QED
        BY <2>2, <2>3
<1>7. sending = {} /\ i \notin fresh /\ \A j \in Intents : ~BeingDispatched(j)
    BY <1>1 DEF SubmissionInv, PhasesAreDistinct, BeingDispatched
<1> HIDE DEF open, missing, refused, reports, applied, newLeg
<1>9. Projection(applied, {i})
    BY <1>1, <1>2, <1>3, <1>4, <1>5, <1>6, <1>7 DEF Projection, TypeOK
<1> QED
    BY <1>9

LEMMA ProjectProjects ==
  ASSUME IInv, NEW l \in Legs, Project(l)
  PROVE  \E S, T : Projection(S, T)
<1> USE DEF IInv
<1>1. /\ Idle /\ queue[l] # << >> /\ order' = [order EXCEPT ![l] = EventOrder(@, Head(queue[l]))]
      /\ FinishCommand({l[1]}, [leg EXCEPT ![l] = EventLeg(order[l], Head(queue[l]))], order')
      /\ queue' = [queue EXCEPT ![l] = Tail(@)]
      /\ UNCHANGED <<phase, fresh, stale, sending, plan, venue, wire, submitted>>
    BY DEF Project, command, world, worker, history
<1>2. order[l].status # "NONE" /\ order'[l].status # "NONE"
    <2>1. order[l].status # "NONE"
        BY <1>1 DEF SubmissionInv, LegSafe
    <2>2. Head(queue[l]) \in Report
        BY <1>1, HeadTailProperties DEF TypeOK
    <2>3. order'[l] = EventOrder(order[l], Head(queue[l]))
        BY <1>1 DEF TypeOK
    <2> QED
        BY <2>1, <2>2, <2>3, EventOrderType DEF TypeOK
<1>3. \A k \in Legs \ {l} : order'[k] = order[k]
    BY <1>1 DEF TypeOK
<1>4. /\ l[1] \in Intents /\ outbox[l[1]] # "ABSENT"
      /\ intent'[l[1]] # "ABSENT" /\ outbox'[l[1]] = "SENT"
      /\ \A j \in Intents \ {l[1]} : intent'[j] = intent[j] /\ outbox'[j] = outbox[j]
    BY <1>1, <1>2, LegsArePairs, FinishCommandType DEF SubmissionInv, IntentSafe
<1>5. \A k \in Legs : queue[k] = << >> => queue'[k] = << >>
    BY <1>1 DEF TypeOK
<1>6. sending = {} /\ phase = "ready" /\ fresh = {} /\ stale = {}
    BY <1>1 DEF Idle, SubmissionInv, PhasesAreDistinct
<1>9. Projection({l}, {l[1]})
    BY <1>1, <1>2, <1>3, <1>4, <1>5, <1>6 DEF Projection
<1> QED
    BY <1>9

LEMMA ReconcileProjects ==
  ASSUME IInv, NEW S \in SUBSET Legs, Start(S) \/ Reconcile(S)
  PROVE  \E R, T : Projection(R, T)
<1> USE DEF IInv
<1> DEFINE T == {l[1] : l \in S}
<1>1. /\ S \subseteq {l \in Reconcilable : venue[l].status # "NONE"}
      /\ order' = AppliedOrder(S, venue)
      /\ FinishCommand(T, AppliedLeg(S, venue), AppliedOrder(S, venue))
    BY DEF Start, Reconcile, QueryOrders
<1>2. /\ phase' = "ready" /\ fresh = {} /\ stale = {} /\ sending = {}
      /\ UNCHANGED <<fresh, stale, sending, plan, venue, wire, submitted, queue>>
    BY DEF Start, Reconcile, Idle, worker, command, world, stream, SubmissionInv, PhasesAreDistinct
<1>3. \A l \in S : /\ order[l].status # "NONE" /\ order'[l].status # "NONE"
                   /\ l[1] \in T /\ outbox[l[1]] # "ABSENT"
    <2> TAKE l \in S
    <2>1. l \in Legs /\ order[l].status # "NONE" /\ outbox[l[1]] = "SENT"
        BY <1>1 DEF Reconcilable, NonTerminalOrderStatuses
    <2>2. venue[l] \in OrderRow /\ venue[l].status # "NONE"
        BY <1>1, <2>1, ReportsAreRows DEF TypeOK
    <2>3. order'[l] = GatewayOrder(order[l], venue[l], plan[l])
        BY <1>1, <2>1 DEF AppliedOrder
    <2> QED
        BY <2>1, <2>2, <2>3, GatewayOrderType DEF TypeOK
<1>4. \A l \in Legs \ S : order'[l] = order[l]
    BY <1>1 DEF AppliedOrder
<1>5. T \subseteq Intents /\ \A i \in T : outbox[i] # "ABSENT"
    BY <1>3, LegsArePairs
<1>6. /\ \A i \in T : intent'[i] # "ABSENT" /\ outbox'[i] = "SENT"
      /\ \A i \in Intents \ T : intent'[i] = intent[i] /\ outbox'[i] = outbox[i]
    <2> HIDE DEF T
    <2> QED
        BY <1>1, <1>5, FinishCommandType
<1> HIDE DEF T
<1>9. Projection(S, T)
    BY <1>2, <1>3, <1>4, <1>5, <1>6 DEF Projection
<1> QED
    BY <1>9

LEMMA WorldSafe ==
  ASSUME IInv, NEW l \in Legs, VenueProgress(l) \/ Arrive(l)
  PROVE  SubmissionInv'
<1> USE DEF IInv
<1>1. PICK r \in VenueReports(plan[l]) : VenueMoves(l, r)
    BY DEF VenueProgress, Arrive
<1>2. /\ \A k \in Legs \ {l} : venue'[k] = venue[k] /\ queue'[k] = queue[k]
      /\ UNCHANGED <<intent, outbox, order, plan, submitted, phase, fresh, stale, sending, result>>
    BY <1>1 DEF VenueMoves, Emit, TypeOK, rows, command, worker, history
<1>3. submitted[l] # 0 /\ l \notin wire' /\ \A k \in Legs \ {l} : k \in wire' <=> k \in wire
    BY DEF VenueProgress, Arrive, WorkingAtVenue, SubmissionInv, LegSafe
<1>4. \A j \in Intents : BeingDispatched(j)' <=> BeingDispatched(j)
    BY <1>2 DEF BeingDispatched
<1>5. ASSUME NEW k \in Legs PROVE LegSafe(k)'
    BY <1>2, <1>3, <1>4, LegsArePairs DEF SubmissionInv, LegSafe
<1>6. ASSUME NEW j \in Intents PROVE IntentSafe(j)'
    BY <1>2, <1>4 DEF SubmissionInv, IntentSafe
<1> QED
    BY <1>2, <1>5, <1>6 DEF SubmissionInv, PhasesAreDistinct

LEMMA FaultSafe ==
  ASSUME IInv, (\E k \in LegKeys : Connect(k) \/ Disconnect(k)) \/ Crash
  PROVE  SubmissionInv'
<1> USE DEF IInv
<1>1. CASE \E k \in LegKeys : Connect(k) \/ Disconnect(k)
    <2>1. UNCHANGED <<intent, outbox, order, plan, venue, wire, queue, submitted, worker>>
        BY <1>1 DEF Connect, Disconnect, rows, command, world, history
    <2>2. \A l \in Legs : LegSafe(l)'
        BY <2>1, LegsUntouched DEF worker, BeingDispatched
    <2>3. \A i \in Intents : IntentSafe(i)'
        BY <2>1 DEF SubmissionInv, IntentSafe, worker, BeingDispatched
    <2> QED
        BY <2>1, <2>2, <2>3 DEF SubmissionInv, PhasesAreDistinct, worker
<1>2. CASE Crash
    <2>1. /\ phase' = "starting" /\ fresh' = {} /\ stale' = {} /\ sending' = {}
          /\ \A l \in Legs : queue'[l] = << >>
          /\ UNCHANGED <<intent, outbox, order, plan, venue, wire, submitted>>
        BY <1>2 DEF Crash, rows, command, world, history
    <2>2. ASSUME NEW l \in Legs PROVE LegSafe(l)'
        BY <2>1 DEF SubmissionInv, LegSafe, BeingDispatched
    <2>3. ASSUME NEW i \in Intents PROVE IntentSafe(i)'
        BY <2>1 DEF SubmissionInv, IntentSafe, BeingDispatched
    <2> QED
        BY <2>1, <2>2, <2>3 DEF SubmissionInv, PhasesAreDistinct
<1> QED
    BY <1>1, <1>2

(* The worker's projecting transactions together.                          *)
Projecting ==
  \/ \E i \in Intents : RecordResults(i) \/ \E S \in SUBSET LegsOf(i) : Recover(i, S)
  \/ \E l \in Legs : Project(l)
  \/ \E S \in SUBSET Legs : Start(S) \/ Reconcile(S)

LEMMA ProjectingProjects ==
  ASSUME IInv, Projecting
  PROVE  \E R, T : Projection(R, T)
<1>1. ASSUME NEW i \in Intents, RecordResults(i) PROVE \E R, T : Projection(R, T)
    BY <1>1, RecordResultsProjects
<1>2. ASSUME NEW i \in Intents, NEW S \in SUBSET LegsOf(i), Recover(i, S)
      PROVE  \E R, T : Projection(R, T)
    BY <1>2, RecoverProjects
<1>3. ASSUME NEW l \in Legs, Project(l) PROVE \E R, T : Projection(R, T)
    BY <1>3, ProjectProjects
<1>4. ASSUME NEW S \in SUBSET Legs, Start(S) \/ Reconcile(S) PROVE \E R, T : Projection(R, T)
    BY <1>4, ReconcileProjects
<1> QED
    BY <1>1, <1>2, <1>3, <1>4 DEF Projecting

LEMMA StepSafe ==
  ASSUME IInv, [Next]_vars
  PROVE  IInv'
<1>1. TypeOK'
    BY StepType DEF IInv
<1>2. CASE UNCHANGED vars
    <2>1. SubmissionInv'
        BY <1>2 DEF IInv, SubmissionInv, LegSafe, IntentSafe, PhasesAreDistinct, BeingDispatched,
                    vars, rows, command, world, stream, worker, history, faults
    <2> QED
        BY <1>1, <2>1 DEF IInv
<1>3. CASE WorkerStep
    <2>1. CASE Projecting
        BY <1>1, <2>1, ProjectingProjects, ProjectionSafe DEF IInv
    <2> QED
        BY <1>1, <1>3, <2>1, RepairSafe, ClaimSafe, DispatchSafe, SubmitSafe
        DEF IInv, WorkerStep, ProcessClaim, Projecting
<1>4. CASE Environment
    BY <1>1, <1>4, CreationSafe, WorldSafe, FaultSafe DEF IInv, Environment
<1>5. CASE Crash
    BY <1>1, <1>5, FaultSafe DEF IInv
<1> QED
    BY <1>2, <1>3, <1>4, <1>5 DEF Next

(* The types and the strengthening are invariant.                          *)
THEOREM InvariantHolds == Spec => []IInv
<1>1. Init => IInv
    BY InitTypeOK, InitSafe DEF IInv
<1>2. IInv /\ [Next]_vars => IInv'
    BY StepSafe
<1> QED
    BY <1>1, <1>2, PTL DEF Spec

(* No lost answer, crash or repair makes the worker submit the order of a  *)
(* leg twice: docs/TRADING_MODULE_REFACTOR_SPEC.md asks for no duplicate   *)
(* order whatever submission times out.                                    *)
THEOREM SubmittedOnce == Spec => []AtMostOnceSubmission
<1>1. IInv => AtMostOnceSubmission
    BY DEF IInv, SubmissionInv, LegSafe, AtMostOnceSubmission
<1> QED
    BY <1>1, InvariantHolds, PTL

(* What a venue has or may still get is on record under its stable id: the *)
(* first commit of _process_claim comes before the calls.                  *)
THEOREM StableIdFirst == Spec => []StableIdPersistedFirst
<1>1. IInv => StableIdPersistedFirst
    BY DEF IInv, SubmissionInv, LegSafe, StableIdPersistedFirst
<1> QED
    BY <1>1, InvariantHolds, PTL

(* A command that waits to be sent, or was rolled back by the repair of    *)
(* stale intents, has never reached a venue.                               *)
THEOREM UnsentUntouched == Spec => []UnsentMeansUntouched
<1>1. IInv => UnsentMeansUntouched
    <2> SUFFICES ASSUME IInv, NEW i \in Intents, outbox[i] \in {"PENDING", "CANCELED"},
                        NEW l \in LegsOf(i)
                 PROVE  submitted[l] = 0 /\ venue[l].status = "NONE" /\ l \notin wire
        BY DEF UnsentMeansUntouched
    <2> QED
        BY LegsArePairs DEF IInv, SubmissionInv, IntentSafe, LegSafe
<1> QED
    BY <1>1, InvariantHolds, PTL

-----------------------------------------------------------------------------
(* The worker implements StableOrder.                                      *)

LEMMA StepKeepsPromise ==
  ASSUME IInv, [Next]_vars
  PROVE  [Promise!Next]_(Promise!vars)
<1> DEFINE recorded == {l \in Legs : order[l].status # "NONE"}
           taken    == {l \in Legs : venue[l].status # "NONE"}
<1> SUFFICES Promise!Next \/ (recorded' = recorded /\ submitted' = submitted /\ taken' = taken)
    BY DEF Promise!vars
<1> USE DEF IInv
<1>1. CASE Projecting
    <2>1. PICK R, T : Projection(R, T)
        BY <1>1, ProjectingProjects
    <2> QED
        BY <2>1 DEF Projection
<1>2. ASSUME NEW i \in Intents, Dispatch(i) PROVE Promise!Next
    <2>1. PICK S \in SUBSET Legs : S = recorded' \ recorded
        OBVIOUS
    <2>2. Promise!Record(S)
        BY <1>2, <2>1 DEF Dispatch, Promise!Record, TypeOK, world, history
    <2> QED
        BY <2>2 DEF Promise!Next
<1>3. ASSUME NEW l \in Legs, Submit(l) PROVE Promise!Send(l)
    <2>1. /\ submitted[l] = 0 /\ order[l].status # "NONE" /\ l \in sending
        BY <1>3 DEF Submit, SubmitAcknowledged, SubmitRejected, SubmitAnswerLost, SubmitTimesOut,
                    Answered, SubmissionInv, LegSafe
    <2>2. /\ submitted' = [submitted EXCEPT ![l] = 1] /\ UNCHANGED order
        BY <1>3, <2>1 DEF Submit, SubmitAcknowledged, SubmitRejected, SubmitAnswerLost,
                          SubmitTimesOut, Answered, rows, TypeOK
    <2>3. \A k \in Legs \ {l} : venue'[k] = venue[k]
        BY <1>3 DEF Submit, SubmitAcknowledged, SubmitRejected, SubmitAnswerLost, SubmitTimesOut, TypeOK
    <2>4. taken' = taken \/ taken' = taken \cup {l}
        <3>1. venue[l].status = "NONE"
            BY <2>1 DEF SubmissionInv, LegSafe
        <3> QED
            BY <2>3, <3>1
    <2> QED
        BY <2>1, <2>2, <2>4 DEF Promise!Send
<1>4. ASSUME NEW l \in Legs, Arrive(l) PROVE Promise!TakeLate(l)
    <2>1. PICK r \in VenueReports(plan[l]) : VenueMoves(l, r)
        BY <1>4 DEF Arrive
    <2>2. r.status # "NONE"
        BY <2>1, VenueReportsType DEF TypeOK, Report
    <2>3. submitted[l] = 1 /\ venue[l].status = "NONE"
        BY <1>4 DEF Arrive, SubmissionInv, LegSafe, TypeOK
    <2>4. UNCHANGED <<order, submitted>> /\ venue' = [venue EXCEPT ![l] = r]
        BY <2>1 DEF VenueMoves, rows, history
    <2>5. taken' = taken \cup {l}
        BY <2>2, <2>4 DEF TypeOK
    <2> QED
        BY <2>3, <2>4, <2>5 DEF Promise!TakeLate
<1>5. ASSUME NEW l \in Legs, VenueProgress(l) PROVE UNCHANGED <<recorded, submitted, taken>>
    <2>1. PICK r \in VenueReports(plan[l]) : VenueMoves(l, r)
        BY <1>5 DEF VenueProgress
    <2>2. r.status # "NONE" /\ venue[l].status # "NONE"
        BY <1>5, <2>1, VenueReportsType DEF TypeOK, Report, VenueProgress, WorkingAtVenue
    <2> QED
        BY <2>1, <2>2 DEF VenueMoves, rows, history, TypeOK
<1>6. ASSUME NEW i \in Intents, NEW q \in Plans, InheritRefused(i, q)
      PROVE  Promise!Next
    <2> DEFINE mine(l) == l[1] = i /\ q[l[2]] > 0
    <2>1. outbox[i] = "ABSENT"
        BY <1>6 DEF InheritRefused, WriteIntent, MayCreate, SubmissionInv, IntentSafe
    <2>2. \A l \in Legs : mine(l) => order[l].status = "NONE" /\ venue[l].status = "NONE"
        BY <2>1, LegsArePairs DEF SubmissionInv, IntentSafe, LegSafe
    <2>3. \A l \in Legs : IF mine(l) THEN order'[l].status # "NONE"
                                     ELSE order'[l] = order[l] /\ venue'[l] = venue[l]
        BY <1>6 DEF InheritRefused, Unknown, TypeOK
    <2>4. submitted' = [l \in Legs |-> IF mine(l) THEN 1 ELSE submitted[l]]
        BY <1>6 DEF InheritRefused
    <2>5. PICK S \in SUBSET Legs : \A l \in Legs : l \in S <=> mine(l)
        <3>1. {l \in Legs : mine(l)} \in SUBSET Legs
            OBVIOUS
        <3> QED
            BY <3>1
    <2>6. PICK T \in SUBSET S : T = taken' \ taken
        BY <2>2, <2>3, <2>5
    <2>7. S \cap recorded = {} /\ recorded' = recorded \cup S
        BY <2>2, <2>3, <2>5
    <2>8. taken' = taken \cup T
        BY <2>2, <2>3, <2>5, <2>6
    <2>9. submitted' = [l \in Legs |-> IF l \in S THEN 1 ELSE submitted[l]]
        BY <2>4, <2>5
    <2>10. Promise!Adopt(S, T)
        BY <2>7, <2>8, <2>9 DEF Promise!Adopt
    <2> QED
        BY <2>10 DEF Promise!Next
<1>8. \A l \in Legs : Promise!Send(l) \/ Promise!TakeLate(l) => Promise!Next
    BY DEF Promise!Next
<1>10. ASSUME \/ UNCHANGED vars
              \/ \E i \in Intents, q \in Plans : CreateIntent(i, q) \/ InheritUnsent(i, q)
              \/ \E i \in Intents : RollBackStale(i) \/ RequeueUnsent(i) \/ DeferClaim(i)
              \/ \E F, P \in SUBSET Intents : Claim(F, P)
              \/ \E k \in LegKeys : Connect(k) \/ Disconnect(k)
              \/ Crash
       PROVE  UNCHANGED <<order, submitted, venue>>
    BY <1>10 DEF vars, rows, world, history, CreateIntent, InheritUnsent, WriteIntent, RollBackStale,
                 RequeueUnsent, DeferClaim, Claim, Connect, Disconnect, Crash
<1> HIDE DEF recorded, taken
<1>12. CASE \E i \in Intents : Dispatch(i)
    BY <1>2, <1>12
<1>13. CASE \E l \in Legs : Submit(l) \/ Arrive(l)
    BY <1>3, <1>4, <1>8, <1>13
<1>14. CASE \E l \in Legs : VenueProgress(l)
    BY <1>5, <1>14
<1>15. CASE \E i \in Intents, q \in Plans : InheritRefused(i, q)
    BY <1>6, <1>15
<1> USE DEF recorded, taken
<1> QED
    BY <1>1, <1>10, <1>12, <1>13, <1>14, <1>15
    DEF Next, WorkerStep, Environment, ProcessClaim, Projecting

(* Whatever crashes and gets lost, every order is recorded, then submitted *)
(* once, then taken by its venue at most once.                             *)
THEOREM WorkerKeepsPromise == Spec => KeepsPromise
<1>1. Init => Promise!Init
    BY DEF Init, Promise!Init, NoReport
<1>2. IInv /\ [Next]_vars => [Promise!Next]_(Promise!vars)
    BY StepKeepsPromise
<1> QED
    BY <1>1, <1>2, InvariantHolds, PTL DEF Spec, KeepsPromise, Promise!Spec

-----------------------------------------------------------------------------
(* What is said of the venues is true.  TruthInv is inductive beside IInv: *)
(* whatever is written, queued or answered about a leg says no more than   *)
(* its venue has done, and what is concluded of it for intents and groups  *)
(* stays true, since an order that is over stays over.                     *)

Over(l) == submitted[l] # 0 /\ l \notin wire /\ ~WorkingAtVenue(l)
AllFilled(i) == \A l \in LegsOf(i) : venue[l].status = "FILLED"

VenueSound(l) ==
  /\ venue[l].filled <= plan[l]
  /\ venue[l].status = "NONE" => venue[l].filled = 0
  /\ venue[l].status # "NONE" => (venue[l].status = "FILLED" <=> venue[l].filled = plan[l])

(* The report r says no more of leg l than is so.                          *)
Says(l, r) ==
  /\ r.filled <= venue[l].filled
  /\ \A s \in {"FILLED", "CANCELED"} : r.status = s => venue[l].status = s

LegSound(l) ==
  /\ order[l].filled <= venue[l].filled
  /\ \A k \in 1..Len(queue[l]) : Says(l, queue[l][k])
  /\ Says(l, result[l])
  /\ result[l].status # "NONE" => submitted[l] # 0
  /\ l \in refusals \/ result[l].status = "REJECTED" =>
         submitted[l] # 0 /\ venue[l].status = "NONE" /\ l \notin wire
  /\ leg[l] = "FILLED" => venue[l].status = "FILLED"
  /\ leg[l] = "FAILED" => Over(l) /\ venue[l].status # "FILLED"
  /\ leg[l] # "CANCELED"

(* A group has one opening, and a closing only if that is filled.          *)
IntentSound(i) ==
  /\ intent[i] = "ABSENT" <=> LegsOf(i) = {}
  /\ intent[i] = "COMPLETED" => \A l \in LegsOf(i) : leg[l] = "FILLED"
  /\ intent[i] # "ABSENT" =>
         /\ Kind[i] \in {"OPEN", "CLOSE"} /\ group[GroupOf[i]] # "absent"
         /\ \A j \in IntentsOf(GroupOf[i]) \ {i} :
               Kind[j] = "OPEN" /\ intent[j] # "ABSENT" => Kind[i] = "CLOSE" /\ AllFilled(j)

GroupSound(g) ==
  /\ group[g] \in {"open", "open_partial"} =>
         \A i \in IntentsOf(g) : Kind[i] = "OPEN" => AllFilled(i)
  /\ group[g] = "failed" => \A i \in IntentsOf(g) : \A l \in LegsOf(i) : Over(l)
  /\ group[g] = "closed" =>
         \E i \in IntentsOf(g) : Kind[i] = "CLOSE" /\ LegsOf(i) # {} /\ AllFilled(i)

TruthInv ==
  /\ \A l \in Legs : VenueSound(l) /\ LegSound(l)
  /\ \A i \in Intents : IntentSound(i)
  /\ \A g \in Groups : GroupSound(g)

(* A finite set of numbers has a largest one: of the sets that have none,  *)
(* take a smallest, and leave an element out.                              *)
LEMMA FiniteSetHasLargest ==
  ASSUME NEW S, IsFiniteSet(S), S \subseteq Nat, S # {}
  PROVE  \E x \in S : \A y \in S : y <= x
<1> DEFINE Bad(R)  == IsFiniteSet(R) /\ R \subseteq Nat /\ R # {}
                      /\ ~ \E x \in R : \A y \in R : y <= x
           Sizes   == {n \in Nat : \E R \in SUBSET Nat : Bad(R) /\ Cardinality(R) = n}
<1> SUFFICES ASSUME Bad(S) PROVE FALSE
    OBVIOUS
<1>1. Cardinality(S) \in Sizes
    BY FS_CardinalityType
<1>2. PICK n \in Sizes : \A m \in Sizes : ~(<<m, n>> \in OpToRel(<, Nat))
    <2>1. Sizes \subseteq Nat /\ Sizes # {}
        BY <1>1
    <2> HIDE DEF Sizes
    <2> QED
        BY <2>1, WFMin, NatLessThanWellFounded
<1>3. PICK R \in SUBSET Nat : Bad(R) /\ Cardinality(R) = n
    OBVIOUS
<1>4. PICK x \in R : TRUE
    BY <1>3
<1>5. /\ IsFiniteSet(R \ {x}) /\ Cardinality(R \ {x}) = n - 1 /\ n \in Nat
      /\ Cardinality(R \ {x}) \in Nat
    BY <1>3, <1>4, FS_RemoveElement, FS_CardinalityType
<1>6. CASE R \ {x} = {}
    BY <1>3, <1>4, <1>6
<1>7. CASE R \ {x} # {}
    <2>1. ~Bad(R \ {x})
        <3>1. SUFFICES ASSUME Bad(R \ {x}) PROVE FALSE
            OBVIOUS
        <3>2. n - 1 \in Sizes
            BY <1>5, <3>1
        <3>3. <<n - 1, n>> \in OpToRel(<, Nat)
            BY <1>5 DEF OpToRel
        <3> QED
            BY <1>2, <3>2, <3>3
    <2>2. PICK y \in R \ {x} : \A z \in R \ {x} : z <= y
        BY <1>5, <1>7, <2>1
    <2>3. CASE x <= y
        BY <1>3, <2>2, <2>3
    <2>4. CASE y <= x
        BY <1>3, <1>4, <2>2, <2>4
    <2> QED
        BY <1>4, <2>2, <2>3, <2>4
<1> QED
    BY <1>6, <1>7

(* The latest intent of a set is one of them.                              *)
LEMMA LatestIsOne ==
  ASSUME NEW S \in SUBSET Intents, S # {}
  PROVE  Latest(S) \in S
<1>1. IsFiniteSet(S) /\ S \subseteq Nat
    BY ConstantsAssumption, FS_Subset DEF ConstantsAssumption
<1>2. \E x \in S : \A y \in S : y <= x
    BY <1>1, FiniteSetHasLargest
<1> QED
    BY <1>2 DEF Latest

(* What a verdict on a group says of the legs it is drawn from.            *)
LEMMA VerdictMeans ==
  ASSUME NEW k \in {"OPEN", "CLOSE"}, NEW S, S \subseteq LegStatus \ {"CANCELED"}, NEW f, NEW p,
         NEW v, v = GroupVerdict(k, S, f, p)
  PROVE  /\ v # "absent"
         /\ v = "closed" => k = "CLOSE" /\ S \subseteq {"FILLED"}
         /\ v = "failed" => k = "OPEN" /\ "FAILED" \in S /\ S \subseteq {"FILLED", "FAILED"}
         /\ v \in {"open", "open_partial"} /\ k = "OPEN" => S \subseteq {"FILLED"}
  BY DEF GroupVerdict, OpenVerdict, CloseVerdict, LegStatus, NonTerminalLegStatuses

(* An intent is completed on filled legs alone.                            *)
LEMMA CompletedMeans ==
  ASSUME NEW S, IntentVerdict(S) = "COMPLETED"
  PROVE  S \subseteq {"FILLED"}
  BY DEF IntentVerdict

(* A report a venue may send of an order.                                  *)
LEMMA VenueReportsMean ==
  ASSUME NEW q \in 1..Lots, NEW r \in VenueReports(q)
  PROVE  /\ r \in Report /\ r.status # "NONE" /\ r.filled \in 0..q
         /\ r.status = "FILLED" <=> r.filled = q
  BY LotsIsNat, VenueReportsType DEF VenueReports, Report

-----------------------------------------------------------------------------
(* What a transaction concludes for the intents T, and nothing else.       *)
Concluded(T) ==
  /\ \A i \in T :
        /\ intent'[i] # "ABSENT"
        /\ intent'[i] = "COMPLETED" => \A l \in LegsOf(i) : leg'[l] = "FILLED"
  /\ \A i \in Intents \ T : intent'[i] = intent[i]
  /\ \A g \in Groups : group'[g] # group[g] =>
        \E i \in T \cap IntentsOf(g), f \in BOOLEAN :
            group'[g] = GroupVerdict(Kind[i], {leg'[l] : l \in LegsOf(i)}, f, prev[i])

(* A transaction that books reports on the legs S of the intents T.        *)
Booking(S, T) ==
  /\ S \subseteq Legs /\ T \subseteq Intents /\ \A l \in S : l[1] \in T
  /\ \A l \in Legs \ S : order'[l] = order[l] /\ leg'[l] = leg[l]
  /\ \A l \in S :
        /\ order'[l].filled >= order[l].filled /\ order'[l].filled <= venue[l].filled
        /\ leg'[l] \in LegStatus \ {"CANCELED"}
        /\ leg'[l] = "FILLED" => venue[l].status = "FILLED"
        /\ leg'[l] = "FAILED" => Over(l) /\ venue[l].status # "FILLED"
  /\ \A i \in T : intent[i] # "ABSENT"
  /\ Concluded(T)
  /\ \A l \in Legs :
        /\ \A k \in 1..Len(queue'[l]) : \E m \in 1..Len(queue[l]) : queue'[l][k] = queue[l][m]
        /\ result'[l] \in {result[l], NoReport}
  /\ UNCHANGED <<plan, refusals, venue, wire, submitted>>

(* Such a transaction keeps what is said true.                             *)
LEMMA BookingKeeps ==
  ASSUME IInv, TruthInv, NEW S, NEW T, Booking(S, T)
  PROVE  TruthInv'
<1> USE DEF Booking, Concluded
<1>1. /\ \A i \in Intents : LegsOf(i)' = LegsOf(i) /\ (AllFilled(i)' <=> AllFilled(i))
      /\ \A l \in Legs : (Over(l)' <=> Over(l)) /\ (VenueSound(l)' <=> VenueSound(l))
      /\ \A l \in Legs : \A r : Says(l, r)' <=> Says(l, r)
    BY DEF LegsOf, AllFilled, Over, WorkingAtVenue, VenueSound, Says
<1>2. ASSUME NEW l \in Legs PROVE VenueSound(l)' /\ LegSound(l)'
    <2>1. VenueSound(l) /\ LegSound(l)
        BY DEF TruthInv
    <2>2. VenueSound(l)'
        BY <1>1, <2>1
    <2>3. \A k \in 1..Len(queue'[l]) : Says(l, queue'[l][k])
        BY <2>1 DEF LegSound
    <2>4. /\ Says(l, result'[l])
          /\ result'[l].status # "NONE" => result'[l] = result[l]
        <3>1. Says(l, NoReport) /\ NoReport.status = "NONE"
            BY DEF Says, NoReport, IInv, TypeOK, VenueRow
        <3> QED
            BY <2>1, <3>1 DEF LegSound
    <2>5. LegSound(l)'
        <3>1. order'[l].filled <= venue[l].filled
            BY <2>1 DEF LegSound
        <3>2. /\ leg'[l] = "FILLED" => venue[l].status = "FILLED"
              /\ leg'[l] = "FAILED" => Over(l) /\ venue[l].status # "FILLED"
              /\ leg'[l] # "CANCELED"
            BY <2>1 DEF LegSound
        <3>3. l \in refusals \/ result'[l].status = "REJECTED" =>
                submitted[l] # 0 /\ venue[l].status = "NONE" /\ l \notin wire
            BY <2>1, <2>4 DEF LegSound
        <3>4. result'[l].status # "NONE" => submitted[l] # 0
            BY <2>1, <2>4 DEF LegSound
        <3> QED
            BY <1>1, <2>3, <2>4, <3>1, <3>2, <3>3, <3>4 DEF LegSound
    <2> QED
        BY <2>2, <2>5
<1>3. \A i \in Intents : {leg'[l] : l \in LegsOf(i)} \subseteq LegStatus \ {"CANCELED"}
    <2> SUFFICES ASSUME NEW l \in Legs PROVE leg'[l] \in LegStatus \ {"CANCELED"}
        BY LegsArePairs
    <2> QED
        BY DEF IInv, TypeOK, TruthInv, LegSound
<1>4. ASSUME NEW g \in Groups, group'[g] # group[g]
      PROVE  \E i \in T \cap IntentsOf(g) :
               LET st == {leg'[l] : l \in LegsOf(i)} IN
               /\ group'[g] # "absent"
               /\ group'[g] = "closed" => Kind[i] = "CLOSE" /\ st \subseteq {"FILLED"}
               /\ group'[g] = "failed" =>
                     Kind[i] = "OPEN" /\ "FAILED" \in st /\ st \subseteq {"FILLED", "FAILED"}
               /\ group'[g] \in {"open", "open_partial"} /\ Kind[i] = "OPEN" => st \subseteq {"FILLED"}
    <2>1. PICK i \in T \cap IntentsOf(g), f \in BOOLEAN :
             group'[g] = GroupVerdict(Kind[i], {leg'[l] : l \in LegsOf(i)}, f, prev[i])
        BY <1>4
    <2>2. Kind[i] \in {"OPEN", "CLOSE"} /\ i \in Intents
        BY DEF TruthInv, IntentSound
    <2> DEFINE st == {leg'[l] : l \in LegsOf(i)}
    <2>3. st \subseteq LegStatus \ {"CANCELED"} /\ group'[g] = GroupVerdict(Kind[i], st, f, prev[i])
        BY <1>3, <2>1, <2>2
    <2> HIDE DEF st, Booking, Concluded
    <2>4. /\ group'[g] # "absent"
          /\ group'[g] = "closed" => Kind[i] = "CLOSE" /\ st \subseteq {"FILLED"}
          /\ group'[g] = "failed" =>
                Kind[i] = "OPEN" /\ "FAILED" \in st /\ st \subseteq {"FILLED", "FAILED"}
          /\ group'[g] \in {"open", "open_partial"} /\ Kind[i] = "OPEN" => st \subseteq {"FILLED"}
        BY <2>2, <2>3, VerdictMeans
    <2> QED
        BY <2>1, <2>4 DEF st
<1>5. ASSUME NEW i \in Intents PROVE IntentSound(i)'
    <2>1. /\ IntentSound(i) /\ GroupOf[i] \in Groups
          /\ intent'[i] = "ABSENT" <=> intent[i] = "ABSENT"
        BY ConstantsAssumption DEF TruthInv, ConstantsAssumption
    <2>2. intent'[i] # "ABSENT" => group'[GroupOf[i]] # "absent"
        BY <1>4, <2>1 DEF IntentSound
    <2>3. \A j \in Intents : intent'[j] # "ABSENT" <=> intent[j] # "ABSENT"
        OBVIOUS
    <2>4. intent'[i] = "COMPLETED" => \A l \in LegsOf(i) : leg'[l] = "FILLED"
        <3>1. CASE i \in T
            BY <3>1
        <3>2. CASE i \notin T
            <4>1. \A l \in LegsOf(i) : l \in Legs \ S
                BY <3>2, LegsArePairs
            <4> QED
                BY <2>1, <3>2, <4>1 DEF IntentSound
        <3> QED
            BY <3>1, <3>2
    <2>5. intent'[i] = "ABSENT" <=> LegsOf(i)' = {}
        BY <1>1, <2>1 DEF IntentSound
    <2>6. ASSUME intent'[i] # "ABSENT", NEW j \in IntentsOf(GroupOf[i]) \ {i},
                 Kind[j] = "OPEN", intent'[j] # "ABSENT"
          PROVE  Kind[i] = "CLOSE" /\ AllFilled(j)'
        <3>1. j \in Intents
            BY DEF IntentsOf
        <3> QED
            BY <1>1, <2>1, <2>3, <2>6, <3>1 DEF IntentSound
    <2>7. intent'[i] # "ABSENT" => Kind[i] \in {"OPEN", "CLOSE"}
        BY <2>1 DEF IntentSound
    <2>8. \A l \in LegsOf(i)' : l \in LegsOf(i)
        BY <1>1
    <2>9. IntentsOf(GroupOf[i])' = IntentsOf(GroupOf[i])
        BY DEF IntentsOf
    <2> HIDE DEF Booking, Concluded
    <2> QED
        BY <2>2, <2>4, <2>5, <2>6, <2>7, <2>8, <2>9 DEF IntentSound
<1>6. ASSUME NEW g \in Groups PROVE GroupSound(g)'
    <2>1. CASE group'[g] = group[g]
        <3>1. GroupSound(g) /\ IntentsOf(g) \subseteq Intents
            BY DEF TruthInv, IntentsOf
        <3>2. \A i \in IntentsOf(g) : \A l \in LegsOf(i) : l \in Legs
            BY <3>1, LegsArePairs
        <3> QED
            BY <1>1, <2>1, <3>1, <3>2 DEF GroupSound
    <2>2. CASE group'[g] # group[g]
        <3>1. PICK i \in T \cap IntentsOf(g) :
               LET st == {leg'[l] : l \in LegsOf(i)} IN
               /\ group'[g] = "closed" => Kind[i] = "CLOSE" /\ st \subseteq {"FILLED"}
               /\ group'[g] = "failed" =>
                     Kind[i] = "OPEN" /\ "FAILED" \in st /\ st \subseteq {"FILLED", "FAILED"}
               /\ group'[g] \in {"open", "open_partial"} /\ Kind[i] = "OPEN" => st \subseteq {"FILLED"}
            BY <1>4, <2>2
        <3>2. /\ i \in Intents /\ GroupOf[i] = g /\ IntentsOf(g) \subseteq Intents
              /\ intent[i] # "ABSENT" /\ LegsOf(i) # {} /\ Kind[i] \in {"OPEN", "CLOSE"}
            BY DEF IntentsOf, TruthInv, IntentSound
        <3>3. \A l \in LegsOf(i) : /\ l \in Legs
                                   /\ leg'[l] = "FILLED" => venue[l].status = "FILLED" /\ Over(l)
                                   /\ leg'[l] = "FAILED" => Over(l) /\ venue[l].status # "FILLED"
            <4> TAKE l \in LegsOf(i)
            <4>1. l \in Legs
                BY <3>2, LegsArePairs
            <4>2. /\ leg'[l] = "FILLED" => venue[l].status = "FILLED"
                  /\ leg'[l] = "FAILED" => Over(l) /\ venue[l].status # "FILLED"
                BY <1>2, <4>1, <1>1 DEF LegSound
            <4>3. venue[l].status = "FILLED" => Over(l)
                BY <4>1 DEF Over, WorkingAtVenue, IInv, SubmissionInv, LegSafe
            <4> QED
                BY <4>1, <4>2, <4>3
        <3>4. \A j \in IntentsOf(g) \ {i} :
                 /\ intent[j] = "ABSENT" => LegsOf(j) = {}
                 /\ intent[j] # "ABSENT" =>
                       /\ Kind[j] \in {"OPEN", "CLOSE"}
                       /\ Kind[i] = "OPEN" => Kind[j] = "CLOSE" /\ AllFilled(i)
                       /\ Kind[j] = "OPEN" => Kind[i] = "CLOSE" /\ AllFilled(j)
            BY <3>2 DEF TruthInv, IntentSound, IntentsOf
        <3> HIDE DEF Booking, Concluded
        <3>5. group'[g] = "closed" => LegsOf(i) # {} /\ Kind[i] = "CLOSE" /\ AllFilled(i)
            BY <3>1, <3>2, <3>3 DEF AllFilled
        <3>6. group'[g] = "failed" => \A j \in IntentsOf(g) : \A l \in LegsOf(j) : Over(l)
            <4> SUFFICES ASSUME group'[g] = "failed", NEW j \in IntentsOf(g), NEW l \in LegsOf(j)
                         PROVE  Over(l)
                OBVIOUS
            <4>1. CASE j = i
                BY <3>1, <3>3, <4>1
            <4>2. CASE j # i
                <5>1. PICK m \in LegsOf(i) : leg'[m] = "FAILED"
                    BY <3>1
                <5>2. ~AllFilled(i)
                    BY <3>3, <5>1 DEF AllFilled
                <5> QED
                    BY <3>1, <3>4, <4>2, <5>2
            <4> QED
                BY <4>1, <4>2
        <3>7. group'[g] \in {"open", "open_partial"} =>
                 \A j \in IntentsOf(g) : Kind[j] = "OPEN" => AllFilled(j)
            <4> SUFFICES ASSUME group'[g] \in {"open", "open_partial"},
                                NEW j \in IntentsOf(g), Kind[j] = "OPEN"
                         PROVE  AllFilled(j)
                OBVIOUS
            <4>1. CASE j = i
                BY <3>1, <3>3, <4>1 DEF AllFilled
            <4>2. CASE j # i
                BY <3>4, <4>2 DEF AllFilled
            <4> QED
                BY <4>1, <4>2
        <3>8. \A j \in IntentsOf(g) : \A l \in LegsOf(j) : l \in Legs
            BY <3>2, LegsArePairs
        <3> QED
            BY <1>1, <3>2, <3>5, <3>6, <3>7, <3>8 DEF GroupSound
    <2> QED
        BY <2>1, <2>2
<1> QED
    BY <1>2, <1>5, <1>6 DEF TruthInv

(* What an answer or an event makes of a leg, if it says no more than the  *)
(* venue has done.                                                         *)
LEMMA AppliedIsSound ==
  ASSUME TypeOK, NEW l \in Legs, VenueSound(l), LegSound(l), plan[l] > 0,
         NEW r \in OrderRow, Says(l, r), r.status # "NONE", submitted[l] # 0,
         l \notin wire \/ r.status # "CANCELED",
         r.status = "REJECTED" => venue[l].status = "NONE" /\ l \notin wire
  PROVE  LET o == GatewayOrder(order[l], r, plan[l])
             s == GatewayLeg(order[l], r, plan[l])
         IN /\ o.filled >= order[l].filled /\ o.filled <= venue[l].filled
            /\ s \in LegStatus \ {"CANCELED"}
            /\ s = "FILLED" => venue[l].status = "FILLED"
            /\ s = "FAILED" => Over(l) /\ venue[l].status # "FILLED"
<1>1. /\ order[l].filled \in Nat /\ r.filled \in Nat /\ plan[l] \in Nat /\ venue[l].filled \in Nat
    BY LotsIsNat DEF TypeOK, OrderRow, VenueRow
<1>2. order[l].filled <= venue[l].filled /\ r.filled <= venue[l].filled /\ venue[l].filled <= plan[l]
    BY DEF LegSound, VenueSound, Says
<1>3. venue[l].filled = plan[l] => venue[l].status = "FILLED"
    BY <1>1 DEF VenueSound
<1>4. r.status \in FailureOrderStatuses => Over(l) /\ venue[l].status # "FILLED"
    BY DEF FailureOrderStatuses, Over, WorkingAtVenue, Says
<1>5. r.status = "FILLED" => venue[l].status = "FILLED"
    BY DEF Says
<1> DEFINE f == Larger(order[l].filled, r.filled)
<1>6. f \in Nat /\ f >= order[l].filled /\ f <= venue[l].filled /\ (f >= plan[l] => venue[l].status = "FILLED")
    BY <1>1, <1>2, <1>3 DEF Larger
<1>7. GatewayOrder(order[l], r, plan[l]).filled = f
    BY DEF GatewayOrder
<1> HIDE DEF f
<1>8. LET s == GatewayLeg(order[l], r, plan[l]) IN
      /\ s \in {"FILLED", "FAILED", "PARTIALLY_FILLED", "SUBMITTED"}
      /\ s = "FILLED" => r.status = "FILLED" \/ f >= plan[l]
      /\ s = "FAILED" => r.status \in FailureOrderStatuses
    BY DEF GatewayLeg, f
<1> QED
    BY <1>4, <1>5, <1>6, <1>7, <1>8 DEF LegStatus

(* What EventOrder and EventLeg make of a private event that says only     *)
(* what is so.                                                             *)
LEMMA EventIsSound ==
  ASSUME TypeOK, NEW l \in Legs, LegSound(l),
         NEW r \in Report, Says(l, r), submitted[l] # 0,
         l \notin wire \/ r.status # "CANCELED"
  PROVE  LET o == EventOrder(order[l], r)
             s == EventLeg(order[l], r)
         IN /\ o.filled >= order[l].filled /\ o.filled <= venue[l].filled
            /\ s \in LegStatus \ {"CANCELED"}
            /\ s = "FILLED" => venue[l].status = "FILLED"
            /\ s = "FAILED" => Over(l) /\ venue[l].status # "FILLED"
<1>1. order[l].filled \in Nat /\ r.filled \in Nat /\ venue[l].filled \in Nat
    BY LotsIsNat DEF TypeOK, OrderRow, VenueRow, Report
<1>2. order[l].filled <= venue[l].filled /\ r.filled <= venue[l].filled
    BY DEF LegSound, Says
<1>3. r.status \in FailureOrderStatuses => Over(l) /\ venue[l].status # "FILLED"
    BY DEF FailureOrderStatuses, Over, WorkingAtVenue, Says, Report, VenueStatus
<1>4. r.status = "FILLED" => venue[l].status = "FILLED"
    BY DEF Says
<1>5. LET s == EventLeg(order[l], r) IN
      /\ s \in {"FILLED", "FAILED", "PARTIALLY_FILLED", "SUBMITTED"}
      /\ s = "FILLED" => r.status = "FILLED"
      /\ s = "FAILED" => r.status \in FailureOrderStatuses
    BY DEF EventLeg
<1>6. LET o == EventOrder(order[l], r) IN o.filled >= order[l].filled /\ o.filled <= venue[l].filled
    BY <1>1, <1>2 DEF EventOrder, Larger
<1> QED
    BY <1>3, <1>4, <1>5, <1>6 DEF LegStatus

(* A command that is finished is so by the legs of its transaction.        *)
LEMMA FinishedIsSound ==
  ASSUME NEW T, T \subseteq Intents, NEW visible, FinishCommand(T, leg', visible)
  PROVE  Concluded(T)
<1>1. ASSUME NEW i \in T
      PROVE  /\ intent'[i] # "ABSENT"
             /\ intent'[i] = "COMPLETED" => \A l \in LegsOf(i) : leg'[l] = "FILLED"
    <2>1. intent'[i] = IntentVerdict({leg'[l] : l \in LegsOf(i)})
        BY DEF FinishCommand
    <2>2. intent'[i] # "ABSENT"
        BY <2>1, IntentVerdictType
    <2>3. intent'[i] = "COMPLETED" => {leg'[l] : l \in LegsOf(i)} \subseteq {"FILLED"}
        BY <2>1, CompletedMeans
    <2> QED
        BY <2>2, <2>3
<1>2. \A i \in Intents \ T : intent'[i] = intent[i]
    BY DEF FinishCommand
<1>3. ASSUME NEW g \in Groups, group'[g] # group[g]
      PROVE  \E i \in T \cap IntentsOf(g), f \in BOOLEAN :
                 group'[g] = GroupVerdict(Kind[i], {leg'[l] : l \in LegsOf(i)}, f, prev[i])
    <2> DEFINE touched == T \cap IntentsOf(g)
               i       == Latest(touched)
               f       == \E l \in LegsOf(i) : visible[l].filled > 0
    <2>1. touched # {} /\ group'[g] = GroupVerdict(Kind[i], {leg'[l] : l \in LegsOf(i)}, f, prev[i])
        BY <1>3 DEF FinishCommand
    <2>2. i \in touched
        BY <2>1, LatestIsOne
    <2>3. f \in BOOLEAN
        OBVIOUS
    <2> HIDE DEF f
    <2> QED
        BY <2>1, <2>2, <2>3
<1> QED
    BY <1>1, <1>2, <1>3 DEF Concluded

-----------------------------------------------------------------------------
(* The projecting transactions book what is so: of a dispatch, ...         *)
LEMMA RecordResultsBooks ==
  ASSUME IInv, TruthInv, NEW i \in Intents, RecordResults(i)
  PROVE  \E S, T : Booking(S, T)
<1> USE DEF IInv
<1> DEFINE unknown  == {l \in LegsOf(i) : result[l].status = "UNKNOWN"}
           known    == LegsOf(i) \ unknown
           newLeg   == [l \in Legs |-> IF l \in unknown THEN "UNKNOWN"
                                       ELSE AppliedLeg(known, result)[l]]
           newOrder == [l \in Legs |-> IF l \in unknown THEN [order[l] EXCEPT !.status = "UNKNOWN"]
                                       ELSE AppliedOrder(known, result)[l]]
<1>1. /\ BeingDispatched(i) /\ sending = {} /\ order' = newOrder /\ leg' = newLeg
      /\ result' = [l \in Legs |-> NoReport]
      /\ UNCHANGED <<plan, refusals, venue, wire, submitted, queue, prev>>
    BY DEF RecordResults, BeingDispatched, command, world, stream, history
<1>2. \A l \in Legs \ LegsOf(i) : order'[l] = order[l] /\ leg'[l] = leg[l]
    BY <1>1 DEF AppliedOrder, AppliedLeg
<1>3. ASSUME NEW l \in LegsOf(i)
      PROVE  /\ order'[l].filled >= order[l].filled /\ order'[l].filled <= venue[l].filled
             /\ leg'[l] \in LegStatus \ {"CANCELED"}
             /\ leg'[l] = "FILLED" => venue[l].status = "FILLED"
             /\ leg'[l] = "FAILED" => Over(l) /\ venue[l].status # "FILLED"
    <2>1. l \in Legs /\ l[1] = i /\ plan[l] > 0
        BY LegsArePairs
    <2>2. VenueSound(l) /\ LegSound(l) /\ LegSafe(l)
        BY <2>1 DEF TruthInv, SubmissionInv
    <2>3. result[l] \in OrderRow /\ result[l].status # "NONE" /\ submitted[l] # 0
        BY <1>1, <2>1, <2>2 DEF LegSafe, LegSound, TypeOK
    <2>4. CASE l \in unknown
        <3>1. order'[l] = [order[l] EXCEPT !.status = "UNKNOWN"] /\ leg'[l] = "UNKNOWN"
            BY <1>1, <2>1, <2>4
        <3>2. /\ order[l] \in OrderRow /\ order[l].filled <= venue[l].filled
              /\ order[l].filled \in Nat
            BY <2>1, <2>2, LotsIsNat DEF TypeOK, LegSound, OrderRow
        <3> QED
            BY <3>1, <3>2 DEF LegStatus, OrderRow
    <2>5. CASE l \notin unknown
        <3>1. /\ order'[l] = GatewayOrder(order[l], result[l], plan[l])
              /\ leg'[l] = GatewayLeg(order[l], result[l], plan[l])
            BY <1>1, <2>1, <2>5 DEF AppliedOrder, AppliedLeg
        <3>2. /\ Says(l, result[l])
              /\ result[l].status = "REJECTED" => venue[l].status = "NONE" /\ l \notin wire
            BY <2>2 DEF LegSound
        <3>3. l \notin wire \/ result[l].status # "CANCELED"
            BY <2>2, <3>2 DEF Says, LegSafe
        <3> QED
            BY <2>1, <2>2, <2>3, <3>1, <3>2, <3>3, AppliedIsSound
    <2> QED
        BY <2>4, <2>5
<1>4. intent[i] # "ABSENT"
    BY <1>1 DEF SubmissionInv, IntentSafe, BeingDispatched
<1>5. Concluded({i})
    <2>1. CASE unknown # {}
        <3>1. intent' = [intent EXCEPT ![i] = "RECOVERY_REQUIRED"] /\ UNCHANGED group
            BY <2>1, RecordResults(i) DEF RecordResults
        <3> QED
            BY <3>1 DEF TypeOK, Concluded
    <2>2. CASE unknown = {}
        <3>1. FinishCommand({i}, leg', newOrder)
            BY <1>1, <2>2, RecordResults(i) DEF RecordResults
        <3> QED
            BY <3>1, FinishedIsSound
    <2> QED
        BY <2>1, <2>2
<1>6. \A l \in LegsOf(i) : l[1] \in {i}
    BY LegsArePairs
<1> HIDE DEF unknown, known, newLeg, newOrder
<1>9. Booking(LegsOf(i), {i})
    BY <1>1, <1>2, <1>3, <1>4, <1>5, <1>6, LegsArePairs DEF Booking
<1> QED
    BY <1>9

(* ... of a recovery, ...                                                  *)
LEMMA RecoverBooks ==
  ASSUME IInv, TruthInv, NEW i \in Intents, NEW S \in SUBSET LegsOf(i), Recover(i, S)
  PROVE  \E R, T : Booking(R, T)
<1> USE DEF IInv
<1> DEFINE open    == {l \in LegsOf(i) : order[l].status \in NonTerminalOrderStatuses}
           missing == {l \in LegsOf(i) : order[l].status = "NONE"}
           refused == {l \in open \cap refusals : order[l].filled = 0}
           reports == [l \in Legs |-> IF l \in refused THEN Rejected ELSE venue[l]]
           applied == S \cup refused
           newLeg  == AppliedLeg(applied, reports)
<1>1. /\ phase = "ready" /\ i \in stale
      /\ S \subseteq {l \in open \ refused : venue[l].status # "NONE"}
      /\ order' = AppliedOrder(applied, reports) /\ leg' = newLeg
      /\ UNCHANGED <<plan, refusals, venue, wire, submitted, queue, result, prev>>
    BY Recover(i, S) DEF Recover, NextClaim, command, world, stream
<1>2. applied \subseteq LegsOf(i) /\ applied \subseteq Legs
    BY <1>1, LegsArePairs
<1>3. \A l \in Legs \ applied : order'[l] = order[l] /\ leg'[l] = leg[l]
    BY <1>1 DEF AppliedOrder, AppliedLeg
<1>4. ASSUME NEW l \in applied
      PROVE  /\ order'[l].filled >= order[l].filled /\ order'[l].filled <= venue[l].filled
             /\ leg'[l] \in LegStatus \ {"CANCELED"}
             /\ leg'[l] = "FILLED" => venue[l].status = "FILLED"
             /\ leg'[l] = "FAILED" => Over(l) /\ venue[l].status # "FILLED"
    <2>1. l \in Legs /\ plan[l] > 0
        BY <1>2, LegsArePairs
    <2>2. VenueSound(l) /\ LegSound(l) /\ LegSafe(l)
        BY <2>1 DEF TruthInv, SubmissionInv
    <2>3. /\ order'[l] = GatewayOrder(order[l], reports[l], plan[l])
          /\ leg'[l] = GatewayLeg(order[l], reports[l], plan[l])
        BY <1>1, <2>1 DEF AppliedOrder, AppliedLeg
    <2>4. CASE l \in refused
        <3>1. reports[l] = Rejected /\ l \in refusals
            BY <2>1, <2>4
        <3>2. submitted[l] # 0 /\ venue[l].status = "NONE" /\ l \notin wire /\ venue[l].filled \in Nat
            BY <2>1, <2>2, <3>1, LotsIsNat DEF LegSound, TypeOK, VenueRow
        <3>3. Rejected \in OrderRow /\ Rejected.status = "REJECTED" /\ Says(l, Rejected)
            BY <3>2, LotsIsNat DEF Rejected, OrderRow, OrderStatus, Says
        <3> HIDE DEF reports, refused
        <3> QED
            BY <2>1, <2>2, <2>3, <3>1, <3>2, <3>3, AppliedIsSound
    <2>5. CASE l \notin refused
        <3>1. reports[l] = venue[l] /\ venue[l].status # "NONE"
            BY <1>1, <2>1, <2>5
        <3>2. /\ venue[l] \in OrderRow /\ submitted[l] # 0 /\ l \notin wire
              /\ venue[l].status # "REJECTED"
            BY <2>1, <2>2, <3>1, ReportsAreRows DEF LegSafe, TypeOK, VenueRow, VenueStatus
        <3>3. Says(l, venue[l])
            BY <2>1, LotsIsNat DEF Says, TypeOK, VenueRow
        <3> HIDE DEF reports, refused
        <3> QED
            BY <2>1, <2>2, <2>3, <3>1, <3>2, <3>3, AppliedIsSound
    <2> QED
        BY <2>4, <2>5
<1>5. intent[i] # "ABSENT"
    BY <1>1 DEF SubmissionInv, IntentSafe
<1>6. Concluded({i})
    <2>1. CASE missing = {} /\ open \subseteq applied
        <3>1. FinishCommand({i}, leg', order)
            BY <1>1, <2>1, Recover(i, S) DEF Recover
        <3> QED
            BY <3>1, FinishedIsSound
    <2>2. CASE ~(missing = {} /\ open \subseteq applied)
        <3>1. intent' = [intent EXCEPT ![i] = "RECOVERY_REQUIRED"] /\ UNCHANGED group
            BY <2>2, Recover(i, S) DEF Recover
        <3> QED
            BY <3>1 DEF TypeOK, Concluded
    <2> QED
        BY <2>1, <2>2
<1>7. \A l \in applied : l[1] \in {i}
    BY <1>2, LegsArePairs
<1>8. \A l \in Legs : queue'[l] = queue[l] /\ result'[l] = result[l]
    BY <1>1
<1> HIDE DEF open, missing, refused, reports, applied, newLeg
<1>9. Booking(applied, {i})
    BY <1>1, <1>2, <1>3, <1>4, <1>5, <1>6, <1>7, <1>8 DEF Booking
<1> QED
    BY <1>9

(* ... of a private event, ...                                             *)
LEMMA ProjectBooks ==
  ASSUME IInv, TruthInv, NEW l \in Legs, Project(l)
  PROVE  \E S, T : Booking(S, T)
<1> USE DEF IInv
<1> DEFINE report == Head(queue[l])
<1>1. /\ queue[l] # << >> /\ order' = [order EXCEPT ![l] = EventOrder(@, report)]
      /\ leg' = [leg EXCEPT ![l] = EventLeg(order[l], report)]
      /\ FinishCommand({l[1]}, leg', order')
      /\ queue' = [queue EXCEPT ![l] = Tail(@)]
      /\ UNCHANGED <<plan, refusals, venue, wire, submitted, result, prev>>
    BY DEF Project, command, world, worker, history
<1>2. VenueSound(l) /\ LegSound(l) /\ LegSafe(l)
    BY DEF TruthInv, SubmissionInv
<1>3. queue[l] \in Seq(Report) /\ Len(queue[l]) \in Nat /\ Len(queue[l]) > 0
    BY <1>1, LenProperties, EmptySeq DEF TypeOK
<1>4. report = queue[l][1] /\ report \in Report
    BY <1>1, <1>3, HeadTailProperties
<1>5. Says(l, report)
    BY <1>2, <1>3, <1>4 DEF LegSound
<1>6. submitted[l] # 0 /\ order[l].status # "NONE"
    BY <1>1, <1>2 DEF LegSafe
<1>7. l \notin wire \/ report.status # "CANCELED"
    BY <1>2, <1>5 DEF LegSafe, Says
<1>8. /\ order'[l].filled >= order[l].filled /\ order'[l].filled <= venue[l].filled
      /\ leg'[l] \in LegStatus \ {"CANCELED"}
      /\ leg'[l] = "FILLED" => venue[l].status = "FILLED"
      /\ leg'[l] = "FAILED" => Over(l) /\ venue[l].status # "FILLED"
    <2>1. order'[l] = EventOrder(order[l], report) /\ leg'[l] = EventLeg(order[l], report)
        BY <1>1 DEF TypeOK
    <2> HIDE DEF report
    <2> QED
        BY <1>2, <1>4, <1>5, <1>6, <1>7, <2>1, EventIsSound
<1>9. /\ l[1] \in Intents /\ intent[l[1]] # "ABSENT" /\ Concluded({l[1]})
    <2>1. l[1] \in Intents /\ intent[l[1]] # "ABSENT"
        BY <1>6, LegsArePairs DEF SubmissionInv, IntentSafe
    <2> QED
        BY <1>1, <2>1, FinishedIsSound
<1>10. \A m \in Legs \ {l} : order'[m] = order[m] /\ leg'[m] = leg[m]
    BY <1>1 DEF TypeOK
<1>11. ASSUME NEW m \in Legs, NEW k \in 1..Len(queue'[m])
       PROVE  \E n \in 1..Len(queue[m]) : queue'[m][k] = queue[m][n]
    <2>1. CASE m = l
        <3>1. /\ queue'[l] = Tail(queue[l]) /\ Len(Tail(queue[l])) = Len(queue[l]) - 1
              /\ \A j \in 1..Len(queue[l]) - 1 : Tail(queue[l])[j] = queue[l][j + 1]
            BY <1>1, <1>3, HeadTailProperties DEF TypeOK
        <3>2. k + 1 \in 1..Len(queue[l])
            BY <1>3, <2>1, <3>1
        <3> QED
            BY <1>3, <2>1, <3>1, <3>2
    <2>2. CASE m # l
        BY <1>1, <2>2 DEF TypeOK
    <2> QED
        BY <2>1, <2>2
<1> HIDE DEF report
<1>12. Booking({l}, {l[1]})
    BY <1>1, <1>6, <1>8, <1>9, <1>10, <1>11 DEF Booking
<1> QED
    BY <1>12

(* ... and of the queries at start and after a reconnection.               *)
LEMMA ReconcileBooks ==
  ASSUME IInv, TruthInv, NEW S \in SUBSET Legs, Start(S) \/ Reconcile(S)
  PROVE  \E R, T : Booking(R, T)
<1> USE DEF IInv
<1> DEFINE T == {l[1] : l \in S}
<1>1. /\ S \subseteq {l \in Reconcilable : venue[l].status # "NONE"}
      /\ order' = AppliedOrder(S, venue) /\ leg' = AppliedLeg(S, venue)
      /\ FinishCommand(T, leg', AppliedOrder(S, venue))
    BY DEF Start, Reconcile, QueryOrders
<1>2. UNCHANGED <<plan, refusals, venue, wire, submitted, queue, result, prev>>
    BY DEF Start, Reconcile, worker, command, world, stream
<1>3. ASSUME NEW l \in S
      PROVE  /\ order'[l].filled >= order[l].filled /\ order'[l].filled <= venue[l].filled
             /\ leg'[l] \in LegStatus \ {"CANCELED"}
             /\ leg'[l] = "FILLED" => venue[l].status = "FILLED"
             /\ leg'[l] = "FAILED" => Over(l) /\ venue[l].status # "FILLED"
             /\ l[1] \in Intents /\ intent[l[1]] # "ABSENT"
    <2>1. l \in Legs /\ order[l].status # "NONE" /\ outbox[l[1]] = "SENT" /\ venue[l].status # "NONE"
        BY <1>1 DEF Reconcilable, NonTerminalOrderStatuses
    <2>2. VenueSound(l) /\ LegSound(l) /\ LegSafe(l) /\ plan[l] > 0
        BY <2>1 DEF TruthInv, SubmissionInv, LegSafe
    <2>3. /\ order'[l] = GatewayOrder(order[l], venue[l], plan[l])
          /\ leg'[l] = GatewayLeg(order[l], venue[l], plan[l])
        BY <1>1, <2>1 DEF AppliedOrder, AppliedLeg
    <2>4. /\ venue[l] \in OrderRow /\ submitted[l] # 0 /\ l \notin wire
          /\ venue[l].status # "REJECTED"
        BY <2>1, <2>2, ReportsAreRows DEF LegSafe, TypeOK, VenueRow, VenueStatus
    <2>5. Says(l, venue[l])
        BY <2>1, LotsIsNat DEF Says, TypeOK, VenueRow
    <2>6. l[1] \in Intents /\ intent[l[1]] # "ABSENT"
        BY <2>1, LegsArePairs DEF SubmissionInv, IntentSafe
    <2> QED
        BY <2>1, <2>2, <2>3, <2>4, <2>5, <2>6, AppliedIsSound
<1>4. \A l \in Legs \ S : order'[l] = order[l] /\ leg'[l] = leg[l]
    BY <1>1 DEF AppliedOrder, AppliedLeg
<1>5. T \subseteq Intents /\ (\A i \in T : intent[i] # "ABSENT") /\ \A l \in S : l[1] \in T
    BY <1>3
<1> HIDE DEF T
<1>6. Concluded(T)
    BY <1>1, <1>5, FinishedIsSound
<1>7. \A l \in Legs : queue'[l] = queue[l] /\ result'[l] = result[l]
    BY <1>2
<1>9. Booking(S, T)
    BY <1>2, <1>3, <1>4, <1>5, <1>6, <1>7 DEF Booking
<1> QED
    BY <1>9

(* Every projecting transaction of the worker is such a booking.           *)
LEMMA ProjectingBooks ==
  ASSUME IInv, TruthInv, Projecting
  PROVE  \E R, T : Booking(R, T)
<1>1. ASSUME NEW i \in Intents, RecordResults(i) PROVE \E R, T : Booking(R, T)
    BY <1>1, RecordResultsBooks
<1>2. ASSUME NEW i \in Intents, NEW S \in SUBSET LegsOf(i), Recover(i, S)
      PROVE  \E R, T : Booking(R, T)
    BY <1>2, RecoverBooks
<1>3. ASSUME NEW l \in Legs, Project(l) PROVE \E R, T : Booking(R, T)
    BY <1>3, ProjectBooks
<1>4. ASSUME NEW S \in SUBSET Legs, Start(S) \/ Reconcile(S) PROVE \E R, T : Booking(R, T)
    BY <1>4, ReconcileBooks
<1> QED
    BY <1>1, <1>2, <1>3, <1>4 DEF Projecting

-----------------------------------------------------------------------------
(* The other steps.  What holds of the legs carries over to intents and    *)
(* groups, as long as what is over or filled stays so.                     *)
LEMMA LegsSuffice ==
  ASSUME TruthInv, \A l \in Legs : VenueSound(l)' /\ LegSound(l)',
         \A l \in Legs : /\ Over(l) => Over(l)'
                         /\ venue[l].status = "FILLED" => venue'[l].status = "FILLED",
         UNCHANGED <<intent, leg, plan, group>>
  PROVE  TruthInv'
<1>1. \A i \in Intents : LegsOf(i)' = LegsOf(i) /\ LegsOf(i) \subseteq Legs
    BY DEF LegsOf
<1>2. \A i \in Intents : AllFilled(i) => AllFilled(i)'
    BY <1>1 DEF AllFilled
<1>3. ASSUME NEW i \in Intents PROVE IntentSound(i)'
    BY <1>1, <1>2 DEF TruthInv, IntentSound, IntentsOf
<1>4. ASSUME NEW g \in Groups PROVE GroupSound(g)'
    <2>1. GroupSound(g) /\ IntentsOf(g)' = IntentsOf(g) /\ IntentsOf(g) \subseteq Intents
        BY DEF TruthInv, IntentsOf
    <2>2. group'[g] \in {"open", "open_partial"} =>
             \A i \in IntentsOf(g) : Kind[i] = "OPEN" => AllFilled(i)'
        BY <1>2, <2>1 DEF GroupSound
    <2>3. group'[g] = "failed" => \A i \in IntentsOf(g) : \A l \in LegsOf(i)' : Over(l)'
        BY <1>1, <2>1 DEF GroupSound
    <2>4. group'[g] = "closed" =>
             \E i \in IntentsOf(g) : Kind[i] = "CLOSE" /\ LegsOf(i)' # {} /\ AllFilled(i)'
        BY <1>1, <1>2, <2>1 DEF GroupSound
    <2> QED
        BY <2>1, <2>2, <2>3, <2>4 DEF GroupSound
<1> QED
    BY <1>3, <1>4 DEF TruthInv

(* Steps that tell the books nothing of any venue: at most they forget a   *)
(* report, take an intent up or down, or give a closing group back.        *)
LEMMA QuietKeeps ==
  ASSUME IInv, TruthInv,
         UNCHANGED <<leg, plan, refusals, venue, wire, submitted>>,
         \A l \in Legs : /\ order'[l].filled = order[l].filled
                         /\ queue'[l] \in {queue[l], << >>} /\ result'[l] \in {result[l], NoReport},
         \A i \in Intents : intent'[i] # intent[i] =>
             intent[i] # "ABSENT" /\ intent'[i] \notin {"ABSENT", "COMPLETED"},
         \A g \in Groups : group'[g] # group[g] =>
             /\ group'[g] \in {"open", "open_partial"}
             /\ \E i \in IntentsOf(g) : Kind[i] = "CLOSE" /\ intent[i] # "ABSENT"
  PROVE  TruthInv'
<1>1. /\ \A i \in Intents : LegsOf(i)' = LegsOf(i) /\ (AllFilled(i)' <=> AllFilled(i))
      /\ \A l \in Legs : (Over(l)' <=> Over(l)) /\ (VenueSound(l)' <=> VenueSound(l))
      /\ \A l \in Legs : \A r : Says(l, r)' <=> Says(l, r)
    BY DEF LegsOf, AllFilled, Over, WorkingAtVenue, VenueSound, Says
<1>2. ASSUME NEW l \in Legs PROVE VenueSound(l)' /\ LegSound(l)'
    <2>1. VenueSound(l) /\ LegSound(l)
        BY DEF TruthInv
    <2>2. /\ Says(l, result'[l])
          /\ result'[l].status # "NONE" => result'[l] = result[l]
        <3>1. Says(l, NoReport) /\ NoReport.status = "NONE"
            BY DEF Says, NoReport, IInv, TypeOK, VenueRow
        <3> QED
            BY <2>1, <3>1 DEF LegSound
    <2>3. \A k \in 1..Len(queue'[l]) : Says(l, queue'[l][k])
        BY <2>1, LenProperties, EmptySeq DEF LegSound
    <2>4. l \in refusals \/ result'[l].status = "REJECTED" =>
                submitted[l] # 0 /\ venue[l].status = "NONE" /\ l \notin wire
        BY <2>1, <2>2 DEF LegSound
    <2>5. result'[l].status # "NONE" => submitted[l] # 0
        BY <2>1, <2>2 DEF LegSound
    <2>6. order'[l].filled <= venue[l].filled
        BY <2>1 DEF LegSound
    <2>7. /\ leg[l] = "FILLED" => venue[l].status = "FILLED"
          /\ leg[l] = "FAILED" => Over(l) /\ venue[l].status # "FILLED"
          /\ leg[l] # "CANCELED"
        BY <2>1 DEF LegSound
    <2> QED
        BY <1>1, <2>1, <2>2, <2>3, <2>4, <2>5, <2>6, <2>7 DEF LegSound
<1>3. ASSUME NEW i \in Intents PROVE IntentSound(i)'
    <2>1. /\ IntentSound(i) /\ GroupOf[i] \in Groups
          /\ intent'[i] = "ABSENT" <=> intent[i] = "ABSENT"
        BY ConstantsAssumption DEF TruthInv, ConstantsAssumption
    <2>2. \A j \in Intents : intent'[j] # "ABSENT" <=> intent[j] # "ABSENT"
        OBVIOUS
    <2>3. group[GroupOf[i]] # "absent" => group'[GroupOf[i]] # "absent"
        BY <2>1
    <2>4. intent'[i] = "COMPLETED" => intent[i] = "COMPLETED"
        OBVIOUS
    <2> QED
        BY <1>1, <2>1, <2>2, <2>3, <2>4 DEF IntentSound, IntentsOf
<1>4. ASSUME NEW g \in Groups PROVE GroupSound(g)'
    <2>0. IntentsOf(g) \subseteq Intents /\ IntentsOf(g)' = IntentsOf(g)
        BY DEF IntentsOf
    <2>1. CASE group'[g] = group[g]
        <3>1. GroupSound(g)
            BY DEF TruthInv
        <3>2. \A i \in IntentsOf(g) : \A l \in LegsOf(i) : l \in Legs
            BY <2>0, LegsArePairs
        <3> QED
            BY <1>1, <2>0, <2>1, <3>1, <3>2 DEF GroupSound
    <2>2. CASE group'[g] # group[g]
        <3>1. /\ group'[g] \in {"open", "open_partial"}
              /\ \E i \in IntentsOf(g) : Kind[i] = "CLOSE" /\ intent[i] # "ABSENT"
            BY <2>2
        <3>2. PICK i \in IntentsOf(g) : Kind[i] = "CLOSE" /\ intent[i] # "ABSENT"
            BY <3>1
        <3>3. i \in Intents /\ GroupOf[i] = g /\ IntentSound(i)
            BY DEF IntentsOf, TruthInv
        <3>4. ASSUME NEW j \in IntentsOf(g), Kind[j] = "OPEN" PROVE AllFilled(j)
            <4>1. j # i /\ j \in Intents /\ IntentSound(j)
                BY <2>0, <3>2, <3>4 DEF TruthInv
            <4>2. CASE intent[j] = "ABSENT"
                BY <4>1, <4>2 DEF IntentSound, AllFilled
            <4>3. CASE intent[j] # "ABSENT"
                BY <3>2, <3>3, <3>4, <4>1, <4>3 DEF IntentSound
            <4> QED
                BY <4>2, <4>3
        <3> QED
            BY <1>1, <2>0, <3>1, <3>4 DEF GroupSound
    <2> QED
        BY <2>1, <2>2
<1> QED
    BY <1>2, <1>3, <1>4 DEF TruthInv

(* The steps of that kind.                                                 *)
LEMMA QuietSteps ==
  ASSUME IInv, TruthInv,
         \/ \E i \in Intents : RollBackStale(i) \/ RequeueUnsent(i) \/ DeferClaim(i) \/ Dispatch(i)
         \/ \E F, P \in SUBSET Intents : Claim(F, P)
         \/ \E k \in LegKeys : Connect(k) \/ Disconnect(k)
         \/ Crash \/ UNCHANGED vars
  PROVE  TruthInv'
<1> USE DEF IInv, command, world, stream, worker, history, faults, rows
<1>1. ASSUME NEW i \in Intents, RollBackStale(i) PROVE TruthInv'
    <2>1. /\ Kind[i] = "CLOSE" /\ intent[i] \in ActiveIntentStatuses /\ i \in IntentsOf(GroupOf[i])
          /\ intent' = [intent EXCEPT ![i] = "FAILED"]
          /\ UNCHANGED <<leg, order, plan, refusals, venue, wire, submitted, queue, result>>
          /\ \A g \in Groups : group'[g] # group[g] =>
                 group'[g] \in {"open", "open_partial"} /\ g = GroupOf[i]
        BY <1>1 DEF RollBackStale, TypeOK, IntentsOf
    <2>2. \A j \in Intents :
            intent'[j] # intent[j] =>
                intent[j] # "ABSENT" /\ intent'[j] \notin {"ABSENT", "COMPLETED"}
        BY <2>1 DEF ActiveIntentStatuses, TypeOK
    <2>3. intent[i] # "ABSENT"
        BY <2>1 DEF ActiveIntentStatuses
    <2> HIDE DEF IInv
    <2> QED
        BY <2>1, <2>2, <2>3, QuietKeeps
<1>2. ASSUME NEW i \in Intents, RequeueUnsent(i) PROVE TruthInv'
    <2>1. /\ intent[i] # "ABSENT" /\ intent' = [intent EXCEPT ![i] = "RUNNING"]
          /\ UNCHANGED <<leg, order, plan, refusals, venue, wire, submitted, queue, result, group>>
        BY <1>2 DEF RequeueUnsent
    <2>2. \A j \in Intents :
            intent'[j] # intent[j] =>
                intent[j] # "ABSENT" /\ intent'[j] \notin {"ABSENT", "COMPLETED"}
        BY <2>1 DEF TypeOK
    <2> HIDE DEF IInv
    <2> QED
        BY <2>1, <2>2, QuietKeeps
<1>3. ASSUME NEW i \in Intents, Dispatch(i) PROVE TruthInv'
    <2>1. /\ intent' = [intent EXCEPT ![i] = "RUNNING"] /\ i \in fresh
          /\ order' = [l \in Legs |-> IF l \in LegsOf(i) /\ order[l].status = "NONE"
                                      THEN [status |-> "INITIALIZED", filled |-> 0] ELSE order[l]]
          /\ UNCHANGED <<leg, plan, refusals, venue, wire, submitted, queue, result, group>>
        BY <1>3 DEF Dispatch
    <2>2. intent[i] # "ABSENT"
        BY <2>1 DEF SubmissionInv, IntentSafe
    <2>3. \A j \in Intents :
            intent'[j] # intent[j] =>
                intent[j] # "ABSENT" /\ intent'[j] \notin {"ABSENT", "COMPLETED"}
        BY <2>1, <2>2 DEF TypeOK
    <2>4. \A l \in Legs : order'[l].filled = order[l].filled
        BY <2>1 DEF SubmissionInv, LegSafe
    <2> HIDE DEF IInv
    <2> QED
        BY <2>1, <2>3, <2>4, QuietKeeps
<1>4. ASSUME \/ \E i \in Intents : DeferClaim(i)
             \/ \E F, P \in SUBSET Intents : Claim(F, P)
             \/ \E k \in LegKeys : Connect(k) \/ Disconnect(k)
             \/ UNCHANGED vars
      PROVE  TruthInv'
    <2>1. UNCHANGED <<leg, order, plan, refusals, venue, wire, submitted, queue, result, intent, group>>
        BY <1>4 DEF DeferClaim, Claim, Connect, Disconnect, vars
    <2> HIDE DEF IInv
    <2> QED
        BY <2>1, QuietKeeps
<1>5. ASSUME Crash PROVE TruthInv'
    <2>1. /\ UNCHANGED <<leg, order, plan, refusals, venue, wire, submitted, intent, group>>
          /\ \A l \in Legs : queue'[l] = << >> /\ result'[l] = NoReport
        BY <1>5 DEF Crash
    <2> HIDE DEF IInv
    <2> QED
        BY <2>1, QuietKeeps
<1> QED
    BY <1>1, <1>2, <1>3, <1>4, <1>5


(* At the start nothing is said.                                           *)
LEMMA InitTruth == Init => TruthInv
<1> SUFFICES ASSUME Init PROVE TruthInv
    OBVIOUS
<1>1. \A l \in Legs : VenueSound(l) /\ LegSound(l)
    BY LotsIsNat DEF Init, VenueSound, LegSound, Says, NoReport
<1>2. \A i \in Intents : IntentSound(i)
    BY DEF Init, IntentSound, LegsOf
<1>3. \A g \in Groups : GroupSound(g)
    BY DEF Init, GroupSound
<1> QED
    BY <1>1, <1>2, <1>3 DEF TruthInv

(* A venue takes or works on the order of leg l: it reports r, to whom it  *)
(* can reach, and the reports before r stay true.                          *)
LEMMA VenueStepKeeps ==
  ASSUME IInv, TruthInv, NEW l \in Legs, NEW r \in VenueReports(plan[l]), plan[l] > 0,
         venue[l].status = "NONE" \/ WorkingAtVenue(l), r.filled >= venue[l].filled,
         venue' = [venue EXCEPT ![l] = r], Emit(l, r), wire' \subseteq wire, l \notin wire',
         \A m \in Legs \ {l} : m \in wire' <=> m \in wire,
         ~Over(l),
         submitted'[l] # 0, \A m \in Legs \ {l} : submitted'[m] = submitted[m] /\ result'[m] = result[m],
         result'[l] \in {result[l], r, Unknown},
         UNCHANGED <<intent, leg, order, plan, group, refusals>>
  PROVE  TruthInv'
<1> USE DEF IInv
<1>1. /\ plan[l] \in 1..Lots /\ r \in Report /\ r.status # "NONE" /\ r.filled \in 0..plan[l]
      /\ r.status = "FILLED" <=> r.filled = plan[l]
    <2>1. plan[l] \in 1..Lots
        BY LotsIsNat DEF TypeOK
    <2> QED
        BY <2>1, VenueReportsMean
<1>2. venue'[l] = r /\ \A m \in Legs \ {l} : venue'[m] = venue[m] /\ queue'[m] = queue[m]
    BY DEF TypeOK, Emit
<1>3. VenueSound(l) /\ LegSound(l) /\ venue[l].filled \in Nat /\ order[l].filled \in Nat
    BY LotsIsNat DEF TruthInv, TypeOK, VenueRow, OrderRow
<1> DEFINE True(s) == /\ s.filled <= r.filled
                      /\ \A t \in {"FILLED", "CANCELED"} : s.status = t => r.status = t
<1>4. ASSUME NEW s, s.filled \in Nat, Says(l, s) PROVE True(s)
    <2>1. /\ s.filled <= venue[l].filled
          /\ s.status # "FILLED" /\ s.status # "CANCELED"
        BY <1>4 DEF Says, WorkingAtVenue
    <2>2. s.filled <= r.filled
        BY <1>1, <1>3, <1>4, <2>1
    <2> QED
        BY <2>1, <2>2
<1>5. l \notin refusals /\ result[l].status # "REJECTED" /\ leg[l] \notin {"FILLED", "FAILED", "CANCELED"}
    BY <1>3 DEF LegSound, Over, WorkingAtVenue
<1>6. VenueSound(l)'
    BY <1>1, <1>2 DEF VenueSound
<1>7. LegSound(l)'
    <2>1. True(r)
        BY <1>1
    <2>2. True(result'[l]) /\ result'[l].status # "REJECTED"
        <3>1. True(result[l])
            <4>1. result[l].filled \in Nat /\ Says(l, result[l])
                BY <1>3, LotsIsNat DEF LegSound, TypeOK, OrderRow
            <4> QED
                BY <1>4, <4>1
        <3>2. True(Unknown)
            BY <1>1 DEF Unknown
        <3>3. r.status # "REJECTED"
            BY <1>1 DEF Report, VenueStatus
        <3> QED
            BY <1>5, <2>1, <3>1, <3>2, <3>3 DEF Unknown
    <2>3. \A k \in 1..Len(queue'[l]) : True(queue'[l][k])
        <3>1. queue[l] \in Seq(Report) /\ Len(queue[l]) \in Nat
            BY LenProperties DEF TypeOK
        <3>2. \A k \in 1..Len(queue[l]) : True(queue[l][k])
            <4> TAKE k \in 1..Len(queue[l])
            <4>1. queue[l][k].filled \in Nat
                <5>1. queue[l][k] \in Report
                    BY <3>1, ElementOfSeq
                <5> QED
                    BY <5>1, LotsIsNat DEF Report
            <4>2. Says(l, queue[l][k])
                BY <1>3 DEF LegSound
            <4> QED
                BY <1>4, <4>1, <4>2
        <3>3. queue'[l] \in {queue[l], Append(queue[l], r)}
            BY DEF Emit, TypeOK
        <3>4. /\ Len(Append(queue[l], r)) = Len(queue[l]) + 1
              /\ Append(queue[l], r)[Len(queue[l]) + 1] = r
              /\ \A k \in 1..Len(queue[l]) : Append(queue[l], r)[k] = queue[l][k]
            BY <1>1, <3>1, AppendProperties
        <3>5. ASSUME NEW k \in 1..Len(queue[l]) + 1 PROVE True(Append(queue[l], r)[k])
            <4>1. CASE k = Len(queue[l]) + 1
                BY <2>1, <3>4, <4>1
            <4>2. CASE k \in 1..Len(queue[l])
                BY <3>2, <3>4, <4>2
            <4> QED
                BY <3>1, <4>1, <4>2
        <3> HIDE DEF True
        <3> QED
            BY <3>2, <3>3, <3>4, <3>5
    <2>4. order'[l].filled <= venue'[l].filled
        BY <1>1, <1>2, <1>3 DEF LegSound
    <2>5. result'[l].status # "NONE" => submitted'[l] # 0
        OBVIOUS
    <2> QED
        BY <1>2, <1>5, <2>2, <2>3, <2>4, <2>5 DEF LegSound, Says
<1>8. ASSUME NEW m \in Legs \ {l} PROVE VenueSound(m)' /\ LegSound(m)' /\ (Over(m)' <=> Over(m))
    <2>1. VenueSound(m) /\ LegSound(m)
        BY DEF TruthInv
    <2>2. (Over(m)' <=> Over(m)) /\ VenueSound(m)'
        BY <1>2, <2>1 DEF Over, WorkingAtVenue, VenueSound
    <2> QED
        BY <1>2, <2>1, <2>2 DEF LegSound, Says, Over
<1>9. venue[l].status # "FILLED"
    BY DEF WorkingAtVenue
<1> QED
    BY <1>6, <1>7, <1>8, <1>9, LegsSuffice

(* The calls to a venue and what venues do on their own.                   *)
LEMMA WorldKeeps ==
  ASSUME IInv, TruthInv, NEW l \in Legs, VenueProgress(l) \/ Arrive(l)
  PROVE  TruthInv'
<1> USE DEF IInv
<1>1. PICK r \in VenueReports(plan[l]) :
         /\ VenueMoves(l, r)
         /\ VenueProgress(l) => IF r.status = "CANCELED" THEN r.filled = venue[l].filled
                                ELSE r.filled > venue[l].filled
    BY DEF VenueProgress, Arrive
<1>2. /\ venue' = [venue EXCEPT ![l] = r] /\ Emit(l, r)
      /\ UNCHANGED <<intent, leg, order, plan, group, refusals, submitted, result>>
    BY <1>1 DEF VenueMoves, rows, command, worker, history
<1>3. /\ submitted[l] # 0 /\ ~Over(l) /\ l \notin wire' /\ wire' \subseteq wire
      /\ \A m \in Legs \ {l} : m \in wire' <=> m \in wire
      /\ venue[l].status = "NONE" \/ WorkingAtVenue(l)
    BY DEF VenueProgress, Arrive, WorkingAtVenue, SubmissionInv, LegSafe, Over
<1>4. plan[l] > 0 /\ plan[l] \in 1..Lots
    <2>1. LegSafe(l)
        BY DEF SubmissionInv
    <2>2. plan[l] > 0 /\ plan[l] \in 0..Lots
        BY <1>3, <2>1 DEF LegSafe, TypeOK
    <2> QED
        BY <2>2, LotsIsNat
<1>5. r \in Report /\ r.filled \in 0..plan[l]
    BY <1>4, VenueReportsMean
<1>6. r.filled >= venue[l].filled
    <2>1. CASE VenueProgress(l)
        BY <1>1, <1>4, <1>5, <2>1, LotsIsNat DEF TypeOK, VenueRow
    <2>2. CASE Arrive(l)
        BY <1>4, <1>5, <2>2 DEF Arrive, SubmissionInv, LegSafe, TruthInv, VenueSound
    <2> QED
        BY <2>1, <2>2
<1> QED
    BY <1>2, <1>3, <1>4, <1>6, VenueStepKeeps

(* A call to a venue.                                                      *)
LEMMA SubmitKeeps ==
  ASSUME IInv, TruthInv, NEW l \in Legs, Submit(l)
  PROVE  TruthInv'
<1> USE DEF IInv
<1>1. /\ submitted[l] = 0 /\ order[l].status # "NONE" /\ l \in sending /\ plan[l] > 0
      /\ submitted' = [submitted EXCEPT ![l] = 1]
      /\ UNCHANGED <<intent, leg, order, plan, group, refusals>>
    BY DEF Submit, SubmitAcknowledged, SubmitRejected, SubmitAnswerLost, SubmitTimesOut,
           Answered, SubmissionInv, LegSafe, rows, command, TypeOK
<1>2. /\ venue[l].status = "NONE" /\ l \notin wire /\ queue[l] = << >> /\ venue[l].filled = 0
      /\ VenueSound(l) /\ LegSound(l)
    BY <1>1 DEF SubmissionInv, LegSafe, TruthInv, VenueSound
<1>3. ASSUME NEW r, Answered(l, r)
      PROVE  result'[l] = r /\ \A m \in Legs \ {l} : result'[m] = result[m]
    BY <1>3 DEF Answered, TypeOK
<1>4. /\ ~Over(l)
      /\ submitted'[l] # 0 /\ \A m \in Legs \ {l} : submitted'[m] = submitted[m]
    BY <1>1 DEF Over, TypeOK
<1>5. CASE SubmitAcknowledged(l) \/ SubmitAnswerLost(l)
    <2>1. PICK r \in VenueReports(plan[l]) :
              /\ Answered(l, r) \/ Answered(l, Unknown)
              /\ venue' = [venue EXCEPT ![l] = r] /\ Emit(l, r) /\ UNCHANGED wire
        BY <1>5 DEF SubmitAcknowledged, SubmitAnswerLost
    <2>2. plan[l] \in 1..Lots
        BY <1>1, LotsIsNat DEF TypeOK
    <2>3. r.filled >= venue[l].filled
        BY <1>2, <2>2, VenueReportsMean
    <2>4. result'[l] \in {result[l], r, Unknown} /\ \A m \in Legs \ {l} : result'[m] = result[m]
        BY <1>3, <2>1
    <2>5. l \notin wire' /\ wire' \subseteq wire /\ \A m \in Legs \ {l} : m \in wire' <=> m \in wire
        BY <1>2, <2>1
    <2> QED
        BY <1>1, <1>2, <1>4, <2>1, <2>3, <2>4, <2>5, VenueStepKeeps
<1>6. CASE SubmitRejected(l) \/ SubmitTimesOut(l)
    <2>1. /\ UNCHANGED <<venue, queue>>
          /\ result'[l] \in {Rejected, Unknown}
          /\ \A m \in Legs \ {l} : result'[m] = result[m] /\ (m \in wire' <=> m \in wire)
          /\ l \in wire' => result'[l] = Unknown
        BY <1>2, <1>3, <1>6 DEF SubmitRejected, SubmitTimesOut
    <2>2. l \notin refusals /\ leg[l] \notin {"FILLED", "FAILED", "CANCELED"}
        BY <1>1, <1>2, <1>4 DEF LegSound
    <2>3. VenueSound(l)' /\ LegSound(l)'
        <3>1. VenueSound(l)'
            BY <1>1, <1>2, <2>1 DEF VenueSound
        <3>2. \A r : Says(l, r)' <=> Says(l, r)
            BY <2>1 DEF Says
        <3>3. Says(l, Rejected) /\ Says(l, Unknown)
            BY <1>2 DEF Says, Rejected, Unknown
        <3>4. order'[l].filled <= venue'[l].filled
            BY <1>1, <1>2, <2>1 DEF LegSound
        <3>5. \A k \in 1..Len(queue'[l]) : Says(l, queue'[l][k])
            BY <1>2, <2>1 DEF LegSound
        <3>6. result'[l].status = "REJECTED" =>
                 submitted'[l] # 0 /\ venue'[l].status = "NONE" /\ l \notin wire'
            BY <1>2, <1>4, <2>1 DEF Unknown
        <3>7. Says(l, result'[l])
            BY <2>1, <3>3
        <3> QED
            BY <1>1, <1>4, <2>1, <2>2, <3>4, <3>5, <3>6, <3>7, <3>1, <3>2 DEF LegSound, Says
    <2>4. ASSUME NEW m \in Legs \ {l} PROVE VenueSound(m)' /\ LegSound(m)' /\ (Over(m)' <=> Over(m))
        <3>1. VenueSound(m) /\ LegSound(m)
            BY DEF TruthInv
        <3>2. (Over(m)' <=> Over(m)) /\ VenueSound(m)'
            BY <1>1, <1>4, <2>1, <3>1 DEF Over, WorkingAtVenue, VenueSound
        <3> QED
            BY <1>1, <1>4, <2>1, <3>1, <3>2 DEF LegSound, Says, Over
    <2> QED
        BY <1>1, <1>4, <2>1, <2>3, <2>4, LegsSuffice
<1> QED
    BY <1>5, <1>6 DEF Submit


(* A new intent has no legs yet, and finds its group as it should be.      *)
LEMMA CreationKeeps ==
  ASSUME IInv, TruthInv, NEW i \in Intents, NEW q \in Plans,
         CreateIntent(i, q) \/ InheritUnsent(i, q) \/ InheritRefused(i, q)
  PROVE  TruthInv'
<1> USE DEF IInv
<1> DEFINE mine(l) == l[1] = i /\ q[l[2]] > 0
           g0      == GroupOf[i]
<1>1. /\ MayCreate(i) /\ intent[i] = "ABSENT" /\ \E k \in LegKeys : q[k] > 0
      /\ intent'[i] \in {"CREATED", "RUNNING", "RECOVERY_REQUIRED"}
      /\ \A j \in Intents \ {i} : intent'[j] = intent[j]
      /\ \A l \in Legs : plan'[l] = IF l[1] = i THEN q[l[2]] ELSE plan[l]
      /\ group'[g0] \in {"opening", "closing"} /\ \A g \in Groups \ {g0} : group'[g] = group[g]
      /\ g0 \in Groups
      /\ UNCHANGED <<queue, result, wire>>
    BY ConstantsAssumption
    DEF CreateIntent, InheritUnsent, InheritRefused, WriteIntent, MayCreate, Planned, TypeOK,
        worker, ConstantsAssumption
<1>2. \A k \in LegKeys : q[k] \in 0..Lots
    BY ConstantsAssumption DEF ConstantsAssumption
<1>3. \A l \in Legs : IF ~InheritRefused(i, q) \/ ~mine(l)
                      THEN /\ order'[l] = order[l] /\ leg'[l] = leg[l] /\ venue'[l] = venue[l]
                           /\ submitted'[l] = submitted[l] /\ (l \in refusals' <=> l \in refusals)
                      ELSE /\ submitted'[l] = 1
                           /\ IF l \in LegacyRefused
                              THEN /\ order'[l] = Unknown /\ leg'[l] = "UNKNOWN"
                                   /\ venue'[l] = venue[l]
                              ELSE /\ order'[l] = [status |-> "FILLED", filled |-> q[l[2]]]
                                   /\ venue'[l] = order'[l] /\ leg'[l] = "FILLED"
                                   /\ (l \in refusals' <=> l \in refusals)
    <2>1. CASE ~InheritRefused(i, q)
        BY <2>1 DEF CreateIntent, InheritUnsent
    <2>2. CASE InheritRefused(i, q)
        <3> TAKE l \in Legs
        <3>1. /\ leg' = [m \in Legs |-> IF ~mine(m) THEN leg[m]
                                        ELSE IF m \in LegacyRefused THEN "UNKNOWN" ELSE "FILLED"]
              /\ order' = [m \in Legs |-> IF ~mine(m) THEN order[m]
                                          ELSE IF m \in LegacyRefused THEN Unknown
                                          ELSE [status |-> "FILLED", filled |-> q[m[2]]]]
              /\ venue' = [m \in Legs |-> IF mine(m) /\ m \notin LegacyRefused
                                          THEN [status |-> "FILLED", filled |-> q[m[2]]] ELSE venue[m]]
              /\ submitted' = [m \in Legs |-> IF mine(m) THEN 1 ELSE submitted[m]]
            BY <2>2 DEF InheritRefused
        <3>2. l \in refusals' <=> l \in refusals \/ (mine(l) /\ l \in LegacyRefused)
            BY <2>2 DEF InheritRefused
        <3>3. CASE ~mine(l)
            BY <3>1, <3>2, <3>3
        <3>4. CASE mine(l)
            BY <2>2, <3>1, <3>2, <3>4
        <3> QED
            BY <3>3, <3>4
    <2> QED
        BY <2>1, <2>2
<1>4. ASSUME NEW l \in Legs, l[1] = i
      PROVE  /\ submitted[l] = 0 /\ venue[l].status = "NONE" /\ l \notin wire /\ queue[l] = << >>
             /\ venue[l].filled = 0 /\ order[l].filled = 0 /\ l \notin refusals
             /\ result[l].status = "NONE" /\ result[l].filled <= 0 /\ result[l].filled \in Nat
             /\ leg[l] \notin {"FILLED", "FAILED", "CANCELED"}
    <2>1. order[l].status = "NONE"
        BY <1>1, <1>4, LegsArePairs DEF SubmissionInv, IntentSafe
    <2>2. LegSafe(l) /\ VenueSound(l) /\ LegSound(l)
        BY DEF SubmissionInv, TruthInv
    <2>3. /\ submitted[l] = 0 /\ venue[l].status = "NONE" /\ l \notin wire /\ queue[l] = << >>
          /\ order[l].filled = 0 /\ venue[l].filled = 0
        BY <2>1, <2>2 DEF LegSafe, VenueSound
    <2>4. result[l].filled \in Nat
        BY LotsIsNat DEF TypeOK, OrderRow
    <2> QED
        BY <2>2, <2>3, <2>4 DEF LegSound, Says, Over
<1>5. ASSUME NEW l \in Legs PROVE VenueSound(l)' /\ LegSound(l)'
    <2>1. VenueSound(l) /\ LegSound(l) /\ l[2] \in LegKeys
        BY LegsArePairs DEF TruthInv
    <2>2. CASE l[1] # i
        <3>1. /\ order'[l] = order[l] /\ leg'[l] = leg[l] /\ venue'[l] = venue[l]
              /\ submitted'[l] = submitted[l] /\ (l \in refusals' <=> l \in refusals)
              /\ plan'[l] = plan[l]
            BY <1>1, <1>3, <2>2
        <3> QED
            BY <1>1, <2>1, <3>1 DEF VenueSound, LegSound, Says, Over, WorkingAtVenue
    <2>3. CASE l[1] = i /\ venue'[l] = venue[l] /\ leg'[l] \notin {"FILLED", "FAILED", "CANCELED"}
                 /\ order'[l].filled = 0 /\ (l \in refusals' => submitted'[l] # 0)
        <3>1. plan'[l] \in Nat
            BY <1>1, <1>2, <2>1, <2>3, LotsIsNat
        <3>2. VenueSound(l)'
            BY <1>4, <2>3, <3>1 DEF VenueSound
        <3>3. /\ result'[l] = result[l] /\ queue'[l] = << >> /\ (l \in wire' <=> l \in wire)
            BY <1>1, <1>4, <2>3
        <3> QED
            BY <1>4, <2>3, <3>2, <3>3 DEF LegSound, Says
    <2>4. CASE mine(l) /\ venue'[l] = [status |-> "FILLED", filled |-> q[l[2]]]
               /\ order'[l] = venue'[l] /\ leg'[l] = "FILLED" /\ submitted'[l] = 1
               /\ l \notin refusals'
        <3>1. plan'[l] = q[l[2]] /\ q[l[2]] \in Nat
            BY <1>1, <1>2, <2>1, <2>4, LotsIsNat
        <3>2. VenueSound(l)'
            BY <2>4, <3>1 DEF VenueSound
        <3>3. result'[l] = result[l] /\ queue'[l] = << >>
            BY <1>1, <1>4, <2>4
        <3> QED
            BY <1>4, <2>4, <3>1, <3>2, <3>3 DEF LegSound, Says
    <2> QED
        BY <1>3, <1>4, <2>2, <2>3, <2>4 DEF Unknown
<1>6. \A j \in Intents \ {i} :
         /\ LegsOf(j)' = LegsOf(j)
         /\ \A l \in LegsOf(j) : /\ l \in Legs /\ leg'[l] = leg[l] /\ venue'[l] = venue[l]
                                 /\ (Over(l) <=> Over(l)')
         /\ AllFilled(j)' <=> AllFilled(j)
    <2> TAKE j \in Intents \ {i}
    <2>1. LegsOf(j)' = LegsOf(j)
        BY <1>1 DEF LegsOf
    <2>2. \A l \in LegsOf(j) : /\ l \in Legs /\ leg'[l] = leg[l] /\ venue'[l] = venue[l]
                               /\ submitted'[l] = submitted[l]
        <3> TAKE l \in LegsOf(j)
        <3>1. l \in Legs /\ ~mine(l)
            BY LegsArePairs
        <3> QED
            BY <1>3, <3>1
    <2>3. \A l \in LegsOf(j) : Over(l) <=> Over(l)'
        BY <1>1, <2>2 DEF Over, WorkingAtVenue
    <2> QED
        BY <2>1, <2>2, <2>3 DEF AllFilled
<1>7. LegsOf(i)' # {}
    <2>1. PICK k \in LegKeys : q[k] > 0
        BY <1>1
    <2>2. <<i, k>> \in Legs /\ plan'[<<i, k>>] = q[k]
        BY <1>1 DEF Legs
    <2> QED
        BY <2>1, <2>2 DEF LegsOf
<1>8. /\ Kind[i] \in {"OPEN", "CLOSE"}
      /\ Kind[i] = "OPEN" => group[g0] = "absent"
      /\ Kind[i] = "CLOSE" => group[g0] \in {"open", "open_partial"}
    BY <1>1 DEF MayCreate
<1>9. \A j \in IntentsOf(g0) \ {i} :
         intent[j] # "ABSENT" => Kind[i] = "CLOSE" /\ (Kind[j] = "OPEN" => AllFilled(j))
    <2> TAKE j \in IntentsOf(g0) \ {i}
    <2>1. j \in Intents /\ GroupOf[j] = g0 /\ IntentSound(j) /\ GroupSound(g0)
        BY <1>1 DEF IntentsOf, TruthInv
    <2> QED
        BY <1>8, <2>1 DEF IntentSound, GroupSound
<1>10. ASSUME NEW j \in Intents PROVE IntentSound(j)'
    <2>1. \A k \in IntentsOf(GroupOf[j]) : k \in Intents /\ GroupOf[k] = GroupOf[j]
        BY DEF IntentsOf
    <2>2. CASE j = i
        <3>1. intent'[i] \notin {"ABSENT", "COMPLETED"} /\ group'[g0] # "absent"
            BY <1>1
        <3>2. \A k \in IntentsOf(g0) \ {i} :
                 Kind[k] = "OPEN" /\ intent'[k] # "ABSENT" => Kind[i] = "CLOSE" /\ AllFilled(k)'
            BY <1>1, <1>6, <1>9, <2>1, <2>2
        <3> QED
            BY <1>7, <1>8, <2>2, <3>1, <3>2 DEF IntentSound, IntentsOf
    <2>3. CASE j # i
        <3>1. /\ IntentSound(j) /\ GroupOf[j] \in Groups /\ intent'[j] = intent[j]
              /\ LegsOf(j)' = LegsOf(j) /\ \A l \in LegsOf(j) : leg'[l] = leg[l]
            BY <1>1, <1>6, <2>3, ConstantsAssumption DEF TruthInv, ConstantsAssumption
        <3>2. intent[j] # "ABSENT" => group'[GroupOf[j]] # "absent"
            BY <1>1, <3>1 DEF IntentSound
        <3>3. ASSUME intent[j] # "ABSENT", NEW k \in IntentsOf(GroupOf[j]) \ {j},
                     Kind[k] = "OPEN", intent'[k] # "ABSENT"
              PROVE  Kind[j] = "CLOSE" /\ AllFilled(k)'
            <4>1. k # i
                <5>1. k = i => j \in IntentsOf(g0) \ {i}
                    BY <2>1, <2>3 DEF IntentsOf
                <5> QED
                    BY <1>9, <3>3, <5>1
            <4>2. k \in Intents \ {i} /\ intent[k] # "ABSENT"
                BY <1>1, <2>1, <3>3, <4>1
            <4> QED
                BY <1>6, <3>1, <3>3, <4>2 DEF IntentSound
        <3> QED
            BY <3>1, <3>2, <3>3 DEF IntentSound, IntentsOf
    <2> QED
        BY <2>2, <2>3
<1>11. ASSUME NEW g \in Groups PROVE GroupSound(g)'
    <2>1. CASE g = g0
        BY <1>1, <2>1 DEF GroupSound
    <2>2. CASE g # g0
        <3>1. \A j \in IntentsOf(g) : j \in Intents \ {i}
            BY <2>2 DEF IntentsOf
        <3>2. GroupSound(g) /\ group'[g] = group[g] /\ IntentsOf(g)' = IntentsOf(g)
            BY <1>1, <2>2 DEF TruthInv, IntentsOf
        <3>3. group[g] \in {"open", "open_partial"} =>
                 \A j \in IntentsOf(g) : Kind[j] = "OPEN" => AllFilled(j)'
            BY <1>6, <3>1, <3>2 DEF GroupSound
        <3>4. group[g] = "failed" => \A j \in IntentsOf(g) : \A l \in LegsOf(j)' : Over(l)'
            BY <1>6, <3>1, <3>2 DEF GroupSound
        <3>5. group[g] = "closed" =>
                 \E j \in IntentsOf(g) : Kind[j] = "CLOSE" /\ LegsOf(j)' # {} /\ AllFilled(j)'
            BY <1>6, <3>1, <3>2 DEF GroupSound
        <3> QED
            BY <3>2, <3>3, <3>4, <3>5 DEF GroupSound
    <2> QED
        BY <2>1, <2>2
<1> QED
    BY <1>5, <1>10, <1>11 DEF TruthInv


(* Every step keeps what is said true.                                     *)
LEMMA StepTruth ==
  ASSUME IInv, TruthInv, [Next]_vars
  PROVE  TruthInv'
<1>1. CASE Projecting
    BY <1>1, ProjectingBooks, BookingKeeps
<1>2. CASE \E l \in Legs : Submit(l) \/ VenueProgress(l) \/ Arrive(l)
    BY <1>2, SubmitKeeps, WorldKeeps
<1>3. CASE \E i \in Intents, q \in Plans :
              CreateIntent(i, q) \/ InheritUnsent(i, q) \/ InheritRefused(i, q)
    BY <1>3, CreationKeeps
<1> QED
    BY <1>1, <1>2, <1>3, QuietSteps DEF Next, WorkerStep, Environment, ProcessClaim, Projecting

(* What is written, queued and answered about the orders is never more     *)
(* than the venues have done.                                              *)
THEOREM TruthHolds == Spec => []TruthInv
<1>1. Init => TruthInv
    BY InitTruth
<1>2. IInv /\ TruthInv /\ [Next]_vars => TruthInv'
    BY StepTruth
<1> QED
    BY <1>1, <1>2, InvariantHolds, PTL DEF Spec

(* The books never show a fill the venue did not make:                     *)
(* _apply_gateway_result and project_venue_events_once only raise          *)
(* filled_quantity to what was reported.                                   *)
THEOREM FillsAreReal == Spec => []RecordedFillIsReal
<1>1. TruthInv => RecordedFillIsReal
    BY DEF TruthInv, LegSound, RecordedFillIsReal
<1> QED
    BY <1>1, TruthHolds, PTL

(* No step takes a recorded fill back.                                     *)
LEMMA StepKeepsFills ==
  ASSUME IInv, TruthInv, [Next]_vars
  PROVE  \A l \in Legs : order'[l].filled >= order[l].filled
<1> SUFFICES ASSUME NEW l \in Legs PROVE order'[l].filled >= order[l].filled
    OBVIOUS
<1>1. order[l].filled \in Nat /\ order'[l].filled \in Nat
    <2>1. order[l] \in OrderRow /\ order'[l] \in OrderRow
        BY StepType DEF IInv, TypeOK
    <2> QED
        BY <2>1, LotsIsNat DEF OrderRow
<1>2. CASE Projecting
    <2>1. PICK R, T : Booking(R, T)
        BY <1>2, ProjectingBooks
    <2> QED
        BY <1>1, <2>1 DEF Booking
<1>3. CASE \E i \in Intents : Dispatch(i)
    BY <1>1, <1>3 DEF Dispatch, IInv, SubmissionInv, LegSafe
<1>4. ASSUME NEW i \in Intents, NEW q \in Plans, InheritRefused(i, q)
      PROVE  order'[l].filled >= order[l].filled
    <2>1. intent[i] = "ABSENT" /\ (l[1] # i => order'[l] = order[l])
        BY <1>4 DEF InheritRefused, WriteIntent, MayCreate
    <2>2. l[1] = i => order[l].filled = 0
        BY <2>1 DEF IInv, SubmissionInv, IntentSafe, LegSafe
    <2> QED
        BY <1>1, <2>1, <2>2
<1>5. ASSUME \/ UNCHANGED vars \/ Crash
             \/ \E i \in Intents, q \in Plans : CreateIntent(i, q) \/ InheritUnsent(i, q)
             \/ \E i \in Intents : RollBackStale(i) \/ RequeueUnsent(i) \/ DeferClaim(i)
             \/ \E F, P \in SUBSET Intents : Claim(F, P)
             \/ \E k \in LegKeys : Connect(k) \/ Disconnect(k)
             \/ \E m \in Legs : Submit(m) \/ VenueProgress(m) \/ Arrive(m)
      PROVE  UNCHANGED order
    BY <1>5 DEF vars, rows, Crash, CreateIntent, InheritUnsent, RollBackStale, RequeueUnsent,
                DeferClaim, Claim, Connect, Disconnect, Submit, SubmitAcknowledged, SubmitRejected,
                SubmitAnswerLost, SubmitTimesOut, Answered, VenueProgress, Arrive, VenueMoves
<1>6. CASE \E i \in Intents, q \in Plans : InheritRefused(i, q)
    BY <1>4, <1>6
<1>7. CASE UNCHANGED order
    BY <1>1, <1>7
<1> QED
    BY <1>2, <1>3, <1>5, <1>6, <1>7 DEF Next, WorkerStep, Environment, ProcessClaim, Projecting

(* A fill once on the books stays there, whatever order the reports,       *)
(* queries and late results come in.                                       *)
THEOREM FillsStay == Spec => FilledNeverDecreases
<1>1. IInv /\ TruthInv /\ [Next]_vars => [\A l \in Legs : order'[l].filled >= order[l].filled]_vars
    BY StepKeepsFills
<1> QED
    BY <1>1, InvariantHolds, TruthHolds, PTL DEF Spec, FilledNeverDecreases

(* An intent that _finish_command completes has all its orders filled at   *)
(* the venues, in full.                                                    *)
THEOREM CompletedIsFilled == Spec => []CompletionIsReal
<1>1. TypeOK /\ TruthInv => CompletionIsReal
    <2> SUFFICES ASSUME TypeOK, TruthInv, NEW i \in Intents, intent[i] = "COMPLETED",
                        NEW l \in LegsOf(i)
                 PROVE  venue[l] = [status |-> "FILLED", filled |-> plan[l]]
        BY DEF CompletionIsReal
    <2>1. l \in Legs /\ leg[l] = "FILLED"
        BY LegsArePairs DEF TruthInv, IntentSound
    <2>2. venue[l].status = "FILLED" /\ venue[l].filled = plan[l]
        BY <2>1 DEF TruthInv, LegSound, VenueSound
    <2> QED
        BY <2>1, <2>2 DEF TypeOK, VenueRow
<1> QED
    BY <1>1, InvariantHolds, TruthHolds, PTL DEF IInv

(* A group that _project_hedge_group_state fails has no order left that a  *)
(* venue works on or may still receive.                                    *)
THEOREM FailedIsOver == Spec => []FailedHasNoLiveOrder
<1>1. TruthInv => FailedHasNoLiveOrder
    BY DEF TruthInv, GroupSound, Over, FailedHasNoLiveOrder
<1> QED
    BY <1>1, TruthHolds, PTL

(* A group is closed only on the fills of a whole closing intent.          *)
THEOREM ClosedIsFilled == Spec => []ClosedMeansFilled
<1>1. TruthInv => ClosedMeansFilled
    BY DEF TruthInv, GroupSound, AllFilled, ClosedMeansFilled
<1> QED
    BY <1>1, TruthHolds, PTL

=============================================================================
