--------------------------- MODULE EventAndGroupProofs ---------------------------
(***************************************************************************)
(* Proofs about VenueEvents, for orders of any size and any number of      *)
(* dropped connections and repeated events: nothing is counted twice on    *)
(* the order, and a ledger that has heard everything lacks no fill.  And   *)
(* about HedgeGroups, for any number of commands, any quantities and any   *)
(* number of crashes: the invariant of a group, whose commands the orders  *)
(* are of.                                                                 *)
(***************************************************************************)
EXTENDS VenueEvents, FiniteSetTheorems, SequenceTheorems, WellFoundedInduction, TLAPS

CONSTANTS Venues, MaxIntents, GroupLots, StreamFills, LateEvents, MaxCrashes \* HedgeGroups

VARIABLES
    group, intent, outbox, plan, leg, placed, booked, exchange, owed, told,   \* HedgeGroups
    phase, working, answer, crashes

Groups == INSTANCE HedgeGroups WITH
  order <- placed, ledger <- booked, venue <- exchange, current <- working, Lots <- GroupLots

-----------------------------------------------------------------------------
(***************************************************************************)
(* VenueEvents.                                                            *)
(***************************************************************************)
(* The largest element.                                                    *)

(* A bounded set of numbers has one.                                       *)
LEMMA BoundedSetHasLargest ==
  ASSUME NEW S \in SUBSET Nat, S # {}, NEW b \in Nat, \A s \in S : s <= b
  PROVE  \E x \in S : \A y \in S : y <= x
<1>. DEFINE Gaps == {g \in Nat : \E s \in S : g = b - s}
<1>1. Gaps # {}
  <2>1. PICK s \in S : TRUE
    OBVIOUS
  <2>2. b - s \in Nat
    BY <2>1
  <2>. QED BY <2>1, <2>2
<1>2. PICK g \in Gaps : \A h \in Gaps : ~(<<h, g>> \in OpToRel(<, Nat))
  <2>1. Gaps \subseteq Nat
    OBVIOUS
  <2>. HIDE DEF Gaps
  <2>. QED BY <1>1, <2>1, WFMin, NatLessThanWellFounded
<1>3. \A h \in Gaps : g <= h
  <2>. SUFFICES ASSUME NEW h \in Gaps, h < g PROVE FALSE
    OBVIOUS
  <2>1. <<h, g>> \in OpToRel(<, Nat)
    BY DEF OpToRel
  <2>. QED BY <2>1, <1>2
<1>4. PICK x \in S : g = b - x
  OBVIOUS
<1>5. ASSUME NEW y \in S PROVE y <= x
  <2>1. b - y \in Gaps
    OBVIOUS
  <2>. QED BY <2>1, <1>3, <1>4
<1>. QED BY <1>4, <1>5

(* Highest is the largest of what it is given.                             *)
LEMMA HighestIsLargest ==
  ASSUME NEW S \in SUBSET Nat, NEW least \in Nat, NEW b \in Nat,
         least <= b, \A s \in S : s <= b
  PROVE  /\ Highest(S, least) \in S \cup {least}
         /\ \A y \in S \cup {least} : y <= Highest(S, least)
<1>1. \E x \in S \cup {least} : \A y \in S \cup {least} : y <= x
  BY BoundedSetHasLargest, S \cup {least} \in SUBSET Nat
<1>. QED BY <1>1 DEF Highest

-----------------------------------------------------------------------------
(* Types.                                                                  *)

(* What a venue reports next is a report, of no fewer lots.                *)
LEMMA SuccessorsAreReports ==
  ASSUME EventsAssumption, NEW r \in Report, NEW to \in Successors(r)
  PROVE  /\ to \in Report /\ to.status \in VenueStatus
         /\ r.filled <= to.filled
BY DEF EventsAssumption, Successors, Report, VenueStatus, OrderStatus

(* The messages of a step are events that tell no more than the venue has. *)
Tells(e, filled) ==
  /\ e.type = "ORDER" => e.filled <= filled
  /\ e.type = "FILL" => e.lot <= filled

(* Every message is a true event, and each new fill is among them.         *)
LEMMA MessagesAreEvents ==
  ASSUME EventsAssumption, NEW r \in Report, NEW to \in Successors(r), NEW m \in Messages(r, to)
  PROVE  /\ m \in Seq(Event)
         /\ \A k \in 1..Len(m) : Tells(m[k], to.filled)
         /\ \A n \in (r.filled + 1)..to.filled : \E k \in 1..Len(m) : m[k] = FillEvent(n)
<1>. DEFINE d == to.filled - r.filled
            fills == [n \in 1..(to.filled - r.filled) |-> FillEvent(r.filled + n)]
            o == OrderEvent(to)
<1>1. /\ to \in Report /\ to.status \in VenueStatus /\ r.filled <= to.filled
      /\ to.filled \in 0..Lots /\ r.filled \in 0..Lots /\ Lots \in Nat /\ d \in Nat
  BY SuccessorsAreReports DEF Report, EventsAssumption
<1>2. o \in Event /\ Tells(o, to.filled)
  BY <1>1 DEF OrderEvent, Event, OrderEvents, Tells
<1>3. \A n \in 1..d : FillEvent(r.filled + n) \in Event /\ Tells(FillEvent(r.filled + n), to.filled)
  <2>. SUFFICES ASSUME NEW n \in 1..d
                PROVE  FillEvent(r.filled + n) \in Event /\ Tells(FillEvent(r.filled + n), to.filled)
    OBVIOUS
  <2>1. r.filled + n \in 1..Lots /\ r.filled + n <= to.filled
    BY <1>1
  <2>. QED BY <2>1 DEF FillEvent, Event, FillEvents, Tells
<1>4. fills \in Seq(Event) /\ Len(fills) = d /\ \A n \in 1..d : fills[n] = FillEvent(r.filled + n)
  <2>1. fills \in [1..d -> Event]
    BY <1>3
  <2>2. fills \in Seq(Event)
    BY <2>1, <1>1, SeqDef
  <2>3. DOMAIN fills = 1..d
    OBVIOUS
  <2>. QED BY <1>1, <2>2, <2>3, LenProperties
<1>5. <<o>> \in Seq(Event) /\ Len(<<o>>) = 1 /\ <<o>>[1] = o
  BY <1>2
<1>. HIDE DEF fills, o, d
<1>6. CASE m = fills \o <<o>>
  <2>1. /\ m \in Seq(Event) /\ Len(m) = d + 1
        /\ \A k \in 1..d + 1 : m[k] = IF k <= d THEN fills[k] ELSE <<o>>[k - d]
    <3>1. /\ m \in Seq(Event) /\ Len(m) = Len(fills) + Len(<<o>>)
          /\ \A k \in 1..Len(fills) + Len(<<o>>) :
                m[k] = IF k <= Len(fills) THEN fills[k] ELSE <<o>>[k - Len(fills)]
      BY <1>4, <1>5, <1>6, ConcatProperties
    <3>. QED BY <3>1, <1>4, <1>5
  <2>2. ASSUME NEW k \in 1..Len(m) PROVE Tells(m[k], to.filled)
    <3>1. CASE k <= d
      BY <1>1, <1>3, <1>4, <2>1, <3>1
    <3>2. CASE ~(k <= d)
      <4>1. k = d + 1 /\ k - d = 1
        BY <1>1, <2>1, <3>2
      <4>2. m[k] = <<o>>[1]
        BY <2>1, <3>2, <4>1
      <4>. QED BY <4>2, <1>2, <1>5
    <3>. QED BY <3>1, <3>2
  <2>3. ASSUME NEW n \in (r.filled + 1)..to.filled
        PROVE  \E k \in 1..Len(m) : m[k] = FillEvent(n)
    <3>1. n - r.filled \in 1..d /\ r.filled + (n - r.filled) = n
      BY <1>1 DEF d
    <3>2. m[n - r.filled] = FillEvent(n) /\ n - r.filled \in 1..Len(m)
      BY <1>1, <1>4, <2>1, <3>1
    <3>. QED BY <3>2
  <2>. QED BY <2>1, <2>2, <2>3
<1>7. CASE m = <<o>> \o fills
  <2>1. /\ m \in Seq(Event) /\ Len(m) = 1 + d
        /\ \A k \in 1..1 + d : m[k] = IF k <= 1 THEN <<o>>[k] ELSE fills[k - 1]
    BY <1>1, <1>4, <1>5, <1>7, ConcatProperties
  <2>2. ASSUME NEW k \in 1..Len(m) PROVE Tells(m[k], to.filled)
    <3>1. CASE k = 1
      BY <1>1, <1>2, <1>5, <2>1, <3>1
    <3>2. CASE k # 1
      <4>1. k \in 1..1 + d /\ k - 1 \in 1..d /\ ~(k <= 1)
        BY <1>1, <2>1, <3>2
      <4>2. m[k] = fills[k - 1]
        BY <2>1, <4>1
      <4>. QED BY <4>1, <4>2, <1>3, <1>4
    <3>. QED BY <3>1, <3>2
  <2>3. ASSUME NEW n \in (r.filled + 1)..to.filled
        PROVE  \E k \in 1..Len(m) : m[k] = FillEvent(n)
    <3>1. n - r.filled \in 1..d /\ r.filled + (n - r.filled) = n
      BY <1>1 DEF d
    <3>2. n - r.filled + 1 \in 1..1 + d /\ ~(n - r.filled + 1 <= 1)
          /\ (n - r.filled + 1) - 1 = n - r.filled
      BY <1>1, <3>1
    <3>3. m[n - r.filled + 1] = fills[n - r.filled]
      BY <2>1, <3>2
    <3>. QED BY <1>4, <2>1, <3>1, <3>2, <3>3
  <2>. QED BY <2>1, <2>2, <2>3
<1>. QED BY <1>6, <1>7 DEF Messages, fills, o

-----------------------------------------------------------------------------
(* The invariant.                                                          *)

(* Nobody tells, and no row shows, more than the venue has filled.         *)
TruthInv ==
  /\ \A k \in 1..Len(queue) : Tells(queue[k], venue.filled)
  /\ \A e \in seen : Tells(e, venue.filled)
  /\ reply.filled <= venue.filled
  /\ order.filled <= venue.filled

(* Every fill is on its way or projected unless something was lost, and    *)
(* the ledger counts at least the fills that were projected.               *)
LedgerInv ==
  /\ Cardinality(Told) <= ledger
  /\ ~missed => \A n \in 1..venue.filled :
                    n \in Told \/ \E k \in 1..Len(queue) : queue[k] = FillEvent(n)

IInv == TypeOK /\ TruthInv /\ LedgerInv

(* An event is a snapshot or a fill, and a fill is known by its lot.       *)
LEMMA EventShape ==
  ASSUME NEW e \in Event
  PROVE  /\ e.type = "ORDER" => e.filled \in 0..Lots /\ e.status \in VenueStatus
         /\ e.type = "FILL" => e.lot \in 1..Lots /\ e = FillEvent(e.lot) /\ e \in FillEvents
         /\ e.type \in {"ORDER", "FILL"}
BY DEF Event, OrderEvents, FillEvents, FillEvent

(* The lots that were told are lots the venue has filled.                  *)
LEMMA ToldIsFilled ==
  ASSUME EventsAssumption, IInv
  PROVE  /\ Told \subseteq 1..venue.filled /\ venue.filled \in 0..Lots /\ Lots \in Nat
         /\ IsFiniteSet(Told) /\ Cardinality(Told) \in Nat
         /\ \A n : n \in Told <=> FillEvent(n) \in seen /\ n \in 1..Lots
<1>1. venue.filled \in 0..Lots /\ Lots \in Nat
  BY DEF EventsAssumption, IInv, TypeOK, Report
<1>2. Told \subseteq 1..venue.filled
  <2>. SUFFICES ASSUME NEW e \in seen \cap FillEvents PROVE e.lot \in 1..venue.filled
    BY DEF Told
  <2>1. e.type = "FILL" /\ e.lot \in 1..Lots
    BY DEF FillEvents
  <2>2. e.lot <= venue.filled
    BY <2>1 DEF IInv, TruthInv, Tells
  <2>. QED BY <1>1, <2>1, <2>2
<1>3. IsFiniteSet(Told) /\ Cardinality(Told) \in Nat
  <2>1. IsFiniteSet(1..venue.filled)
    BY <1>1, FS_Interval
  <2>2. IsFiniteSet(Told)
    BY <1>2, <2>1, FS_Subset
  <2>. QED BY <2>2, FS_CardinalityType
<1>4. ASSUME NEW n PROVE n \in Told <=> FillEvent(n) \in seen /\ n \in 1..Lots
  <2>1. ASSUME n \in Told PROVE FillEvent(n) \in seen /\ n \in 1..Lots
    <3>1. PICK e \in seen \cap FillEvents : n = e.lot
      BY <2>1 DEF Told
    <3>2. e = FillEvent(n) /\ n \in 1..Lots
      BY <3>1 DEF FillEvents, FillEvent
    <3>. QED BY <3>1, <3>2
  <2>2. ASSUME FillEvent(n) \in seen, n \in 1..Lots PROVE n \in Told
    <3>1. FillEvent(n) \in seen \cap FillEvents /\ FillEvent(n).lot = n
      BY <2>2 DEF FillEvents, FillEvent
    <3>. QED BY <3>1 DEF Told
  <2>. QED BY <2>1, <2>2
<1>. QED BY <1>1, <1>2, <1>3, <1>4

(* At the start nothing has happened.                                      *)
LEMMA InitHolds == EventsAssumption /\ Init => IInv
<1>. SUFFICES ASSUME EventsAssumption, Init PROVE IInv
  OBVIOUS
<1>1. None \in Report /\ [status |-> "INITIALIZED", filled |-> 0] \in Report
  BY DEF EventsAssumption, None, Report, OrderStatus, VenueStatus
<1>2. TypeOK
  <2>1. NoRefresh \in [at : Report, recorded : Nat] /\ "INITIALIZED" \in OrderStatus
    BY <1>1 DEF NoRefresh, OrderStatus
  <2>2. << >> \in Seq(Event) /\ {} \subseteq Event
    BY EmptySeq
  <2>3. 0 \in 0..MaxDrops /\ 0 \in 0..MaxRepeats
    BY DEF EventsAssumption
  <2>. QED BY <1>1, <2>1, <2>2, <2>3 DEF Init, TypeOK
<1>3. TruthInv
  BY DEF Init, TruthInv, None
<1>4. Told = {} /\ Cardinality({}) = 0
  BY FS_EmptySet DEF Init, Told
<1>5. LedgerInv
  BY <1>4 DEF Init, LedgerInv, None
<1>. QED BY <1>2, <1>3, <1>5 DEF IInv

(* A step that leaves the events and their ledger alone, and raises none   *)
(* of the quantities above that of the venue, keeps the invariant.         *)
LEMMA LedgerOnlyGrows ==
  ASSUME EventsAssumption, IInv, UNCHANGED <<venue, queue, seen, missed>>,
         ledger' \in Nat, ledger' >= ledger
  PROVE  LedgerInv'
<1>1. Told' = Told
  BY DEF Told
<1>2. Cardinality(Told) \in Nat /\ ledger \in Nat
  BY ToldIsFilled DEF IInv, TypeOK
<1>3. Cardinality(Told') <= ledger'
  BY <1>1, <1>2 DEF IInv, LedgerInv
<1>. QED BY <1>1, <1>3 DEF IInv, LedgerInv

(* An answer that is true leaves the order true.                           *)
LEMMA AnswerApplied ==
  ASSUME EventsAssumption, NEW o \in Report, NEW r \in Report, NEW most \in Nat,
         o.filled <= most, r.filled <= most
  PROVE  /\ GatewayOrder(o, r, Lots) \in Report
         /\ GatewayOrder(o, r, Lots).filled <= most
         /\ GatewayOrder(o, r, Lots).status \in OrderStatus
BY DEF EventsAssumption, GatewayOrder, Larger, Report, OrderStatus, VenueStatus

(* An answer of the gateway (_apply_gateway_result).                       *)
LEMMA ReportApplied ==
  ASSUME EventsAssumption, IInv, NEW r \in Report, r.filled <= venue.filled, ApplyReport(r)
  PROVE  /\ order' \in Report /\ order'.filled <= venue.filled
         /\ legacy' \in OrderStatus
         /\ ledger' \in Nat /\ ledger' >= ledger
<1>1. /\ order \in Report /\ venue.filled \in Nat /\ order.filled <= venue.filled
      /\ ledger \in Nat
  BY DEF IInv, TypeOK, TruthInv, Report, EventsAssumption
<1>2. order' \in Report /\ order'.filled <= venue.filled /\ order'.status \in OrderStatus
  BY <1>1, AnswerApplied DEF ApplyReport
<1>3. order'.filled \in Nat
  BY <1>2 DEF Report, EventsAssumption
<1>4. legacy' = order'.status /\ ledger' = Larger(ledger, order'.filled)
  BY DEF ApplyReport
<1>5. \A x, y \in Nat : Larger(x, y) \in Nat /\ Larger(x, y) >= x
  BY DEF Larger
<1>. QED BY <1>1, <1>2, <1>3, <1>4, <1>5

-----------------------------------------------------------------------------
(* The steps.                                                              *)

(* The answer to the submission is recorded.                               *)
LEMMA RecordReplyKeeps == ASSUME EventsAssumption, IInv, RecordReply PROVE IInv'
<1>0. None \in Report /\ None.filled = 0
  BY DEF EventsAssumption, None, Report, OrderStatus, VenueStatus
<1>1. /\ order' \in Report /\ order'.filled <= venue.filled
      /\ legacy' \in OrderStatus
      /\ ledger' \in Nat /\ ledger' >= ledger
  <2>1. CASE reply.status = "UNKNOWN"
    <3>1. /\ order' = [order EXCEPT !.status = "UNKNOWN"] /\ legacy' = "UNKNOWN"
          /\ ledger' = ledger
      BY <2>1 DEF RecordReply
    <3>2. order \in Report /\ order.filled <= venue.filled /\ ledger \in Nat
      BY DEF IInv, TypeOK, TruthInv
    <3>3. order' \in Report /\ order'.filled = order.filled
      BY <3>1, <3>2 DEF Report, OrderStatus
    <3>. QED BY <3>1, <3>2, <3>3 DEF OrderStatus
  <2>2. CASE reply.status # "UNKNOWN"
    <3>1. ApplyReport(reply)
      BY <2>2 DEF RecordReply
    <3>2. reply \in Report /\ reply.filled <= venue.filled
      BY DEF IInv, TypeOK, TruthInv
    <3>. QED BY <3>1, <3>2, ReportApplied
  <2>. QED BY <2>1, <2>2
<1>2. reply' = None /\ UNCHANGED <<venue, queue, seen, gap, refresh, drops, repeats, missed>>
  BY DEF RecordReply
<1>3. LedgerInv'
  BY <1>1, <1>2, LedgerOnlyGrows
<1>4. TypeOK'
  BY <1>0, <1>1, <1>2 DEF IInv, TypeOK
<1>5. TruthInv'
  BY <1>0, <1>1, <1>2 DEF IInv, TypeOK, TruthInv, Report, EventsAssumption
<1>. QED BY <1>3, <1>4, <1>5 DEF IInv

(* The worker asks the venue about the order.                              *)
LEMMA QueryKeeps == ASSUME EventsAssumption, IInv, Query PROVE IInv'
<1>1. /\ order' \in Report /\ order'.filled <= venue.filled
      /\ legacy' \in OrderStatus
      /\ ledger' \in Nat /\ ledger' >= ledger
  <2>1. CASE UNCHANGED <<order, legacy, ledger>>
    BY <2>1 DEF IInv, TypeOK, TruthInv
  <2>2. CASE ApplyReport(venue)
    <3>1. venue \in Report /\ venue.filled <= venue.filled
      BY DEF IInv, TypeOK, Report, EventsAssumption
    <3>. QED BY <2>2, <3>1, ReportApplied
  <2>. QED BY <2>1, <2>2 DEF Query
<1>2. gap' = FALSE /\ UNCHANGED <<venue, queue, seen, reply, refresh, drops, repeats, missed>>
  BY DEF Query
<1>3. LedgerInv'
  BY <1>1, <1>2, LedgerOnlyGrows
<1>4. TypeOK'
  BY <1>1, <1>2 DEF IInv, TypeOK
<1>5. TruthInv'
  BY <1>1, <1>2 DEF IInv, TruthInv
<1>. QED BY <1>3, <1>4, <1>5 DEF IInv

(* The reconciler of the API process only ever adds to the ledger.         *)
LEMMA RefreshKeeps ==
  ASSUME EventsAssumption, IInv, RefreshRead \/ RefreshWrite
  PROVE  IInv'
<1>1. CASE RefreshRead
  <2>1. /\ UNCHANGED <<venue, queue, seen, order, legacy, ledger, reply, gap, drops, repeats, missed>>
        /\ refresh' = [at |-> venue, recorded |-> ledger]
    BY <1>1 DEF RefreshRead
  <2>2. TypeOK'
    BY <2>1 DEF IInv, TypeOK
  <2>3. LedgerInv'
    BY <2>1, LedgerOnlyGrows DEF IInv, TypeOK
  <2>. QED BY <2>1, <2>2, <2>3 DEF IInv, TruthInv
<1>2. CASE RefreshWrite
  <2>1. /\ UNCHANGED <<venue, queue, seen, order, reply, gap, drops, repeats, missed>>
        /\ legacy' = refresh.at.status
        /\ ledger' = ledger + Larger(refresh.at.filled - refresh.recorded, 0)
        /\ refresh' = NoRefresh
    BY <1>2 DEF RefreshWrite
  <2>2. /\ refresh.at.filled \in Nat /\ refresh.recorded \in Nat /\ ledger \in Nat
        /\ refresh.at.status \in OrderStatus
    BY DEF IInv, TypeOK, Report, EventsAssumption
  <2>3. ledger' \in Nat /\ ledger' >= ledger
    BY <2>1, <2>2 DEF Larger
  <2>4. NoRefresh \in [at : Report, recorded : Nat]
    BY DEF NoRefresh, None, Report, OrderStatus, VenueStatus, EventsAssumption
  <2>5. TypeOK'
    BY <2>1, <2>2, <2>3, <2>4 DEF IInv, TypeOK
  <2>6. LedgerInv'
    BY <2>1, <2>3, LedgerOnlyGrows
  <2>. QED BY <2>1, <2>5, <2>6 DEF IInv, TruthInv
<1>. QED BY <1>1, <1>2

(* What the venue does reaches the queue as messages, in one or the other  *)
(* order, and makes nothing untrue that was told before.                   *)
LEMMA VenueMovesKeeps ==
  ASSUME EventsAssumption, IInv, NEW to \in Successors(venue), VenueMoves(to),
         UNCHANGED <<seen, order, legacy, ledger, gap, refresh, drops, repeats, missed>>,
         reply' \in Report, reply'.filled <= to.filled
  PROVE  IInv'
<1>1. /\ to \in Report /\ venue.filled <= to.filled /\ venue \in Report
      /\ venue.filled \in Nat /\ to.filled \in Nat /\ venue' = to
  BY SuccessorsAreReports DEF IInv, TypeOK, Report, EventsAssumption, VenueMoves
<1>2. PICK m \in Messages(venue, to) : queue' = queue \o m
  BY DEF VenueMoves
<1>3. /\ m \in Seq(Event)
      /\ \A k \in 1..Len(m) : Tells(m[k], to.filled)
      /\ \A n \in (venue.filled + 1)..to.filled : \E k \in 1..Len(m) : m[k] = FillEvent(n)
  BY <1>1, MessagesAreEvents
<1>4. queue \in Seq(Event)
  BY DEF IInv, TypeOK
<1>5. /\ queue' \in Seq(Event) /\ Len(queue') = Len(queue) + Len(m)
      /\ \A k \in 1..Len(queue) + Len(m) :
            queue'[k] = IF k <= Len(queue) THEN queue[k] ELSE m[k - Len(queue)]
      /\ Len(queue) \in Nat /\ Len(m) \in Nat
  BY <1>2, <1>3, <1>4, ConcatProperties, LenProperties
<1>6. TypeOK'
  BY <1>1, <1>5 DEF IInv, TypeOK
<1>7. \A e : Tells(e, venue.filled) /\ e \in Event => Tells(e, to.filled)
  BY <1>1, EventShape DEF Tells, EventsAssumption
<1>8. TruthInv'
  <2>1. ASSUME NEW k \in 1..Len(queue') PROVE Tells(queue'[k], to.filled)
    <3>1. CASE k <= Len(queue)
      <4>1. queue'[k] = queue[k] /\ k \in 1..Len(queue)
        BY <1>5, <3>1
      <4>2. Tells(queue[k], venue.filled) /\ queue[k] \in Event
        BY <1>4, <4>1, ElementOfSeq DEF IInv, TruthInv
      <4>. QED BY <1>7, <4>1, <4>2
    <3>2. CASE ~(k <= Len(queue))
      <4>1. queue'[k] = m[k - Len(queue)] /\ k - Len(queue) \in 1..Len(m)
        BY <1>5, <3>2
      <4>. QED BY <1>3, <4>1
    <3>. QED BY <3>1, <3>2
  <2>2. ASSUME NEW e \in seen' PROVE Tells(e, to.filled)
    BY <1>7 DEF IInv, TypeOK, TruthInv
  <2>3. order'.filled <= to.filled
    BY <1>1 DEF IInv, TypeOK, TruthInv, Report, EventsAssumption
  <2>. QED BY <1>1, <2>1, <2>2, <2>3 DEF TruthInv
<1>9. LedgerInv'
  <2>1. Told' = Told /\ Cardinality(Told) <= ledger
    BY DEF Told, IInv, LedgerInv
  <2>2. ASSUME ~missed, NEW n \in 1..to.filled
        PROVE  n \in Told \/ \E k \in 1..Len(queue') : queue'[k] = FillEvent(n)
    <3>1. CASE n <= venue.filled
      <4>1. n \in Told \/ \E k \in 1..Len(queue) : queue[k] = FillEvent(n)
        BY <1>1, <2>2, <3>1 DEF IInv, LedgerInv
      <4>2. \A k \in 1..Len(queue) : queue'[k] = queue[k] /\ k \in 1..Len(queue')
        BY <1>5
      <4>. QED BY <4>1, <4>2
    <3>2. CASE ~(n <= venue.filled)
      <4>1. PICK k \in 1..Len(m) : m[k] = FillEvent(n)
        BY <1>1, <1>3, <3>2
      <4>2. /\ Len(queue) + k \in 1..Len(queue') /\ ~(Len(queue) + k <= Len(queue))
            /\ (Len(queue) + k) - Len(queue) = k
        BY <1>5
      <4>3. queue'[Len(queue) + k] = FillEvent(n)
        BY <1>5, <4>1, <4>2
      <4>. QED BY <4>2, <4>3
    <3>. QED BY <3>1, <3>2
  <2>. QED BY <1>1, <2>1, <2>2 DEF LedgerInv
<1>. QED BY <1>6, <1>8, <1>9 DEF IInv

(* The order is submitted, or trades.                                      *)
LEMMA VenueSteps == ASSUME EventsAssumption, IInv, Submit \/ Trade PROVE IInv'
<1>1. CASE Trade
  <2>1. PICK to \in Successors(venue) : VenueMoves(to)
    BY <1>1 DEF Trade
  <2>2. /\ reply' = reply
        /\ UNCHANGED <<seen, order, legacy, ledger, gap, refresh, drops, repeats, missed>>
    BY <1>1 DEF Trade
  <2>3. reply' \in Report /\ reply'.filled <= to.filled
    <3>1. venue \in Report /\ reply \in Report /\ reply.filled <= venue.filled
      BY DEF IInv, TypeOK, TruthInv
    <3>2. to \in Report /\ venue.filled <= to.filled
      BY <3>1, SuccessorsAreReports
    <3>. QED BY <2>2, <3>1, <3>2 DEF Report, EventsAssumption
  <2>. QED BY <2>1, <2>2, <2>3, VenueMovesKeeps
<1>2. CASE Submit
  <2>1. PICK to \in Successors(None) :
          /\ VenueMoves(to)
          /\ reply' \in {to, [status |-> "UNKNOWN", filled |-> 0]}
    BY <1>2 DEF Submit
  <2>2. /\ venue = None
        /\ UNCHANGED <<seen, order, legacy, ledger, gap, refresh, drops, repeats, missed>>
    BY <1>2 DEF Submit
  <2>3. reply' \in Report /\ reply'.filled <= to.filled
    <3>1. to \in Report
      BY <2>1, <2>2, SuccessorsAreReports DEF IInv, TypeOK
    <3>2. [status |-> "UNKNOWN", filled |-> 0] \in Report
      BY DEF Report, OrderStatus, EventsAssumption
    <3>. QED BY <2>1, <3>1, <3>2 DEF Report, EventsAssumption
  <2>. QED BY <2>1, <2>2, <2>3, VenueMovesKeeps
<1>. QED BY <1>1, <1>2

(* The connection drops: what is left in the queue was in it before.       *)
LEMMA DropKeeps == ASSUME EventsAssumption, IInv, Drop PROVE IInv'
<1>1. PICK n \in 0..Len(queue) : queue' = SubSeq(queue, 1, n)
  BY DEF Drop
<1>2. /\ drops < MaxDrops /\ drops' = drops + 1 /\ gap' = TRUE
      /\ missed' = (missed \/ queue' # queue)
      /\ UNCHANGED <<venue, seen, order, legacy, ledger, reply, refresh, repeats>>
  BY DEF Drop
<1>3. queue \in Seq(Event) /\ Len(queue) \in Nat
  BY LenProperties DEF IInv, TypeOK
<1>4. /\ queue' \in Seq(Event) /\ Len(queue') = n
      /\ \A k \in 1..n : queue'[k] = queue[k]
  <2>1. \A k \in 1..n : queue[k] \in Event
    BY <1>3, ElementOfSeq
  <2>2. /\ SubSeq(queue, 1, n) \in Seq(Event)
        /\ Len(SubSeq(queue, 1, n)) = IF 1 <= n THEN n - 1 + 1 ELSE 0
        /\ \A k \in 1..n - 1 + 1 : SubSeq(queue, 1, n)[k] = queue[1 + k - 1]
    BY <1>3, <2>1, SubSeqProperties
  <2>. QED BY <1>1, <1>3, <2>2
<1>5. TypeOK'
  <2>1. drops' \in 0..MaxDrops
    BY <1>2 DEF IInv, TypeOK, EventsAssumption
  <2>2. missed' \in BOOLEAN
    BY <1>2
  <2>. QED BY <1>2, <1>4, <2>1, <2>2 DEF IInv, TypeOK
<1>6. TruthInv'
  BY <1>2, <1>3, <1>4 DEF IInv, TruthInv
<1>7. LedgerInv'
  <2>1. Told' = Told
    BY <1>2 DEF Told
  <2>2. ~missed' => ~missed /\ queue' = queue
    BY <1>2
  <2>. QED BY <1>2, <2>1, <2>2 DEF IInv, LedgerInv
<1>. QED BY <1>5, <1>6, <1>7 DEF IInv

(* An event that comes again is true still.                                *)
LEMMA RepeatKeeps == ASSUME EventsAssumption, IInv, Repeat PROVE IInv'
<1>1. PICK e \in seen \cup {queue[n] : n \in DOMAIN queue} : queue' = Append(queue, e)
  BY DEF Repeat
<1>2. /\ repeats < MaxRepeats /\ repeats' = repeats + 1
      /\ UNCHANGED <<venue, seen, order, legacy, ledger, reply, gap, refresh, drops, missed>>
  BY DEF Repeat
<1>3. queue \in Seq(Event) /\ Len(queue) \in Nat /\ DOMAIN queue = 1..Len(queue)
  BY LenProperties DEF IInv, TypeOK
<1>4. e \in Event /\ Tells(e, venue.filled)
  <2>1. CASE e \in seen
    BY <2>1 DEF IInv, TypeOK, TruthInv
  <2>2. CASE e \in {queue[n] : n \in DOMAIN queue}
    BY <1>3, <2>2, ElementOfSeq DEF IInv, TruthInv
  <2>. QED BY <2>1, <2>2
<1>5. /\ queue' \in Seq(Event) /\ Len(queue') = Len(queue) + 1
      /\ \A k \in 1..Len(queue) : queue'[k] = queue[k]
      /\ queue'[Len(queue) + 1] = e
  BY <1>1, <1>3, <1>4
<1>6. TypeOK'
  <2>1. repeats' \in 0..MaxRepeats
    BY <1>2 DEF IInv, TypeOK, EventsAssumption
  <2>. QED BY <1>2, <1>5, <2>1 DEF IInv, TypeOK
<1>7. TruthInv'
  <2>1. ASSUME NEW k \in 1..Len(queue') PROVE Tells(queue'[k], venue.filled)
    <3>1. k \in 1..Len(queue) \/ k = Len(queue) + 1
      BY <1>3, <1>5
    <3>. QED BY <1>4, <1>5, <3>1 DEF IInv, TruthInv
  <2>. QED BY <1>2, <2>1 DEF IInv, TruthInv
<1>8. LedgerInv'
  <2>1. Told' = Told
    BY <1>2 DEF Told
  <2>2. 1..Len(queue) \subseteq 1..Len(queue')
    BY <1>3, <1>5
  <2>. QED BY <1>2, <1>5, <2>1, <2>2 DEF IInv, LedgerInv
<1>. QED BY <1>6, <1>7, <1>8 DEF IInv

-----------------------------------------------------------------------------
(* A batch of the projection (project_venue_events_once).                  *)

(* Taken and left: the first n events of the queue, and the others.        *)
LEMMA BatchAndRest ==
  ASSUME IInv, NEW n \in 1..Len(queue)
  PROVE  /\ Taken(n) \in Seq(Event) /\ DOMAIN Taken(n) = 1..n
         /\ \A k \in 1..n : Taken(n)[k] = queue[k] /\ queue[k] \in Event
                            /\ Tells(queue[k], venue.filled)
         /\ SubSeq(queue, n + 1, Len(queue)) \in Seq(Event)
         /\ Len(SubSeq(queue, n + 1, Len(queue))) = Len(queue) - n
         /\ \A k \in 1..Len(queue) - n : SubSeq(queue, n + 1, Len(queue))[k] = queue[n + k]
<1>1. queue \in Seq(Event) /\ Len(queue) \in Nat /\ \A k \in 1..Len(queue) : queue[k] \in Event
  BY LenProperties, ElementOfSeq DEF IInv, TypeOK
<1>2. /\ SubSeq(queue, 1, n) \in Seq(Event)
      /\ Len(SubSeq(queue, 1, n)) = IF 1 <= n THEN n - 1 + 1 ELSE 0
      /\ \A k \in 1..n - 1 + 1 : SubSeq(queue, 1, n)[k] = queue[1 + k - 1]
  <2>1. \A k \in 1..n : queue[k] \in Event
    BY <1>1
  <2>. QED BY <1>1, <2>1, SubSeqProperties
<1>3. Len(Taken(n)) = n /\ Taken(n) \in Seq(Event) /\ \A k \in 1..n : Taken(n)[k] = queue[k]
  BY <1>1, <1>2 DEF Taken
<1>4. DOMAIN Taken(n) = 1..n
  BY <1>3, LenProperties
<1>5. \A k \in 1..n : Tells(queue[k], venue.filled)
  BY <1>1 DEF IInv, TruthInv
<1>. DEFINE m == n + 1
            z == Len(queue)
<1>6. /\ SubSeq(queue, m, z) \in Seq(Event)
      /\ Len(SubSeq(queue, m, z)) = IF m <= z THEN z - m + 1 ELSE 0
      /\ \A k \in 1..z - m + 1 : SubSeq(queue, m, z)[k] = queue[m + k - 1]
  <2>1. \A k \in m..z : queue[k] \in Event
    BY <1>1
  <2>2. m \in Int /\ z \in Int
    BY <1>1
  <2>. HIDE DEF m, z
  <2>. QED BY <2>1, <2>2, SubSeqProperties
<1>7. /\ Len(SubSeq(queue, n + 1, Len(queue))) = Len(queue) - n
      /\ \A k \in 1..Len(queue) - n : SubSeq(queue, n + 1, Len(queue))[k] = queue[n + k]
  BY <1>1, <1>6
<1>8. \A k \in 1..n : Taken(n)[k] = queue[k] /\ queue[k] \in Event /\ Tells(queue[k], venue.filled)
  <2>1. \A k \in 1..n : k \in 1..Len(queue)
    BY <1>1
  <2>. QED BY <1>1, <1>3, <1>5, <2>1
<1>9. SubSeq(queue, n + 1, Len(queue)) \in Seq(Event)
  BY <1>6
<1>. QED BY <1>3, <1>4, <1>7, <1>8, <1>9

(* A fill that was not told yet raises the count of told fills by one, and *)
(* no further than what the venue has filled.                              *)
LEMMA OneMoreIsFilled ==
  ASSUME EventsAssumption, IInv, NEW e \in Event, e.type = "FILL", e \notin seen,
         Tells(e, venue.filled)
  PROVE  Cardinality(Told) + 1 <= venue.filled
<1>1. e.lot \in 1..Lots /\ e = FillEvent(e.lot) /\ e.lot <= venue.filled
  BY EventShape DEF Tells
<1>2. /\ Told \subseteq 1..venue.filled /\ venue.filled \in Nat /\ IsFiniteSet(Told)
      /\ Cardinality(Told) \in Nat /\ e.lot \notin Told
  BY <1>1, ToldIsFilled
<1>3. e.lot \in 1..venue.filled
  BY <1>1, <1>2
<1>4. /\ IsFiniteSet(1..venue.filled) /\ Cardinality(1..venue.filled) = venue.filled
  <2>1. 1 \in Int /\ venue.filled \in Int
    BY <1>2
  <2>2. /\ IsFiniteSet(1..venue.filled)
        /\ Cardinality(1..venue.filled) = IF 1 > venue.filled THEN 0 ELSE venue.filled - 1 + 1
    BY <2>1, FS_Interval, Zenon
  <2>. QED BY <1>2, <2>2
<1>5. /\ IsFiniteSet(Told \cup {e.lot})
      /\ Cardinality(Told \cup {e.lot}) = Cardinality(Told) + 1
  BY <1>2, FS_AddElement
<1>6. Told \cup {e.lot} \in SUBSET (1..venue.filled)
  BY <1>2, <1>3
<1>7. Cardinality(Told \cup {e.lot}) <= Cardinality(1..venue.filled)
  BY <1>4, <1>6, FS_Subset
<1>. QED BY <1>4, <1>5, <1>7

(* What the order shows after a batch is between what it showed before and *)
(* what the venue has filled.                                              *)
LEMMA ProjectionIsTrue ==
  ASSUME EventsAssumption, IInv, NEW n \in 1..Len(queue), Fresh(Taken(n)) # {}
  PROVE  Projected(Taken(n)) \in Report /\ Projected(Taken(n)).filled <= venue.filled
<1>. DEFINE b == Taken(n)
            Q == Quantities(b)
            last == b[CHOOSE k \in Fresh(b) : \A j \in Fresh(b) : j <= k]
            top == Highest(Q, order.filled)
<1>1. /\ DOMAIN b = 1..n /\ n \in Nat
      /\ \A k \in 1..n : b[k] \in Event /\ Tells(b[k], venue.filled)
  <2>1. DOMAIN Taken(n) = 1..n
    BY BatchAndRest
  <2>2. \A k \in 1..n : Taken(n)[k] \in Event /\ Tells(Taken(n)[k], venue.filled)
    BY BatchAndRest
  <2>3. n \in Nat
    OBVIOUS
  <2>. QED BY <2>1, <2>2, <2>3
<1>2. /\ venue.filled \in Nat /\ venue.filled <= Lots /\ Lots \in Nat
      /\ order.filled \in Nat /\ order.filled <= venue.filled
  BY ToldIsFilled DEF IInv, TypeOK, TruthInv, Report
<1>3. Q \in SUBSET Nat /\ \A x \in Q : x <= venue.filled
  <2>1. ASSUME NEW k \in Fresh(b), b[k].type = "ORDER"
        PROVE  b[k].filled \in Nat /\ b[k].filled <= venue.filled
    <3>1. b[k] \in Event /\ Tells(b[k], venue.filled)
      BY <1>1 DEF Fresh
    <3>. QED BY <1>2, <2>1, <3>1, EventShape DEF Tells
  <2>2. ASSUME NEW k \in Fresh(b), b[k].type = "FILL"
        PROVE  Cardinality(Told) + 1 \in Nat /\ Cardinality(Told) + 1 <= venue.filled
    <3>1. b[k] \in Event /\ Tells(b[k], venue.filled) /\ b[k] \notin seen
      BY <1>1 DEF Fresh
    <3>. QED BY <2>2, <3>1, OneMoreIsFilled, ToldIsFilled
  <2>. HIDE DEF b
  <2>. QED BY <2>1, <2>2 DEF Quantities
<1>4. top \in Nat /\ top <= venue.filled
  <2>. HIDE DEF Q
  <2>1. top \in Q \cup {order.filled}
    BY <1>2, <1>3, HighestIsLargest
  <2>. QED BY <1>2, <1>3, <2>1
<1>5. last.type = "ORDER" => last.status \in OrderStatus
  <2>1. \E k \in Fresh(b) : \A j \in Fresh(b) : j <= k
    <3>1. Fresh(b) \in SUBSET Nat /\ \A k \in Fresh(b) : k <= n
      BY <1>1 DEF Fresh
    <3>. HIDE DEF b
    <3>. QED BY <1>1, <3>1, BoundedSetHasLargest DEF b
  <2>2. last \in Event
    <3>1. (CHOOSE k \in Fresh(b) : \A j \in Fresh(b) : j <= k) \in 1..n
      <4>1. (CHOOSE k \in Fresh(b) : \A j \in Fresh(b) : j <= k) \in Fresh(b)
        BY <2>1
      <4>. QED BY <1>1, <4>1 DEF Fresh
    <3>. QED BY <1>1, <3>1
  <2>. HIDE DEF last
  <2>. QED BY <2>2, EventShape DEF OrderStatus
<1>6. Projected(b) = [filled |-> top,
                      status |-> IF last.type = "ORDER" THEN last.status
                                 ELSE IF top >= Lots THEN "FILLED" ELSE "PARTIALLY_FILLED"]
  BY DEF Projected
<1>. HIDE DEF top, last
<1>7. Projected(b).filled = top /\ Projected(b).status \in OrderStatus
  BY <1>5, <1>6 DEF OrderStatus, VenueStatus
<1>8. top \in 0..Lots
  BY <1>2, <1>4
<1>. QED BY <1>4, <1>6, <1>7, <1>8 DEF Report

(* The fills of a batch whose events are all different are added to the    *)
(* ledger each once: at least as many as become told.                      *)
LEMMA BatchIsCounted ==
  ASSUME EventsAssumption, IInv, NEW n \in 1..Len(queue), ~Clashes(Taken(n)),
         seen' = seen \cup {Taken(n)[k] : k \in Fresh(Taken(n))}
  PROVE  /\ Cardinality(Told') <= ledger + Cardinality({k \in Fresh(Taken(n)) : Taken(n)[k].type = "FILL"})
         /\ Cardinality({k \in Fresh(Taken(n)) : Taken(n)[k].type = "FILL"}) \in Nat
         /\ Told \subseteq Told'
<1>. DEFINE b == Taken(n)
            K == {k \in Fresh(b) : b[k].type = "FILL"}
            L == {b[k].lot : k \in K}
            f == [k \in K |-> b[k].lot]
<1>1. /\ DOMAIN b = 1..n /\ n \in Nat
      /\ \A k \in 1..n : b[k] \in Event /\ Tells(b[k], venue.filled)
  BY BatchAndRest DEF IInv, TypeOK
<1>2. IsFiniteSet(K) /\ Cardinality(K) \in Nat
  <2>1. K \in SUBSET (1..n)
    BY <1>1 DEF Fresh
  <2>2. IsFiniteSet(1..n)
    BY <1>1, FS_Interval
  <2>3. IsFiniteSet(K)
    BY <2>1, <2>2, FS_Subset
  <2>. QED BY <2>3, FS_CardinalityType
<1>3. f \in Surjection(K, L)
  BY DEF Surjection
<1>4. IsFiniteSet(L) /\ Cardinality(L) <= Cardinality(K) /\ Cardinality(L) \in Nat
  <2>1. IsFiniteSet(L) /\ Cardinality(L) <= Cardinality(K)
    BY <1>2, <1>3, FS_Surjection
  <2>. QED BY <2>1, FS_CardinalityType
<1>5. Told' \subseteq Told \cup L
  <2>. SUFFICES ASSUME NEW e \in seen' \cap FillEvents PROVE e.lot \in Told \cup L
    BY DEF Told
  <2>1. CASE e \in seen
    BY <2>1 DEF Told
  <2>2. CASE e \in {b[k] : k \in Fresh(b)}
    <3>1. PICK k \in Fresh(b) : e = b[k]
      BY <2>2
    <3>2. k \in K
      BY <3>1 DEF FillEvents
    <3>. QED BY <3>1, <3>2
  <2>. QED BY <2>1, <2>2
<1>6. /\ IsFiniteSet(Told) /\ Cardinality(Told) \in Nat /\ Cardinality(Told) <= ledger
      /\ ledger \in Nat
  BY ToldIsFilled DEF IInv, TypeOK, LedgerInv
<1>7. /\ IsFiniteSet(Told \cup L)
      /\ Cardinality(Told \cup L) <= Cardinality(Told) + Cardinality(L)
  <2>. HIDE DEF L
  <2>1. /\ IsFiniteSet(Told \cup L)
        /\ Cardinality(Told \cup L) = Cardinality(Told) + Cardinality(L) - Cardinality(Told \cap L)
    BY <1>4, <1>6, FS_Union
  <2>2. Cardinality(Told \cap L) \in Nat
    BY <1>4, <1>6, FS_Intersection, FS_CardinalityType
  <2>. QED BY <1>4, <1>6, <2>1, <2>2
<1>8. Cardinality(Told') <= Cardinality(Told \cup L) /\ Cardinality(Told') \in Nat
      /\ Cardinality(Told \cup L) \in Nat
  <2>1. Told' \in SUBSET (Told \cup L)
    BY <1>5
  <2>. HIDE DEF L
  <2>2. IsFiniteSet(Told') /\ Cardinality(Told') <= Cardinality(Told \cup L)
    BY <1>7, <2>1, FS_Subset
  <2>. QED BY <1>7, <2>2, FS_CardinalityType
<1>9. Told \subseteq Told'
  BY DEF Told
<1>. HIDE DEF K, L
<1>10. Cardinality(Told') <= ledger + Cardinality(K)
  BY <1>2, <1>4, <1>6, <1>7, <1>8
<1>. QED BY <1>2, <1>9, <1>10 DEF K

(* Whatever the batch does with its events, what is told stays told, what  *)
(* is left in the queue stays there, and what it took is told or missed.   *)
LEMMA NothingForgotten ==
  ASSUME EventsAssumption, IInv, NEW n \in 1..Len(queue),
         venue' = venue,
         queue' = SubSeq(queue, n + 1, Len(queue)),
         Told \subseteq Told',
         ~missed' => ~missed,
         ~missed' => \A k \in 1..n : queue[k] \in seen'
  PROVE  ~missed' => \A i \in 1..venue'.filled :
                        i \in Told' \/ \E k \in 1..Len(queue') : queue'[k] = FillEvent(i)
<1>. SUFFICES ASSUME ~missed', NEW i \in 1..venue.filled
              PROVE  i \in Told' \/ \E k \in 1..Len(queue') : queue'[k] = FillEvent(i)
  OBVIOUS
<1>1. i \in Told \/ \E k \in 1..Len(queue) : queue[k] = FillEvent(i)
  BY DEF IInv, LedgerInv
<1>2. CASE i \in Told
  BY <1>2
<1>3. ASSUME NEW k \in 1..Len(queue), queue[k] = FillEvent(i)
      PROVE  i \in Told' \/ \E j \in 1..Len(queue') : queue'[j] = FillEvent(i)
  <2>1. /\ Len(queue') = Len(queue) - n /\ Len(queue) \in Nat /\ n \in Nat
        /\ \A j \in 1..Len(queue) - n : queue'[j] = queue[n + j]
    BY BatchAndRest, LenProperties DEF IInv, TypeOK
  <2>2. CASE k <= n
    <3>1. FillEvent(i) \in seen'
      BY <1>3, <2>1, <2>2
    <3>2. i \in 1..Lots
      BY ToldIsFilled
    <3>3. FillEvent(i) \in seen' \cap FillEvents /\ FillEvent(i).lot = i
      BY <3>1, <3>2 DEF FillEvent, FillEvents
    <3>. QED BY <3>3 DEF Told
  <2>3. CASE ~(k <= n)
    <3>. DEFINE z == Len(queue)
    <3>0. z \in Nat /\ n \in 1..z /\ k \in 1..z
      BY <2>1
    <3>. HIDE DEF z
    <3>1. k - n \in 1..z - n /\ n + (k - n) = k
      BY <2>3, <3>0
    <3>. USE DEF z
    <3>2. queue'[k - n] = FillEvent(i)
      BY <1>3, <2>1, <3>1
    <3>. QED BY <2>1, <3>1, <3>2
  <2>. QED BY <2>2, <2>3
<1>. QED BY <1>1, <1>2, <1>3

(* A batch is projected, or rolled back as a whole.                        *)
LEMMA ProjectBatchKeeps == ASSUME EventsAssumption, IInv, ProjectBatch PROVE IInv'
<1>1. PICK n \in 1..Len(queue) :
        /\ queue' = SubSeq(queue, n + 1, Len(queue))
        /\ IF Fresh(Taken(n)) = {} \/ Clashes(Taken(n))
           THEN /\ missed' = (missed \/ Fresh(Taken(n)) # {})
                /\ UNCHANGED <<seen, order, legacy, ledger>>
           ELSE /\ seen' = seen \cup {Taken(n)[k] : k \in Fresh(Taken(n))}
                /\ order' = Projected(Taken(n))
                /\ legacy' = order'.status
                /\ ledger' = ledger + Cardinality({k \in Fresh(Taken(n)) : Taken(n)[k].type = "FILL"})
                /\ UNCHANGED missed
  BY DEF ProjectBatch
<1>. DEFINE b == Taken(n)
<1>2. UNCHANGED <<venue, reply, gap, refresh, drops, repeats>>
  BY DEF ProjectBatch
<1>3. /\ queue' \in Seq(Event) /\ Len(queue') = Len(queue) - n
      /\ Len(queue) \in Nat /\ n \in Nat
      /\ \A k \in 1..Len(queue) - n : queue'[k] = queue[n + k]
  BY <1>1, BatchAndRest, LenProperties DEF IInv, TypeOK
<1>4. /\ DOMAIN b = 1..n
      /\ \A k \in 1..n : b[k] = queue[k] /\ b[k] \in Event /\ Tells(b[k], venue.filled)
  BY BatchAndRest
<1>5. \A k \in 1..Len(queue') : Tells(queue'[k], venue.filled)
  <2>1. \A k \in 1..Len(queue) - n : n + k \in 1..Len(queue)
    BY <1>3
  <2>. QED BY <1>3, <2>1 DEF IInv, TruthInv
<1>. HIDE DEF b
<1>6. CASE Fresh(Taken(n)) = {} \/ Clashes(Taken(n))
  <2>1. UNCHANGED <<seen, order, legacy, ledger>> /\ missed' = (missed \/ Fresh(Taken(n)) # {})
    BY <1>1, <1>6
  <2>2. TypeOK'
    BY <1>2, <1>3, <2>1 DEF IInv, TypeOK
  <2>3. TruthInv'
    BY <1>2, <1>5, <2>1 DEF IInv, TruthInv
  <2>4. Told' = Told
    BY <2>1 DEF Told
  <2>5. ~missed' => \A k \in 1..n : queue[k] \in seen'
    <3>. SUFFICES ASSUME ~missed', NEW k \in 1..n PROVE queue[k] \in seen'
      OBVIOUS
    <3>1. Fresh(b) = {}
      BY <2>1 DEF b
    <3>. QED BY <1>4, <2>1, <3>1 DEF Fresh
  <2>6. LedgerInv'
    <3>1. Cardinality(Told') <= ledger'
      BY <2>1, <2>4 DEF IInv, LedgerInv
    <3>. QED BY <1>1, <1>2, <2>1, <2>4, <2>5, <3>1, NothingForgotten DEF LedgerInv
  <2>. QED BY <2>2, <2>3, <2>6 DEF IInv
<1>7. CASE ~(Fresh(Taken(n)) = {} \/ Clashes(Taken(n)))
  <2>1. /\ seen' = seen \cup {Taken(n)[k] : k \in Fresh(Taken(n))}
        /\ order' = Projected(Taken(n)) /\ legacy' = order'.status
        /\ ledger' = ledger + Cardinality({k \in Fresh(Taken(n)) : Taken(n)[k].type = "FILL"})
        /\ missed' = missed
    BY <1>1, <1>7
  <2>2. order' \in Report /\ order'.filled <= venue.filled
    BY <1>7, <2>1, ProjectionIsTrue
  <2>3. legacy' \in OrderStatus
    BY <2>1, <2>2 DEF Report
  <2>4. /\ Cardinality(Told') <= ledger' /\ Told \subseteq Told'
        /\ ledger' \in Nat
    <3>1. ledger \in Nat
      BY DEF IInv, TypeOK
    <3>. QED BY <1>7, <2>1, <3>1, BatchIsCounted
  <2>5. \A e \in seen' : e \in Event /\ Tells(e, venue.filled)
    <3>. SUFFICES ASSUME NEW e \in seen' PROVE e \in Event /\ Tells(e, venue.filled)
      OBVIOUS
    <3>1. CASE e \in seen
      BY <3>1 DEF IInv, TypeOK, TruthInv
    <3>2. CASE e \in {Taken(n)[k] : k \in Fresh(Taken(n))}
      BY <1>4, <3>2 DEF Fresh, b
    <3>. QED BY <2>1, <3>1, <3>2
  <2>6. TypeOK'
    BY <1>2, <1>3, <2>1, <2>2, <2>3, <2>4, <2>5 DEF IInv, TypeOK
  <2>7. TruthInv'
    BY <1>2, <1>5, <2>2, <2>5 DEF IInv, TruthInv
  <2>8. \A k \in 1..n : queue[k] \in seen'
    <3>. SUFFICES ASSUME NEW k \in 1..n PROVE queue[k] \in seen'
      OBVIOUS
    <3>1. b[k] \in seen \/ k \in Fresh(b)
      BY <1>4 DEF Fresh
    <3>. QED BY <1>4, <2>1, <3>1 DEF b
  <2>9. LedgerInv'
    BY <1>1, <1>2, <2>1, <2>4, <2>8, NothingForgotten DEF LedgerInv
  <2>. QED BY <2>6, <2>7, <2>9 DEF IInv
<1>. QED BY <1>6, <1>7

(* No step of the venue, its stream, the worker or the API process         *)
(* disturbs the invariant.                                                 *)
LEMMA StepKeeps == EventsAssumption /\ IInv /\ [Next]_vars => IInv'
<1>. SUFFICES ASSUME EventsAssumption, IInv, [Next]_vars PROVE IInv'
  OBVIOUS
<1>1. CASE UNCHANGED vars
  <2>1. TypeOK' /\ TruthInv'
    BY <1>1 DEF vars, IInv, TypeOK, TruthInv
  <2>2. Told' = Told
    BY <1>1 DEF vars, Told
  <2>3. LedgerInv'
    BY <1>1, <2>2 DEF vars, IInv, LedgerInv
  <2>. QED BY <2>1, <2>3 DEF IInv
<1>2. CASE Next
  BY <1>2, VenueSteps, DropKeeps, RepeatKeeps, RecordReplyKeeps, QueryKeeps,
     ProjectBatchKeeps, RefreshKeeps DEF Next
<1>. QED BY <1>1, <1>2

(* What the invariant says of the order and of the ledger: each fill is    *)
(* in the rows or told of, and told of once.                               *)
LEMMA LedgerMeans == EventsAssumption /\ IInv => NeverOvercounted /\ LedgerCovers
<1>. SUFFICES ASSUME EventsAssumption, IInv PROVE NeverOvercounted /\ (Drained => ledger >= venue.filled)
  BY DEF LedgerCovers
<1>0. NeverOvercounted
  BY DEF IInv, TruthInv, NeverOvercounted
<1>1. /\ Told \subseteq 1..venue.filled /\ venue.filled \in Nat
      /\ IsFiniteSet(Told) /\ Cardinality(Told) \in Nat
  BY ToldIsFilled
<1>2. ASSUME Drained PROVE 1..venue.filled \in SUBSET Told
  <2>1. Len(queue) = 0 /\ ~missed
    BY <1>2 DEF Drained
  <2>. QED BY <2>1 DEF IInv, LedgerInv
<1>3. Cardinality(1..venue.filled) = venue.filled
  <2>1. 1 \in Int /\ venue.filled \in Int
    BY <1>1
  <2>2. Cardinality(1..venue.filled) = IF 1 > venue.filled THEN 0 ELSE venue.filled - 1 + 1
    BY <2>1, FS_Interval, Zenon
  <2>. QED BY <1>1, <2>2
<1>4. Drained => Cardinality(1..venue.filled) <= Cardinality(Told)
  BY <1>1, <1>2, FS_Subset
<1>5. ledger \in Nat /\ Cardinality(Told) <= ledger
  BY DEF IInv, TypeOK, LedgerInv
<1>. QED BY <1>0, <1>1, <1>3, <1>4, <1>5

-----------------------------------------------------------------------------
(* The rows of the order keep their types.                                 *)
THEOREM EventTypes == EventsAssumption => (Spec => []TypeOK)
<1>. SUFFICES ASSUME EventsAssumption PROVE Spec => []TypeOK
  OBVIOUS
<1>1. Init => IInv
  BY InitHolds
<1>2. IInv /\ [Next]_vars => IInv'
  BY StepKeeps
<1>3. IInv => TypeOK
  BY DEF IInv
<1>. QED BY <1>1, <1>2, <1>3, PTL DEF Spec

(* However its reports are repeated, reordered and cut into batches, an    *)
(* order never shows more than the venue has filled (venue_events.py and   *)
(* _apply_gateway_result of outbox_worker.py together).                    *)
THEOREM OrdersAreNotOvercounted == EventsAssumption => (Spec => []NeverOvercounted)
<1>. SUFFICES ASSUME EventsAssumption PROVE Spec => []NeverOvercounted
  OBVIOUS
<1>1. Init => IInv
  BY InitHolds
<1>2. IInv /\ [Next]_vars => IInv'
  BY StepKeeps
<1>3. IInv => NeverOvercounted
  BY LedgerMeans
<1>. QED BY <1>1, <1>2, <1>3, PTL DEF Spec

(* When everything has been projected and nothing was lost, the ledger     *)
(* lacks no fill, whoever wrote it and in whatever order.                  *)
THEOREM NoFillIsLacking == EventsAssumption => (Spec => []LedgerCovers)
<1>. SUFFICES ASSUME EventsAssumption PROVE Spec => []LedgerCovers
  OBVIOUS
<1>1. Init => IInv
  BY InitHolds
<1>2. IInv /\ [Next]_vars => IInv'
  BY StepKeeps
<1>3. IInv => LedgerCovers
  BY LedgerMeans
<1>. QED BY <1>1, <1>2, <1>3, PTL DEF Spec
-----------------------------------------------------------------------------
(* What is known of a filled order.                                        *)

(* The snapshot of the order as a whole, the last one its venue sends.     *)
Whole == [status |-> "FILLED", filled |-> Lots]
Final == OrderEvent(Whole)

Queued(e) == \E k \in 1..Len(queue) : queue[k] = e
Earlier(e, j) == \E i \in 1..Len(queue) : i < j /\ queue[i] = e

(* Nothing of an order that is not placed is told, and none of it before   *)
(* its answer is recorded.                                                 *)
Unplaced ==
  /\ venue = None => Len(queue) = 0 /\ seen = {}
  /\ reply # None => seen = {}

(* A snapshot that comes after the last one is a repetition: of one that   *)
(* is projected, or of one ahead of it in the queue.                       *)
Repeated ==
  \A j \in 1..Len(queue) :
     queue[j].type = "ORDER" /\ queue[j] # Final /\ (Final \in seen \/ Earlier(Final, j))
        => queue[j] \in seen \/ Earlier(queue[j], j)

KnownInv ==
  /\ Unplaced
  /\ Final \in seen \/ Queued(Final) => venue = Whole
  /\ ~missed => /\ venue.status = "FILLED" => Final \in seen \/ Queued(Final)
                /\ Final \in seen => order = Whole
                /\ Repeated

(* At the start nothing was told of an order.                              *)
LEMMA KnownInit == EventsAssumption /\ Init => KnownInv
BY DEF Init, KnownInv, Unplaced, Repeated, None, Queued, Earlier, Final, OrderEvent

(* A step of the venue sends one snapshot, and the rest are fills.         *)
LEMMA OneSnapshot ==
  ASSUME EventsAssumption, NEW r \in Report, NEW to \in Successors(r), NEW m \in Messages(r, to)
  PROVE  \E p \in 1..Len(m) : m[p] = OrderEvent(to) /\ \A k \in 1..Len(m) : k # p => m[k].type = "FILL"
<1>. DEFINE d == to.filled - r.filled
            fills == [n \in 1..(to.filled - r.filled) |-> FillEvent(r.filled + n)]
            o == OrderEvent(to)
<1>1. /\ r.filled <= to.filled /\ to.filled \in 0..Lots /\ r.filled \in 0..Lots /\ Lots \in Nat /\ d \in Nat
      /\ o \in Event
  BY SuccessorsAreReports DEF Report, EventsAssumption, OrderEvent, Event, OrderEvents
<1>2. \A n \in 1..d : FillEvent(r.filled + n) \in Event /\ FillEvent(r.filled + n).type = "FILL"
  <2>. SUFFICES ASSUME NEW n \in 1..d
                PROVE  FillEvent(r.filled + n) \in Event /\ FillEvent(r.filled + n).type = "FILL"
    OBVIOUS
  <2>1. r.filled + n \in 1..Lots
    BY <1>1
  <2>. QED BY <2>1 DEF FillEvent, Event, FillEvents
<1>3. fills \in Seq(Event) /\ Len(fills) = d /\ \A n \in 1..d : fills[n].type = "FILL"
  <2>1. fills \in [1..d -> Event]
    BY <1>2
  <2>2. fills \in Seq(Event)
    BY <2>1, <1>1, SeqDef
  <2>3. DOMAIN fills = 1..d
    BY <2>1
  <2>4. \A n \in 1..d : fills[n].type = "FILL"
    BY <1>2
  <2>. QED BY <1>1, <2>2, <2>3, <2>4, LenProperties
<1>4. <<o>> \in Seq(Event) /\ Len(<<o>>) = 1 /\ <<o>>[1] = o
  BY <1>1
<1>. HIDE DEF fills, o, d
<1>5. CASE m = fills \o <<o>>
  <2>1. /\ Len(m) = d + 1
        /\ \A k \in 1..d + 1 : m[k] = IF k <= d THEN fills[k] ELSE <<o>>[k - d]
    <3>1. /\ Len(m) = Len(fills) + Len(<<o>>)
          /\ \A k \in 1..Len(fills) + Len(<<o>>) :
                m[k] = IF k <= Len(fills) THEN fills[k] ELSE <<o>>[k - Len(fills)]
      BY <1>3, <1>4, <1>5, ConcatProperties
    <3>. QED BY <3>1, <1>3, <1>4
  <2>2. d + 1 \in 1..Len(m) /\ ~(d + 1 <= d) /\ (d + 1) - d = 1
    BY <1>1, <2>1
  <2>3. m[d + 1] = o
    BY <2>1, <2>2, <1>4
  <2>4. ASSUME NEW k \in 1..Len(m), k # d + 1 PROVE m[k].type = "FILL"
    <3>1. k \in 1..d /\ k <= d
      BY <1>1, <2>1, <2>4
    <3>. QED BY <1>3, <2>1, <2>4, <3>1
  <2>. QED BY <2>2, <2>3, <2>4 DEF o
<1>6. CASE m = <<o>> \o fills
  <2>1. /\ Len(m) = 1 + d
        /\ \A k \in 1..1 + d : m[k] = IF k <= 1 THEN <<o>>[k] ELSE fills[k - 1]
    BY <1>1, <1>3, <1>4, <1>6, ConcatProperties
  <2>2. 1 \in 1..Len(m) /\ m[1] = o
    BY <1>1, <1>4, <2>1
  <2>3. ASSUME NEW k \in 1..Len(m), k # 1 PROVE m[k].type = "FILL"
    <3>1. k - 1 \in 1..d /\ m[k] = fills[k - 1]
      BY <1>1, <2>1, <2>3
    <3>. QED BY <1>3, <3>1
  <2>. QED BY <2>2, <2>3 DEF o
<1>. QED BY <1>5, <1>6 DEF Messages, fills, o

(* What the venue does: the last snapshot is the only one of its step.     *)
LEMMA KnownVenueMoves ==
  ASSUME EventsAssumption, IInv, KnownInv, NEW to \in Successors(venue), VenueMoves(to),
         venue.status # "FILLED", reply' # None => seen' = {},
         UNCHANGED <<seen, order, missed>>
  PROVE  KnownInv'
<1>1. /\ to \in Report /\ venue \in Report /\ venue' = to /\ to # None /\ queue \in Seq(Event)
      /\ to.status = "FILLED" <=> to.filled = Lots
  BY SuccessorsAreReports DEF IInv, TypeOK, VenueMoves, Successors, None
<1>2. PICK m \in Messages(venue, to) : queue' = queue \o m
  BY DEF VenueMoves
<1>3. m \in Seq(Event)
  BY <1>1, MessagesAreEvents
<1>4. /\ queue' \in Seq(Event) /\ Len(queue') = Len(queue) + Len(m)
      /\ \A k \in 1..Len(queue) + Len(m) :
            queue'[k] = IF k <= Len(queue) THEN queue[k] ELSE m[k - Len(queue)]
      /\ Len(queue) \in Nat /\ Len(m) \in Nat
  BY <1>1, <1>2, <1>3, ConcatProperties, LenProperties
<1>5. PICK p \in 1..Len(m) : m[p] = OrderEvent(to) /\ \A k \in 1..Len(m) : k # p => m[k].type = "FILL"
  BY <1>1, OneSnapshot
<1>. DEFINE P == Len(queue) + p
<1>6. /\ P \in 1..Len(queue') /\ queue'[P] = OrderEvent(to) /\ P > Len(queue)
      /\ \A k \in 1..Len(queue') : k > Len(queue) /\ k # P => queue'[k].type = "FILL"
      /\ \A k \in 1..Len(queue) : queue'[k] = queue[k] /\ k \in 1..Len(queue')
  <2>1. P \in 1..Len(queue') /\ ~(P <= Len(queue)) /\ P - Len(queue) = p
    BY <1>4, <1>5
  <2>2. ASSUME NEW k \in 1..Len(queue'), k > Len(queue), k # P PROVE queue'[k].type = "FILL"
    <3>1. k - Len(queue) \in 1..Len(m) /\ k - Len(queue) # p /\ ~(k <= Len(queue))
      BY <1>4, <1>5, <2>2
    <3>. QED BY <1>4, <1>5, <3>1
  <2>3. \A k \in 1..Len(queue) : queue'[k] = queue[k] /\ k \in 1..Len(queue')
    BY <1>4
  <2>. QED BY <1>4, <1>5, <2>1, <2>2, <2>3
<1>. HIDE DEF P
<1>7. Final \notin seen /\ ~Queued(Final)
  BY DEF KnownInv, Whole
<1>8. Final.type = "ORDER" /\ Final' = Final /\ Whole' = Whole /\ (OrderEvent(to) = Final <=> to.status = "FILLED")
      /\ (to.status = "FILLED" => to = Whole)
  BY <1>1 DEF Final, Whole, OrderEvent, Report
<1>9. \A k \in 1..Len(queue') : queue'[k] = Final => k = P /\ to.status = "FILLED"
  <2>. SUFFICES ASSUME NEW k \in 1..Len(queue'), queue'[k] = Final PROVE k = P /\ to.status = "FILLED"
    OBVIOUS
  <2>1. ~(k \in 1..Len(queue))
    BY <1>6, <1>7 DEF Queued
  <2>2. k > Len(queue)
    BY <2>1, <1>4
  <2>. QED BY <1>6, <1>8, <2>2
<1>10. Unplaced'
  BY <1>1 DEF Unplaced, None
<1>11. Final \in seen' \/ Queued(Final)' => venue' = Whole
  BY <1>1, <1>7, <1>8, <1>9 DEF Queued
<1>12. to.status = "FILLED" => Queued(Final)'
  BY <1>6, <1>8 DEF Queued
<1>13. Repeated => Repeated'
  <2>. SUFFICES ASSUME Repeated, NEW j \in 1..Len(queue'), queue'[j].type = "ORDER", queue'[j] # Final, Final \in seen \/ Earlier(Final, j)'
                PROVE  queue'[j] \in seen \/ Earlier(queue[j], j)'
    BY <1>8 DEF Repeated, Earlier
  <2>1. PICK i \in 1..Len(queue') : i < j /\ queue'[i] = Final
    BY <1>7, <1>8 DEF Earlier
  <2>2. i = P /\ j > Len(queue) /\ j # P
    BY <2>1, <1>4, <1>6, <1>9
  <2>. QED BY <2>2, <1>6
<1>14. Final' \notin seen'
  BY <1>7, <1>8
<1>. QED BY <1>1, <1>8, <1>10, <1>11, <1>12, <1>13, <1>14 DEF KnownInv

(* A move of the venue sends what is new behind what it sent before.       *)
LEMMA KnownVenue == ASSUME EventsAssumption, IInv, KnownInv, Submit \/ Trade PROVE KnownInv'
<1>1. CASE Submit
  <2>1. /\ venue = None /\ seen' = seen /\ UNCHANGED <<seen, order, missed>>
        /\ \E to \in Successors(venue) : VenueMoves(to)
    BY <1>1 DEF Submit
  <2>2. seen = {} /\ venue.status # "FILLED"
    BY <2>1 DEF KnownInv, Unplaced, None
  <2>. QED BY <2>1, <2>2, KnownVenueMoves
<1>2. CASE Trade
  <2>1. /\ venue.status # "FILLED" /\ UNCHANGED <<seen, order, missed>> /\ reply' = reply
        /\ \E to \in Successors(venue) : VenueMoves(to)
    BY <1>2 DEF Trade
  <2>2. reply' # None => seen' = {}
    BY <2>1 DEF KnownInv, Unplaced
  <2>. QED BY <2>1, <2>2, KnownVenueMoves
<1>. QED BY <1>1, <1>2

(* Answers are recorded before anything is projected; later the worker     *)
(* asks only about an order that it does not know to be filled.            *)
LEMMA KnownAnswers ==
  ASSUME EventsAssumption, IInv, KnownInv, RecordReply \/ Query \/ RefreshRead \/ RefreshWrite
  PROVE  KnownInv'
<1>1. /\ UNCHANGED <<venue, queue, seen, missed>> /\ reply' \in {reply, None}
      /\ Final \in seen => order' = order \/ order.status \in NonTerminalOrderStatuses \/ reply # None
  BY DEF RecordReply, Query, RefreshRead, RefreshWrite
<1>2. Final \in seen /\ ~missed => order' = order
  <2>1. Final \in seen /\ ~missed => order.status \notin NonTerminalOrderStatuses /\ reply = None
    BY DEF KnownInv, Unplaced, Whole, NonTerminalOrderStatuses
  <2>. QED BY <1>1, <2>1
<1>3. Final' = Final /\ Whole' = Whole
  BY DEF Final, Whole, OrderEvent
<1>4. (Queued(Final) <=> Queued(Final)') /\ (Repeated => Repeated')
  BY <1>1, <1>3 DEF Queued, Repeated, Earlier
<1>5. Unplaced'
  BY <1>1 DEF KnownInv, Unplaced
<1>. QED BY <1>1, <1>2, <1>3, <1>4, <1>5 DEF KnownInv

(* A connection that drops loses what comes last, and it is noticed.       *)
LEMMA KnownDrop == ASSUME EventsAssumption, IInv, KnownInv, Drop PROVE KnownInv'
<1>1. PICK n \in 0..Len(queue) : queue' = SubSeq(queue, 1, n)
  BY DEF Drop
<1>2. /\ missed' \in BOOLEAN /\ (~missed' => ~missed /\ queue' = queue)
      /\ UNCHANGED <<venue, seen, order, reply>>
  BY DEF Drop
<1>3. queue \in Seq(Event) /\ Len(queue) \in Nat
  BY LenProperties DEF IInv, TypeOK
<1>4. Len(queue') = n /\ \A k \in 1..n : queue'[k] = queue[k]
  <2>1. \A k \in 1..n : queue[k] \in Event
    BY <1>3, ElementOfSeq
  <2>2. /\ Len(SubSeq(queue, 1, n)) = IF 1 <= n THEN n - 1 + 1 ELSE 0
        /\ \A k \in 1..n - 1 + 1 : SubSeq(queue, 1, n)[k] = queue[1 + k - 1]
    BY <1>3, <2>1, SubSeqProperties
  <2>. QED BY <1>1, <1>3, <2>2
<1>5. Final' = Final /\ Whole' = Whole
  BY DEF Final, Whole, OrderEvent
<1>6. Unplaced'
  BY <1>2, <1>3, <1>4 DEF KnownInv, Unplaced
<1>7. Queued(Final)' => Queued(Final)
  BY <1>3, <1>4, <1>5 DEF Queued
<1>8. queue' = queue => (Queued(Final) => Queued(Final)') /\ (Repeated => Repeated')
  BY <1>2, <1>5 DEF Queued, Repeated, Earlier
<1>. QED BY <1>2, <1>5, <1>6, <1>7, <1>8 DEF KnownInv

(* What a stream repeats is projected or ahead of it in the queue.         *)
LEMMA KnownRepeat == ASSUME EventsAssumption, IInv, KnownInv, Repeat PROVE KnownInv'
<1>1. PICK e \in seen \cup {queue[n] : n \in DOMAIN queue} : queue' = Append(queue, e)
  BY DEF Repeat
<1>2. UNCHANGED <<venue, seen, order, reply, missed>>
  BY DEF Repeat
<1>3. /\ queue \in Seq(Event) /\ Len(queue) \in Nat /\ DOMAIN queue = 1..Len(queue)
      /\ seen \subseteq Event
  BY LenProperties DEF IInv, TypeOK
<1>4. e \in Event /\ (e \in seen \/ Queued(e))
  BY <1>1, <1>3, ElementOfSeq DEF Queued
<1>5. /\ Len(queue') = Len(queue) + 1 /\ queue'[Len(queue) + 1] = e
      /\ \A k \in 1..Len(queue) : queue'[k] = queue[k] /\ k \in 1..Len(queue')
  <2>1. /\ Len(queue') = Len(queue) + 1 /\ queue'[Len(queue) + 1] = e
        /\ \A k \in 1..Len(queue) : queue'[k] = queue[k]
    BY <1>1, <1>3, <1>4, AppendProperties
  <2>. QED BY <1>3, <2>1
<1>6. \A k \in 1..Len(queue') : k \in 1..Len(queue) \/ k = Len(queue) + 1
  BY <1>3, <1>5
<1>7. Final' = Final /\ Whole' = Whole
  BY DEF Final, Whole, OrderEvent
<1>8. Unplaced'
  <2>1. venue # None
    BY <1>3, <1>4 DEF KnownInv, Unplaced, Queued
  <2>. QED BY <1>2, <2>1 DEF KnownInv, Unplaced
<1>9. \A x : Queued(x) => \E k \in 1..Len(queue') : k < Len(queue) + 1 /\ queue'[k] = x
  BY <1>3, <1>5 DEF Queued
<1>10. Queued(Final)' => Queued(Final) \/ e = Final
  BY <1>5, <1>6, <1>7 DEF Queued
<1>11. Queued(Final) => Queued(Final)'
  BY <1>5, <1>7 DEF Queued
<1>12. ASSUME Repeated PROVE Repeated'
  <2>. SUFFICES ASSUME NEW j \in 1..Len(queue'), queue'[j].type = "ORDER", queue'[j] # Final, Final \in seen \/ Earlier(Final, j)'
                PROVE  queue'[j] \in seen \/ Earlier(queue[j], j)'
    BY <1>2, <1>7 DEF Repeated, Earlier
  <2>1. CASE j = Len(queue) + 1
    BY <1>4, <1>5, <1>9, <2>1 DEF Earlier
  <2>2. CASE j \in 1..Len(queue)
    <3>1. queue'[j] = queue[j]
      BY <1>5, <2>2
    <3>2. Earlier(Final, j)' => Earlier(Final, j)
      BY <1>3, <1>5, <1>6, <1>7, <2>2 DEF Earlier
    <3>3. queue[j] \in seen \/ Earlier(queue[j], j)
      BY <1>12, <2>2, <3>1, <3>2 DEF Repeated
    <3>4. Earlier(queue[j], j) => Earlier(queue[j], j)'
      BY <1>5, <3>1 DEF Earlier
    <3>. QED BY <3>1, <3>3, <3>4
  <2>. QED BY <1>6, <2>1, <2>2
<1>. QED BY <1>2, <1>4, <1>7, <1>8, <1>10, <1>11, <1>12 DEF KnownInv

(* A batch that holds the last snapshot, or comes after it, shows the      *)
(* whole order.                                                            *)
LEMMA FinalIsShown ==
  ASSUME EventsAssumption, IInv, KnownInv, ~missed, NEW n \in 1..Len(queue),
         Fresh(Taken(n)) # {}, ~Clashes(Taken(n)),
         Final \in seen \/ \E k \in 1..n : queue[k] = Final
  PROVE  Projected(Taken(n)) = Whole
<1>. DEFINE b == Taken(n)
            Q == Quantities(b)
            l == CHOOSE k \in Fresh(b) : \A j \in Fresh(b) : j <= k
            top == Highest(Q, order.filled)
<1>1. /\ DOMAIN b = 1..n /\ n \in Nat /\ Len(queue) \in Nat /\ n <= Len(queue)
      /\ \A k \in 1..n : b[k] = queue[k] /\ b[k] \in Event /\ k \in 1..Len(queue)
  BY BatchAndRest, LenProperties DEF IInv, TypeOK
<1>2. /\ Lots \in Nat /\ venue.filled = Lots /\ order \in Report /\ order.filled \in Nat /\ order.filled <= Lots
  <2>1. venue = Whole
    BY <1>1 DEF KnownInv, Queued
  <2>. QED BY <2>1 DEF Whole, IInv, TypeOK, TruthInv, Report, EventsAssumption
<1>3. Q \in SUBSET Nat /\ \A x \in Q : x <= Lots
  <2>1. ASSUME NEW k \in Fresh(b), b[k].type = "ORDER"
        PROVE  b[k].filled \in Nat /\ b[k].filled <= Lots
    <3>1. b[k] \in Event
      BY <1>1 DEF Fresh
    <3>. QED BY <1>2, <2>1, <3>1, EventShape
  <2>2. ASSUME NEW k \in Fresh(b), b[k].type = "FILL"
        PROVE  Cardinality(Told) + 1 \in Nat /\ Cardinality(Told) + 1 <= Lots
    <3>1. b[k] \in Event /\ b[k] \notin seen /\ Tells(b[k], venue.filled)
      BY <1>1, BatchAndRest DEF Fresh
    <3>. QED BY <1>2, <2>2, <3>1, OneMoreIsFilled, ToldIsFilled
  <2>. HIDE DEF b
  <2>. QED BY <2>1, <2>2 DEF Quantities
<1>4. l \in Fresh(b) /\ \A j \in Fresh(b) : j <= l
  <2>1. Fresh(b) \in SUBSET Nat /\ \A k \in Fresh(b) : k <= n
    BY <1>1 DEF Fresh
  <2>. HIDE DEF b
  <2>2. \E k \in Fresh(b) : \A j \in Fresh(b) : j <= k
    BY <1>1, <2>1, BoundedSetHasLargest DEF b
  <2>. QED BY <2>2
<1>5. Final.type = "ORDER" /\ Final.filled = Lots /\ Final.status = "FILLED"
  BY DEF Final, Whole, OrderEvent
<1>6. top = Lots
  <2>. HIDE DEF Q
  <2>1. top \in Q \cup {order.filled} /\ \A y \in Q \cup {order.filled} : y <= top
    BY <1>2, <1>3, HighestIsLargest
  <2>2. top \in Nat /\ top <= Lots
    BY <1>2, <1>3, <2>1
  <2>3. Lots \in Q \cup {order.filled}
    <3>1. CASE Final \in seen
      BY <3>1 DEF KnownInv, Whole
    <3>2. CASE Final \notin seen
      <4>1. PICK k \in 1..n : b[k] = Final
        BY <1>1, <3>2
      <4>2. k \in {j \in Fresh(b) : b[j].type = "ORDER"} /\ b[k].filled = Lots
        BY <1>1, <1>5, <3>2, <4>1 DEF Fresh
      <4>. QED BY <4>2 DEF Q, Quantities
    <3>. QED BY <3>1, <3>2
  <2>. HIDE DEF top
  <2>. QED BY <1>2, <2>1, <2>2, <2>3
<1>. HIDE DEF l
<1>7. l \in 1..n /\ b[l] \notin seen /\ b[l] \in Event
  BY <1>1, <1>4 DEF Fresh
<1>8. b[l].type = "ORDER" => b[l] = Final
  <2>. SUFFICES ASSUME b[l].type = "ORDER", b[l] # Final PROVE FALSE
    OBVIOUS
  <2>1. Final \in seen \/ Earlier(Final, l)
    <3>. SUFFICES ASSUME Final \notin seen PROVE Earlier(Final, l)
      OBVIOUS
    <3>1. PICK k \in 1..n : b[k] = Final
      BY <1>1
    <3>2. k \in Fresh(b) /\ k # l
      BY <1>1, <3>1 DEF Fresh
    <3>3. k < l
      BY <1>4, <1>7, <3>2
    <3>. QED BY <1>1, <3>1, <3>3 DEF Earlier
  <2>2. queue[l] \in seen \/ Earlier(queue[l], l)
    BY <1>1, <1>7, <2>1 DEF KnownInv, Repeated
  <2>3. PICK i \in 1..Len(queue) : i < l /\ queue[i] = queue[l]
    BY <1>1, <1>7, <2>2 DEF Earlier
  <2>4. i \in 1..n /\ i # l
    BY <1>1, <1>7, <2>3
  <2>5. i \in Fresh(b) /\ b[i] = b[l]
    BY <1>1, <1>7, <2>3, <2>4 DEF Fresh
  <2>. QED BY <1>4, <2>4, <2>5 DEF Clashes
<1>9. Projected(b) = [filled |-> top,
                      status |-> IF b[l].type = "ORDER" THEN b[l].status
                                 ELSE IF top >= Lots THEN "FILLED" ELSE "PARTIALLY_FILLED"]
  BY DEF Projected, l
<1>. HIDE DEF top, b
<1>10. Projected(b) = [filled |-> Lots, status |-> "FILLED"]
  BY <1>2, <1>5, <1>6, <1>8, <1>9
<1>. QED BY <1>10 DEF b, Whole

(* A batch projects the head of the queue; its rows end with the newest    *)
(* that it has.                                                            *)
LEMMA KnownBatch == ASSUME EventsAssumption, IInv, KnownInv, ProjectBatch PROVE KnownInv'
<1>1. PICK n \in 1..Len(queue) :
        /\ queue' = SubSeq(queue, n + 1, Len(queue))
        /\ IF Fresh(Taken(n)) = {} \/ Clashes(Taken(n))
           THEN /\ missed' = (missed \/ Fresh(Taken(n)) # {})
                /\ UNCHANGED <<seen, order, legacy, ledger>>
           ELSE /\ seen' = seen \cup {Taken(n)[k] : k \in Fresh(Taken(n))}
                /\ order' = Projected(Taken(n))
                /\ legacy' = order'.status
                /\ ledger' = ledger + Cardinality({k \in Fresh(Taken(n)) : Taken(n)[k].type = "FILL"})
                /\ UNCHANGED missed
  BY DEF ProjectBatch
<1>. DEFINE b == Taken(n)
<1>2. venue' = venue /\ reply' = reply /\ reply = None
  BY DEF ProjectBatch, Idle
<1>3. /\ Len(queue') = Len(queue) - n /\ Len(queue) \in Nat /\ n \in Nat /\ n >= 1 /\ n <= Len(queue)
      /\ \A k \in 1..Len(queue') : queue'[k] = queue[n + k] /\ n + k \in 1..Len(queue)
  <2>1. /\ Len(queue') = Len(queue) - n /\ Len(queue) \in Nat /\ n \in Nat /\ n >= 1 /\ n <= Len(queue)
        /\ \A k \in 1..Len(queue) - n : queue'[k] = queue[n + k]
    BY <1>1, BatchAndRest, LenProperties DEF IInv, TypeOK
  <2>2. \A k \in 1..Len(queue) - n : n + k \in 1..Len(queue)
    BY <2>1
  <2>. QED BY <2>1, <2>2
<1>4. /\ DOMAIN b = 1..n /\ \A k \in 1..n : b[k] = queue[k] /\ k \in 1..Len(queue)
  BY <1>3, BatchAndRest
<1>5. \A k \in 1..Len(queue) : k \in 1..n \/ (k - n \in 1..Len(queue') /\ queue'[k - n] = queue[k])
  <2>. SUFFICES ASSUME NEW k \in 1..Len(queue), k \notin 1..n
                PROVE  k - n \in 1..Len(queue') /\ queue'[k - n] = queue[k]
    OBVIOUS
  <2>1. k - n \in 1..Len(queue') /\ n + (k - n) = k
    BY <1>3
  <2>. QED BY <1>3, <2>1
<1>. HIDE DEF b
<1>6. Final' = Final /\ Whole' = Whole
  BY DEF Final, Whole, OrderEvent
<1>7. seen \subseteq seen' /\ \A e \in seen' : e \in seen \/ Queued(e)
  <2>1. CASE seen' = seen
    BY <2>1
  <2>2. CASE seen' = seen \cup {b[k] : k \in Fresh(b)}
    BY <1>4, <2>2 DEF Fresh, Queued
  <2>. QED BY <1>1, <2>1, <2>2 DEF b
<1>8. \A e : Queued(e)' => Queued(e)
  BY <1>3 DEF Queued
<1>9. Unplaced'
  <2>1. venue # None
    BY <1>3 DEF KnownInv, Unplaced
  <2>. QED BY <1>2, <2>1 DEF Unplaced
<1>10. Final \in seen' \/ Queued(Final)' => venue' = Whole
  BY <1>2, <1>6, <1>7, <1>8 DEF KnownInv
<1>11. ASSUME ~missed' PROVE ~missed /\ \A k \in 1..n : queue[k] \in seen'
  <2>1. CASE Fresh(b) = {} \/ Clashes(b)
    <3>1. ~missed /\ Fresh(b) = {} /\ seen' = seen
      BY <1>1, <1>11, <2>1 DEF b
    <3>. QED BY <1>4, <3>1 DEF Fresh
  <2>2. CASE ~(Fresh(b) = {} \/ Clashes(b))
    <3>1. ~missed /\ seen' = seen \cup {b[k] : k \in Fresh(b)}
      BY <1>1, <1>11, <2>2 DEF b
    <3>. QED BY <1>4, <3>1 DEF Fresh
  <2>. QED BY <2>1, <2>2
<1>12. ASSUME ~missed' PROVE Final \in seen' => order' = Whole
  <2>. SUFFICES ASSUME Final \in seen' PROVE order' = Whole
    OBVIOUS
  <2>1. CASE Fresh(b) = {} \/ Clashes(b)
    <3>1. order' = order /\ seen' = seen
      BY <1>1, <2>1 DEF b
    <3>. QED BY <1>11, <1>12, <3>1 DEF KnownInv
  <2>2. CASE ~(Fresh(b) = {} \/ Clashes(b))
    <3>1. order' = Projected(b) /\ seen' = seen \cup {b[k] : k \in Fresh(b)}
      BY <1>1, <2>2 DEF b
    <3>2. Final \in seen \/ \E k \in 1..n : queue[k] = Final
      BY <1>4, <3>1 DEF Fresh
    <3>. QED BY <1>11, <1>12, <2>2, <3>1, <3>2, FinalIsShown DEF b
  <2>. QED BY <2>1, <2>2
<1>13. ASSUME ~missed', venue'.status = "FILLED" PROVE Final \in seen' \/ Queued(Final)'
  <2>1. Final \in seen \/ Queued(Final)
    BY <1>2, <1>11, <1>13 DEF KnownInv
  <2>2. ASSUME NEW k \in 1..Len(queue), queue[k] = Final PROVE Final \in seen' \/ Queued(Final)'
    BY <1>5, <1>6, <1>11, <1>13, <2>2 DEF Queued
  <2>. QED BY <1>7, <2>1, <2>2 DEF Queued
<1>14. ASSUME ~missed' PROVE Repeated'
  <2>. SUFFICES ASSUME NEW j \in 1..Len(queue'), queue'[j].type = "ORDER", queue'[j] # Final, Final \in seen' \/ Earlier(Final, j)'
                PROVE  queue'[j] \in seen' \/ Earlier(queue[j], j)'
    BY <1>6 DEF Repeated, Earlier
  <2>. DEFINE J == n + j
  <2>1. J \in 1..Len(queue) /\ queue'[j] = queue[J] /\ j \in Nat
    BY <1>3
  <2>2. \A i \in 1..n : i < J
    BY <1>3, <2>1
  <2>3. Final \in seen \/ Earlier(Final, J)
    <3>1. CASE Final \in seen'
      <4>1. Final \in seen \/ \E k \in 1..n : queue[k] = Final
        <5>1. CASE seen' = seen
          BY <3>1, <5>1
        <5>2. CASE seen' = seen \cup {b[k] : k \in Fresh(b)}
          BY <1>4, <3>1, <5>2 DEF Fresh
        <5>. QED BY <1>1, <5>1, <5>2 DEF b
      <4>. HIDE DEF J
      <4>. QED BY <1>4, <2>2, <4>1 DEF Earlier
    <3>2. CASE Earlier(Final, j)'
      <4>1. PICK i \in 1..Len(queue') : i < j /\ queue'[i] = Final
        BY <1>6, <3>2 DEF Earlier
      <4>2. n + i \in 1..Len(queue) /\ queue[n + i] = Final /\ n + i < J
        BY <1>3, <2>1, <4>1
      <4>. HIDE DEF J
      <4>. QED BY <4>2 DEF Earlier
    <3>. QED BY <3>1, <3>2
  <2>4. queue[J] \in seen \/ Earlier(queue[J], J)
    <3>. HIDE DEF J
    <3>. QED BY <1>11, <1>14, <2>1, <2>3 DEF KnownInv, Repeated
  <2>5. ASSUME NEW i \in 1..Len(queue), i < J, queue[i] = queue[J] PROVE queue'[j] \in seen' \/ Earlier(queue[j], j)'
    <3>1. CASE i \in 1..n
      BY <1>11, <1>14, <2>1, <2>5, <3>1
    <3>2. CASE i \notin 1..n
      <4>1. i - n \in 1..Len(queue') /\ queue'[i - n] = queue[i]
        BY <1>5, <3>2
      <4>2. i - n < j
        BY <1>3, <2>1, <2>5
      <4>. HIDE DEF J
      <4>. QED BY <2>1, <2>5, <4>1, <4>2 DEF Earlier
    <3>. QED BY <3>1, <3>2
  <2>. HIDE DEF J
  <2>. QED BY <1>7, <2>1, <2>4, <2>5 DEF Earlier
<1>15. missed' \in BOOLEAN
  BY <1>1 DEF IInv, TypeOK
<1>. QED BY <1>6, <1>9, <1>10, <1>12, <1>13, <1>14, <1>15 DEF KnownInv

(* No step of the venue, its stream or a writer disturbs what is known of  *)
(* a filled order.                                                         *)
LEMMA KnownStep == EventsAssumption /\ IInv /\ KnownInv /\ [Next]_vars => KnownInv'
<1>. SUFFICES ASSUME EventsAssumption, IInv, KnownInv, [Next]_vars PROVE KnownInv'
  OBVIOUS
<1>1. CASE UNCHANGED vars
  BY <1>1 DEF vars, KnownInv, Unplaced, Repeated, Queued, Earlier, Final, Whole, OrderEvent
<1>2. CASE Next
  BY <1>2, KnownVenue, KnownAnswers, KnownDrop, KnownRepeat, KnownBatch DEF Next
<1>. QED BY <1>1, <1>2

(* An order that is filled is known as filled once the queue is empty and  *)
(* nothing was missed.                                                     *)
LEMMA KnownMeans == ASSUME KnownInv PROVE FilledIsKnown
BY DEF KnownInv, FilledIsKnown, Drained, Queued, Whole

(* An order the venue has wholly filled shows its whole quantity once      *)
(* every report is projected and none was lost (venue_events.py), however  *)
(* the reports were ordered, repeated and cut into batches.                *)
THEOREM FilledOrdersAreKnown == EventsAssumption => (Spec => []FilledIsKnown)
<1>. SUFFICES ASSUME EventsAssumption PROVE Spec => []FilledIsKnown
  OBVIOUS
<1>1. Init => IInv /\ KnownInv
  BY InitHolds, KnownInit
<1>2. IInv /\ KnownInv /\ [Next]_vars => IInv' /\ KnownInv'
  BY StepKeeps, KnownStep
<1>3. KnownInv => FilledIsKnown
  BY KnownMeans
<1>. QED BY <1>1, <1>2, <1>3, PTL DEF Spec

-----------------------------------------------------------------------------
(***************************************************************************)
(* HedgeGroups.                                                            *)
(***************************************************************************)
(* The last intent accepted, and those before it.                          *)
Newest(i) == Groups!Exists(i) /\ \A j \in Groups!Intents : Groups!Exists(j) => j <= i
Past(i)   == \E j \in Groups!Intents : i < j /\ Groups!Exists(j)

(* A leg that nothing was sent for: order o, venue v, ledger k, told t.    *)
Untouched(o, v, k, t, owes) ==
  o = Groups!NoOrder /\ v = Groups!NoOrder /\ k = 0 /\ t = 0 /\ ~ owes

(* What a venue has of an order of quantity p.                             *)
AtVenueIs(p, v) ==
  /\ v.status \in {"NONE", "ACCEPTED", "FILLED", "CANCELED"}
  /\ v.status \in {"NONE", "ACCEPTED"} => v.filled = 0
  /\ v.status = "FILLED" => v.filled = p
  /\ v.status = "CANCELED" => v.filled < p

(* The rows of a leg of status g say no more than its venue: an order that *)
(* works at the venue waits in its row, unless a void closed the row; and  *)
(* so does one whose acceptance is still to be reported, unless it is      *)
(* being sent.                                                             *)
RowIs(p, o, v, k, t, g, owes, free) ==
  /\ AtVenueIs(p, v)
  /\ p = 0 => o.status = "NONE" /\ g = "PLANNED"
  /\ o.status = "NONE" => Untouched(o, v, k, t, owes) /\ g \in {"PLANNED", "CANCELED"}
  /\ o.filled <= v.filled /\ t <= v.filled
  /\ o.filled = 0 => k = 0
  /\ owes => v.status # "NONE"
  /\ v.status = "ACCEPTED" => \/ o.status \in {"INITIALIZED", "ACCEPTED", "UNKNOWN"}
                              \/ o.status = "CANCELED" /\ g = "CANCELED"
  /\ owes /\ v.status = "ACCEPTED" /\ free => o.status \in {"ACCEPTED", "UNKNOWN"}
  /\ g = "PLANNED" => o.status \in {"NONE", "INITIALIZED"} /\ o.filled = 0
  /\ g = "SUBMITTED" => o.status = "ACCEPTED"
  /\ g = "UNKNOWN" => o.status = "UNKNOWN"
  /\ g = "FILLED" => v.status = "FILLED" /\ o.filled > 0
  /\ g = "PARTIALLY_FILLED" => o.filled > 0
  /\ g = "FAILED" => v.status \in {"NONE", "CANCELED"} /\ o.status \in {"CANCELED", "REJECTED"}

LegIs(l) ==
  RowIs(plan[l], placed[l], exchange[l], booked[l], told[l], leg[l], l \in owed, working # l[1])

(* What holds of 0, and of n + 1 whenever of n, holds of every number.     *)
LEMMA Induction ==
  ASSUME NEW S, 0 \in S, \A n \in Nat : n \in S => n + 1 \in S
  PROVE  \A n \in Nat : n \in S
<1>. DEFINE T == Nat \ S
<1>. SUFFICES ASSUME T # {} PROVE FALSE
  OBVIOUS
<1>1. \E x \in T : \A y \in T : <<y, x>> \notin OpToRel(<, Nat)
  BY WFMin, NatLessThanWellFounded, Zenon
<1>2. PICK x \in T : \A y \in T : ~ (y < x)
  BY <1>1 DEF OpToRel
<1>3. x - 1 \in Nat /\ x - 1 \notin T
  BY <1>2
<1>. QED BY <1>2, <1>3

(* The quantity a leg adds to the sum over kinds, and the sum of the first *)
(* intents.                                                                *)
Share(f, v, kinds, n) == IF intent[n].kind \in kinds THEN f[<<n, v>>] ELSE 0
IsSum(g, f, v, kinds, m) ==
  g = [n \in 0..m |-> IF n = 0 THEN 0 ELSE g[n - 1] + Share(f, v, kinds, n)]
UpTo(f, v, kinds) == CHOOSE g : IsSum(g, f, v, kinds, MaxIntents)

(* Such a sum exists, however many intents there are.                      *)
LEMMA SumExists ==
  ASSUME NEW f, NEW v, NEW kinds
  PROVE  \A m \in Nat : \E g : IsSum(g, f, v, kinds, m)
<1>. DEFINE S == {m \in Nat : \E g : IsSum(g, f, v, kinds, m)}
<1>1. 0 \in S
  <2>1. IsSum([n \in 0..0 |-> 0], f, v, kinds, 0)
    BY DEF IsSum
  <2>. QED BY <2>1
<1>2. ASSUME NEW m \in Nat, m \in S PROVE m + 1 \in S
  <2>1. PICK g : IsSum(g, f, v, kinds, m)
    BY <1>2
  <2>. DEFINE h == [n \in 0..(m + 1) |->
                      IF n = m + 1 THEN g[m] + Share(f, v, kinds, m + 1) ELSE g[n]]
  <2>2. \A n \in 0..m : h[n] = g[n]
    OBVIOUS
  <2>3. \A n \in 0..m : g[n] = IF n = 0 THEN 0 ELSE g[n - 1] + Share(f, v, kinds, n)
    BY <2>1, Zenon DEF IsSum
  <2>4. \A n \in 0..(m + 1) : h[n] = IF n = 0 THEN 0 ELSE h[n - 1] + Share(f, v, kinds, n)
    <3>. TAKE n \in 0..(m + 1)
    <3>1. CASE n = m + 1
      BY <3>1, <2>2
    <3>2. CASE n \in 0..m
      BY <3>2, <2>2, <2>3
    <3>. QED BY <3>1, <3>2
  <2>5. h = [n \in 0..(m + 1) |-> IF n = 0 THEN 0 ELSE h[n - 1] + Share(f, v, kinds, n)]
    BY <2>4
  <2>6. IsSum(h, f, v, kinds, m + 1)
    BY <2>5 DEF IsSum
  <2>. QED BY <2>6
<1>3. \A n \in Nat : n \in S
  BY <1>1, <1>2, Induction
<1>. QED BY <1>3

(* Quantities add up to a quantity, and nothings to nothing.               *)
LEMMA SumOfLegs ==
  ASSUME Groups!GroupsAssumption, NEW f \in [Groups!Legs -> Nat], NEW v \in Venues, NEW kinds
  PROVE  /\ Groups!Sum(f, v, kinds) \in Nat
         /\ (\A l \in Groups!Legs : f[l] = 0) => Groups!Sum(f, v, kinds) = 0
<1>. DEFINE g == UpTo(f, v, kinds)
<1>0. MaxIntents \in Nat
  BY DEF Groups!GroupsAssumption
<1>1. IsSum(g, f, v, kinds, MaxIntents)
  BY <1>0, SumExists DEF UpTo
<1>2. Groups!Sum(f, v, kinds) = g[MaxIntents]
  BY DEF Groups!Sum, UpTo, IsSum, Share
<1>. HIDE DEF g
<1>3. \A n \in 0..MaxIntents : g[n] = IF n = 0 THEN 0 ELSE g[n - 1] + Share(f, v, kinds, n)
  BY <1>1, Zenon DEF IsSum
<1>4. g[0] = 0 /\ \A n \in Nat : n + 1 <= MaxIntents => g[n + 1] = g[n] + Share(f, v, kinds, n + 1)
  BY <1>0, <1>3
<1>5. \A n \in Nat : n + 1 <= MaxIntents => <<n + 1, v>> \in Groups!Legs
  BY <1>0 DEF Groups!Legs, Groups!Intents
<1>6. g[MaxIntents] \in Nat
  <2>. DEFINE S == {m \in Nat : m <= MaxIntents => g[m] \in Nat}
  <2>1. \A n \in Nat : n + 1 <= MaxIntents => Share(f, v, kinds, n + 1) \in Nat
    BY <1>5 DEF Share
  <2>2. 0 \in S /\ \A n \in Nat : n \in S => n + 1 \in S
    BY <1>0, <1>4, <2>1
  <2>3. \A n \in Nat : n \in S
    <3>. HIDE DEF S
    <3>. QED BY <2>2, Induction
  <2>. QED BY <1>0, <2>3
<1>7. ASSUME \A l \in Groups!Legs : f[l] = 0 PROVE g[MaxIntents] = 0
  <2>. DEFINE S == {m \in Nat : m <= MaxIntents => g[m] = 0}
  <2>1. \A n \in Nat : n + 1 <= MaxIntents => Share(f, v, kinds, n + 1) = 0
    BY <1>5, <1>7 DEF Share
  <2>2. 0 \in S /\ \A n \in Nat : n \in S => n + 1 \in S
    BY <1>0, <1>4, <2>1
  <2>3. \A n \in Nat : n \in S
    <3>. HIDE DEF S
    <3>. QED BY <2>2, Induction
  <2>. QED BY <1>0, <2>3
<1>. QED BY <1>2, <1>6, <1>7

(* A group is exposed only if something was filled.                        *)
LEMMA ExposureIsFilled ==
  ASSUME Groups!GroupsAssumption, booked \in [Groups!Legs -> Nat]
  PROVE  /\ \A v \in Venues : Groups!Residual(v) \in Nat
         /\ Groups!HasExposure => \E l \in Groups!Legs : booked[l] > 0
<1>1. \A v \in Venues : /\ Groups!Opened(booked, v) \in Nat /\ Groups!Closed(booked, v) \in Nat
                        /\ (\A l \in Groups!Legs : booked[l] = 0) => Groups!Opened(booked, v) = 0
  BY SumOfLegs DEF Groups!Opened, Groups!Closed
<1>2. \A v \in Venues : /\ Groups!Residual(v) \in Nat
                        /\ (\A l \in Groups!Legs : booked[l] = 0) => Groups!Residual(v) = 0
  BY <1>1 DEF Groups!Residual, Groups!Larger
<1>3. \A l \in Groups!Legs : booked[l] > 0 \/ booked[l] = 0
  OBVIOUS
<1>. QED BY <1>2, <1>3 DEF Groups!HasExposure

(* A report r of an order tells the truth of its venue v.                  *)
ReportIsTrue(r, v, owes) ==
  /\ r.status \in {"ACCEPTED", "FILLED", "CANCELED", "REJECTED"}
  /\ r.status = "ACCEPTED" => v.status # "NONE" /\ r.filled = 0
  /\ r.status \in {"FILLED", "CANCELED"} => r = v
  /\ r.status = "REJECTED" => v = Groups!NoOrder /\ ~ owes /\ r.filled = 0

(* A report that is true leaves the rows of a leg true.                    *)
LEMMA GatewayRow ==
  ASSUME NEW p \in Nat \ {0}, NEW o \in Groups!OrderRow, NEW r \in Groups!OrderRow,
         NEW v \in Groups!OrderRow, NEW k \in Nat, NEW t \in Nat,
         NEW g, NEW owes, NEW free,
         RowIs(p, o, v, k, t, g, owes, free), ReportIsTrue(r, v, owes)
  PROVE  LET oo == Groups!GatewayOrder(o, r, p)
             gg == Groups!GatewayLeg(o, r, p)
         IN /\ oo \in Groups!OrderRow
            /\ gg \in {"SUBMITTED", "PARTIALLY_FILLED", "FILLED", "FAILED"}
            /\ Groups!Larger(k, oo.filled) \in Nat /\ Groups!Larger(k, oo.filled) >= k
            /\ \A after \in BOOLEAN : RowIs(p, oo, v, Groups!Larger(k, oo.filled), t, gg, owes, after)
<1>. DEFINE f == Groups!Larger(o.filled, r.filled)
            whole == r.status = "FILLED" \/ f >= p
            oo == Groups!GatewayOrder(o, r, p)
            gg == Groups!GatewayLeg(o, r, p)
            kk == Groups!Larger(k, oo.filled)
<1>1. /\ o.filled \in Nat /\ r.filled \in Nat /\ v.filled \in Nat
      /\ o.status \in Groups!OrderStatus /\ r.status \in Groups!OrderStatus
  BY DEF Groups!OrderRow
<1>2. /\ f \in Nat /\ f >= o.filled /\ f >= r.filled /\ (f = o.filled \/ f = r.filled)
  BY <1>1 DEF Groups!Larger
<1>3. /\ oo = [status |-> IF whole THEN "FILLED" ELSE r.status, filled |-> f]
      /\ gg = IF whole THEN "FILLED" ELSE IF r.status \in {"REJECTED", "CANCELED"} THEN "FAILED"
              ELSE IF f > 0 THEN "PARTIALLY_FILLED" ELSE "SUBMITTED"
  BY DEF Groups!GatewayOrder, Groups!GatewayLeg, Groups!FailureOrderStatuses
<1>4. kk \in Nat /\ kk >= k /\ (kk = k \/ kk = f)
  BY <1>2, <1>3 DEF Groups!Larger
<1>5. oo \in Groups!OrderRow
  BY <1>1, <1>2, <1>3 DEF Groups!OrderRow, Groups!OrderStatus, Groups!VenueStatus
<1>6. f <= v.filled
  BY <1>1, <1>2 DEF RowIs, ReportIsTrue, Groups!NoOrder, AtVenueIs
<1>7. whole => v.status = "FILLED"
  BY <1>1, <1>2, <1>6 DEF RowIs, ReportIsTrue, AtVenueIs
<1>8. ASSUME NEW after \in BOOLEAN PROVE RowIs(p, oo, v, kk, t, gg, owes, after)
  <2>. HIDE DEF f
  <2>1. oo.filled = f /\ oo.status = IF whole THEN "FILLED" ELSE r.status
    BY <1>3
  <2>2. f = 0 => o.filled = 0 /\ kk = 0
    BY <1>1, <1>2, <1>4 DEF RowIs
  <2>3. ~ whole /\ r.status = "CANCELED" => v.status = "CANCELED"
    BY DEF ReportIsTrue
  <2>4. whole => f > 0
    BY <1>1, <1>2, <1>7 DEF ReportIsTrue, RowIs, AtVenueIs
  <2>. HIDE DEF kk, oo, gg
  <2>. QED BY <1>1, <1>2, <1>3, <1>6, <1>7, <2>1, <2>2, <2>3, <2>4 DEF RowIs, ReportIsTrue, AtVenueIs, Groups!NoOrder
<1>9. gg \in {"SUBMITTED", "PARTIALLY_FILLED", "FILLED", "FAILED"}
  BY <1>3
<1>. QED BY <1>4, <1>5, <1>8, <1>9

(* So does the event of a stream, with the fills that it has not told yet. *)
LEMMA EventRow ==
  ASSUME NEW p \in Nat \ {0}, NEW o \in Groups!OrderRow, NEW v \in Groups!OrderRow,
         NEW k \in Nat, NEW t \in Nat, NEW g, NEW owes, NEW free, v.status # "NONE",
         RowIs(p, o, v, k, t, g, owes, free),
         NEW kk \in Nat, NEW tt \in Nat, v.filled = 0 => kk = 0, tt <= v.filled
  PROVE  LET sure == [status |-> o.status, filled |-> Groups!Larger(o.filled, tt)]
             oo == Groups!EventOrder(sure, v)
             gg == Groups!EventLeg(sure, v)
         IN /\ oo = v
            /\ gg \in {"SUBMITTED", "PARTIALLY_FILLED", "FILLED", "FAILED"}
            /\ v.status # "ACCEPTED" => gg # "SUBMITTED"
            /\ gg = "FAILED" => kk = 0
            /\ \A owing, after \in BOOLEAN : RowIs(p, oo, v, kk, tt, gg, owing, after)
<1>. DEFINE sure == [status |-> o.status, filled |-> Groups!Larger(o.filled, tt)]
            oo == Groups!EventOrder(sure, v)
            gg == Groups!EventLeg(sure, v)
<1>1. /\ o.filled \in Nat /\ v.filled \in Nat
      /\ v.status \in {"ACCEPTED", "FILLED", "CANCELED"} /\ AtVenueIs(p, v)
      /\ o.filled <= v.filled
  BY DEF Groups!OrderRow, RowIs, AtVenueIs
<1>2. sure.filled \in Nat /\ sure.filled <= v.filled
  BY <1>1 DEF Groups!Larger
<1>3. Groups!Larger(sure.filled, v.filled) = v.filled
  BY <1>1, <1>2 DEF Groups!Larger
<1>. HIDE DEF sure
<1>4. oo = v
  BY <1>3 DEF Groups!EventOrder, Groups!OrderRow
<1>5. gg = IF v.status = "FILLED" THEN "FILLED"
           ELSE IF v.status = "CANCELED" THEN IF v.filled > 0 THEN "PARTIALLY_FILLED" ELSE "FAILED"
           ELSE IF v.filled > 0 THEN "PARTIALLY_FILLED" ELSE "SUBMITTED"
  BY <1>1, <1>3 DEF Groups!EventLeg, Groups!FailureOrderStatuses
<1>. HIDE DEF oo, gg
<1>6. ASSUME NEW owing \in BOOLEAN, NEW after \in BOOLEAN
      PROVE  RowIs(p, oo, v, kk, tt, gg, owing, after)
  BY <1>1, <1>4, <1>5 DEF RowIs, AtVenueIs
<1>7. /\ gg \in {"SUBMITTED", "PARTIALLY_FILLED", "FILLED", "FAILED"}
      /\ v.status # "ACCEPTED" => gg # "SUBMITTED"
      /\ gg = "FAILED" => kk = 0
  BY <1>1, <1>5 DEF AtVenueIs
<1>. QED BY <1>4, <1>6, <1>7 DEF sure, oo, gg

-----------------------------------------------------------------------------
(* A void closes the rows of legs for which nothing is known to be filled, *)
(* though the orders of a call that was lost may work at their venues.  As *)
(* long as one is closed that way, the other leg has no fill on record     *)
(* that a command could rest on.                                           *)
VoidCloses(l) ==
  leg[l] = "CANCELED" =>
    /\ l[1] = 1 /\ Newest(1)
    /\ intent[1].status \in {"VOIDED", "RUNNING", "FAILED"}
    /\ outbox[1] \in {"CANCELED", "SENT", "FAILED"}
    /\ placed[l].filled = 0 /\ placed[l].status \in {"NONE", "INITIALIZED", "CANCELED"}
    /\ \A m \in Groups!LegsOf(1) : leg[m] # "CANCELED" =>
          /\ placed[m].status \in {"FILLED", "CANCELED", "REJECTED"}
          /\ leg[m] \in {"FILLED", "FAILED", "PARTIALLY_FILLED"}
          /\ leg[m] = "FAILED" => booked[m] = 0

(* Intents are numbered in the order they come; the first one opens.       *)
InSequence ==
  /\ \A i, j \in Groups!Intents : i < j /\ Groups!Exists(j) => Groups!Exists(i)
  /\ group = "absent" <=> ~ Groups!Exists(1)
  /\ group # "open_partial"
  /\ \A i \in Groups!Intents :
        /\ intent[i].prev # "open_partial"
        /\ Groups!Exists(i) => /\ intent[i].kind # "NONE" /\ (intent[i].kind = "OPEN" <=> i = 1)
                               /\ \E v \in Venues : plan[<<i, v>>] > 0
        /\ ~ Groups!Exists(i) => outbox[i] = "ABSENT" /\ \A v \in Venues : plan[<<i, v>>] = 0
  /\ Groups!Exists(1) => \A v \in Venues : plan[<<1, v>>] > 0

(* Nothing of an earlier intent can move any more, and something of the    *)
(* group was filled before there was a second.                             *)
PastIs(i) ==
  Past(i) =>
    /\ intent[i].status \in {"COMPLETED", "FAILED", "SUPERSEDED"}
    /\ outbox[i] \in {"SENT", "FAILED"}
    /\ working # i
    /\ \A l \in Groups!LegsOf(i) : l \notin owed /\ exchange[l].status # "ACCEPTED"
    /\ \E l \in Groups!Legs : booked[l] > 0

(* The group shows what an intent came to, unless it is void.              *)
Busy(i) == IF intent[i].kind = "OPEN" THEN "opening" ELSE "closing"
GroupShows(i) ==
  /\ intent[i].status \in {"CREATED", "RUNNING"} => group \in {Busy(i), "voided"}
  /\ intent[i].status = "RECOVERY_REQUIRED" => group \in {Busy(i), "manual_intervention", "voided"}
  /\ intent[i].status = "COMPLETED" =>
        group \in {IF intent[i].kind = "OPEN" THEN "open" ELSE "closed", "voided"}
  /\ intent[i].status = "FAILED" =>
        group \in {IF intent[i].kind = "OPEN" THEN "failed" ELSE "open", "manual_intervention", "voided"}
  /\ intent[i].status = "VOIDED" => group = "voided"
  /\ intent[i].status # "SUPERSEDED"

Unsent(l) == Untouched(placed[l], exchange[l], booked[l], told[l], l \in owed)

(* What the rows of the newest intent say of its legs.                     *)
RowsTell(i) ==
  /\ intent[i].status = "COMPLETED" => \A l \in Groups!LegsOf(i) : leg[l] = "FILLED"
  /\ intent[i].status = "FAILED" =>
        /\ \A l \in Groups!LegsOf(i) : leg[l] \in {"FILLED", "FAILED", "CANCELED"}
        /\ \E l \in Groups!LegsOf(i) : leg[l] = "FAILED"
  /\ outbox[i] # "ABSENT"
  /\ outbox[i] = "SENT" => \E l \in Groups!LegsOf(i) : leg[l] \notin {"PLANNED", "CANCELED"}
  /\ outbox[i] = "PENDING" => /\ working # i /\ intent[i].status = "CREATED"
                              /\ \A l \in Groups!LegsOf(i) : Unsent(l)

NewestIs(i) ==
  Newest(i) =>
    /\ GroupShows(i) /\ RowsTell(i)
    /\ outbox[i] \in {"PENDING", "PROCESSING"} => group \in {Busy(i), "voided"}
    /\ outbox[i] = "CANCELED" => group = "voided"

(* What the worker has heard of a call.                                    *)
AnswerIs(l) ==
  /\ answer[l].status \in {"NONE", "REJECTED", "UNKNOWN", "ACCEPTED", "FILLED", "CANCELED"}
  /\ answer[l].status = "NONE" => exchange[l] = Groups!NoOrder /\ l \notin owed
  /\ answer[l].status \in {"ACCEPTED", "FILLED", "CANCELED", "REJECTED"} =>
        ReportIsTrue(answer[l], exchange[l], l \in owed)

(* The worker has the newest intent, whose legs are as they were before    *)
(* the calls, or closed by a void.                                         *)
InHand(i) ==
  /\ Newest(i)
  /\ outbox[i] \in {"PROCESSING", "CANCELED"}
  /\ \A l, m \in Groups!LegsOf(i) : leg[l] = "CANCELED" => leg[m] = "CANCELED"
  /\ \A l \in Groups!LegsOf(i) : leg[l] \in {"PLANNED", "CANCELED"}
WorkerHas ==
  /\ phase = "idle" <=> working = 0
  /\ phase # "sent" => answer = [l \in Groups!Legs |-> Groups!NoOrder]
  /\ phase # "idle" => InHand(working)
  /\ phase = "read" => /\ intent[working].status \in {"CREATED", "VOIDED"}
                       /\ \A l \in Groups!LegsOf(working) : Unsent(l)
  /\ phase = "sent" =>
        /\ intent[working].status \in {"RUNNING", "VOIDED"}
        /\ \A l \in Groups!LegsOf(working) :
              /\ placed[l].filled = 0 /\ AnswerIs(l)
              /\ \/ placed[l].status = "INITIALIZED"
                 \/ placed[l].status = "CANCELED" /\ leg[l] = "CANCELED"

GroupInv ==
  /\ Groups!TypeOK /\ InSequence /\ WorkerHas
  /\ \A l \in Groups!Legs : LegIs(l) /\ VoidCloses(l)
  /\ \A i \in Groups!Intents : PastIs(i) /\ NewestIs(i)

LEMMA GroupInit ==
  ASSUME Groups!GroupsAssumption, Groups!Init
  PROVE  GroupInv
<1>1. MaxIntents \in Nat \ {0} /\ MaxCrashes \in Nat /\ 1 \in Groups!Intents
  BY DEF Groups!GroupsAssumption, Groups!Intents
<1>2. Groups!NoOrder \in Groups!OrderRow /\ Groups!NoIntent \in Groups!IntentRow
  BY DEF Groups!NoOrder, Groups!OrderRow, Groups!OrderStatus, Groups!VenueStatus, Groups!NoIntent,
         Groups!IntentRow, Groups!IntentKind, Groups!IntentStatus, Groups!GroupStatus
<1>3. Groups!TypeOK
  BY <1>1, <1>2 DEF Groups!Init, Groups!TypeOK, Groups!OutboxStatus, Groups!LegStatus, Groups!GroupStatus
<1>4. \A i \in Groups!Intents : ~ Groups!Exists(i) /\ intent[i].prev = "absent"
  BY DEF Groups!Init, Groups!Exists, Groups!NoIntent
<1>5. InSequence
  BY <1>1, <1>4 DEF Groups!Init, InSequence, Groups!Legs
<1>6. WorkerHas
  BY DEF Groups!Init, WorkerHas
<1>7. \A l \in Groups!Legs : LegIs(l) /\ VoidCloses(l)
  BY DEF Groups!Init, LegIs, RowIs, AtVenueIs, Untouched, VoidCloses, Groups!NoOrder
<1>8. \A i \in Groups!Intents : PastIs(i) /\ NewestIs(i)
  BY <1>4 DEF PastIs, NewestIs, Past, Newest
<1>. QED BY <1>3, <1>5, <1>6, <1>7, <1>8 DEF GroupInv

(* Where a leg is, and whose.                                              *)
LEMMA GroupFacts ==
  ASSUME Groups!GroupsAssumption, GroupInv
  PROVE  /\ Groups!Intents \subseteq Nat \ {0} /\ 1 \in Groups!Intents
         /\ \A i, j \in Groups!Intents : Newest(i) /\ Newest(j) => i = j
         /\ \A i \in Groups!Intents : Groups!Exists(i) => Newest(i) \/ Past(i)
         /\ \A i \in Groups!Intents : ~ (Newest(i) /\ Past(i))
         /\ \A l \in Groups!Legs :
               /\ l[1] \in Groups!Intents /\ l[2] \in Venues /\ l = <<l[1], l[2]>>
               /\ plan[l] \in Nat /\ booked[l] \in Nat /\ told[l] \in Nat
               /\ leg[l] \in Groups!LegStatus
               /\ placed[l] \in Groups!OrderRow /\ exchange[l] \in Groups!OrderRow /\ answer[l] \in Groups!OrderRow
               /\ plan[l] > 0 => Groups!Exists(l[1]) /\ l \in Groups!LegsOf(l[1])
               /\ plan[l] = 0 => l \notin owed /\ exchange[l].status = "NONE"
               /\ l \in owed => Newest(l[1]) /\ plan[l] > 0
               /\ exchange[l].status = "ACCEPTED" => Newest(l[1]) /\ plan[l] > 0
<1>1. Groups!Intents \subseteq Nat \ {0} /\ 1 \in Groups!Intents
  BY DEF Groups!GroupsAssumption, Groups!Intents
<1>2. /\ \A i, j \in Groups!Intents : Newest(i) /\ Newest(j) => i = j
      /\ \A i \in Groups!Intents : Groups!Exists(i) => Newest(i) \/ Past(i)
      /\ \A i \in Groups!Intents : ~ (Newest(i) /\ Past(i))
  BY <1>1 DEF Newest, Past
<1>3. ASSUME NEW l \in Groups!Legs
      PROVE  /\ l[1] \in Groups!Intents /\ l[2] \in Venues /\ l = <<l[1], l[2]>>
             /\ plan[l] \in Nat /\ booked[l] \in Nat /\ told[l] \in Nat
             /\ leg[l] \in Groups!LegStatus
             /\ placed[l] \in Groups!OrderRow /\ exchange[l] \in Groups!OrderRow /\ answer[l] \in Groups!OrderRow
             /\ plan[l] > 0 => Groups!Exists(l[1]) /\ l \in Groups!LegsOf(l[1])
             /\ plan[l] = 0 => l \notin owed /\ exchange[l].status = "NONE"
  <2>1. l[1] \in Groups!Intents /\ l[2] \in Venues /\ l = <<l[1], l[2]>>
    BY DEF Groups!Legs
  <2>2. /\ plan[l] \in Nat /\ booked[l] \in Nat /\ told[l] \in Nat
        /\ leg[l] \in Groups!LegStatus
        /\ placed[l] \in Groups!OrderRow /\ exchange[l] \in Groups!OrderRow /\ answer[l] \in Groups!OrderRow
    BY DEF GroupInv, Groups!TypeOK
  <2>3. plan[l] > 0 => Groups!Exists(l[1])
    BY <2>1, <2>2 DEF GroupInv, InSequence
  <2>4. plan[l] > 0 => l \in Groups!LegsOf(l[1])
    BY DEF Groups!LegsOf
  <2>5. plan[l] = 0 => l \notin owed /\ exchange[l].status = "NONE"
    BY DEF GroupInv, LegIs, RowIs, Untouched, Groups!NoOrder
  <2>. QED BY <2>1, <2>2, <2>3, <2>4, <2>5
<1>4. ASSUME NEW l \in Groups!Legs, l \in owed \/ exchange[l].status = "ACCEPTED"
      PROVE  Newest(l[1]) /\ plan[l] > 0
  <2>1. plan[l] > 0
    BY <1>3, <1>4
  <2>2. Groups!Exists(l[1]) /\ l \in Groups!LegsOf(l[1]) /\ l[1] \in Groups!Intents
    BY <1>3, <2>1
  <2>3. ~ Past(l[1])
    BY <1>4, <2>2 DEF GroupInv, PastIs
  <2>. QED BY <1>2, <2>1, <2>2, <2>3
<1>. QED BY <1>1, <1>2, <1>3, <1>4

(* The steps that touch the rows of one intent, the newest, keep what is   *)
(* known of all the others.                                                *)
RestIsSame(i) ==
  /\ plan' = plan /\ group' \notin {"absent", "open_partial"}
  /\ \A j \in Groups!Intents : j # i => intent'[j] = intent[j] /\ outbox'[j] = outbox[j]
  /\ intent'[i].kind = intent[i].kind /\ intent'[i].prev = intent[i].prev
  /\ intent'[i].status # "ABSENT"
  /\ \A l \in Groups!Legs : l \notin Groups!LegsOf(i) =>
        /\ placed'[l] = placed[l] /\ exchange'[l] = exchange[l] /\ booked'[l] = booked[l] /\ told'[l] = told[l]
        /\ leg'[l] = leg[l] /\ (l \in owed' => l \in owed)
  /\ \A l \in Groups!LegsOf(i) : booked'[l] >= booked[l]
  /\ working' \in {0, i}

LEMMA NewestStays ==
  ASSUME Groups!GroupsAssumption, GroupInv, NEW i \in Groups!Intents, Newest(i), RestIsSame(i)
  PROVE  /\ \A j \in Groups!Intents : (Groups!Exists(j)' <=> Groups!Exists(j))
                                    /\ (Newest(j)' <=> Newest(j)) /\ (Past(j)' <=> Past(j))
         /\ \A j \in Groups!Intents : Groups!LegsOf(j)' = Groups!LegsOf(j)
         /\ \A j \in Groups!Intents : Newest(j) => j = i
         /\ Busy(i)' = Busy(i)
<1>1. \A j \in Groups!Intents : Groups!Exists(j)' <=> Groups!Exists(j)
  BY DEF RestIsSame, Groups!Exists, Newest
<1>2. \A j \in Groups!Intents : (Newest(j)' <=> Newest(j)) /\ (Past(j)' <=> Past(j))
  BY <1>1 DEF Newest, Past
<1>3. \A j \in Groups!Intents : Groups!LegsOf(j)' = Groups!LegsOf(j)
  BY DEF RestIsSame, Groups!LegsOf
<1>4. Busy(i)' = Busy(i)
  BY DEF RestIsSame, Busy
<1>. QED BY <1>1, <1>2, <1>3, <1>4, GroupFacts

LEMMA RestKeeps ==
  ASSUME Groups!GroupsAssumption, GroupInv, NEW i \in Groups!Intents, Newest(i), RestIsSame(i),
         Groups!TypeOK', WorkerHas', NewestIs(i)',
         \A l \in Groups!LegsOf(i) : LegIs(l)' /\ VoidCloses(l)'
  PROVE  GroupInv'
<1>0. /\ \A j \in Groups!Intents : (Groups!Exists(j)' <=> Groups!Exists(j))
                                 /\ (Newest(j)' <=> Newest(j)) /\ (Past(j)' <=> Past(j))
      /\ \A j \in Groups!Intents : Groups!LegsOf(j)' = Groups!LegsOf(j)
      /\ \A j \in Groups!Intents : Newest(j) => j = i
  BY NewestStays, Zenon
<1>1. InSequence'
  <2>1. Groups!Exists(1) /\ Groups!Exists(1)'
    <3>1. i = 1 \/ 1 < i
      BY GroupFacts
    <3>2. Groups!Exists(1)
      BY <3>1, GroupFacts DEF GroupInv, InSequence, Newest
    <3>. QED BY <3>2, <1>0, GroupFacts
  <2>2. \A j \in Groups!Intents : intent'[j].kind = intent[j].kind /\ intent'[j].prev = intent[j].prev
    BY DEF RestIsSame
  <2>3. \A j \in Groups!Intents : ~ Groups!Exists(j) => outbox'[j] = outbox[j]
    BY DEF RestIsSame, Newest
  <2>4. plan' = plan /\ group' \notin {"absent", "open_partial"}
    BY DEF RestIsSame
  <2>. QED BY <1>0, <2>1, <2>2, <2>3, <2>4 DEF GroupInv, InSequence
<1>2. ASSUME NEW l \in Groups!Legs, l \notin Groups!LegsOf(i) PROVE LegIs(l)' /\ VoidCloses(l)'
  <2>1. /\ placed'[l] = placed[l] /\ exchange'[l] = exchange[l] /\ booked'[l] = booked[l] /\ told'[l] = told[l]
        /\ leg'[l] = leg[l] /\ (l \in owed' => l \in owed) /\ plan'[l] = plan[l]
    BY <1>2 DEF RestIsSame
  <2>2. l \notin owed
    <3>. SUFFICES ASSUME l \in owed PROVE FALSE
      OBVIOUS
    <3>1. l[1] \in Groups!Intents /\ l[1] = i /\ l \in Groups!LegsOf(l[1])
      BY <1>0, GroupFacts
    <3>. QED BY <1>2, <3>1
  <2>3. LegIs(l)'
    <3>1. LegIs(l)
      BY DEF GroupInv
    <3>. QED BY <2>1, <2>2, <3>1 DEF LegIs, RowIs, Untouched
  <2>4. leg[l] # "CANCELED"
    <3>. SUFFICES ASSUME leg[l] = "CANCELED" PROVE FALSE
      OBVIOUS
    <3>1. l[1] = 1 /\ Newest(1)
      BY DEF GroupInv, VoidCloses
    <3>2. i = 1
      BY <1>0, <3>1, GroupFacts
    <3>3. plan[l] # 0
      BY DEF GroupInv, LegIs, RowIs
    <3>4. l \in Groups!LegsOf(1)
      BY <3>1, <3>3, GroupFacts DEF Groups!LegsOf
    <3>. QED BY <1>2, <3>2, <3>4
  <2>. QED BY <2>1, <2>3, <2>4 DEF VoidCloses
<1>3. ASSUME NEW j \in Groups!Intents PROVE PastIs(j)' /\ NewestIs(j)'
  <2>1. CASE j = i
    <3>1. ~ Past(j)'
      BY <1>0, <2>1, GroupFacts
    <3>. QED BY <2>1, <3>1 DEF PastIs
  <2>2. CASE j # i
    <3>1. NewestIs(j)'
      BY <1>0, <2>2 DEF NewestIs
    <3>2. ASSUME Past(j)' PROVE PastIs(j)'
      <4>1. Past(j) /\ PastIs(j)
        BY <1>0, <3>2 DEF GroupInv
      <4>2. intent'[j] = intent[j] /\ outbox'[j] = outbox[j] /\ working' # j
        BY <2>2, GroupFacts DEF RestIsSame
      <4>3. \A l \in Groups!LegsOf(j) : l \notin owed' /\ exchange'[l].status # "ACCEPTED"
        <5>. TAKE l \in Groups!LegsOf(j)
        <5>1. l \in Groups!Legs /\ l \notin Groups!LegsOf(i)
          BY <2>2 DEF Groups!LegsOf
        <5>. QED BY <4>1, <5>1 DEF PastIs, RestIsSame
      <4>4. PICK l \in Groups!Legs : booked[l] > 0
        BY <4>1 DEF PastIs
      <4>5. booked'[l] \in Nat /\ booked[l] \in Nat
        BY GroupFacts DEF Groups!TypeOK
      <4>6. booked'[l] >= booked[l]
        BY <4>5 DEF RestIsSame
      <4>7. booked'[l] > 0
        BY <4>4, <4>5, <4>6
      <4>. QED BY <1>0, <4>1, <4>2, <4>3, <4>7 DEF PastIs
    <3>. QED BY <3>1, <3>2 DEF PastIs
  <2>. QED BY <2>1, <2>2
<1>4. Groups!Legs' = Groups!Legs /\ Groups!Intents' = Groups!Intents
  BY DEF Groups!Legs, Groups!Intents
<1>. QED BY <1>1, <1>2, <1>3, <1>4 DEF GroupInv

-----------------------------------------------------------------------------
(* What the legs come to when a command is finished.                       *)
LEMMA FinishTells ==
  ASSUME Groups!GroupsAssumption, GroupInv, NEW i \in Groups!Intents, Newest(i),
         NEW legs \in [Groups!Legs -> Groups!LegStatus], NEW visible,
         Groups!FinishCommand(i, legs, visible), plan' = plan, leg' = legs,
         \E l \in Groups!LegsOf(i) : leg'[l] \notin {"PLANNED", "CANCELED"}
  PROVE  /\ intent' \in [Groups!Intents -> Groups!IntentRow] /\ group' \in Groups!GroupStatus
         /\ outbox' \in [Groups!Intents -> Groups!OutboxStatus]
         /\ group' \notin {"absent", "open_partial"}
         /\ \A j \in Groups!Intents : j # i => intent'[j] = intent[j] /\ outbox'[j] = outbox[j]
         /\ intent'[i].kind = intent[i].kind /\ intent'[i].prev = intent[i].prev
         /\ intent'[i].status \in {"COMPLETED", "FAILED", "RECOVERY_REQUIRED", "RUNNING"}
         /\ outbox'[i] = "SENT"
         /\ NewestIs(i)'
         /\ intent'[i].status = "COMPLETED" => \A l \in Groups!LegsOf(i) : leg'[l] = "FILLED"
         /\ intent'[i].status = "RECOVERY_REQUIRED" =>
               /\ \E l \in Groups!LegsOf(i) : leg'[l] = "FAILED"
               /\ \E l \in Groups!LegsOf(i) : leg'[l] \in Groups!NonTerminalLegStatuses
<1>. DEFINE S == {legs[l] : l \in Groups!LegsOf(i)}
            any == \E l \in Groups!LegsOf(i) : visible[l].filled > 0
            row == intent[i]
<1>1. /\ intent \in [Groups!Intents -> Groups!IntentRow]
      /\ outbox \in [Groups!Intents -> Groups!OutboxStatus]
      /\ row \in Groups!IntentRow /\ row.prev # "open_partial" /\ row.kind # "NONE"
      /\ Groups!Exists(i)
  BY DEF GroupInv, Groups!TypeOK, InSequence, Newest
<1>2. /\ outbox' = [outbox EXCEPT ![i] = "SENT"]
      /\ intent' = [intent EXCEPT ![i].status = Groups!IntentVerdict(S)]
      /\ group' = Groups!GroupVerdict(row.kind, S, any, row.prev)
  BY DEF Groups!FinishCommand
<1>3. S \subseteq Groups!LegStatus /\ Groups!LegsOf(i) \subseteq Groups!Legs
  BY DEF Groups!LegsOf
<1>4. /\ (S \subseteq {"FILLED"} <=> \A l \in Groups!LegsOf(i) : leg'[l] = "FILLED")
      /\ ("FAILED" \in S <=> \E l \in Groups!LegsOf(i) : leg'[l] = "FAILED")
      /\ (S \cap Groups!NonTerminalLegStatuses # {}
            <=> \E l \in Groups!LegsOf(i) : leg'[l] \in Groups!NonTerminalLegStatuses)
  OBVIOUS
<1>. HIDE DEF S, any
<1>5. Groups!IntentVerdict(S) = IF S \subseteq {"FILLED"} THEN "COMPLETED"
         ELSE IF "FAILED" \in S
              THEN IF S \cap Groups!NonTerminalLegStatuses # {} THEN "RECOVERY_REQUIRED" ELSE "FAILED"
         ELSE "RUNNING"
  BY DEF Groups!IntentVerdict
<1>6. /\ S \subseteq {"FILLED"} => group' = IF row.kind = "OPEN" THEN "open" ELSE "closed"
      /\ ~ S \subseteq {"FILLED"} /\ "FAILED" \notin S =>
           group' = IF row.kind = "OPEN" THEN "opening" ELSE "closing"
      /\ ~ S \subseteq {"FILLED"} /\ "FAILED" \in S /\ S \cap Groups!NonTerminalLegStatuses # {} =>
           group' = "manual_intervention"
      /\ ~ S \subseteq {"FILLED"} /\ "FAILED" \in S /\ S \cap Groups!NonTerminalLegStatuses = {} =>
           group' \in {"manual_intervention", IF row.kind = "OPEN" THEN "failed" ELSE "open"}
  BY <1>1, <1>2 DEF Groups!GroupVerdict, Groups!OpenVerdict, Groups!CloseVerdict
<1>7. /\ \A j \in Groups!Intents : j # i => intent'[j] = intent[j] /\ outbox'[j] = outbox[j]
      /\ intent'[i].kind = row.kind /\ intent'[i].prev = row.prev
      /\ intent'[i].status = Groups!IntentVerdict(S) /\ outbox'[i] = "SENT"
  BY <1>1, <1>2 DEF Groups!IntentRow
<1>. HIDE DEF row
<1>8. /\ intent' \in [Groups!Intents -> Groups!IntentRow] /\ group' \in Groups!GroupStatus
      /\ outbox' \in [Groups!Intents -> Groups!OutboxStatus]
  <2>1. Groups!IntentVerdict(S) \in Groups!IntentStatus
    BY <1>5 DEF Groups!IntentStatus
  <2>2. [row EXCEPT !.status = Groups!IntentVerdict(S)] \in Groups!IntentRow
    BY <1>1, <2>1 DEF Groups!IntentRow
  <2>3. intent' \in [Groups!Intents -> Groups!IntentRow]
    BY <1>1, <1>2, <2>2 DEF row
  <2>4. group' \in Groups!GroupStatus
    BY <1>6 DEF Groups!GroupStatus
  <2>5. outbox' \in [Groups!Intents -> Groups!OutboxStatus]
    BY <1>1, <1>2 DEF Groups!OutboxStatus
  <2>. QED BY <2>3, <2>4, <2>5
<1>9. group' \notin {"absent", "open_partial"}
  BY <1>6
<1>10. GroupShows(i)'
  BY <1>5, <1>6, <1>7 DEF GroupShows, Busy
<1>11. Groups!LegsOf(i)' = Groups!LegsOf(i)
  BY DEF Groups!LegsOf
<1>12. RowsTell(i)'
  <2>1. ASSUME ~ S \subseteq {"FILLED"}, S \cap Groups!NonTerminalLegStatuses = {}, NEW l \in Groups!LegsOf(i)
        PROVE  leg'[l] \in {"FILLED", "FAILED", "CANCELED"}
    <3>1. leg'[l] \in Groups!LegStatus /\ leg'[l] \notin Groups!NonTerminalLegStatuses
      BY <1>3, <1>4, <2>1
    <3>. QED BY <3>1 DEF Groups!LegStatus, Groups!NonTerminalLegStatuses
  <2>. QED BY <1>4, <1>5, <1>7, <1>11, <2>1 DEF RowsTell
<1>13. NewestIs(i)'
  BY <1>7, <1>10, <1>12 DEF NewestIs
<1>. QED BY <1>4, <1>5, <1>7, <1>8, <1>9, <1>13 DEF row

(* A group with a command is there.                                        *)
LEMMA GroupIsThere ==
  ASSUME Groups!GroupsAssumption, GroupInv, NEW i \in Groups!Intents, Newest(i)
  PROVE  group \notin {"absent", "open_partial"}
<1>1. Groups!Exists(i) /\ (1 < i \/ i = 1)
  BY GroupFacts DEF Newest
<1>. QED BY <1>1, GroupFacts DEF GroupInv, InSequence

-----------------------------------------------------------------------------
(* The steps that tell the group nothing: a claim is taken, the ids are    *)
(* committed, a call is made, a venue moves, a report is lost, the worker  *)
(* stops.                                                                  *)
LEMMA TakeKeeps ==
  ASSUME Groups!GroupsAssumption, GroupInv, NEW i \in Groups!Intents, Groups!Take(i)
  PROVE  GroupInv'
<1>0. /\ phase = "idle" /\ outbox[i] = "PENDING" /\ outbox' = [outbox EXCEPT ![i] = "PROCESSING"]
      /\ phase' = "read" /\ working' = i
      /\ UNCHANGED <<group, intent, plan, leg, placed, booked, exchange, owed, told, answer, crashes>>
  BY DEF Groups!Take, Groups!world
<1>1. outbox \in [Groups!Intents -> Groups!OutboxStatus]
  BY DEF GroupInv, Groups!TypeOK
<1>2. Groups!Exists(i) /\ ~ Past(i)
  BY <1>0 DEF GroupInv, InSequence, PastIs
<1>3. Newest(i) /\ i # 0
  BY <1>2, GroupFacts
<1>4. /\ intent[i].status = "CREATED" /\ GroupShows(i) /\ RowsTell(i) /\ group \in {Busy(i), "voided"}
      /\ \A l \in Groups!LegsOf(i) : Unsent(l)
  BY <1>0, <1>3 DEF GroupInv, NewestIs, RowsTell
<1>5. RestIsSame(i)
  BY <1>0, <1>1, <1>2, <1>3, GroupFacts DEF RestIsSame, GroupInv, InSequence, Groups!Exists, Newest, Groups!LegsOf
<1>6. Groups!TypeOK'
  BY <1>0, <1>1 DEF GroupInv, Groups!TypeOK, Groups!OutboxStatus, Groups!Intents
<1>7. /\ \A j \in Groups!Intents : Newest(j)' <=> Newest(j)
      /\ Groups!LegsOf(i)' = Groups!LegsOf(i) /\ Busy(i)' = Busy(i)
  BY <1>3, <1>5, NewestStays
<1>8. ASSUME NEW l \in Groups!LegsOf(i) PROVE leg[l] = "PLANNED" /\ LegIs(l)' /\ VoidCloses(l)'
  <2>1. l \in Groups!Legs /\ l[1] = i
    BY <1>8 DEF Groups!LegsOf
  <2>2. LegIs(l) /\ VoidCloses(l) /\ Unsent(l)
    BY <1>4, <2>1 DEF GroupInv
  <2>3. leg[l] \in {"PLANNED", "CANCELED"}
    BY <2>2 DEF Unsent, LegIs, RowIs, Untouched, Groups!NoOrder
  <2>4. leg[l] # "CANCELED"
    BY <1>0, <2>1, <2>2 DEF VoidCloses
  <2>5. LegIs(l)'
    BY <1>0, <2>2 DEF LegIs, RowIs, Unsent, Untouched, Groups!NoOrder
  <2>. QED BY <1>0, <2>3, <2>4, <2>5 DEF VoidCloses
<1>9. NewestIs(i)'
  <2>1. GroupShows(i)'
    BY <1>0, <1>4 DEF GroupShows, Busy
  <2>2. outbox'[i] = "PROCESSING"
    BY <1>0, <1>1
  <2>3. RowsTell(i)'
    BY <1>0, <1>4, <1>7, <2>2 DEF RowsTell
  <2>. QED BY <1>0, <1>4, <1>7, <2>1, <2>2, <2>3 DEF NewestIs
<1>10. WorkerHas'
  <2>1. outbox'[i] = "PROCESSING"
    BY <1>0, <1>1
  <2>2. InHand(i)'
    BY <1>0, <1>3, <1>7, <1>8, <2>1 DEF InHand
  <2>3. answer' = [l \in Groups!Legs |-> Groups!NoOrder]
    BY <1>0 DEF GroupInv, WorkerHas
  <2>. QED BY <1>0, <1>3, <1>4, <1>7, <2>2, <2>3 DEF WorkerHas, Unsent, Groups!Legs, Groups!Intents, Groups!NoOrder
<1>. QED BY <1>3, <1>5, <1>6, <1>8, <1>9, <1>10, RestKeeps

LEMMA DispatchKeeps ==
  ASSUME Groups!GroupsAssumption, GroupInv, Groups!Dispatch
  PROVE  GroupInv'
<1>. DEFINE new == [status |-> "INITIALIZED", filled |-> 0]
<1>a. PICK i \in Groups!Intents : i = working /\ i # 0 /\ Newest(i)
  <2>1. InHand(working) /\ working # 0 /\ working \in 0 .. MaxIntents
    BY DEF Groups!Dispatch, GroupInv, WorkerHas, Groups!TypeOK
  <2>. QED BY <2>1 DEF Groups!Intents, InHand, Groups!GroupsAssumption
<1>0. /\ phase = "read" /\ phase' = "sent" /\ working' = working
      /\ intent' = [intent EXCEPT ![i].status = "RUNNING"]
      /\ placed' = [l \in Groups!Legs |-> IF l \in Groups!LegsOf(i) /\ placed[l].status = "NONE"
                                         THEN new ELSE placed[l]]
      /\ UNCHANGED <<group, outbox, plan, leg, booked, exchange, owed, told, answer, crashes>>
  BY <1>a DEF Groups!Dispatch, Groups!world
<1>1. /\ intent \in [Groups!Intents -> Groups!IntentRow] /\ placed \in [Groups!Legs -> Groups!OrderRow]
  BY DEF GroupInv, Groups!TypeOK
<1>2. /\ InHand(i) /\ intent[i].status \in {"CREATED", "VOIDED"}
      /\ \A l \in Groups!LegsOf(i) : Unsent(l)
      /\ answer = [l \in Groups!Legs |-> Groups!NoOrder]
  BY <1>a, <1>0 DEF GroupInv, WorkerHas
<1>3. i \in Groups!Intents /\ Newest(i)
  BY <1>a
<1>4. /\ intent'[i].status = "RUNNING" /\ intent'[i].kind = intent[i].kind /\ intent'[i].prev = intent[i].prev
      /\ \A j \in Groups!Intents : j # i => intent'[j] = intent[j]
  BY <1>0, <1>1, <1>3 DEF Groups!IntentRow
<1>5. \A l \in Groups!Legs : l \notin Groups!LegsOf(i) => placed'[l] = placed[l]
  BY <1>0
<1>6. RestIsSame(i)
  <2>1. \A l \in Groups!LegsOf(i) : booked[l] \in Nat
    BY GroupFacts DEF Groups!LegsOf
  <2>2. group \notin {"absent", "open_partial"}
    BY <1>3, GroupIsThere
  <2>. QED BY <1>0, <1>4, <1>5, <1>a, <2>1, <2>2 DEF RestIsSame
<1>7. new \in Groups!OrderRow
  BY DEF Groups!OrderRow, Groups!OrderStatus
<1>8. Groups!TypeOK'
  <2>1. placed' \in [Groups!Legs -> Groups!OrderRow]
    BY <1>0, <1>1, <1>7
  <2>2. [intent[i] EXCEPT !.status = "RUNNING"] \in Groups!IntentRow
    BY <1>1, <1>3 DEF Groups!IntentRow, Groups!IntentStatus
  <2>3. intent' \in [Groups!Intents -> Groups!IntentRow]
    BY <1>0, <1>1, <2>2
  <2>. QED BY <1>0, <2>1, <2>3 DEF GroupInv, Groups!TypeOK
<1>9. /\ \A j \in Groups!Intents : Newest(j)' <=> Newest(j)
      /\ Groups!LegsOf(i)' = Groups!LegsOf(i) /\ Busy(i)' = Busy(i)
  BY <1>3, <1>6, NewestStays
<1>10. ASSUME NEW l \in Groups!LegsOf(i)
       PROVE  LegIs(l)' /\ VoidCloses(l)' /\ placed'[l] = new /\ AnswerIs(l)'
  <2>1. l \in Groups!Legs /\ l[1] = i /\ plan[l] > 0 /\ plan[l] \in Nat
    BY <1>10, GroupFacts DEF Groups!LegsOf
  <2>2. LegIs(l) /\ VoidCloses(l) /\ Unsent(l) /\ leg[l] \in {"PLANNED", "CANCELED"}
    BY <1>2, <1>10, <2>1 DEF GroupInv, InHand
  <2>3. placed'[l] = new
    BY <1>0, <1>10, <2>1, <2>2 DEF Unsent, Untouched, Groups!NoOrder
  <2>4. LegIs(l)'
    BY <1>0, <2>1, <2>2, <2>3 DEF LegIs, RowIs, AtVenueIs, Unsent, Untouched, Groups!NoOrder
  <2>5. VoidCloses(l)'
    <3>. SUFFICES ASSUME leg'[l] = "CANCELED" PROVE VoidCloses(l)'
      BY DEF VoidCloses
    <3>1. leg[l] = "CANCELED" /\ i = 1 /\ outbox[1] \in {"CANCELED", "SENT", "FAILED"}
      BY <1>0, <2>1, <2>2 DEF VoidCloses
    <3>2. \A m \in Groups!LegsOf(1) : leg'[m] = "CANCELED"
      BY <1>0, <1>2, <1>10, <3>1 DEF InHand
    <3>. QED BY <1>0, <1>3, <1>4, <1>9, <2>1, <2>3, <3>1, <3>2 DEF VoidCloses
  <2>6. AnswerIs(l)'
    BY <1>0, <1>2, <2>1, <2>2 DEF AnswerIs, Unsent, Untouched, Groups!NoOrder
  <2>. QED BY <2>3, <2>4, <2>5, <2>6
<1>11. NewestIs(i)'
  <2>1. GroupShows(i) /\ RowsTell(i) /\ (outbox[i] = "CANCELED" => group = "voided")
    BY <1>3 DEF GroupInv, NewestIs
  <2>2. outbox[i] \in {"PROCESSING", "CANCELED"}
    BY <1>2 DEF InHand
  <2>3. group \in {Busy(i), "voided"}
    BY <1>2, <2>1 DEF GroupShows
  <2>4. GroupShows(i)' /\ RowsTell(i)'
    BY <1>0, <1>4, <1>9, <2>2, <2>3 DEF GroupShows, RowsTell
  <2>. QED BY <1>0, <1>9, <2>1, <2>2, <2>3, <2>4 DEF NewestIs
<1>12. WorkerHas'
  <2>1. InHand(i)'
    BY <1>0, <1>2, <1>9, <1>3 DEF InHand
  <2>. QED BY <1>0, <1>2, <1>4, <1>9, <1>10, <1>a, <2>1 DEF WorkerHas
<1>. QED BY <1>3, <1>6, <1>8, <1>10, <1>11, <1>12, RestKeeps

LEMMA HandIs ==
  ASSUME Groups!GroupsAssumption, GroupInv, phase # "idle"
  PROVE  \E i \in Groups!Intents : i = working /\ i # 0 /\ Newest(i) /\ InHand(i)
<1>1. InHand(working) /\ working # 0 /\ working \in 0 .. MaxIntents
  BY DEF GroupInv, WorkerHas, Groups!TypeOK
<1>. QED BY <1>1 DEF Groups!Intents, InHand, Groups!GroupsAssumption

LEMMA WorldKeeps ==
  ASSUME Groups!GroupsAssumption, GroupInv, NEW l \in Groups!Legs, Newest(l[1]), plan[l] > 0,
         UNCHANGED <<group, intent, outbox, plan, leg, placed, booked, told, phase, working, crashes>>,
         exchange' \in [Groups!Legs -> Groups!OrderRow], owed' \subseteq Groups!Legs,
         answer' \in [Groups!Legs -> Groups!OrderRow],
         \A m \in Groups!Legs : m # l =>
            exchange'[m] = exchange[m] /\ answer'[m] = answer[m] /\ (m \in owed' <=> m \in owed),
         ~ Unsent(l) \/ (phase = "sent" /\ working = l[1]),
         phase = "sent" /\ working = l[1] => AnswerIs(l)',
         ~ (phase = "sent" /\ working = l[1]) => answer' = answer,
         LegIs(l)'
  PROVE  GroupInv'
<1>0. PICK i \in Groups!Intents : i = l[1]
  BY GroupFacts
<1>1. Newest(i) /\ l \in Groups!LegsOf(i)
  BY <1>0 DEF Groups!LegsOf
<1>2. group \notin {"absent", "open_partial"}
  BY <1>1, GroupIsThere
<1>3. RestIsSame(i)
  <2>1. \A m \in Groups!LegsOf(i) : booked[m] \in Nat
    BY GroupFacts DEF Groups!LegsOf
  <2>2. working \in {0, i}
    <3>1. CASE working = 0
      BY <3>1
    <3>2. CASE working # 0
      <4>1. PICK j \in Groups!Intents : j = working /\ Newest(j)
        BY <3>2, HandIs DEF GroupInv, WorkerHas
      <4>. QED BY <4>1, <1>1, GroupFacts
    <3>. QED BY <3>1, <3>2
  <2>. QED BY <1>1, <1>2, <2>1, <2>2 DEF RestIsSame, Newest, Groups!Exists
<1>4. Groups!TypeOK'
  BY DEF GroupInv, Groups!TypeOK
<1>5. /\ \A j \in Groups!Intents : Newest(j)' <=> Newest(j)
      /\ \A j \in Groups!Intents : Groups!LegsOf(j)' = Groups!LegsOf(j)
      /\ Busy(i)' = Busy(i)
  BY <1>1, <1>3, NewestStays
<1>6. ASSUME NEW m \in Groups!LegsOf(i) PROVE LegIs(m)' /\ VoidCloses(m)'
  <2>1. m \in Groups!Legs
    BY DEF Groups!LegsOf
  <2>2. LegIs(m)'
    <3>1. CASE m = l
      BY <3>1
    <3>2. CASE m # l
      BY <2>1, <3>2 DEF GroupInv, LegIs, RowIs, Untouched
    <3>. QED BY <3>1, <3>2
  <2>3. VoidCloses(m)'
    <3>1. VoidCloses(m) /\ (m[1] = 1 => 1 \in Groups!Intents)
      BY <2>1, GroupFacts DEF GroupInv
    <3>. QED BY <1>5, <3>1 DEF VoidCloses
  <2>. QED BY <2>2, <2>3
<1>7. outbox[i] = "PENDING" => \A m \in Groups!LegsOf(i) : Unsent(m)
  BY <1>1 DEF GroupInv, NewestIs, RowsTell
<1>8. outbox[i] # "PENDING"
  <2>1. ASSUME phase = "sent", working = i PROVE outbox[i] # "PENDING"
    BY <2>1, HandIs DEF InHand
  <2>. QED BY <1>0, <1>1, <1>7, <2>1
<1>9. NewestIs(i)'
  <2>1. GroupShows(i) /\ RowsTell(i) /\ (outbox[i] \in {"PENDING", "PROCESSING"} => group \in {Busy(i), "voided"})
        /\ (outbox[i] = "CANCELED" => group = "voided")
    BY <1>1 DEF GroupInv, NewestIs
  <2>2. GroupShows(i)' /\ RowsTell(i)'
    BY <1>5, <1>8, <2>1 DEF GroupShows, RowsTell, Busy
  <2>. QED BY <1>5, <2>1, <2>2 DEF NewestIs
<1>10. WorkerHas'
  <2>1. phase # "idle" => InHand(working)'
    <3>1. ASSUME phase # "idle" PROVE InHand(working)'
      <4>1. PICK j \in Groups!Intents : j = working /\ InHand(j)
        BY <3>1, HandIs
      <4>2. InHand(j)'
        BY <1>5, <4>1 DEF InHand
      <4>3. working' = j
        BY <4>1
      <4>. QED BY <4>2, <4>3 DEF InHand
    <3>. QED BY <3>1
  <2>2. phase # "sent" => answer' = answer
    OBVIOUS
  <2>3. ASSUME phase = "read" PROVE \A m \in Groups!LegsOf(working)' : Unsent(m)'
    <3>1. PICK j \in Groups!Intents : j = working /\ InHand(j)
      BY <2>3, HandIs
    <3>2. ASSUME NEW m \in Groups!LegsOf(j) PROVE Unsent(m)'
      <4>1. Unsent(m) /\ m \in Groups!Legs
        BY <2>3, <3>1, <3>2 DEF GroupInv, WorkerHas, Groups!LegsOf
      <4>2. m # l
        BY <2>3, <4>1
      <4>. QED BY <4>1, <4>2 DEF Unsent, Untouched, Groups!NoOrder
    <3>3. Groups!LegsOf(working)' = Groups!LegsOf(j)
      <4>1. working' = j
        BY <3>1
      <4>. QED BY <4>1, <1>5 DEF Groups!LegsOf
    <3>. QED BY <3>2, <3>3
  <2>4. ASSUME phase = "sent"
        PROVE  \A m \in Groups!LegsOf(working)' :
                 /\ placed'[m].filled = 0 /\ AnswerIs(m)'
                 /\ \/ placed'[m].status = "INITIALIZED"
                    \/ placed'[m].status = "CANCELED" /\ leg'[m] = "CANCELED"
    <3>1. PICK j \in Groups!Intents : j = working /\ InHand(j)
      BY <2>4, HandIs
    <3>2. ASSUME NEW m \in Groups!LegsOf(j)
          PROVE  /\ placed[m].filled = 0 /\ AnswerIs(m)'
                 /\ \/ placed[m].status = "INITIALIZED"
                    \/ placed[m].status = "CANCELED" /\ leg[m] = "CANCELED"
      <4>1. /\ m \in Groups!Legs /\ m[1] = j
            /\ placed[m].filled = 0 /\ AnswerIs(m)
            /\ \/ placed[m].status = "INITIALIZED"
               \/ placed[m].status = "CANCELED" /\ leg[m] = "CANCELED"
        BY <2>4, <3>1, <3>2 DEF GroupInv, WorkerHas, Groups!LegsOf
      <4>2. CASE m = l
        BY <2>4, <3>1, <4>1, <4>2
      <4>3. CASE m # l
        BY <4>1, <4>3 DEF AnswerIs, ReportIsTrue, Groups!NoOrder
      <4>. QED BY <4>1, <4>2, <4>3
    <3>3. Groups!LegsOf(working)' = Groups!LegsOf(j)
      <4>1. working' = j
        BY <3>1
      <4>. QED BY <4>1, <1>5 DEF Groups!LegsOf
    <3>. QED BY <3>2, <3>3
  <2>5. WorkerHas
    BY DEF GroupInv
  <2>6. phase' = phase /\ working' = working /\ intent' = intent
    OBVIOUS
  <2>7. phase' # "sent" => answer' = [m \in Groups!Legs' |-> Groups!NoOrder']
    BY <2>2, <2>5, <2>6 DEF WorkerHas, Groups!Legs, Groups!Intents, Groups!NoOrder
  <2>. QED BY <2>1, <2>3, <2>4, <2>5, <2>6, <2>7 DEF WorkerHas
<1>. QED BY <1>1, <1>3, <1>4, <1>6, <1>9, <1>10, RestKeeps

LEMMA GroupSubmitKeeps ==
  ASSUME Groups!GroupsAssumption, GroupInv, NEW l \in Groups!Legs, Groups!Submit(l)
  PROVE  GroupInv'
<1>0. /\ phase = "sent" /\ l \in Groups!LegsOf(working) /\ answer[l].status = "NONE"
      /\ UNCHANGED <<group, intent, outbox, plan, leg, placed, booked, told, phase, working, crashes>>
  BY DEF Groups!Submit, Groups!Waiting, Groups!rows
<1>1. l[1] = working /\ plan[l] > 0 /\ Newest(l[1]) /\ plan[l] \in Nat
  BY <1>0, HandIs, GroupFacts DEF Groups!LegsOf
<1>2. /\ exchange \in [Groups!Legs -> Groups!OrderRow] /\ owed \subseteq Groups!Legs
      /\ answer \in [Groups!Legs -> Groups!OrderRow]
  BY DEF GroupInv, Groups!TypeOK
<1>3. /\ exchange[l] = Groups!NoOrder /\ l \notin owed /\ LegIs(l)
      /\ placed[l].filled = 0 /\ leg[l] \in {"PLANNED", "CANCELED"}
      /\ \/ placed[l].status = "INITIALIZED"
         \/ placed[l].status = "CANCELED" /\ leg[l] = "CANCELED"
  <2>1. AnswerIs(l) /\ InHand(working)
    BY <1>0 DEF GroupInv, WorkerHas
  <2>2. exchange[l] = Groups!NoOrder /\ l \notin owed
    BY <1>0, <2>1 DEF AnswerIs
  <2>. QED BY <1>0, <2>1, <2>2 DEF GroupInv, WorkerHas, InHand
<1>4. Groups!Unknown \in Groups!OrderRow /\ Groups!Rejected \in Groups!OrderRow
  BY DEF Groups!Unknown, Groups!Rejected, Groups!OrderRow, Groups!OrderStatus
<1>5. CASE \E r \in Groups!Taken(plan[l]), shown \in BOOLEAN :
             /\ exchange' = [exchange EXCEPT ![l] = r] /\ owed' = owed \cup {l}
             /\ answer' = [answer EXCEPT ![l] = IF shown THEN r ELSE Groups!Unknown]
  <2>1. PICK r \in Groups!Taken(plan[l]), shown \in BOOLEAN :
             /\ exchange' = [exchange EXCEPT ![l] = r] /\ owed' = owed \cup {l}
             /\ answer' = [answer EXCEPT ![l] = IF shown THEN r ELSE Groups!Unknown]
    BY <1>5
  <2>2. /\ r \in Groups!OrderRow /\ r.status \in {"FILLED", "ACCEPTED", "CANCELED"} /\ AtVenueIs(plan[l], r)
        /\ r.status = "ACCEPTED" => r.filled = 0
    BY <1>1 DEF Groups!Taken, Groups!OrderRow, Groups!OrderStatus, Groups!VenueStatus, AtVenueIs
  <2>3. exchange'[l] = r /\ l \in owed' /\ answer'[l] = IF shown THEN r ELSE Groups!Unknown
    BY <1>2, <2>1
  <2>4. AnswerIs(l)'
    BY <2>2, <2>3 DEF AnswerIs, ReportIsTrue, Groups!Unknown
  <2>5. LegIs(l)'
    <3>1. r.filled \in Nat
      BY <2>2 DEF Groups!OrderRow
    <3>2. /\ told[l] \in Nat /\ booked[l] \in Nat /\ told[l] <= 0
          /\ placed[l].filled = 0 => booked[l] = 0
      BY <1>3, GroupFacts DEF LegIs, RowIs, Groups!NoOrder
    <3>3. placed'[l] = placed[l] /\ leg'[l] = leg[l] /\ booked'[l] = booked[l] /\ told'[l] = told[l]
          /\ plan'[l] = plan[l] /\ working' = l[1]
      BY <1>0, <1>1
    <3>4. RowIs(plan[l], placed[l], r, booked[l], told[l], leg[l], TRUE, FALSE)
      <4>. DEFINE o == placed[l]
      <4>1. /\ o.filled = 0 /\ leg[l] \in {"PLANNED", "CANCELED"} /\ plan[l] # 0
            /\ o.status = "INITIALIZED" \/ (o.status = "CANCELED" /\ leg[l] = "CANCELED")
        BY <1>1, <1>3
      <4>2. booked[l] = 0 /\ 0 <= r.filled /\ told[l] <= r.filled
        BY <3>1, <3>2, <1>3
      <4>3. r.status # "NONE" /\ AtVenueIs(plan[l], r)
        BY <2>2
      <4>4. leg[l] = "PLANNED" => o.status = "INITIALIZED"
        BY <1>3 DEF LegIs, RowIs
      <4>. QED BY <4>1, <4>2, <4>3, <4>4 DEF RowIs
    <3>. QED BY <1>0, <2>3, <3>3, <3>4 DEF LegIs
  <2>6. exchange' \in [Groups!Legs -> Groups!OrderRow] /\ owed' \subseteq Groups!Legs
        /\ answer' \in [Groups!Legs -> Groups!OrderRow]
    BY <1>2, <1>4, <2>1, <2>2
  <2>7. \A m \in Groups!Legs : m # l =>
            exchange'[m] = exchange[m] /\ answer'[m] = answer[m] /\ (m \in owed' <=> m \in owed)
    BY <1>2, <2>1
  <2>. QED BY <1>0, <1>1, <2>4, <2>5, <2>6, <2>7, WorldKeeps
<1>6. CASE /\ answer' \in {[answer EXCEPT ![l] = Groups!Rejected], [answer EXCEPT ![l] = Groups!Unknown]}
           /\ UNCHANGED <<exchange, owed>>
  <2>1. answer'[l] \in {Groups!Rejected, Groups!Unknown}
    BY <1>2, <1>6
  <2>2. AnswerIs(l)'
    BY <1>3, <1>6, <2>1 DEF AnswerIs, ReportIsTrue, Groups!Unknown, Groups!Rejected, Groups!NoOrder
  <2>3. LegIs(l)'
    BY <1>0, <1>3, <1>6 DEF LegIs, RowIs, Untouched, Groups!NoOrder
  <2>4. answer' \in [Groups!Legs -> Groups!OrderRow]
    BY <1>2, <1>4, <1>6
  <2>5. \A m \in Groups!Legs : m # l => answer'[m] = answer[m]
    BY <1>2, <1>6
  <2>. QED BY <1>0, <1>1, <1>2, <1>6, <2>2, <2>3, <2>4, <2>5, WorldKeeps
<1>. QED BY <1>5, <1>6 DEF Groups!Submit

LEMMA GroupVenueKeeps ==
  ASSUME Groups!GroupsAssumption, GroupInv, NEW l \in Groups!Legs, Groups!VenueMoves(l)
  PROVE  GroupInv'
<1>1. PICK r \in {[status |-> "FILLED", filled |-> plan[l]]}
                 \cup {[status |-> "CANCELED", filled |-> f] : f \in 0..(plan[l] - 1)} :
         exchange' = [exchange EXCEPT ![l] = r]
  BY DEF Groups!VenueMoves
<1>2. /\ exchange[l].status = "ACCEPTED" /\ owed' = owed \cup {l}
      /\ UNCHANGED <<group, intent, outbox, plan, leg, placed, booked, told, phase, working, answer, crashes>>
  BY DEF Groups!VenueMoves, Groups!rows, Groups!worker
<1>3. plan[l] > 0 /\ plan[l] \in Nat /\ Newest(l[1]) /\ LegIs(l)
  BY <1>2, GroupFacts DEF GroupInv
<1>4. r \in Groups!OrderRow /\ r.status \in {"FILLED", "CANCELED"} /\ AtVenueIs(plan[l], r) /\ r.filled \in Nat
  BY <1>3 DEF Groups!OrderRow, Groups!OrderStatus, Groups!VenueStatus, AtVenueIs
<1>5. exchange \in [Groups!Legs -> Groups!OrderRow] /\ owed \subseteq Groups!Legs
      /\ answer \in [Groups!Legs -> Groups!OrderRow]
  BY DEF GroupInv, Groups!TypeOK
<1>6. exchange'[l] = r /\ l \in owed'
  BY <1>1, <1>2, <1>5
<1>7. LegIs(l)'
  <2>1. placed[l].filled \in Nat /\ placed[l].filled <= 0 /\ told[l] \in Nat /\ told[l] <= 0
    BY <1>2, <1>3, GroupFacts DEF LegIs, RowIs, AtVenueIs, Groups!OrderRow
  <2>. QED BY <1>2, <1>3, <1>4, <1>6, <2>1 DEF LegIs, RowIs, Untouched, Groups!NoOrder
<1>8. ~ Unsent(l)
  BY <1>2 DEF Unsent, Untouched, Groups!NoOrder
<1>9. phase = "sent" /\ working = l[1] => AnswerIs(l)'
  <2>1. ASSUME phase = "sent", working = l[1] PROVE AnswerIs(l)
    <3>1. l \in Groups!LegsOf(working)
      BY <1>3, <2>1 DEF Groups!LegsOf
    <3>. QED BY <2>1, <3>1 DEF GroupInv, WorkerHas
  <2>. QED BY <1>2, <1>4, <1>6, <2>1 DEF AnswerIs, ReportIsTrue, Groups!NoOrder
<1>10. exchange' \in [Groups!Legs -> Groups!OrderRow] /\ owed' \subseteq Groups!Legs
  BY <1>1, <1>2, <1>4, <1>5
<1>11. \A m \in Groups!Legs : m # l =>
            exchange'[m] = exchange[m] /\ answer'[m] = answer[m] /\ (m \in owed' <=> m \in owed)
  BY <1>1, <1>2, <1>5
<1>. QED BY <1>2, <1>3, <1>5, <1>7, <1>8, <1>9, <1>10, <1>11, WorldKeeps

LEMMA LoseReportKeeps ==
  ASSUME Groups!GroupsAssumption, GroupInv, NEW l \in Groups!Legs, Groups!LoseReport(l)
  PROVE  GroupInv'
<1>1. /\ l \in owed /\ owed' = owed \ {l}
      /\ UNCHANGED <<group, intent, outbox, plan, leg, placed, booked, exchange, told, phase, working, answer, crashes>>
  BY DEF Groups!LoseReport, Groups!rows, Groups!worker
<1>2. plan[l] > 0 /\ Newest(l[1]) /\ LegIs(l)
  BY <1>1, GroupFacts DEF GroupInv
<1>3. exchange \in [Groups!Legs -> Groups!OrderRow] /\ owed \subseteq Groups!Legs
      /\ answer \in [Groups!Legs -> Groups!OrderRow]
  BY DEF GroupInv, Groups!TypeOK
<1>4. LegIs(l)' /\ ~ Unsent(l)
  BY <1>1, <1>2 DEF LegIs, RowIs, Unsent, Untouched, Groups!NoOrder
<1>5. phase = "sent" /\ working = l[1] => AnswerIs(l)'
  <2>1. ASSUME phase = "sent", working = l[1] PROVE AnswerIs(l)
    <3>1. l \in Groups!LegsOf(working)
      BY <1>2, <2>1 DEF Groups!LegsOf
    <3>. QED BY <2>1, <3>1 DEF GroupInv, WorkerHas
  <2>. QED BY <1>1, <2>1 DEF AnswerIs, ReportIsTrue, Groups!NoOrder
<1>. QED BY <1>1, <1>2, <1>3, <1>4, <1>5, WorldKeeps

LEMMA GroupCrashKeeps ==
  ASSUME Groups!GroupsAssumption, GroupInv, Groups!Crash
  PROVE  GroupInv'
<1>0. /\ crashes < MaxCrashes /\ phase # "idle" /\ crashes' = crashes + 1
      /\ phase' = "idle" /\ working' = 0 /\ answer' = [l \in Groups!Legs |-> Groups!NoOrder] /\ owed' = {}
      /\ UNCHANGED <<group, intent, outbox, plan, leg, placed, booked, exchange, told>>
  BY DEF Groups!Crash, Groups!rows
<1>1. PICK i \in Groups!Intents : i = working /\ Newest(i) /\ InHand(i)
  BY <1>0, HandIs
<1>2. RestIsSame(i)
  <2>1. group \notin {"absent", "open_partial"}
    BY <1>1, GroupIsThere
  <2>2. \A m \in Groups!LegsOf(i) : booked[m] \in Nat
    BY GroupFacts DEF Groups!LegsOf
  <2>. QED BY <1>0, <1>1, <2>1, <2>2 DEF RestIsSame, Newest, Groups!Exists
<1>3. Groups!TypeOK'
  <2>1. Groups!NoOrder \in Groups!OrderRow
    BY DEF Groups!NoOrder, Groups!OrderRow, Groups!OrderStatus, Groups!VenueStatus
  <2>. QED BY <1>0, <2>1 DEF GroupInv, Groups!TypeOK, Groups!GroupsAssumption
<1>4. /\ \A j \in Groups!Intents : Newest(j)' <=> Newest(j)
      /\ \A j \in Groups!Intents : Groups!LegsOf(j)' = Groups!LegsOf(j)
      /\ Busy(i)' = Busy(i)
  BY <1>1, <1>2, NewestStays
<1>5. ASSUME NEW m \in Groups!LegsOf(i) PROVE LegIs(m)' /\ VoidCloses(m)'
  <2>1. m \in Groups!Legs /\ LegIs(m) /\ VoidCloses(m) /\ (m[1] = 1 => 1 \in Groups!Intents)
    BY GroupFacts DEF GroupInv, Groups!LegsOf
  <2>2. LegIs(m)'
    BY <1>0, <2>1 DEF LegIs, RowIs, Untouched
  <2>3. VoidCloses(m)'
    BY <1>0, <1>4, <2>1 DEF VoidCloses
  <2>. QED BY <2>2, <2>3
<1>6. NewestIs(i)'
  <2>1. GroupShows(i) /\ RowsTell(i) /\ (outbox[i] \in {"PENDING", "PROCESSING"} => group \in {Busy(i), "voided"})
        /\ (outbox[i] = "CANCELED" => group = "voided") /\ outbox[i] # "PENDING"
    BY <1>1 DEF GroupInv, NewestIs, InHand
  <2>2. GroupShows(i)' /\ RowsTell(i)'
    BY <1>0, <1>4, <2>1 DEF GroupShows, RowsTell, Busy
  <2>. QED BY <1>0, <1>4, <2>1, <2>2 DEF NewestIs
<1>7. WorkerHas'
  BY <1>0 DEF WorkerHas, Groups!Legs, Groups!Intents, Groups!NoOrder
<1>. QED BY <1>1, <1>2, <1>3, <1>5, <1>6, <1>7, RestKeeps

-----------------------------------------------------------------------------
(* The steps that record what a venue says.                                *)

(* A leg whose rows take in a true report of its venue.                    *)
LEMMA Reported ==
  ASSUME Groups!GroupsAssumption, GroupInv, NEW l \in Groups!Legs, plan[l] > 0,
         NEW r \in Groups!OrderRow, ReportIsTrue(r, exchange[l], l \in owed),
         placed'[l] = Groups!GatewayOrder(placed[l], r, plan[l]),
         leg'[l] = Groups!GatewayLeg(placed[l], r, plan[l]),
         booked'[l] = Groups!Larger(booked[l], Groups!GatewayOrder(placed[l], r, plan[l]).filled),
         UNCHANGED <<plan, exchange, owed, told>>
  PROVE  /\ LegIs(l)' /\ placed'[l] \in Groups!OrderRow
         /\ leg'[l] \in {"SUBMITTED", "PARTIALLY_FILLED", "FILLED", "FAILED"}
         /\ booked'[l] \in Nat /\ booked'[l] >= booked[l]
<1>. DEFINE oo == Groups!GatewayOrder(placed[l], r, plan[l])
            gg == Groups!GatewayLeg(placed[l], r, plan[l])
            kk == Groups!Larger(booked[l], oo.filled)
            after == working' # l[1]
<1>1. /\ plan[l] \in Nat \ {0} /\ placed[l] \in Groups!OrderRow /\ exchange[l] \in Groups!OrderRow
      /\ booked[l] \in Nat /\ told[l] \in Nat
  BY GroupFacts
<1>2. RowIs(plan[l], placed[l], exchange[l], booked[l], told[l], leg[l], l \in owed, working # l[1])
  BY DEF GroupInv, LegIs
<1>3. /\ oo \in Groups!OrderRow
      /\ gg \in {"SUBMITTED", "PARTIALLY_FILLED", "FILLED", "FAILED"}
      /\ kk \in Nat /\ kk >= booked[l]
      /\ RowIs(plan[l], oo, exchange[l], kk, told[l], gg, l \in owed, after)
  <2>1. /\ oo \in Groups!OrderRow
        /\ gg \in {"SUBMITTED", "PARTIALLY_FILLED", "FILLED", "FAILED"}
        /\ kk \in Nat /\ kk >= booked[l]
        /\ \A free \in BOOLEAN : RowIs(plan[l], oo, exchange[l], kk, told[l], gg, l \in owed, free)
    BY <1>1, <1>2, GatewayRow
  <2>2. after \in BOOLEAN
    OBVIOUS
  <2>. QED BY <2>1, <2>2
<1>4. /\ placed'[l] = oo /\ leg'[l] = gg /\ booked'[l] = kk
      /\ plan'[l] = plan[l] /\ exchange'[l] = exchange[l] /\ told'[l] = told[l] /\ owed' = owed
  OBVIOUS
<1>. HIDE DEF oo, gg, kk
<1>. QED BY <1>3, <1>4 DEF LegIs

(* What a venue has of an order is such a report.                          *)
LEMMA VenueTells ==
  ASSUME Groups!GroupsAssumption, GroupInv, NEW l \in Groups!Legs, exchange[l].status # "NONE"
  PROVE  ReportIsTrue(exchange[l], exchange[l], l \in owed) /\ plan[l] > 0
<1>1. LegIs(l) /\ plan[l] \in Nat /\ plan[l] # 0
  BY GroupFacts DEF GroupInv
<1>. QED BY <1>1 DEF LegIs, RowIs, AtVenueIs, ReportIsTrue

(* An intent that is asked for again.                                      *)
LEMMA AskedAgain ==
  ASSUME Groups!GroupsAssumption, GroupInv, NEW i \in Groups!Intents, Newest(i),
         NEW mark \in {"PROCESSING", "FAILED"},
         outbox' = [outbox EXCEPT ![i] = mark],
         intent' = [intent EXCEPT ![i].status = "RECOVERY_REQUIRED"],
         group' = group, group \in {Busy(i), "voided"}
  PROVE  /\ intent' \in [Groups!Intents -> Groups!IntentRow] /\ group' \in Groups!GroupStatus
         /\ outbox' \in [Groups!Intents -> Groups!OutboxStatus]
         /\ group' \notin {"absent", "open_partial"}
         /\ \A j \in Groups!Intents : j # i => intent'[j] = intent[j] /\ outbox'[j] = outbox[j]
         /\ intent'[i].kind = intent[i].kind /\ intent'[i].prev = intent[i].prev
         /\ intent'[i].status = "RECOVERY_REQUIRED"
         /\ NewestIs(i)'
<1>1. /\ intent \in [Groups!Intents -> Groups!IntentRow]
      /\ outbox \in [Groups!Intents -> Groups!OutboxStatus] /\ group \in Groups!GroupStatus
  BY DEF GroupInv, Groups!TypeOK
<1>2. /\ \A j \in Groups!Intents : j # i => intent'[j] = intent[j] /\ outbox'[j] = outbox[j]
      /\ intent'[i].kind = intent[i].kind /\ intent'[i].prev = intent[i].prev
      /\ intent'[i].status = "RECOVERY_REQUIRED" /\ outbox'[i] = mark
  BY <1>1 DEF Groups!IntentRow
<1>3. [intent[i] EXCEPT !.status = "RECOVERY_REQUIRED"] \in Groups!IntentRow
  BY <1>1 DEF Groups!IntentRow, Groups!IntentStatus
<1>4. intent' \in [Groups!Intents -> Groups!IntentRow] /\ outbox' \in [Groups!Intents -> Groups!OutboxStatus]
  BY <1>1, <1>3 DEF Groups!OutboxStatus
<1>5. group' \notin {"absent", "open_partial"}
  BY GroupIsThere
<1>6. Busy(i)' = Busy(i)
  BY <1>2 DEF Busy
<1>7. NewestIs(i)'
  BY <1>2, <1>6 DEF NewestIs, GroupShows, RowsTell
<1>. QED BY <1>1, <1>2, <1>4, <1>5, <1>7

(* An intent has a leg.                                                    *)
LEMMA SomeLeg ==
  ASSUME Groups!GroupsAssumption, GroupInv, NEW i \in Groups!Intents, Groups!Exists(i)
  PROVE  \E l \in Groups!Legs : l \in Groups!LegsOf(i) /\ l[1] = i
<1>1. PICK v \in Venues : plan[<<i, v>>] > 0
  BY DEF GroupInv, InSequence
<1>2. <<i, v>> \in Groups!Legs
  BY DEF Groups!Legs
<1>. QED BY <1>1, <1>2 DEF Groups!LegsOf

(* After a transaction of the worker that moves the rows of one intent.    *)
LEMMA RowsKeep ==
  ASSUME Groups!GroupsAssumption, GroupInv, NEW i \in Groups!Intents, Newest(i),
         UNCHANGED <<plan, exchange, crashes>>, owed' \subseteq owed,
         phase' = "idle", working' = 0, answer' = [l \in Groups!Legs |-> Groups!NoOrder],
         placed' \in [Groups!Legs -> Groups!OrderRow], leg' \in [Groups!Legs -> Groups!LegStatus],
         booked' \in [Groups!Legs -> Nat], told' \in [Groups!Legs -> Nat],
         intent' \in [Groups!Intents -> Groups!IntentRow], group' \in Groups!GroupStatus,
         outbox' \in [Groups!Intents -> Groups!OutboxStatus], group' \notin {"absent", "open_partial"},
         \A j \in Groups!Intents : j # i => intent'[j] = intent[j] /\ outbox'[j] = outbox[j],
         intent'[i].kind = intent[i].kind, intent'[i].prev = intent[i].prev,
         intent'[i].status # "ABSENT", NewestIs(i)',
         \A l \in Groups!Legs : l \notin Groups!LegsOf(i) =>
            /\ placed'[l] = placed[l] /\ booked'[l] = booked[l]
            /\ told'[l] = told[l] /\ leg'[l] = leg[l],
         \A l \in Groups!LegsOf(i) : booked'[l] >= booked[l] /\ LegIs(l)' /\ VoidCloses(l)'
  PROVE  GroupInv'
<1>1. RestIsSame(i)
  BY DEF RestIsSame
<1>2. Groups!TypeOK'
  <2>1. Groups!NoOrder \in Groups!OrderRow
    BY DEF Groups!NoOrder, Groups!OrderRow, Groups!OrderStatus, Groups!VenueStatus
  <2>2. answer' \in [Groups!Legs -> Groups!OrderRow]
    BY <2>1
  <2>3. /\ plan' \in [Groups!Legs -> Nat] /\ exchange' \in [Groups!Legs -> Groups!OrderRow]
        /\ owed' \subseteq Groups!Legs /\ crashes' \in 0 .. MaxCrashes
    BY DEF GroupInv, Groups!TypeOK
  <2>4. working' \in 0 .. MaxIntents
    BY DEF Groups!GroupsAssumption
  <2>. QED BY <2>2, <2>3, <2>4 DEF Groups!TypeOK
<1>3. WorkerHas'
  BY DEF WorkerHas, Groups!Legs, Groups!Intents, Groups!NoOrder
<1>. QED BY <1>1, <1>2, <1>3, RestKeeps

LEMMA RecordKeeps ==
  ASSUME Groups!GroupsAssumption, GroupInv, Groups!Record
  PROVE  GroupInv'
<1>1. phase = "sent"
  BY DEF Groups!Record
<1>2. PICK i \in Groups!Intents : i = working /\ i # 0 /\ Newest(i) /\ InHand(i)
  BY <1>1, HandIs
<1>. DEFINE mine     == Groups!LegsOf(i)
            unknown  == {l \in mine : answer[l].status = "UNKNOWN"}
            sure    == mine \ unknown
            newOrder == [l \in Groups!Legs |-> IF l \in unknown THEN [placed[l] EXCEPT !.status = "UNKNOWN"]
                                               ELSE Groups!Ordered(sure, answer)[l]]
            newLeg   == [l \in Groups!Legs |-> IF l \in unknown THEN "UNKNOWN"
                                               ELSE Groups!Legged(sure, answer)[l]]
<1>3. /\ \A l \in mine : answer[l].status # "NONE"
      /\ placed' = newOrder /\ leg' = newLeg
      /\ booked' = Groups!Ledgered(sure, answer)
      /\ \/ unknown = {} /\ Groups!FinishCommand(i, newLeg, newOrder)
         \/ /\ outbox' = [outbox EXCEPT ![i] = "PROCESSING"]
            /\ intent' = [intent EXCEPT ![i].status = "RECOVERY_REQUIRED"]
            /\ group' = group
      /\ phase' = "idle" /\ working' = 0
      /\ answer' = [l \in Groups!Legs |-> Groups!NoOrder]
      /\ UNCHANGED <<plan, exchange, owed, told, crashes>>
  BY <1>1, <1>2 DEF Groups!Record, Groups!Waiting, Groups!world
<1>4. /\ intent[i].status \in {"RUNNING", "VOIDED"}
      /\ \A l \in mine : /\ placed[l].filled = 0 /\ AnswerIs(l)
                         /\ \/ placed[l].status = "INITIALIZED"
                            \/ placed[l].status = "CANCELED" /\ leg[l] = "CANCELED"
  BY <1>1, <1>2 DEF GroupInv, WorkerHas
<1>5. /\ placed \in [Groups!Legs -> Groups!OrderRow] /\ leg \in [Groups!Legs -> Groups!LegStatus]
      /\ booked \in [Groups!Legs -> Nat] /\ told \in [Groups!Legs -> Nat]
  BY DEF GroupInv, Groups!TypeOK
<1>6. ASSUME NEW l \in Groups!Legs, l \notin mine
      PROVE  placed'[l] = placed[l] /\ leg'[l] = leg[l] /\ booked'[l] = booked[l]
  BY <1>3, <1>6 DEF Groups!Ordered, Groups!Legged, Groups!Ledgered
<1>7. ASSUME NEW l \in mine
      PROVE  /\ LegIs(l)' /\ placed'[l] \in Groups!OrderRow
             /\ leg'[l] \in {"SUBMITTED", "PARTIALLY_FILLED", "FILLED", "FAILED", "UNKNOWN"}
             /\ booked'[l] \in Nat /\ booked'[l] >= booked[l]
  <2>1. l \in Groups!Legs /\ plan[l] > 0 /\ plan[l] \in Nat /\ l[1] = i
    BY <1>7, GroupFacts DEF Groups!LegsOf
  <2>2. CASE l \in unknown
    <3>1. /\ placed'[l] = [placed[l] EXCEPT !.status = "UNKNOWN"] /\ leg'[l] = "UNKNOWN"
          /\ booked'[l] = booked[l]
      BY <1>3, <2>1, <2>2 DEF Groups!Ledgered
    <3>2. placed'[l] \in Groups!OrderRow /\ placed'[l].status = "UNKNOWN" /\ placed'[l].filled = placed[l].filled
      BY <1>5, <2>1, <3>1 DEF Groups!OrderRow, Groups!OrderStatus
    <3>3. LegIs(l) /\ booked[l] \in Nat
      BY <2>1, <1>5 DEF GroupInv
    <3>4. LegIs(l)'
      <4>1. plan'[l] = plan[l] /\ exchange'[l] = exchange[l] /\ told'[l] = told[l] /\ owed' = owed
        BY <1>3
      <4>. HIDE DEF mine, unknown, sure, newOrder, newLeg
      <4>. QED BY <2>1, <3>1, <3>2, <3>3, <4>1 DEF LegIs, RowIs
    <3>. QED BY <3>1, <3>2, <3>3, <3>4
  <2>3. CASE l \notin unknown
    <3>1. /\ placed'[l] = Groups!GatewayOrder(placed[l], answer[l], plan[l])
          /\ leg'[l] = Groups!GatewayLeg(placed[l], answer[l], plan[l])
          /\ booked'[l] = Groups!Larger(booked[l], Groups!GatewayOrder(placed[l], answer[l], plan[l]).filled)
      BY <1>3, <1>7, <2>1, <2>3 DEF Groups!Ordered, Groups!Legged, Groups!Ledgered
    <3>2. ReportIsTrue(answer[l], exchange[l], l \in owed) /\ answer[l] \in Groups!OrderRow
      BY <1>3, <1>4, <1>7, <2>1, <2>3, GroupFacts DEF AnswerIs
    <3>. HIDE DEF mine, unknown, sure, newOrder, newLeg
    <3>. QED BY <1>3, <2>1, <3>1, <3>2, Reported
  <2>. QED BY <2>2, <2>3
<1>8. /\ placed' \in [Groups!Legs -> Groups!OrderRow] /\ leg' \in [Groups!Legs -> Groups!LegStatus]
      /\ booked' \in [Groups!Legs -> Nat] /\ told' \in [Groups!Legs -> Nat]
  <2>1. \A l \in Groups!Legs : /\ placed'[l] \in Groups!OrderRow /\ leg'[l] \in Groups!LegStatus
                               /\ booked'[l] \in Nat
    <3>. TAKE l \in Groups!Legs
    <3>1. CASE l \in mine
      BY <1>7, <3>1 DEF Groups!LegStatus
    <3>2. CASE l \notin mine
      BY <1>5, <1>6, <3>2
    <3>. QED BY <3>1, <3>2
  <2>2. DOMAIN placed' = Groups!Legs /\ DOMAIN leg' = Groups!Legs /\ DOMAIN booked' = Groups!Legs
    BY <1>3 DEF Groups!Ledgered
  <2>3. /\ placed' = [l \in Groups!Legs |-> placed'[l]] /\ leg' = [l \in Groups!Legs |-> leg'[l]]
        /\ booked' = [l \in Groups!Legs |-> booked'[l]]
    BY <1>3 DEF Groups!Ledgered
  <2>. HIDE DEF mine, unknown, sure, newOrder, newLeg
  <2>. QED BY <1>3, <1>5, <2>1, <2>3
<1>9. \A l \in mine : VoidCloses(l)'
  BY <1>7 DEF VoidCloses
<1>10. GroupShows(i) /\ group \in {Busy(i), "voided"}
  BY <1>2, <1>4 DEF GroupInv, NewestIs, GroupShows
<1>11. /\ intent' \in [Groups!Intents -> Groups!IntentRow] /\ group' \in Groups!GroupStatus
       /\ outbox' \in [Groups!Intents -> Groups!OutboxStatus] /\ group' \notin {"absent", "open_partial"}
       /\ \A j \in Groups!Intents : j # i => intent'[j] = intent[j] /\ outbox'[j] = outbox[j]
       /\ intent'[i].kind = intent[i].kind /\ intent'[i].prev = intent[i].prev
       /\ intent'[i].status # "ABSENT" /\ NewestIs(i)'
  <2>1. \E l \in Groups!LegsOf(i) : leg'[l] \notin {"PLANNED", "CANCELED"}
    BY <1>2, <1>7, SomeLeg DEF Newest
  <2>. HIDE DEF mine, unknown, sure, newOrder, newLeg
  <2>2. CASE Groups!FinishCommand(i, newLeg, newOrder)
    <3>1. newLeg \in [Groups!Legs -> Groups!LegStatus] /\ leg' = newLeg /\ plan' = plan
      BY <1>3, <1>8
    <3>. QED BY <1>2, <2>1, <2>2, <3>1, FinishTells
  <2>3. CASE /\ outbox' = [outbox EXCEPT ![i] = "PROCESSING"]
             /\ intent' = [intent EXCEPT ![i].status = "RECOVERY_REQUIRED"]
             /\ group' = group
    BY <1>2, <1>10, <2>3, AskedAgain
  <2>. QED BY <1>3, <2>2, <2>3
<1>. HIDE DEF unknown, sure, newOrder, newLeg
<1>. QED BY <1>2, <1>3, <1>6, <1>7, <1>8, <1>9, <1>11, RowsKeep

(* The rows of the legs of S, once their venues have answered.             *)
LEMMA VenuesTell ==
  ASSUME Groups!GroupsAssumption, GroupInv, NEW i \in Groups!Intents,
         NEW S \in SUBSET Groups!LegsOf(i), \A l \in S : exchange[l].status # "NONE",
         placed' = Groups!Ordered(S, exchange), leg' = Groups!Legged(S, exchange),
         booked' = Groups!Ledgered(S, exchange),
         UNCHANGED <<plan, exchange, owed, told, working>>
  PROVE  /\ placed' \in [Groups!Legs -> Groups!OrderRow] /\ leg' \in [Groups!Legs -> Groups!LegStatus]
         /\ booked' \in [Groups!Legs -> Nat] /\ told' \in [Groups!Legs -> Nat]
         /\ \A l \in Groups!Legs : l \notin S => /\ placed'[l] = placed[l] /\ leg'[l] = leg[l]
                                                 /\ booked'[l] = booked[l]
         /\ \A l \in S : leg'[l] \in {"SUBMITTED", "PARTIALLY_FILLED", "FILLED", "FAILED"}
         /\ \A l \in Groups!LegsOf(i) : booked'[l] >= booked[l] /\ LegIs(l)'
<1>1. /\ placed \in [Groups!Legs -> Groups!OrderRow] /\ leg \in [Groups!Legs -> Groups!LegStatus]
      /\ booked \in [Groups!Legs -> Nat] /\ told \in [Groups!Legs -> Nat]
      /\ exchange \in [Groups!Legs -> Groups!OrderRow]
  BY DEF GroupInv, Groups!TypeOK
<1>2. ASSUME NEW l \in Groups!Legs, l \notin S
      PROVE  placed'[l] = placed[l] /\ leg'[l] = leg[l] /\ booked'[l] = booked[l]
  BY <1>2 DEF Groups!Ordered, Groups!Legged, Groups!Ledgered
<1>3. ASSUME NEW l \in S
      PROVE  /\ LegIs(l)' /\ placed'[l] \in Groups!OrderRow
             /\ leg'[l] \in {"SUBMITTED", "PARTIALLY_FILLED", "FILLED", "FAILED"}
             /\ booked'[l] \in Nat /\ booked'[l] >= booked[l]
  <2>1. l \in Groups!Legs /\ exchange[l] \in Groups!OrderRow
    BY <1>1, <1>3 DEF Groups!LegsOf
  <2>2. ReportIsTrue(exchange[l], exchange[l], l \in owed) /\ plan[l] > 0
    BY <1>3, <2>1, VenueTells
  <2>3. /\ placed'[l] = Groups!GatewayOrder(placed[l], exchange[l], plan[l])
        /\ leg'[l] = Groups!GatewayLeg(placed[l], exchange[l], plan[l])
        /\ booked'[l] = Groups!Larger(booked[l], Groups!GatewayOrder(placed[l], exchange[l], plan[l]).filled)
    BY <1>3, <2>1 DEF Groups!Ordered, Groups!Legged, Groups!Ledgered
  <2>. QED BY <2>1, <2>2, <2>3, Reported
<1>4. ASSUME NEW l \in Groups!LegsOf(i) PROVE booked'[l] >= booked[l] /\ LegIs(l)'
  <2>1. l \in Groups!Legs
    BY DEF Groups!LegsOf
  <2>2. CASE l \in S
    BY <1>3, <2>2
  <2>3. CASE l \notin S
    <3>1. placed'[l] = placed[l] /\ leg'[l] = leg[l] /\ booked'[l] = booked[l] /\ booked[l] \in Nat
      BY <1>1, <1>2, <2>1, <2>3
    <3>2. LegIs(l)
      BY <2>1 DEF GroupInv
    <3>. QED BY <3>1, <3>2 DEF LegIs
  <2>. QED BY <2>2, <2>3
<1>5. \A l \in Groups!Legs : placed'[l] \in Groups!OrderRow /\ leg'[l] \in Groups!LegStatus /\ booked'[l] \in Nat
  <2>. TAKE l \in Groups!Legs
  <2>1. CASE l \in S
    BY <1>3, <2>1 DEF Groups!LegStatus
  <2>2. CASE l \notin S
    BY <1>1, <1>2, <2>2
  <2>. QED BY <2>1, <2>2
<1>6. /\ placed' = [l \in Groups!Legs |-> placed'[l]] /\ leg' = [l \in Groups!Legs |-> leg'[l]]
      /\ booked' = [l \in Groups!Legs |-> booked'[l]]
  BY DEF Groups!Ordered, Groups!Legged, Groups!Ledgered
<1>7. /\ placed' \in [Groups!Legs -> Groups!OrderRow] /\ leg' \in [Groups!Legs -> Groups!LegStatus]
      /\ booked' \in [Groups!Legs -> Nat] /\ told' \in [Groups!Legs -> Nat]
  BY <1>1, <1>5, <1>6
<1>. QED BY <1>2, <1>3, <1>4, <1>7

LEMMA IdleIs ==
  ASSUME Groups!GroupsAssumption, GroupInv, phase = "idle"
  PROVE  working = 0 /\ answer = [l \in Groups!Legs |-> Groups!NoOrder]
BY DEF GroupInv, WorkerHas

LEMMA RecoverKeeps ==
  ASSUME Groups!GroupsAssumption, GroupInv, NEW i \in Groups!Intents,
         NEW S \in SUBSET Groups!LegsOf(i), Groups!Recover(i, S)
  PROVE  GroupInv'
<1>. DEFINE inquired  == {l \in Groups!LegsOf(i) : Groups!Askable(l)}
            newLeg == Groups!Legged(S, exchange)
<1>1. /\ phase = "idle" /\ outbox[i] = "PROCESSING"
      /\ S \subseteq inquired /\ \A l \in S : exchange[l].status # "NONE"
      /\ placed' = Groups!Ordered(S, exchange) /\ leg' = newLeg /\ booked' = Groups!Ledgered(S, exchange)
      /\ \/ /\ S = inquired /\ \A l \in Groups!LegsOf(i) : placed[l].status # "NONE"
            /\ Groups!FinishCommand(i, newLeg, placed)
         \/ /\ outbox' = [outbox EXCEPT ![i] = "FAILED"]
            /\ intent' = [intent EXCEPT ![i].status = "RECOVERY_REQUIRED"]
            /\ group' = group
      /\ UNCHANGED <<plan, exchange, owed, told, phase, working, answer, crashes>>
  BY DEF Groups!Recover, Groups!world, Groups!worker
<1>2. Groups!Exists(i) /\ ~ Past(i)
  BY <1>1 DEF GroupInv, InSequence, PastIs
<1>3. Newest(i)
  BY <1>2, GroupFacts
<1>4. GroupShows(i) /\ group \in {Busy(i), "voided"}
  BY <1>1, <1>3 DEF GroupInv, NewestIs
<1>5. ASSUME NEW l \in Groups!LegsOf(i) PROVE leg[l] # "CANCELED" /\ l \in Groups!Legs
  <2>1. l \in Groups!Legs /\ l[1] = i
    BY DEF Groups!LegsOf
  <2>. QED BY <1>1, <2>1 DEF GroupInv, VoidCloses
<1>6. working = 0 /\ answer = [l \in Groups!Legs |-> Groups!NoOrder]
  BY <1>1, IdleIs
<1>7. /\ placed' \in [Groups!Legs -> Groups!OrderRow] /\ leg' \in [Groups!Legs -> Groups!LegStatus]
      /\ booked' \in [Groups!Legs -> Nat] /\ told' \in [Groups!Legs -> Nat]
      /\ \A l \in Groups!Legs : l \notin S => /\ placed'[l] = placed[l] /\ leg'[l] = leg[l]
                                              /\ booked'[l] = booked[l]
      /\ \A l \in S : leg'[l] \in {"SUBMITTED", "PARTIALLY_FILLED", "FILLED", "FAILED"}
      /\ \A l \in Groups!LegsOf(i) : booked'[l] >= booked[l] /\ LegIs(l)'
  BY <1>1, VenuesTell
<1>8. ASSUME NEW l \in Groups!LegsOf(i) PROVE VoidCloses(l)'
  <2>1. leg'[l] # "CANCELED"
    BY <1>5, <1>7
  <2>. QED BY <2>1 DEF VoidCloses
<1>9. /\ intent' \in [Groups!Intents -> Groups!IntentRow] /\ group' \in Groups!GroupStatus
      /\ outbox' \in [Groups!Intents -> Groups!OutboxStatus] /\ group' \notin {"absent", "open_partial"}
      /\ \A j \in Groups!Intents : j # i => intent'[j] = intent[j] /\ outbox'[j] = outbox[j]
      /\ intent'[i].kind = intent[i].kind /\ intent'[i].prev = intent[i].prev
      /\ intent'[i].status # "ABSENT" /\ NewestIs(i)'
  <2>1. CASE /\ S = inquired /\ \A l \in Groups!LegsOf(i) : placed[l].status # "NONE"
             /\ Groups!FinishCommand(i, newLeg, placed)
    <3>1. PICK l \in Groups!LegsOf(i) : l \in Groups!Legs
      BY <1>2, SomeLeg
    <3>2. leg'[l] \notin {"PLANNED", "CANCELED"}
      <4>1. CASE l \in S
        BY <1>7, <4>1
      <4>2. CASE l \notin S
        <5>1. ~ Groups!Askable(l) /\ placed[l].status # "NONE" /\ LegIs(l)
          BY <2>1, <3>1, <4>2 DEF GroupInv
        <5>2. leg[l] # "PLANNED"
          BY <5>1 DEF LegIs, RowIs, Groups!Askable, Groups!NonTerminalOrderStatuses
        <5>. QED BY <1>5, <1>7, <3>1, <4>2, <5>2
      <4>. QED BY <4>1, <4>2
    <3>3. newLeg \in [Groups!Legs -> Groups!LegStatus] /\ leg' = newLeg /\ plan' = plan
      BY <1>1, <1>7
    <3>. HIDE DEF newLeg
    <3>. QED BY <1>3, <2>1, <3>2, <3>3, FinishTells
  <2>2. CASE /\ outbox' = [outbox EXCEPT ![i] = "FAILED"]
             /\ intent' = [intent EXCEPT ![i].status = "RECOVERY_REQUIRED"]
             /\ group' = group
    BY <1>3, <1>4, <2>2, AskedAgain
  <2>. QED BY <1>1, <2>1, <2>2
<1>. HIDE DEF inquired, newLeg
<1>10. /\ phase' = "idle" /\ working' = 0 /\ answer' = [l \in Groups!Legs |-> Groups!NoOrder]
       /\ UNCHANGED <<plan, exchange, crashes>> /\ owed' \subseteq owed /\ told' = told
  BY <1>1, <1>6
<1>11. \A l \in Groups!Legs : l \notin Groups!LegsOf(i) =>
            /\ placed'[l] = placed[l] /\ booked'[l] = booked[l]
            /\ told'[l] = told[l] /\ leg'[l] = leg[l]
  BY <1>7, <1>10
<1>. QED BY <1>3, <1>7, <1>8, <1>9, <1>10, <1>11, RowsKeep

(* An intent has no third leg.                                             *)
LEMMA TwoLegs ==
  ASSUME Groups!GroupsAssumption, GroupInv, NEW i \in Groups!Intents,
         NEW l \in Groups!LegsOf(i), NEW m \in Groups!LegsOf(i), l # m
  PROVE  \A n \in Groups!LegsOf(i) : n = l \/ n = m
<1>1. PICK a, b \in Venues : a # b /\ Venues = {a, b}
  BY DEF Groups!GroupsAssumption
<1>2. \A n \in Groups!LegsOf(i) : n = <<i, a>> \/ n = <<i, b>>
  <2>. TAKE n \in Groups!LegsOf(i)
  <2>1. n \in Groups!Legs /\ n[1] = i
    BY DEF Groups!LegsOf
  <2>2. n[2] \in Venues /\ n = <<n[1], n[2]>>
    BY <2>1 DEF Groups!Legs
  <2>. QED BY <1>1, <2>1, <2>2
<1>. QED BY <1>2

LEMMA ReconcileKeeps ==
  ASSUME Groups!GroupsAssumption, GroupInv, NEW l \in Groups!Legs, Groups!Reconcile(l)
  PROVE  GroupInv'
<1>. DEFINE newLeg == Groups!Legged({l}, exchange)
<1>0. PICK i \in Groups!Intents : i = l[1]
  BY GroupFacts
<1>1. /\ phase = "idle" /\ Groups!Askable(l) /\ exchange[l].status # "NONE"
      /\ intent[i].status \in {"RUNNING", "RECOVERY_REQUIRED"} /\ outbox[i] = "SENT"
      /\ placed' = Groups!Ordered({l}, exchange) /\ leg' = newLeg /\ booked' = Groups!Ledgered({l}, exchange)
      /\ Groups!FinishCommand(i, newLeg, Groups!Ordered({l}, exchange))
      /\ UNCHANGED <<plan, exchange, owed, told, phase, working, answer, crashes>>
  BY <1>0 DEF Groups!Reconcile, Groups!world, Groups!worker
<1>2. Groups!Exists(i) /\ ~ Past(i)
  BY <1>1 DEF Groups!Exists, GroupInv, PastIs
<1>3. Newest(i)
  BY <1>2, GroupFacts
<1>4. l \in Groups!LegsOf(i)
  BY <1>0, <1>1, VenueTells DEF Groups!LegsOf
<1>5. working = 0 /\ answer = [m \in Groups!Legs |-> Groups!NoOrder]
  BY <1>1, IdleIs
<1>6. /\ placed' \in [Groups!Legs -> Groups!OrderRow] /\ leg' \in [Groups!Legs -> Groups!LegStatus]
      /\ booked' \in [Groups!Legs -> Nat] /\ told' \in [Groups!Legs -> Nat]
      /\ \A m \in Groups!Legs : m # l => /\ placed'[m] = placed[m] /\ leg'[m] = leg[m]
                                         /\ booked'[m] = booked[m]
      /\ leg'[l] \in {"SUBMITTED", "PARTIALLY_FILLED", "FILLED", "FAILED"}
      /\ \A m \in Groups!LegsOf(i) : booked'[m] >= booked[m] /\ LegIs(m)'
  <2>1. {l} \in SUBSET Groups!LegsOf(i) /\ (\A m \in {l} : exchange[m].status # "NONE")
    BY <1>1, <1>4
  <2>. HIDE DEF newLeg
  <2>2. leg' = Groups!Legged({l}, exchange)
    BY <1>1 DEF newLeg
  <2>3. /\ placed' \in [Groups!Legs -> Groups!OrderRow] /\ leg' \in [Groups!Legs -> Groups!LegStatus]
        /\ booked' \in [Groups!Legs -> Nat] /\ told' \in [Groups!Legs -> Nat]
        /\ \A m \in Groups!Legs : m \notin {l} => /\ placed'[m] = placed[m] /\ leg'[m] = leg[m]
                                                  /\ booked'[m] = booked[m]
        /\ \A m \in {l} : leg'[m] \in {"SUBMITTED", "PARTIALLY_FILLED", "FILLED", "FAILED"}
        /\ \A m \in Groups!LegsOf(i) : booked'[m] >= booked[m] /\ LegIs(m)'
    BY <1>1, <2>1, <2>2, VenuesTell
  <2>. QED BY <2>3
<1>7. ASSUME NEW m \in Groups!LegsOf(i), m # l PROVE leg[m] # "CANCELED"
  <2>. SUFFICES ASSUME leg[m] = "CANCELED" PROVE FALSE
    OBVIOUS
  <2>1. m \in Groups!Legs /\ m[1] = i
    BY DEF Groups!LegsOf
  <2>2. VoidCloses(m) /\ i = 1
    BY <2>1 DEF GroupInv, VoidCloses
  <2>3. placed[l].status \notin {"FILLED", "CANCELED", "REJECTED"}
    BY <1>1 DEF Groups!Askable, Groups!NonTerminalOrderStatuses
  <2>4. leg[l] = "CANCELED"
    BY <1>4, <2>2, <2>3 DEF VoidCloses
  <2>5. PICK n \in Groups!LegsOf(i) : leg[n] \notin {"PLANNED", "CANCELED"}
    BY <1>1, <1>3 DEF GroupInv, NewestIs, RowsTell
  <2>6. n = l \/ n = m
    BY <1>4, <1>7, TwoLegs
  <2>. QED BY <2>4, <2>5, <2>6
<1>8. ASSUME NEW m \in Groups!LegsOf(i) PROVE VoidCloses(m)'
  <2>1. m \in Groups!Legs
    BY DEF Groups!LegsOf
  <2>2. leg'[m] # "CANCELED"
    BY <1>6, <1>7, <2>1
  <2>. QED BY <2>2 DEF VoidCloses
<1>9. /\ intent' \in [Groups!Intents -> Groups!IntentRow] /\ group' \in Groups!GroupStatus
      /\ outbox' \in [Groups!Intents -> Groups!OutboxStatus] /\ group' \notin {"absent", "open_partial"}
      /\ \A j \in Groups!Intents : j # i => intent'[j] = intent[j] /\ outbox'[j] = outbox[j]
      /\ intent'[i].kind = intent[i].kind /\ intent'[i].prev = intent[i].prev
      /\ intent'[i].status # "ABSENT" /\ NewestIs(i)'
  <2>1. leg'[l] \notin {"PLANNED", "CANCELED"}
    BY <1>6
  <2>2. newLeg \in [Groups!Legs -> Groups!LegStatus] /\ leg' = newLeg /\ plan' = plan
    BY <1>1, <1>6
  <2>. HIDE DEF newLeg
  <2>. QED BY <1>1, <1>3, <1>4, <2>1, <2>2, FinishTells
<1>. HIDE DEF newLeg
<1>10. /\ phase' = "idle" /\ working' = 0 /\ answer' = [m \in Groups!Legs |-> Groups!NoOrder]
       /\ UNCHANGED <<plan, exchange, crashes>> /\ owed' \subseteq owed /\ told' = told
  BY <1>1, <1>5
<1>11. \A m \in Groups!Legs : m \notin Groups!LegsOf(i) =>
            /\ placed'[m] = placed[m] /\ booked'[m] = booked[m]
            /\ told'[m] = told[m] /\ leg'[m] = leg[m]
  BY <1>4, <1>6, <1>10
<1>. QED BY <1>3, <1>6, <1>8, <1>9, <1>10, <1>11, RowsKeep

LEMMA ProjectKeeps ==
  ASSUME Groups!GroupsAssumption, GroupInv, NEW l \in Groups!Legs, Groups!Project(l)
  PROVE  GroupInv'
<1>. DEFINE arrived     == IF StreamFills THEN exchange[l].filled - told[l] ELSE 0
            sure    == [status |-> placed[l].status,
                         filled |-> Groups!Larger(placed[l].filled, told[l] + arrived)]
            newOrder == [placed EXCEPT ![l] = Groups!EventOrder(sure, exchange[l])]
            newLeg   == [leg EXCEPT ![l] = Groups!EventLeg(sure, exchange[l])]
<1>0. PICK i \in Groups!Intents : i = l[1]
  BY GroupFacts
<1>1. /\ phase = "idle" /\ l \in owed
      /\ placed' = newOrder /\ leg' = newLeg
      /\ booked' = [booked EXCEPT ![l] = @ + arrived] /\ told' = [told EXCEPT ![l] = @ + arrived]
      /\ owed' = owed \ {l}
      /\ Groups!FinishCommand(i, newLeg, newOrder)
      /\ UNCHANGED <<plan, exchange, phase, working, answer, crashes>>
  BY <1>0 DEF Groups!Project, Groups!worker
<1>2. /\ placed \in [Groups!Legs -> Groups!OrderRow] /\ leg \in [Groups!Legs -> Groups!LegStatus]
      /\ booked \in [Groups!Legs -> Nat] /\ told \in [Groups!Legs -> Nat]
      /\ exchange \in [Groups!Legs -> Groups!OrderRow]
  BY DEF GroupInv, Groups!TypeOK
<1>3. Newest(i) /\ plan[l] > 0 /\ plan[l] \in Nat /\ l \in Groups!LegsOf(i)
  BY <1>0, <1>1, GroupFacts
<1>4. working = 0 /\ answer = [m \in Groups!Legs |-> Groups!NoOrder]
  BY <1>1, IdleIs
<1>5. /\ RowIs(plan[l], placed[l], exchange[l], booked[l], told[l], leg[l], l \in owed, working # l[1])
      /\ exchange[l].status # "NONE" /\ working # l[1]
  <2>1. working # l[1]
    BY <1>0, <1>4, GroupFacts
  <2>2. LegIs(l)
    BY DEF GroupInv
  <2>. QED BY <1>1, <2>1, <2>2 DEF LegIs, RowIs
<1>6. arrived \in Nat /\ (arrived = 0 \/ arrived = exchange[l].filled - told[l])
  <2>1. told[l] <= exchange[l].filled /\ told[l] \in Nat /\ exchange[l].filled \in Nat
    BY <1>2, <1>5 DEF RowIs, Groups!OrderRow
  <2>. QED BY <2>1
<1>. HIDE DEF arrived
<1>7. /\ placed'[l] \in Groups!OrderRow /\ placed'[l] = exchange[l]
      /\ leg'[l] \in {"SUBMITTED", "PARTIALLY_FILLED", "FILLED", "FAILED"}
      /\ exchange[l].status # "ACCEPTED" => leg'[l] # "SUBMITTED"
      /\ leg'[l] = "FAILED" => booked'[l] = 0
      /\ \A owing, after \in BOOLEAN :
            RowIs(plan[l], placed'[l], exchange[l], booked'[l], told'[l], leg'[l], owing, after)
      /\ booked'[l] = booked[l] + arrived /\ told'[l] = told[l] + arrived
  <2>. DEFINE shown == [status |-> placed[l].status,
                        filled |-> Groups!Larger(placed[l].filled, told'[l])]
  <2>1. /\ placed'[l] = Groups!EventOrder(shown, exchange[l]) /\ leg'[l] = Groups!EventLeg(shown, exchange[l])
        /\ booked'[l] = booked[l] + arrived /\ told'[l] = told[l] + arrived
    BY <1>1, <1>2
  <2>2. /\ placed[l] \in Groups!OrderRow /\ exchange[l] \in Groups!OrderRow /\ booked[l] \in Nat
        /\ told[l] \in Nat /\ plan[l] \in Nat \ {0}
    BY <1>2, <1>3
  <2>3. /\ placed[l].filled \in Nat /\ exchange[l].filled \in Nat /\ placed[l].filled <= exchange[l].filled
        /\ told[l] <= exchange[l].filled /\ (placed[l].filled = 0 => booked[l] = 0)
    BY <1>5, <2>2 DEF RowIs, Groups!OrderRow
  <2>4. /\ booked'[l] \in Nat /\ told'[l] \in Nat
        /\ exchange[l].filled = 0 => booked'[l] = 0
        /\ told'[l] <= exchange[l].filled
    BY <1>6, <2>1, <2>2, <2>3
  <2>5. /\ Groups!EventOrder(shown, exchange[l]) = exchange[l]
        /\ Groups!EventLeg(shown, exchange[l]) \in {"SUBMITTED", "PARTIALLY_FILLED", "FILLED", "FAILED"}
        /\ exchange[l].status # "ACCEPTED" => Groups!EventLeg(shown, exchange[l]) # "SUBMITTED"
        /\ Groups!EventLeg(shown, exchange[l]) = "FAILED" => booked'[l] = 0
        /\ \A owing, after \in BOOLEAN :
              RowIs(plan[l], Groups!EventOrder(shown, exchange[l]), exchange[l], booked'[l], told'[l],
                    Groups!EventLeg(shown, exchange[l]), owing, after)
    BY <1>5, <2>2, <2>4, EventRow
  <2>. HIDE DEF shown
  <2>. QED BY <2>1, <2>2, <2>5
<1>8. \A m \in Groups!Legs : m # l =>
         placed'[m] = placed[m] /\ leg'[m] = leg[m] /\ booked'[m] = booked[m] /\ told'[m] = told[m]
  BY <1>1, <1>2
<1>9. newLeg \in [Groups!Legs -> Groups!LegStatus] /\ leg' = newLeg
  BY <1>1, <1>2, <1>7 DEF Groups!LegStatus
<1>10. /\ placed' \in [Groups!Legs -> Groups!OrderRow] /\ leg' \in [Groups!Legs -> Groups!LegStatus]
       /\ booked' \in [Groups!Legs -> Nat] /\ told' \in [Groups!Legs -> Nat]
  <2>1. booked[l] + arrived \in Nat /\ told[l] + arrived \in Nat
    BY <1>2, <1>6
  <2>2. placed' \in [Groups!Legs -> Groups!OrderRow]
    BY <1>1, <1>2, <1>7
  <2>. QED BY <1>1, <1>2, <1>9, <2>1, <2>2
<1>11. /\ intent' \in [Groups!Intents -> Groups!IntentRow] /\ group' \in Groups!GroupStatus
       /\ outbox' \in [Groups!Intents -> Groups!OutboxStatus] /\ group' \notin {"absent", "open_partial"}
       /\ \A j \in Groups!Intents : j # i => intent'[j] = intent[j] /\ outbox'[j] = outbox[j]
       /\ intent'[i].kind = intent[i].kind /\ intent'[i].prev = intent[i].prev
       /\ intent'[i].status \in {"COMPLETED", "FAILED", "RECOVERY_REQUIRED", "RUNNING"}
       /\ outbox'[i] = "SENT" /\ NewestIs(i)'
       /\ intent'[i].status = "COMPLETED" => \A m \in Groups!LegsOf(i) : leg'[m] = "FILLED"
       /\ intent'[i].status = "RECOVERY_REQUIRED" =>
             /\ \E m \in Groups!LegsOf(i) : leg'[m] = "FAILED"
             /\ \E m \in Groups!LegsOf(i) : leg'[m] \in Groups!NonTerminalLegStatuses
  <2>1. leg'[l] \notin {"PLANNED", "CANCELED"} /\ plan' = plan
    BY <1>1, <1>7
  <2>2. Groups!FinishCommand(i, newLeg, newOrder)
    BY <1>1
  <2>. HIDE DEF newLeg, newOrder
  <2>. QED BY <1>3, <1>9, <2>1, <2>2, FinishTells
<1>. HIDE DEF newLeg, newOrder, sure
<1>12. /\ phase' = "idle" /\ working' = 0 /\ answer' = [m \in Groups!Legs |-> Groups!NoOrder]
       /\ UNCHANGED <<plan, exchange, crashes>> /\ owed' = owed \ {l}
  BY <1>1, <1>4
<1>13. RestIsSame(i)
  <2>1. \A m \in Groups!LegsOf(i) : booked'[m] >= booked[m]
    <3>. TAKE m \in Groups!LegsOf(i)
    <3>1. m \in Groups!Legs
      BY DEF Groups!LegsOf
    <3>. QED BY <1>2, <1>6, <1>7, <1>8, <3>1
  <2>. QED BY <1>3, <1>8, <1>11, <1>12, <2>1 DEF RestIsSame
<1>14. (\A j \in Groups!Intents : Newest(j)' <=> Newest(j)) /\ Groups!LegsOf(i)' = Groups!LegsOf(i)
  BY <1>3, <1>13, NewestStays
<1>15. ASSUME NEW m \in Groups!LegsOf(i) PROVE booked'[m] >= booked[m] /\ LegIs(m)' /\ VoidCloses(m)'
  <2>1. m \in Groups!Legs /\ m[1] = i
    BY DEF Groups!LegsOf
  <2>2. CASE m = l
    <3>1. l \notin owed' /\ working' # l[1] /\ plan'[l] = plan[l] /\ exchange'[l] = exchange[l]
      BY <1>0, <1>12, GroupFacts
    <3>2. (l \in owed') \in BOOLEAN /\ (working' # l[1]) \in BOOLEAN
      OBVIOUS
    <3>3. LegIs(l)'
      BY <1>7, <3>1, <3>2 DEF LegIs
    <3>4. booked'[l] >= booked[l]
      BY <1>2, <1>6, <1>7
    <3>. QED BY <1>7, <2>2, <3>3, <3>4 DEF VoidCloses
  <2>3. CASE m # l
    <3>1. /\ placed'[m] = placed[m] /\ leg'[m] = leg[m] /\ booked'[m] = booked[m] /\ told'[m] = told[m]
          /\ booked[m] \in Nat
      BY <1>2, <1>8, <2>1, <2>3
    <3>2. LegIs(m)'
      <4>1. (m \in owed') = (m \in owed) /\ (working' # m[1]) = (working # m[1])
        BY <1>4, <1>12, <2>3
      <4>2. LegIs(m)
        BY <2>1 DEF GroupInv
      <4>. QED BY <1>12, <3>1, <4>1, <4>2 DEF LegIs
    <3>3. ASSUME leg'[m] = "CANCELED" PROVE VoidCloses(m)'
      <4>1. leg[m] = "CANCELED" /\ VoidCloses(m) /\ i = 1 /\ Newest(1)' /\ m[1] = 1
        BY <1>3, <1>14, <2>1, <3>1, <3>3 DEF GroupInv, VoidCloses
      <4>2. \A n \in Groups!LegsOf(i) : n = l \/ n = m
        BY <1>3, <2>3, TwoLegs
      <4>3. intent'[i].status \in {"RUNNING", "FAILED"}
        BY <1>7, <1>11, <3>3, <4>2 DEF Groups!NonTerminalLegStatuses
      <4>4. exchange[l].status \in {"FILLED", "CANCELED"}
        <5>. SUFFICES ASSUME exchange[l].status = "ACCEPTED" PROVE FALSE
          BY <1>5 DEF RowIs, AtVenueIs
        <5>1. placed[l].status \in {"ACCEPTED", "UNKNOWN"}
          BY <1>1, <1>5 DEF RowIs
        <5>2. leg[l] = "CANCELED"
          BY <1>3, <4>1, <5>1 DEF VoidCloses
        <5>3. VoidCloses(l)
          BY DEF GroupInv
        <5>. QED BY <5>1, <5>2, <5>3 DEF VoidCloses
      <4>5. /\ placed'[l].status \in {"FILLED", "CANCELED", "REJECTED"}
            /\ leg'[l] \in {"FILLED", "FAILED", "PARTIALLY_FILLED"}
            /\ leg'[l] = "FAILED" => booked'[l] = 0
        BY <1>7, <4>4
      <4>6. placed'[m].filled = 0 /\ placed'[m].status \in {"NONE", "INITIALIZED", "CANCELED"}
        BY <3>1, <4>1 DEF VoidCloses
      <4>. QED BY <1>11, <1>14, <3>3, <4>1, <4>2, <4>3, <4>5, <4>6 DEF VoidCloses
    <3>4. VoidCloses(m)'
      BY <3>3 DEF VoidCloses
    <3>. QED BY <3>1, <3>2, <3>4
  <2>. QED BY <2>2, <2>3
<1>16. \A m \in Groups!Legs : m \notin Groups!LegsOf(i) =>
            /\ placed'[m] = placed[m] /\ booked'[m] = booked[m]
            /\ told'[m] = told[m] /\ leg'[m] = leg[m]
  BY <1>3, <1>8
<1>. QED BY <1>3, <1>10, <1>11, <1>12, <1>15, <1>16, RowsKeep

-----------------------------------------------------------------------------
(* A group is voided as long as nothing was filled: there was one command. *)
LEMMA VoidKeeps ==
  ASSUME Groups!GroupsAssumption, GroupInv, Groups!Void
  PROVE  GroupInv'
<1>0. /\ group \notin {"absent", "voided"}
      /\ \A l \in Groups!Legs : /\ placed[l].filled = 0 /\ booked[l] = 0
                                /\ placed[l].status \in {"NONE", "INITIALIZED", "REJECTED", "CANCELED"}
      /\ group' = "voided"
      /\ intent' = [i \in Groups!Intents |->
            IF Groups!Exists(i) /\ intent[i].status \notin {"COMPLETED", "FAILED", "VOIDED"}
            THEN [intent[i] EXCEPT !.status = "VOIDED"] ELSE intent[i]]
      /\ leg' = [l \in Groups!Legs |->
            IF plan[l] > 0 /\ leg[l] \notin {"FILLED", "FAILED", "CANCELED"}
            THEN "CANCELED" ELSE leg[l]]
      /\ placed' = [l \in Groups!Legs |-> IF placed[l].status = "INITIALIZED"
                                         THEN [placed[l] EXCEPT !.status = "CANCELED"] ELSE placed[l]]
      /\ outbox' = [i \in Groups!Intents |-> IF outbox[i] \in {"PENDING", "PROCESSING"}
                                             THEN "CANCELED" ELSE outbox[i]]
      /\ UNCHANGED <<plan, booked, exchange, owed, told, phase, working, answer, crashes>>
  BY DEF Groups!Void, Groups!VoidAllowed, Groups!SafeEmptyStatuses, Groups!world, Groups!worker
<1>1. /\ intent \in [Groups!Intents -> Groups!IntentRow] /\ outbox \in [Groups!Intents -> Groups!OutboxStatus]
      /\ placed \in [Groups!Legs -> Groups!OrderRow] /\ leg \in [Groups!Legs -> Groups!LegStatus]
      /\ booked \in [Groups!Legs -> Nat]
  BY DEF GroupInv, Groups!TypeOK
<1>2. Newest(1) /\ 1 \in Groups!Intents /\ \A j \in Groups!Intents : Groups!Exists(j) => j = 1
  <2>1. Groups!Exists(1) /\ 1 \in Groups!Intents
    BY <1>0, GroupFacts DEF GroupInv, InSequence
  <2>2. ~ Past(1)
    <3>. SUFFICES ASSUME Past(1) PROVE FALSE
      OBVIOUS
    <3>1. PICK l \in Groups!Legs : booked[l] > 0
      BY <2>1 DEF GroupInv, PastIs
    <3>. QED BY <1>0, <3>1
  <2>3. Newest(1)
    BY <2>1, <2>2, GroupFacts
  <2>4. \A j \in Groups!Intents : Groups!Exists(j) => j = 1
    BY <2>3, GroupFacts DEF Newest
  <2>. QED BY <2>1, <2>3, <2>4
<1>3. /\ \A j \in Groups!Intents : /\ intent'[j].kind = intent[j].kind /\ intent'[j].prev = intent[j].prev
                                   /\ intent'[j] \in Groups!IntentRow
      /\ \A j \in Groups!Intents : j # 1 => intent'[j] = intent[j] /\ outbox'[j] = outbox[j]
      /\ intent[1].status \in {"COMPLETED", "FAILED", "VOIDED"} => intent'[1] = intent[1]
      /\ intent[1].status \notin {"COMPLETED", "FAILED", "VOIDED"} => intent'[1].status = "VOIDED"
  <2>1. \A j \in Groups!Intents : [intent[j] EXCEPT !.status = "VOIDED"] \in Groups!IntentRow
    BY <1>1 DEF Groups!IntentRow, Groups!IntentStatus
  <2>2. \A j \in Groups!Intents : [intent[j] EXCEPT !.status = "VOIDED"].status = "VOIDED"
                                  /\ [intent[j] EXCEPT !.status = "VOIDED"].kind = intent[j].kind
                                  /\ [intent[j] EXCEPT !.status = "VOIDED"].prev = intent[j].prev
    BY <1>1 DEF Groups!IntentRow
  <2>3. \A j \in Groups!Intents : j # 1 => outbox[j] = "ABSENT" /\ ~ Groups!Exists(j)
    BY <1>2 DEF GroupInv, InSequence
  <2>4. \A j \in Groups!Intents : /\ intent'[j].kind = intent[j].kind /\ intent'[j].prev = intent[j].prev
                                  /\ intent'[j] \in Groups!IntentRow
    BY <1>0, <1>1, <2>1, <2>2
  <2>5. \A j \in Groups!Intents : j # 1 => intent'[j] = intent[j] /\ outbox'[j] = outbox[j]
    BY <1>0, <2>3
  <2>6. /\ intent[1].status \in {"COMPLETED", "FAILED", "VOIDED"} => intent'[1] = intent[1]
        /\ intent[1].status \notin {"COMPLETED", "FAILED", "VOIDED"} => intent'[1].status = "VOIDED"
    BY <1>0, <1>2, <2>2 DEF Newest
  <2>. QED BY <2>4, <2>5, <2>6
<1>4. ASSUME NEW l \in Groups!Legs, l \notin Groups!LegsOf(1)
      PROVE  placed'[l] = placed[l] /\ leg'[l] = leg[l]
  <2>1. plan[l] = 0
    <3>1. ~ (plan[l] > 0) /\ plan[l] \in Nat
      BY <1>2, <1>4, GroupFacts
    <3>. QED BY <3>1
  <2>2. placed[l].status = "NONE"
    BY <2>1 DEF GroupInv, LegIs, RowIs
  <2>. QED BY <1>0, <2>1, <2>2
<1>5. ASSUME NEW l \in Groups!LegsOf(1)
      PROVE  /\ l \in Groups!Legs /\ l[1] = 1 /\ plan[l] > 0 /\ LegIs(l)
             /\ leg[l] \in {"PLANNED", "CANCELED", "FAILED"}
             /\ leg[l] = "FAILED" => leg'[l] = "FAILED" /\ placed'[l] = placed[l]
                                     /\ placed[l].status \in {"CANCELED", "REJECTED"}
             /\ leg[l] # "FAILED" => leg'[l] = "CANCELED" /\ placed'[l].status \in {"NONE", "CANCELED"}
             /\ placed[l].status = "INITIALIZED" => placed'[l].status = "CANCELED"
             /\ placed[l].status # "INITIALIZED" => placed'[l] = placed[l]
             /\ placed'[l] \in Groups!OrderRow /\ placed'[l].filled = 0
  <2>1. l \in Groups!Legs /\ l[1] = 1 /\ plan[l] > 0 /\ LegIs(l) /\ leg[l] \in Groups!LegStatus
    BY <1>1 DEF Groups!LegsOf, GroupInv
  <2>2. leg[l] \in {"PLANNED", "CANCELED", "FAILED"}
    BY <1>0, <2>1 DEF LegIs, RowIs, Groups!LegStatus
  <2>3. /\ [placed[l] EXCEPT !.status = "CANCELED"] \in Groups!OrderRow
        /\ [placed[l] EXCEPT !.status = "CANCELED"].status = "CANCELED"
        /\ [placed[l] EXCEPT !.status = "CANCELED"].filled = placed[l].filled
    BY <1>1, <2>1 DEF Groups!OrderRow, Groups!OrderStatus, Groups!VenueStatus
  <2>4. /\ placed[l].status = "INITIALIZED" => placed'[l].status = "CANCELED"
        /\ placed[l].status # "INITIALIZED" => placed'[l] = placed[l]
        /\ placed'[l] \in Groups!OrderRow /\ placed'[l].filled = 0
    BY <1>0, <1>1, <2>1, <2>3
  <2>5. leg[l] = "FAILED" => leg'[l] = "FAILED" /\ placed[l].status \in {"CANCELED", "REJECTED"}
    BY <1>0, <2>1 DEF LegIs, RowIs
  <2>6. leg[l] # "FAILED" => leg'[l] = "CANCELED" /\ placed[l].status \in {"NONE", "INITIALIZED", "CANCELED"}
    <3>1. leg[l] = "PLANNED" => placed[l].status \in {"NONE", "INITIALIZED"}
      BY <2>1 DEF LegIs, RowIs
    <3>2. leg[l] = "CANCELED" => placed[l].status \in {"NONE", "INITIALIZED", "CANCELED"}
      BY <2>1 DEF GroupInv, VoidCloses
    <3>. QED BY <1>0, <2>1, <2>2, <3>1, <3>2
  <2>. QED BY <2>1, <2>2, <2>4, <2>5, <2>6
<1>6. working \in {0, 1}
  <2>1. CASE phase = "idle"
    BY <2>1, IdleIs
  <2>2. CASE phase # "idle"
    BY <1>2, <2>2, HandIs DEF Newest
  <2>. QED BY <2>1, <2>2
<1>7. RestIsSame(1)
  <2>1. \A l \in Groups!LegsOf(1) : booked'[l] >= booked[l]
    <3>. TAKE l \in Groups!LegsOf(1)
    <3>1. l \in Groups!Legs /\ booked' = booked
      BY <1>0, <1>5
    <3>2. booked[l] \in Nat
      BY <1>1, <3>1
    <3>. QED BY <3>1, <3>2
  <2>2. intent'[1].status # "ABSENT" /\ group' \notin {"absent", "open_partial"}
    BY <1>0, <1>2, <1>3 DEF Newest, Groups!Exists
  <2>. QED BY <1>0, <1>2, <1>3, <1>4, <1>6, <2>1, <2>2 DEF RestIsSame
<1>8. /\ \A j \in Groups!Intents : Newest(j)' <=> Newest(j)
      /\ Groups!LegsOf(1)' = Groups!LegsOf(1) /\ Busy(1)' = Busy(1)
  BY <1>2, <1>7, NewestStays
<1>9. Groups!TypeOK'
  <2>1. \A l \in Groups!Legs : placed'[l] \in Groups!OrderRow /\ leg'[l] \in Groups!LegStatus
    <3>. TAKE l \in Groups!Legs
    <3>1. CASE l \in Groups!LegsOf(1)
      BY <1>5, <3>1 DEF Groups!LegStatus
    <3>2. CASE l \notin Groups!LegsOf(1)
      BY <1>1, <1>4, <3>2
    <3>. QED BY <3>1, <3>2
  <2>2. placed' = [l \in Groups!Legs |-> placed'[l]] /\ leg' = [l \in Groups!Legs |-> leg'[l]]
        /\ intent' = [i \in Groups!Intents |-> intent'[i]]
    BY <1>0
  <2>3. /\ placed' \in [Groups!Legs -> Groups!OrderRow] /\ leg' \in [Groups!Legs -> Groups!LegStatus]
        /\ intent' \in [Groups!Intents -> Groups!IntentRow]
    BY <1>3, <2>1, <2>2
  <2>4. outbox' \in [Groups!Intents -> Groups!OutboxStatus] /\ group' \in Groups!GroupStatus
    BY <1>0, <1>1 DEF Groups!OutboxStatus, Groups!GroupStatus
  <2>. QED BY <1>0, <2>3, <2>4 DEF GroupInv, Groups!TypeOK
<1>10. /\ GroupShows(1) /\ RowsTell(1)
       /\ intent'[1].status \in {"VOIDED", "FAILED"}
       /\ intent'[1].status = "FAILED" => intent[1].status = "FAILED"
  <2>1. GroupShows(1) /\ RowsTell(1)
    BY <1>2 DEF GroupInv, NewestIs
  <2>2. intent[1].status # "COMPLETED"
    <3>1. PICK l \in Groups!LegsOf(1) : TRUE
      BY <1>2, SomeLeg DEF Newest
    <3>2. leg[l] # "FILLED"
      BY <1>5, <3>1
    <3>. QED BY <2>1, <3>1, <3>2 DEF RowsTell
  <2>. QED BY <1>3, <2>1, <2>2
<1>11. outbox'[1] \in {"CANCELED", "SENT", "FAILED"} /\ (outbox'[1] = "SENT" => outbox[1] = "SENT")
       /\ (outbox[1] \in {"PROCESSING", "CANCELED"} => outbox'[1] = "CANCELED")
  BY <1>0, <1>1, <1>2, <1>10 DEF RowsTell, Groups!OutboxStatus
<1>12. ASSUME NEW l \in Groups!LegsOf(1) PROVE LegIs(l)' /\ VoidCloses(l)'
  <2>1. LegIs(l)'
    <3>1. /\ plan'[l] = plan[l] /\ exchange'[l] = exchange[l] /\ booked'[l] = booked[l] /\ told'[l] = told[l]
          /\ (l \in owed') = (l \in owed) /\ (working' # l[1]) = (working # l[1])
      BY <1>0
    <3>2. placed[l].filled = 0 /\ booked[l] = 0 /\ plan[l] # 0
      <4>1. l \in Groups!Legs /\ plan[l] > 0 /\ plan[l] \in Nat
        BY <1>5, GroupFacts
      <4>. QED BY <1>0, <4>1
    <3>3. placed[l].status \in {"NONE", "INITIALIZED", "REJECTED", "CANCELED"}
      BY <1>0, <1>5
    <3>. QED BY <1>5, <3>1, <3>2, <3>3 DEF LegIs, RowIs, Untouched
  <2>2. ASSUME leg'[l] = "CANCELED" PROVE VoidCloses(l)'
    <3>1. \A m \in Groups!LegsOf(1) : leg'[m] # "CANCELED" =>
             /\ placed'[m].status \in {"FILLED", "CANCELED", "REJECTED"}
             /\ leg'[m] \in {"FILLED", "FAILED", "PARTIALLY_FILLED"}
             /\ leg'[m] = "FAILED" => booked'[m] = 0
      BY <1>0, <1>5
    <3>2. placed'[l].filled = 0 /\ placed'[l].status \in {"NONE", "INITIALIZED", "CANCELED"} /\ l[1] = 1
      BY <1>5, <2>2
    <3>3. Newest(1)'
      BY <1>2, <1>8
    <3>. QED BY <1>8, <1>10, <1>11, <3>1, <3>2, <3>3 DEF VoidCloses
  <2>. QED BY <2>1, <2>2 DEF VoidCloses
<1>13. NewestIs(1)'
  <2>1. GroupShows(1)'
    BY <1>0, <1>10 DEF GroupShows
  <2>2. RowsTell(1)'
    <3>1. intent'[1].status = "FAILED" =>
            /\ \A l \in Groups!LegsOf(1) : leg'[l] \in {"FILLED", "FAILED", "CANCELED"}
            /\ \E l \in Groups!LegsOf(1) : leg'[l] = "FAILED"
      BY <1>5, <1>10 DEF RowsTell
    <3>2. outbox'[1] = "SENT" => \E l \in Groups!LegsOf(1) : leg'[l] \notin {"PLANNED", "CANCELED"}
      <4>. SUFFICES ASSUME outbox'[1] = "SENT"
                    PROVE  \E l \in Groups!LegsOf(1) : leg'[l] \notin {"PLANNED", "CANCELED"}
        OBVIOUS
      <4>1. PICK l \in Groups!LegsOf(1) : leg[l] \notin {"PLANNED", "CANCELED"}
        BY <1>10, <1>11 DEF RowsTell
      <4>2. leg'[l] = "FAILED"
        BY <1>5, <4>1
      <4>. QED BY <4>1, <4>2
    <3>. QED BY <1>8, <1>10, <1>11, <3>1, <3>2 DEF RowsTell
  <2>. QED BY <1>0, <1>11, <2>1, <2>2 DEF NewestIs
<1>14. WorkerHas'
  <2>1. CASE phase = "idle"
    BY <1>0, <2>1, IdleIs DEF WorkerHas, Groups!Legs, Groups!Intents, Groups!NoOrder
  <2>2. CASE phase # "idle"
    <3>1. working = 1 /\ InHand(1) /\ phase \in {"read", "sent"}
      BY <1>2, <2>2, HandIs DEF Newest, GroupInv, Groups!TypeOK
    <3>2. \A l \in Groups!LegsOf(1) : leg[l] # "FAILED" /\ leg'[l] = "CANCELED"
      BY <1>5, <3>1 DEF InHand
    <3>3. intent'[1].status = "VOIDED"
      BY <1>10, <2>2, <3>1 DEF GroupInv, WorkerHas
    <3>4. InHand(1)'
      BY <1>2, <1>8, <1>11, <3>1, <3>2 DEF InHand
    <3>5. phase = "read" => \A l \in Groups!LegsOf(1) : Unsent(l)'
      <4>. SUFFICES ASSUME phase = "read", NEW l \in Groups!LegsOf(1) PROVE Unsent(l)'
        OBVIOUS
      <4>1. Unsent(l)
        BY <3>1 DEF GroupInv, WorkerHas
      <4>2. placed'[l] = placed[l]
        BY <1>5, <4>1 DEF Unsent, Untouched, Groups!NoOrder
      <4>. QED BY <1>0, <4>1, <4>2 DEF Unsent, Untouched, Groups!NoOrder
    <3>6. phase = "sent" => \A l \in Groups!LegsOf(1) :
              placed'[l].filled = 0 /\ AnswerIs(l)' /\ placed'[l].status = "CANCELED"
      <4>. SUFFICES ASSUME phase = "sent", NEW l \in Groups!LegsOf(1)
                    PROVE  placed'[l].filled = 0 /\ AnswerIs(l)' /\ placed'[l].status = "CANCELED"
        OBVIOUS
      <4>1. AnswerIs(l) /\ placed[l].status \in {"INITIALIZED", "CANCELED"}
        BY <3>1 DEF GroupInv, WorkerHas
      <4>2. AnswerIs(l)'
        BY <1>0, <4>1 DEF AnswerIs, ReportIsTrue, Groups!NoOrder
      <4>. QED BY <1>5, <4>1, <4>2
    <3>7. phase # "sent" => answer = [l \in Groups!Legs |-> Groups!NoOrder]
      BY DEF GroupInv, WorkerHas
    <3>8. phase' = phase /\ working' = 1 /\ answer' = answer /\ Groups!Legs' = Groups!Legs
          /\ Groups!NoOrder' = Groups!NoOrder
      BY <1>0, <3>1 DEF Groups!Legs, Groups!Intents, Groups!NoOrder
    <3>9. InHand(working)' /\ intent'[working'].status = "VOIDED" /\ Groups!LegsOf(working)' = Groups!LegsOf(1)
      <4>1. Groups!LegsOf(working)' = Groups!LegsOf(1)'
        BY <3>8 DEF Groups!LegsOf
      <4>2. InHand(working)'
        BY <3>4, <3>8, <4>1 DEF InHand, Newest
      <4>. QED BY <1>8, <3>3, <3>8, <4>1, <4>2
    <3>. QED BY <2>2, <3>1, <3>2, <3>5, <3>6, <3>7, <3>8, <3>9 DEF WorkerHas
  <2>. QED BY <2>1, <2>2
<1>. QED BY <1>2, <1>7, <1>9, <1>12, <1>13, <1>14, RestKeeps

-----------------------------------------------------------------------------
(* The commands of the API process.  Where there is something to close or  *)
(* to recover, the newest command is over.                                 *)
LEMMA NewestRests ==
  ASSUME Groups!GroupsAssumption, GroupInv, NEW k \in Groups!Intents, Newest(k),
         intent[k].status \in {"COMPLETED", "FAILED", "RECOVERY_REQUIRED"},
         group \notin {"absent", "voided", "opening", "closing"}, Groups!HasExposure
  PROVE  /\ phase = "idle" /\ working = 0 /\ outbox[k] \in {"SENT", "FAILED"}
         /\ \E l \in Groups!Legs : booked[l] > 0
         /\ \A l \in Groups!Legs : leg[l] # "CANCELED"
<1>1. /\ booked \in [Groups!Legs -> Nat] /\ outbox \in [Groups!Intents -> Groups!OutboxStatus]
      /\ phase \in {"idle", "read", "sent"}
  BY DEF GroupInv, Groups!TypeOK
<1>2. PICK f \in Groups!Legs : booked[f] > 0
  BY <1>1, ExposureIsFilled
<1>3. phase = "idle" /\ working = 0
  <2>. SUFFICES ASSUME phase # "idle" PROVE FALSE
    BY IdleIs
  <2>1. PICK i \in Groups!Intents : i = working /\ Newest(i)
    BY HandIs
  <2>2. i = k
    BY <2>1, GroupFacts
  <2>. QED BY <1>1, <2>1, <2>2 DEF GroupInv, WorkerHas
<1>4. GroupShows(k) /\ RowsTell(k) /\ (outbox[k] \in {"PENDING", "PROCESSING"} => group \in {Busy(k), "voided"})
      /\ (outbox[k] = "CANCELED" => group = "voided") /\ Busy(k) \in {"opening", "closing"}
  BY DEF GroupInv, NewestIs, Busy
<1>5. outbox[k] \in {"SENT", "FAILED"}
  BY <1>1, <1>4 DEF RowsTell, Groups!OutboxStatus
<1>6. ASSUME NEW l \in Groups!Legs, leg[l] = "CANCELED" PROVE FALSE
  <2>1. VoidCloses(l) /\ l[1] = 1 /\ Newest(1) /\ 1 \in Groups!Intents
    BY <1>6, GroupFacts DEF GroupInv, VoidCloses
  <2>2. k = 1
    BY <2>1, GroupFacts
  <2>3. placed[l].filled = 0 /\ intent[1].status = "FAILED"
    BY <1>6, <2>1, <2>2 DEF VoidCloses
  <2>4. plan[l] # 0 /\ booked[l] = 0
    BY <1>6, <2>3 DEF GroupInv, LegIs, RowIs
  <2>5. l \in Groups!LegsOf(1)
    BY <2>1, <2>4, GroupFacts DEF Groups!LegsOf
  <2>6. PICK m \in Groups!LegsOf(1) : leg[m] = "FAILED"
    BY <1>4, <2>2, <2>3 DEF RowsTell
  <2>7. booked[m] = 0 /\ m # l
    BY <1>6, <2>1, <2>6 DEF VoidCloses
  <2>8. f \in Groups!LegsOf(1)
    <3>1. plan[f] # 0
      <4>. SUFFICES ASSUME plan[f] = 0 PROVE FALSE
        OBVIOUS
      <4>1. placed[f].status = "NONE" /\ LegIs(f)
        BY DEF GroupInv, LegIs, RowIs
      <4>2. booked[f] = 0
        BY <4>1 DEF LegIs, RowIs, Untouched
      <4>. QED BY <1>2, <4>2
    <3>2. f[1] \in Groups!Intents /\ Groups!Exists(f[1]) /\ f \in Groups!LegsOf(f[1])
      BY <3>1, GroupFacts
    <3>3. f[1] = 1
      BY <2>1, <3>2, GroupFacts DEF Newest
    <3>. QED BY <3>2, <3>3
  <2>9. f = l \/ f = m
    BY <2>1, <2>5, <2>6, <2>7, <2>8, TwoLegs
  <2>. QED BY <1>2, <2>4, <2>7, <2>9
<1>. QED BY <1>2, <1>3, <1>5, <1>6

(* The row of a new intent comes after all the others.                     *)
LEMMA NewIsNext ==
  ASSUME Groups!GroupsAssumption, GroupInv, NEW i \in Groups!Intents, ~ Groups!Exists(i),
         \A j \in Groups!Intents : j < i => Groups!Exists(j)
  PROVE  /\ \A j \in Groups!Intents : Groups!Exists(j) <=> j < i
         /\ i = 1 \/ (i - 1 \in Groups!Intents /\ Newest(i - 1))
<1>1. \A j \in Groups!Intents : Groups!Exists(j) <=> j < i
  <2>. TAKE j \in Groups!Intents
  <2>1. j < i \/ j = i \/ i < j
    BY GroupFacts
  <2>. QED BY <2>1, GroupFacts DEF GroupInv, InSequence
<1>2. ASSUME i # 1 PROVE i - 1 \in Groups!Intents /\ Newest(i - 1)
  <2>1. i - 1 \in Groups!Intents
    BY <1>2 DEF Groups!Intents, Groups!GroupsAssumption
  <2>2. i - 1 < i /\ \A j \in Groups!Intents : j < i => j <= i - 1
    BY GroupFacts
  <2>. QED BY <1>1, <2>1, <2>2 DEF Newest
<1>. QED BY <1>1, <1>2

LEMMA NewRowKeeps ==
  ASSUME Groups!GroupsAssumption, GroupInv, ~ LateEvents, NEW i \in Groups!Intents,
         NEW kind \in Groups!IntentKind, NEW q \in [Venues -> Nat], Groups!WriteIntent(i, kind, q),
         intent' \in [Groups!Intents -> Groups!IntentRow], intent'[i] = Groups!NewIntent(kind),
         \A j \in Groups!Intents : j # i =>
            /\ intent'[j].kind = intent[j].kind /\ intent'[j].prev = intent[j].prev
            /\ intent'[j].status = "ABSENT" <=> intent[j].status = "ABSENT"
            /\ Groups!Exists(j) => intent'[j].status \in {"COMPLETED", "FAILED", "SUPERSEDED"},
         kind = "OPEN" <=> i = 1, i = 1 => \A v \in Venues : q[v] > 0,
         i # 1 => \E l \in Groups!Legs : booked[l] > 0,
         phase = "idle", working = 0,
         \A j \in Groups!Intents : Groups!Exists(j) => outbox[j] \in {"SENT", "FAILED"},
         \A l \in Groups!Legs : leg[l] # "CANCELED" /\ exchange[l].status # "ACCEPTED"
  PROVE  GroupInv'
<1>0. /\ ~ Groups!Exists(i) /\ \A j \in Groups!Intents : j < i => Groups!Exists(j)
      /\ owed = {} /\ \E v \in Venues : q[v] > 0
      /\ outbox' = [outbox EXCEPT ![i] = "PENDING"]
      /\ plan' = [l \in Groups!Legs |-> IF l[1] = i THEN q[l[2]] ELSE plan[l]]
      /\ group' = IF kind = "OPEN" THEN "opening" ELSE "closing"
      /\ UNCHANGED <<leg, placed, booked, exchange, owed, told, phase, working, answer, crashes>>
  BY DEF Groups!WriteIntent, Groups!world, Groups!worker
<1>1. /\ outbox \in [Groups!Intents -> Groups!OutboxStatus] /\ plan \in [Groups!Legs -> Nat]
      /\ group \in Groups!GroupStatus
  BY DEF GroupInv, Groups!TypeOK
<1>2. /\ \A j \in Groups!Intents : Groups!Exists(j) <=> j < i
      /\ i = 1 \/ (i - 1 \in Groups!Intents /\ Newest(i - 1))
  BY <1>0, NewIsNext
<1>3. /\ intent'[i].status = "CREATED" /\ intent'[i].kind = kind /\ intent'[i].prev = group
      /\ outbox'[i] = "PENDING" /\ \A j \in Groups!Intents : j # i => outbox'[j] = outbox[j]
  BY <1>0, <1>1 DEF Groups!NewIntent
<1>4. \A j \in Groups!Intents : Groups!Exists(j)' <=> j <= i
  <2>. TAKE j \in Groups!Intents
  <2>1. CASE j = i
    BY <1>3, <2>1, GroupFacts DEF Groups!Exists
  <2>2. CASE j # i
    <3>1. Groups!Exists(j)' <=> Groups!Exists(j)
      BY <2>2 DEF Groups!Exists
    <3>2. j < i <=> j <= i
      BY <2>2, GroupFacts
    <3>. QED BY <1>2, <3>1, <3>2
  <2>. QED BY <2>1, <2>2
<1>5. Newest(i)' /\ \A j \in Groups!Intents : (Newest(j)' => j = i) /\ (Past(j)' => j < i)
  <2>1. Newest(i)'
    BY <1>4, GroupFacts DEF Newest, Groups!Intents
  <2>2. ASSUME NEW j \in Groups!Intents, Newest(j)' PROVE j = i
    BY <1>4, <2>1, <2>2, GroupFacts DEF Newest, Groups!Intents
  <2>3. ASSUME NEW j \in Groups!Intents, Past(j)' PROVE j < i
    <3>1. PICK m \in Groups!Intents : j < m /\ Groups!Exists(m)'
      BY <2>3 DEF Past, Groups!Intents
    <3>. QED BY <1>4, <3>1, GroupFacts
  <2>. QED BY <2>1, <2>2, <2>3
<1>6. \A j \in Groups!Intents, v \in Venues :
         /\ <<j, v>> \in Groups!Legs
         /\ plan'[<<j, v>>] = IF j = i THEN q[v] ELSE plan[<<j, v>>]
  BY <1>0 DEF Groups!Legs
<1>7. plan' \in [Groups!Legs -> Nat]
  <2>1. \A l \in Groups!Legs : q[l[2]] \in Nat /\ plan[l] \in Nat
    BY <1>1, GroupFacts
  <2>. QED BY <1>0, <2>1
<1>8. Groups!TypeOK'
  <2>1. outbox' \in [Groups!Intents -> Groups!OutboxStatus] /\ group' \in Groups!GroupStatus
    BY <1>0, <1>1 DEF Groups!OutboxStatus, Groups!GroupStatus
  <2>. QED BY <1>0, <1>7, <2>1 DEF GroupInv, Groups!TypeOK
<1>9. InSequence'
  <2>1. \A j, k \in Groups!Intents : j < k /\ Groups!Exists(k)' => Groups!Exists(j)'
    BY <1>4, GroupFacts
  <2>2. group' # "absent" /\ group' # "open_partial" /\ Groups!Exists(1)'
    BY <1>0, <1>4, GroupFacts
  <2>3. ASSUME NEW j \in Groups!Intents
        PROVE  /\ intent'[j].prev # "open_partial"
               /\ Groups!Exists(j)' => /\ intent'[j].kind # "NONE" /\ (intent'[j].kind = "OPEN" <=> j = 1)
                                       /\ \E v \in Venues : plan'[<<j, v>>] > 0
               /\ ~ Groups!Exists(j)' => outbox'[j] = "ABSENT" /\ \A v \in Venues : plan'[<<j, v>>] = 0
    <3>1. CASE j = i
      <4>1. kind # "NONE" /\ group # "open_partial"
        BY DEF Groups!IntentKind, GroupInv, InSequence
      <4>2. Groups!Exists(j)'
        BY <1>4, <3>1, GroupFacts
      <4>. QED BY <1>0, <1>3, <1>6, <3>1, <4>1, <4>2
    <3>2. CASE j # i
      <4>1. Groups!Exists(j)' <=> Groups!Exists(j)
        BY <3>2 DEF Groups!Exists
      <4>2. intent'[j].kind = intent[j].kind /\ intent'[j].prev = intent[j].prev /\ outbox'[j] = outbox[j]
            /\ \A v \in Venues : plan'[<<j, v>>] = plan[<<j, v>>]
        BY <1>3, <1>6, <3>2
      <4>3. /\ intent[j].prev # "open_partial"
            /\ Groups!Exists(j) => /\ intent[j].kind # "NONE" /\ (intent[j].kind = "OPEN" <=> j = 1)
                                   /\ \E v \in Venues : plan[<<j, v>>] > 0
            /\ ~ Groups!Exists(j) => outbox[j] = "ABSENT" /\ \A v \in Venues : plan[<<j, v>>] = 0
        BY DEF GroupInv, InSequence
      <4>4. (\E v \in Venues : plan[<<j, v>>] > 0) => \E v \in Venues : plan'[<<j, v>>] > 0
        BY <4>2
      <4>5. (\A v \in Venues : plan[<<j, v>>] = 0) => \A v \in Venues : plan'[<<j, v>>] = 0
        BY <4>2
      <4>. QED BY <4>1, <4>2, <4>3, <4>4, <4>5, Zenon
    <3>. QED BY <3>1, <3>2
  <2>4. Groups!Exists(1)' => \A v \in Venues : plan'[<<1, v>>] > 0
    <3>1. CASE i = 1
      BY <1>6, <3>1
    <3>2. CASE i # 1
      <4>1. Groups!Exists(1)
        BY <1>2, <3>2, GroupFacts
      <4>2. \A v \in Venues : plan[<<1, v>>] > 0
        BY <4>1 DEF GroupInv, InSequence
      <4>3. \A v \in Venues : plan'[<<1, v>>] = plan[<<1, v>>]
        BY <1>6, <3>2, GroupFacts
      <4>. QED BY <4>2, <4>3
    <3>. QED BY <3>1, <3>2
  <2>. QED BY <2>1, <2>2, <2>3, <2>4 DEF InSequence, Groups!Intents
<1>10. ASSUME NEW l \in Groups!Legs, l[1] = i
       PROVE  plan[l] = 0 /\ Unsent(l) /\ placed[l].status = "NONE" /\ leg[l] = "PLANNED" /\ LegIs(l)
  <2>1. plan[l] = 0
    <3>1. l = <<i, l[2]>> /\ l[2] \in Venues
      BY <1>10, GroupFacts
    <3>. QED BY <1>0, <3>1 DEF GroupInv, InSequence
  <2>2. LegIs(l)
    BY DEF GroupInv
  <2>. QED BY <2>1, <2>2 DEF LegIs, RowIs, Unsent
<1>11. ASSUME NEW l \in Groups!Legs PROVE LegIs(l)' /\ VoidCloses(l)'
  <2>1. /\ placed'[l] = placed[l] /\ exchange'[l] = exchange[l] /\ booked'[l] = booked[l] /\ told'[l] = told[l]
        /\ leg'[l] = leg[l] /\ (l \in owed') = (l \in owed) /\ (working' # l[1]) = (working # l[1])
        /\ LegIs(l)
    BY <1>0 DEF GroupInv
  <2>2. CASE l[1] = i
    <3>1. Unsent(l) /\ placed[l].status = "NONE" /\ leg[l] = "PLANNED"
      BY <1>10, <2>2
    <3>2. AtVenueIs(plan'[l], exchange[l]) /\ (plan'[l] = 0 => placed[l].status = "NONE" /\ leg[l] = "PLANNED")
      BY <3>1 DEF Unsent, Untouched, AtVenueIs, Groups!NoOrder
    <3>3. LegIs(l)'
      BY <2>1, <3>2 DEF LegIs, RowIs
    <3>. QED BY <2>1, <3>3 DEF VoidCloses
  <2>3. CASE l[1] # i
    <3>1. plan'[l] = plan[l]
      BY <1>0, <2>3
    <3>. QED BY <2>1, <3>1 DEF LegIs, VoidCloses
  <2>. QED BY <2>2, <2>3
<1>12. ASSUME NEW j \in Groups!Intents, Past(j)' PROVE PastIs(j)'
  <2>1. j # i /\ Groups!Exists(j) /\ i # 1
    BY <1>2, <1>5, <1>12, GroupFacts
  <2>2. intent'[j].status \in {"COMPLETED", "FAILED", "SUPERSEDED"} /\ outbox'[j] \in {"SENT", "FAILED"}
    BY <1>3, <2>1
  <2>3. working' # j
    BY <1>0, GroupFacts
  <2>4. \A l \in Groups!LegsOf(j)' : l \notin owed' /\ exchange'[l].status # "ACCEPTED"
    BY <1>0 DEF Groups!LegsOf, Groups!Legs, Groups!Intents
  <2>5. \E l \in Groups!Legs : booked'[l] > 0
    BY <1>0, <2>1
  <2>. QED BY <2>2, <2>3, <2>4, <2>5 DEF PastIs, Groups!Legs, Groups!Intents
<1>13. NewestIs(i)'
  <2>1. group' = Busy(i)'
    BY <1>0, <1>3 DEF Busy
  <2>2. GroupShows(i)'
    BY <1>3, <2>1 DEF GroupShows
  <2>3. ASSUME NEW l \in Groups!LegsOf(i)' PROVE Unsent(l)'
    <3>1. l \in Groups!Legs /\ l[1] = i
      BY DEF Groups!LegsOf, Groups!Legs, Groups!Intents
    <3>2. Unsent(l)
      BY <1>10, <3>1
    <3>. QED BY <1>0, <3>2 DEF Unsent, Untouched, Groups!NoOrder
  <2>4. RowsTell(i)'
    <3>1. working' # i
      BY <1>0, GroupFacts
    <3>. QED BY <1>3, <2>3, <3>1 DEF RowsTell
  <2>. QED BY <1>3, <2>1, <2>2, <2>4 DEF NewestIs
<1>14. WorkerHas'
  <2>1. answer = [l \in Groups!Legs |-> Groups!NoOrder]
    BY IdleIs
  <2>. QED BY <1>0, <2>1 DEF WorkerHas, Groups!Legs, Groups!Intents, Groups!NoOrder
<1>15. ASSUME NEW j \in Groups!Intents PROVE PastIs(j)' /\ NewestIs(j)'
  <2>1. NewestIs(j)'
    BY <1>5, <1>13 DEF NewestIs
  <2>. QED BY <1>12, <2>1 DEF PastIs
<1>. QED BY <1>8, <1>9, <1>11, <1>14, <1>15 DEF GroupInv, Groups!Legs, Groups!Intents

LEMMA CreateOpenKeeps ==
  ASSUME Groups!GroupsAssumption, GroupInv, ~ LateEvents, NEW i \in Groups!Intents, Groups!CreateOpen(i)
  PROVE  GroupInv'
<1>1. /\ group = "absent" /\ Groups!WriteIntent(i, "OPEN", GroupLots)
      /\ intent' = [intent EXCEPT ![i] = Groups!NewIntent("OPEN")]
      /\ ~ Groups!Exists(i) /\ \A j \in Groups!Intents : j < i => Groups!Exists(j)
  BY DEF Groups!CreateOpen, Groups!WriteIntent
<1>2. \A j \in Groups!Intents : ~ Groups!Exists(j)
  <2>. SUFFICES ASSUME NEW j \in Groups!Intents, Groups!Exists(j) PROVE FALSE
    OBVIOUS
  <2>1. ~ Groups!Exists(1)
    BY <1>1 DEF GroupInv, InSequence
  <2>2. 1 < j
    <3>1. j # 1
      BY <2>1
    <3>. QED BY <3>1, GroupFacts
  <2>. QED BY <2>1, <2>2, GroupFacts DEF GroupInv, InSequence
<1>3. i = 1
  <2>. SUFFICES ASSUME i # 1 PROVE FALSE
    OBVIOUS
  <2>1. 1 < i
    BY GroupFacts
  <2>. QED BY <1>1, <1>2, <2>1, GroupFacts
<1>4. phase = "idle" /\ working = 0
  <2>1. phase = "idle"
    BY <1>2, HandIs DEF Newest
  <2>. QED BY <2>1, IdleIs
<1>5. ASSUME NEW l \in Groups!Legs PROVE leg[l] # "CANCELED" /\ exchange[l].status # "ACCEPTED"
  <2>1. leg[l] # "CANCELED"
    BY <1>2, GroupFacts DEF GroupInv, VoidCloses, Newest
  <2>2. exchange[l].status # "ACCEPTED"
    BY <1>2, GroupFacts DEF Newest
  <2>. QED BY <2>1, <2>2
<1>6. /\ intent \in [Groups!Intents -> Groups!IntentRow] /\ group \in Groups!GroupStatus
      /\ GroupLots \in [Venues -> Nat \ {0}]
  BY DEF GroupInv, Groups!TypeOK, Groups!GroupsAssumption
<1>7. "OPEN" \in Groups!IntentKind /\ Groups!NewIntent("OPEN") \in Groups!IntentRow
  BY <1>6 DEF Groups!NewIntent, Groups!IntentRow, Groups!IntentKind, Groups!IntentStatus
<1>8. intent' \in [Groups!Intents -> Groups!IntentRow] /\ intent'[i] = Groups!NewIntent("OPEN")
  BY <1>1, <1>6, <1>7
<1>9. \A j \in Groups!Intents : j # i => intent'[j] = intent[j]
  BY <1>1, <1>6
<1>10. GroupLots \in [Venues -> Nat] /\ \A v \in Venues : GroupLots[v] > 0
  BY <1>6
<1>. QED BY <1>1, <1>2, <1>3, <1>4, <1>5, <1>7, <1>8, <1>9, <1>10, NewRowKeeps

(* What is left to close is a quantity.                                    *)
LEMMA ResidualsAre ==
  ASSUME Groups!GroupsAssumption, GroupInv
  PROVE  Groups!Residuals \in [Venues -> Nat]
<1>1. booked \in [Groups!Legs -> Nat]
  BY DEF GroupInv, Groups!TypeOK
<1>. QED BY <1>1, ExposureIsFilled DEF Groups!Residuals

(* A close or a recovery: there is a newest command, and it is over.       *)
LEMMA CreateNextKeeps ==
  ASSUME Groups!GroupsAssumption, GroupInv, ~ LateEvents, NEW i \in Groups!Intents,
         NEW kind \in {"CLOSE", "RECOVER"}, Groups!WriteIntent(i, kind, Groups!Residuals),
         group \notin {"absent", "voided", "opening", "closing"}, Groups!HasExposure,
         intent' \in [Groups!Intents -> Groups!IntentRow], intent'[i] = Groups!NewIntent(kind),
         \A j \in Groups!Intents : j # i =>
            /\ intent'[j].kind = intent[j].kind /\ intent'[j].prev = intent[j].prev
            /\ intent'[j].status = "ABSENT" <=> intent[j].status = "ABSENT"
            /\ Past(j) => intent'[j].status \in {"COMPLETED", "FAILED", "SUPERSEDED"}
            /\ Newest(j) => /\ intent[j].status \in {"COMPLETED", "FAILED", "RECOVERY_REQUIRED"}
                            /\ intent'[j].status \in {"COMPLETED", "FAILED", "SUPERSEDED"},
         \A l \in Groups!Legs : exchange[l].status = "ACCEPTED" => leg[l] = "CANCELED"
  PROVE  GroupInv'
<1>1. ~ Groups!Exists(i) /\ (\A j \in Groups!Intents : j < i => Groups!Exists(j))
  BY DEF Groups!WriteIntent
<1>2. Groups!Exists(1) /\ i # 1
  BY <1>1, GroupFacts DEF GroupInv, InSequence
<1>3. PICK k \in Groups!Intents : Newest(k)
  BY <1>1, <1>2, NewIsNext
<1>4. k # i /\ Groups!Exists(k)
  BY <1>1, <1>3 DEF Newest
<1>5. /\ phase = "idle" /\ working = 0 /\ outbox[k] \in {"SENT", "FAILED"}
      /\ \E l \in Groups!Legs : booked[l] > 0
      /\ \A l \in Groups!Legs : leg[l] # "CANCELED"
  BY <1>3, <1>4, NewestRests
<1>6. ASSUME NEW j \in Groups!Intents, Groups!Exists(j)
      PROVE  /\ outbox[j] \in {"SENT", "FAILED"}
             /\ intent'[j].status \in {"COMPLETED", "FAILED", "SUPERSEDED"}
  <2>1. j # i
    BY <1>1, <1>6
  <2>2. CASE Newest(j)
    <3>1. j = k
      BY <1>3, <2>2, GroupFacts
    <3>. QED BY <1>5, <2>1, <2>2, <3>1
  <2>3. CASE Past(j)
    BY <2>1, <2>3 DEF GroupInv, PastIs
  <2>. QED BY <1>6, <2>2, <2>3, GroupFacts
<1>7. kind \in Groups!IntentKind /\ kind # "OPEN"
  BY DEF Groups!IntentKind
<1>8. Groups!Residuals \in [Venues -> Nat]
  BY ResidualsAre
<1>. QED BY <1>2, <1>5, <1>6, <1>7, <1>8, NewRowKeeps

LEMMA CreateCloseKeeps ==
  ASSUME Groups!GroupsAssumption, GroupInv, ~ LateEvents, NEW i \in Groups!Intents, Groups!CreateClose(i)
  PROVE  GroupInv'
<1>1. /\ \A j \in Groups!Intents : intent[j].status \notin {"CREATED", "RUNNING", "RECOVERY_REQUIRED"}
      /\ group \in {"open", "open_partial"} /\ Groups!HasExposure
      /\ Groups!WriteIntent(i, "CLOSE", Groups!Residuals)
      /\ intent' = [intent EXCEPT ![i] = Groups!NewIntent("CLOSE")]
  BY DEF Groups!CreateClose, Groups!CloseAllowed, Groups!Active, Groups!ActiveIntentStatuses
<1>2. intent \in [Groups!Intents -> Groups!IntentRow] /\ group \in Groups!GroupStatus
  BY DEF GroupInv, Groups!TypeOK
<1>3. Groups!NewIntent("CLOSE") \in Groups!IntentRow
  BY <1>2 DEF Groups!NewIntent, Groups!IntentRow, Groups!IntentKind, Groups!IntentStatus
<1>4. /\ intent' \in [Groups!Intents -> Groups!IntentRow] /\ intent'[i] = Groups!NewIntent("CLOSE")
      /\ \A j \in Groups!Intents : j # i => intent'[j] = intent[j]
  BY <1>1, <1>2, <1>3
<1>5. ASSUME NEW j \in Groups!Intents, Newest(j) PROVE intent[j].status \in {"COMPLETED", "FAILED"}
  <2>1. GroupShows(j) /\ intent[j].status # "ABSENT"
    BY <1>5 DEF GroupInv, NewestIs, Newest, Groups!Exists
  <2>2. intent[j].status \in Groups!IntentStatus
    BY <1>2 DEF Groups!IntentRow
  <2>. QED BY <1>1, <2>1, <2>2 DEF GroupShows, Groups!IntentStatus
<1>6. ASSUME NEW j \in Groups!Intents, Past(j)
      PROVE  intent[j].status \in {"COMPLETED", "FAILED", "SUPERSEDED"}
  BY <1>6 DEF GroupInv, PastIs
<1>7. ASSUME NEW l \in Groups!Legs, exchange[l].status = "ACCEPTED" PROVE leg[l] = "CANCELED"
  <2>1. PICK k \in Groups!Intents : k = l[1] /\ Newest(k) /\ l \in Groups!LegsOf(k)
    BY <1>7, GroupFacts
  <2>2. RowsTell(k) /\ LegIs(l)
    BY <2>1 DEF GroupInv, NewestIs
  <2>3. leg[l] \in {"FILLED", "FAILED", "CANCELED"}
    BY <1>5, <2>1, <2>2 DEF RowsTell
  <2>. QED BY <1>7, <2>2, <2>3 DEF LegIs, RowIs
<1>. QED BY <1>1, <1>4, <1>5, <1>6, <1>7, CreateNextKeeps

LEMMA CreateRecoveryKeeps ==
  ASSUME Groups!GroupsAssumption, GroupInv, ~ LateEvents, NEW i \in Groups!Intents, Groups!CreateRecovery(i)
  PROVE  GroupInv'
<1>1. /\ group \in {"manual_intervention", "failed"} /\ Groups!HasExposure /\ Groups!Pending = {}
      /\ Groups!WriteIntent(i, "RECOVER", Groups!Residuals)
      /\ intent' = [j \in Groups!Intents |->
            IF j = i THEN Groups!NewIntent("RECOVER")
            ELSE IF intent[j].status = "RECOVERY_REQUIRED"
                 THEN [intent[j] EXCEPT !.status = "SUPERSEDED"] ELSE intent[j]]
  BY DEF Groups!CreateRecovery, Groups!RecoverAllowed
<1>2. intent \in [Groups!Intents -> Groups!IntentRow] /\ group \in Groups!GroupStatus
  BY DEF GroupInv, Groups!TypeOK
<1>3. Groups!NewIntent("RECOVER") \in Groups!IntentRow
  BY <1>2 DEF Groups!NewIntent, Groups!IntentRow, Groups!IntentKind, Groups!IntentStatus
<1>4. \A j \in Groups!Intents : /\ [intent[j] EXCEPT !.status = "SUPERSEDED"] \in Groups!IntentRow
                                /\ [intent[j] EXCEPT !.status = "SUPERSEDED"].status = "SUPERSEDED"
                                /\ [intent[j] EXCEPT !.status = "SUPERSEDED"].kind = intent[j].kind
                                /\ [intent[j] EXCEPT !.status = "SUPERSEDED"].prev = intent[j].prev
  BY <1>2 DEF Groups!IntentRow, Groups!IntentStatus
<1>5. /\ intent' \in [Groups!Intents -> Groups!IntentRow] /\ intent'[i] = Groups!NewIntent("RECOVER")
      /\ \A j \in Groups!Intents : j # i =>
            /\ intent'[j].kind = intent[j].kind /\ intent'[j].prev = intent[j].prev
            /\ intent'[j].status = IF intent[j].status = "RECOVERY_REQUIRED" THEN "SUPERSEDED"
                                   ELSE intent[j].status
  BY <1>1, <1>2, <1>3, <1>4
<1>6. ASSUME NEW j \in Groups!Intents, Newest(j) PROVE intent[j].status \in {"FAILED", "RECOVERY_REQUIRED"}
  <2>1. GroupShows(j) /\ intent[j].status # "ABSENT"
    BY <1>6 DEF GroupInv, NewestIs, Newest, Groups!Exists
  <2>2. intent[j].status \in Groups!IntentStatus
    BY <1>2 DEF Groups!IntentRow
  <2>. QED BY <1>1, <2>1, <2>2 DEF GroupShows, Busy, Groups!IntentStatus
<1>7. ASSUME NEW j \in Groups!Intents, Past(j)
      PROVE  intent[j].status \in {"COMPLETED", "FAILED", "SUPERSEDED"}
  BY <1>7 DEF GroupInv, PastIs
<1>8. ASSUME NEW l \in Groups!Legs, exchange[l].status = "ACCEPTED" PROVE leg[l] = "CANCELED"
  <2>1. LegIs(l) /\ placed[l].status \notin {"INITIALIZED", "ACCEPTED", "UNKNOWN"}
    BY <1>1 DEF GroupInv, Groups!Pending, Groups!NonTerminalOrderStatuses
  <2>. QED BY <1>8, <2>1 DEF LegIs, RowIs
<1>. QED BY <1>1, <1>5, <1>6, <1>7, <1>8, CreateNextKeeps

-----------------------------------------------------------------------------
LEMMA GroupStep ==
  ASSUME Groups!GroupsAssumption, ~ LateEvents, GroupInv, [Groups!Next]_(Groups!vars)
  PROVE  GroupInv'
<1>1. CASE Groups!Next
  <2>1. ASSUME NEW i \in Groups!Intents,
               Groups!CreateOpen(i) \/ Groups!CreateClose(i) \/ Groups!CreateRecovery(i) \/ Groups!Take(i)
        PROVE  GroupInv'
    BY <2>1, CreateOpenKeeps, CreateCloseKeeps, CreateRecoveryKeeps, TakeKeeps
  <2>2. CASE Groups!Void \/ Groups!Dispatch \/ Groups!Record \/ Groups!Crash
    BY <2>2, VoidKeeps, DispatchKeeps, RecordKeeps, GroupCrashKeeps
  <2>3. ASSUME NEW i \in Groups!Intents, NEW S \in SUBSET Groups!LegsOf(i), Groups!Recover(i, S)
        PROVE  GroupInv'
    BY <2>3, RecoverKeeps
  <2>4. ASSUME NEW l \in Groups!Legs,
               \/ Groups!Submit(l) \/ Groups!Reconcile(l) \/ Groups!Project(l)
               \/ Groups!VenueMoves(l) \/ Groups!LoseReport(l)
        PROVE  GroupInv'
    BY <2>4, GroupSubmitKeeps, ReconcileKeeps, ProjectKeeps, GroupVenueKeeps, LoseReportKeeps
  <2>. QED BY <1>1, <2>1, <2>2, <2>3, <2>4 DEF Groups!Next
<1>2. CASE UNCHANGED Groups!vars
  <2>1. UNCHANGED <<group, intent, outbox, plan, leg, placed, booked, exchange, owed, told, phase, working,
                    answer, crashes>>
    BY <1>2 DEF Groups!vars, Groups!rows, Groups!world, Groups!worker
  <2>2. Groups!TypeOK'
    BY <2>1 DEF GroupInv, Groups!TypeOK
  <2>3. InSequence'
    BY <2>1 DEF GroupInv, InSequence, Groups!Exists
  <2>4. WorkerHas'
    BY <2>1 DEF GroupInv, WorkerHas, InHand, Unsent, Untouched, AnswerIs, ReportIsTrue, Newest,
                Groups!Exists, Groups!LegsOf, Groups!NoOrder
  <2>5. ASSUME NEW l \in Groups!Legs PROVE LegIs(l)' /\ VoidCloses(l)'
    <3>1. LegIs(l) /\ VoidCloses(l)
      BY DEF GroupInv
    <3>. QED BY <2>1, <3>1 DEF LegIs, VoidCloses, Newest, Groups!Exists, Groups!LegsOf
  <2>6. ASSUME NEW i \in Groups!Intents PROVE PastIs(i)' /\ NewestIs(i)'
    <3>1. PastIs(i) /\ NewestIs(i)
      BY DEF GroupInv
    <3>2. PastIs(i)'
      BY <2>1, <3>1 DEF PastIs, Past, Groups!Exists, Groups!LegsOf
    <3>3. NewestIs(i)'
      BY <2>1, <3>1 DEF NewestIs, Newest, Groups!Exists, Groups!LegsOf, GroupShows, Busy, RowsTell,
                        Unsent, Untouched, Groups!NoOrder
    <3>. QED BY <3>2, <3>3
  <2>. QED BY <2>2, <2>3, <2>4, <2>5, <2>6 DEF GroupInv, Groups!Legs, Groups!Intents
<1>. QED BY <1>1, <1>2

(* There is a newest intent as soon as there is one.                       *)
LEMMA SomeNewest ==
  ASSUME Groups!GroupsAssumption, GroupInv, Groups!Exists(1)
  PROVE  \E i \in Groups!Intents : Newest(i)
<1>. SUFFICES ASSUME \A i \in Groups!Intents : ~ Newest(i) PROVE FALSE
  OBVIOUS
<1>. DEFINE S == {n \in Nat : \E j \in Groups!Intents : n <= j /\ Groups!Exists(j)}
<1>1. 0 \in S
  BY GroupFacts
<1>2. ASSUME NEW n \in Nat, n \in S PROVE n + 1 \in S
  <2>1. PICK j \in Groups!Intents : n <= j /\ Groups!Exists(j)
    BY <1>2
  <2>2. PICK k \in Groups!Intents : j < k /\ Groups!Exists(k)
    BY <2>1, GroupFacts DEF Past
  <2>3. n + 1 <= k
    BY <2>1, <2>2, GroupFacts
  <2>. QED BY <2>2, <2>3
<1>3. \A n \in Nat : n \in S
  <2>. HIDE DEF S
  <2>. QED BY <1>1, <1>2, Induction
<1>4. MaxIntents + 1 \in Nat
  BY DEF Groups!GroupsAssumption
<1>5. PICK j \in Groups!Intents : MaxIntents + 1 <= j
  BY <1>3, <1>4
<1>. QED BY <1>5 DEF Groups!Intents, Groups!GroupsAssumption

LEMMA GroupIsSafe ==
  ASSUME Groups!GroupsAssumption, GroupInv
  PROVE  Groups!TypeOK /\ Groups!OneAtWork /\ Groups!OneActive /\ Groups!GroupFollowsLatest
<1>1. Groups!TypeOK
  BY DEF GroupInv
<1>2. ASSUME NEW i \in Groups!Intents, Groups!AtWork(i) PROVE Newest(i)
  <2>1. PICK l \in Groups!LegsOf(i) : Groups!Waiting(l) \/ exchange[l].status = "ACCEPTED"
    BY <1>2 DEF Groups!AtWork
  <2>2. l \in Groups!Legs /\ l[1] = i
    BY DEF Groups!LegsOf
  <2>3. CASE Groups!Waiting(l)
    <3>1. phase # "idle" /\ l[1] = working
      BY <2>3 DEF Groups!Waiting, Groups!LegsOf
    <3>. QED BY <2>2, <3>1, HandIs
  <2>4. CASE exchange[l].status = "ACCEPTED"
    BY <2>2, <2>4, GroupFacts
  <2>. QED BY <2>1, <2>3, <2>4
<1>3. Groups!OneAtWork
  BY <1>2, GroupFacts DEF Groups!OneAtWork
<1>4. ASSUME NEW i \in Groups!Intents, Groups!Active(i) PROVE Newest(i)
  <2>1. intent[i].status \in {"CREATED", "RUNNING", "RECOVERY_REQUIRED"}
    BY <1>4 DEF Groups!Active, Groups!ActiveIntentStatuses
  <2>2. Groups!Exists(i) /\ ~ Past(i)
    BY <2>1 DEF Groups!Exists, GroupInv, PastIs
  <2>. QED BY <2>2, GroupFacts
<1>5. Groups!OneActive
  BY <1>4, GroupFacts DEF Groups!OneActive
<1>6. ASSUME group \notin {"absent", "voided"} PROVE Groups!GroupFollowsLatest
  <2>1. PICK k \in Groups!Intents : Newest(k)
    BY <1>6, SomeNewest DEF GroupInv, InSequence
  <2>2. Groups!Latest = k
    <3>1. \A i \in Groups!Intents :
             (Groups!Exists(i) /\ \A j \in Groups!Intents : Groups!Exists(j) => j <= i) <=> i = k
      BY <2>1, GroupFacts DEF Newest
    <3>. QED BY <2>1, <3>1 DEF Groups!Latest
  <2>3. GroupShows(k) /\ intent[k].status # "ABSENT"
    BY <2>1 DEF GroupInv, NewestIs, Newest, Groups!Exists
  <2>4. intent[k].status \in Groups!IntentStatus
    BY <1>1 DEF Groups!TypeOK, Groups!IntentRow
  <2>. QED BY <1>6, <2>2, <2>3, <2>4 DEF Groups!GroupFollowsLatest, GroupShows, Busy, Groups!IntentStatus
<1>7. Groups!GroupFollowsLatest
  BY <1>6 DEF Groups!GroupFollowsLatest
<1>. QED BY <1>1, <1>3, <1>5, <1>7
================================================================================
