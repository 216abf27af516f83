------------------------ MODULE MakerThenMarketProofs ------------------------
(***************************************************************************)
(* Proofs about MakerThenMarket, for every target, either kind of intent,  *)
(* all settings of the strategy, and any number of crashes, disconnections *)
(* and submissions without an answer.                                      *)
(*                                                                         *)
(* The invariant relates what the database says of a leg to its order at   *)
(* the venue and to the reports and answers about it that are under way.   *)
(***************************************************************************)
EXTENDS MakerThenMarket, FiniteSetTheorems, WellFoundedInduction, TLAPS

-----------------------------------------------------------------------------
(* Induction, from the well-foundedness of the natural numbers.            *)

(* A set of natural numbers that is not empty has a least element.         *)
LEMMA Least ==
    ASSUME NEW T, T \subseteq Nat, T # {}
    PROVE  \E x \in T : \A y \in T : x <= y
<1>1. \E x \in T : \A y \in T : <<y, x>> \notin OpToRel(<, Nat)
  BY WFMin, NatLessThanWellFounded, Zenon
<1>2. PICK x \in T : \A y \in T : <<y, x>> \notin OpToRel(<, Nat)
  BY <1>1
<1>3. \A y \in T : ~ (y < x)
  BY <1>2 DEF OpToRel
<1>. QED
  BY <1>3

(* What holds of 0, and of n + 1 whenever of n, holds of every number: the *)
(* least number it failed of would have a predecessor.                     *)
LEMMA Induction ==
    ASSUME NEW S, 0 \in S, \A n \in Nat : n \in S => n + 1 \in S
    PROVE  \A n \in Nat : n \in S
<1>. DEFINE T == Nat \ S
<1>. SUFFICES ASSUME T # {} PROVE FALSE
  OBVIOUS
<1>1. PICK x \in T : \A y \in T : x <= y
  BY Least
<1>2. x - 1 \in Nat /\ x - 1 \notin T
  BY <1>1
<1>. QED
  BY <1>1, <1>2

(* The sum over the first n hedges.                                        *)
UpTo(lots) == CHOOSE f : f = [n \in 0..Target |->
                 IF n = 0 THEN 0 ELSE lots[<<"HEDGE", n>>] + f[n - 1]]

IsSum(f, lots, m) ==
    f = [n \in 0..m |-> IF n = 0 THEN 0 ELSE lots[<<"HEDGE", n>>] + f[n - 1]]

(* A sum over the first hedges exists, however many they are.              *)
LEMMA SumExists ==
    ASSUME NEW lots PROVE \A m \in Nat : \E f : IsSum(f, lots, m)
<1>. DEFINE S == {m \in Nat : \E f : IsSum(f, lots, m)}
<1>1. 0 \in S
  <2>1. IsSum([n \in 0..0 |-> 0], lots, 0)
    BY DEF IsSum
  <2>. QED BY <2>1
<1>2. ASSUME NEW m \in Nat, m \in S PROVE m + 1 \in S
  <2>1. PICK f : IsSum(f, lots, m)
    BY <1>2
  <2>. DEFINE g == [n \in 0..(m + 1) |-> IF n = m + 1 THEN lots[<<"HEDGE", m + 1>>] + f[m] ELSE f[n]]
  <2>2. \A n \in 0..m : g[n] = f[n]
    OBVIOUS
  <2>3. \A n \in 0..m : f[n] = IF n = 0 THEN 0 ELSE lots[<<"HEDGE", n>>] + f[n - 1]
    BY <2>1, Zenon DEF IsSum
  <2>4. \A n \in 0..(m + 1) : g[n] = IF n = 0 THEN 0 ELSE lots[<<"HEDGE", n>>] + g[n - 1]
    <3>. TAKE n \in 0..(m + 1)
    <3>1. CASE n = m + 1
      BY <3>1, <2>2
    <3>2. CASE n \in 0..m
      BY <3>2, <2>2, <2>3
    <3>. QED BY <3>1, <3>2
  <2>5. g = [n \in 0..(m + 1) |-> IF n = 0 THEN 0 ELSE lots[<<"HEDGE", n>>] + g[n - 1]]
    BY <2>4
  <2>6. IsSum(g, lots, m + 1)
    BY <2>5 DEF IsSum
  <2>. QED BY <2>6
<1>3. \A n \in Nat : n \in S
  BY <1>1, <1>2, Induction
<1>. QED BY <1>3

(* OfHedges is that sum.                                                   *)
LEMMA SumIs == ASSUME NEW lots PROVE IsSum(UpTo(lots), lots, Target) /\ OfHedges(lots) = UpTo(lots)[Target]
<1>1. \E f : IsSum(f, lots, Target)
  BY SumExists, MakerAssumption
<1>2. IsSum(UpTo(lots), lots, Target)
  BY <1>1 DEF IsSum, UpTo
<1>3. OfHedges(lots) = UpTo(lots)[Target]
  BY DEF OfHedges, UpTo
<1>. QED BY <1>2, <1>3

(* The sum of one hedge more is larger by the lots of that hedge.          *)
LEMMA SumUnfolds ==
    ASSUME NEW lots
    PROVE  /\ UpTo(lots)[0] = 0
           /\ \A n \in Nat : n + 1 <= Target =>
                  UpTo(lots)[n + 1] = lots[<<"HEDGE", n + 1>>] + UpTo(lots)[n]
           /\ OfHedges(lots) = UpTo(lots)[Target]
<1>1. UpTo(lots) = [n \in 0..Target |->
          IF n = 0 THEN 0 ELSE lots[<<"HEDGE", n>>] + UpTo(lots)[n - 1]]
  BY SumIs, Zenon DEF IsSum
<1>2. \A n \in 0..Target : UpTo(lots)[n] = IF n = 0 THEN 0 ELSE lots[<<"HEDGE", n>>] + UpTo(lots)[n - 1]
  BY <1>1
<1>3. UpTo(lots)[0] = 0
  <2>1. 0 \in 0..Target
    BY MakerAssumption
  <2>. QED BY <1>2, <2>1, Zenon
<1>4. \A n \in Nat : n + 1 <= Target =>
          UpTo(lots)[n + 1] = lots[<<"HEDGE", n + 1>>] + UpTo(lots)[n]
  <2>. TAKE n \in Nat
  <2>. HAVE n + 1 <= Target
  <2>1. n + 1 \in 0..Target /\ n + 1 # 0 /\ (n + 1) - 1 = n
    BY MakerAssumption
  <2>. QED BY <1>2, <2>1
<1>. QED BY <1>3, <1>4, SumIs

(* Each number is the index of a hedge leg.                                *)
LEMMA HedgeIsLeg == \A n \in 1..Target : <<"HEDGE", n>> \in Legs /\ <<"HEDGE", n>> \in HedgeLegs
BY DEF Legs, HedgeLegs

(* A sum of lots is a number.                                              *)
LEMMA SumType ==
    ASSUME NEW lots \in [Legs -> Nat]
    PROVE  OfHedges(lots) \in Nat
<1>. DEFINE S == {n \in Nat : n <= Target => UpTo(lots)[n] \in Nat}
<1>1. 0 \in S
  BY SumUnfolds
<1>2. ASSUME NEW n \in Nat, n \in S PROVE n + 1 \in S
  <2>. SUFFICES ASSUME n + 1 <= Target
             PROVE  UpTo(lots)[n + 1] \in Nat
    OBVIOUS
  <2>1. lots[<<"HEDGE", n + 1>>] \in Nat
    BY HedgeIsLeg, MakerAssumption
  <2>. QED BY <1>2, <2>1, SumUnfolds, MakerAssumption
<1>3. \A n \in Nat : n \in S
  <2>. HIDE DEF S
  <2>. QED BY <1>1, <1>2, Induction
<1>. QED BY <1>3, SumUnfolds, MakerAssumption

(* A hedge that gets more lots adds them to the sum.                       *)
LEMMA SumAdds ==
    ASSUME NEW lots \in [Legs -> Nat], NEW more \in [Legs -> Nat],
           NEW m \in 1..Target, NEW k \in Nat,
           more[<<"HEDGE", m>>] = lots[<<"HEDGE", m>>] + k,
           \A l \in HedgeLegs : l # <<"HEDGE", m>> => more[l] = lots[l]
    PROVE  OfHedges(more) = OfHedges(lots) + k
<1>. DEFINE S == {n \in Nat : n <= Target =>
        /\ UpTo(lots)[n] \in Nat
        /\ UpTo(more)[n] = UpTo(lots)[n] + IF n < m THEN 0 ELSE k}
<1>0. UpTo(lots)[0] = 0 /\ UpTo(more)[0] = 0
  BY SumUnfolds
<1>1. 0 \in S
  BY <1>0
<1>2. ASSUME NEW n \in Nat, n \in S PROVE n + 1 \in S
  <2>. SUFFICES ASSUME n + 1 <= Target
             PROVE  /\ UpTo(lots)[n + 1] \in Nat
                    /\ UpTo(more)[n + 1] = UpTo(lots)[n + 1] + IF n + 1 < m THEN 0 ELSE k
    OBVIOUS
  <2>1. lots[<<"HEDGE", n + 1>>] \in Nat /\ more[<<"HEDGE", n + 1>>] \in Nat
    BY HedgeIsLeg, MakerAssumption
  <2>2. more[<<"HEDGE", n + 1>>] = lots[<<"HEDGE", n + 1>>] + IF n + 1 = m THEN k ELSE 0
    BY HedgeIsLeg, MakerAssumption
  <2>3. UpTo(more)[n + 1] = more[<<"HEDGE", n + 1>>] + UpTo(more)[n]
    BY SumUnfolds
  <2>4. UpTo(lots)[n + 1] = lots[<<"HEDGE", n + 1>>] + UpTo(lots)[n]
    BY SumUnfolds
  <2>. QED BY <1>2, <2>1, <2>2, <2>3, <2>4, MakerAssumption
<1>3. \A n \in Nat : n \in S
  <2>. HIDE DEF S
  <2>. QED BY <1>1, <1>2, Induction
<1>4. Target \in S
  BY <1>3, MakerAssumption
<1>5. OfHedges(lots) = UpTo(lots)[Target] /\ OfHedges(more) = UpTo(more)[Target]
  BY SumUnfolds
<1>. QED BY <1>4, <1>5, MakerAssumption

(* A sum grows with its terms.                                             *)
LEMMA SumGrows ==
    ASSUME NEW lots \in [Legs -> Nat], NEW more \in [Legs -> Nat],
           \A l \in HedgeLegs : lots[l] <= more[l]
    PROVE  OfHedges(lots) <= OfHedges(more)
<1>. DEFINE S == {n \in Nat : n <= Target =>
        /\ UpTo(lots)[n] \in Nat /\ UpTo(more)[n] \in Nat
        /\ UpTo(lots)[n] <= UpTo(more)[n]}
<1>0. UpTo(lots)[0] = 0 /\ UpTo(more)[0] = 0
  BY SumUnfolds
<1>1. 0 \in S
  BY <1>0
<1>2. ASSUME NEW n \in Nat, n \in S PROVE n + 1 \in S
  <2>. SUFFICES ASSUME n + 1 <= Target
             PROVE  /\ UpTo(lots)[n + 1] \in Nat /\ UpTo(more)[n + 1] \in Nat
                    /\ UpTo(lots)[n + 1] <= UpTo(more)[n + 1]
    OBVIOUS
  <2>1. lots[<<"HEDGE", n + 1>>] \in Nat /\ more[<<"HEDGE", n + 1>>] \in Nat
    BY HedgeIsLeg, MakerAssumption
  <2>2. lots[<<"HEDGE", n + 1>>] <= more[<<"HEDGE", n + 1>>]
    BY HedgeIsLeg, MakerAssumption
  <2>3. UpTo(more)[n + 1] = more[<<"HEDGE", n + 1>>] + UpTo(more)[n]
    BY SumUnfolds
  <2>4. UpTo(lots)[n + 1] = lots[<<"HEDGE", n + 1>>] + UpTo(lots)[n]
    BY SumUnfolds
  <2>. QED BY <1>2, <2>1, <2>2, <2>3, <2>4, MakerAssumption
<1>3. \A n \in Nat : n \in S
  <2>. HIDE DEF S
  <2>. QED BY <1>1, <1>2, Induction
<1>4. Target \in S
  BY <1>3, MakerAssumption
<1>5. OfHedges(lots) = UpTo(lots)[Target] /\ OfHedges(more) = UpTo(more)[Target]
  BY SumUnfolds
<1>. QED BY <1>4, <1>5, MakerAssumption

(* The sum over hedges without lots is nothing.                            *)
LEMMA SumOfNothing ==
    ASSUME NEW lots, \A l \in HedgeLegs : lots[l] = 0
    PROVE  OfHedges(lots) = 0
<1>. DEFINE S == {n \in Nat : n <= Target => UpTo(lots)[n] = 0}
<1>1. 0 \in S
  BY SumUnfolds
<1>2. ASSUME NEW n \in Nat, n \in S PROVE n + 1 \in S
  <2>. SUFFICES ASSUME n + 1 <= Target
             PROVE  UpTo(lots)[n + 1] = 0
    OBVIOUS
  <2>1. lots[<<"HEDGE", n + 1>>] = 0
    BY HedgeIsLeg, MakerAssumption
  <2>. QED BY <1>2, <2>1, SumUnfolds, MakerAssumption
<1>3. \A n \in Nat : n \in S
  <2>. HIDE DEF S
  <2>. QED BY <1>1, <1>2, Induction
<1>. QED BY <1>3, SumUnfolds, MakerAssumption

-----------------------------------------------------------------------------
(* Folds over the reports of a queue.                                      *)

Apply(row, report) == [order |-> EventOrder(row.order, report),
                       leg   |-> EventLeg(row.order, report)]

(* The fold of SequencesExt over the first n of the reports s.              *)
IsFold(iter, base, s, n) ==
    iter = [I \in SUBSET (1..n) |->
               IF I = {} THEN base ELSE Apply(iter[I \ {Max(I)}], s[Max(I)])]

(* The last of the indices is their maximum.                               *)
LEMMA MaxOfFirst ==
    ASSUME NEW n \in Nat, NEW I \in SUBSET (1..(n + 1)), n + 1 \in I
    PROVE  Max(I) = n + 1 /\ I \ {n + 1} \in SUBSET (1..n)
<1>1. \A x \in I : x <= n + 1
  OBVIOUS
<1>2. \E x \in I : \A y \in I : x >= y
  BY <1>1
<1>3. Max(I) \in I /\ \A y \in I : Max(I) >= y
  BY <1>2 DEF Max
<1>4. Max(I) \in 1..(n + 1)
  BY <1>3
<1>5. Max(I) >= n + 1
  BY <1>3
<1>6. Max(I) = n + 1
  BY <1>4, <1>5
<1>7. \A x \in I \ {n + 1} : x \in 1..n
  BY <1>1
<1>. QED BY <1>6, <1>7

(* The books after the first n reports exist, however many they are.       *)
LEMMA FoldExists ==
    ASSUME NEW base, NEW s
    PROVE  \A n \in Nat : \E iter : IsFold(iter, base, s, n)
<1>. DEFINE S == {n \in Nat : \E iter : IsFold(iter, base, s, n)}
<1>1. 0 \in S
  <2>1. \A I \in SUBSET (1..0) : I = {}
    OBVIOUS
  <2>2. IsFold([I \in SUBSET (1..0) |-> base], base, s, 0)
    BY <2>1 DEF IsFold
  <2>. QED BY <2>2
<1>2. ASSUME NEW n \in Nat, n \in S PROVE n + 1 \in S
  <2>1. PICK f : IsFold(f, base, s, n)
    BY <1>2
  <2>. DEFINE g == [I \in SUBSET (1..(n + 1)) |->
                       IF n + 1 \in I THEN Apply(f[I \ {n + 1}], s[n + 1]) ELSE f[I]]
  <2>2. \A I \in SUBSET (1..n) : f[I] = IF I = {} THEN base ELSE Apply(f[I \ {Max(I)}], s[Max(I)])
    BY <2>1, Zenon DEF IsFold
  <2>3. ASSUME NEW I \in SUBSET (1..n)
        PROVE  g[I] = f[I] /\ I \ {Max(I)} \in SUBSET (1..n)
    <3>1. I \in SUBSET (1..(n + 1)) /\ n + 1 \notin I
      OBVIOUS
    <3>. QED BY <3>1
  <2>4. ASSUME NEW I \in SUBSET (1..(n + 1))
        PROVE  g[I] = IF I = {} THEN base ELSE Apply(g[I \ {Max(I)}], s[Max(I)])
    <3>1. CASE n + 1 \in I
      <4>1. Max(I) = n + 1 /\ I \ {n + 1} \in SUBSET (1..n) /\ I # {}
        BY <3>1, MaxOfFirst
      <4>2. g[I] = Apply(f[I \ {n + 1}], s[n + 1])
        BY <3>1
      <4>3. g[I \ {n + 1}] = f[I \ {n + 1}]
        BY <4>1, <2>3
      <4>. HIDE DEF g
      <4>. QED BY <4>1, <4>2, <4>3
    <3>2. CASE n + 1 \notin I
      <4>1. I \in SUBSET (1..n)
        BY <3>2
      <4>2. g[I] = f[I] /\ g[I \ {Max(I)}] = f[I \ {Max(I)}]
        BY <4>1, <2>3
      <4>. HIDE DEF g
      <4>. QED BY <4>1, <4>2, <2>2
    <3>. QED BY <3>1, <3>2
  <2>5. g = [I \in SUBSET (1..(n + 1)) |->
               IF I = {} THEN base ELSE Apply(g[I \ {Max(I)}], s[Max(I)])]
    <3>1. g = [I \in SUBSET (1..(n + 1)) |-> g[I]]
      OBVIOUS
    <3>. HIDE DEF g
    <3>. QED BY <3>1, <2>4, Zenon
  <2>6. IsFold(g, base, s, n + 1)
    <3>. HIDE DEF g
    <3>. QED BY <2>5, Zenon DEF IsFold
  <2>. QED BY <2>6
<1>3. \A n \in Nat : n \in S
  <2>. HIDE DEF S
  <2>. QED BY <1>1, <1>2, Induction
<1>. QED BY <1>3

Fold(base, s) == CHOOSE iter : IsFold(iter, base, s, Len(s))

(* Read gives the books after all the reports of a queue.                  *)
LEMMA FoldIs ==
    ASSUME NEW l \in Legs, queue[l] \in Seq(VenueRow)
    PROVE  Read(l) = Fold([order |-> db.order[l], leg |-> db.leg[l]], queue[l])[1..Len(queue[l])]
<1>1. DOMAIN queue[l] = 1..Len(queue[l])
  OBVIOUS
<1>. QED
  BY <1>1, Zenon DEF Read, FoldLeft, MapThenFoldSet, Fold, IsFold, Apply

(* One report more is one more application.                                *)
LEMMA FoldSteps ==
    ASSUME NEW base, NEW s, Len(s) \in Nat
    PROVE  /\ Fold(base, s)[1..0] = base
           /\ \A n \in Nat : n + 1 <= Len(s) =>
                  Fold(base, s)[1..(n + 1)] = Apply(Fold(base, s)[1..n], s[n + 1])
<1>1. IsFold(Fold(base, s), base, s, Len(s))
  BY FoldExists, Zenon DEF Fold
<1>2. \A I \in SUBSET (1..Len(s)) : Fold(base, s)[I] =
          IF I = {} THEN base ELSE Apply(Fold(base, s)[I \ {Max(I)}], s[Max(I)])
  BY <1>1, Zenon DEF IsFold
<1>3. Fold(base, s)[1..0] = base
  <2>1. 1..0 = {} /\ {} \in SUBSET (1..Len(s))
    OBVIOUS
  <2>. QED BY <1>2, <2>1
<1>4. ASSUME NEW n \in Nat, n + 1 <= Len(s)
      PROVE  Fold(base, s)[1..(n + 1)] = Apply(Fold(base, s)[1..n], s[n + 1])
  <2>1. 1..(n + 1) \in SUBSET (1..Len(s)) /\ 1..(n + 1) # {}
    <3>1. \A x \in 1..(n + 1) : x \in 1..Len(s)
      BY <1>4
    <3>2. 1 \in 1..(n + 1)
      OBVIOUS
    <3>. QED BY <3>1, <3>2
  <2>2. 1..(n + 1) \in SUBSET (1..(n + 1)) /\ n + 1 \in 1..(n + 1)
    OBVIOUS
  <2>3. Max(1..(n + 1)) = n + 1
    BY <2>2, MaxOfFirst
  <2>4. (1..(n + 1)) \ {n + 1} = 1..n
    OBVIOUS
  <2>. QED BY <1>2, <2>1, <2>3, <2>4
<1>. QED BY <1>3, <1>4

-----------------------------------------------------------------------------
(* The invariant.  d is the database, at the orders at the venues, way the *)
(* submissions still on their way, sent the number of submissions.         *)

Settled == {"FILLED", "CANCELED"}

(* The maker with the whole target; the hedges in their order, none of     *)
(* them without lots.                                                      *)
Planned(d) ==
    /\ d.qty[Maker] = Target
    /\ \E n \in 0..Target :
           /\ \A k \in 1..Target : d.qty[<<"HEDGE", k>>] > 0 <=> k <= n
           /\ n <= OfHedges(d.qty)

(* A leg has at most one command to submit it, none before it exists.      *)
OneCommand(d) ==
    /\ \A i, j \in DOMAIN d.outbox :
           /\ d.outbox[i].kind = "SUBMIT" /\ d.outbox[j].kind = "SUBMIT"
           /\ d.outbox[i].leg = d.outbox[j].leg
           => i = j
    /\ \A i \in DOMAIN d.outbox : d.qty[d.outbox[i].leg] > 0

(* No order is recorded before its leg exists, and nothing is done for a   *)
(* leg before its order is recorded.                                       *)
OrderFirst(d, sent) ==
    \A l \in Legs :
        /\ d.qty[l] = 0 => d.order[l].status = "NONE"
        /\ d.order[l].status = "NONE" =>
               d.order[l].filled = 0 /\ d.leg[l] = "PLANNED" /\ sent[l] = 0

(* A command that waits to be sent is for a leg without an order.          *)
UnsentFirst(d) ==
    \A i \in DOMAIN d.outbox :
        d.outbox[i].kind = "SUBMIT" /\ d.outbox[i].status = "PENDING" =>
            d.order[d.outbox[i].leg].status = "NONE"

Working(l, at, way) == at[l].status \in {"ACCEPTED", "PARTIALLY_FILLED"} \/ l \in way
Known(l, d, at, way) == ~Working(l, at, way) /\ d.order[l].filled = at[l].filled

(* What is recorded never exceeds the venue, and a leg that is over is so  *)
(* at its venue, with all its fills recorded.                              *)
RecordsAreTrue(d, at, way, sent) ==
    \A l \in Legs :
        /\ d.order[l].filled <= at[l].filled
        /\ d.leg[l] \notin NonTerminalLegStatuses => sent[l] = 1 /\ Known(l, d, at, way)

(* The market order covers what the maker order, at its end, left open.    *)
FallbackCovers(d, at, way, sent) ==
    d.qty[Fallback] > 0 =>
        /\ sent[Maker] = 1 /\ Known(Maker, d, at, way)
        /\ at[Maker].filled + d.qty[Fallback] = Target

Covered(d, at) == OfHedges(d.qty) <= OfMakers(Fills(at))

Whole(d, at) ==
    d.finished /\ d.group \in {"open", "closed"} /\ d.intent = "COMPLETED" =>
        OfHedges(Fills(at)) = Target

(* The orders at the venues, each sent once.                               *)
AtVenues(qty, at, way, sent) ==
    \A l \in Legs :
        /\ sent[l] \in {0, 1}
        /\ at[l].status # "NONE" \/ l \in way => sent[l] = 1
        /\ l \in way => at[l].status = "NONE"
        /\ at[l].filled <= qty[l]
        /\ at[l].status \in {"NONE", "ACCEPTED"} => at[l].filled = 0
        /\ at[l].status # "NONE" => (at[l].status = "FILLED" <=> at[l].filled = qty[l])

Types(d, at, way, sent) ==
    d \in Database /\ at \in [Legs -> VenueRow] /\ way \subseteq Legs /\ sent \in [Legs -> Nat]

Sound(d, at, way, sent) ==
    /\ Types(d, at, way, sent)
    /\ Planned(d) /\ OneCommand(d) /\ OrderFirst(d, sent) /\ UnsentFirst(d)
    /\ RecordsAreTrue(d, at, way, sent) /\ FallbackCovers(d, at, way, sent)
    /\ Covered(d, at) /\ Whole(d, at)
    /\ AtVenues(d.qty, at, way, sent)

(* What an intent that is over knows, and leaves behind.                   *)
OverKnows(d, at, way) ==
    Over(d.intent) =>
        /\ OfMakers(Fills(d.order)) - d.order[Compensation].filled <= OfHedges(Fills(d.order))
        /\ d.qty[Compensation] = 0 =>
               /\ \A l \in Legs : Known(l, d, at, way)
               /\ OfMakers(Fills(at)) = OfHedges(Fills(at))

(* A report says no more than the venue, and an end only when it is one.   *)
TrueReport(r, order) ==
    /\ r.filled <= order.filled
    /\ r.status \in Settled => r = order

ReportsAreTrue ==
    \A l \in Legs : \A k \in DOMAIN queue[l] :
        /\ venue[l].status # "NONE"
        /\ queue[l][k].status # "NONE" /\ TrueReport(queue[l][k], venue[l])

(* The command at hand between dispatch and record.                        *)
InFlight(i) == phase \in {"sending", "sent"} /\ \A j \in fresh \cup stale : i <= j

(* Claimed commands that are not in flight may be sent: no order yet.      *)
FreshIsUnsent ==
    \A i \in fresh :
        /\ db.outbox[i].status # "PENDING"
        /\ db.outbox[i].kind = "SUBMIT" /\ ~InFlight(i) =>
               db.order[db.outbox[i].leg].status = "NONE"

(* While a submission is under way its intent runs and its order is        *)
(* recorded; it has not been sent before, or was sent once.                *)
InFlightIsRecorded ==
    phase \in {"sending", "sent"} =>
        /\ db.intent = "RUNNING"
        /\ \A i \in fresh : InFlight(i) =>
            LET l == db.outbox[i].leg IN
            /\ db.order[l].status # "NONE" /\ db.leg[l] \in NonTerminalLegStatuses
            /\ submitted[l] = IF phase = "sending" THEN 0 ELSE 1

ResultIsTrue ==
    phase = "sent" => \A i \in fresh : InFlight(i) =>
        LET l == db.outbox[i].leg IN
        /\ result.status \notin {"NONE", "INITIALIZED", "PENDING_CANCEL"}
        /\ TrueReport(result, venue[l])
        /\ result.status = "REJECTED" => venue[l].status = "NONE" /\ l \notin wire

IInv ==
    /\ TypeOK
    /\ Sound(db, venue, wire, submitted)
    /\ OverKnows(db, venue, wire)
    /\ ReportsAreTrue /\ FreshIsUnsent /\ InFlightIsRecorded /\ ResultIsTrue

(* What the worker knows of a leg after it has read all reports about it.  *)
LEMMA ReadIsTrue ==
    ASSUME TypeOK, ReportsAreTrue, NEW l \in Legs,
           db.order[l].filled <= venue[l].filled
    PROVE  /\ Read(l).order \in OrderRow /\ Read(l).leg \in LegStatus
           /\ queue[l] = << >> => Read(l) = [order |-> db.order[l], leg |-> db.leg[l]]
           /\ queue[l] # << >> => /\ Read(l).order.status # "NONE"
                                 /\ Read(l).order.filled >= Last(queue[l]).filled
           /\ db.order[l].filled <= Read(l).order.filled
           /\ Read(l).order.filled <= venue[l].filled
           /\ Read(l).leg \notin NonTerminalLegStatuses =>
                  \/ Read(l).leg = db.leg[l] /\ queue[l] = << >>
                  \/ venue[l].status \in Settled /\ Read(l).order.filled = venue[l].filled
<1>. DEFINE base == [order |-> db.order[l], leg |-> db.leg[l]]
            s == queue[l]
            F(n) == Fold(base, s)[1..n]
            S == {n \in Nat : n <= Len(s) =>
                    /\ F(n).order \in OrderRow /\ F(n).leg \in LegStatus
                    /\ n > 0 => F(n).order.status # "NONE" /\ F(n).order.filled >= s[n].filled
                    /\ db.order[l].filled <= F(n).order.filled
                    /\ F(n).order.filled <= venue[l].filled
                    /\ n > 0 /\ F(n).leg \notin NonTerminalLegStatuses =>
                           venue[l].status \in Settled /\ F(n).order.filled = venue[l].filled}
<1>1. s \in Seq(VenueRow) /\ Len(s) \in Nat /\ DOMAIN s = 1..Len(s)
  BY DEF TypeOK
<1>2. /\ db.order[l] \in OrderRow /\ db.leg[l] \in LegStatus /\ venue[l] \in VenueRow
  BY DEF TypeOK, Database
<1>3. /\ F(0) = base
      /\ \A n \in Nat : n + 1 <= Len(s) => F(n + 1) = Apply(F(n), s[n + 1])
  <2>1. Len(s) \in Nat
    BY <1>1
  <2>. HIDE DEF s, base
  <2>. QED BY <2>1, FoldSteps
<1>4. 0 \in S
  BY <1>2, <1>3 DEF OrderRow, VenueRow
<1>5. ASSUME NEW n \in Nat, n \in S PROVE n + 1 \in S
  <2>1. SUFFICES ASSUME n + 1 <= Len(s) PROVE n + 1 \in S
    OBVIOUS
  <2>2. /\ F(n).order \in OrderRow /\ F(n).leg \in LegStatus
        /\ db.order[l].filled <= F(n).order.filled
        /\ F(n).order.filled <= venue[l].filled
    BY <1>5, <2>1, <1>1
  <2>3. /\ s[n + 1] \in VenueRow /\ s[n + 1].status # "NONE"
        /\ s[n + 1].filled <= venue[l].filled
        /\ s[n + 1].status \in Settled => s[n + 1] = venue[l]
    <3>1. n + 1 \in DOMAIN s
      BY <2>1, <1>1
    <3>. QED BY <1>1, <3>1 DEF ReportsAreTrue, TrueReport
  <2>4. F(n + 1) = Apply(F(n), s[n + 1])
    BY <1>3, <2>1
  <2>. HIDE DEF F, s, base
  <2>5. F(n + 1).order = EventOrder(F(n).order, s[n + 1])
        /\ F(n + 1).leg = EventLeg(F(n).order, s[n + 1])
    BY <2>4 DEF Apply
  <2>6. /\ F(n + 1).order \in OrderRow
        /\ F(n + 1).order.status # "NONE" /\ F(n + 1).order.filled >= s[n + 1].filled
        /\ db.order[l].filled <= F(n + 1).order.filled
        /\ F(n + 1).order.filled <= venue[l].filled
        /\ s[n + 1].status \in Settled => F(n + 1).order.filled = venue[l].filled
    BY <1>2, <2>2, <2>3, <2>5 DEF EventOrder, OrderRow, VenueRow, OrderStatus, Larger
  <2>7. F(n + 1).leg \in LegStatus
        /\ (F(n + 1).leg \notin NonTerminalLegStatuses => s[n + 1].status \in Settled)
    BY <2>2, <2>3, <2>5 DEF EventLeg, LegStatus, NonTerminalLegStatuses, FailureOrderStatuses,
          VenueRow, VenueStatus, Settled
  <2>8. s[n + 1].status \in Settled => venue[l].status \in Settled
    BY <2>3
  <2>. QED BY <2>6, <2>7, <2>8
<1>6. \A n \in Nat : n \in S
  <2>. HIDE DEF S
  <2>. QED BY <1>4, <1>5, Induction
<1>7. Read(l) = F(Len(s))
  BY <1>1, FoldIs
<1>8. Len(s) \in S
  BY <1>1, <1>6
<1>9. s = << >> <=> Len(s) = 0
  BY <1>1
<1>10. s # << >> => Last(s) = s[Len(s)]
  BY DEF Last
<1>11. /\ Read(l).order \in OrderRow /\ Read(l).leg \in LegStatus
       /\ Len(s) > 0 => Read(l).order.status # "NONE" /\ Read(l).order.filled >= s[Len(s)].filled
       /\ db.order[l].filled <= Read(l).order.filled
       /\ Read(l).order.filled <= venue[l].filled
       /\ Len(s) > 0 /\ Read(l).leg \notin NonTerminalLegStatuses =>
              venue[l].status \in Settled /\ Read(l).order.filled = venue[l].filled
  <2>. HIDE DEF F
  <2>. QED BY <1>1, <1>7, <1>8
<1>12. s = << >> => Read(l) = base
  BY <1>3, <1>7, <1>9
<1>. QED BY <1>1, <1>9, <1>10, <1>11, <1>12

-----------------------------------------------------------------------------
(* Legs, rows and sums.                                                    *)

(* Maker, fallback, compensation and hedges are different legs.            *)
LEMMA Roles ==
    /\ Maker \in Legs /\ Fallback \in Legs /\ Compensation \in Legs /\ HedgeLegs \subseteq Legs
    /\ Maker # Fallback /\ Maker # Compensation /\ Fallback # Compensation
    /\ Maker \notin HedgeLegs /\ Fallback \notin HedgeLegs /\ Compensation \notin HedgeLegs
    /\ \A l \in HedgeLegs : \E k \in 1..Target : l = <<"HEDGE", k>>
    /\ \A l \in Legs : l \in {Maker, Fallback, Compensation} \cup HedgeLegs
<1>1. \A l \in HedgeLegs : \E k \in 1..Target : l = <<"HEDGE", k>>
  BY DEF HedgeLegs
<1>2. \A l \in HedgeLegs : l # Maker /\ l # Fallback /\ l # Compensation
  BY <1>1 DEF Maker, Fallback, Compensation
<1>. QED
  BY <1>1, <1>2 DEF Legs, MakerLegs, Maker, Fallback, Compensation

WithStatus(s, i, x) == [s EXCEPT ![i].status = x]

(* A command with another status is otherwise the same, and so are the     *)
(* other rows.                                                             *)
LEMMA RowSet ==
    ASSUME NEW s \in Seq(Command), NEW i, NEW x,
           i \in DOMAIN s => x \in OutboxStatus \ {"ABSENT"}
    PROVE  LET t == WithStatus(s, i, x) IN
           /\ t \in Seq(Command) /\ DOMAIN t = DOMAIN s
           /\ \A j \in DOMAIN s : /\ t[j].kind = s[j].kind /\ t[j].leg = s[j].leg
                                  /\ t[j].status = IF j = i THEN x ELSE s[j].status
<1>. DEFINE t == WithStatus(s, i, x)
<1>1. DOMAIN s = 1..Len(s) /\ Len(s) \in Nat
  OBVIOUS
<1>2. t = [j \in 1..Len(s) |-> IF j = i THEN [s[i] EXCEPT !.status = x] ELSE s[j]]
  BY <1>1 DEF WithStatus
<1>. HIDE DEF t
<1>3. \A j \in 1..Len(s) : s[j] \in Command
  BY <1>1
<1>4. \A j \in 1..Len(s) : t[j] \in Command
  BY <1>1, <1>2, <1>3 DEF Command
<1>5. t \in [1..Len(s) -> Command]
  BY <1>2, <1>4
<1>6. t \in Seq(Command)
  BY <1>1, <1>5
<1>7. \A j \in DOMAIN s : /\ t[j].kind = s[j].kind /\ t[j].leg = s[j].leg
                          /\ t[j].status = IF j = i THEN x ELSE s[j].status
  BY <1>1, <1>2, <1>3 DEF Command
<1>. QED BY <1>1, <1>2, <1>6, <1>7 DEF t

(* A database that keeps the commands of another, and asks for none of     *)
(* them again.                                                             *)
Extends(d, e) ==
    /\ DOMAIN d.outbox \subseteq DOMAIN e.outbox
    /\ \A i \in DOMAIN d.outbox :
           /\ e.outbox[i].kind = d.outbox[i].kind /\ e.outbox[i].leg = d.outbox[i].leg
           /\ e.outbox[i].status = "PENDING" => d.outbox[i].status = "PENDING"
    /\ \A l \in Legs : d.order[l].status = "NONE" => e.order[l].status = "NONE"

(* A command is added behind the rows there are.                           *)
LEMMA RowAdd ==
    ASSUME NEW s \in Seq(Command), NEW c \in Command
    PROVE  LET t == Append(s, c) IN
           /\ t \in Seq(Command) /\ DOMAIN t = DOMAIN s \cup {Len(s) + 1}
           /\ Len(s) + 1 \notin DOMAIN s /\ t[Len(s) + 1] = c
           /\ \A j \in DOMAIN s : t[j] = s[j]
OBVIOUS

(* The fills of the orders are numbers, and so are their sums.             *)
LEMMA FillsType ==
    ASSUME NEW o, \A l \in Legs : o[l].filled \in Nat
    PROVE  /\ Fills(o) \in [Legs -> Nat] /\ \A l \in Legs : Fills(o)[l] = o[l].filled
           /\ OfHedges(Fills(o)) \in Nat
           /\ OfMakers(Fills(o)) = o[Maker].filled + o[Fallback].filled
           /\ OfMakers(Fills(o)) \in Nat
<1>1. Fills(o) \in [Legs -> Nat] /\ \A l \in Legs : Fills(o)[l] = o[l].filled
  BY DEF Fills
<1>2. OfHedges(Fills(o)) \in Nat
  BY <1>1, SumType
<1>. QED
  BY <1>1, <1>2, Roles DEF OfMakers

(* The sums over fills and over legs stand in one order.                   *)
LEMMA Bounds ==
    ASSUME NEW d, NEW at, NEW way, NEW sent, Sound(d, at, way, sent)
    PROVE  /\ d.qty \in [Legs -> 0..Target] /\ OfHedges(d.qty) \in Nat
           /\ OfHedges(Fills(d.order)) \in Nat /\ OfHedges(Fills(at)) \in Nat
           /\ OfHedges(Fills(d.order)) <= OfHedges(Fills(at))
           /\ OfHedges(Fills(at)) <= OfHedges(d.qty)
           /\ OfHedges(d.qty) <= OfMakers(Fills(at))
           /\ OfMakers(Fills(d.order)) = d.order[Maker].filled + d.order[Fallback].filled
           /\ OfMakers(Fills(at)) = at[Maker].filled + at[Fallback].filled
           /\ OfMakers(Fills(d.order)) \in Nat /\ OfMakers(Fills(at)) \in Nat
           /\ OfMakers(Fills(d.order)) <= OfMakers(Fills(at))
           /\ OfMakers(Fills(at)) <= Target
           /\ d.qty[Fallback] = 0 => at[Fallback].filled = 0 /\ d.order[Fallback].filled = 0
<1>1. /\ d.qty \in [Legs -> 0..Target] /\ d.qty \in [Legs -> Nat]
      /\ \A l \in Legs : d.order[l].filled \in Nat /\ at[l].filled \in Nat
  BY MakerAssumption DEF Sound, Types, Database, OrderRow, VenueRow
<1>2. \A l \in Legs : /\ d.order[l].filled <= at[l].filled /\ at[l].filled <= d.qty[l]
  BY DEF Sound, RecordsAreTrue, AtVenues
<1>3. /\ Fills(d.order) \in [Legs -> Nat] /\ \A l \in Legs : Fills(d.order)[l] = d.order[l].filled
      /\ OfHedges(Fills(d.order)) \in Nat
      /\ OfMakers(Fills(d.order)) = d.order[Maker].filled + d.order[Fallback].filled
  BY <1>1, FillsType
<1>4. /\ Fills(at) \in [Legs -> Nat] /\ \A l \in Legs : Fills(at)[l] = at[l].filled
      /\ OfHedges(Fills(at)) \in Nat
      /\ OfMakers(Fills(at)) = at[Maker].filled + at[Fallback].filled
  BY <1>1, FillsType
<1>5. OfHedges(d.qty) \in Nat
  BY <1>1, SumType
<1>6. OfHedges(Fills(d.order)) <= OfHedges(Fills(at))
  BY <1>2, <1>3, <1>4, Roles, SumGrows
<1>7. OfHedges(Fills(at)) <= OfHedges(d.qty)
  BY <1>1, <1>2, <1>4, Roles, SumGrows
<1>8. OfHedges(d.qty) <= OfMakers(Fills(at))
  BY DEF Sound, Covered
<1>9. d.qty[Maker] = Target /\ (d.qty[Fallback] > 0 => at[Maker].filled + d.qty[Fallback] = Target)
  BY DEF Sound, Planned, FallbackCovers
<1>10. /\ at[Maker].filled \in Nat /\ at[Fallback].filled \in Nat
       /\ d.order[Maker].filled \in Nat /\ d.order[Fallback].filled \in Nat
       /\ d.order[Maker].filled <= at[Maker].filled /\ at[Maker].filled <= d.qty[Maker]
       /\ d.order[Fallback].filled <= at[Fallback].filled /\ at[Fallback].filled <= d.qty[Fallback]
       /\ d.qty[Fallback] \in 0..Target
  BY <1>1, <1>2, Roles
<1>. QED
  BY <1>1, <1>3, <1>4, <1>5, <1>6, <1>7, <1>8, <1>9, <1>10, MakerAssumption

-----------------------------------------------------------------------------
(* What a transaction may do without disturbing the invariant: record what *)
(* is true of the venues, and change commands that no one will send.       *)
LEMMA Following ==
    ASSUME NEW d, NEW e, NEW at, NEW way, NEW sent, Sound(d, at, way, sent),
           e \in Database, e.qty = d.qty,
           DOMAIN d.outbox \subseteq DOMAIN e.outbox,
           \A i \in DOMAIN e.outbox :
               IF i \in DOMAIN d.outbox
               THEN e.outbox[i].kind = d.outbox[i].kind /\ e.outbox[i].leg = d.outbox[i].leg
               ELSE e.outbox[i].kind = "CANCEL" /\ e.outbox[i].leg = Maker,
           \A l \in Legs :
               /\ d.order[l].filled <= e.order[l].filled
               /\ d.qty[l] = 0 => e.order[l].status = "NONE"
               /\ e.order[l].status = "NONE" =>
                      /\ d.order[l].status = "NONE"
                      /\ e.order[l].filled = d.order[l].filled /\ e.leg[l] = d.leg[l],
           RecordsAreTrue(e, at, way, sent), UnsentFirst(e), Whole(e, at)
    PROVE  Sound(e, at, way, sent)
<1>1. Types(e, at, way, sent) /\ Planned(e) /\ AtVenues(e.qty, at, way, sent) /\ Covered(e, at)
  BY DEF Sound, Types, Planned, Covered
<1>2. OneCommand(e)
  <2>1. d.qty[Maker] > 0
    BY MakerAssumption DEF Sound, Planned
  <2>2. \A i \in DOMAIN e.outbox : d.qty[e.outbox[i].leg] > 0
    BY <2>1 DEF Sound, OneCommand
  <2>3. ASSUME NEW i \in DOMAIN e.outbox, NEW j \in DOMAIN e.outbox,
               e.outbox[i].kind = "SUBMIT", e.outbox[j].kind = "SUBMIT",
               e.outbox[i].leg = e.outbox[j].leg
        PROVE  i = j
    BY <2>3 DEF Sound, OneCommand
  <2>. QED BY <2>2, <2>3 DEF OneCommand
<1>3. OrderFirst(e, sent)
  BY DEF Sound, OrderFirst
<1>4. FallbackCovers(e, at, way, sent)
  <2>1. /\ d.order[Maker].filled <= e.order[Maker].filled
        /\ e.order[Maker].filled <= at[Maker].filled
        /\ d.order[Maker].filled \in Nat /\ e.order[Maker].filled \in Nat
        /\ at[Maker].filled \in Nat
    BY Roles DEF RecordsAreTrue, Sound, Types, Database, OrderRow, VenueRow
  <2>. QED BY <2>1 DEF Sound, FallbackCovers, Known
<1>. QED BY <1>1, <1>2, <1>3, <1>4 DEF Sound

-----------------------------------------------------------------------------
(* The steps of the state machine.                                         *)

(* A command is marked as done.                                            *)
LEMMA AcknowledgedSound ==
    ASSUME NEW d, NEW at, NEW way, NEW sent, Sound(d, at, way, sent), NEW i
    PROVE  LET e == Acknowledged(d, i) IN
           /\ Sound(e, at, way, sent)
           /\ e = [d EXCEPT !.outbox = e.outbox]
           /\ e.qty = d.qty /\ e.order = d.order /\ e.leg = d.leg /\ e.intent = d.intent
           /\ e.finished = d.finished
           /\ DOMAIN e.outbox = DOMAIN d.outbox
           /\ Extends(d, e)
<1>. DEFINE s == d.outbox
            x == IF s[i].status = "PROCESSING" THEN "SENT" ELSE s[i].status
            t == [s EXCEPT ![i].status = x]
            e == Acknowledged(d, i)
<1>1. d \in Database /\ s \in Seq(Command)
  BY DEF Sound, Types, Database
<1>2. i \in DOMAIN s => s[i] \in Command
  BY <1>1
<1>3. i \in DOMAIN s => x \in OutboxStatus \ {"ABSENT"}
  BY <1>2 DEF Command, OutboxStatus
<1>4. /\ t \in Seq(Command) /\ DOMAIN t = DOMAIN s
      /\ \A j \in DOMAIN s : /\ t[j].kind = s[j].kind /\ t[j].leg = s[j].leg
                             /\ t[j].status = IF j = i THEN x ELSE s[j].status
  <2>1. t = WithStatus(s, i, x)
    BY DEF WithStatus
  <2>. HIDE DEF s, x, t
  <2>. QED BY <1>1, <1>3, <2>1, RowSet
<1>5. e = [d EXCEPT !.outbox = t]
  BY DEF Acknowledged
<1>. HIDE DEF t
<1>6. e \in Database
  BY <1>1, <1>4, <1>5 DEF Database
<1>7. /\ e.outbox = t /\ e.qty = d.qty /\ e.order = d.order /\ e.leg = d.leg
      /\ e.intent = d.intent /\ e.finished = d.finished /\ e.group = d.group
  BY <1>1, <1>5 DEF Database
<1>. HIDE DEF e
<1>8. UnsentFirst(e)
  BY <1>4, <1>7 DEF UnsentFirst, Sound
<1>9. RecordsAreTrue(e, at, way, sent) /\ Whole(e, at)
  BY <1>7 DEF Sound, RecordsAreTrue, Whole, Known
<1>10. Sound(e, at, way, sent)
  <2>1. \A l \in Legs : d.order[l].filled <= e.order[l].filled
    BY <1>1, <1>7 DEF Database, OrderRow
  <2>. QED BY <1>4, <1>6, <1>7, <1>8, <1>9, <2>1, Following DEF Sound, OrderFirst
<1>11. Extends(d, e)
  BY <1>4, <1>7 DEF Extends
<1>. QED BY <1>4, <1>5, <1>7, <1>10, <1>11 DEF e

(* Changing the intent and the group, unless the group is reported whole.  *)
LEMMA LabelledSound ==
    ASSUME NEW d, NEW at, NEW way, NEW sent, Sound(d, at, way, sent), NEW e, e \in Database,
           e.outbox = d.outbox, e.qty = d.qty, e.order = d.order, e.leg = d.leg,
           Whole(e, at)
    PROVE  Sound(e, at, way, sent)
<1>1. \A l \in Legs : d.order[l].filled <= e.order[l].filled
  BY DEF Database, OrderRow
<1>2. UnsentFirst(e) /\ RecordsAreTrue(e, at, way, sent)
  BY DEF Sound, UnsentFirst, RecordsAreTrue, Known
<1>. QED BY <1>1, <1>2, Following DEF Sound, OrderFirst

(* The intent is set to RUNNING.                                           *)
LEMMA RunningSound ==
    ASSUME NEW d, NEW at, NEW way, NEW sent, Sound(d, at, way, sent)
    PROVE  /\ Sound(Running(d), at, way, sent)
           /\ Running(d).intent = "RUNNING"
           /\ Running(d).outbox = d.outbox /\ Running(d).qty = d.qty
           /\ Running(d).order = d.order /\ Running(d).leg = d.leg
<1>1. d \in Database
  BY DEF Sound, Types
<1>2. /\ Running(d) \in Database /\ Running(d).intent = "RUNNING"
      /\ Running(d).outbox = d.outbox /\ Running(d).qty = d.qty
      /\ Running(d).order = d.order /\ Running(d).leg = d.leg
  BY <1>1 DEF Running, Database
<1>3. Whole(Running(d), at)
  BY <1>2 DEF Whole
<1>. QED BY <1>2, <1>3, LabelledSound

(* The intent needs recovery.                                              *)
LEMMA RecoverySound ==
    ASSUME NEW d, NEW at, NEW way, NEW sent, Sound(d, at, way, sent)
    PROVE  /\ Sound(Recovery(d), at, way, sent)
           /\ Recovery(d).intent = "RECOVERY_REQUIRED"
           /\ Recovery(d).outbox = d.outbox /\ Recovery(d).qty = d.qty
           /\ Recovery(d).order = d.order /\ Recovery(d).leg = d.leg
<1>1. d \in Database
  BY DEF Sound, Types
<1>2. /\ Recovery(d) \in Database /\ Recovery(d).intent = "RECOVERY_REQUIRED"
      /\ Recovery(d).outbox = d.outbox /\ Recovery(d).qty = d.qty
      /\ Recovery(d).order = d.order /\ Recovery(d).leg = d.leg
  BY <1>1 DEF Recovery, Database, GroupStatus
<1>3. Whole(Recovery(d), at)
  BY <1>2 DEF Whole
<1>. QED BY <1>2, <1>3, LabelledSound

(* A whole is reported when the hedge has filled the target.               *)
LEMMA CompleteSound ==
    ASSUME NEW d, NEW at, NEW way, NEW sent, Sound(d, at, way, sent)
    PROVE  /\ Sound(Complete(d), at, way, sent)
           /\ Complete(d).outbox = d.outbox /\ Complete(d).qty = d.qty
           /\ Complete(d).order = d.order /\ Complete(d).leg = d.leg
<1>. DEFINE m == Lesser(Desired(d), OfHedges(Fills(d.order)))
<1>1. d \in Database
  BY DEF Sound, Types
<1>2. /\ Complete(d) \in Database
      /\ Complete(d).outbox = d.outbox /\ Complete(d).qty = d.qty
      /\ Complete(d).order = d.order /\ Complete(d).leg = d.leg
      /\ Complete(d) = d \/ (Complete(d).group \in {"open", "closed"} /\ Complete(d).intent = "COMPLETED"
                               => m = Target)
  <2>. HIDE DEF m
  <2>1. Complete(d) = Finish(d, m)
    BY DEF Complete, m
  <2>2. CASE d.finished
    BY <1>1, <2>1, <2>2 DEF Finish
  <2>3. CASE ~ d.finished
    <3>1. PICK i \in {"FAILED", "COMPLETED"}, g \in {"open", "closed", "failed", "open_partial"} :
             /\ Complete(d) = [d EXCEPT !.finished = TRUE, !.intent = i, !.group = g]
             /\ g \in {"open", "closed"} /\ i = "COMPLETED" => m = Target
      BY <2>1, <2>3 DEF Finish
    <3>. QED BY <1>1, <3>1 DEF Database, GroupStatus
  <2>. QED BY <2>2, <2>3
<1>3. m = Target => OfHedges(Fills(at)) = Target
  BY Bounds, MakerAssumption DEF Lesser, Desired
<1>4. Whole(Complete(d), at)
  BY <1>2, <1>3 DEF Whole, Sound
<1>. QED BY <1>2, <1>4, LabelledSound

(* A cancellation of the maker order is asked for.                         *)
LEMMA RequestCancelSound ==
    ASSUME NEW d, NEW at, NEW way, NEW sent, Sound(d, at, way, sent),
           d.order[Maker].status # "NONE"
    PROVE  LET e == RequestCancel(d) IN
           /\ Sound(e, at, way, sent)
           /\ e.intent = "RUNNING" /\ e.qty = d.qty
           /\ DOMAIN d.outbox \subseteq DOMAIN e.outbox
           /\ \A i \in DOMAIN d.outbox : e.outbox[i] = d.outbox[i]
           /\ \A l \in Legs : /\ e.order[l].filled = d.order[l].filled
                              /\ d.order[l].status = "NONE" <=> e.order[l].status = "NONE"
<1>. DEFINE c == Pending("CANCEL", Maker)
            b == [d EXCEPT !.order[Maker].status = "PENDING_CANCEL", !.leg[Maker] = "SUBMITTED"]
            e == Running(Send(b, c))
<1>1. CASE d.order[Maker].status = "PENDING_CANCEL"
  BY <1>1, RunningSound DEF RequestCancel
<1>2. CASE d.order[Maker].status # "PENDING_CANCEL"
  <2>1. d \in Database /\ d.outbox \in Seq(Command)
    BY DEF Sound, Types, Database
  <2>2. c \in Command /\ c.kind = "CANCEL" /\ c.leg = Maker
    BY Roles DEF Pending, Command, OutboxStatus
  <2>. HIDE DEF c
  <2>3. /\ b \in Database /\ b.outbox = d.outbox /\ b.qty = d.qty
        /\ b.order[Maker] = [status |-> "PENDING_CANCEL", filled |-> d.order[Maker].filled]
        /\ b.leg[Maker] = "SUBMITTED"
        /\ \A l \in Legs : l # Maker => b.order[l] = d.order[l] /\ b.leg[l] = d.leg[l]
    <3>. DEFINE o == [d.order EXCEPT ![Maker].status = "PENDING_CANCEL"]
    <3>1. d.order \in [Legs -> OrderRow] /\ d.order[Maker] \in OrderRow
      BY <2>1, Roles DEF Database
    <3>2. /\ o \in [Legs -> OrderRow]
          /\ o[Maker] = [status |-> "PENDING_CANCEL", filled |-> d.order[Maker].filled]
          /\ \A l \in Legs : l # Maker => o[l] = d.order[l]
      BY <3>1, Roles DEF OrderRow, OrderStatus
    <3>3. b = [d EXCEPT !.order = o, !.leg[Maker] = "SUBMITTED"]
      OBVIOUS
    <3>. HIDE DEF o, b
    <3>. QED BY <2>1, <3>2, <3>3, Roles DEF Database, LegStatus
  <2>. HIDE DEF b
  <2>4. /\ e \in Database /\ e.outbox = Append(b.outbox, c) /\ e.qty = b.qty
        /\ e.order = b.order /\ e.leg = b.leg /\ e.intent = "RUNNING"
    <3>1. Append(b.outbox, c) \in Seq(Command)
      BY <2>1, <2>2, <2>3
    <3>. QED BY <2>3, <3>1 DEF Running, Send, Database
  <2>5. RequestCancel(d) = e
    BY <1>2 DEF RequestCancel, b, c
  <2>. HIDE DEF e
  <2>6. /\ DOMAIN e.outbox = DOMAIN d.outbox \cup {Len(d.outbox) + 1}
        /\ Len(d.outbox) + 1 \notin DOMAIN d.outbox /\ e.outbox[Len(d.outbox) + 1] = c
        /\ \A j \in DOMAIN d.outbox : e.outbox[j] = d.outbox[j]
    BY <2>1, <2>2, <2>3, <2>4, RowAdd
  <2>7. \A l \in Legs : /\ e.order[l].filled = d.order[l].filled
                        /\ d.order[l].status = "NONE" <=> e.order[l].status = "NONE"
                        /\ l # Maker => e.leg[l] = d.leg[l]
    BY <2>3, <2>4
  <2>8. UnsentFirst(e)
    <3>. SUFFICES ASSUME NEW i \in DOMAIN e.outbox,
                         e.outbox[i].kind = "SUBMIT", e.outbox[i].status = "PENDING"
                  PROVE  e.order[e.outbox[i].leg].status = "NONE"
      BY DEF UnsentFirst
    <3>1. i \in DOMAIN d.outbox /\ e.outbox[i] = d.outbox[i]
      BY <2>2, <2>6
    <3>2. d.outbox[i] \in Command
      BY <2>1, <3>1
    <3>. QED BY <2>7, <3>1, <3>2 DEF UnsentFirst, Sound, Command
  <2>9. RecordsAreTrue(e, at, way, sent)
    <3>1. e.leg[Maker] \in NonTerminalLegStatuses
      BY <2>3, <2>4 DEF NonTerminalLegStatuses
    <3>. QED BY <2>7, <3>1 DEF Sound, RecordsAreTrue, Known
  <2>10. Whole(e, at)
    BY <2>4 DEF Whole
  <2>11. \A l \in Legs : d.order[l].filled <= e.order[l].filled
    BY <2>1, <2>7 DEF Database, OrderRow
  <2>12. Sound(e, at, way, sent)
    BY <2>2, <2>3, <2>4, <2>6, <2>7, <2>8, <2>9, <2>10, <2>11, Following DEF Sound, OrderFirst
  <2>. QED BY <2>3, <2>4, <2>5, <2>6, <2>7, <2>12
<1>. QED BY <1>1, <1>2

(* The next hedge has the first index that is free.                        *)
LEMMA HedgeCount ==
    ASSUME NEW d, NEW n \in 0..Target,
           \A k \in 1..Target : d.qty[<<"HEDGE", k>>] > 0 <=> k <= n
    PROVE  NextHedge(d) = <<"HEDGE", n + 1>>
<1>1. Exist(d, HedgeLegs) = {"HEDGE"} \X (1..n)
  <2>1. ASSUME NEW l \in Exist(d, HedgeLegs) PROVE l \in {"HEDGE"} \X (1..n)
    <3>1. PICK k \in 1..Target : l = <<"HEDGE", k>>
      BY Roles DEF Exist
    <3>. QED BY <3>1 DEF Exist
  <2>2. ASSUME NEW l \in {"HEDGE"} \X (1..n) PROVE l \in Exist(d, HedgeLegs)
    <3>1. PICK k \in 1..n : l = <<"HEDGE", k>>
      OBVIOUS
    <3>2. k \in 1..Target
      BY MakerAssumption
    <3>. QED BY <3>1, <3>2, HedgeIsLeg DEF Exist
  <2>. QED BY <2>1, <2>2
<1>2. IsFiniteSet({"HEDGE"}) /\ Cardinality({"HEDGE"}) = 1
  BY FS_Singleton
<1>3. IsFiniteSet(1..n) /\ Cardinality(1..n) = n
  BY FS_Interval
<1>4. Cardinality({"HEDGE"} \X (1..n)) = 1 * n
  BY <1>2, <1>3, FS_Product
<1>. QED BY <1>1, <1>4 DEF NextHedge

(* A leg is created with its command: its quantity is what its role        *)
(* allows.                                                                 *)
LEMMA EnqueueSound ==
    ASSUME NEW d, NEW at, NEW way, NEW sent, Sound(d, at, way, sent),
           NEW l \in Legs, NEW k \in 1..Target, d.qty[l] = 0, l # Maker,
           l = Fallback => /\ sent[Maker] = 1 /\ Known(Maker, d, at, way)
                           /\ at[Maker].filled + k = Target,
           l \in HedgeLegs => l = NextHedge(d) /\ OfHedges(d.qty) + k <= OfMakers(Fills(at))
    PROVE  LET e == Enqueue(d, l, k) IN
           /\ Sound(e, at, way, sent)
           /\ e.intent = "RUNNING" /\ e.order = d.order /\ e.leg = d.leg
           /\ DOMAIN d.outbox \subseteq DOMAIN e.outbox
           /\ \A i \in DOMAIN d.outbox : e.outbox[i] = d.outbox[i]
<1>. DEFINE c == Pending("SUBMIT", l)
            e == Enqueue(d, l, k)
<1>1. /\ d \in Database /\ d.outbox \in Seq(Command) /\ d.qty \in [Legs -> 0..Target]
      /\ d.qty \in [Legs -> Nat] /\ k \in Nat
  BY MakerAssumption DEF Sound, Types, Database
<1>2. c \in Command /\ c.kind = "SUBMIT" /\ c.leg = l
  BY DEF Pending, Command, OutboxStatus
<1>3. Append(d.outbox, c) \in Seq(Command)
  BY <1>1, <1>2
<1>4. [d.qty EXCEPT ![l] = k] \in [Legs -> 0..Target]
  BY <1>1
<1>5. /\ e \in Database /\ e.outbox = Append(d.outbox, c) /\ e.qty = [d.qty EXCEPT ![l] = k]
      /\ e.order = d.order /\ e.leg = d.leg /\ e.intent = "RUNNING"
  BY <1>1, <1>3, <1>4 DEF Enqueue, Running, Send, Database, c
<1>. HIDE DEF e, c
<1>6. /\ e.qty \in [Legs -> 0..Target] /\ e.qty \in [Legs -> Nat]
      /\ e.qty[l] = k /\ \A m \in Legs : m # l => e.qty[m] = d.qty[m]
  BY <1>1, <1>5, MakerAssumption
<1>7. /\ DOMAIN e.outbox = DOMAIN d.outbox \cup {Len(d.outbox) + 1}
      /\ Len(d.outbox) + 1 \notin DOMAIN d.outbox /\ e.outbox[Len(d.outbox) + 1] = c
      /\ \A j \in DOMAIN d.outbox : e.outbox[j] = d.outbox[j]
  BY <1>1, <1>2, <1>5, RowAdd
<1>8. ASSUME l \in HedgeLegs
      PROVE  \E n \in 0..Target :
                 /\ n + 1 \in 1..Target /\ l = <<"HEDGE", n + 1>>
                 /\ \A m \in 1..Target : d.qty[<<"HEDGE", m>>] > 0 <=> m <= n
                 /\ n <= OfHedges(d.qty)
  <2>1. PICK n \in 0..Target : /\ \A m \in 1..Target : d.qty[<<"HEDGE", m>>] > 0 <=> m <= n
                               /\ n <= OfHedges(d.qty)
    BY DEF Sound, Planned
  <2>2. l = <<"HEDGE", n + 1>>
    BY <1>8, <2>1, HedgeCount
  <2>3. PICK m \in 1..Target : l = <<"HEDGE", m>>
    BY <1>8, Roles
  <2>4. n + 1 \in 1..Target
    BY <2>2, <2>3
  <2>. QED BY <2>1, <2>2, <2>4
<1>9. OfHedges(e.qty) = OfHedges(d.qty) + IF l \in HedgeLegs THEN k ELSE 0
  <2>1. CASE l \in HedgeLegs
    <3>1. PICK m \in 1..Target : l = <<"HEDGE", m>>
      BY <2>1, Roles
    <3>2. e.qty[<<"HEDGE", m>>] = d.qty[<<"HEDGE", m>>] + k
      BY <1>1, <1>6, <3>1
    <3>3. \A x \in HedgeLegs : x # <<"HEDGE", m>> => e.qty[x] = d.qty[x]
      BY <1>6, <3>1, Roles
    <3>. QED BY <1>1, <1>6, <2>1, <3>2, <3>3, SumAdds
  <2>2. CASE l \notin HedgeLegs
    <3>1. \A x \in HedgeLegs : e.qty[x] <= d.qty[x] /\ d.qty[x] <= e.qty[x]
      <4>. TAKE x \in HedgeLegs
      <4>1. x \in Legs /\ x # l
        BY <2>2, Roles
      <4>2. e.qty[x] = d.qty[x] /\ d.qty[x] \in Nat
        BY <1>1, <1>6, <4>1
      <4>. QED BY <4>2
    <3>2. OfHedges(e.qty) <= OfHedges(d.qty) /\ OfHedges(d.qty) <= OfHedges(e.qty)
      BY <1>1, <1>6, <3>1, SumGrows
    <3>3. OfHedges(e.qty) \in Nat /\ OfHedges(d.qty) \in Nat
      BY <1>1, <1>6, SumType
    <3>. QED BY <2>2, <3>2, <3>3
  <2>. QED BY <2>1, <2>2
<1>10. OfHedges(d.qty) \in Nat
  BY <1>1, SumType
<1>11. Planned(e)
  <2>1. e.qty[Maker] = Target
    BY <1>6, Roles DEF Sound, Planned
  <2>2. CASE l \in HedgeLegs
    <3>1. PICK n \in 0..Target :
                 /\ n + 1 \in 1..Target /\ l = <<"HEDGE", n + 1>>
                 /\ \A m \in 1..Target : d.qty[<<"HEDGE", m>>] > 0 <=> m <= n
                 /\ n <= OfHedges(d.qty)
      BY <2>2, <1>8
    <3>2. \A m \in 1..Target : e.qty[<<"HEDGE", m>>] > 0 <=> m <= n + 1
      <4>. TAKE m \in 1..Target
      <4>1. CASE m = n + 1
        BY <4>1, <3>1, <1>6
      <4>2. CASE m # n + 1
        <5>1. <<"HEDGE", m>> # l /\ <<"HEDGE", m>> \in Legs
          BY <4>2, <3>1, HedgeIsLeg
        <5>. QED BY <5>1, <4>2, <3>1, <1>6
      <4>. QED BY <4>1, <4>2
    <3>3. n + 1 <= OfHedges(e.qty) /\ n + 1 \in 0..Target
      BY <3>1, <1>9, <1>10, <2>2
    <3>. QED BY <2>1, <3>2, <3>3 DEF Planned
  <2>3. CASE l \notin HedgeLegs
    <3>1. \A m \in 1..Target : e.qty[<<"HEDGE", m>>] = d.qty[<<"HEDGE", m>>]
      BY <1>6, <2>3, HedgeIsLeg
    <3>2. OfHedges(e.qty) = OfHedges(d.qty)
      BY <1>9, <1>10, <2>3
    <3>. QED BY <2>1, <3>1, <3>2 DEF Sound, Planned
  <2>. QED BY <2>2, <2>3
<1>12. Covered(e, at)
  <2>1. OfHedges(d.qty) <= OfMakers(Fills(at))
    BY DEF Sound, Covered
  <2>. QED BY <2>1, <1>9, <1>10 DEF Covered
<1>13. OneCommand(e)
  <2>1. \A j \in DOMAIN d.outbox : e.outbox[j].leg # l /\ e.qty[e.outbox[j].leg] > 0
    <3>. SUFFICES ASSUME NEW j \in DOMAIN d.outbox
                  PROVE  e.outbox[j].leg # l /\ e.qty[e.outbox[j].leg] > 0
      OBVIOUS
    <3>1. d.outbox[j] \in Command
      BY <1>1
    <3>2. d.qty[d.outbox[j].leg] > 0 /\ d.outbox[j].leg \in Legs
      BY <3>1 DEF Sound, OneCommand, Command
    <3>. QED BY <3>2, <1>6, <1>7
  <2>2. \A j \in DOMAIN e.outbox : e.qty[e.outbox[j].leg] > 0
    BY <2>1, <1>7, <1>2, <1>6
  <2>3. ASSUME NEW i \in DOMAIN e.outbox, NEW j \in DOMAIN e.outbox,
               e.outbox[i].kind = "SUBMIT", e.outbox[j].kind = "SUBMIT",
               e.outbox[i].leg = e.outbox[j].leg
        PROVE  i = j
    BY <2>1, <2>3, <1>2, <1>7 DEF Sound, OneCommand
  <2>. QED BY <2>2, <2>3 DEF OneCommand
<1>14. OrderFirst(e, sent) /\ d.order[l].status = "NONE"
  BY <1>5, <1>6 DEF Sound, OrderFirst
<1>15. UnsentFirst(e)
  BY <1>14, <1>2, <1>5, <1>7 DEF Sound, UnsentFirst
<1>16. RecordsAreTrue(e, at, way, sent) /\ Whole(e, at)
  BY <1>5 DEF Sound, RecordsAreTrue, Known, Whole
<1>17. FallbackCovers(e, at, way, sent)
  <2>1. CASE l = Fallback
    BY <2>1, <1>5, <1>6 DEF FallbackCovers, Known
  <2>2. CASE l # Fallback
    BY <2>2, <1>5, <1>6, Roles DEF Sound, FallbackCovers, Known
  <2>. QED BY <2>1, <2>2
<1>18. AtVenues(e.qty, at, way, sent)
  <2>1. sent[l] = 0 /\ at[l].status = "NONE" /\ at[l].filled = 0 /\ at[l].filled <= k
    <3>1. sent[l] = 0
      BY <1>14 DEF Sound, OrderFirst
    <3>. QED BY <3>1 DEF Sound, AtVenues
  <2>2. \A m \in Legs : m # l => e.qty[m] = d.qty[m]
    BY <1>6
  <2>3. AtVenues(d.qty, at, way, sent)
    BY DEF Sound
  <2>4. ASSUME NEW m \in Legs
        PROVE  /\ sent[m] \in {0, 1}
               /\ at[m].status # "NONE" \/ m \in way => sent[m] = 1
               /\ m \in way => at[m].status = "NONE"
               /\ at[m].filled <= e.qty[m]
               /\ at[m].status \in {"NONE", "ACCEPTED"} => at[m].filled = 0
               /\ at[m].status # "NONE" => (at[m].status = "FILLED" <=> at[m].filled = e.qty[m])
    <3>1. CASE m = l
      BY <3>1, <2>1, <2>3, <1>6 DEF AtVenues
    <3>2. CASE m # l
      BY <3>2, <2>2, <2>3 DEF AtVenues
    <3>. QED BY <3>1, <3>2
  <2>. QED BY <2>4 DEF AtVenues
<1>19. Types(e, at, way, sent)
  BY <1>5 DEF Sound, Types
<1>20. Sound(e, at, way, sent)
  BY <1>11, <1>12, <1>13, <1>14, <1>15, <1>16, <1>17, <1>18, <1>19 DEF Sound
<1>. QED BY <1>5, <1>7, <1>20 DEF e

(* One step of the state machine, whatever it turns out to be.             *)
LEMMA AdvanceSound ==
    ASSUME NEW b, NEW at, NEW way, NEW sent, Sound(b, at, way, sent), NEW i
    PROVE  LET e == Advance(b, i) IN
           /\ Sound(e, at, way, sent) /\ OverKnows(e, at, way)
           /\ Extends(b, e)
           /\ \A l \in Legs : e.order[l].filled = b.order[l].filled
<1>. DEFINE d == Acknowledged(b, i)
            e == Advance(b, i)
            Good(f) == /\ Sound(f, at, way, sent) /\ OverKnows(f, at, way)
                       /\ Extends(d, f)
                       /\ \A l \in Legs : f.order[l].filled = d.order[l].filled
<1>1. /\ Sound(d, at, way, sent)
      /\ d.order = b.order /\ Extends(b, d)
  BY AcknowledgedSound
<1>2. e = IF CancelDue(d) THEN RequestCancel(d)
          ELSE IF FallbackDue(d) THEN Enqueue(d, Fallback, Unfilled(d))
          ELSE IF Unhedged(d) > 0 THEN Enqueue(d, NextHedge(d), Unhedged(d))
          ELSE IF HedgeBroken(d) THEN Unwind(d)
          ELSE IF MakerDone(d) /\ HedgeDone(d) THEN Complete(d)
          ELSE Running(d)
  BY DEF Advance
<1>. HIDE DEF d, e
<1>3. /\ d \in Database /\ d.qty \in [Legs -> 0..Target]
      /\ \A l \in Legs : d.order[l].filled \in Nat /\ at[l].filled \in Nat
  BY <1>1, MakerAssumption DEF Sound, Types, Database, OrderRow, VenueRow
<1>4. /\ OfHedges(d.qty) \in Nat /\ OfHedges(Fills(d.order)) \in Nat
      /\ OfHedges(Fills(d.order)) <= OfHedges(Fills(at)) /\ OfHedges(Fills(at)) \in Nat
      /\ OfHedges(Fills(at)) <= OfHedges(d.qty)
      /\ OfHedges(d.qty) <= OfMakers(Fills(at))
      /\ OfMakers(Fills(d.order)) = d.order[Maker].filled + d.order[Fallback].filled
      /\ OfMakers(Fills(at)) = at[Maker].filled + at[Fallback].filled
      /\ OfMakers(Fills(d.order)) \in Nat /\ OfMakers(Fills(at)) \in Nat
      /\ OfMakers(Fills(d.order)) <= OfMakers(Fills(at)) /\ OfMakers(Fills(at)) <= Target
      /\ d.qty[Fallback] = 0 => at[Fallback].filled = 0 /\ d.order[Fallback].filled = 0
  BY <1>1, Bounds
<1>5. Desired(d) = OfMakers(Fills(d.order))
  BY <1>4, MakerAssumption DEF Desired, Lesser
<1>6. d.qty[Maker] = Target /\ \A l \in Legs : d.order[l].filled <= at[l].filled
  BY <1>1 DEF Sound, Planned, RecordsAreTrue
(* A leg that does not exist, or is over, has nothing left at its venue.   *)
<1>7. ASSUME NEW l \in Legs, d.qty[l] = 0 \/ d.leg[l] \notin NonTerminalLegStatuses
      PROVE  Known(l, d, at, way)
  <2>1. CASE d.qty[l] = 0
    <3>1. d.order[l].status = "NONE"
      BY <1>1, <2>1 DEF Sound, OrderFirst
    <3>2. sent[l] = 0 /\ d.order[l].filled = 0
      BY <1>1, <3>1 DEF Sound, OrderFirst
    <3>3. at[l].status = "NONE" /\ l \notin way /\ at[l].filled = 0
      BY <1>1, <3>2 DEF Sound, AtVenues
    <3>. QED BY <3>2, <3>3 DEF Known, Working
  <2>2. CASE d.leg[l] \notin NonTerminalLegStatuses
    BY <1>1, <2>2 DEF Sound, RecordsAreTrue
  <2>. QED BY <1>7, <2>1, <2>2
<1>8. CASE CancelDue(d)
  <2>1. d.order[Maker].status # "NONE" /\ e = RequestCancel(d)
    BY <1>2, <1>8 DEF CancelDue
  <2>2. /\ Sound(e, at, way, sent) /\ e.intent = "RUNNING"
        /\ DOMAIN d.outbox \subseteq DOMAIN e.outbox
        /\ \A j \in DOMAIN d.outbox : e.outbox[j] = d.outbox[j]
        /\ \A l \in Legs : /\ e.order[l].filled = d.order[l].filled
                           /\ d.order[l].status = "NONE" <=> e.order[l].status = "NONE"
    BY <1>1, <2>1, RequestCancelSound
  <2>3. Extends(d, e)
    BY <2>2 DEF Extends
  <2>4. Good(e)
    BY <2>2, <2>3 DEF OverKnows, Over
  <2>. QED BY <1>1, <2>4 DEF e, Extends
<1>9. CASE ~CancelDue(d) /\ FallbackDue(d)
  <2>1. e = Enqueue(d, Fallback, Unfilled(d))
    BY <1>2, <1>9
  <2>2. Open(d, MakerLegs) = {} /\ Unfilled(d) > 0
    BY <1>9 DEF FallbackDue
  <2>3. d.leg[Maker] \notin NonTerminalLegStatuses
    BY <1>6, <2>2, MakerAssumption DEF Open, Exist, MakerLegs
  <2>4. sent[Maker] = 1 /\ Known(Maker, d, at, way)
    BY <1>1, <2>3, Roles DEF Sound, RecordsAreTrue
  <2>5. /\ d.order[Maker].filled \in Nat /\ d.order[Fallback].filled \in Nat
        /\ d.qty[Fallback] \in 0..Target
    BY <1>3, Roles
  <2>6. d.qty[Fallback] = 0
    <3>1. d.qty[Fallback] > 0 => at[Maker].filled + d.qty[Fallback] = Target
      BY <1>1 DEF Sound, FallbackCovers
    <3>2. d.order[Maker].filled = at[Maker].filled
      BY <2>4 DEF Known
    <3>. QED BY <1>4, <2>2, <2>5, <3>1, <3>2, MakerAssumption DEF Unfilled
  <2>7. Unfilled(d) \in 1..Target /\ at[Maker].filled + Unfilled(d) = Target
    <3>1. d.order[Maker].filled = at[Maker].filled
      BY <2>4 DEF Known
    <3>. QED BY <1>4, <2>2, <2>5, <2>6, <3>1, MakerAssumption DEF Unfilled
  <2>8. Good(e)
    BY <1>1, <2>1, <2>4, <2>6, <2>7, Roles, EnqueueSound DEF OverKnows, Over, Extends
  <2>. QED BY <1>1, <2>8 DEF e, Extends
<1>10. CASE ~CancelDue(d) /\ ~FallbackDue(d) /\ Unhedged(d) > 0
  <2>1. e = Enqueue(d, NextHedge(d), Unhedged(d))
    BY <1>2, <1>10
  <2>2. PICK n \in 0..Target : /\ \A k \in 1..Target : d.qty[<<"HEDGE", k>>] > 0 <=> k <= n
                               /\ n <= OfHedges(d.qty)
    BY <1>1 DEF Sound, Planned
  <2>3. NextHedge(d) = <<"HEDGE", n + 1>>
    BY <2>2, HedgeCount
  <2>4. /\ Unhedged(d) \in 1..Target
        /\ OfHedges(d.qty) + Unhedged(d) <= OfMakers(Fills(at))
        /\ OfHedges(d.qty) < Target
    BY <1>4, <1>5, <1>10, MakerAssumption DEF Unhedged
  <2>5. n + 1 \in 1..Target
    BY <1>4, <2>2, <2>4, MakerAssumption
  <2>6. NextHedge(d) \in HedgeLegs /\ NextHedge(d) \in Legs
    BY <2>3, <2>5, HedgeIsLeg
  <2>7. d.qty[NextHedge(d)] = 0
    BY <1>3, <2>2, <2>3, <2>5, <2>6
  <2>8. Good(e)
    BY <1>1, <2>1, <2>4, <2>6, <2>7, Roles, EnqueueSound DEF OverKnows, Over, Extends
  <2>. QED BY <1>1, <2>8 DEF e, Extends
<1>11. CASE ~CancelDue(d) /\ ~FallbackDue(d) /\ ~(Unhedged(d) > 0) /\ HedgeBroken(d)
  <2>1. e = Unwind(d)
    BY <1>2, <1>11
  <2>2. OfHedges(Fills(d.order)) < OfMakers(Fills(d.order))
    BY <1>5, <1>11 DEF HedgeBroken
  <2>3. CASE ~AutoFlatten \/ (d.qty[Compensation] # 0 /\ ~GivenBack(d))
    <3>1. e = Recovery(d)
      BY <2>1, <2>3 DEF Unwind
    <3>2. Good(e)
      BY <1>1, <3>1, RecoverySound DEF OverKnows, Over, Extends
    <3>. QED BY <1>1, <3>2 DEF e, Extends
  <2>4. CASE AutoFlatten /\ d.qty[Compensation] = 0
    <3>1. e = Enqueue(d, Compensation, Unmatched(d))
      BY <2>1, <2>4 DEF Unwind
    <3>2. Unmatched(d) \in 1..Target
      BY <1>4, <2>2, MakerAssumption DEF Unmatched
    <3>3. Good(e)
      BY <1>1, <2>4, <3>1, <3>2, Roles, EnqueueSound DEF OverKnows, Over, Extends
    <3>. QED BY <1>1, <3>3 DEF e, Extends
  <2>5. CASE AutoFlatten /\ d.qty[Compensation] # 0 /\ GivenBack(d)
    <3>1. e = Complete(d)
      BY <2>1, <2>5 DEF Unwind
    <3>2. e.qty = d.qty /\ e.order = d.order
      BY <1>1, <3>1, CompleteSound
    <3>3. d.order[Compensation].filled \in Nat
          /\ d.order[Compensation].filled >= OfMakers(Fills(d.order)) - OfHedges(Fills(d.order))
      BY <1>3, <2>5, Roles DEF GivenBack, Unmatched
    <3>4. OverKnows(e, at, way)
      BY <1>4, <2>5, <3>2, <3>3 DEF OverKnows
    <3>5. Good(e)
      BY <1>1, <3>1, <3>4, CompleteSound DEF Extends
    <3>. QED BY <1>1, <3>5 DEF e, Extends
  <2>. QED BY <2>3, <2>4, <2>5
<1>12. CASE ~CancelDue(d) /\ ~FallbackDue(d) /\ ~(Unhedged(d) > 0) /\ ~HedgeBroken(d)
            /\ MakerDone(d) /\ HedgeDone(d)
  <2>1. e = Complete(d)
    BY <1>2, <1>12
  <2>2. /\ Sound(e, at, way, sent) /\ e.qty = d.qty /\ e.order = d.order /\ e.leg = d.leg
        /\ e.outbox = d.outbox
    BY <1>1, <2>1, CompleteSound
  <2>3. Open(d, MakerLegs) = {} /\ Open(d, HedgeLegs) = {}
    BY <1>12 DEF MakerDone, HedgeDone
  <2>4. OfMakers(Fills(d.order)) <= OfHedges(Fills(d.order))
    BY <1>5, <1>12 DEF HedgeDone
  <2>5. ASSUME d.qty[Compensation] = 0, NEW l \in Legs PROVE Known(l, d, at, way)
    <3>1. d.qty[l] \in 0..Target
      BY <1>3
    <3>2. CASE l = Compensation
      BY <2>5, <3>2, <1>7
    <3>3. CASE l \in MakerLegs \cup HedgeLegs
      <4>1. d.qty[l] = 0 \/ d.leg[l] \notin NonTerminalLegStatuses
        BY <2>3, <3>1, <3>3, MakerAssumption DEF Open, Exist
      <4>. QED BY <4>1, <1>7
    <3>. QED BY <3>2, <3>3, Roles DEF MakerLegs
  <2>6. ASSUME d.qty[Compensation] = 0 PROVE OfMakers(Fills(at)) = OfHedges(Fills(at))
    <3>1. d.order[Maker].filled = at[Maker].filled /\ d.order[Fallback].filled = at[Fallback].filled
      BY <2>5, <2>6, Roles DEF Known
    <3>. QED BY <1>4, <2>4, <3>1
  <2>7. OfMakers(Fills(d.order)) - d.order[Compensation].filled <= OfHedges(Fills(d.order))
    <3>1. d.order[Compensation].filled \in Nat
      BY <1>3, Roles
    <3>. QED BY <1>4, <2>4, <3>1
  <2>8. OverKnows(e, at, way)
    BY <2>2, <2>5, <2>6, <2>7 DEF OverKnows, Known
  <2>9. Good(e)
    BY <2>2, <2>8 DEF Extends
  <2>. QED BY <1>1, <2>9 DEF e, Extends
<1>13. CASE ~CancelDue(d) /\ ~FallbackDue(d) /\ ~(Unhedged(d) > 0) /\ ~HedgeBroken(d)
            /\ ~(MakerDone(d) /\ HedgeDone(d))
  <2>1. e = Running(d)
    BY <1>2, <1>13
  <2>2. Good(e)
    BY <1>1, <2>1, RunningSound DEF OverKnows, Over, Extends
  <2>. QED BY <1>1, <2>2 DEF e, Extends
<1>. QED BY <1>8, <1>9, <1>10, <1>11, <1>12, <1>13

-----------------------------------------------------------------------------
(* Answers and reports.                                                    *)

(* Orders and legs brought up to date with what is true at the venues.     *)
LEMMA ReportedSound ==
    ASSUME NEW d, NEW e, NEW at, NEW way, NEW sent, Sound(d, at, way, sent),
           e \in Database, e.outbox = d.outbox, e.qty = d.qty,
           Whole(e, at),
           \A l \in Legs :
               \/ e.order[l] = d.order[l] /\ e.leg[l] = d.leg[l]
               \/ /\ d.order[l].status # "NONE" /\ e.order[l].status # "NONE"
                  /\ d.order[l].filled <= e.order[l].filled
                  /\ e.order[l].filled <= at[l].filled
                  /\ e.leg[l] \notin NonTerminalLegStatuses => sent[l] = 1 /\ Known(l, e, at, way)
    PROVE  Sound(e, at, way, sent) /\ Extends(d, e)
<1>1. /\ \A l \in Legs : d.order[l].filled \in Nat
      /\ d.outbox \in Seq(Command)
  BY MakerAssumption DEF Sound, Types, Database, OrderRow
<1>2. /\ RecordsAreTrue(d, at, way, sent) /\ OrderFirst(d, sent) /\ UnsentFirst(d) /\ Whole(d, at)
  BY DEF Sound
<1>3. RecordsAreTrue(e, at, way, sent)
  BY <1>2 DEF RecordsAreTrue, Known
<1>4. \A l \in Legs :
          /\ d.order[l].filled <= e.order[l].filled
          /\ d.qty[l] = 0 => e.order[l].status = "NONE"
          /\ e.order[l].status = "NONE" =>
                 /\ d.order[l].status = "NONE"
                 /\ e.order[l].filled = d.order[l].filled /\ e.leg[l] = d.leg[l]
  BY <1>1, <1>2 DEF OrderFirst
<1>5. UnsentFirst(e)
  <2>. SUFFICES ASSUME NEW i \in DOMAIN d.outbox,
                       d.outbox[i].kind = "SUBMIT", d.outbox[i].status = "PENDING"
                PROVE  e.order[d.outbox[i].leg].status = "NONE"
    BY DEF UnsentFirst
  <2>1. d.outbox[i].leg \in Legs
    <3>1. d.outbox[i] \in Command
      BY <1>1
    <3>. QED BY <3>1 DEF Command
  <2>2. d.order[d.outbox[i].leg].status = "NONE"
    BY <1>2 DEF UnsentFirst
  <2>. QED BY <2>1, <2>2
<1>6. Sound(e, at, way, sent)
  BY <1>3, <1>4, <1>5, Following
<1>. QED BY <1>6 DEF Extends

(* A true answer on a leg whose order is recorded.                         *)
TrueAnswer(r, l, at, way) ==
    /\ r \in OrderRow /\ r.status # "NONE" /\ TrueReport(r, at[l])
    /\ r.status = "REJECTED" => at[l].status = "NONE" /\ l \notin way

(* An answer that is true of the venue, applied to order and leg.          *)
LEMMA OneAnswer ==
    ASSUME NEW d, NEW at, NEW way, NEW sent, Sound(d, at, way, sent), NEW l \in Legs,
           d.order[l].status # "NONE", NEW r, TrueAnswer(r, l, at, way)
    PROVE  LET o == GatewayOrder(d.order[l], r, d.qty[l])
               g == GatewayLeg(d.order[l], r, d.qty[l])
           IN /\ o \in OrderRow /\ g \in LegStatus /\ o.status # "NONE"
              /\ d.order[l].filled <= o.filled /\ o.filled <= at[l].filled
              /\ g \notin NonTerminalLegStatuses =>
                     ~Working(l, at, way) /\ o.filled = at[l].filled
<1>1. /\ d.order[l] \in OrderRow /\ at[l] \in VenueRow /\ d.qty[l] \in 0..Target
      /\ r \in OrderRow
  BY DEF Sound, Types, Database, TrueAnswer
<1>2. /\ d.order[l].filled \in 0..Target /\ at[l].filled \in 0..Target /\ r.filled \in 0..Target
      /\ r.status \in OrderStatus /\ at[l].status \in VenueStatus
  BY <1>1 DEF OrderRow, VenueRow
<1>3. /\ d.order[l].filled <= at[l].filled /\ at[l].filled <= d.qty[l]
      /\ l \in way => at[l].status = "NONE"
      /\ at[l].status = "NONE" => at[l].filled = 0
      /\ at[l].status # "NONE" => (at[l].status = "FILLED" <=> at[l].filled = d.qty[l])
  BY DEF Sound, RecordsAreTrue, AtVenues
<1>4. d.qty[l] > 0
  BY <1>1 DEF Sound, OrderFirst
<1>5. /\ r.filled <= at[l].filled
      /\ r.status \in Settled => r = at[l]
      /\ r.status = "REJECTED" => at[l].status = "NONE" /\ l \notin way
      /\ r.status # "NONE"
  BY DEF TrueAnswer, TrueReport
<1>. DEFINE o == GatewayOrder(d.order[l], r, d.qty[l])
            g == GatewayLeg(d.order[l], r, d.qty[l])
            f == Larger(d.order[l].filled, r.filled)
<1>6. /\ f \in 0..Target /\ d.order[l].filled <= f /\ f <= at[l].filled /\ r.filled <= f
  BY <1>2, <1>3, <1>5, MakerAssumption DEF Larger
<1>7. /\ o = [status |-> IF r.status = "FILLED" \/ f >= d.qty[l] THEN "FILLED" ELSE r.status,
              filled |-> f]
      /\ g = IF r.status = "FILLED" \/ f >= d.qty[l] THEN "FILLED"
             ELSE IF r.status \in FailureOrderStatuses THEN "FAILED"
             ELSE IF f > 0 THEN "PARTIALLY_FILLED" ELSE "SUBMITTED"
  BY DEF GatewayOrder, GatewayLeg
<1>. HIDE DEF o, g, f
<1>8. /\ o \in OrderRow /\ o.status # "NONE" /\ o.filled = f
  BY <1>2, <1>5, <1>6, <1>7 DEF OrderRow, OrderStatus, VenueStatus
<1>9. g \in LegStatus
  BY <1>7 DEF LegStatus
<1>10. ASSUME g \notin NonTerminalLegStatuses
       PROVE  ~Working(l, at, way) /\ f = at[l].filled
  <2>1. \/ r.status = "FILLED" \/ f >= d.qty[l] \/ r.status \in FailureOrderStatuses
    BY <1>7, <1>10 DEF NonTerminalLegStatuses
  <2>2. CASE r.status \in Settled
    <3>1. r = at[l]
      BY <1>5, <2>2
    <3>2. at[l].status \in Settled /\ f = at[l].filled
      BY <1>2, <1>6, <2>2, <3>1
    <3>. QED BY <1>3, <3>2 DEF Working, Settled
  <2>3. CASE f >= d.qty[l]
    <3>1. f = at[l].filled /\ at[l].filled = d.qty[l]
      BY <1>1, <1>2, <1>3, <1>6, <2>3
    <3>2. at[l].status = "FILLED"
      BY <1>1, <1>3, <1>4, <3>1
    <3>. QED BY <1>3, <3>1, <3>2 DEF Working
  <2>4. CASE r.status = "REJECTED"
    <3>1. at[l].status = "NONE" /\ l \notin way
      BY <1>5, <2>4
    <3>. QED BY <1>2, <1>3, <1>6, <3>1 DEF Working
  <2>. QED BY <2>1, <2>2, <2>3, <2>4 DEF Settled, FailureOrderStatuses
<1>. QED BY <1>6, <1>8, <1>9, <1>10 DEF o, g

(* An answer that is true of the venue leaves the books sound and takes    *)
(* nothing back.                                                           *)
LEMMA AnswerSound ==
    ASSUME NEW d, NEW at, NEW way, NEW sent, Sound(d, at, way, sent), NEW l \in Legs,
           d.order[l].status # "NONE", sent[l] = 1, NEW r, TrueAnswer(r, l, at, way)
    PROVE  LET e == Answer(d, l, r) IN
           /\ Sound(e, at, way, sent) /\ Extends(d, e)
           /\ e.outbox = d.outbox
<1>. DEFINE o == GatewayOrder(d.order[l], r, d.qty[l])
            g == GatewayLeg(d.order[l], r, d.qty[l])
            e == Answer(d, l, r)
<1>1. /\ o \in OrderRow /\ g \in LegStatus /\ o.status # "NONE"
      /\ d.order[l].filled <= o.filled /\ o.filled <= at[l].filled
      /\ g \notin NonTerminalLegStatuses => ~Working(l, at, way) /\ o.filled = at[l].filled
  BY OneAnswer
<1>2. d \in Database
  BY DEF Sound, Types
<1>3. e = [d EXCEPT !.order[l] = o, !.leg[l] = g]
  BY <1>2 DEF Answer, Database
<1>. HIDE DEF o, g, e
<1>4. /\ e \in Database /\ e.outbox = d.outbox /\ e.qty = d.qty
      /\ e.intent = d.intent /\ e.group = d.group /\ e.finished = d.finished
      /\ e.order[l] = o /\ e.leg[l] = g
      /\ \A m \in Legs : m # l => e.order[m] = d.order[m] /\ e.leg[m] = d.leg[m]
  BY <1>1, <1>2, <1>3 DEF Database
<1>5. Whole(e, at)
  BY <1>4 DEF Sound, Whole
<1>6. Sound(e, at, way, sent) /\ Extends(d, e)
  BY <1>1, <1>4, <1>5, ReportedSound DEF Known
<1>. QED BY <1>4, <1>6 DEF e

(* The status of a command may change; to PENDING only while its order was *)
(* not sent.                                                               *)
LEMMA RowSound ==
    ASSUME NEW d, NEW at, NEW way, NEW sent, Sound(d, at, way, sent),
           NEW i, NEW x \in OutboxStatus \ {"ABSENT"},
           x = "PENDING" => /\ i \in DOMAIN d.outbox
                            /\ d.outbox[i].kind = "SUBMIT" => d.order[d.outbox[i].leg].status = "NONE",
           NEW e, e \in Database, e.outbox = WithStatus(d.outbox, i, x),
           e.qty = d.qty, e.order = d.order, e.leg = d.leg, Whole(e, at)
    PROVE  /\ Sound(e, at, way, sent)
           /\ x # "PENDING" => Extends(d, e)
<1>1. d \in Database /\ d.outbox \in Seq(Command)
  BY DEF Sound, Types, Database
<1>2. /\ DOMAIN e.outbox = DOMAIN d.outbox
      /\ \A j \in DOMAIN d.outbox :
             /\ e.outbox[j].kind = d.outbox[j].kind /\ e.outbox[j].leg = d.outbox[j].leg
             /\ e.outbox[j].status = IF j = i THEN x ELSE d.outbox[j].status
  BY <1>1, RowSet
<1>3. UnsentFirst(e)
  BY <1>2 DEF UnsentFirst, Sound
<1>4. RecordsAreTrue(e, at, way, sent)
  BY DEF Sound, RecordsAreTrue, Known
<1>5. \A l \in Legs : d.order[l].filled <= e.order[l].filled
  BY <1>1 DEF Database, OrderRow
<1>6. Sound(e, at, way, sent)
  BY <1>2, <1>3, <1>4, <1>5, Following DEF Sound, OrderFirst
<1>7. x # "PENDING" => Extends(d, e)
  BY <1>2 DEF Extends
<1>. QED BY <1>6, <1>7

(* The rows with another status are rows.                                  *)
LEMMA RowType ==
    ASSUME NEW d \in Database, NEW i, NEW x \in OutboxStatus \ {"ABSENT"}
    PROVE  WithStatus(d.outbox, i, x) \in Seq(Command)
BY RowSet DEF Database

(* Books that extend books that extend others.                             *)
LEMMA ExtendsTwice ==
    ASSUME NEW d, NEW e, NEW f, Extends(d, e), Extends(e, f)
    PROVE  Extends(d, f)
BY DEF Extends

-----------------------------------------------------------------------------
(* The venues.                                                             *)

(* An order, recorded, leaves the process: it is on its way or refused.    *)
LEMMA SentSound ==
    ASSUME NEW d, NEW at, NEW way, NEW sent, Sound(d, at, way, sent), NEW l \in Legs,
           sent[l] = 0, d.order[l].status # "NONE",
           NEW on \in SUBSET {l}
    PROVE  Sound(d, at, way \cup on, [sent EXCEPT ![l] = 1])
<1>. DEFINE w == way \cup on
            c == [sent EXCEPT ![l] = 1]
<1>1. /\ sent \in [Legs -> Nat] /\ way \subseteq Legs
  BY DEF Sound, Types
<1>2. /\ c \in [Legs -> Nat] /\ c[l] = 1 /\ \A m \in Legs : m # l => c[m] = sent[m]
  BY <1>1
<1>3. /\ w \subseteq Legs /\ \A m \in Legs : m # l => (m \in w <=> m \in way)
  BY <1>1
<1>. HIDE DEF w, c
<1>4. at[l].status = "NONE" /\ d.leg[l] \in NonTerminalLegStatuses
  BY DEF Sound, AtVenues, RecordsAreTrue
<1>5. AtVenues(d.qty, at, w, c)
  <2>1. AtVenues(d.qty, at, way, sent)
    BY DEF Sound
  <2>2. ASSUME NEW m \in Legs
        PROVE  /\ c[m] \in {0, 1}
               /\ at[m].status # "NONE" \/ m \in w => c[m] = 1
               /\ m \in w => at[m].status = "NONE"
    BY <1>2, <1>3, <1>4, <2>1 DEF AtVenues
  <2>. QED BY <2>1, <2>2 DEF AtVenues
<1>6. RecordsAreTrue(d, at, w, c)
  BY <1>2, <1>3, <1>4 DEF Sound, RecordsAreTrue, Known, Working
<1>7. FallbackCovers(d, at, w, c)
  <2>1. d.qty[Fallback] > 0 => l # Maker
    BY DEF Sound, FallbackCovers
  <2>. QED BY <1>2, <1>3, <2>1, Roles DEF Sound, FallbackCovers, Known, Working
<1>8. OrderFirst(d, c)
  BY <1>2 DEF Sound, OrderFirst
<1>9. Types(d, at, w, c)
  BY <1>2, <1>3 DEF Sound, Types
<1>. QED BY <1>5, <1>6, <1>7, <1>8, <1>9 DEF Sound, w, c

(* What a venue may say of an order of q lots.                             *)
MayReport(q, r) ==
    /\ r \in VenueRow /\ r.status # "NONE" /\ r.filled <= q
    /\ r.status = "FILLED" <=> r.filled = q
    /\ r.status = "ACCEPTED" => r.filled = 0

(* An order that may still fill moves on.                                  *)
LEMMA MoveSound ==
    ASSUME NEW d, NEW at, NEW way, NEW sent, Sound(d, at, way, sent), NEW l \in Legs,
           Working(l, at, way), NEW r, MayReport(d.qty[l], r), at[l].filled <= r.filled
    PROVE  /\ Sound(d, [at EXCEPT ![l] = r], way \ {l}, sent)
           /\ OverKnows(d, at, way) => OverKnows(d, [at EXCEPT ![l] = r], way \ {l})
<1>. DEFINE a == [at EXCEPT ![l] = r]
            w == way \ {l}
<1>1. /\ at \in [Legs -> VenueRow] /\ way \subseteq Legs /\ r \in VenueRow
      /\ d \in Database /\ sent \in [Legs -> Nat]
  BY DEF Sound, Types, MayReport
<1>2. /\ a \in [Legs -> VenueRow] /\ a[l] = r /\ \A m \in Legs : m # l => a[m] = at[m]
  BY <1>1
<1>3. /\ w \subseteq Legs /\ l \notin w /\ \A m \in Legs : m # l => (m \in w <=> m \in way)
  BY <1>1
<1>. HIDE DEF a, w
<1>4. /\ sent[l] = 1 /\ d.leg[l] \in NonTerminalLegStatuses
  BY DEF Sound, AtVenues, RecordsAreTrue, Known, Working
<1>5. \A m \in Legs : at[m].filled <= a[m].filled /\ at[m].filled \in Nat /\ a[m].filled \in Nat
                      /\ d.order[m].filled \in Nat /\ d.qty[m] \in Nat
  <2>. TAKE m \in Legs
  <2>1. at[m] \in VenueRow /\ a[m] \in VenueRow /\ d.order[m] \in OrderRow /\ d.qty[m] \in 0..Target
    BY <1>1, <1>2 DEF Database
  <2>2. at[m].filled \in Nat /\ a[m].filled \in Nat /\ d.order[m].filled \in Nat /\ d.qty[m] \in Nat
    BY <2>1, MakerAssumption DEF VenueRow, OrderRow
  <2>3. at[m].filled <= a[m].filled
    BY <1>2, <2>2
  <2>. QED BY <2>2, <2>3
<1>6. AtVenues(d.qty, a, w, sent)
  <2>1. AtVenues(d.qty, at, way, sent)
    BY DEF Sound
  <2>2. ASSUME NEW m \in Legs
        PROVE  /\ sent[m] \in {0, 1}
               /\ a[m].status # "NONE" \/ m \in w => sent[m] = 1
               /\ m \in w => a[m].status = "NONE"
               /\ a[m].filled <= d.qty[m]
               /\ a[m].status \in {"NONE", "ACCEPTED"} => a[m].filled = 0
               /\ a[m].status # "NONE" => (a[m].status = "FILLED" <=> a[m].filled = d.qty[m])
    <3>1. CASE m = l
      BY <3>1, <1>2, <1>3, <1>4 DEF MayReport
    <3>2. CASE m # l
      BY <3>2, <1>2, <1>3, <2>1 DEF AtVenues
    <3>. QED BY <3>1, <3>2
  <2>. QED BY <2>2 DEF AtVenues
<1>7. RecordsAreTrue(d, a, w, sent)
  <2>. SUFFICES ASSUME NEW m \in Legs
                PROVE  /\ d.order[m].filled <= a[m].filled
                       /\ d.leg[m] \notin NonTerminalLegStatuses => sent[m] = 1 /\ Known(m, d, a, w)
    BY DEF RecordsAreTrue
  <2>1. d.order[m].filled <= at[m].filled
    BY DEF Sound, RecordsAreTrue
  <2>2. CASE m = l
    BY <2>1, <2>2, <1>4, <1>5
  <2>3. CASE m # l
    BY <2>3, <1>2, <1>3 DEF Sound, RecordsAreTrue, Known, Working
  <2>. QED BY <2>2, <2>3
<1>8. FallbackCovers(d, a, w, sent)
  <2>1. d.qty[Fallback] > 0 => l # Maker
    BY DEF Sound, FallbackCovers, Known
  <2>. QED BY <1>2, <1>3, <2>1, Roles DEF Sound, FallbackCovers, Known, Working
<1>9. /\ Fills(a) \in [Legs -> Nat] /\ \A m \in Legs : Fills(a)[m] = a[m].filled
      /\ OfHedges(Fills(a)) \in Nat
      /\ OfMakers(Fills(a)) = a[Maker].filled + a[Fallback].filled
  BY <1>5, FillsType
<1>10. /\ Fills(at) \in [Legs -> Nat] /\ \A m \in Legs : Fills(at)[m] = at[m].filled
       /\ OfMakers(Fills(at)) = at[Maker].filled + at[Fallback].filled
  BY <1>5, FillsType
<1>11. OfMakers(Fills(at)) <= OfMakers(Fills(a))
  BY <1>5, <1>9, <1>10, Roles
<1>12. OfHedges(Fills(at)) <= OfHedges(Fills(a))
  BY <1>5, <1>9, <1>10, Roles, SumGrows
<1>13. OfHedges(Fills(a)) <= OfHedges(d.qty)
  <2>1. d.qty \in [Legs -> Nat]
    BY <1>1, MakerAssumption DEF Database
  <2>2. \A m \in HedgeLegs : Fills(a)[m] <= d.qty[m]
    BY <1>6, <1>9, Roles DEF AtVenues
  <2>. QED BY <1>9, <2>1, <2>2, SumGrows
<1>14. /\ OfHedges(d.qty) <= OfMakers(Fills(at)) /\ OfMakers(Fills(at)) <= Target
       /\ OfHedges(d.qty) \in Nat /\ OfMakers(Fills(at)) \in Nat /\ OfHedges(Fills(at)) \in Nat
  BY Bounds
<1>15. Covered(d, a)
  <2>1. OfMakers(Fills(a)) \in Nat
    BY <1>5, <1>9, Roles
  <2>. QED BY <1>11, <1>14, <2>1 DEF Covered
<1>16. Whole(d, a)
  <2>1. OfHedges(Fills(at)) = Target => OfHedges(Fills(a)) = Target
    BY <1>9, <1>12, <1>13, <1>14, MakerAssumption
  <2>. QED BY <2>1 DEF Sound, Whole
<1>17. Types(d, a, w, sent)
  BY <1>1, <1>2, <1>3 DEF Types
<1>18. Sound(d, a, w, sent)
  BY <1>6, <1>7, <1>8, <1>15, <1>16, <1>17 DEF Sound
<1>19. ASSUME OverKnows(d, at, way) PROVE OverKnows(d, a, w)
  <2>1. Over(d.intent) => d.qty[Compensation] # 0
    BY <1>19 DEF OverKnows, Known
  <2>. QED BY <1>19, <2>1 DEF OverKnows
<1>. QED BY <1>18, <1>19 DEF a, w

-----------------------------------------------------------------------------
(* Transactions of the worker, which leave the venues alone.               *)

NoReports == [l \in Legs |-> << >>]

(* A transaction with sound books, after which the worker is idle, keeps   *)
(* the invariant.                                                          *)
LEMMA Commits ==
    ASSUME IInv, phase' = "ready",
           Sound(db', venue', wire', submitted'), OverKnows(db', venue', wire'),
           UNCHANGED <<expired, world, online, ever, submitted, faults>>,
           gap' \in BOOLEAN, result' \in OrderRow,
           queue' = queue \/ queue' = NoReports,
           stale' \subseteq DOMAIN db'.outbox, fresh' \subseteq DOMAIN db'.outbox,
           \A i \in fresh' :
               /\ db'.outbox[i].status # "PENDING"
               /\ db'.outbox[i].kind = "SUBMIT" => db'.order[db'.outbox[i].leg].status = "NONE"
    PROVE  IInv'
<1>1. db' \in Database
  BY DEF Sound, Types
<1>2. /\ \A l \in Legs : NoReports[l] = << >>
      /\ NoReports \in [Legs -> Seq(VenueRow)]
  BY DEF NoReports
<1>3. TypeOK'
  BY <1>1, <1>2 DEF IInv, TypeOK, world, faults
<1>4. ReportsAreTrue'
  <2>1. CASE queue' = queue
    BY <2>1 DEF IInv, ReportsAreTrue, world
  <2>2. CASE queue' = NoReports
    BY <2>2, <1>2 DEF ReportsAreTrue
  <2>. QED BY <2>1, <2>2
<1>5. FreshIsUnsent' /\ InFlightIsRecorded' /\ ResultIsTrue'
  BY DEF FreshIsUnsent, InFlightIsRecorded, ResultIsTrue
<1>. QED BY <1>3, <1>4, <1>5 DEF IInv

(* A transaction that only extends the books keeps it, if no claim at hand *)
(* was sent.                                                               *)
LEMMA CommitsMore ==
    ASSUME IInv, phase' = "ready",
           Sound(db', venue, wire, submitted), OverKnows(db', venue, wire),
           UNCHANGED <<expired, world, online, ever, submitted, faults>>,
           gap' \in BOOLEAN, result' \in OrderRow,
           queue' = queue \/ queue' = NoReports,
           Extends(db, db'),
           stale' \subseteq stale, fresh' \subseteq fresh,
           \A i \in fresh' : ~InFlight(i)
    PROVE  IInv'
<1>1. stale' \subseteq DOMAIN db'.outbox /\ fresh' \subseteq DOMAIN db'.outbox
  BY DEF IInv, TypeOK, Extends
<1>2. ASSUME NEW i \in fresh'
      PROVE  /\ db'.outbox[i].status # "PENDING"
             /\ db'.outbox[i].kind = "SUBMIT" => db'.order[db'.outbox[i].leg].status = "NONE"
  <2>1. i \in fresh /\ ~InFlight(i) /\ i \in DOMAIN db.outbox
    BY DEF IInv, TypeOK
  <2>2. /\ db'.outbox[i].kind = db.outbox[i].kind /\ db'.outbox[i].leg = db.outbox[i].leg
        /\ db'.outbox[i].status = "PENDING" => db.outbox[i].status = "PENDING"
    BY <2>1 DEF Extends
  <2>3. db.outbox[i].leg \in Legs
    <3>1. db.outbox[i] \in Command
      BY <2>1 DEF IInv, TypeOK, Database
    <3>. QED BY <3>1 DEF Command
  <2>. QED BY <2>1, <2>2, <2>3 DEF IInv, FreshIsUnsent, Extends
<1>3. Sound(db', venue', wire', submitted') /\ OverKnows(db', venue', wire')
  BY DEF world
<1>. QED BY <1>1, <1>2, <1>3, Commits

(* An idle worker has no call on its way.                                  *)
LEMMA Ready == \A i : phase = "ready" => ~InFlight(i)
BY DEF InFlight

(* The parts of the invariant that transactions rest on.                   *)
LEMMA SoundNow == ASSUME IInv PROVE Sound(db, venue, wire, submitted) /\ OverKnows(db, venue, wire)
BY DEF IInv

(* Books extend themselves.                                                *)
LEMMA ExtendsItself == \A d : Extends(d, d)
BY DEF Extends

(* advance_execution_timers_once lets the state machine go on.             *)
LEMMA TimerStep == ASSUME IInv, Timer PROVE IInv'
<1>1. Sound(db', venue, wire, submitted) /\ OverKnows(db', venue, wire) /\ Extends(db, db')
  BY SoundNow, AdvanceSound DEF Timer
<1>. QED
  BY <1>1, CommitsMore, Ready DEF Timer, Idle, worker, stream, IInv, TypeOK

(* The database once all reports are read.                                 *)
Seen == [db EXCEPT !.order = [l \in Legs |-> Read(l).order],
                   !.leg = [l \in Legs |-> Read(l).leg]]

(* The database once all reports are read is sound, and takes nothing      *)
(* back.                                                                   *)
LEMMA SeenSound ==
    ASSUME IInv
    PROVE  /\ Sound(Seen, venue, wire, submitted) /\ Extends(db, Seen)
           /\ Seen.outbox = db.outbox /\ Seen.intent = db.intent /\ Seen.qty = db.qty
           /\ \A l \in Legs : /\ db.order[l].filled <= Seen.order[l].filled
                              /\ Seen.order[l].filled <= venue[l].filled
                              /\ queue[l] # << >> =>
                                     Seen.order[l].filled >= Last(queue[l]).filled
<1>1. ASSUME NEW l \in Legs
      PROVE  /\ Read(l).order \in OrderRow /\ Read(l).leg \in LegStatus
             /\ queue[l] = << >> => Read(l).order = db.order[l] /\ Read(l).leg = db.leg[l]
             /\ queue[l] # << >> => /\ Read(l).order.status # "NONE"
                                    /\ Read(l).order.filled >= Last(queue[l]).filled
             /\ db.order[l].filled <= Read(l).order.filled
             /\ Read(l).order.filled <= venue[l].filled
             /\ Read(l).leg \notin NonTerminalLegStatuses =>
                    \/ Read(l).leg = db.leg[l] /\ queue[l] = << >>
                    \/ venue[l].status \in Settled /\ Read(l).order.filled = venue[l].filled
  <2>1. TypeOK /\ ReportsAreTrue /\ db.order[l].filled <= venue[l].filled
    BY DEF IInv, Sound, RecordsAreTrue
  <2>. QED BY <2>1, ReadIsTrue
<1>2. db \in Database
  BY DEF IInv, TypeOK
<1>3. /\ Seen \in Database /\ Seen.outbox = db.outbox /\ Seen.qty = db.qty
      /\ Seen.intent = db.intent /\ Seen.group = db.group /\ Seen.finished = db.finished
      /\ \A l \in Legs : Seen.order[l] = Read(l).order /\ Seen.leg[l] = Read(l).leg
  <2>1. /\ [l \in Legs |-> Read(l).order] \in [Legs -> OrderRow]
        /\ [l \in Legs |-> Read(l).leg] \in [Legs -> LegStatus]
    BY <1>1
  <2>. QED BY <1>2, <2>1 DEF Seen, Database
<1>4. ASSUME NEW l \in Legs
      PROVE  \/ Seen.order[l] = db.order[l] /\ Seen.leg[l] = db.leg[l]
             \/ /\ db.order[l].status # "NONE" /\ Seen.order[l].status # "NONE"
                /\ db.order[l].filled <= Seen.order[l].filled
                /\ Seen.order[l].filled <= venue[l].filled
                /\ Seen.leg[l] \notin NonTerminalLegStatuses =>
                       submitted[l] = 1 /\ Known(l, Seen, venue, wire)
  <2>1. CASE queue[l] = << >>
    BY <1>1, <1>3, <2>1
  <2>2. CASE queue[l] # << >>
    <3>1. 1 \in DOMAIN queue[l]
      <4>1. queue[l] \in Seq(VenueRow)
        BY DEF IInv, TypeOK
      <4>. QED BY <4>1, <2>2
    <3>2. venue[l].status # "NONE"
      BY <3>1 DEF IInv, ReportsAreTrue
    <3>3. submitted[l] = 1 /\ l \notin wire
      BY <3>2 DEF IInv, Sound, AtVenues
    <3>4. db.order[l].status # "NONE"
      BY <3>3 DEF IInv, Sound, OrderFirst
    <3>5. venue[l].status \in Settled => ~Working(l, venue, wire)
      BY <3>3 DEF Working, Settled
    <3>. QED BY <1>1, <1>3, <2>2, <3>3, <3>4, <3>5 DEF Known
  <2>. QED BY <2>1, <2>2
<1>5. Whole(Seen, venue)
  BY <1>3 DEF IInv, Sound, Whole
<1>6. Sound(Seen, venue, wire, submitted) /\ Extends(db, Seen)
  BY <1>3, <1>4, <1>5, SoundNow, ReportedSound
<1>. QED BY <1>1, <1>3, <1>6

(* The queue is projected, and the state machine advances.                 *)
LEMMA ProjectStep == ASSUME IInv, Project PROVE IInv'
<1>1. db' = IF Raises(Seen) THEN db ELSE Advance(Seen, LastCommand(db))
  BY DEF Project, Seen
<1>2. CASE db' = db
  BY <1>2, CommitsMore, SoundNow, ExtendsItself, Ready
     DEF Project, Idle, worker, NoReports, IInv, TypeOK
<1>3. CASE db' = Advance(Seen, LastCommand(db))
  <2>1. Sound(db', venue, wire, submitted) /\ OverKnows(db', venue, wire) /\ Extends(Seen, db')
    BY <1>3, SeenSound, AdvanceSound
  <2>2. Extends(db, db')
    BY <2>1, SeenSound, ExtendsTwice
  <2>. QED
    BY <2>1, <2>2, CommitsMore, Ready DEF Project, Idle, worker, NoReports, IInv, TypeOK
<1>. QED BY <1>1, <1>2, <1>3

(* The database once the queries of the legs in S are answered.            *)
Answered(S) ==
    [db EXCEPT !.order = [l \in Legs |->
                   IF l \in S THEN GatewayOrder(@[l], venue[l], db.qty[l]) ELSE @[l]],
               !.leg = [l \in Legs |->
                   IF l \in S THEN GatewayLeg(db.order[l], venue[l], db.qty[l]) ELSE @[l]]]

(* What a venue answers to a query is true of it.                          *)
LEMMA VenueAnswers ==
    ASSUME IInv, NEW l \in Legs, venue[l].status # "NONE"
    PROVE  /\ TrueAnswer(venue[l], l, venue, wire)
           /\ submitted[l] = 1 /\ db.order[l].status # "NONE"
<1>1. venue[l] \in VenueRow
  BY DEF IInv, TypeOK
<1>2. submitted[l] = 1
  BY DEF IInv, Sound, AtVenues
<1>3. db.order[l].status # "NONE"
  BY <1>2 DEF IInv, Sound, OrderFirst
<1>4. TrueAnswer(venue[l], l, venue, wire)
  BY <1>1, MakerAssumption DEF TrueAnswer, TrueReport, VenueRow, OrderRow, OrderStatus, VenueStatus
<1>. QED BY <1>2, <1>3, <1>4

(* Orders are asked for at their venues, in start-up and reconciliation.   *)
LEMMA QuerySound ==
    ASSUME IInv, NEW S \in SUBSET Legs, QueryOrders(S)
    PROVE  Sound(db', venue, wire, submitted) /\ OverKnows(db', venue, wire) /\ Extends(db, db')
<1>1. CASE S = {}
  BY <1>1, SoundNow, ExtendsItself DEF QueryOrders
<1>2. CASE S # {}
  <2>. DEFINE e == Answered(S)
  <2>1. \A l \in S : venue[l].status # "NONE" /\ l \in Legs
    BY DEF QueryOrders
  <2>2. \E i : db' = Advance(e, i)
    BY <1>2 DEF QueryOrders, Answered
  <2>3. db \in Database /\ db.order \in [Legs -> OrderRow] /\ db.leg \in [Legs -> LegStatus]
    BY DEF IInv, TypeOK, Database
  <2>4. ASSUME NEW l \in S
        PROVE  LET o == GatewayOrder(db.order[l], venue[l], db.qty[l])
                   g == GatewayLeg(db.order[l], venue[l], db.qty[l])
               IN /\ o \in OrderRow /\ g \in LegStatus /\ o.status # "NONE"
                  /\ db.order[l].filled <= o.filled /\ o.filled <= venue[l].filled
                  /\ g \notin NonTerminalLegStatuses =>
                         ~Working(l, venue, wire) /\ o.filled = venue[l].filled
                  /\ submitted[l] = 1 /\ db.order[l].status # "NONE"
    BY <2>1, SoundNow, VenueAnswers, OneAnswer
  <2>5. /\ [l \in Legs |-> IF l \in S THEN GatewayOrder(db.order[l], venue[l], db.qty[l])
                           ELSE db.order[l]] \in [Legs -> OrderRow]
        /\ [l \in Legs |-> IF l \in S THEN GatewayLeg(db.order[l], venue[l], db.qty[l])
                           ELSE db.leg[l]] \in [Legs -> LegStatus]
    BY <2>3, <2>4
  <2>6. /\ e \in Database /\ e.outbox = db.outbox /\ e.qty = db.qty
        /\ e.intent = db.intent /\ e.group = db.group /\ e.finished = db.finished
        /\ \A l \in Legs :
               /\ e.order[l] = IF l \in S THEN GatewayOrder(db.order[l], venue[l], db.qty[l])
                               ELSE db.order[l]
               /\ e.leg[l] = IF l \in S THEN GatewayLeg(db.order[l], venue[l], db.qty[l])
                             ELSE db.leg[l]
    BY <2>3, <2>5 DEF Answered, Database
  <2>. HIDE DEF e
  <2>7. Whole(e, venue)
    BY <2>6 DEF IInv, Sound, Whole
  <2>8. Sound(e, venue, wire, submitted) /\ Extends(db, e)
    BY <2>4, <2>6, <2>7, SoundNow, ReportedSound DEF Known
  <2>9. Sound(db', venue, wire, submitted) /\ OverKnows(db', venue, wire) /\ Extends(e, db')
    BY <2>2, <2>8, AdvanceSound
  <2>. QED BY <2>8, <2>9, ExtendsTwice
<1>. QED BY <1>1, <1>2

(* The worker starts.                                                      *)
LEMMA StartStep == ASSUME IInv, NEW S \in SUBSET Legs, Start(S) PROVE IInv'
<1>1. Sound(db', venue, wire, submitted) /\ OverKnows(db', venue, wire) /\ Extends(db, db')
  BY QuerySound DEF Start
<1>. QED
  BY <1>1, CommitsMore DEF Start, InFlight, stream, IInv, TypeOK

(* The worker reconciles.                                                  *)
LEMMA ReconcileStep == ASSUME IInv, NEW S \in SUBSET Legs, Reconcile(S) PROVE IInv'
<1>1. Sound(db', venue, wire, submitted) /\ OverKnows(db', venue, wire) /\ Extends(db, db')
  BY QuerySound DEF Reconcile
<1>. QED
  BY <1>1, CommitsMore, Ready DEF Reconcile, Idle, stream, worker, IInv, TypeOK

(* A closing intent of which no order was recorded is rolled back.         *)
LEMMA RollBackStep == ASSUME IInv, RollBackStale PROVE IInv'
<1>1. db \in Database /\ db.outbox \in Seq(Command) /\ db.qty \in [Legs -> 0..Target]
  BY DEF IInv, TypeOK, Database
<1>. DEFINE t == [i \in DOMAIN db.outbox |-> [db.outbox[i] EXCEPT !.status = "CANCELED"]]
<1>2. /\ t \in Seq(Command) /\ DOMAIN t = DOMAIN db.outbox
      /\ \A i \in DOMAIN t : /\ t[i].kind = db.outbox[i].kind /\ t[i].leg = db.outbox[i].leg
                             /\ t[i].status = "CANCELED"
  <2>1. DOMAIN db.outbox = 1..Len(db.outbox) /\ Len(db.outbox) \in Nat
    BY <1>1
  <2>2. \A i \in DOMAIN db.outbox : db.outbox[i] \in Command
    BY <1>1
  <2>3. \A i \in DOMAIN db.outbox : t[i] \in Command
    BY <2>2 DEF Command, OutboxStatus
  <2>4. t \in Seq(Command)
    <3>1. t \in [DOMAIN db.outbox -> Command]
      BY <2>3
    <3>2. t \in [1..Len(db.outbox) -> Command]
      BY <2>1, <3>1
    <3>. HIDE DEF t
    <3>. QED BY <2>1, <3>2
  <2>5. \A i \in DOMAIN t : /\ t[i].kind = db.outbox[i].kind /\ t[i].leg = db.outbox[i].leg
                            /\ t[i].status = "CANCELED"
    BY <2>2 DEF Command
  <2>. QED BY <2>4, <2>5
<1>3. db' = [db EXCEPT !.outbox = t, !.intent = "FAILED",
                       !.group = IF @ = "closing" THEN "open" ELSE @]
  BY DEF RollBackStale
<1>. HIDE DEF t
<1>4. /\ db' \in Database /\ db'.outbox = t /\ db'.qty = db.qty
      /\ db'.order = db.order /\ db'.leg = db.leg /\ db'.intent = "FAILED"
  BY <1>1, <1>2, <1>3 DEF Database, GroupStatus
<1>5. /\ UnsentFirst(db') /\ Whole(db', venue) /\ RecordsAreTrue(db', venue, wire, submitted)
      /\ Extends(db, db')
  BY <1>2, <1>4 DEF UnsentFirst, Whole, IInv, Sound, RecordsAreTrue, Known, Extends
<1>6. Sound(db', venue, wire, submitted)
  <2>1. \A l \in Legs : db.order[l].filled <= db'.order[l].filled
    BY <1>1, <1>4 DEF Database, OrderRow
  <2>. QED BY <1>2, <1>4, <1>5, <2>1, Following DEF IInv, Sound, OrderFirst
<1>7. ASSUME NEW l \in Legs
      PROVE  Known(l, db', venue, wire) /\ db'.order[l].filled = 0 /\ venue[l].filled = 0
  <2>1. db.order[l].status = "NONE"
    <3>1. CASE db.qty[l] = 0
      BY <3>1 DEF IInv, Sound, OrderFirst
    <3>2. CASE db.qty[l] > 0
      BY <3>2 DEF RollBackStale, Exist, Untouched
    <3>. QED BY <1>1, <3>1, <3>2, MakerAssumption
  <2>2. submitted[l] = 0 /\ db.order[l].filled = 0
    BY <2>1 DEF IInv, Sound, OrderFirst
  <2>3. venue[l].status = "NONE" /\ l \notin wire /\ venue[l].filled = 0
    BY <2>2 DEF IInv, Sound, AtVenues
  <2>. QED BY <1>4, <2>2, <2>3 DEF Known, Working
<1>8. OverKnows(db', venue, wire)
  <2>1. /\ \A l \in Legs : Fills(db'.order)[l] = 0 /\ Fills(venue)[l] = 0
    BY <1>7 DEF Fills
  <2>2. OfHedges(Fills(db'.order)) = 0 /\ OfHedges(Fills(venue)) = 0
    BY <2>1, Roles, SumOfNothing
  <2>3. OfMakers(Fills(db'.order)) = 0 /\ OfMakers(Fills(venue)) = 0
    BY <2>1, Roles DEF OfMakers
  <2>. QED BY <1>7, <2>2, <2>3, Roles DEF OverKnows
<1>. QED
  BY <1>5, <1>6, <1>8, CommitsMore, Ready
     DEF RollBackStale, Idle, stream, worker, IInv, TypeOK

(* A command of which no order was recorded is put into the outbox again.  *)
LEMMA RequeueStep == ASSUME IInv, NEW i \in Commands, RequeueUnsent(i) PROVE IInv'
<1>1. db \in Database
  BY DEF IInv, TypeOK
<1>2. WithStatus(db.outbox, i, "PENDING") \in Seq(Command)
  BY <1>1, RowType DEF OutboxStatus
<1>3. /\ db' = Running([db EXCEPT !.outbox = WithStatus(db.outbox, i, "PENDING")])
  BY DEF RequeueUnsent, WithStatus
<1>4. /\ db' \in Database /\ db'.outbox = WithStatus(db.outbox, i, "PENDING")
      /\ db'.qty = db.qty /\ db'.order = db.order /\ db'.leg = db.leg /\ db'.intent = "RUNNING"
  BY <1>1, <1>2, <1>3 DEF Running, Database
<1>5. Whole(db', venue) /\ OverKnows(db', venue, wire)
  BY <1>4 DEF Whole, OverKnows, Over
<1>6. Sound(db', venue, wire, submitted)
  BY <1>4, <1>5, SoundNow, RowSound DEF RequeueUnsent, Untouched, Commands, OutboxStatus
<1>. QED
  BY <1>5, <1>6, Commits DEF RequeueUnsent, Idle, stream, worker, world, IInv, TypeOK

(* A command is put off.                                                   *)
LEMMA DeferStep == ASSUME IInv, NEW i \in Commands, Defer(i) PROVE IInv'
<1>1. db \in Database /\ i \in fresh /\ phase = "ready" /\ db.outbox[i].kind = "SUBMIT"
  BY DEF IInv, TypeOK, Defer, AtHand
<1>2. WithStatus(db.outbox, i, "PENDING") \in Seq(Command)
  BY <1>1, RowType DEF OutboxStatus
<1>3. /\ db' = [db EXCEPT !.outbox = WithStatus(db.outbox, i, "PENDING")]
  BY DEF Defer, WithStatus
<1>4. /\ db' \in Database /\ db'.outbox = WithStatus(db.outbox, i, "PENDING")
      /\ db'.qty = db.qty /\ db'.order = db.order /\ db'.leg = db.leg /\ db'.intent = db.intent
      /\ db'.finished = db.finished /\ db'.group = db.group
  BY <1>1, <1>2, <1>3 DEF Database
<1>5. Whole(db', venue) /\ OverKnows(db', venue, wire)
  BY <1>4 DEF Whole, OverKnows, Known, IInv, Sound
<1>6. db.order[db.outbox[i].leg].status = "NONE"
  BY <1>1, Ready DEF IInv, FreshIsUnsent
<1>7. Sound(db', venue, wire, submitted)
  BY <1>4, <1>5, <1>6, SoundNow, RowSound DEF Commands, OutboxStatus
<1>8. /\ DOMAIN db'.outbox = DOMAIN db.outbox
      /\ \A j \in DOMAIN db.outbox :
             /\ db'.outbox[j].kind = db.outbox[j].kind /\ db'.outbox[j].leg = db.outbox[j].leg
             /\ db'.outbox[j].status = IF j = i THEN "PENDING" ELSE db.outbox[j].status
  <2>1. db.outbox \in Seq(Command)
    BY <1>1 DEF Database
  <2>. QED BY <1>4, <2>1, RowSet DEF OutboxStatus
<1>9. ASSUME NEW j \in fresh'
      PROVE  /\ db'.outbox[j].status # "PENDING"
             /\ db'.outbox[j].kind = "SUBMIT" => db'.order[db'.outbox[j].leg].status = "NONE"
  <2>1. j \in fresh /\ j # i /\ j \in DOMAIN db.outbox
    BY DEF Defer, IInv, TypeOK
  <2>. QED BY <1>1, <1>4, <1>8, <2>1, Ready DEF IInv, FreshIsUnsent
<1>10. fresh' \subseteq DOMAIN db'.outbox /\ stale' \subseteq DOMAIN db'.outbox
  BY <1>8 DEF Defer, IInv, TypeOK
<1>. QED
  BY <1>5, <1>7, <1>9, <1>10, Commits DEF Defer, stream, world, IInv, TypeOK

(* Commands are claimed, PENDING ones or those whose lease is over.        *)
LEMMA ClaimStep == ASSUME IInv, NEW P \in SUBSET Commands, Claim(P) PROVE IInv'
<1>1. db \in Database /\ db.outbox \in Seq(Command)
  BY DEF IInv, TypeOK, Database
<1>. DEFINE t == [i \in DOMAIN db.outbox |->
                     IF i \in fresh' THEN [db.outbox[i] EXCEPT !.status = "PROCESSING"]
                     ELSE db.outbox[i]]
<1>2. /\ t \in Seq(Command) /\ DOMAIN t = DOMAIN db.outbox
      /\ \A i \in DOMAIN t : /\ t[i].kind = db.outbox[i].kind /\ t[i].leg = db.outbox[i].leg
                             /\ t[i].status = IF i \in fresh' THEN "PROCESSING"
                                              ELSE db.outbox[i].status
  <2>1. DOMAIN db.outbox = 1..Len(db.outbox) /\ Len(db.outbox) \in Nat
    BY <1>1
  <2>2. \A i \in DOMAIN db.outbox : db.outbox[i] \in Command
    BY <1>1
  <2>3. \A i \in DOMAIN db.outbox : t[i] \in Command
    BY <2>2 DEF Command, OutboxStatus
  <2>4. t \in Seq(Command)
    <3>1. t \in [DOMAIN db.outbox -> Command]
      BY <2>3
    <3>2. t \in [1..Len(db.outbox) -> Command]
      BY <2>1, <3>1
    <3>. HIDE DEF t
    <3>. QED BY <2>1, <3>2
  <2>5. \A i \in DOMAIN t : /\ t[i].kind = db.outbox[i].kind /\ t[i].leg = db.outbox[i].leg
                            /\ t[i].status = IF i \in fresh' THEN "PROCESSING"
                                             ELSE db.outbox[i].status
    BY <2>2 DEF Command
  <2>. QED BY <2>4, <2>5
<1>3. db' = [db EXCEPT !.outbox = t]
  BY DEF Claim
<1>. HIDE DEF t
<1>4. /\ db' \in Database /\ db'.outbox = t /\ db'.qty = db.qty
      /\ db'.order = db.order /\ db'.leg = db.leg /\ db'.intent = db.intent
      /\ db'.finished = db.finished /\ db'.group = db.group
  BY <1>1, <1>2, <1>3 DEF Database
<1>5. /\ Whole(db', venue) /\ RecordsAreTrue(db', venue, wire, submitted)
      /\ OverKnows(db', venue, wire)
  BY <1>4 DEF Whole, IInv, Sound, RecordsAreTrue, Known, OverKnows
<1>6. UnsentFirst(db')
  BY <1>2, <1>4 DEF UnsentFirst, IInv, Sound
<1>7. Sound(db', venue, wire, submitted)
  <2>1. \A l \in Legs : db.order[l].filled <= db'.order[l].filled
    BY <1>1, <1>4 DEF Database, OrderRow
  <2>. QED BY <1>2, <1>4, <1>5, <1>6, <2>1, Following DEF IInv, Sound, OrderFirst
<1>8. ASSUME NEW j \in fresh'
      PROVE  /\ j \in DOMAIN db.outbox
             /\ db'.outbox[j].status # "PENDING"
             /\ db'.outbox[j].kind = "SUBMIT" => db'.order[db'.outbox[j].leg].status = "NONE"
  <2>1. j \in DOMAIN db.outbox /\ db.outbox[j].status = "PENDING"
    BY DEF Claim, RowsIn
  <2>. QED BY <1>2, <1>4, <2>1 DEF IInv, Sound, UnsentFirst
<1>9. fresh' \subseteq DOMAIN db'.outbox /\ stale' \subseteq DOMAIN db'.outbox
  BY <1>2, <1>4, <1>8 DEF Claim, Commands
<1>. QED
  BY <1>5, <1>7, <1>8, <1>9, Commits DEF Claim, Idle, stream, world, IInv, TypeOK

(* What the command at hand may count on.                                  *)
LEMMA AtHandFacts ==
    ASSUME IInv, NEW i, AtHand(i, fresh, "SUBMIT")
    PROVE  LET l == db.outbox[i].leg IN
           /\ i \in DOMAIN db.outbox /\ db.outbox[i] \in Command /\ l \in Legs
           /\ db.qty[l] > 0
           /\ db.outbox[i].status # "PENDING"
           /\ \A j \in DOMAIN db.outbox :
                  db.outbox[j].kind = "SUBMIT" /\ db.outbox[j].leg = l => j = i
           /\ \A j \in fresh \ {i} : ~InFlight(j)
           /\ phase \in {"sending", "sent"} => InFlight(i)
<1>1. i \in fresh /\ i \in DOMAIN db.outbox /\ db.outbox[i].kind = "SUBMIT"
  BY DEF AtHand, IInv, TypeOK
<1>2. db.outbox[i] \in Command
  BY <1>1 DEF IInv, TypeOK, Database
<1>3. db.outbox[i].leg \in Legs
  BY <1>2 DEF Command
<1>4. db.outbox[i].status # "PENDING"
  BY <1>1 DEF IInv, FreshIsUnsent
<1>5. /\ db.qty[db.outbox[i].leg] > 0
      /\ \A j \in DOMAIN db.outbox :
             db.outbox[j].kind = "SUBMIT" /\ db.outbox[j].leg = db.outbox[i].leg => j = i
  BY <1>1 DEF IInv, Sound, OneCommand
<1>6. \A j \in fresh \ {i} : ~InFlight(j)
  <2>1. \A j \in fresh : i \in Nat /\ j \in Nat /\ i <= j
    BY <1>1 DEF AtHand, IInv, TypeOK, Database
  <2>. QED BY <1>1, <2>1 DEF InFlight
<1>7. phase \in {"sending", "sent"} => InFlight(i)
  BY DEF AtHand, InFlight
<1>. QED BY <1>1, <1>2, <1>3, <1>4, <1>5, <1>6, <1>7

(* The id of the order is on disk before the call: the leg was never sent. *)
LEMMA DispatchStep == ASSUME IInv, NEW i \in Commands, Dispatch(i) PROVE IInv'
<1>. DEFINE l == db.outbox[i].leg
<1>1. phase = "ready" /\ AtHand(i, fresh, "SUBMIT")
  BY DEF Dispatch
<1>2. /\ i \in DOMAIN db.outbox /\ l \in Legs /\ db.qty[l] > 0 /\ i \in fresh
      /\ db.outbox[i].status # "PENDING" /\ db.outbox[i].kind = "SUBMIT"
      /\ \A j \in DOMAIN db.outbox :
             db.outbox[j].kind = "SUBMIT" /\ db.outbox[j].leg = l => j = i
  BY <1>1, AtHandFacts DEF AtHand
<1>3. db.order[l].status = "NONE"
  BY <1>1, <1>2, Ready DEF IInv, FreshIsUnsent
<1>4. /\ db \in Database /\ db.order \in [Legs -> OrderRow] /\ db.order[l] \in OrderRow
      /\ db.outbox \in Seq(Command)
  BY <1>2 DEF IInv, TypeOK, Database
<1>. DEFINE o == [db.order EXCEPT ![l].status = IF @ = "NONE" THEN "INITIALIZED" ELSE @]
<1>5. /\ o \in [Legs -> OrderRow] /\ o[l].status = "INITIALIZED" /\ o[l].filled = db.order[l].filled
      /\ \A m \in Legs : m # l => o[m] = db.order[m]
  <2>. HIDE DEF l
  <2>. QED BY <1>2, <1>3, <1>4 DEF OrderRow, OrderStatus
<1>6. db' = Running([db EXCEPT !.order = o])
  BY DEF Dispatch
<1>. HIDE DEF o, l
<1>7. /\ db' \in Database /\ db'.outbox = db.outbox /\ db'.qty = db.qty
      /\ db'.order = o /\ db'.leg = db.leg /\ db'.intent = "RUNNING"
  BY <1>4, <1>5, <1>6 DEF Running, Database
<1>8. Whole(db', venue) /\ OverKnows(db', venue, wire)
  BY <1>7 DEF Whole, OverKnows, Over
<1>9. \A m \in Legs : db'.order[m].filled = db.order[m].filled
  BY <1>5, <1>7
<1>10. RecordsAreTrue(db', venue, wire, submitted)
  BY <1>7, <1>9 DEF IInv, Sound, RecordsAreTrue, Known
<1>11. ASSUME NEW j \in DOMAIN db.outbox, j # i, db.outbox[j].kind = "SUBMIT",
              db.order[db.outbox[j].leg].status = "NONE"
       PROVE  db'.order[db.outbox[j].leg].status = "NONE"
  <2>1. db.outbox[j].leg # l
    BY <1>2, <1>11
  <2>2. db.outbox[j].leg \in Legs
    <3>1. db.outbox[j] \in Command
      BY <1>4
    <3>. QED BY <3>1 DEF Command
  <2>. QED BY <1>5, <1>7, <1>11, <2>1, <2>2
<1>12. UnsentFirst(db')
  BY <1>2, <1>7, <1>11 DEF UnsentFirst, IInv, Sound
<1>13. Sound(db', venue, wire, submitted)
  <2>1. \A m \in Legs : db.order[m].filled <= db'.order[m].filled
    BY <1>4, <1>9 DEF OrderRow
  <2>2. \A m \in Legs : db.qty[m] = 0 => db'.order[m].status = "NONE"
    BY <1>2, <1>5, <1>7 DEF IInv, Sound, OrderFirst
  <2>3. \A m \in Legs : db'.order[m].status = "NONE" =>
            /\ db.order[m].status = "NONE"
            /\ db'.order[m].filled = db.order[m].filled /\ db'.leg[m] = db.leg[m]
    BY <1>3, <1>5, <1>7
  <2>. QED BY <1>7, <1>8, <1>10, <1>12, <2>1, <2>2, <2>3, SoundNow, Following
<1>14. /\ UNCHANGED <<expired, venue, wire, queue, online, ever, gap, fresh, stale, result>>
       /\ UNCHANGED <<submitted, crashes, drops, unanswered>> /\ phase' = "sending"
  BY DEF Dispatch, world, stream, faults
<1>15. TypeOK'
  BY <1>7, <1>14 DEF IInv, TypeOK
<1>16. Sound(db', venue', wire', submitted') /\ OverKnows(db', venue', wire')
  BY <1>8, <1>13, <1>14
<1>17. ReportsAreTrue'
  BY <1>14 DEF IInv, ReportsAreTrue
<1>18. \A j : InFlight(j)' => \A k \in fresh \cup stale : j <= k
  BY <1>14 DEF InFlight
<1>19. InFlight(i)'
  BY <1>1, <1>14 DEF InFlight, AtHand
<1>20. \A j \in fresh : InFlight(j)' => j = i
  <2>1. \A j \in fresh : i \in Nat /\ j \in Nat /\ i <= j
    BY <1>1, <1>2 DEF AtHand, IInv, TypeOK, Database
  <2>. QED BY <1>2, <1>18, <2>1
<1>21. FreshIsUnsent'
  <2>. SUFFICES ASSUME NEW j \in fresh
                PROVE  /\ db.outbox[j].status # "PENDING"
                       /\ db.outbox[j].kind = "SUBMIT" /\ j # i =>
                              db'.order[db.outbox[j].leg].status = "NONE"
    BY <1>7, <1>14, <1>19 DEF FreshIsUnsent
  <2>1. j \in DOMAIN db.outbox
    BY DEF IInv, TypeOK
  <2>. QED BY <1>1, <1>11, <2>1, Ready DEF IInv, FreshIsUnsent
<1>22. InFlightIsRecorded'
  <2>1. db'.order[l].status # "NONE"
    BY <1>5, <1>7
  <2>2. db'.leg[l] \in NonTerminalLegStatuses /\ submitted[l] = 0
    BY <1>2, <1>3, <1>7 DEF IInv, Sound, OrderFirst, NonTerminalLegStatuses
  <2>. QED BY <1>7, <1>14, <1>20, <2>1, <2>2 DEF InFlightIsRecorded, l
<1>23. ResultIsTrue'
  BY <1>14 DEF ResultIsTrue
<1>. QED BY <1>15, <1>16, <1>17, <1>21, <1>22, <1>23 DEF IInv

(* An exception ends the poll; otherwise the state machine has moved.      *)
LEMMA AdvanceAfterStep ==
    ASSUME IInv, phase = "ready", phase' = "ready", NEW d, NEW i,
           Sound(d, venue, wire, submitted), Extends(db, d), AdvanceAfter(d, i),
           UNCHANGED <<expired, world, stream, gap, result, submitted, faults>>
    PROVE  IInv'
<1>1. CASE Raises(d)
  <2>1. db' = db /\ stale' = {} /\ fresh' = {}
    BY <1>1 DEF AdvanceAfter
  <2>. QED
    BY <2>1, SoundNow, ExtendsItself, CommitsMore DEF stream, IInv, TypeOK
<1>2. CASE ~Raises(d)
  <2>1. db' = Advance(d, i) /\ stale' = stale \ {i} /\ fresh' = fresh
    BY <1>2 DEF AdvanceAfter
  <2>2. Sound(db', venue, wire, submitted) /\ OverKnows(db', venue, wire) /\ Extends(d, db')
    BY <2>1, AdvanceSound
  <2>3. Extends(db, db')
    BY <2>2, ExtendsTwice
  <2>. QED
    BY <2>1, <2>2, <2>3, Ready, CommitsMore DEF stream, IInv, TypeOK
<1>. QED BY <1>1, <1>2

(* The result of the call is recorded, and the state machine advances.     *)
LEMMA RecordStep == ASSUME IInv, NEW i \in Commands, Record(i) PROVE IInv'
<1>. DEFINE l == db.outbox[i].leg
<1>1. phase = "sent" /\ AtHand(i, fresh, "SUBMIT")
  BY DEF Record
<1>2. /\ i \in fresh /\ l \in Legs /\ InFlight(i) /\ \A j \in fresh \ {i} : ~InFlight(j)
  BY <1>1, AtHandFacts DEF AtHand
<1>3. /\ db.intent = "RUNNING" /\ db.order[l].status # "NONE"
      /\ db.leg[l] \in NonTerminalLegStatuses /\ submitted[l] = 1
  BY <1>1, <1>2 DEF IInv, InFlightIsRecorded
<1>4. /\ result \in OrderRow /\ result.status # "NONE" /\ TrueReport(result, venue[l])
      /\ result.status = "REJECTED" => venue[l].status = "NONE" /\ l \notin wire
  BY <1>1, <1>2 DEF IInv, TypeOK, ResultIsTrue
<1>5. db \in Database /\ db.order \in [Legs -> OrderRow] /\ db.order[l] \in OrderRow
  BY <1>2 DEF IInv, TypeOK, Database
<1>6. Sound(db', venue, wire, submitted) /\ OverKnows(db', venue, wire) /\ Extends(db, db')
  <2>1. CASE result.status = "UNKNOWN"
    <3>. DEFINE o == [db.order EXCEPT ![l].status = "UNKNOWN"]
    <3>1. /\ o \in [Legs -> OrderRow] /\ o[l].status = "UNKNOWN" /\ o[l].filled = db.order[l].filled
          /\ \A m \in Legs : m # l => o[m] = db.order[m]
      <4>. HIDE DEF l
      <4>. QED BY <1>2, <1>5 DEF OrderRow, OrderStatus
    <3>2. db' = [db EXCEPT !.order = o, !.leg[l] = "UNKNOWN", !.intent = "RECOVERY_REQUIRED"]
      BY <2>1 DEF Record
    <3>. HIDE DEF o, l
    <3>3. /\ db' \in Database /\ db'.outbox = db.outbox /\ db'.qty = db.qty
          /\ db'.order = o /\ db'.leg[l] = "UNKNOWN" /\ db'.intent = "RECOVERY_REQUIRED"
          /\ \A m \in Legs : m # l => db'.leg[m] = db.leg[m]
      BY <1>2, <1>5, <3>1, <3>2 DEF Database, LegStatus
    <3>4. Whole(db', venue) /\ OverKnows(db', venue, wire)
      BY <3>3 DEF Whole, OverKnows, Over
    <3>5. ASSUME NEW m \in Legs
          PROVE  \/ db'.order[m] = db.order[m] /\ db'.leg[m] = db.leg[m]
                 \/ /\ db.order[m].status # "NONE" /\ db'.order[m].status # "NONE"
                    /\ db.order[m].filled <= db'.order[m].filled
                    /\ db'.order[m].filled <= venue[m].filled
                    /\ db'.leg[m] \notin NonTerminalLegStatuses =>
                           submitted[m] = 1 /\ Known(m, db', venue, wire)
      <4>1. CASE m = l
        <5>1. db'.leg[m] \in NonTerminalLegStatuses
          BY <3>3, <4>1 DEF NonTerminalLegStatuses
        <5>2. db'.order[m].status # "NONE" /\ db'.order[m].filled = db.order[m].filled
          BY <3>1, <3>3, <4>1
        <5>3. db.order[m].filled <= venue[m].filled /\ db.order[m].filled <= db.order[m].filled
          BY <1>5, <4>1 DEF IInv, Sound, RecordsAreTrue, OrderRow
        <5>. QED BY <1>3, <4>1, <5>1, <5>2, <5>3
      <4>2. CASE m # l
        BY <3>1, <3>3, <4>2
      <4>. QED BY <4>1, <4>2
    <3>6. Sound(db', venue, wire, submitted) /\ Extends(db, db')
      BY <3>3, <3>4, <3>5, SoundNow, ReportedSound
    <3>. QED BY <3>4, <3>6
  <2>2. CASE result.status # "UNKNOWN"
    <3>1. db' = Advance(Answer(db, l, result), i)
      BY <2>2 DEF Record
    <3>2. TrueAnswer(result, l, venue, wire)
      BY <1>4 DEF TrueAnswer
    <3>. HIDE DEF l
    <3>3. Sound(Answer(db, l, result), venue, wire, submitted) /\ Extends(db, Answer(db, l, result))
      BY <1>2, <1>3, <3>2, SoundNow, AnswerSound
    <3>4. /\ Sound(db', venue, wire, submitted) /\ OverKnows(db', venue, wire)
          /\ Extends(Answer(db, l, result), db')
      BY <3>1, <3>3, AdvanceSound
    <3>. QED BY <3>3, <3>4, ExtendsTwice
  <2>. QED BY <2>1, <2>2
<1>7. NoReport \in OrderRow
  BY MakerAssumption DEF NoReport, Noted, OrderRow, OrderStatus, VenueStatus
<1>8. fresh' \subseteq fresh /\ \A j \in fresh' : ~InFlight(j)
  BY <1>2 DEF Record
<1>. QED
  BY <1>6, <1>7, <1>8, CommitsMore DEF Record, stream, IInv, TypeOK

(* A command that may have been sent is asked for, never sent again.       *)
LEMMA RecoverStep ==
    ASSUME IInv, NEW i \in Commands, NEW answered \in BOOLEAN, Recover(i, answered)
    PROVE  IInv'
<1>. DEFINE l == db.outbox[i].leg
            over == db.order[l].status \notin NonTerminalOrderStatuses \cup {"NONE"}
<1>1. db \in Database /\ l \in Legs
  <2>1. db \in Database /\ db.outbox[i] \in Command
    BY DEF IInv, TypeOK, Database, Commands
  <2>. QED BY <2>1 DEF Command
<1>2. CASE over
  BY <1>2, SoundNow, ExtendsItself, AdvanceAfterStep DEF Recover
<1>3. CASE ~over /\ answered
  <2>1. venue[l].status # "NONE" /\ phase = "ready"
    BY <1>3 DEF Recover
  <2>2. AdvanceAfter(Answer(db, l, venue[l]), i)
    BY <1>3 DEF Recover
  <2>3. UNCHANGED <<expired, world, stream, gap, phase, result, submitted, faults>>
    BY DEF Recover
  <2>. HIDE DEF l
  <2>4. Sound(Answer(db, l, venue[l]), venue, wire, submitted) /\ Extends(db, Answer(db, l, venue[l]))
    BY <1>1, <2>1, SoundNow, VenueAnswers, AnswerSound
  <2>. QED BY <2>1, <2>2, <2>3, <2>4, AdvanceAfterStep
<1>4. CASE ~over /\ ~answered
  <2>1. /\ db' = [db EXCEPT !.outbox = WithStatus(db.outbox, i, "FAILED"),
                            !.intent = "RECOVERY_REQUIRED"]
        /\ stale' = stale \ {i} /\ fresh' = fresh /\ phase = "ready"
        /\ UNCHANGED <<expired, world, stream, gap, phase, result, submitted, faults>>
    BY <1>4 DEF Recover, WithStatus
  <2>2. WithStatus(db.outbox, i, "FAILED") \in Seq(Command)
    BY <1>1, RowType DEF OutboxStatus
  <2>3. /\ db' \in Database /\ db'.outbox = WithStatus(db.outbox, i, "FAILED")
        /\ db'.qty = db.qty /\ db'.order = db.order /\ db'.leg = db.leg
        /\ db'.intent = "RECOVERY_REQUIRED"
    BY <1>1, <2>1, <2>2 DEF Database
  <2>4. Whole(db', venue) /\ OverKnows(db', venue, wire)
    BY <2>3 DEF Whole, OverKnows, Over
  <2>5. Sound(db', venue, wire, submitted) /\ Extends(db, db')
    BY <2>3, <2>4, SoundNow, RowSound DEF OutboxStatus
  <2>. QED
    BY <2>1, <2>4, <2>5, Ready, CommitsMore DEF stream, IInv, TypeOK
<1>. QED BY <1>2, <1>3, <1>4

(* A cancellation is sent to the venue.                                    *)
LEMMA CancelStep == ASSUME IInv, NEW i \in Commands, Cancel(i) PROVE IInv'
<1>1. /\ db \in Database /\ db.order \in [Legs -> OrderRow] /\ db.order[Maker] \in OrderRow
      /\ db.outbox \in Seq(Command)
  BY Roles DEF IInv, TypeOK, Database
<1>2. /\ phase = "ready" /\ phase' = "ready" /\ fresh' \subseteq fresh /\ stale' = stale
      /\ UNCHANGED <<expired, world, stream, gap, result, submitted, faults>>
  BY DEF Cancel
<1>3. Sound(db', venue, wire, submitted) /\ OverKnows(db', venue, wire) /\ Extends(db, db')
  <2>1. CASE CancelAccepted(i)
    <3>. DEFINE o == [db.order EXCEPT ![Maker].status = "PENDING_CANCEL"]
                e == [db EXCEPT !.order = o]
    <3>1. /\ o \in [Legs -> OrderRow] /\ o[Maker].status = "PENDING_CANCEL"
          /\ o[Maker].filled = db.order[Maker].filled
          /\ \A m \in Legs : m # Maker => o[m] = db.order[m]
      BY <1>1, Roles DEF OrderRow, OrderStatus
    <3>2. /\ e \in Database /\ e.order = o /\ e.outbox = db.outbox /\ e.qty = db.qty
          /\ e.leg = db.leg /\ e.intent = db.intent /\ e.group = db.group
          /\ e.finished = db.finished
      <4>. HIDE DEF o
      <4>. QED BY <1>1, <3>1 DEF Database
    <3>3. db' = Running([e EXCEPT !.outbox = WithStatus(e.outbox, i, "SENT")])
      <4>1. db' = Running([db EXCEPT !.outbox = WithStatus(db.outbox, i, "SENT"), !.order = o])
        BY <2>1 DEF CancelAccepted, WithStatus
      <4>. HIDE DEF o
      <4>. QED BY <1>1, <3>1, <3>2, <4>1 DEF Database
    <3>. HIDE DEF o, e
    <3>4. db.order[Maker].status # "NONE" /\ submitted[Maker] = 1
      BY <2>1, Roles, VenueAnswers DEF CancelAccepted
    <3>5. \A m \in Legs : e.order[m].filled = db.order[m].filled
      BY <3>1, <3>2
    <3>6. Whole(e, venue)
      BY <3>2 DEF IInv, Sound, Whole
    <3>7. Sound(e, venue, wire, submitted) /\ Extends(db, e)
      <4>1. ASSUME NEW m \in Legs
            PROVE  \/ e.order[m] = db.order[m] /\ e.leg[m] = db.leg[m]
                   \/ /\ db.order[m].status # "NONE" /\ e.order[m].status # "NONE"
                      /\ db.order[m].filled <= e.order[m].filled
                      /\ e.order[m].filled <= venue[m].filled
                      /\ e.leg[m] \notin NonTerminalLegStatuses =>
                             submitted[m] = 1 /\ Known(m, e, venue, wire)
        <5>1. CASE m = Maker
          <6>1. db.order[m].filled <= venue[m].filled /\ db.order[m].filled <= db.order[m].filled
            BY <1>1, <5>1 DEF IInv, Sound, RecordsAreTrue, OrderRow
          <6>2. e.leg[m] \notin NonTerminalLegStatuses =>
                    submitted[m] = 1 /\ Known(m, e, venue, wire)
            BY <3>2, <3>5, <5>1, Roles DEF IInv, Sound, RecordsAreTrue, Known
          <6>. QED BY <3>1, <3>2, <3>4, <3>5, <5>1, <6>1, <6>2
        <5>2. CASE m # Maker
          BY <3>1, <3>2, <5>2
        <5>. QED BY <5>1, <5>2
      <4>. QED BY <3>2, <3>6, <4>1, SoundNow, ReportedSound
    <3>8. /\ db' \in Database /\ db'.outbox = WithStatus(e.outbox, i, "SENT")
          /\ db'.qty = e.qty /\ db'.order = e.order /\ db'.leg = e.leg /\ db'.intent = "RUNNING"
      <4>1. WithStatus(e.outbox, i, "SENT") \in Seq(Command)
        BY <3>2, RowType DEF OutboxStatus
      <4>. QED BY <3>2, <3>3, <4>1 DEF Running, Database
    <3>9. Whole(db', venue) /\ OverKnows(db', venue, wire)
      BY <3>8 DEF Whole, OverKnows, Over
    <3>10. Sound(db', venue, wire, submitted) /\ Extends(e, db')
      <4>1. "SENT" \in OutboxStatus \ {"ABSENT"} /\ "SENT" # "PENDING"
        BY DEF OutboxStatus
      <4>. QED BY <3>7, <3>8, <3>9, <4>1, RowSound
    <3>. QED BY <3>7, <3>9, <3>10, ExtendsTwice
  <2>2. CASE CancelRefused(i)
    <3>1. db' = [db EXCEPT !.outbox = WithStatus(db.outbox, i, "FAILED"),
                           !.intent = "RECOVERY_REQUIRED"]
      BY <2>2 DEF CancelRefused, WithStatus
    <3>2. WithStatus(db.outbox, i, "FAILED") \in Seq(Command)
      BY <1>1, RowType DEF OutboxStatus
    <3>3. /\ db' \in Database /\ db'.outbox = WithStatus(db.outbox, i, "FAILED")
          /\ db'.qty = db.qty /\ db'.order = db.order /\ db'.leg = db.leg
          /\ db'.intent = "RECOVERY_REQUIRED"
      BY <1>1, <3>1, <3>2 DEF Database
    <3>4. Whole(db', venue) /\ OverKnows(db', venue, wire)
      BY <3>3 DEF Whole, OverKnows, Over
    <3>5. "FAILED" \in OutboxStatus \ {"ABSENT"} /\ "FAILED" # "PENDING"
      BY DEF OutboxStatus
    <3>6. Sound(db', venue, wire, submitted) /\ Extends(db, db')
      BY <3>3, <3>4, <3>5, SoundNow, RowSound
    <3>. QED BY <3>4, <3>6
  <2>3. CASE CancelRaises
    <3>1. /\ db' \in Database /\ db'.outbox = db.outbox
          /\ db'.qty = db.qty /\ db'.order = db.order /\ db'.leg = db.leg
          /\ db'.intent = "RECOVERY_REQUIRED"
      BY <1>1, <2>3 DEF CancelRaises, Database
    <3>2. Whole(db', venue) /\ OverKnows(db', venue, wire) /\ Extends(db, db')
      BY <3>1 DEF Whole, OverKnows, Over, Extends
    <3>. QED BY <3>1, <3>2, SoundNow, LabelledSound
  <2>. QED BY <2>1, <2>2, <2>3 DEF Cancel
<1>. QED
  BY <1>2, <1>3, Ready, CommitsMore DEF stream, IInv, TypeOK

(* A cancellation that may have been sent is not sent again: the order is  *)
(* asked for.                                                              *)
LEMMA RecoverCancelStep == ASSUME IInv, NEW i \in Commands, RecoverCancel(i) PROVE IInv'
<1>1. db \in Database
  BY DEF IInv, TypeOK
<1>2. /\ phase = "ready" /\ phase' = "ready"
      /\ UNCHANGED <<expired, world, stream, gap, result, submitted, faults>>
  BY DEF RecoverCancel
<1>3. CASE CancelRaises /\ stale' = stale \ {i} /\ fresh' = fresh
  <2>1. /\ db' \in Database /\ db'.outbox = db.outbox
        /\ db'.qty = db.qty /\ db'.order = db.order /\ db'.leg = db.leg
        /\ db'.intent = "RECOVERY_REQUIRED"
    BY <1>1, <1>3 DEF CancelRaises, Database
  <2>2. Whole(db', venue) /\ OverKnows(db', venue, wire) /\ Extends(db, db')
    BY <2>1 DEF Whole, OverKnows, Over, Extends
  <2>3. Sound(db', venue, wire, submitted)
    BY <2>1, <2>2, SoundNow, LabelledSound
  <2>. QED
    BY <1>2, <1>3, <2>2, <2>3, Ready, CommitsMore DEF stream, IInv, TypeOK
<1>4. CASE /\ venue[Maker].status \in {"FILLED", "CANCELED"}
           /\ AdvanceAfter([Answer(db, Maker, venue[Maker]) EXCEPT !.outbox[i].status = "SENT"], i)
  <2>. DEFINE d == Answer(db, Maker, venue[Maker])
              e == [d EXCEPT !.outbox = WithStatus(d.outbox, i, "SENT")]
  <2>1. AdvanceAfter(e, i)
    BY <1>4 DEF WithStatus
  <2>2. Sound(d, venue, wire, submitted) /\ Extends(db, d)
    BY <1>4, Roles, SoundNow, VenueAnswers, AnswerSound
  <2>. HIDE DEF d
  <2>3. d \in Database
    BY <2>2 DEF Sound, Types
  <2>4. /\ e \in Database /\ e.outbox = WithStatus(d.outbox, i, "SENT")
        /\ e.qty = d.qty /\ e.order = d.order /\ e.leg = d.leg
        /\ e.intent = d.intent /\ e.group = d.group /\ e.finished = d.finished
    <3>1. WithStatus(d.outbox, i, "SENT") \in Seq(Command)
      BY <2>3, RowType DEF OutboxStatus
    <3>. QED BY <2>3, <3>1 DEF Database
  <2>. HIDE DEF e
  <2>5. Whole(e, venue)
    BY <2>2, <2>4 DEF Sound, Whole
  <2>6. Sound(e, venue, wire, submitted) /\ Extends(d, e)
    BY <2>2, <2>4, <2>5, RowSound DEF OutboxStatus
  <2>7. Extends(db, e)
    BY <2>2, <2>6, ExtendsTwice
  <2>. QED BY <1>2, <2>1, <2>6, <2>7, AdvanceAfterStep
<1>. QED BY <1>3, <1>4 DEF RecoverCancel

-----------------------------------------------------------------------------
(* Submission, venues, streams and the process.                            *)

(* What a venue reports is possible for the quantity of the leg.           *)
LEMMA ReportsOfVenues ==
    ASSUME TypeOK, NEW l \in Legs, db.qty[l] > 0, NEW r \in VenueReports(l)
    PROVE  MayReport(db.qty[l], r)
<1>1. db.qty[l] \in 1..Target
  BY MakerAssumption DEF TypeOK, Database
<1>2. r \in Ended(db.qty[l]) \cup Resting(db.qty[l])
  BY DEF VenueReports
<1>3. CASE r \in Ended(db.qty[l])
  BY <1>1, <1>3, MakerAssumption DEF Ended, MayReport, VenueRow, VenueStatus
<1>4. CASE r = Noted("ACCEPTED")
  BY <1>1, <1>4, MakerAssumption DEF Noted, MayReport, VenueRow, VenueStatus
<1>5. CASE r \in {[status |-> "PARTIALLY_FILLED", filled |-> f] : f \in 1..(db.qty[l] - 1)}
  BY <1>1, <1>5, MakerAssumption DEF MayReport, VenueRow, VenueStatus
<1>. QED BY <1>2, <1>3, <1>4, <1>5 DEF Resting

(* The reports under way stay true when the order they are about moves on. *)
LEMMA EmitIsTrue ==
    ASSUME TypeOK, ReportsAreTrue, NEW l \in Legs, NEW r \in VenueRow, r.status # "NONE",
           venue' = [venue EXCEPT ![l] = r], Emit(l, r),
           \A k \in DOMAIN queue[l] :
               queue[l][k].filled <= r.filled /\ queue[l][k].status \notin Settled
    PROVE  queue' \in [Legs -> Seq(VenueRow)] /\ ReportsAreTrue'
<1>1. /\ queue \in [Legs -> Seq(VenueRow)] /\ venue \in [Legs -> VenueRow]
  BY DEF TypeOK
<1>2. /\ venue'[l] = r /\ \A m \in Legs : m # l => venue'[m] = venue[m]
  BY <1>1
<1>3. r.filled \in Nat
  BY MakerAssumption DEF VenueRow
<1>4. CASE queue' = queue
  BY <1>1, <1>2, <1>4 DEF ReportsAreTrue, TrueReport
<1>5. CASE queue' = [queue EXCEPT ![l] = Append(@, r)]
  <2>1. /\ queue' \in [Legs -> Seq(VenueRow)]
        /\ queue'[l] = Append(queue[l], r) /\ \A m \in Legs : m # l => queue'[m] = queue[m]
    BY <1>1, <1>5
  <2>2. /\ DOMAIN queue'[l] = DOMAIN queue[l] \cup {Len(queue[l]) + 1}
        /\ \A k \in DOMAIN queue[l] : queue'[l][k] = queue[l][k]
        /\ queue'[l][Len(queue[l]) + 1] = r
    BY <1>1, <2>1
  <2>3. \A k \in DOMAIN queue'[l] :
            /\ venue'[l].status # "NONE"
            /\ queue'[l][k].status # "NONE" /\ TrueReport(queue'[l][k], venue'[l])
    <3>1. TrueReport(r, r)
      BY <1>3 DEF TrueReport
    <3>. QED BY <1>2, <2>2, <3>1 DEF ReportsAreTrue, TrueReport
  <2>4. \A m \in Legs : m # l => \A k \in DOMAIN queue'[m] :
            /\ venue'[m].status # "NONE"
            /\ queue'[m][k].status # "NONE" /\ TrueReport(queue'[m][k], venue'[m])
    BY <1>2, <2>1 DEF ReportsAreTrue
  <2>. QED BY <2>1, <2>3, <2>4 DEF ReportsAreTrue
<1>. QED BY <1>4, <1>5 DEF Emit

(* As long as an order works nothing that was told of it is final.         *)
LEMMA OutstandingReports ==
    ASSUME IInv, NEW l \in Legs, Working(l, venue, wire), NEW f, venue[l].filled <= f, f \in Nat
    PROVE  /\ \A k \in DOMAIN queue[l] :
                  queue[l][k].filled <= f /\ queue[l][k].status \notin Settled
           /\ TrueReport(result, venue[l]) /\ result.filled \in Nat =>
                  result.filled <= f /\ result.status \notin Settled
<1>1. venue[l].status \notin Settled
  BY DEF IInv, Sound, AtVenues, Working, Settled
<1>2. venue[l] \in VenueRow /\ queue[l] \in Seq(VenueRow)
  BY DEF IInv, TypeOK
<1>3. venue[l].filled \in Nat
  BY <1>2, MakerAssumption DEF VenueRow
<1>4. ASSUME NEW k \in DOMAIN queue[l]
      PROVE  queue[l][k].filled <= f /\ queue[l][k].status \notin Settled
  <2>1. queue[l][k] \in VenueRow
    BY <1>2
  <2>2. queue[l][k].filled \in Nat
    BY <2>1, MakerAssumption DEF VenueRow
  <2>3. TrueReport(queue[l][k], venue[l])
    BY DEF IInv, ReportsAreTrue
  <2>. QED BY <1>1, <1>3, <2>2, <2>3 DEF TrueReport
<1>. QED BY <1>1, <1>3, <1>4 DEF TrueReport

(* An order at a venue, or on its way to it, moves on by itself.           *)
LEMMA WorldStep ==
    ASSUME IInv, NEW l \in Legs, NEW r, MayReport(db.qty[l], r),
           Working(l, venue, wire), venue[l].filled <= r.filled,
           venue' = [venue EXCEPT ![l] = r], wire' = wire \ {l}, Emit(l, r),
           UNCHANGED <<db, expired, online, ever, gap, worker, submitted, faults>>
    PROVE  IInv'
<1>1. /\ db' = db /\ phase' = phase /\ fresh' = fresh /\ stale' = stale /\ result' = result
      /\ submitted' = submitted /\ expired' = expired /\ online' = online /\ ever' = ever
      /\ gap' = gap /\ crashes' = crashes /\ drops' = drops /\ unanswered' = unanswered
  BY DEF worker, faults
<1>2. r \in VenueRow /\ r.status # "NONE" /\ r.filled \in Nat
  BY MakerAssumption DEF MayReport, VenueRow
<1>3. /\ Sound(db, venue', wire', submitted) /\ OverKnows(db, venue', wire')
  BY SoundNow, MoveSound
<1>4. Sound(db', venue', wire', submitted') /\ OverKnows(db', venue', wire')
  BY <1>1, <1>3
<1>5. \A k \in DOMAIN queue[l] :
          queue[l][k].filled <= r.filled /\ queue[l][k].status \notin Settled
  BY <1>2, OutstandingReports
<1>6. queue' \in [Legs -> Seq(VenueRow)] /\ ReportsAreTrue'
  BY <1>2, <1>5, EmitIsTrue DEF IInv
<1>7. TypeOK'
  <2>1. venue' \in [Legs -> VenueRow] /\ wire' \subseteq Legs
    BY <1>4 DEF Sound, Types
  <2>. QED BY <1>1, <1>6, <2>1 DEF IInv, TypeOK
<1>8. \A i : InFlight(i)' <=> InFlight(i)
  BY <1>1 DEF InFlight
<1>9. FreshIsUnsent' /\ InFlightIsRecorded'
  BY <1>1, <1>8 DEF IInv, FreshIsUnsent, InFlightIsRecorded
<1>10. ResultIsTrue'
  <2>. SUFFICES ASSUME phase = "sent", NEW i \in fresh, InFlight(i)
                PROVE  LET m == db.outbox[i].leg IN
                       /\ result.status \notin {"NONE", "INITIALIZED", "PENDING_CANCEL"}
                       /\ TrueReport(result, venue'[m])
                       /\ result.status = "REJECTED" => venue'[m].status = "NONE" /\ m \notin wire'
    BY <1>1, <1>8 DEF ResultIsTrue
  <2>. DEFINE m == db.outbox[i].leg
  <2>1. /\ result.status \notin {"NONE", "INITIALIZED", "PENDING_CANCEL"}
        /\ TrueReport(result, venue[m])
        /\ result.status = "REJECTED" => venue[m].status = "NONE" /\ m \notin wire
    BY DEF IInv, ResultIsTrue
  <2>2. m \in Legs
    <3>1. db.outbox[i] \in Command
      BY DEF IInv, TypeOK, Database
    <3>. QED BY <3>1 DEF Command
  <2>. HIDE DEF m
  <2>3. CASE m = l
    <3>1. result.filled \in Nat
      BY MakerAssumption DEF IInv, TypeOK, OrderRow
    <3>2. result.filled <= r.filled /\ result.status \notin Settled
      BY <1>2, <2>1, <2>3, <3>1, OutstandingReports
    <3>3. venue'[m] = r
      BY <2>3 DEF IInv, TypeOK
    <3>4. result.status # "REJECTED"
      BY <2>1, <2>3 DEF Working
    <3>. QED BY <2>1, <3>2, <3>3, <3>4 DEF TrueReport, m
  <2>4. CASE m # l
    <3>1. venue'[m] = venue[m] /\ (m \in wire' <=> m \in wire)
      BY <2>2, <2>4 DEF IInv, TypeOK
    <3>. QED BY <2>1, <3>1 DEF m
  <2>. QED BY <2>3, <2>4
<1>. QED BY <1>4, <1>6, <1>7, <1>9, <1>10 DEF IInv

(* A venue fills or ends an order it works on.                             *)
LEMMA VenueProgressStep == ASSUME IInv, VenueProgress PROVE IInv'
<1>1. PICK r \in VenueReports(Maker) :
          /\ IF r.status = "CANCELED" THEN r.filled = venue[Maker].filled
                                      ELSE r.filled > venue[Maker].filled
          /\ VenueMoves(Maker, r)
  BY DEF VenueProgress
<1>2. MayReport(db.qty[Maker], r)
  <2>1. db.qty[Maker] > 0
    BY MakerAssumption DEF IInv, Sound, Planned
  <2>. QED BY <2>1, Roles, ReportsOfVenues DEF IInv
<1>3. Working(Maker, venue, wire)
  BY DEF VenueProgress, Working
<1>4. wire' = wire \ {Maker}
  <2>1. Maker \notin wire
    BY Roles DEF VenueProgress, IInv, Sound, AtVenues
  <2>. QED BY <2>1 DEF VenueProgress
<1>5. venue[Maker].filled <= r.filled
  <2>1. venue[Maker].filled \in Nat /\ r.filled \in Nat
    BY <1>2, Roles, MakerAssumption DEF IInv, TypeOK, VenueRow, MayReport
  <2>. QED BY <1>1, <2>1
<1>. QED
  BY <1>1, <1>2, <1>3, <1>4, <1>5, Roles, WorldStep DEF VenueProgress, VenueMoves

(* A submission that timed out arrives.                                    *)
LEMMA ArriveStep == ASSUME IInv, NEW l \in Legs, Arrive(l) PROVE IInv'
<1>1. PICK r \in VenueReports(l) : VenueMoves(l, r)
  BY DEF Arrive
<1>2. MayReport(db.qty[l], r)
  <2>1. db.qty[l] \in 0..Target
    BY DEF IInv, TypeOK, Database
  <2>2. submitted[l] = 1
    BY DEF Arrive, IInv, Sound, AtVenues
  <2>3. db.qty[l] > 0
    BY <2>1, <2>2, MakerAssumption DEF IInv, Sound, OrderFirst
  <2>. QED BY <2>3, ReportsOfVenues DEF IInv
<1>3. Working(l, venue, wire) /\ wire' = wire \ {l}
  BY DEF Arrive, Working
<1>4. venue[l].filled <= r.filled
  <2>1. venue[l].filled = 0
    BY DEF Arrive, IInv, Sound, AtVenues
  <2>2. r.filled \in Nat
    BY <1>2, MakerAssumption DEF VenueRow, MayReport
  <2>. QED BY <2>1, <2>2
<1>. QED
  BY <1>1, <1>2, <1>3, <1>4, WorldStep DEF Arrive, VenueMoves

(* The call in its thread: acknowledged, rejected, answer lost, or timed   *)
(* out.                                                                    *)
LEMMA SubmitStep == ASSUME IInv, NEW i \in Commands, Submit(i) PROVE IInv'
<1>. DEFINE l == db.outbox[i].leg
<1>1. phase = "sending" /\ phase' = "sent" /\ AtHand(i, fresh, "SUBMIT")
  BY DEF Submit
<1>2. /\ i \in fresh /\ l \in Legs /\ InFlight(i) /\ \A j \in fresh \ {i} : ~InFlight(j)
      /\ db.qty[l] > 0
  BY <1>1, AtHandFacts DEF AtHand
<1>3. /\ db.intent = "RUNNING" /\ db.order[l].status # "NONE"
      /\ db.leg[l] \in NonTerminalLegStatuses /\ submitted[l] = 0
  BY <1>1, <1>2 DEF IInv, InFlightIsRecorded
<1>4. /\ db' = db /\ fresh' = fresh /\ stale' = stale /\ expired' = expired /\ gap' = gap
      /\ crashes' = crashes /\ drops' = drops /\ submitted' = [submitted EXCEPT ![l] = @ + 1]
      /\ unanswered' = unanswered + (IF result'.status = "UNKNOWN" THEN 1 ELSE 0)
      /\ unanswered' <= MaxUnanswered
  BY DEF Submit
<1>5. \/ \E report \in VenueReports(l) :
             /\ VenueMoves(l, report) /\ UNCHANGED wire
             /\ result' \in {report, Noted("ACCEPTED"), Noted("UNKNOWN")}
      \/ result' = Noted("REJECTED") /\ UNCHANGED <<world, stream>>
      \/ /\ result' = Noted("UNKNOWN") /\ wire' = wire \cup {l}
         /\ UNCHANGED <<venue, stream>>
  BY DEF Submit
<1>. HIDE DEF l
<1>6. venue[l].status = "NONE" /\ venue[l].filled = 0 /\ l \notin wire
  BY <1>2, <1>3 DEF IInv, Sound, AtVenues
<1>7. queue[l] = << >>
  <2>1. queue[l] \in Seq(VenueRow)
    BY <1>2 DEF IInv, TypeOK
  <2>2. DOMAIN queue[l] = {}
    BY <1>2, <1>6 DEF IInv, ReportsAreTrue
  <2>3. Len(queue[l]) = 0
    <3>1. DOMAIN queue[l] = 1..Len(queue[l]) /\ Len(queue[l]) \in Nat
      BY <2>1
    <3>2. Len(queue[l]) # 0 => 1 \in 1..Len(queue[l])
      BY <3>1
    <3>. QED BY <2>2, <3>1, <3>2
  <2>. QED BY <2>1, <2>3
<1>8. submitted' = [submitted EXCEPT ![l] = 1] /\ submitted' \in [Legs -> Nat] /\ submitted'[l] = 1
  BY <1>2, <1>3, <1>4 DEF IInv, TypeOK
<1>9. OverKnows(db', venue', wire')
  BY <1>3, <1>4 DEF OverKnows, Over
<1>10. \A j : InFlight(j)' <=> InFlight(j)
  BY <1>1, <1>4 DEF InFlight
<1>11. FreshIsUnsent' /\ InFlightIsRecorded'
  <2>1. \A j \in fresh : InFlight(j)' => j = i
    BY <1>2, <1>10
  <2>2. FreshIsUnsent'
    BY <1>4, <1>10 DEF IInv, FreshIsUnsent
  <2>. QED BY <1>1, <1>3, <1>4, <1>8, <2>1, <2>2 DEF InFlightIsRecorded, l
<1>12. \A s \in {"ACCEPTED", "UNKNOWN", "REJECTED"} : Noted(s) \in OrderRow
  BY MakerAssumption DEF Noted, OrderRow, OrderStatus, VenueStatus
<1>13. unanswered' \in 0..MaxUnanswered
  BY <1>4, MakerAssumption DEF IInv, TypeOK
<1>14. ASSUME NEW report \in VenueReports(l), VenueMoves(l, report), wire' = wire,
              result' \in {report, Noted("ACCEPTED"), Noted("UNKNOWN")}
       PROVE  IInv'
  <2>1. MayReport(db.qty[l], report)
    BY <1>2, ReportsOfVenues DEF IInv
  <2>2. report \in VenueRow /\ report.status # "NONE" /\ report.filled \in Nat
    BY <2>1, MakerAssumption DEF MayReport, VenueRow
  <2>3. /\ venue' = [venue EXCEPT ![l] = report] /\ Emit(l, report)
        /\ online' = online /\ ever' = ever
    BY <1>14 DEF VenueMoves
  <2>4. Sound(db', venue', wire', submitted')
    <3>1. Sound(db, venue, wire \cup {l}, submitted')
      BY <1>2, <1>3, <1>8, SoundNow, SentSound
    <3>2. Working(l, venue, wire \cup {l}) /\ venue[l].filled <= report.filled
      BY <1>6, <2>2 DEF Working
    <3>3. Sound(db, venue', (wire \cup {l}) \ {l}, submitted')
      BY <1>2, <2>1, <2>3, <3>1, <3>2, MoveSound
    <3>4. (wire \cup {l}) \ {l} = wire'
      BY <1>6, <1>14
    <3>. QED BY <1>4, <3>3, <3>4
  <2>5. queue' \in [Legs -> Seq(VenueRow)] /\ ReportsAreTrue'
    <3>1. DOMAIN queue[l] = {}
      BY <1>7
    <3>. QED BY <1>2, <2>2, <2>3, <3>1, EmitIsTrue DEF IInv
  <2>6. /\ result' \in OrderRow /\ TrueReport(result', venue'[l])
        /\ result'.status \notin {"NONE", "INITIALIZED", "PENDING_CANCEL", "REJECTED"}
    <3>1. venue'[l] = report
      BY <1>2, <2>3 DEF IInv, TypeOK
    <3>2. CASE result' = report
      BY <2>2, <3>1, <3>2 DEF TrueReport, VenueRow, OrderRow, VenueStatus, OrderStatus
    <3>3. CASE result' = Noted("ACCEPTED") \/ result' = Noted("UNKNOWN")
      BY <1>12, <2>2, <3>1, <3>3 DEF TrueReport, Noted, Settled
    <3>. QED BY <1>14, <3>2, <3>3
  <2>7. TypeOK'
    <3>1. venue' \in [Legs -> VenueRow] /\ wire' \subseteq Legs
      BY <2>4 DEF Sound, Types
    <3>. QED BY <1>1, <1>4, <1>8, <1>13, <2>3, <2>5, <2>6, <3>1 DEF IInv, TypeOK
  <2>8. ResultIsTrue'
    BY <1>2, <1>4, <1>10, <2>6 DEF ResultIsTrue, l
  <2>. QED BY <1>9, <1>11, <2>4, <2>5, <2>7, <2>8 DEF IInv
<1>15. ASSUME NEW on \in SUBSET {l}, wire' = wire \cup on, venue' = venue, UNCHANGED stream,
              result' \in {Noted("REJECTED"), Noted("UNKNOWN")},
              result' = Noted("REJECTED") => on = {}
       PROVE  IInv'
  <2>1. /\ queue' = queue /\ online' = online /\ ever' = ever
    BY <1>15 DEF stream
  <2>2. Sound(db', venue', wire', submitted')
    <3>1. Sound(db, venue, wire \cup on, [submitted EXCEPT ![l] = 1])
      BY <1>2, <1>3, SoundNow, SentSound
    <3>. QED BY <1>4, <1>8, <1>15, <3>1
  <2>3. ReportsAreTrue'
    BY <1>15, <2>1 DEF IInv, ReportsAreTrue
  <2>4. /\ result' \in OrderRow /\ TrueReport(result', venue'[l])
        /\ result'.status \notin {"NONE", "INITIALIZED", "PENDING_CANCEL"}
        /\ result'.status = "REJECTED" => on = {}
    BY <1>6, <1>12, <1>15 DEF TrueReport, Noted, Settled
  <2>5. TypeOK'
    <3>1. venue' \in [Legs -> VenueRow] /\ wire' \subseteq Legs
      BY <2>2 DEF Sound, Types
    <3>. QED BY <1>1, <1>4, <1>8, <1>13, <2>1, <2>4, <3>1 DEF IInv, TypeOK
  <2>6. ResultIsTrue'
    <3>1. result'.status = "REJECTED" => venue'[l].status = "NONE" /\ l \notin wire'
      BY <1>6, <1>15, <2>4
    <3>. QED BY <1>2, <1>4, <1>10, <2>4, <3>1 DEF ResultIsTrue, l
  <2>. QED BY <1>9, <1>11, <2>2, <2>3, <2>5, <2>6 DEF IInv
<1>16. CASE result' = Noted("REJECTED") /\ UNCHANGED <<world, stream>>
  <2>1. {} \in SUBSET {l} /\ wire' = wire \cup {} /\ venue' = venue
    BY <1>16 DEF world
  <2>. QED BY <1>15, <1>16, <2>1
<1>17. CASE /\ result' = Noted("UNKNOWN") /\ wire' = wire \cup {l}
            /\ UNCHANGED <<venue, stream>>
  <2>1. {l} \in SUBSET {l} /\ Noted("UNKNOWN") # Noted("REJECTED")
    BY DEF Noted
  <2>. QED BY <1>15, <1>17, <2>1
<1>. QED BY <1>5, <1>14, <1>16, <1>17

(* Steps that touch neither the database nor the venues.                   *)
LEMMA QuietStep ==
    ASSUME IInv, UNCHANGED <<db, world, submitted>>, TypeOK',
           \/ queue' = queue /\ UNCHANGED worker
           \/ queue' = NoReports /\ phase' = "starting" /\ fresh' = {}
    PROVE  IInv'
<1>1. Sound(db', venue', wire', submitted') /\ OverKnows(db', venue', wire')
  BY SoundNow DEF world
<1>2. CASE queue' = queue /\ UNCHANGED worker
  <2>1. \A i : InFlight(i)' <=> InFlight(i)
    BY <1>2 DEF InFlight, worker
  <2>2. ReportsAreTrue' /\ FreshIsUnsent' /\ InFlightIsRecorded' /\ ResultIsTrue'
    BY <1>2, <2>1
       DEF IInv, ReportsAreTrue, FreshIsUnsent, InFlightIsRecorded, ResultIsTrue, worker, world
  <2>. QED BY <1>1, <2>2 DEF IInv
<1>3. CASE queue' = NoReports /\ phase' = "starting" /\ fresh' = {}
  <2>1. ReportsAreTrue' /\ FreshIsUnsent' /\ InFlightIsRecorded' /\ ResultIsTrue'
    BY <1>3
       DEF ReportsAreTrue, FreshIsUnsent, InFlightIsRecorded, ResultIsTrue, NoReports
  <2>. QED BY <1>1, <2>1 DEF IInv
<1>. QED BY <1>2, <1>3

(* Time, crashes and streams leave books and venues as they are.           *)
LEMMA EnvironmentStep ==
    ASSUME IInv, \/ TimeToLiveEnds \/ Crash
                 \/ \E v \in Venues : Connect(v) \/ Disconnect(v)
    PROVE  IInv'
<1>0. /\ TypeOK /\ NoReport \in OrderRow /\ NoReports \in [Legs -> Seq(VenueRow)]
      /\ {} \subseteq DOMAIN db.outbox
  BY MakerAssumption
     DEF IInv, NoReport, NoReports, Noted, OrderRow, OrderStatus, VenueStatus
<1>1. CASE TimeToLiveEnds
  <2>1. TypeOK'
    BY <1>0, <1>1 DEF TimeToLiveEnds, TypeOK, world, stream, worker, faults
  <2>. QED BY <1>1, <2>1, QuietStep DEF TimeToLiveEnds, stream
<1>2. CASE Crash
  <2>1. TypeOK'
    <3>1. crashes' \in 0..MaxCrashes
      BY <1>0, <1>2, MakerAssumption DEF Crash, TypeOK
    <3>2. queue' \in [Legs -> Seq(VenueRow)]
      BY <1>0, <1>2 DEF Crash, NoReports
    <3>3. result' \in OrderRow
      BY <1>0, <1>2 DEF Crash
    <3>. QED BY <1>0, <1>2, <3>1, <3>2, <3>3 DEF Crash, TypeOK, world
  <2>. QED BY <1>2, <2>1, QuietStep DEF Crash, NoReports
<1>3. ASSUME NEW v \in Venues, Connect(v) PROVE IInv'
  <2>1. TypeOK'
    BY <1>0, <1>3 DEF Connect, TypeOK, world, worker, faults
  <2>. QED BY <1>3, <2>1, QuietStep DEF Connect
<1>4. ASSUME NEW v \in Venues, Disconnect(v) PROVE IInv'
  <2>1. TypeOK'
    BY <1>0, <1>4, MakerAssumption DEF Disconnect, TypeOK, world, worker
  <2>. QED BY <1>4, <2>1, QuietStep DEF Disconnect
<1>. QED BY <1>1, <1>2, <1>3, <1>4

-----------------------------------------------------------------------------
(* At the start only the maker leg exists, and nothing was sent.           *)
LEMMA InitIInv == Init => IInv
<1>. SUFFICES ASSUME Init PROVE IInv
  OBVIOUS
<1>1. /\ Legs # {} /\ Pending("SUBMIT", Maker) \in Command
      /\ Pending("SUBMIT", Maker) = [kind |-> "SUBMIT", leg |-> Maker, status |-> "PENDING"]
      /\ NoReport \in OrderRow /\ NoReport \in VenueRow
      /\ NoReport.status = "NONE" /\ NoReport.filled = 0
  BY Roles, MakerAssumption DEF Pending, Command, OutboxStatus, NoReport, Noted, OrderRow,
     VenueRow, OrderStatus, VenueStatus
<1>2. /\ db.outbox = <<Pending("SUBMIT", Maker)>>
      /\ db.order = [l \in Legs |-> NoReport] /\ db.leg = [l \in Legs |-> "PLANNED"]
      /\ db.qty = [l \in Legs |-> IF l = Maker THEN Target ELSE 0]
      /\ db.intent = "CREATED" /\ db.finished = FALSE
  BY DEF Init
<1>3. /\ db.outbox \in Seq(Command) /\ DOMAIN db.outbox = {1}
      /\ db.outbox[1] = Pending("SUBMIT", Maker)
  BY <1>1, <1>2
<1>4. /\ db.qty \in [Legs -> 0..Target] /\ db.leg \in [Legs -> LegStatus]
      /\ db.order \in [Legs -> OrderRow]
  BY <1>1, <1>2, MakerAssumption DEF LegStatus
<1>5. db \in Database
  BY <1>3, <1>4 DEF Init, Database, GroupStatus
<1>6. /\ venue \in [Legs -> VenueRow] /\ submitted \in [Legs -> Nat] /\ wire = {}
      /\ queue \in [Legs -> Seq(VenueRow)]
      /\ \A l \in Legs : /\ venue[l].status = "NONE" /\ venue[l].filled = 0
                         /\ submitted[l] = 0 /\ queue[l] = << >>
                         /\ db.order[l].status = "NONE" /\ db.order[l].filled = 0
                         /\ db.leg[l] = "PLANNED" /\ db.qty[l] = IF l = Maker THEN Target ELSE 0
  BY <1>1, <1>2 DEF Init
<1>7. TypeOK
  <2>1. /\ phase = "ready" /\ fresh = {} /\ stale = {} /\ result = NoReport
        /\ online = Venues /\ ever = Venues /\ gap = FALSE /\ expired = FALSE
        /\ crashes = 0 /\ drops = 0 /\ unanswered = 0
    BY DEF Init
  <2>2. 0 \in 0..MaxCrashes /\ 0 \in 0..MaxDrops /\ 0 \in 0..MaxUnanswered
    BY MakerAssumption
  <2>. QED BY <1>1, <1>5, <1>6, <2>1, <2>2 DEF TypeOK
<1>8. Planned(db)
  <2>1. \A l \in HedgeLegs : db.qty[l] = 0
    BY <1>6, Roles
  <2>2. OfHedges(db.qty) = 0
    BY <2>1, SumOfNothing
  <2>3. \A k \in 1..Target : db.qty[<<"HEDGE", k>>] = 0
    BY <2>1, HedgeIsLeg
  <2>4. 0 \in 0..Target /\ \A k \in 1..Target : db.qty[<<"HEDGE", k>>] > 0 <=> k <= 0
    BY <2>3, MakerAssumption
  <2>5. db.qty[Maker] = Target
    BY <1>6, Roles
  <2>. QED BY <2>2, <2>4, <2>5 DEF Planned
<1>9. OneCommand(db)
  BY <1>1, <1>3, <1>6, Roles, MakerAssumption DEF OneCommand
<1>10. OrderFirst(db, submitted)
  BY <1>6 DEF OrderFirst
<1>11. UnsentFirst(db)
  BY <1>1, <1>3, <1>6, Roles DEF UnsentFirst
<1>12. RecordsAreTrue(db, venue, wire, submitted)
  BY <1>6 DEF RecordsAreTrue, NonTerminalLegStatuses
<1>13. FallbackCovers(db, venue, wire, submitted)
  BY <1>6, Roles DEF FallbackCovers
<1>14. Covered(db, venue)
  <2>1. OfHedges(db.qty) = 0
    BY <1>6, Roles, SumOfNothing
  <2>2. \A l \in Legs : venue[l].filled \in Nat
    BY <1>6
  <2>3. OfMakers(Fills(venue)) \in Nat
    BY <2>2, FillsType
  <2>. QED BY <2>1, <2>3 DEF Covered
<1>15. Whole(db, venue) /\ OverKnows(db, venue, wire)
  BY <1>2 DEF Whole, OverKnows, Over
<1>16. AtVenues(db.qty, venue, wire, submitted)
  BY <1>6, MakerAssumption DEF AtVenues
<1>17. Sound(db, venue, wire, submitted)
  BY <1>5, <1>6, <1>8, <1>9, <1>10, <1>11, <1>12, <1>13, <1>14, <1>15, <1>16 DEF Sound, Types
<1>18. ReportsAreTrue
  BY <1>6 DEF ReportsAreTrue
<1>19. FreshIsUnsent /\ InFlightIsRecorded /\ ResultIsTrue
  BY DEF Init, FreshIsUnsent, InFlightIsRecorded, ResultIsTrue
<1>. QED BY <1>7, <1>15, <1>17, <1>18, <1>19 DEF IInv

(* No step of the worker, the venues or the failures disturbs the          *)
(* invariant.                                                              *)
LEMMA NextIInv == IInv /\ [Next]_vars => IInv'
<1>. SUFFICES ASSUME IInv, [Next]_vars PROVE IInv'
  OBVIOUS
<1>1. ASSUME NEW l \in Legs, Arrive(l) PROVE IInv'
  BY <1>1, ArriveStep
<1>2. CASE VenueProgress
  BY <1>2, VenueProgressStep
<1>3. CASE Project
  BY <1>3, ProjectStep
<1>4. CASE Timer
  BY <1>4, TimerStep
<1>5. CASE RollBackStale
  BY <1>5, RollBackStep
<1>6. CASE TimeToLiveEnds \/ Crash \/ \E v \in Venues : Connect(v) \/ Disconnect(v)
  BY <1>6, EnvironmentStep
<1>7. ASSUME NEW i \in Commands, RequeueUnsent(i) PROVE IInv'
  BY <1>7, RequeueStep
<1>8. ASSUME NEW i \in Commands, ProcessClaim(i) PROVE IInv'
  <2>1. ASSUME NEW answered \in BOOLEAN, Recover(i, answered) PROVE IInv'
    BY <2>1, RecoverStep
  <2>. QED
    BY <1>8, <2>1, DeferStep, DispatchStep, SubmitStep, RecordStep, CancelStep, RecoverCancelStep
       DEF ProcessClaim
<1>9. ASSUME NEW P \in SUBSET Commands, Claim(P) PROVE IInv'
  BY <1>9, ClaimStep
<1>10. ASSUME NEW S \in SUBSET Legs, Start(S) PROVE IInv'
  BY <1>10, StartStep
<1>11. ASSUME NEW S \in SUBSET Legs, Reconcile(S) PROVE IInv'
  BY <1>11, ReconcileStep
<1>12. CASE UNCHANGED vars
  <2>1. /\ UNCHANGED <<db, expired, venue, wire, queue, online, ever, gap, phase, fresh, stale>>
        /\ UNCHANGED <<result, submitted, crashes, drops, unanswered>>
    BY <1>12 DEF vars, world, stream, worker, faults
  <2>2. TypeOK'
    BY <2>1 DEF IInv, TypeOK
  <2>. QED BY <2>1, <2>2, QuietStep DEF world, worker
<1>. QED
  BY <1>1, <1>2, <1>3, <1>4, <1>5, <1>6, <1>7, <1>8, <1>9, <1>10, <1>11, <1>12 DEF Next

(* What the database says of the legs is true of the venues.               *)
THEOREM MakerInvariance == Spec => []IInv
<1>. QED BY InitIInv, NextIInv, PTL DEF Spec

(* Every variable keeps its type, for any number of legs.                  *)
THEOREM MakerTypeCorrect == Spec => []TypeOK
<1>1. IInv => TypeOK
  BY DEF IInv
<1>. QED BY <1>1, MakerInvariance, PTL

(* No leg is submitted twice, whatever crashes, times out or is requeued.  *)
THEOREM SentAtMostOnce == Spec => []SubmittedOnce
<1>1. IInv => SubmittedOnce
  BY DEF IInv, Sound, AtVenues, SubmittedOnce
<1>. QED BY <1>1, MakerInvariance, PTL

(* The hedges asked for never exceed what the maker venue has filled.      *)
THEOREM HedgesFollow == Spec => []HedgeFollowsMaker
<1>1. IInv => HedgeFollowsMaker
  BY DEF IInv, Sound, Covered, HedgeFollowsMaker
<1>. QED BY <1>1, MakerInvariance, PTL

(* The market order exists only after the maker order has ended.           *)
THEOREM FallbackIsLast == Spec => []FallbackAfterMaker
<1>1. IInv => FallbackAfterMaker
  BY DEF IInv, Sound, FallbackCovers, Known, Working, FallbackAfterMaker, MayStillFill
<1>. QED BY <1>1, MakerInvariance, PTL

(* Maker and market order together never fill more than the target.        *)
THEOREM NeverOverfilled == Spec => []NoOverfill
<1>1. IInv => NoOverfill
  BY SoundNow, Bounds DEF NoOverfill
<1>. QED BY <1>1, MakerInvariance, PTL

(* An intent that is over has each known lot hedged or given back, and,    *)
(* unless it gave back, leaves no order working and no lot unhedged.       *)
THEOREM OverIsMatched == Spec => []OverMeansMatched
<1>1. IInv => OverMeansMatched
  BY DEF IInv, OverKnows, Known, Working, OverMeansMatched, MayStillFill
<1>. QED BY <1>1, MakerInvariance, PTL

(* A group is reported whole only when the hedge venue filled the target.  *)
THEOREM WholeIsHedged == Spec => []WholeMeansWhole
<1>1. IInv => WholeMeansWhole
  BY DEF IInv, Sound, Whole, WholeMeansWhole
<1>. QED BY <1>1, MakerInvariance, PTL

-----------------------------------------------------------------------------
(* No step but the projection and a crash takes a report from the queue.   *)
LEMMA QueueKept ==
    ASSUME IInv, [Next]_vars, NEW l \in Legs, queue[l] # << >>, queue'[l] = << >>
    PROVE  Project \/ phase' = "starting"
<1>1. queue \in [Legs -> Seq(VenueRow)] /\ queue[l] \in Seq(VenueRow)
  BY DEF IInv, TypeOK
<1>2. queue' # queue
  OBVIOUS
<1>3. ASSUME NEW m \in Legs, NEW r, VenueMoves(m, r) PROVE FALSE
  <2>1. queue' = [queue EXCEPT ![m] = Append(@, r)]
    BY <1>2, <1>3 DEF VenueMoves, Emit
  <2>2. CASE m = l
    <3>1. queue'[l] = Append(queue[l], r)
      BY <1>1, <2>1, <2>2
    <3>2. Len(queue'[l]) = Len(queue[l]) + 1 /\ Len(queue[l]) \in Nat
      BY <1>1, <3>1
    <3>. QED BY <3>2
  <2>3. CASE m # l
    BY <1>1, <2>1, <2>3
  <2>. QED BY <2>2, <2>3
<1>4. ASSUME NEW m \in Legs, Arrive(m) PROVE FALSE
  BY <1>3, <1>4 DEF Arrive
<1>5. ~ VenueProgress
  BY <1>3, Roles DEF VenueProgress
<1>6. ASSUME NEW i \in Commands, Submit(i) PROVE FALSE
  <2>1. db.outbox[i] \in Command
    BY DEF IInv, TypeOK, Database, Commands
  <2>2. db.outbox[i].leg \in Legs
    BY <2>1 DEF Command
  <2>. QED BY <1>2, <1>3, <1>6, <2>2 DEF Submit, stream
<1>7. ASSUME NEW i \in Commands, ProcessClaim(i) PROVE FALSE
  BY <1>2, <1>6, <1>7 DEF ProcessClaim, Defer, Dispatch, Record, Recover, Cancel, RecoverCancel, stream
<1>8. ASSUME NEW i \in Commands, RequeueUnsent(i) PROVE FALSE
  BY <1>2, <1>8 DEF RequeueUnsent, stream
<1>9. ~ Timer /\ ~ RollBackStale /\ ~ TimeToLiveEnds
  BY <1>2 DEF Timer, RollBackStale, TimeToLiveEnds, stream
<1>10. ASSUME NEW P \in SUBSET Commands, Claim(P) PROVE FALSE
  BY <1>2, <1>10 DEF Claim, stream
<1>11. ASSUME NEW S \in SUBSET Legs, Start(S) \/ Reconcile(S) PROVE FALSE
  BY <1>2, <1>11 DEF Start, Reconcile, stream
<1>12. ASSUME NEW v \in Venues, Connect(v) \/ Disconnect(v) PROVE FALSE
  BY <1>2, <1>12 DEF Connect, Disconnect
<1>13. Crash => phase' = "starting"
  BY DEF Crash
<1>14. ~ UNCHANGED vars
  BY <1>2 DEF vars, stream
<1>. QED
  BY <1>4, <1>5, <1>7, <1>8, <1>9, <1>10, <1>11, <1>12, <1>13, <1>14 DEF Next

(* A report the worker has read is on disk: the intent was not over, or    *)
(* knew the fill already.                                                  *)
THEOREM ReportsAreKept == Spec => FillsAreRecorded
<1>1. ASSUME IInv, [Next]_vars, phase' # "starting", db.qty[Compensation] = 0,
             NEW l \in Legs, queue[l] # << >>, queue'[l] = << >>
      PROVE  db'.order[l].filled >= Last(queue[l]).filled
  <2>1. Project
    BY <1>1, QueueKept
  <2>2. db' = IF Raises(Seen) THEN db ELSE Advance(Seen, LastCommand(db))
    BY <2>1 DEF Project, Seen
  <2>3. Seen.order[l].filled >= Last(queue[l]).filled /\ Seen.order[l].filled <= venue[l].filled
        /\ Sound(Seen, venue, wire, submitted) /\ Seen.intent = db.intent
    BY <1>1, SeenSound
  <2>4. CASE Raises(Seen)
    <3>1. Over(db.intent)
      BY <1>1, <2>3, <2>4
         DEF Raises, IInv, TypeOK, Database, ActiveIntentStatuses, Over
    <3>2. db.order[l].filled = venue[l].filled
      BY <1>1, <3>1 DEF IInv, OverKnows, Known
    <3>3. Seen.order[l].filled \in Nat /\ venue[l].filled \in Nat
      BY <2>3, MakerAssumption DEF Sound, Types, Database, OrderRow, VenueRow
    <3>4. Last(queue[l]).filled \in Nat
      <4>1. queue[l] \in Seq(VenueRow)
        BY <1>1 DEF IInv, TypeOK
      <4>2. Last(queue[l]) \in VenueRow
        BY <1>1, <4>1 DEF Last
      <4>. QED BY <4>2, MakerAssumption DEF VenueRow
    <3>. QED BY <2>2, <2>3, <2>4, <3>2, <3>3, <3>4
  <2>5. CASE ~ Raises(Seen)
    <3>1. db'.order[l].filled = Seen.order[l].filled
      BY <2>2, <2>3, <2>5, AdvanceSound
    <3>. QED BY <2>3, <3>1
  <2>. QED BY <2>4, <2>5
<1>2. IInv /\ [Next]_vars =>
          [phase' # "starting" /\ db.qty[Compensation] = 0 =>
              \A l \in Legs : queue[l] # << >> /\ queue'[l] = << >> =>
                  db'.order[l].filled >= Last(queue[l]).filled]_vars
  BY <1>1
<1>. QED
  BY <1>2, MakerInvariance, PTL DEF Spec, FillsAreRecorded
=============================================================================
