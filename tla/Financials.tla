----------------------------- MODULE Financials -----------------------------
(***************************************************************************)
(* What a hedge group earned (execution/pnl.py, execution/fees.py).  The   *)
(* exchange's reports of an order come on two channels, each in order:     *)
(* the order's cumulative state, and its fills.  Both write the same row,  *)
(* the second from the sum of the fills seen so far, so that the row's     *)
(* price and commission go back and forth until both are through; the      *)
(* answer to the submission writes it too.  The group's result is computed *)
(* when the group closes, perhaps too early, and again in every            *)
(* reconciliation.                                                         *)
(*                                                                         *)
(* The group holds two units, long leg A and short leg B: leg A opened     *)
(* with a maker and a market order, leg B with one order filled in two     *)
(* parts.  An average price is kept times two, which makes it an integer.  *)
(***************************************************************************)
EXTENDS Integers, FiniteSets

CONSTANTS
    Prices,     \* prices of the opening fills
    ClosePrice, \* price of the closing fills
    RawFee,     \* the commission of one fill as leg A's exchange reports it
    Mt5Charge,  \* the same from MT5, which reports a charge as a negative amount
    LateAnswers,\* whether an answer may be older than a projected report
    Batched     \* bound: orders of one part whose reports all come in one batch

FinancialsAssumption ==
    /\ Prices \subseteq Nat \ {0} /\ ClosePrice \in Nat \ {0}
    /\ RawFee \in Int /\ Mt5Charge \in Int /\ LateAnswers \in BOOLEAN
    /\ Batched \subseteq {"maker_a", "market_a", "close_a", "close_b"}

\* the orders and the quantities of their fills
Orders == {"maker_a", "market_a", "open_b", "close_a", "close_b"}
Leg(o) == IF o \in {"open_b", "close_b"} THEN "b" ELSE "a"
Action(o) == IF o \in {"close_a", "close_b"} THEN "CLOSE" ELSE "OPEN"
Parts(o) == IF o = "open_b" THEN 2 ELSE 1
Size(o) == IF Action(o) = "OPEN" THEN 1 ELSE 2
Quantity == 2
Whole(o) == Parts(o) * Size(o)

VARIABLES
    price,    \* the price of each part of an order
    row,      \* VenueOrder: filled quantity, twice the average price, commission
    reports,  \* how many cumulative reports of the order have been projected
    fills,    \* how many of its fills have been projected
    answered, \* the orders of which an answer has been written
    group,    \* the group: status, fees and twice the realized profit
    stale     \* whether a row changed since the result was computed

vars == <<price, row, reports, fills, answered, group, stale>>

TypeOK ==
    /\ price \in [Orders \X (1..2) -> Prices \cup {ClosePrice}]
    /\ row \in [Orders -> [filled : 0..Quantity, avg2 : Nat, fee : Nat]]
    /\ \A o \in Orders : reports[o] \in 0..Parts(o) /\ fills[o] \in 0..Parts(o)
    /\ answered \subseteq Orders
    /\ group \in [status : {"open", "closed"}, fees : Nat, realized2 : Int]
    /\ stale \in BOOLEAN

\* the fills whose price matters: the second part only of the order that has two
Chosen == {<<"maker_a", 1>>, <<"market_a", 1>>, <<"open_b", 1>>, <<"open_b", 2>>}

Init ==
    /\ \E p \in [Chosen -> Prices] :
           price = [f \in Orders \X (1..2) |-> IF f \in Chosen THEN p[f] ELSE ClosePrice]
    /\ row = [o \in Orders |-> [filled |-> 0, avg2 |-> 0, fee |-> 0]]
    /\ reports = [o \in Orders |-> 0] /\ fills = [o \in Orders |-> 0]
    /\ answered = {}
    /\ group = [status |-> "open", fees |-> 0, realized2 |-> 0]
    /\ stale = FALSE

(* Bug the run must notice: the sign of MT5's commission is not turned.    *)
ClampedCost(leg, raw) == IF raw > 0 THEN raw ELSE 0

\* commission_cost: MT5 by amount, the others never less than nothing
CommissionCost(leg, raw) ==
    IF leg = "b" THEN IF raw < 0 THEN -raw ELSE raw
    ELSE IF raw > 0 THEN raw ELSE 0

Raw(o) == IF Leg(o) = "b" THEN -Mt5Charge ELSE RawFee

\* the exchange's state of an order after k parts
Notional(o, k) == IF k = 0 THEN 0
                  ELSE Size(o) * (price[<<o, 1>>] + IF k = 2 THEN price[<<o, 2>>] ELSE 0)
After(o, k) == [filled |-> k * Size(o),
                avg2 |-> (2 * Notional(o, k)) \div (k * Size(o)),
                fee |-> CommissionCost(Leg(o), k * Raw(o))]

Larger(x, y) == IF x >= y THEN x ELSE y

Projected(o, r) == row' = [row EXCEPT ![o] = r] /\ stale' = TRUE

-----------------------------------------------------------------------------
(* _apply_order: the quantity and the commission only grow, the average is *)
(* what the report says.                                                   *)
Report(o) ==
    /\ o \notin Batched /\ reports[o] < Parts(o)
    /\ reports' = [reports EXCEPT ![o] = @ + 1]
    /\ LET now == After(o, reports[o] + 1) IN
       Projected(o, [filled |-> Larger(row[o].filled, now.filled), avg2 |-> now.avg2,
                     fee |-> Larger(row[o].fee, now.fee)])
    /\ UNCHANGED <<price, fills, answered, group>>

(* _apply_fill: average and commission are those of the fills projected so *)
(* far, this one included, whatever the row said before.                   *)
Fill(o) ==
    /\ o \notin Batched /\ fills[o] < Parts(o)
    /\ fills' = [fills EXCEPT ![o] = @ + 1]
    /\ LET sum == After(o, fills[o] + 1) IN
       Projected(o, [sum EXCEPT !.filled = Larger(row[o].filled, sum.filled)])
    /\ UNCHANGED <<price, reports, answered, group>>

(* _apply_gateway_result, of a submission or of a query, with what the     *)
(* order had filled when it was answered; the commission replaces the      *)
(* row's if there is one.  The worker's loop projects reports only between *)
(* its commands, so that an answer is not older than what it has projected.*)
Answer(o) ==
    /\ o \notin answered \cup Batched
    /\ answered' = answered \cup {o}
    /\ \E k \in 1..Parts(o) :
           LET now == After(o, k) IN
           /\ LateAnswers \/ k >= Larger(reports[o], fills[o])
           /\ Projected(o, [filled |-> Larger(row[o].filled, now.filled), avg2 |-> now.avg2,
                            fee |-> IF now.fee > 0 THEN now.fee ELSE row[o].fee])
    /\ UNCHANGED <<price, reports, fills, group>>

(* project_venue_events_once: the report and the fill of an order that is  *)
(* filled at once, in one transaction.                                     *)
Batch(o) ==
    /\ o \in Batched /\ reports[o] = 0
    /\ reports' = [reports EXCEPT ![o] = 1] /\ fills' = [fills EXCEPT ![o] = 1]
    /\ Projected(o, After(o, 1))
    /\ UNCHANGED <<price, answered, group>>

-----------------------------------------------------------------------------
(* The result.                                                             *)
With(leg, action) == {o \in Orders : Leg(o) = leg /\ Action(o) = action /\ row[o].filled > 0}

\* the sum of a quantity over at most two orders
Sum(S, of(_)) == IF S = {} THEN 0
                 ELSE LET o == CHOOSE x \in S : TRUE
                      IN of(o) + (IF S = {o} THEN 0 ELSE of(CHOOSE x \in S \ {o} : TRUE))

\* weighted_execution_price, twice; none without a fill
Known(leg, action) == With(leg, action) # {}
Weighted2(leg, action) ==
    LET S == With(leg, action)
        quantity(o) == row[o].filled
        notional2(o) == row[o].filled * row[o].avg2
    IN Sum(S, notional2) \div Sum(S, quantity)

\* actual_spread_from_fills of a group that is long leg A
Spread2(action) == Weighted2("b", action) - Weighted2("a", action)

\* execution_commission_total
FeesTotal == row["maker_a"].fee + row["market_a"].fee + row["open_b"].fee
             + row["close_a"].fee + row["close_b"].fee

\* refresh_closed_group_financials
Refreshed(g) ==
    IF \A leg \in {"a", "b"}, action \in {"OPEN", "CLOSE"} : Known(leg, action)
    THEN [status |-> "closed", fees |-> FeesTotal,
          realized2 |-> (Spread2("OPEN") - Spread2("CLOSE")) * Quantity - 2 * FeesTotal]
    ELSE [g EXCEPT !.status = "closed"]

(* _project_hedge_group_state: both closing orders are filled.             *)
Close ==
    /\ group.status = "open"
    /\ \A o \in {"close_a", "close_b"} : row[o].filled = Whole(o)
    /\ group' = Refreshed(group) /\ stale' = FALSE
    /\ UNCHANGED <<price, row, reports, fills, answered>>

(* _reconcile_impl refreshes every closed group.                           *)
Reconcile ==
    /\ group.status = "closed"
    /\ group' = Refreshed(group) /\ stale' = FALSE
    /\ UNCHANGED <<price, row, reports, fills, answered>>

Next == (\E o \in Orders : Report(o) \/ Fill(o) \/ Answer(o) \/ Batch(o)) \/ Close \/ Reconcile

Spec == Init /\ [][Next]_vars

-----------------------------------------------------------------------------
\* the money that changed hands, twice: sold less bought, less what was charged
Cash2 == 2 * (Notional("open_b", 2) + Notional("close_a", 1)
              - Notional("maker_a", 1) - Notional("market_a", 1) - Notional("close_b", 1))
Charged == 3 * (IF RawFee > 0 THEN RawFee ELSE 0)
           + 3 * (IF Mt5Charge < 0 THEN -Mt5Charge ELSE Mt5Charge)

AllIn == \A o \in Orders : reports[o] = Parts(o) /\ fills[o] = Parts(o)

(* When every report has been projected and the group reconciled since,    *)
(* what it says it earned is the cash that changed hands, less every       *)
(* commission once, in whatever order the channels were projected and      *)
(* however early the group was closed.                                     *)
RealizedIsCash ==
    AllIn /\ group.status = "closed" /\ ~stale =>
        group.fees = Charged /\ group.realized2 = Cash2 - 2 * Charged
=============================================================================
