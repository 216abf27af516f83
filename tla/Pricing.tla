------------------------------ MODULE Pricing ------------------------------
(***************************************************************************)
(* The arithmetic of a hedge: the spreads at which two legs can be bought  *)
(* and sold (strategy/spread_math.py), the size of a position              *)
(* (strategy/position_sizing.py), its fees (strategy/cost.py), the profit   *)
(* a scan projects (execution/pnl.py), the signal the statistics of a      *)
(* history give (strategy/statistical_signal.py), and the gates a scan     *)
(* combines (market/scanner.py).                                           *)
(*                                                                         *)
(* The module has operators only.  Prices, sizes and rates are integers in *)
(* the smallest unit of each, so that a sum is exact; the code computes    *)
(* with floats.  A leg's quote is a record with fields bid and ask.        *)
(***************************************************************************)
EXTENDS Integers

Directions == {"long_leg_a", "long_leg_b"}
Verdicts == {"rejected", "candidate", "executable"}

\* spreads_for_direction: what opening earns per unit, and what closing costs
EntrySpread(direction, a, b) ==
    IF direction = "long_leg_a" THEN b.bid - a.ask ELSE a.bid - b.ask

CloseSpread(direction, a, b) ==
    IF direction = "long_leg_a" THEN b.ask - a.bid ELSE a.ask - b.bid

SpreadCost(direction, a, b) ==
    CloseSpread(direction, a, b) - EntrySpread(direction, a, b)

\* QuoteSynchronizer.synchronized, the checks of the prices themselves
Priced(a, b) == /\ a.bid > 0 /\ a.ask > 0 /\ b.bid > 0 /\ b.ask > 0
NotReversed(a, b) == a.bid <= a.ask /\ b.bid <= b.ask

-----------------------------------------------------------------------------
(* Sizes and money *)

\* _round_down_to_step and _round_up_to_step
FloorToStep(value, step) == IF step <= 0 THEN value ELSE (value \div step) * step
CeilToStep(value, step) ==
    IF step <= 0 THEN value ELSE ((value + step - 1) \div step) * step

\* calculate_position_sizing, the MT5 leg: whole steps of lots under the target
\* amount, and never fewer than the smallest volume.  The price of one lot is
\* lotNotional; target \div lotNotional stands for the lots the target buys.
LotsFor(target, lotNotional, lotMin, lotStep) ==
    LET minimum == CeilToStep(lotMin, lotStep)
        requested == target \div lotNotional
    IN IF target <= minimum * lotNotional THEN minimum
       ELSE LET floored == FloorToStep(requested, lotStep)
            IN IF floored >= minimum THEN floored ELSE minimum

\* calculate_position_sizing, a leg B that is not MT5: its own step is its minimum
BaseFor(target, price, minimum) ==
    LET step == IF minimum > 0 THEN minimum ELSE 1
        floored == FloorToStep(target \div price, step)
    IN IF floored < minimum THEN CeilToStep(minimum, step) ELSE floored

\* _venue_fee_rate: only a post-only limit order is sure to pay the maker's rate
FeeRate(orderType, postOnly, costs) ==
    IF orderType = "limit" /\ postOnly THEN costs.maker ELSE costs.taker

\* estimate_pair_cost: four fees on the notional, none for the bid-ask spread,
\* which the entry and the close spread already hold
PairCost(notional, openA, closeA, openB, closeB) ==
    LET value == IF notional > 0 THEN notional ELSE 0
    IN value * openA + value * closeA + value * openB + value * closeB

\* projected_pnl
ProjectedPnl(entry, close, quantity, fees) ==
    LET qty == IF quantity > 0 THEN quantity ELSE 0
        paid == IF fees > 0 THEN fees ELSE 0
    IN (entry - close) * qty - paid

-----------------------------------------------------------------------------
(* The signal *)

\* evaluate_entry_signal; stats is [samples, reachable, guard]
Signal(stats, spread, minSamples, minEdge) ==
    IF stats.samples < minSamples THEN "candidate"
    ELSE IF spread <= stats.guard THEN "rejected"
    ELSE IF spread < stats.reachable THEN "candidate"
    ELSE IF spread - stats.guard < minEdge THEN "candidate"
    ELSE "executable"

\* _signal_gate
SignalGate(signal, spread, minEntry) ==
    IF signal \in {"candidate", "executable"} /\ minEntry > 0 /\ spread < minEntry
    THEN "candidate" ELSE signal

\* _leg_a_liquidity_reason through _liquidity_gate: the top level of leg A
LiquidityGate(signalGate, notional, depth) ==
    IF signalGate # "rejected" /\ depth > 0 /\ notional > depth
    THEN "candidate" ELSE "pass"

\* _combine_gates
CombineGates(signalGate, liquidityGate, marketGate) ==
    IF marketGate = "rejected" THEN "rejected"
    ELSE IF signalGate = "rejected" THEN "rejected"
    ELSE IF liquidityGate = "candidate" THEN "candidate"
    ELSE IF signalGate = "candidate" THEN "candidate"
    ELSE "executable"

\* _effective_exit_target
ExitTarget(maxClose, statistical) ==
    IF maxClose = 0 THEN statistical
    ELSE IF statistical = 0 THEN maxClose
    ELSE IF statistical <= maxClose THEN statistical ELSE maxClose

\* _best_current_payload: the better status first, then the larger net profit
Rank(status) ==
    CASE status = "executable" -> 3 [] status = "candidate" -> 2 [] OTHER -> 1

AtLeastAsGood(row, other) ==
    \/ Rank(row.status) > Rank(other.status)
    \/ Rank(row.status) = Rank(other.status) /\ row.net >= other.net
=============================================================================
