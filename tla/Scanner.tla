------------------------------ MODULE Scanner ------------------------------
(***************************************************************************)
(* One symbol in run_scan (market/scanner.py).  A scan reads the sessions  *)
(* and the tradability of MT5 first, then the quotes of what is left, and  *)
(* computes from these copies; between two of its steps everything it read *)
(* may change, so that every read is a choice.  It ends in the scan state  *)
(* store, as a whole, or it fails and the store keeps the previous scan.   *)
(*                                                                         *)
(* A symbol is of one of three kinds: its leg B trades on MT5, both legs   *)
(* trade on exchanges, or the pair is only shown (is_native_pair is false).*)
(***************************************************************************)
EXTENDS Pricing

CONSTANTS
    Kinds,       \* kinds of symbol: "mt5", "exchange", "readonly"
    Prices,      \* bid and ask prices
    Levels,      \* reachable entry levels and cost guards of the history
    MinSamples,  \* statistical_min_samples
    MinEdge,     \* min_unit_edge
    MinEntry,    \* min_entry_spread of the symbol
    MaxClose,    \* max_close_spread of the symbol
    MaxAge,      \* quote.stale_ms, in ticks
    MaxDiff,     \* quote.loose_sync_ms, in ticks
    Target,      \* target_notional
    Fee          \* taker fee per unit of notional, of both venues

ScannerAssumption ==
    /\ Levels \subseteq Nat /\ MinSamples \in Nat /\ MaxAge \in Nat /\ MaxDiff \in Nat
    /\ Kinds \subseteq {"mt5", "exchange", "readonly"}
    /\ Prices \subseteq Nat /\ Target \in Nat /\ Fee \in Nat
    /\ MinEdge \in Int /\ MinEntry \in Int /\ MaxClose \in Int

VARIABLES
    kind,   \* the kind of the symbol
    scan,   \* the scan under way: phase, gate of each direction, quotes, rows
    store   \* what the scan state store shows: a status per direction, the best

vars == <<kind, scan, store>>

None == [bid |-> 0, ask |-> 0, at |-> 0, depth |-> 0]
Now == 2   \* the time of the evaluation
Quotes == [bid : Prices, ask : Prices, at : 0..Now, depth : {0, Target}]
Row == [status : Verdicts, entry : Int, close : Int, net : Int]
NoRow == [status |-> "rejected", entry |-> 0, close |-> 0, net |-> 0]
NoScan == [phase |-> "idle", gate |-> [d \in Directions |-> "rejected"],
           a |-> None, b |-> None, rows |-> << >>]
Shown == [row |-> [d \in Directions |-> "none"], best |-> "none"]

TypeOK ==
    /\ kind \in Kinds
    /\ scan.phase \in {"idle", "gated", "quoted", "rows", "failed"}
    /\ scan.gate \in [Directions -> {"pass", "rejected"}]
    /\ scan.a \in Quotes \cup {None} /\ scan.b \in Quotes \cup {None}
    /\ scan.rows = << >> \/ scan.rows \in [Directions -> Row]
    /\ store \in [row : [Directions -> Verdicts \cup {"none"}], best : Verdicts \cup {"none"}]

Init ==
    /\ kind \in Kinds
    /\ scan = NoScan
    /\ store = Shown

-----------------------------------------------------------------------------
(* pre_market_gates: only a symbol with an MT5 leg has any. *)
ReadGates ==
    /\ scan.phase = "idle"
    /\ \E session \in [Directions -> BOOLEAN], tradable \in [Directions -> BOOLEAN] :
           scan' = [scan EXCEPT
               !.phase = "gated",
               !.gate = [d \in Directions |->
                   IF kind # "mt5" \/ (session[d] /\ tradable[d]) THEN "pass" ELSE "rejected"]]
    /\ UNCHANGED <<kind, store>>

\* nothing is read for a symbol that no direction of may trade
Wanted == kind = "readonly" \/ \E d \in Directions : scan.gate[d] # "rejected"

ReadQuotes ==
    /\ scan.phase = "gated"
    /\ \E a \in Quotes \cup {None}, b \in Quotes \cup {None} :
           /\ ~Wanted => a = None /\ b = None
           /\ scan' = [scan EXCEPT !.phase = "quoted", !.a = a, !.b = b]
    /\ UNCHANGED <<kind, store>>

Age(quote) == Now - quote.at
Apart(a, b) == IF a.at >= b.at THEN a.at - b.at ELSE b.at - a.at

(* Bugs the run must notice: the scanner takes the checks of the read-only *)
(* pairs, which look at the prices one by one.                             *)
SynchronizedByPrice(a, b) ==
    /\ a # None /\ b # None
    /\ Age(a) <= MaxAge /\ Age(b) <= MaxAge
    /\ Apart(a, b) <= MaxDiff
    /\ Priced(a, b)

\* QuoteSynchronizer.synchronized
Synchronized(a, b) ==
    /\ a # None /\ b # None
    /\ Age(a) <= MaxAge /\ Age(b) <= MaxAge
    /\ Apart(a, b) <= MaxDiff
    /\ Priced(a, b)
    /\ NotReversed(a, b)

\* the checks _readonly_leg_pair_payloads makes for itself
Displayable(a, b) ==
    /\ a # None /\ b # None
    /\ Age(a) <= MaxAge /\ Age(b) <= MaxAge
    /\ Apart(a, b) <= MaxDiff
    /\ Priced(a, b)

Mid(quote) == (quote.bid + quote.ask) \div 2
Quantity(b) == IF kind = "mt5" THEN LotsFor(Target, Mid(b), 1, 1)
               ELSE BaseFor(Target, Mid(b), 1)
Fees(b) == PairCost(Mid(b) * Quantity(b), Fee, Fee, Fee, Fee)

NativeRow(d, a, b, stats) ==
    LET entry == EntrySpread(d, a, b)
        signal == SignalGate(Signal(stats, entry, MinSamples, MinEdge), entry, MinEntry)
        depth == LiquidityGate(signal, Mid(b) * Quantity(b), a.depth)
    IN [status |-> CombineGates(signal, depth, scan.gate[d]),
        entry |-> entry, close |-> CloseSpread(d, a, b),
        net |-> ProjectedPnl(entry, ExitTarget(MaxClose, stats.exit), Quantity(b), Fees(b))]

Stats == [samples : {0, MinSamples}, reachable : Levels, guard : Levels, exit : {0}]

(* The two directions of a pair the worker can trade.                      *)
EvaluateNative ==
    /\ scan.phase = "quoted" /\ kind # "readonly" /\ Wanted
    /\ Synchronized(scan.a, scan.b)
    /\ \E stats \in [Directions -> Stats] :
           scan' = [scan EXCEPT !.phase = "rows",
               !.rows = [d \in Directions |-> NativeRow(d, scan.a, scan.b, stats[d])]]
    /\ UNCHANGED <<kind, store>>

(* venue_cost_inputs raises: nothing catches it on this path, and the scan *)
(* of every symbol is over.                                                *)
CostsUnknown ==
    /\ scan.phase = "quoted" /\ kind # "readonly" /\ Wanted
    /\ Synchronized(scan.a, scan.b)
    /\ scan' = [scan EXCEPT !.phase = "failed"]
    /\ UNCHANGED <<kind, store>>

(* A read-only pair is at best a candidate; unknown costs reject it.       *)
EvaluateReadonly ==
    /\ scan.phase = "quoted" /\ kind = "readonly"
    /\ Displayable(scan.a, scan.b)
    /\ \E known \in BOOLEAN :
           scan' = [scan EXCEPT !.phase = "rows",
               !.rows = [d \in Directions |->
                   LET entry == EntrySpread(d, scan.a, scan.b) IN
                   [status |-> IF known THEN "candidate" ELSE "rejected",
                    entry |-> entry, close |-> CloseSpread(d, scan.a, scan.b),
                    net |-> IF known THEN ProjectedPnl(entry, ExitTarget(MaxClose, 0),
                                                       Quantity(scan.b), Fees(scan.b))
                            ELSE 0]]]
    /\ UNCHANGED <<kind, store>>

(* Closed market, every direction rejected, or quotes that do not match:   *)
(* one rejected row for the symbol, none for its directions.               *)
Refuse ==
    /\ scan.phase = "quoted"
    /\ IF kind = "readonly" THEN ~Displayable(scan.a, scan.b)
       ELSE ~Wanted \/ ~Synchronized(scan.a, scan.b)
    /\ scan' = [scan EXCEPT !.phase = "rows"]
    /\ UNCHANGED <<kind, store>>

Best(rows) == CHOOSE d \in Directions : \A e \in Directions : AtLeastAsGood(rows[d], rows[e])

(* _update_scan_state_store *)
Store ==
    /\ scan.phase = "rows"
    /\ store' = IF scan.rows = << >>
                THEN [row |-> [d \in Directions |-> "none"], best |-> "rejected"]
                ELSE [row |-> [d \in Directions |-> scan.rows[d].status],
                      best |-> scan.rows[Best(scan.rows)].status]
    /\ scan' = NoScan
    /\ UNCHANGED kind

Fail ==
    /\ scan.phase = "failed"
    /\ scan' = NoScan
    /\ UNCHANGED <<kind, store>>

Next ==
    \/ ReadGates \/ ReadQuotes
    \/ EvaluateNative \/ EvaluateReadonly \/ CostsUnknown \/ Refuse
    \/ Store \/ Fail

Spec == Init /\ [][Next]_vars

-----------------------------------------------------------------------------
(* Buying leg A for leg B and selling it for leg B are never both worth    *)
(* doing: what the jobs behind the store may open goes one way only, never *)
(* for a pair that is only shown, and the symbol's own row says so exactly *)
(* when a direction does.  It rests on quotes that are not reversed and on *)
(* a cost guard that is not negative.                                      *)
ScanIsSound ==
    /\ \A d, e \in Directions :
           store.row[d] = "executable" /\ store.row[e] = "executable" => d = e
    /\ \A d \in Directions : store.row[d] = "executable" => kind # "readonly"
    /\ store.best = "executable" <=> \E d \in Directions : store.row[d] = "executable"
=============================================================================
