------------------------------ MODULE Quotes ------------------------------
(***************************************************************************)
(* From the price of an exchange to a decision that rests on it, for the   *)
(* two legs of one symbol: a connector keeps the last ticker its stream    *)
(* brought; the market data thread copies it into the shared quote cache   *)
(* again and again, asking over REST instead when the ticker is close to   *)
(* stale (workers/market_data.py); a decision to open or to close reads    *)
(* both quotes, demands that they are fresh and of the same moment, and    *)
(* may refresh them once (execution/preflight.py, execution/auto_closer.py,*)
(* market/active_refresh.py, market/quotes.py).  Nothing orders the writes *)
(* of the two threads: a later write may hold an older price.              *)
(*                                                                         *)
(* A ticker and a quote carry two ages: since the exchange showed the      *)
(* price, which no one here can see, and since this side received it,      *)
(* which is the stamp the checks go by.  Ages stop at a cap.               *)
(***************************************************************************)
EXTENDS Naturals, FiniteSetsExt

CONSTANTS
    Stale,   \* quote.stale_ms, in ticks
    Strict,  \* quote.strict_sync_ms, in ticks
    Delay    \* bound: ticks a message or a request is on its way

QuotesAssumption == Stale \in Nat /\ Strict \in Nat /\ Delay \in Nat

Legs == {"a", "b"}
Cap == Stale + Delay + 1
Ages == 0..Cap
NoPrice == [seen |-> Cap, at |-> Cap]   \* what was never received is too old
Price == [seen : Ages, at : Ages]

VARIABLES
    ticker,   \* each connector's last ticker
    quote,    \* the quote cache
    request,  \* the REST call of each thread: its leg ("-" for none) and its age
    phase,    \* the decision under way
    used      \* the quotes the last decision rested on

vars == <<ticker, quote, request, phase, used>>

Threads == {"market", "decision"}
NoCall == [leg |-> "-", age |-> 0]
Undecided == [l \in Legs |-> [seen |-> 0, at |-> 0]]

TypeOK ==
    /\ ticker \in [Legs -> Price] /\ quote \in [Legs -> Price]
    /\ request \in [Threads -> [leg : Legs \cup {"-"}, age : 0..Delay]]
    /\ phase \in {"idle", "refresh_a", "refresh_b", "recheck", "none_refreshed"}
    /\ used \in [Legs -> Price]

Init ==
    /\ ticker = [l \in Legs |-> NoPrice] /\ quote = [l \in Legs |-> NoPrice]
    /\ request = [t \in Threads |-> NoCall]
    /\ phase = "idle" /\ used = Undecided

Older(p) == [seen |-> Min({p.seen + 1, Cap}), at |-> Min({p.at + 1, Cap})]

Tick ==
    /\ \A t \in Threads : request[t].leg # "-" => request[t].age < Delay
    /\ ticker' = [l \in Legs |-> Older(ticker[l])]
    /\ quote' = [l \in Legs |-> Older(quote[l])]
    /\ request' = [t \in Threads |-> IF request[t].leg = "-" THEN NoCall
                                     ELSE [request[t] EXCEPT !.age = @ + 1]]
    /\ used' = Undecided
    /\ UNCHANGED phase

(* The stream brings a ticker; while it is down, or the market is quiet,   *)
(* it brings none.                                                         *)
Message(l) ==
    /\ \E lag \in 0..Delay : ticker' = [ticker EXCEPT ![l] = [seen |-> lag, at |-> 0]]
    /\ UNCHANGED <<quote, request, phase, used>>

(* Bug the run must notice: the quote is stamped when it is copied.        *)
StampedAtCopy(p) == [p EXCEPT !.at = 0]

\* QuoteCache.put with local_recv_ts = ticker.received_at
Stamped(p) == [p EXCEPT !.at = p.at]

Put(l, p) == quote' = [quote EXCEPT ![l] = Stamped(p)]

NearlyStale(p) == 4 * p.at >= 3 * Stale

(* MarketDataManager._refresh for one leg: copy the ticker ...             *)
Copy(l) ==
    /\ request["market"] = NoCall
    /\ ~NearlyStale(ticker[l])
    /\ Put(l, ticker[l])
    /\ UNCHANGED <<ticker, request, phase, used>>

(* ... or ask for another first; a connector without a ticker asks as well.*)
Ask(l) ==
    /\ request["market"] = NoCall
    /\ NearlyStale(ticker[l])
    /\ request' = [request EXCEPT !["market"] = [leg |-> l, age |-> 0]]
    /\ UNCHANGED <<ticker, quote, phase, used>>

\* the answer shows the price of some moment of the call
Answers(t) ==
    \E seen \in 0..request[t].age : Put(request[t].leg, [seen |-> seen, at |-> 0])

Answered ==
    /\ request["market"].leg # "-"
    /\ Answers("market")
    /\ request' = [request EXCEPT !["market"] = NoCall]
    /\ UNCHANGED <<ticker, phase, used>>

(* The update of one leg fails; the cache keeps what it has.               *)
AskFails ==
    /\ request["market"].leg # "-"
    /\ request' = [request EXCEPT !["market"] = NoCall]
    /\ UNCHANGED <<ticker, quote, phase, used>>

-----------------------------------------------------------------------------
(* strict_sync_for_execution, and the same steps in evaluate_auto_close    *)
Gap == IF quote["a"].at >= quote["b"].at THEN quote["a"].at - quote["b"].at
       ELSE quote["b"].at - quote["a"].at
Synchronized == /\ \A l \in Legs : quote[l].at <= Stale
                /\ Gap <= Strict

Decide ==
    /\ phase \in {"idle", "recheck"} /\ request["decision"] = NoCall
    /\ Synchronized
    /\ used' = quote /\ phase' = "idle"
    /\ UNCHANGED <<ticker, quote, request>>

Refresh ==
    /\ phase = "idle" /\ ~Synchronized
    /\ phase' = "refresh_a"
    /\ request' = [request EXCEPT !["decision"] = [leg |-> "a", age |-> 0]]
    /\ UNCHANGED <<ticker, quote, used>>

\* refresh_execution_quotes: leg A, then leg B; a leg may fail
After(ok) ==
    CASE phase = "refresh_a" -> IF ok THEN "refresh_b" ELSE "none_refreshed"
      [] phase = "refresh_b" -> "recheck"
      [] phase = "none_refreshed" -> IF ok THEN "recheck" ELSE "idle"

Refreshed(ok) ==
    LET leg == request["decision"].leg IN
    /\ leg # "-"
    /\ IF ok THEN Answers("decision") ELSE UNCHANGED quote
    /\ phase' = After(ok)
    /\ request' = [request EXCEPT !["decision"] =
           IF leg = "a" THEN [leg |-> "b", age |-> 0] ELSE NoCall]
    /\ UNCHANGED <<ticker, used>>

GiveUp ==
    /\ phase = "recheck" /\ request["decision"] = NoCall
    /\ ~Synchronized
    /\ phase' = "idle"
    /\ UNCHANGED <<ticker, quote, request, used>>

Next ==
    \/ Tick
    \/ \E l \in Legs : Message(l) \/ Copy(l) \/ Ask(l)
    \/ Answered \/ AskFails
    \/ Decide \/ Refresh \/ GiveUp
    \/ \E ok \in BOOLEAN : Refreshed(ok)

Spec == Init /\ [][Next]_vars

-----------------------------------------------------------------------------
(* A decision rests on prices the exchanges really showed within the       *)
(* allowed age and the time of one transmission, and no further apart than *)
(* the strict limit and that time: although quotes are written again and   *)
(* again, by two threads and out of order, an old price never passes for a *)
(* fresh one.                                                              *)
Distance(x, y) == IF x >= y THEN x - y ELSE y - x
DecisionsAreFresh ==
    /\ \A l \in Legs : used[l].seen <= Stale + Delay
    /\ Distance(used["a"].seen, used["b"].seen) <= Strict + Delay
=============================================================================
