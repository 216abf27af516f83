----------------------------- MODULE Connectors -----------------------------
(***************************************************************************)
(* One order through one connector: what is checked before anything is     *)
(* sent, what is sent, how often, and what the caller is told.  The venues *)
(* disagree in how they answer; the worker has only two readings of an     *)
(* answer that went wrong: the order certainly does not exist, or nobody   *)
(* knows (_exception_outcome_unknown).                                     *)
(*                                                                         *)
(* Quantities are in units of which Step make one step of the venue.       *)
(***************************************************************************)
EXTENDS Integers, FiniteSets

CONSTANTS
    Kinds,      \* connectors: a subset of "binance", "hyperliquid", "paper", "mt5"
    MaxUnits,   \* largest quantity asked for
    Step,       \* quantity step and least quantity of the venue, in units
    Modes       \* filling modes an MT5 order may be tried with

ConnectorsAssumption ==
    /\ Kinds \subseteq {"binance", "hyperliquid", "paper", "mt5"}
    /\ MaxUnits \in Nat \ {0} /\ Step \in Nat \ {0} /\ Modes \in Nat \ {0}

Units == 0..MaxUnits
Final == {"FILLED", "CANCELED", "EXPIRED", "REJECTED"}

VARIABLES
    kind,      \* the connector
    request,   \* the order: quantity, and whether it may only rest
    order,     \* the order at the venue
    takings,   \* history: orders the venue has taken for this request
    attempts,  \* requests sent by this call
    calling,   \* a call of submit_order is under way
    told,      \* the last answer of the connector
    cache      \* _submitted_orders of the Hyperliquid connector

vars == <<kind, request, order, takings, attempts, calling, told, cache>>

Order  == [state : {"NONE", "OPEN", "FILLED", "CANCELED"}, size : Units, filled : Units]
Answer == [call : {"none", "submit", "query", "cancel"},
           status : Final \cup {"ACCEPTED", "PARTIALLY_FILLED", "PENDING_CANCEL", "UNKNOWN", "ERROR"},
           filled : Units, definite : BOOLEAN]

NoOrder  == [state |-> "NONE", size |-> 0, filled |-> 0]
NotAsked == [call |-> "none", status |-> "UNKNOWN", filled |-> 0, definite |-> FALSE]

TypeOK ==
    /\ kind \in Kinds
    /\ request \in [quantity : Units, postOnly : BOOLEAN, reduceOnly : BOOLEAN]
    /\ order \in Order
    /\ takings \in 0..2 /\ attempts \in 0..(Modes + 1)
    /\ calling \in BOOLEAN
    /\ told \in Answer /\ cache \in Answer

Init ==
    /\ kind \in Kinds
    /\ request \in [quantity : Units \ {0}, postOnly : BOOLEAN, reduceOnly : BOOLEAN]
    /\ order = NoOrder /\ takings = 0 /\ attempts = 0
    /\ calling = FALSE
    /\ told = NotAsked /\ cache = NotAsked

-----------------------------------------------------------------------------
(* Answers.                                                                *)

Tell(call, status, filled) ==
    told' = [call |-> call, status |-> status, filled |-> filled, definite |-> FALSE]

(* An exception, as _exception_outcome_unknown reads it.                   *)
Fail(call, definite) ==
    told' = [call |-> call, status |-> "ERROR", filled |-> 0, definite |-> definite]

Refused == Fail("submit", TRUE)
Lost    == Fail("submit", FALSE)

Over(o) == o.state \in {"FILLED", "CANCELED"}

(* _order_status and _order_from_payload of Binance.                       *)
BinanceStatus(o) ==
    CASE o.state = "OPEN" /\ o.filled = 0 -> "ACCEPTED"
      [] o.state = "OPEN" /\ o.filled > 0 -> "PARTIALLY_FILLED"
      [] o.state = "FILLED" -> "FILLED"
      [] OTHER -> "CANCELED"

(* _order_status of Hyperliquid: an open order is ACCEPTED whatever it has *)
(* filled; one the venue canceled for want of margin is REJECTED.          *)
HyperliquidStatus(o) ==
    IF o.state = "OPEN" THEN {"ACCEPTED"}
    ELSE IF o.state = "FILLED" THEN {"FILLED"} ELSE {"CANCELED", "REJECTED"}

(* A bug the runs must notice: the state of the order is not looked at.    *)
Mt5StatusByVolume(o) ==
    IF o.filled >= request.quantity THEN "FILLED" ELSE IF o.filled > 0 THEN "CANCELED" ELSE "ACCEPTED"

(* _mt5_order_status: what is filled counts before the state does, so that *)
(* a canceled order with a fill is PARTIALLY_FILLED for ever.              *)
Mt5Status(o) ==
    IF o.filled >= request.quantity THEN "FILLED"
    ELSE IF o.filled > 0 THEN "PARTIALLY_FILLED"
    ELSE IF Over(o) THEN "CANCELED" ELSE "ACCEPTED"

(* The paper connector keeps the snapshot it made when it matched.  What   *)
(* its book could not fill is neither open nor canceled.                   *)
PaperStatus(o) ==
    IF o.filled >= request.quantity THEN "FILLED"
    ELSE IF o.filled > 0 THEN "PARTIALLY_FILLED"
    ELSE IF o.state = "CANCELED" THEN "CANCELED" ELSE "ACCEPTED"

(* The order as each connector shows it.                                   *)
BinanceShows(call, o) == Tell(call, BinanceStatus(o), o.filled)

HyperliquidShows(call, o) == \E s \in HyperliquidStatus(o) : Tell(call, s, o.filled)

PaperShows(call, o) == Tell(call, PaperStatus(o), o.filled)

Mt5Shows(call, o) == Tell(call, Mt5Status(o), o.filled)

(* _order_from_deals: of an order that is no longer listed only its deals  *)
(* are known, and whatever they add up to is FILLED.                       *)
Mt5DealsShow(o) == Over(o) /\ o.filled > 0 /\ Tell("query", "FILLED", o.filled)

-----------------------------------------------------------------------------
(* The venue.                                                              *)

(* The forms in which a venue takes an order of q units: a resting one may *)
(* stay open, any other is filled or cut short at once; a venue may match  *)
(* a limit order in part and keep the rest.                                *)
NewOrders(q) ==
    {o \in Order : /\ o.size = q /\ o.filled <= q
                   /\ o.state = "FILLED" <=> o.filled = q
                   /\ o.state # "NONE"
                   /\ request.postOnly => o.state = "OPEN" /\ o.filled = 0}

Takes(o) == order' = o /\ takings' = takings + 1
Ignores  == UNCHANGED <<order, takings>>

VenueMoves ==
    /\ order.state = "OPEN" /\ kind # "paper"
    /\ \E n \in order.filled..order.size, s \in {"OPEN", "FILLED", "CANCELED"} :
           /\ s = "FILLED" <=> n = order.size
           /\ order' = [order EXCEPT !.filled = n, !.state = s]
           /\ order' # order
    /\ UNCHANGED <<kind, request, takings, attempts, calling, told, cache>>

-----------------------------------------------------------------------------
(* submit_order.                                                           *)

Begin ==
    /\ ~calling /\ told.call = "none"
    /\ calling' = TRUE
    /\ UNCHANGED <<kind, request, order, takings, attempts, told, cache>>

Return   == calling' = FALSE
GoOn     == calling' = TRUE /\ UNCHANGED told
Sent     == attempts' = attempts + 1
Calls(k) == calling /\ kind = k

(* _round_to_step, downwards.                                              *)
FloorToStep(q) == (q \div Step) * Step

(* Before anything is sent: a read-only connector, a missing price and a   *)
(* quantity below the least one are certain; a private stream that is down *)
(* is not told from a lost answer.                                         *)
BinanceRefuse ==
    /\ Calls("binance") /\ attempts = 0
    /\ Refused \/ (FloorToStep(request.quantity) >= Step /\ Lost)
    /\ Return /\ Ignores
    /\ UNCHANGED <<kind, request, attempts, cache>>

(* A bug the runs must notice: every answer but a success is a refusal.    *)
BinanceErrorCertain == Refused

(* _request and _urlopen_transport: no answer, a garbled one or a status   *)
(* of 500 and more.                                                        *)
BinanceError == Lost

(* A bug the runs must notice: any error is a reason to send once more.    *)
BinanceSignedAgain ==
    \/ \E o \in NewOrders(FloorToStep(request.quantity)) :
        /\ Takes(o)
        /\ (BinanceShows("submit", o) /\ Return) \/ (attempts = 0 /\ GoOn)
    \/ Ignores /\ Refused /\ Return

(* signed: sent once; once more after the clock was found wrong, which the *)
(* venue says before it takes the order.                                   *)
BinanceSigned ==
    \/ \E o \in NewOrders(FloorToStep(request.quantity)) :
        /\ Takes(o)
        /\ (BinanceShows("submit", o) \/ BinanceError)
        /\ Return
    \/ /\ Ignores
       /\ \/ (Refused \/ BinanceError) /\ Return
          \/ attempts = 0 /\ GoOn

BinanceSubmit ==
    /\ Calls("binance") /\ FloorToStep(request.quantity) >= Step
    /\ Sent /\ BinanceSigned
    /\ UNCHANGED <<kind, request, cache>>

(* The Hyperliquid connector asks for a stream, an account and a key.      *)
HyperliquidRefuse ==
    /\ Calls("hyperliquid")
    /\ Refused \/ Lost
    /\ Return /\ Ignores
    /\ UNCHANGED <<kind, request, attempts, cache>>

(* _submit_snapshot and _remember_order.                                   *)
SubmitShows(status, filled) == Tell("submit", status, filled)

Remember == cache' = IF told'.status = "ERROR" THEN cache ELSE told'

(* _order_from_submit: "filled" is FILLED, also when it is less than was   *)
(* asked for; no status is UNKNOWN.                                        *)
HyperliquidAnswer(o) ==
    \/ o.state = "OPEN" /\ o.filled = 0 /\ SubmitShows("ACCEPTED", 0)
    \/ o.filled > 0 /\ Over(o) /\ SubmitShows("FILLED", o.filled)
    \/ SubmitShows("UNKNOWN", 0)

(* Whatever the SDK raises, and an error in the answer, is a RuntimeError, *)
(* of which nobody knows; so is a close of a position that is not there.   *)
HyperliquidSubmit ==
    /\ Calls("hyperliquid")
    /\ Sent
    /\ \/ \E o \in NewOrders(request.quantity) :
              Takes(o) /\ (HyperliquidAnswer(o) \/ Lost)
       \/ Ignores /\ Lost
    /\ Return
    /\ Remember
    /\ UNCHANGED <<kind, request>>

(* _match and submit_order of the paper connector: against one book, once. *)
PaperSubmit ==
    /\ Calls("paper")
    /\ \/ \E o \in NewOrders(request.quantity) :
              /\ o.state # "CANCELED" /\ (~request.postOnly => o.filled > 0)
              /\ Takes(o) /\ PaperShows("submit", o)
       \/ Ignores /\ Tell("submit", "REJECTED", 0)
    /\ Return
    /\ UNCHANGED <<kind, request, attempts, cache>>

(* Read-only, post-only, no tick, no position to reduce: the gateway, or   *)
(* the connector before it, says that it failed, and failed is certain.    *)
Mt5Refuse ==
    /\ Calls("mt5") /\ attempts = 0
    /\ Refused /\ Return /\ Ignores
    /\ UNCHANGED <<kind, request, attempts, cache>>

(* A bug the runs must notice: the next filling mode is tried whatever the *)
(* answer was.                                                             *)
Mt5NextModeAlways(taken) == attempts' < Modes /\ GoOn

(* _send_with_filling_fallback: the next mode after a mode the venue does  *)
(* not know, which it says before it takes the order, or no answer at all. *)
Mt5NextMode(taken) == attempts' < Modes /\ ~taken /\ GoOn

(* Without an answer the terminal has not sent the order (what the code    *)
(* takes for granted; _rpc may still time out).                            *)
Mt5Submit ==
    /\ Calls("mt5") /\ ~request.postOnly
    /\ Sent
    /\ \/ \E o \in NewOrders(request.quantity) :
              /\ Takes(o)
              /\ \/ (Mt5Shows("submit", o) \/ Lost) /\ Return
                 \/ Mt5NextMode(TRUE)
       \/ Ignores /\ (Mt5NextMode(FALSE) \/ ((Refused \/ Lost) /\ Return))
    /\ UNCHANGED <<kind, request, cache>>

-----------------------------------------------------------------------------
(* get_order and cancel_order, by what is known of the order.              *)

Asks(k) == ~calling /\ told.call # "none" /\ kind = k

Known   == order # NoOrder
Unfound == order = NoOrder /\ Fail("query", FALSE)
Asked   == UNCHANGED <<kind, request, order, takings, attempts, calling, cache>>

BinanceGetOrder == Asks("binance") /\ (Unfound \/ (Known /\ BinanceShows("query", order))) /\ Asked

HyperliquidGetOrder ==
    Asks("hyperliquid") /\ (Unfound \/ (Known /\ HyperliquidShows("query", order))) /\ Asked

PaperGetOrder == Asks("paper") /\ (Unfound \/ (Known /\ PaperShows("query", order))) /\ Asked

(* MT5 finds an order by its ticket, and so never after a lost answer.     *)
Mt5GetOrder ==
    /\ Asks("mt5")
    /\ \/ Unfound
       \/ Known /\ told.status = "ERROR" /\ Fail("query", FALSE)
       \/ Known /\ told.status # "ERROR" /\ (Mt5Shows("query", order) \/ Mt5DealsShow(order))
    /\ Asked

(* An open order is taken back; one that is over stays as it is.           *)
Cancels(o) == o.state = "OPEN" /\ order' = [o EXCEPT !.state = "CANCELED"]
Late(o)    == Over(o) /\ order' = o

Canceled == UNCHANGED <<kind, request, takings, attempts, calling, cache>>

BinanceCancel ==
    /\ Asks("binance")
    /\ \/ Cancels(order) /\ BinanceShows("cancel", order')
       \/ Late(order) /\ Fail("cancel", FALSE)
    /\ Canceled

(* What the venue answers is not looked at: PENDING_CANCEL, and the rest   *)
(* as it was remembered.                                                   *)
HyperliquidCancel ==
    /\ Asks("hyperliquid")
    /\ Cancels(order) \/ Late(order)
    /\ Tell("cancel", "PENDING_CANCEL", IF cache = NotAsked THEN order'.filled ELSE cache.filled)
    /\ cache' = told'
    /\ UNCHANGED <<kind, request, takings, attempts, calling>>

PaperCancel ==
    /\ Asks("paper") /\ Known
    /\ \/ Cancels(order) /\ Tell("cancel", "CANCELED", order.filled)
       \/ Late(order) /\ PaperShows("cancel", order)
    /\ Canceled

Mt5Cancel ==
    /\ Asks("mt5") /\ told.status # "ERROR"
    /\ \/ Cancels(order) /\ Tell("cancel", "PENDING_CANCEL", order'.filled)
       \/ Late(order) /\ Fail("cancel", FALSE)
    /\ Canceled

Next ==
    \/ Begin \/ VenueMoves
    \/ BinanceRefuse \/ BinanceSubmit
    \/ HyperliquidRefuse \/ HyperliquidSubmit
    \/ PaperSubmit
    \/ Mt5Refuse \/ Mt5Submit
    \/ BinanceGetOrder \/ HyperliquidGetOrder \/ PaperGetOrder \/ Mt5GetOrder
    \/ BinanceCancel \/ HyperliquidCancel \/ PaperCancel \/ Mt5Cancel

Spec == Init /\ [][Next]_vars

-----------------------------------------------------------------------------
(* Properties.                                                             *)

(* What a submission calls certain is so: when it says that the order was  *)
(* not taken, by an exception without outcome_unknown or by REJECTED, the  *)
(* venue has none; and a call that sends more than once (the clock of      *)
(* Binance, the filling modes of MT5) never leaves two.                    *)
CertainIsTrue ==
    /\ told.call = "submit" /\ (told.definite \/ told.status = "REJECTED") => order = NoOrder
    /\ takings <= 1

(* A connector that calls an order over is right: the venue will fill no   *)
(* more of it than the answer shows.                                       *)
FinalIsOver ==
    ~calling /\ told.status \in Final => order = NoOrder \/ (Over(order) /\ order.filled = told.filled)

AnswersAreTrue == CertainIsTrue /\ FinalIsOver
=============================================================================
