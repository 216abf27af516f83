---------------------------- MODULE OrderBooks ----------------------------
(***************************************************************************)
(* BinanceLocalOrderBook (venues/binance/orderbook.py) and the handler     *)
(* that feeds it (process_market_message): a snapshot over REST, then      *)
(* depth events that name the updates they cover (U..u) and the last       *)
(* update of the event before them (pu).                                   *)
(*                                                                         *)
(* The exchange's book is a history of updates, each of one price level;   *)
(* an event says what its levels hold after its last update.  A snapshot   *)
(* shows the book after any update.  Events are lost while the stream is   *)
(* down and may be seen again or late.                                     *)
(***************************************************************************)
EXTENDS Naturals, FiniteSets

CONSTANTS
    Levels,      \* prices
    Sizes,       \* quantities of a level; 0 removes it
    Updates,     \* bound: updates of the exchange's book
    MaxFailures  \* bound: snapshots that fail

BooksAssumption ==
    /\ Updates \in Nat \ {0} /\ MaxFailures \in Nat
    /\ Sizes \subseteq Nat /\ 0 \in Sizes

VARIABLES
    history,   \* the level and the quantity each update sets
    cut,       \* the updates that end an event
    book,      \* the local copy: quantity of each level
    last,      \* _last_update_id, 0 for None
    synced,    \* _synchronized
    failures

vars == <<history, cut, book, last, synced, failures>>

Ids == 1..Updates
Books == [Levels -> Sizes]
Empty == [p \in Levels |-> 0]

TypeOK ==
    /\ history \in [Ids -> [price : Levels, size : Sizes]]
    /\ cut \subseteq Ids
    /\ book \in Books /\ last \in 0..Updates /\ synced \in BOOLEAN
    /\ failures \in 0..MaxFailures

Init ==
    /\ history \in [Ids -> [price : Levels, size : Sizes]]
    /\ cut \in {c \in SUBSET Ids : Updates \in c}
    /\ book = Empty /\ last = 0 /\ synced = FALSE /\ failures = 0

\* the last update of a level up to id, and the exchange's book after update id
LastOf(p, id) == {i \in 1..id : history[i].price = p
                               /\ \A j \in (i + 1)..id : history[j].price # p}
BookAt(id) == [p \in Levels |->
    IF LastOf(p, id) = {} THEN 0 ELSE history[CHOOSE i \in LastOf(p, id) : TRUE].size]

\* the event that ends with update u: what it covers and what it follows
Before(u) == {c \in cut : c < u}
Previous(u) == IF Before(u) = {} THEN 0 ELSE CHOOSE c \in Before(u) : \A d \in Before(u) : d <= c
First(u) == Previous(u) + 1
Covers(u, id) == First(u) <= id /\ id <= u

\* _apply_levels: only the levels the event names
Patched(b, u) == [p \in Levels |->
    IF \E i \in First(u)..u : history[i].price = p THEN BookAt(u)[p] ELSE b[p]]

(* Bug the run must notice: a synchronized book takes every newer event.   *)
FollowsAny(u) == IF synced THEN TRUE ELSE Covers(u, last)

\* apply raises OrderBookGap unless the event covers the snapshot or follows on
Follows(u) == IF synced THEN Previous(u) = last ELSE Covers(u, last)

-----------------------------------------------------------------------------
(* An event older than the book changes nothing.                           *)
Stale(u) ==
    /\ last > 0 /\ u < last
    /\ UNCHANGED vars

Apply(u) ==
    /\ last > 0 /\ u >= last /\ Follows(u)
    /\ book' = Patched(book, u) /\ last' = u /\ synced' = TRUE
    /\ UNCHANGED <<history, cut, failures>>

(* initialize, before the first event or after a gap, then the event again:*)
(* older than the snapshot, covering it, or leaving the book unsynchronized.*)
Resync(u) ==
    /\ last = 0 \/ (u >= last /\ ~Follows(u))
    /\ \E id \in Ids :
           IF Covers(u, id)
           THEN book' = Patched(BookAt(id), u) /\ last' = u /\ synced' = TRUE
           ELSE book' = BookAt(id) /\ last' = id /\ synced' = FALSE
    /\ UNCHANGED <<history, cut, failures>>

(* The snapshot cannot be had: the gap has already marked the book.        *)
ResyncFails(u) ==
    /\ failures < MaxFailures
    /\ last = 0 \/ (u >= last /\ ~Follows(u))
    /\ synced' = FALSE /\ failures' = failures + 1
    /\ UNCHANGED <<history, cut, book, last>>

Event(u) == Stale(u) \/ Apply(u) \/ Resync(u) \/ ResyncFails(u)

(* invalidate *)
Invalidate ==
    /\ last > 0
    /\ book' = Empty /\ last' = 0 /\ synced' = FALSE
    /\ UNCHANGED <<history, cut, failures>>

Next == (\E u \in cut : Event(u)) \/ Invalidate

Spec == Init /\ [][Next]_vars

-----------------------------------------------------------------------------
(* A book that calls itself synchronized is the exchange's book after the  *)
(* update it names, whatever was lost, repeated or late on the way.        *)
BookIsTrue == synced => book = BookAt(last)
=============================================================================
