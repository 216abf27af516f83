------------------------------ MODULE MarketParts ------------------------------
(***************************************************************************)
(* The parts that decide what to trade.  They share no state: a behaviour  *)
(* runs one part, chosen at the start, on as many of the variables as the  *)
(* part has.                                                               *)
(***************************************************************************)
EXTENDS Naturals

CONSTANTS
    \* Opening
    Signals, Rows, Users, MaxGroups,
    \* CircuitBreaker
    Ways, Spreads, Detection, Cooldown, InitialThreshold, Multiplier,
    BaselineSamples, BaselineCap, MaxUpdates,
    \* Mt5Schedule
    Templates, Own,
    \* Mt5Tradability; the breaker has the same clock
    Sides, Modes, Calendars, SessionTTL, StateTTL, Quarantine, MaxTime,
    MaxLosses, MaxChanges,
    \* Scanner
    SymbolKinds, Prices, Levels, MinSamples, MinEdge, MinEntry, MaxClose, MaxAge,
    MaxDiff, Target, Fee,
    \* SpreadHistory
    HistoryTime, Bucket, Interval, MaxSamples, MaxFaults,
    \* OrderBooks
    BookLevels, Sizes, Updates, MaxFailures,
    \* Quotes
    StaleAge, Strict, Delay

VARIABLES
    part,   \* the part that runs
    s1, s2, s3, s4, s5, s6, s7, s8, s9, s10, s11, s12, s13, s14, s15

vars == <<part, s1, s2, s3, s4, s5, s6, s7, s8, s9, s10, s11, s12, s13, s14, s15>>

(* The rows of the signals, the users and the automatic executor.          *)
Open == INSTANCE Opening WITH
    row <- s1, persist <- s2, group <- s3, opened <- s4, auto <- s5

(* The breaker of one symbol.                                              *)
Breaker == INSTANCE CircuitBreaker WITH
    now <- s1, window <- s2, jitter <- s3, baseline <- s4, current <- s5,
    threshold <- s6, state <- s7, tripped <- s8, updates <- s9, trip <- s10,
    MinSamples <- BaselineSamples, Directions <- Ways

(* The calendar of one symbol.                                             *)
Schedule == INSTANCE Mt5Schedule WITH now <- s1, template <- s2, stored <- s3

(* The orders of one symbol that may be sent.                              *)
Gate == INSTANCE Mt5Tradability WITH
    now <- s1, calendar <- s2, mode <- s3, ticking <- s4, session <- s5,
    states <- s6, key <- s7, row <- s8, pending <- s9, draft <- s10,
    left <- s11, gate <- s12, trusted <- s13, losses <- s14, changes <- s15

(* One scan after another of one symbol.                                   *)
Scan == INSTANCE Scanner WITH kind <- s1, scan <- s2, store <- s3, Kinds <- SymbolKinds

(* The spread history of one symbol, with rollbacks and restarts.          *)
History == INSTANCE SpreadHistory WITH
    now <- s1, acc <- s2, last <- s3, row <- s4, tx <- s5, taken <- s6,
    torn <- s7, faults <- s8, MaxTime <- HistoryTime

(* The updates of an order book, cut into events in every way.             *)
Book == INSTANCE OrderBooks WITH
    history <- s1, cut <- s2, book <- s3, last <- s4, synced <- s5,
    failures <- s6, Levels <- BookLevels

(* The quotes of two legs and the decisions that rest on them.             *)
Quote == INSTANCE Quotes WITH
    ticker <- s1, quote <- s2, request <- s3, phase <- s4, used <- s5, Stale <- StaleAge

ASSUME PartsAssumption ==
    /\ Open!OpeningAssumption
    /\ Breaker!BreakerAssumption
    /\ Gate!GateAssumption
    /\ Scan!ScannerAssumption
    /\ History!HistoryAssumption
    /\ Book!BooksAssumption
    /\ Quote!QuotesAssumption
    /\ Schedule!ScheduleAssumption

-----------------------------------------------------------------------------
Init ==
    \/ /\ part = "opening" /\ Open!Init
       /\ s6 = 0 /\ s7 = 0 /\ s8 = 0 /\ s9 = 0 /\ s10 = 0 /\ s11 = 0 /\ s12 = 0 /\ s13 = 0
       /\ s14 = 0 /\ s15 = 0
    \/ /\ part = "breaker" /\ Breaker!Init
       /\ s11 = 0 /\ s12 = 0 /\ s13 = 0 /\ s14 = 0 /\ s15 = 0
    \/ /\ part = "schedule" /\ Schedule!Init
       /\ s4 = 0 /\ s5 = 0 /\ s6 = 0 /\ s7 = 0 /\ s8 = 0 /\ s9 = 0 /\ s10 = 0 /\ s11 = 0
       /\ s12 = 0 /\ s13 = 0 /\ s14 = 0 /\ s15 = 0
    \/ /\ part = "gate" /\ Gate!Init
    \/ /\ part = "scan" /\ Scan!Init
       /\ s4 = 0 /\ s5 = 0 /\ s6 = 0 /\ s7 = 0 /\ s8 = 0 /\ s9 = 0 /\ s10 = 0 /\ s11 = 0
       /\ s12 = 0 /\ s13 = 0 /\ s14 = 0 /\ s15 = 0
    \/ /\ part = "history" /\ History!Init
       /\ s9 = 0 /\ s10 = 0 /\ s11 = 0 /\ s12 = 0 /\ s13 = 0 /\ s14 = 0 /\ s15 = 0
    \/ /\ part = "book" /\ Book!Init
       /\ s7 = 0 /\ s8 = 0 /\ s9 = 0 /\ s10 = 0 /\ s11 = 0 /\ s12 = 0 /\ s13 = 0 /\ s14 = 0
       /\ s15 = 0
    \/ /\ part = "quotes" /\ Quote!Init
       /\ s6 = 0 /\ s7 = 0 /\ s8 = 0 /\ s9 = 0 /\ s10 = 0 /\ s11 = 0 /\ s12 = 0 /\ s13 = 0
       /\ s14 = 0 /\ s15 = 0

Next ==
    /\ UNCHANGED part
    /\ \/ /\ part = "opening" /\ Open!Next
          /\ UNCHANGED <<s6, s7, s8, s9, s10, s11, s12, s13, s14, s15>>
       \/ part = "breaker" /\ Breaker!Next /\ UNCHANGED <<s11, s12, s13, s14, s15>>
       \/ /\ part = "schedule" /\ Schedule!Next
          /\ UNCHANGED <<s4, s5, s6, s7, s8, s9, s10, s11, s12, s13, s14, s15>>
       \/ part = "gate" /\ Gate!Next
       \/ /\ part = "scan" /\ Scan!Next
          /\ UNCHANGED <<s4, s5, s6, s7, s8, s9, s10, s11, s12, s13, s14, s15>>
       \/ part = "history" /\ History!Next /\ UNCHANGED <<s9, s10, s11, s12, s13, s14, s15>>
       \/ part = "book" /\ Book!Next /\ UNCHANGED <<s7, s8, s9, s10, s11, s12, s13, s14, s15>>
       \/ /\ part = "quotes" /\ Quote!Next
          /\ UNCHANGED <<s6, s7, s8, s9, s10, s11, s12, s13, s14, s15>>

Spec == Init /\ [][Next]_vars

-----------------------------------------------------------------------------
(* Properties: those of the parts, where they are stated with their reasons. *)

(* The type invariants of the parts.                                       *)
TypeOK ==
    /\ part = "opening" => Open!TypeOK
    /\ part = "breaker" => Breaker!TypeOK
    /\ part = "schedule" => Schedule!TypeOK
    /\ part = "gate" => Gate!TypeOK
    /\ part = "scan" => Scan!TypeOK
    /\ part = "history" => History!TypeOK
    /\ part = "book" => Book!TypeOK
    /\ part = "quotes" => Quote!TypeOK

(* The groups opened exceed the limit by no more than the requests between *)
(* the check and the commit, and a row that executes has a request.        *)
OverrunIsBounded ==
    /\ part = "opening" => Open!OverrunIsBounded /\ Open!ExecutingIsOwned

(* The breaker trips, and blocks, on a warrant.                            *)
TripIsWarranted ==
    /\ part = "breaker" => Breaker!TripIsWarranted

(* A command is sent only into a session that is open and past no          *)
(* quarantine.                                                             *)
TradableIsTrue ==
    /\ part = "schedule" => Schedule!ScheduleIsTrue
    /\ part = "gate" => Gate!BlockHolds

(* A scan calls executable only what its quotes and the settings allow.    *)
ScanIsSound ==
    /\ part = "scan" => Scan!ScanIsSound

(* Every sample of the spread is in the row of its bucket.                 *)
BucketsAreWhole ==
    /\ part = "history" => History!BucketsAreWhole

(* A synchronized book is the book of the exchange, and a decision rests on*)
(* fresh quotes.                                                           *)
MarketDataIsTrue ==
    /\ part = "book" => Book!BookIsTrue
    /\ part = "quotes" => Quote!DecisionsAreFresh

=============================================================================
