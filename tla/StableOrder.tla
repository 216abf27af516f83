----------------------------- MODULE StableOrder -----------------------------
(***************************************************************************)
(* What the execution protocol promises about every order, whatever fails: *)
(* the order is recorded under a stable id, then submitted, once, and the  *)
(* venue takes it at most once, when it is submitted or any time later.    *)
(* Nothing is ever unrecorded and nothing is submitted again.              *)
(***************************************************************************)
EXTENDS Naturals

CONSTANT Orders

VARIABLES
    recorded,   \* orders with a stable id on disk
    sends,      \* how often an order was submitted
    taken       \* orders a venue has taken

vars == <<recorded, sends, taken>>

Init ==
    /\ recorded = {}
    /\ sends = [o \in Orders |-> 0]
    /\ taken = {}

(* The orders of a command are recorded together.                          *)
Record(S) ==
    /\ S \cap recorded = {}
    /\ recorded' = recorded \cup S
    /\ UNCHANGED <<sends, taken>>

Send(o) ==
    /\ o \in recorded /\ sends[o] = 0
    /\ sends' = [sends EXCEPT ![o] = 1]
    /\ taken' \in {taken, taken \cup {o}}
    /\ UNCHANGED recorded

TakeLate(o) ==
    /\ sends[o] = 1 /\ o \notin taken
    /\ taken' = taken \cup {o}
    /\ UNCHANGED <<recorded, sends>>

(* Orders an earlier version recorded and sent.                            *)
Adopt(S, T) ==
    /\ S \cap recorded = {} /\ T \subseteq S
    /\ recorded' = recorded \cup S
    /\ sends' = [o \in Orders |-> IF o \in S THEN 1 ELSE sends[o]]
    /\ taken' = taken \cup T

Next ==
    \/ \E S \in SUBSET Orders : Record(S) \/ \E T \in SUBSET S : Adopt(S, T)
    \/ \E o \in Orders : Send(o) \/ TakeLate(o)

Spec == Init /\ [][Next]_vars
=============================================================================
