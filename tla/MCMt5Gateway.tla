---------------------------- MODULE MCMt5Gateway ----------------------------
(* Instances of Mt5Gateway for TLC: two calls with the key of one order,   *)
(* and a query (or an order of its own) among them.                        *)
EXTENDS Mt5Gateway

MCTwice  == [r \in Requests |-> IF r <= 2 THEN "order" ELSE NoKey]
MCSingle == [r \in Requests |-> "order"]
=============================================================================
