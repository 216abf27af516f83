--------------------------- MODULE MCOutboxWorker ---------------------------
(* Small instances of OutboxWorker for TLC.                                *)
EXTENDS OutboxWorker

OneOpen    == [i \in {1} |-> "OPEN"]
OpenClose  == [i \in {1, 2} |-> IF i = 1 THEN "OPEN" ELSE "CLOSE"]
OneGroup1  == [i \in {1} |-> "g"]
OneGroup2  == [i \in {1, 2} |-> "g"]

OneLot  == {[k \in {"a", "b"} |-> 1]}
TwoLots == {[k \in {"a", "b"} |-> IF k = "a" THEN 2 ELSE 1]}

NoLegs  == {}
MtLegOfFirst == {<<1, "b">>}
=============================================================================
