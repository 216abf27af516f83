----------------------------- MODULE MCMarketParts -----------------------------
(***************************************************************************)
(* MarketParts on small instances: the values of its constants are in the  *)
(* configuration, except for the windows an operator types in.             *)
(***************************************************************************)
EXTENDS MarketParts

(* Regular hours over midnight on three days, and hours of quotes only; an  *)
(* hour is counted in half minutes, as in Mt5Schedule.                      *)
Hour == 120
OwnWindows ==
    [regular   |-> {[days |-> {0, 2, 4}, start |-> 22 * Hour, end |-> 6 * Hour]},
     closeOnly |-> {},
     quoteOnly |-> {[days |-> {3}, start |-> 5 * Hour, end |-> 7 * Hour]}]
=============================================================================
