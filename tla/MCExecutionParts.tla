----------------------------- MODULE MCExecutionParts -----------------------------
(***************************************************************************)
(* ExecutionParts on small instances: the values of its constants are in   *)
(* the configuration, except for the functions.                            *)
(***************************************************************************)
EXTENDS ExecutionParts, TLC

(* Two lots on one leg, one on the other.                                  *)
TwoLots == ("a" :> 2) @@ ("b" :> 1)

(* Credentials with all rights, and a reader's, which look the same.       *)
RightsOf == ("full"   :> {"fields", "signer", "read", "trade"})
         @@ ("reader" :> {"fields", "signer", "read"})
Alike == ("full" :> "hidden") @@ ("reader" :> "hidden")
=============================================================================
