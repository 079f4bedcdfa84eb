-------------------------- MODULE MCPersistentStore --------------------------
(* Instances of PersistentStore for TLC.                                   *)
EXTENDS PersistentStore, TLC

CONSTANTS main, other, genesis, b1, c1

\* b1 and c1 have the same height.
Heights == genesis :> 0 @@ b1 :> 1 @@ c1 :> 1
=============================================================================
