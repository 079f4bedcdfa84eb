-------------------------------- MODULE MCVM --------------------------------
(* Instances of VM for TLC.                                                *)
EXTENDS VM

Instructions ==
  {[op |-> "pushInt", arg |-> n] : n \in 0 .. 2} \cup {[op |-> "pushByte", arg |-> 70]}
    \cup {[op |-> o] : o \in {"add", "sub", "pack", "store"}} \cup {[op |-> "skip", arg |-> 2]}
=============================================================================
