----------------------------- MODULE MCTransport -----------------------------
(* Instances of Transport for TLC.                                         *)
EXTENDS Transport, TLC

CONSTANTS local, remote

Nodes == Permutations(Node)
=============================================================================
