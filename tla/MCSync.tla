------------------------------- MODULE MCSync -------------------------------
(* An instance of Sync for TLC: two of the servers of main.go, of which    *)
(* the one that dials is the validator.                                    *)
EXTENDS Sync

CONSTANTS local, remoteB, t1, t2

PairLinks == {<<local, remoteB>>}
=============================================================================
