-------------------------- MODULE MCServerHistory --------------------------
(* An instance of ServerHistory for TLC: three transactions, so that one   *)
(* can be passed over.                                                     *)
EXTENDS MCServer, ServerHistory

OnePeerBody == {<<Early>>}
=============================================================================
