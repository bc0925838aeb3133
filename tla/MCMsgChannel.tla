---------------------------- MODULE MCMsgChannel -----------------------------
(* MsgChannel with two producers, the first of which posts one message whose *)
(* handler throws.                                                           *)
EXTENDS MsgChannel

CONSTANTS p1, p2

MCProducers == {p1, p2}
MCThrowing == {<<p1, 2>>}
=============================================================================
