---------------------------- MODULE MCHttpThread -----------------------------
(* HttpThread with two clients. *)
EXTENDS HttpThread, TLC

CONSTANTS c1, c2

\* c1 stops a capture; c2 starts one, with a body of two segments, the second of
\* which may come while the connection waits for an answer to the first.
MCKind == (c1 :> "stop") @@ (c2 :> "start")
MCRequest == (c1 :> <<"head">>) @@ (c2 :> <<"head", "body", "body">>)
=============================================================================
