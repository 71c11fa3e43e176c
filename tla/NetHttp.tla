------------------------------ MODULE NetHttp ------------------------------
(***************************************************************************)
(* What net/http makes of a status code handed to WriteHeader.              *)
(***************************************************************************)
EXTENDS Integers

\* The connection is aborted and the client gets no answer.
Closed == 0

\* WriteHeader panics outside 100..999 (the connection is aborted), sends 1xx
\* as an informational header and then 200 with the body.
WriteHeader(code) ==
    CASE code < 100 \/ code > 999 -> Closed
      [] code \in 100 .. 199 \ {101} -> 200
      [] OTHER -> code
=============================================================================
