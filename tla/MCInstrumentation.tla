------------------------- MODULE MCInstrumentation -------------------------
(* Two requests that share a handler, of up to two rounds with a tool each *)
(* and three in all; a call of a vendor's client with up to three         *)
(* messages; two threads.                                                  *)
EXTENDS Instrumentation, TLC

CONSTANTS q1, q2, h1

MCSpanIds == {q1, q2} \X (0 .. 2) \X (0 .. 1)
MCCalls == {<<q1, 0, 0>>}
MCThreads == {<<q1, 0, 1>>, <<q2, 0, 1>>}
SharedHandler == (q1 :> h1) @@ (q2 :> h1)

\* The second message of a call, and the answers of the second request.
MCPrivate == {<<2>>} \cup {LlmRun(q2, n) : n \in 1 .. MaxRounds}
=============================================================================
