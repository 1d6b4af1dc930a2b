----------------------------- MODULE MCTracker -----------------------------
(***************************************************************************)
(* Tracker for TLC: two connections of one process and one of another, and *)
(* the turns of chats that start with the same messages, are answered in   *)
(* one of two ways and go on; a tracker of two conversations.              *)
(***************************************************************************)
EXTENDS Tracker, TLC

CONSTANTS text, a, b, p1, p2, s1, s2, s3

User == [role |-> "user", content |-> text]
Opening == <<[role |-> "system", content |-> text], User>>

\* Another chat, and the second turn after either answer.
MCBodies ==
    {Opening, <<User>>, Opening \o <<Assistant(a), User>>,
     Opening \o <<Assistant(b), User>>}

MCConns == {[pid |-> p1, sslCtx |-> s1], [pid |-> p1, sslCtx |-> s2],
            [pid |-> p2, sslCtx |-> s3]}

Symmetric == Permutations({a, b}) \cup Permutations({s1, s2})
=============================================================================
