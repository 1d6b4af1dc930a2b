-------------------------- MODULE MCControlChannel --------------------------
(***************************************************************************)
(* ControlChannel for TLC: two polls, so that an abandoned one pops        *)
(* commands next to the poll that replaced it, and fewer commands per poll *)
(* than there can be in the queue.                                         *)
(***************************************************************************)
EXTENDS ControlChannel
=============================================================================
