---------------------------- MODULE MCChatStream ----------------------------
(***************************************************************************)
(* ChatStream for TLC.  MCChatStream.cfg: two streams, so that one takes   *)
(* over from the other, a plain turn that holds the row, and a cancel.     *)
(* MCCancelStops.cfg: one stream and one cancel, and nothing fails.        *)
(***************************************************************************)
EXTENDS ChatStream
=============================================================================
