--------------------------- MODULE MCLogPipeline ---------------------------
(***************************************************************************)
(* LogPipeline for TLC.  MCLogPipeline.cfg: three events, which the        *)
(* flusher takes in batches of up to three while the service accepts two,  *)
(* and two requests at a time, so that an abandoned request and the retry  *)
(* of its batch run side by side.  MCExactlyOnce.cfg: two events, and only *)
(* Valkey commands fail.                                                   *)
(***************************************************************************)
EXTENDS LogPipeline, TLC

\* The requests are interchangeable, and the run checks invariants only.
HandlerSymmetry == Permutations(Handlers)
=============================================================================
