--------------------------- MODULE MCSdkTransport ---------------------------
(***************************************************************************)
(* SdkTransport for TLC.  A buffer of three and batches of two make every  *)
(* case of the flusher happen: a batch that fills, one that does not, a    *)
(* leftover larger than nothing, and an overflow while a POST is retried.  *)
(***************************************************************************)
EXTENDS SdkTransport
=============================================================================
