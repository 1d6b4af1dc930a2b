------------------------------ MODULE MCUplink ------------------------------
(***************************************************************************)
(* Uplink for TLC: three events, a directory for two of them and a service *)
(* that takes two at a time, so that a flush of three is refused, one file *)
(* or several are evicted for the next, and one batch is larger than the   *)
(* directory.                                                              *)
(***************************************************************************)
EXTENDS Uplink
=============================================================================
