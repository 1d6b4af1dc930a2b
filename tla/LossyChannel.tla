---------------------------- MODULE LossyChannel ----------------------------
(***************************************************************************)
(* What the way of a command promises the operator, without lists, polls   *)
(* and answers: commands that are handed over in the order they were       *)
(* issued, each at most once, and of which some may go missing.  One that  *)
(* went missing stays so: it does not turn up after its successors.        *)
(***************************************************************************)
EXTENDS Naturals, Sequences

CONSTANT Bound

VARIABLES issued,  (* how many commands were ever issued: the next is issued + 1 *)
          ahead,   (* the commands that can still be handed over                 *)
          handed   (* the commands handed over, in order                         *)

lossyVars == <<issued, ahead, handed>>

Init == issued = 0 /\ ahead = {} /\ handed = <<>>

Issue ==
    /\ issued < Bound
    /\ issued' = issued + 1
    /\ ahead' = ahead \cup {issued + 1}
    /\ UNCHANGED handed

\* The oldest one goes first.
HandOver ==
    \E c \in ahead :
        /\ \A d \in ahead : c <= d
        /\ ahead' = ahead \ {c}
        /\ handed' = Append(handed, c)
        /\ UNCHANGED issued

GoMissing ==
    /\ ahead' \in SUBSET ahead
    /\ UNCHANGED <<issued, handed>>

Next == Issue \/ HandOver \/ GoMissing

Spec == Init /\ [][Next]_lossyVars
=============================================================================
