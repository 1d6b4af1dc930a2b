---------------------------- MODULE MCEnforcement ----------------------------
(***************************************************************************)
(* Enforcement for TLC: two conversations with the same fingerprint and    *)
(* one with another; two connections for the three of them.                *)
(***************************************************************************)
EXTENDS Enforcement, TLC

CONSTANTS v1, v2, v3, f1, f2, a1

MCFpOf == [v \in Convs |-> IF v = v3 THEN f2 ELSE f1]

\* The first message of v3 is too short for an anchor, and what it says is
\* none of the others' business.
MCAnchorOf == [f \in Fingerprints |-> IF f = f1 THEN a1 ELSE NoAnchor]
MCText == [v \in Convs |-> IF v = v3 THEN {} ELSE {a1}]

\* v3 has another system prompt, but its first message is that of the others:
\* all three share one anchor.
MCSharedAnchorOf == [f \in Fingerprints |-> a1]
MCSharedText == [v \in Convs |-> {a1}]

\* v1 and v2 have the same fingerprint and text.
MCSymmetry == Permutations({v1, v2}) \cup Permutations(Ctxs)
=============================================================================
