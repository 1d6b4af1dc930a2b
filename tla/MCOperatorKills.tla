-------------------------- MODULE MCOperatorKills --------------------------
(***************************************************************************)
(* OperatorKills for TLC.  The conversation v1 has two requests and is     *)
(* plain, with a first message that needs its quotes for the scan and a    *)
(* run of spaces, its roles written in three ways; v2 is plain and too     *)
(* short even in its quotes; v3 has a list for a system prompt, hence no    *)
(* fingerprint.  Two calls: a kill and its undoing, or two operators.  The *)
(* two polls of MCControlChannel are left to that module.                  *)
(***************************************************************************)
EXTENDS OperatorKills, TLC

CONSTANTS v1, v2, v3

Says(role, t) == [role |-> role, content |-> Str(t)]

Body(compact, system, messages) ==
    [compact |-> compact, system |-> system, messages |-> messages]

MCFirst == <<Says("system", <<"b">>), Says("User", <<"a", "sp", "sp">>)>>

MCSecond ==
    MCFirst \o <<Says("assistant", <<"b", "a">>), Says("us er", <<"b">>)>>

MCBlocks == [blocks |-> TRUE, parts |-> <<<<"b">>, <<"a">>>>]

MCBodyOf ==
    [v \in Convs |->
        IF v = v1 THEN <<Body(TRUE, NoSystem, MCFirst), Body(TRUE, NoSystem, MCSecond)>>
        ELSE IF v = v2 THEN <<Body(TRUE, NoSystem, <<Says("user", <<"a">>)>>)>>
        ELSE <<Body(FALSE, MCBlocks, <<Says("user", <<"a", "nl", "pii">>)>>)>>]

MCSymmetry == Permutations(Calls)
=============================================================================
