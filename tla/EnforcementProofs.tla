------------------------- MODULE EnforcementProofs -------------------------
(***************************************************************************)
(* What holds of Enforcement for any number of conversations, connections, *)
(* anchors, slots and commands.                                            *)
(*                                                                         *)
(* KillTakesHold is inductive once the variables have their types: each of *)
(* its disjuncts hands over to another one in the same step in which it    *)
(* becomes false; a mark that fails or is pushed out of the map leaves its *)
(* connection in slipped.  OnlyTargetsMarked needs to know where a decision that   *)
(* is about to mark a connection came from (Decided), and that what the    *)
(* decision was based on was put there by a command (Aimed).               *)
(***************************************************************************)
EXTENDS Enforcement, TLAPS

\* What the policy store and the anchor slots hold, commands have put there.
Aimed ==
    /\ \A v \in Convs : FpOf[v] \in policy => v \in targeted
    /\ \A s \in Slots, v \in Convs :
          Armed(s) /\ slots[s].anchor \in Text[v] => v \in targeted

\* A request that is about to mark its connection is of a conversation a
\* command was aimed at.
Decided ==
    /\ capture.at # "idle" => capture.conv \in Convs /\ capture.ctx \in Ctxs
    /\ capture.at \in {"hit", "blocked"} => capture.conv \in targeted

EnforceInv ==
    /\ EnforceTypeOK
    /\ Aimed
    /\ Decided
    /\ KillTakesHold

-----------------------------------------------------------------------------
(* Slots *)

\* NoCommand is a command.
LEMMA NoCommandType ==
    NoCommand \in [at : {"idle"}, fp : Fingerprints, todo : {{}}]
BY EnforcementAssumption DEF NoCommand

\* Arm keeps the types, and an armed slot holds what it held or the anchor.
LEMMA ArmFacts ==
    ASSUME EnforceTypeOK, NEW cmd \in 0 .. MaxCommands, NEW a \in Anchors, Arm(cmd, a)
    PROVE  /\ slots' \in [Slots -> [cmd : 0 .. MaxCommands, anchor : Anchors \cup {NoAnchor}]]
           /\ \A s \in Slots : slots'[s] = slots[s] \/ slots'[s].anchor = a
BY DEF Arm, EnforceTypeOK

LEMMA DisarmFacts ==
    ASSUME EnforceTypeOK, NEW a, Disarm(a)
    PROVE  /\ slots' \in [Slots -> [cmd : 0 .. MaxCommands, anchor : Anchors \cup {NoAnchor}]]
           /\ \A s \in Slots : slots'[s] = slots[s] \/ slots'[s] = Empty
BY EnforcementAssumption DEF Disarm, EnforceTypeOK, Empty

\* The anchor made for a fingerprint is one.
LEMMA KnownAnchorType ==
    ASSUME NEW f \in Fingerprints PROVE KnownAnchor(f) \in Anchors \cup {NoAnchor}
BY EnforcementAssumption DEF KnownAnchor

LEMMA SocketsType ==
    ASSUME EnforceTypeOK, NEW f \in Fingerprints
    PROVE  /\ SocketsFor(f) \subseteq Ctxs
           /\ \A v \in Convs : FpOf[v] = f /\ tracked[v] # NoCtx => tracked[v] \in SocketsFor(f)
BY DEF SocketsFor, EnforceTypeOK

\* The request Observe takes off the ring buffer is one.
LEMMA RingFacts ==
    ASSUME NEW S, NEW q \in Seq(S), q # <<>>
    PROVE  Head(q) \in S /\ Tail(q) \in Seq(S) /\ Len(Tail(q)) = Len(q) - 1 /\ Len(q) \in Nat
OBVIOUS

LEMMA ObserveRing ==
    ASSUME EnforceTypeOK, ring # <<>>
    PROVE  /\ Head(ring) \in [conv : Convs, ctx : Ctxs]
           /\ Tail(ring) \in Seq([conv : Convs, ctx : Ctxs])
           /\ Len(Tail(ring)) <= RingMax
<1> DEFINE S == [conv : Convs, ctx : Ctxs]
<1>1. ring \in Seq(S) /\ Len(ring) <= RingMax /\ RingMax \in Nat
    BY EnforcementAssumption DEF EnforceTypeOK
<1> HIDE DEF S
<1>2. /\ Head(ring) \in S /\ Tail(ring) \in Seq(S)
      /\ Len(Tail(ring)) = Len(ring) - 1 /\ Len(ring) \in Nat
    BY <1>1, RingFacts
<1>3. Len(Tail(ring)) <= RingMax
    BY <1>1, <1>2
<1> QED BY <1>2, <1>3 DEF S

-----------------------------------------------------------------------------
(* The invariant *)

LEMMA InitInv == EnforceInit => EnforceInv
<1> SUFFICES ASSUME EnforceInit PROVE EnforceInv
    OBVIOUS
<1> USE EnforcementAssumption DEF EnforceInit
<1>1. EnforceTypeOK
    BY NoCommandType DEF EnforceTypeOK, Empty, Resting
<1>2. Aimed
    BY DEF Aimed, Armed
<1>3. Decided
    BY DEF Decided, Resting
<1>4. KillTakesHold
    BY DEF KillTakesHold
<1> QED BY <1>1, <1>2, <1>3, <1>4 DEF EnforceInv

\* Each step of the application, of the capture goroutine and of time.
LEMMA CaptureInv ==
    ASSUME EnforceInv,
           \/ \E v \in Convs, c \in Ctxs : WritePasses(v, c)
           \/ CaptureStep
           \/ \E f \in Fingerprints : PolicyExpires(f)
           \/ \E v \in Convs : Evict(v)
           \/ AgentRestart
           \/ UNCHANGED enforceVars
    PROVE  EnforceInv'
<1> USE EnforcementAssumption
        DEF EnforceInv, EnforceTypeOK, Aimed, Decided, KillTakesHold, Armed, Checking,
            Marking, kernelVars, historyVars
<1>1. ASSUME NEW v \in Convs, NEW c \in Ctxs, WritePasses(v, c) PROVE EnforceInv'
    BY <1>1 DEF WritePasses
<1>2. CASE Observe
    BY <1>2, ObserveRing DEF Observe
<1>3. CASE Match
    BY <1>3 DEF Match, Hit
<1>4. CASE MatchMarks
    BY <1>4 DEF MatchMarks, Mark
<1>5. CASE Check
    BY <1>5 DEF Check, Resting
<1>6. CASE CheckMarks
    BY <1>6 DEF CheckMarks, Mark, Resting
<1>7. ASSUME NEW f \in Fingerprints, PolicyExpires(f) PROVE EnforceInv'
    BY <1>7 DEF PolicyExpires
<1>8. ASSUME NEW v \in Convs, Evict(v) PROVE EnforceInv'
    BY <1>8 DEF Evict
<1>9. CASE AgentRestart
    BY <1>9, NoCommandType DEF AgentRestart, Empty, Resting
<1>10. CASE UNCHANGED enforceVars
    BY <1>10 DEF enforceVars
<1> QED BY <1>1, <1>2, <1>3, <1>4, <1>5, <1>6, <1>7, <1>8, <1>9, <1>10 DEF CaptureStep

\* Each step of the downlink goroutine.
LEMMA DownlinkInv ==
    ASSUME EnforceInv,
           \/ \E f \in Fingerprints : BlockBegins(f) \/ UnblockBegins(f)
           \/ \E a \in Anchors : BlockAnchor(a)
           \/ DownlinkStep
    PROVE  EnforceInv'
<1> USE EnforcementAssumption
        DEF EnforceInv, EnforceTypeOK, Aimed, Decided, KillTakesHold, Armed, Checking,
            Marking, kernelVars, historyVars
<1>1. ASSUME NEW f \in Fingerprints, BlockBegins(f) PROVE EnforceInv'
    BY <1>1 DEF BlockBegins
<1>2. ASSUME NEW f \in Fingerprints, UnblockBegins(f) PROVE EnforceInv'
    BY <1>2 DEF UnblockBegins
<1>3. ASSUME NEW a \in Anchors, BlockAnchor(a) PROVE EnforceInv'
    <2>1. handled + 1 \in 0 .. MaxCommands
        BY <1>3 DEF BlockAnchor
    <2>2. /\ slots' \in [Slots -> [cmd : 0 .. MaxCommands, anchor : Anchors \cup {NoAnchor}]]
          /\ \A s \in Slots : slots'[s] = slots[s] \/ slots'[s].anchor = a
        BY <1>3, <2>1, ArmFacts DEF BlockAnchor
    <2> QED BY ZenonT(60), <1>3, <2>1, <2>2 DEF BlockAnchor
<1>4. CASE AsksSockets
    BY <1>4, SocketsType DEF AsksSockets
<1>5. ASSUME NEW c \in Ctxs, PreArm(c) PROVE EnforceInv'
    BY <1>5 DEF PreArm, Mark
<1>6. ASSUME NEW c \in Ctxs, Clear(c) PROVE EnforceInv'
    BY <1>6 DEF Clear
<1>7. CASE BlockEnds
    <2>1. CASE KnownAnchor(downlink.fp) = NoAnchor
        BY <1>7, <2>1, NoCommandType DEF BlockEnds
    <2>2. CASE KnownAnchor(downlink.fp) # NoAnchor
        <3> DEFINE a == KnownAnchor(downlink.fp)
        <3>1. a \in Anchors
            BY <2>2, KnownAnchorType
        <3>2. /\ slots' \in [Slots -> [cmd : 0 .. MaxCommands, anchor : Anchors \cup {NoAnchor}]]
              /\ \A s \in Slots : slots'[s] = slots[s] \/ slots'[s].anchor = a
            BY <1>7, <2>2, <3>1, ArmFacts DEF BlockEnds
        <3>3. targeted' = targeted \cup {v \in Convs : a \in Text[v]}
            BY <1>7, <2>2 DEF BlockEnds
        <3> HIDE DEF a
        <3> QED BY ZenonT(60), <1>7, <3>2, <3>3, NoCommandType DEF BlockEnds
    <2> QED BY <2>1, <2>2
<1>8. CASE UnblockEnds
    <2>1. /\ slots' \in [Slots -> [cmd : 0 .. MaxCommands, anchor : Anchors \cup {NoAnchor}]]
          /\ \A s \in Slots : slots'[s] = slots[s] \/ slots'[s] = Empty
        BY <1>8, DisarmFacts DEF UnblockEnds
    <2> QED BY <1>8, <2>1, NoCommandType DEF UnblockEnds
<1> QED BY <1>1, <1>2, <1>3, <1>4, <1>5, <1>6, <1>7, <1>8 DEF DownlinkStep

LEMMA NextInv == EnforceInv /\ [EnforceNext]_enforceVars => EnforceInv'
BY CaptureInv, DownlinkInv DEF EnforceNext

-----------------------------------------------------------------------------
(* Theorems *)

\* The invariant holds in every reachable state.
LEMMA Invariance == EnforceSpec => []EnforceInv
BY InitInv, NextInv, PTL DEF EnforceSpec

\* The variables keep their types; no slot, no map and no ring overflows.
THEOREM TypeCorrect == EnforceSpec => []EnforceTypeOK
<1>1. EnforceInv => EnforceTypeOK
    BY DEF EnforceInv
<1> QED BY <1>1, Invariance, PTL

\* However a block and the requests of its fingerprint interleave, neither
\* misses the other (cmd/agent/main.go:245-283, 540-550).
THEOREM KillsTakeHold == EnforceSpec => []KillTakesHold
<1>1. EnforceInv => KillTakesHold
    BY DEF EnforceInv
<1> QED BY <1>1, Invariance, PTL

\* A connection is marked only for a conversation a command was aimed at
\* (cmd/agent/main.go:520-550).
THEOREM TargetsOnly == EnforceSpec => OnlyTargetsMarked
<1> DEFINE OnTarget ==
        \A c \in blockedSsl' \ blockedSsl :
            \/ capture.ctx = c /\ capture.conv \in targeted
            \/ c \in downlink.todo
<1>1. EnforceInv /\ [EnforceNext]_enforceVars => [OnTarget]_enforceVars
    <2> SUFFICES ASSUME EnforceInv, EnforceNext PROVE OnTarget
        OBVIOUS
    <2>1. CASE MatchMarks \/ CheckMarks
        BY <2>1 DEF MatchMarks, CheckMarks, Mark, EnforceInv, Decided
    <2>2. ASSUME NEW c \in Ctxs, PreArm(c) PROVE OnTarget
        BY <2>2 DEF PreArm, Mark
    <2>3. CASE blockedSsl' \subseteq blockedSsl
        BY <2>3
    <2>4. \/ MatchMarks \/ CheckMarks \/ \E c \in Ctxs : PreArm(c)
          \/ blockedSsl' \subseteq blockedSsl
        BY DEF EnforceNext, CaptureStep, DownlinkStep, WritePasses, Observe, Match, Check,
               BlockBegins, UnblockBegins, BlockAnchor, AsksSockets, Clear, BlockEnds,
               UnblockEnds, PolicyExpires, Evict, AgentRestart, kernelVars
    <2> QED BY <2>1, <2>2, <2>3, <2>4
<1> QED BY <1>1, Invariance, PTL DEF EnforceSpec, OnlyTargetsMarked
=============================================================================
