----------------------------- MODULE Enforcement -----------------------------
(***************************************************************************)
(* The enforcement of operator commands by the agent                       *)
(* (apps/inferspect-agent): cmd/agent/main.go, internal/policy and the     *)
(* kernel side bpf/ssl_uprobe.c.                                           *)
(*                                                                         *)
(* Three parties run side by side.  The application writes requests on     *)
(* TLS connections; the uprobe lets a write pass, or corrupts it, looking  *)
(* only at the BPF maps.  The capture goroutine handles the requests that  *)
(* passed, later and in order.  The downlink goroutine handles commands,   *)
(* one after the other, as ControlChannel delivers them.                   *)
(*                                                                         *)
(* A conversation, a connection (the SSL* pointer) and an anchor text are  *)
(* model values; which fingerprint a conversation has and which anchors    *)
(* its requests contain are constants, because they are functions of its   *)
(* messages.  Left out: block_conversation and unblock_anchor, which no    *)
(* service sends, block_pid, which the agent ignores, the blocked_pids map *)
(* nothing writes to, and the counters of RecordKill.                      *)
(***************************************************************************)
EXTENDS Integers, Sequences, FiniteSets

CONSTANTS
    Convs,        (* conversations                                          *)
    Fingerprints, (* SHA256 of system prompt and first user message         *)
    FpOf,         (* the fingerprint of a conversation                      *)
    Anchors,      (* anchor texts                                           *)
    NoAnchor,     (* the first user message is too short for an anchor      *)
    AnchorOf,     (* what buildLocalAnchor makes for a fingerprint          *)
    Text,         (* the anchors every request of a conversation contains   *)
    Ctxs,         (* SSL* pointers                                          *)
    NoConv, NoCtx,
    MaxSlots,     (* maxAnchors: slots of blocked_anchors                   *)
    MaxSsl,       (* marks that fit blocked_ssl_contexts, an LRU map        *)
    RingMax,      (* captured writes the ring buffer holds                  *)
    Disturbances, (* what else may happen: see Time, memory and the process *)
    MaxCommands   (* bound of the model: commands handled                   *)

ASSUME EnforcementAssumption ==
    /\ Fingerprints # {}
    /\ FpOf \in [Convs -> Fingerprints]
    /\ NoAnchor \notin Anchors
    /\ AnchorOf \in [Fingerprints -> Anchors \cup {NoAnchor}]
    /\ Text \in [Convs -> SUBSET Anchors]
    /\ \A v \in Convs : AnchorOf[FpOf[v]] \in Text[v] \cup {NoAnchor}
    /\ NoConv \notin Convs
    /\ NoCtx \notin Ctxs
    /\ MaxSlots \in Nat \ {0}
    /\ MaxSsl \in Nat \ {0}
    /\ RingMax \in Nat \ {0}
    /\ Disturbances \subseteq {"expiry", "eviction", "restart", "update"}
    /\ MaxCommands \in Nat

VARIABLES
    policy,      (* Store.blocked: fingerprints with a live block           *)
    tracked,     (* Tracker: the last connection of each live conversation  *)
    blockedSsl,  (* BPF map blocked_ssl_contexts                            *)
    slots,       (* BPF map blocked_anchors and its mirror in AnchorStore   *)
    ring,        (* captured writes waiting for the capture goroutine       *)
    capture,     (* where handleRequest is                                  *)
    downlink,    (* where the command handler is                            *)
    handled,     (* how many commands it has begun                          *)
    targeted,    (* history: conversations a command was aimed at           *)
    unarmed,     (* history: connections deleted from blockedSsl by an      *)
                 (* unblock and not armed since                             *)
    slipped,     (* history: connections whose mark failed or was pushed    *)
                 (* out by others, and not armed since                      *)
    standing     (* history: blocks that no handled unblock has undone      *)

kernelVars == <<blockedSsl, slots, ring>>
historyVars == <<targeted, unarmed, slipped, standing>>
enforceVars == <<policy, tracked, kernelVars, capture, downlink, handled,
                 historyVars>>

Slots == 1 .. MaxSlots

Empty == [cmd |-> 0, anchor |-> NoAnchor]

Resting == [at |-> "idle", conv |-> NoConv, ctx |-> NoCtx]

NoCommand ==
    [at |-> "idle", fp |-> CHOOSE f \in Fingerprints : TRUE, todo |-> {}]

\* The agent as it starts, with the maps the loader has just created.
EnforceInit ==
    /\ handled = 0
    /\ policy = {}
    /\ tracked = [v \in Convs |-> NoCtx]
    /\ blockedSsl = {}
    /\ slots = [s \in Slots |-> Empty]
    /\ ring = <<>>
    /\ capture = Resting
    /\ downlink = NoCommand
    /\ targeted = {}
    /\ unarmed = {}
    /\ slipped = {}
    /\ standing = {}

-----------------------------------------------------------------------------
(* Helpers; the ones called Mut... are bugs the code could have had.          *)

Armed(s) == slots[s] # Empty

\* Only the most recent conversation, as in FirstUserTextForFingerprint.
MutSocketsFor(f) ==
    LET live == {v \in Convs : FpOf[v] = f /\ tracked[v] # NoCtx} IN
    IF live = {} THEN {} ELSE {tracked[CHOOSE v \in live : TRUE]}

\* SocketsForFingerprint: the last connection of every live conversation.
SocketsFor(f) == {tracked[v] : v \in {w \in Convs : FpOf[w] = f}} \ {NoCtx}

\* An anchor of length 0 is found in every body.
MutHit(v) == \E s \in Slots : slots[s].anchor \in Text[v] \cup {NoAnchor}

\* MatchBody: an armed anchor occurs in the body.
Hit(v) == \E s \in Slots : Armed(s) /\ slots[s].anchor \in Text[v]

\* The slot Arm uses: the one the command has already, else the first vacancy.
SlotFor(cmd) ==
    LET own  == {s \in Slots : Armed(s) /\ slots[s].cmd = cmd}
        free == {s \in Slots : ~Armed(s)}
        first(S) == {s \in S : \A t \in S : s <= t}
    IN  IF own # {} THEN first(own) ELSE first(free)

\* AnchorStore.Arm; with all slots in use it only logs an error.
Arm(cmd, a) ==
    slots' = [s \in Slots |->
                 IF s \in SlotFor(cmd) THEN [cmd |-> cmd, anchor |-> a] ELSE slots[s]]

\* DisarmIfAnchorMatches: the first slot that holds the anchor.
Disarm(a) ==
    LET same == {s \in Slots : Armed(s) /\ slots[s].anchor = a} IN
    slots' = [s \in Slots |->
                 IF s \in same /\ \A t \in same : s <= t THEN Empty ELSE slots[s]]

\* What FirstUserTextForFingerprint and buildLocalAnchor make of it, if there
\* is a live conversation and its message is long enough.
KnownAnchor(f) ==
    IF SocketsFor(f) # {} THEN AnchorOf[f] ELSE NoAnchor

\* Update of blocked_ssl_contexts, which the uprobe looks at.  A full LRU map
\* pushes marks out to make room, without a word.  An error is only logged.
Mark(c) ==
    \/ \E gone \in SUBSET (blockedSsl \ {c}) :
          /\ gone # {} => Cardinality(blockedSsl) >= MaxSsl
          /\ blockedSsl' = (blockedSsl \ gone) \cup {c}
          /\ unarmed' = unarmed \ {c}
          /\ slipped' = (slipped \cup gone) \ {c}
    \/ /\ "update" \in Disturbances
       /\ slipped' = slipped \cup ({c} \ blockedSsl)
       /\ UNCHANGED <<blockedSsl, unarmed>>

-----------------------------------------------------------------------------
(* The application and the uprobe on its writes *)

\* enforce_if_blocked lets a request pass and it is captured.  The anchor scan
\* sees only the first SCAN_WINDOW bytes, so an armed anchor may be missed.
WritePasses(v, c) ==
    /\ c \notin blockedSsl
    /\ Len(ring) < RingMax
    /\ ring' = Append(ring, [conv |-> v, ctx |-> c])
    /\ UNCHANGED <<policy, tracked, blockedSsl, slots, capture, downlink,
                   handled, historyVars>>

\* A write that is corrupted (the connection is marked, or an anchor is found)
\* and one that passes while the ring buffer is full change none of this state.

-----------------------------------------------------------------------------
(* The capture goroutine: handleRequest *)

\* The next request; the tracker notes the connection of its conversation.
Observe ==
    /\ capture.at = "idle"
    /\ ring # <<>>
    /\ LET r == Head(ring) IN
          /\ capture' = [at |-> "match", conv |-> r.conv, ctx |-> r.ctx]
          /\ tracked' = [tracked EXCEPT ![r.conv] = r.ctx]
    /\ ring' = Tail(ring)
    /\ UNCHANGED <<policy, blockedSsl, slots, downlink, handled, historyVars>>

\* Layer 2: MatchBody looks for an armed anchor.
Match ==
    /\ capture.at = "match"
    /\ capture' = [capture EXCEPT !.at = IF Hit(capture.conv) THEN "hit" ELSE "check"]
    /\ UNCHANGED <<policy, tracked, kernelVars, downlink, handled, historyVars>>

\* The hit marks the connection.
MatchMarks ==
    /\ capture.at = "hit"
    /\ Mark(capture.ctx)
    /\ capture' = [capture EXCEPT !.at = "check"]
    /\ UNCHANGED <<policy, tracked, slots, ring, downlink, handled,
                   targeted, standing>>

\* IsBlocked(fp).
Check ==
    /\ capture.at = "check"
    /\ capture' = IF FpOf[capture.conv] \in policy
                  THEN [capture EXCEPT !.at = "blocked"] ELSE Resting
    /\ UNCHANGED <<policy, tracked, kernelVars, downlink, handled, historyVars>>

\* The request is blocked: its connection is marked for the next write.
CheckMarks ==
    /\ capture.at = "blocked"
    /\ Mark(capture.ctx)
    /\ capture' = Resting
    /\ UNCHANGED <<policy, tracked, slots, ring, downlink, handled,
                   targeted, standing>>

CaptureStep == Observe \/ Match \/ MatchMarks \/ Check \/ CheckMarks

-----------------------------------------------------------------------------
(* The downlink goroutine *)

\* block_fingerprint puts the fingerprint into the policy store.
BlockBegins(f) ==
    /\ downlink.at = "idle"
    /\ handled < MaxCommands
    /\ handled' = handled + 1
    /\ policy' = policy \cup {f}
    /\ downlink' = [at |-> "block", fp |-> f, todo |-> {}]
    /\ targeted' = targeted \cup {v \in Convs : FpOf[v] = f}
    /\ standing' = standing \cup {f}
    /\ UNCHANGED <<tracked, kernelVars, capture, unarmed, slipped>>

\* unblock_fingerprint takes it out.
UnblockBegins(f) ==
    /\ downlink.at = "idle"
    /\ handled < MaxCommands
    /\ handled' = handled + 1
    /\ policy' = policy \ {f}
    /\ downlink' = [at |-> "unblock", fp |-> f, todo |-> {}]
    /\ UNCHANGED <<tracked, kernelVars, capture, historyVars>>

\* Both then ask the tracker for the connections of the fingerprint.
AsksSockets ==
    /\ downlink.at \in {"block", "unblock"}
    /\ downlink' = [downlink EXCEPT
          !.at = IF @ = "block" THEN "marking" ELSE "clearing",
          !.todo = SocketsFor(downlink.fp)]
    /\ UNCHANGED <<policy, tracked, kernelVars, capture, handled, historyVars>>

\* preArmKernel for one of them.
PreArm(c) ==
    /\ downlink.at = "marking"
    /\ c \in downlink.todo
    /\ Mark(c)
    /\ downlink' = [downlink EXCEPT !.todo = @ \ {c}]
    /\ UNCHANGED <<policy, tracked, slots, ring, capture, handled,
                   targeted, standing>>

\* The unblock deletes one of them.
Clear(c) ==
    /\ downlink.at = "clearing"
    /\ c \in downlink.todo
    /\ blockedSsl' = blockedSsl \ {c}
    /\ unarmed' = unarmed \cup {c}
    /\ downlink' = [downlink EXCEPT !.todo = @ \ {c}]
    /\ UNCHANGED <<policy, tracked, slots, ring, capture, handled,
                   targeted, slipped, standing>>

\* The block ends by arming the content anchor, if it is known.
BlockEnds ==
    /\ downlink.at = "marking"
    /\ downlink.todo = {}
    /\ LET a == KnownAnchor(downlink.fp) IN
          IF a = NoAnchor
          THEN UNCHANGED <<slots, targeted>>
          ELSE /\ Arm(handled, a)
               /\ targeted' = targeted \cup {v \in Convs : a \in Text[v]}
    /\ downlink' = NoCommand
    /\ UNCHANGED <<policy, tracked, blockedSsl, ring, capture, handled,
                   unarmed, slipped, standing>>

\* The unblock ends by disarming it.
UnblockEnds ==
    /\ downlink.at = "clearing"
    /\ downlink.todo = {}
    /\ IF KnownAnchor(downlink.fp) = NoAnchor
       THEN UNCHANGED slots
       ELSE Disarm(AnchorOf[downlink.fp])
    /\ standing' = standing \ {downlink.fp}
    /\ downlink' = NoCommand
    /\ UNCHANGED <<policy, tracked, blockedSsl, ring, capture, handled,
                   targeted, unarmed, slipped>>

\* block_anchor: nothing but Arm.  No command of a service takes it back.
BlockAnchor(a) ==
    /\ downlink.at = "idle"
    /\ handled < MaxCommands
    /\ handled' = handled + 1
    /\ Arm(handled + 1, a)
    /\ targeted' = targeted \cup {v \in Convs : a \in Text[v]}
    /\ standing' = standing \cup {a}
    /\ UNCHANGED <<policy, tracked, blockedSsl, ring, capture, downlink,
                   unarmed, slipped>>

DownlinkStep ==
    \/ AsksSockets
    \/ \E c \in Ctxs : PreArm(c) \/ Clear(c)
    \/ BlockEnds
    \/ UnblockEnds

-----------------------------------------------------------------------------
(* Time, memory and the process *)

\* The block of a fingerprint is ttl_seconds old.  Only the policy store knows.
PolicyExpires(f) ==
    /\ "expiry" \in Disturbances
    /\ f \in policy
    /\ policy' = policy \ {f}
    /\ UNCHANGED <<tracked, kernelVars, capture, downlink, handled, historyVars>>

\* The tracker forgets a conversation: it was idle, or it has too many.
Evict(v) ==
    /\ "eviction" \in Disturbances
    /\ tracked[v] # NoCtx
    /\ tracked' = [tracked EXCEPT ![v] = NoCtx]
    /\ UNCHANGED <<policy, kernelVars, capture, downlink, handled, historyVars>>

\* The agent dies and is started again; its maps die with it.
AgentRestart ==
    /\ "restart" \in Disturbances
    /\ handled > 0
    /\ policy' = {}
    /\ tracked' = [v \in Convs |-> NoCtx]
    /\ blockedSsl' = {}
    /\ slots' = [s \in Slots |-> Empty]
    /\ ring' = <<>>
    /\ capture' = Resting
    /\ downlink' = NoCommand
    /\ targeted' = {}
    /\ unarmed' = {}
    /\ slipped' = {}
    /\ standing' = {}
    /\ UNCHANGED handled

-----------------------------------------------------------------------------
(* The specification *)

EnforceNext ==
    \/ \E v \in Convs, c \in Ctxs : WritePasses(v, c)
    \/ CaptureStep
    \/ \E f \in Fingerprints : BlockBegins(f) \/ UnblockBegins(f)
    \/ \E a \in Anchors : BlockAnchor(a)
    \/ DownlinkStep
    \/ \E f \in Fingerprints : PolicyExpires(f)
    \/ \E v \in Convs : Evict(v)
    \/ AgentRestart

EnforceSpec == EnforceInit /\ [][EnforceNext]_enforceVars

-----------------------------------------------------------------------------
(* Properties *)

\* The variables have their types.
EnforceTypeOK ==
    /\ policy \subseteq Fingerprints
    /\ tracked \in [Convs -> Ctxs \cup {NoCtx}]
    /\ blockedSsl \subseteq Ctxs
    /\ slots \in [Slots -> [cmd : 0 .. MaxCommands, anchor : Anchors \cup {NoAnchor}]]
    /\ ring \in Seq([conv : Convs, ctx : Ctxs]) /\ Len(ring) <= RingMax
    /\ capture \in [at : {"idle", "match", "hit", "check", "blocked"},
                    conv : Convs \cup {NoConv}, ctx : Ctxs \cup {NoCtx}]
    /\ downlink \in [at : {"idle", "block", "marking", "unblock", "clearing"},
                     fp : Fingerprints, todo : SUBSET Ctxs]
    /\ handled \in 0 .. MaxCommands
    /\ targeted \subseteq Convs
    /\ unarmed \subseteq Ctxs
    /\ slipped \subseteq Ctxs \ blockedSsl
    /\ standing \subseteq Fingerprints \cup Anchors

\* handleRequest is on its way to the policy check of this conversation.
Checking(v, c) == capture.at # "idle" /\ capture.conv = v /\ capture.ctx = c

\* The block command is on its way to this connection.
Marking(v, c) ==
    /\ downlink.fp = FpOf[v]
    /\ \/ downlink.at = "block"
       \/ downlink.at = "marking" /\ c \in downlink.todo

\* Whichever way a request and the block of its fingerprint interleave, the
\* connection is marked: the command finds it in the tracker, or the request
\* finds the fingerprint in the policy store.  A connection goes unmarked only
\* by an unblock command, which may be aimed at another conversation on it, by
\* an update of the map that failed, or by later marks that overran the map.
KillTakesHold ==
    \A v \in Convs :
        (tracked[v] # NoCtx /\ FpOf[v] \in policy) =>
            \/ tracked[v] \in blockedSsl \cup unarmed \cup slipped
            \/ Checking(v, tracked[v])
            \/ Marking(v, tracked[v])

\* Nobody gets in the way by accident: a connection is marked only for a
\* conversation that some command was aimed at, by its fingerprint or by its
\* text, although the decision may be older than the state it is acted on.
OnlyTargetsMarked ==
    [][\A c \in blockedSsl' \ blockedSsl :
          \/ capture.ctx = c /\ capture.conv \in targeted
          \/ c \in downlink.todo]_enforceVars

\* cmd/agent/main.go:285: an unblock clears every BPF-side enforcement state of
\* its fingerprint.  Once every block ever handled has been undone that way,
\* nothing is enforced any more.
UnblockClears ==
    (standing = {} /\ downlink.at = "idle" /\ capture.at = "idle" /\ ring = <<>>)
        => blockedSsl = {} /\ \A s \in Slots : ~Armed(s)
=============================================================================
