------------------------------ MODULE Tracker ------------------------------
(***************************************************************************)
(* The conversation tracker of the agent                                   *)
(* (inferspect-agent/internal/fingerprint/tracker.go) and the requests     *)
(* whose answers it waits for (requestStore, handleRequest and             *)
(* handleResponse of cmd/agent/main.go).                                   *)
(*                                                                         *)
(* A rolling hash stands for the messages it was computed over: SHA-256 is *)
(* taken to have no collisions, so a hash is the sequence of messages.     *)
(* What a request and its answer do to the tracker is done under its mutex *)
(* by the one goroutine that reads the ring buffer; the sweeps are on      *)
(* goroutines of their own.  The connection of a conversation, which a     *)
(* kill asks for, is in Enforcement.                                       *)
(***************************************************************************)
EXTENDS Integers, Sequences, FiniteSets

CONSTANTS
    Contents,         (* texts of messages, normalised                      *)
    Bodies,           (* the messages of the requests that can be captured  *)
    Conns,            (* connections: a process and one of its SSL contexts *)
    Pids, SslCtxs,
    MaxConversations, (* the cap: maxConversations                          *)
    MaxTime           (* bound of the model: readings of the clock          *)

Message == [role : {"system", "user", "assistant", "tool"}, content : Contents]

ASSUME TrackerAssumption ==
    /\ Bodies \subseteq Seq(Message) \ {<<>>}
    /\ Conns \subseteq [pid : Pids, sslCtx : SslCtxs]
    /\ IsFiniteSet(Conns) /\ Conns # {}
    /\ MaxConversations \in Nat \ {0}
    /\ MaxTime \in Nat

VARIABLES
    convs,     (* every Conversation ever made; its agent id is its number  *)
    byHash,    (* rolling hash -> agent id                                  *)
    byAgentID, (* the agent ids that have an entry                          *)
    contexts,  (* requestStore: the conversation of a connection's request  *)
    now,       (* the clock                                                 *)
    requests   (* history: what agent id was given to which request         *)

trackerVars == <<convs, byHash, byAgentID, contexts, now, requests>>

NoRequest == 0

TrackerInit ==
    /\ convs = <<>>
    /\ byHash = [h \in {} |-> 0]
    /\ byAgentID = {}
    /\ contexts = [c \in Conns |-> NoRequest]
    /\ now = 0
    /\ requests = {}

-----------------------------------------------------------------------------
(* Helpers; the ones called Mut... are bugs the code could have had.          *)

\* A map without some keys, and one with one more.
Without(f, keys) == [k \in DOMAIN f \ keys |-> f[k]]
With(f, key, v) == [k \in DOMAIN f \cup {key} |-> IF k = key THEN v ELSE f[k]]

Hashes == DOMAIN byHash
Indexed == {byHash[h] : h \in Hashes}

Assistant(content) == [role |-> "assistant", content |-> content]

Predecessor(messages) == SubSeq(messages, 1, Len(messages) - 1)

LooksLikeContinuation(messages) ==
    /\ Len(messages) >= 4
    /\ messages[Len(messages)].role = "user"
    /\ messages[Len(messages) - 1].role = "assistant"

\* A continuation of whichever process.
MutContinues(pid, messages) ==
    LooksLikeContinuation(messages) /\ Predecessor(messages) \in Hashes

\* The request is the next turn of a conversation of its process.
Continues(pid, messages) ==
    /\ LooksLikeContinuation(messages)
    /\ Predecessor(messages) \in Hashes
    /\ convs[byHash[Predecessor(messages)]].pid = pid

\* The old key stays in the index.
MutMoved(old, new, id) == With(byHash, new, id)

\* A conversation moves to the hash of its new messages: delete-old, insert-new.
Moved(old, new, id) == With(Without(byHash, {old}), new, id)

\* Its hash and its last activity.
Renewed(id, messages) ==
    [convs EXCEPT ![id] = [@ EXCEPT !.hash = messages, !.activity = now + 1]]

Oldest ==
    {h \in Hashes : \A g \in Hashes :
        convs[byHash[h]].activity <= convs[byHash[g]].activity}

\* One too many is let in.
MutEvicting == IF Cardinality(Hashes) > MaxConversations
               THEN {{h} : h \in Oldest} ELSE {{}}

\* evictOneLocked, when the cap is reached: the keys that may go.
Evicting == IF Cardinality(Hashes) >= MaxConversations
            THEN {{h} : h \in Oldest} ELSE {{}}

\* The second index is forgotten.
MutTracked(gone) == byAgentID

\* The agent ids that stay when these keys go.
Tracked(gone) == byAgentID \ {byHash[h] : h \in gone}

-----------------------------------------------------------------------------
(* Requests: handleRequest, IdentifyOrCreate and rs.put *)

\* The request got an agent id and waits for its answer.
Identified(c, messages, id) ==
    /\ contexts' = [contexts EXCEPT ![c] = id]
    /\ requests' = requests \cup {[agentID |-> id, pid |-> c.pid, body |-> messages]}

\* The next turn of a conversation.
Extend(c, messages) ==
    /\ now < MaxTime
    /\ Continues(c.pid, messages)
    /\ now' = now + 1
    /\ LET id == byHash[Predecessor(messages)] IN
          /\ byHash' = Moved(Predecessor(messages), messages, id)
          /\ convs' = Renewed(id, messages)
          /\ Identified(c, messages, id)
    /\ UNCHANGED byAgentID

\* A conversation the tracker does not know.
MintNew(c, messages) ==
    /\ now < MaxTime
    /\ ~Continues(c.pid, messages)
    /\ now' = now + 1
    /\ LET id == Len(convs) + 1 IN
          /\ convs' = Append(convs, [hash |-> messages, pid |-> c.pid,
                                     activity |-> now + 1])
          /\ \E gone \in Evicting :
                /\ byHash' = With(Without(byHash, gone), messages, id)
                /\ byAgentID' = Tracked(gone) \cup {id}
          /\ Identified(c, messages, id)

-----------------------------------------------------------------------------
(* Answers: handleResponse and rs.take *)

Taken(c) ==
    /\ contexts[c] # NoRequest
    /\ contexts' = [contexts EXCEPT ![c] = NoRequest]
    /\ UNCHANGED requests

\* AppendAssistant of a conversation that is still tracked.
AppendAssistant(c, content) ==
    LET id == contexts[c]
        new == Append(convs[id].hash, Assistant(content))
    IN  /\ now < MaxTime
        /\ Taken(c)
        /\ id \in byAgentID
        /\ now' = now + 1
        /\ byHash' = Moved(convs[id].hash, new, id)
        /\ convs' = Renewed(id, new)
        /\ UNCHANGED byAgentID

\* The answer is a stream or does not parse, its conversation is gone, or the
\* context is gone: swept after five minutes, or replaced by a request whose
\* messages could not be read.
AnswerMissed(c) ==
    /\ Taken(c)
    /\ UNCHANGED <<convs, byHash, byAgentID, now>>

-----------------------------------------------------------------------------
(* sweepOnce, with a cutoff of an hour ago: any time so far *)

SweepOnce(cutoff) ==
    LET gone == {h \in Hashes : convs[byHash[h]].activity < cutoff} IN
    /\ gone # {}
    /\ byHash' = Without(byHash, gone)
    /\ byAgentID' = Tracked(gone)
    /\ UNCHANGED <<convs, contexts, now, requests>>

-----------------------------------------------------------------------------
(* The specification *)

TrackerNext ==
    \/ \E c \in Conns, messages \in Bodies : Extend(c, messages) \/ MintNew(c, messages)
    \/ \E c \in Conns, content \in Contents : AppendAssistant(c, content)
    \/ \E c \in Conns : AnswerMissed(c)
    \/ \E cutoff \in 1 .. now : SweepOnce(cutoff)

TrackerSpec == TrackerInit /\ [][TrackerNext]_trackerVars

-----------------------------------------------------------------------------
(* Properties *)

Prefix(s, t) == Len(s) <= Len(t) /\ \A i \in 1 .. Len(s) : s[i] = t[i]

TrackerTypeOK ==
    /\ convs \in Seq([hash : Seq(Message), pid : Pids, activity : 1 .. MaxTime])
    /\ byHash = [h \in Hashes |-> byHash[h]] /\ Hashes \subseteq Seq(Message)
    /\ Indexed \subseteq DOMAIN convs /\ IsFiniteSet(Hashes)
    /\ byAgentID \subseteq DOMAIN convs
    /\ contexts \in [Conns -> {NoRequest} \cup DOMAIN convs]
    /\ now \in 0 .. MaxTime
    /\ requests \subseteq [agentID : DOMAIN convs, pid : Pids, body : Seq(Message)]

\* The two indexes agree: an entry of the first is a conversation of the second,
\* under the hash of its messages.  (tracker.go keeps the hash in three places.)
IndexConsistent ==
    \A h \in Hashes : byHash[h] \in byAgentID /\ convs[byHash[h]].hash = h

\* One agent id is one conversation of one process: of any two requests that
\* were given it, one continues the other.  Conversations that started the same
\* have ids of their own once they differ, whichever answers were missed, came
\* late or were given to a conversation that moved on.
OneChainPerId ==
    \A r, s \in requests : r.agentID = s.agentID =>
        /\ r.pid = s.pid
        /\ Prefix(r.body, s.body) \/ Prefix(s.body, r.body)

\* The conversations that an answer is waited for, and those of them that are not in
\* the first index: an answer puts them back.
AwaitedAt(conns) == {contexts[c] : c \in conns}
Displaced == AwaitedAt(Conns) \cap (byAgentID \ Indexed)

\* The first index outgrows its cap by no more than the answers that can be
\* waited for, even when all of them come: AppendAssistant puts a conversation
\* back that another with the same messages had displaced, and does not look at
\* the cap.
IndexBounded ==
    Cardinality(Hashes) + Cardinality(Displaced) < MaxConversations + Cardinality(Conns)

\* A conversation that can be recognised stops being so only when it is evicted,
\* or when another has, or had until now, exactly its messages.
LosesOnlyToEqual ==
    [][\A i \in Indexed \ Indexed' :
          \/ i \notin byAgentID'
          \/ \E j \in byAgentID' \ {i} :
                \/ convs'[j].hash = convs[i].hash
                \/ j \in byAgentID /\ convs[j].hash = convs[i].hash]_trackerVars
=============================================================================
