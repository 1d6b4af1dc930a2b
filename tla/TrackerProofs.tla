---------------------------- MODULE TrackerProofs ----------------------------
(***************************************************************************)
(* What holds of Tracker for any messages, processes, connections and      *)
(* requests and any cap.                                                   *)
(*                                                                         *)
(* The inductive invariant TrackerInv has three parts beside the types.    *)
(* The two indexes agree.  Every body a conversation was the answer to is  *)
(* a prefix of its messages: they only grow, so of two bodies of one       *)
(* conversation one continues the other.  And the size of the first index, *)
(* together with the conversations that are not in it but may be put back  *)
(* when their answer comes, stays below the cap plus the connections: what *)
(* displaces a conversation makes no entry, and what puts one back has     *)
(* been counted already.                                                   *)
(***************************************************************************)
EXTENDS Tracker, SequenceTheorems, FunctionTheorems, FiniteSetTheorems, TLAPS

ConvType == [hash : Seq(Message), pid : Pids, activity : 1 .. MaxTime]

\* A request and the conversation it was given.
Grown ==
    \A r \in requests :
        /\ r.pid = convs[r.agentID].pid
        /\ Prefix(r.body, convs[r.agentID].hash)

TrackerInv ==
    /\ TrackerTypeOK
    /\ IndexConsistent
    /\ Grown
    /\ IndexBounded

-----------------------------------------------------------------------------
(* Sequences and maps *)

LEMMA PrefixTrans ==
    ASSUME NEW r \in Seq(Message), NEW s \in Seq(Message), NEW t \in Seq(Message),
           Prefix(r, s), Prefix(s, t)
    PROVE  Prefix(r, t)
BY DEF Prefix

\* Prefixes of the same messages are prefixes of one another.
LEMMA PrefixComparable ==
    ASSUME NEW r \in Seq(Message), NEW s \in Seq(Message), NEW t \in Seq(Message),
           Prefix(r, t), Prefix(s, t)
    PROVE  Prefix(r, s) \/ Prefix(s, r)
<1>1. CASE Len(r) <= Len(s)
    BY <1>1 DEF Prefix
<1>2. CASE Len(s) <= Len(r)
    BY <1>2 DEF Prefix
<1> QED BY <1>1, <1>2

\* The messages before the last.
LEMMA PredecessorFacts ==
    ASSUME NEW m \in Bodies, LooksLikeContinuation(m)
    PROVE  /\ m \in Seq(Message) /\ Predecessor(m) \in Seq(Message)
           /\ Prefix(Predecessor(m), m) /\ Predecessor(m) # m
<1> DEFINE n == Len(m)
           p == Predecessor(m)
<1>1. m \in Seq(Message) /\ n \in Nat /\ n >= 4
    BY TrackerAssumption DEF LooksLikeContinuation
<1> HIDE DEF n
<1>2. \A i \in 1 .. n - 1 : m[i] \in Message
    BY <1>1 DEF n
<1>3. 1 \in Int /\ n - 1 \in Int
    BY <1>1
<1>4. /\ SubSeq(m, 1, n - 1) \in Seq(Message)
      /\ Len(SubSeq(m, 1, n - 1)) = IF 1 <= n - 1 THEN (n - 1) - 1 + 1 ELSE 0
      /\ \A i \in 1 .. (n - 1) - 1 + 1 : SubSeq(m, 1, n - 1)[i] = m[1 + i - 1]
    BY <1>2, <1>3, SubSeqProperties
<1>5. p = SubSeq(m, 1, n - 1)
    BY DEF Predecessor, n
<1> HIDE DEF p
<1>6. p \in Seq(Message) /\ Len(p) = n - 1 /\ \A i \in 1 .. n - 1 : p[i] = m[i]
    BY <1>1, <1>4, <1>5
<1>7. Prefix(p, m) /\ p # m
    BY <1>1, <1>6 DEF Prefix, n
<1> QED BY <1>1, <1>6, <1>7 DEF p

\* The messages with an answer.
LEMMA AnswerFacts ==
    ASSUME NEW s \in Seq(Message), NEW content \in Contents
    PROVE  /\ Append(s, Assistant(content)) \in Seq(Message)
           /\ Prefix(s, Append(s, Assistant(content)))
           /\ s # Append(s, Assistant(content))
<1> DEFINE t == Append(s, Assistant(content))
<1>1. Assistant(content) \in Message
    BY DEF Assistant, Message
<1>2. t \in Seq(Message) /\ Len(t) = Len(s) + 1 /\ \A i \in 1 .. Len(s) : t[i] = s[i]
    BY <1>1, AppendProperties
<1> HIDE DEF t
<1> QED BY <1>2 DEF Prefix, t

\* One conversation gets new messages.
LEMMA RenewFacts ==
    ASSUME TrackerTypeOK, NEW id \in DOMAIN convs, NEW new \in Seq(Message), now < MaxTime,
           convs' = Renewed(id, new)
    PROVE  /\ convs' \in Seq(ConvType) /\ DOMAIN convs' = DOMAIN convs
           /\ convs'[id].hash = new /\ convs'[id].pid = convs[id].pid
           /\ \A j \in DOMAIN convs \ {id} : convs'[j] = convs[j]
<1> DEFINE y == [convs[id] EXCEPT !.hash = new, !.activity = now + 1]
<1>1. convs \in Seq(ConvType) /\ id \in 1 .. Len(convs) /\ DOMAIN convs = 1 .. Len(convs)
    BY DEF TrackerTypeOK, ConvType
<1>2. convs[id] \in ConvType
    BY <1>1, ElementOfSeq
<1>3. now + 1 \in 1 .. MaxTime
    BY TrackerAssumption DEF TrackerTypeOK
<1>4. y \in ConvType /\ y.hash = new /\ y.pid = convs[id].pid
    BY <1>2, <1>3 DEF ConvType
<1>5. convs' = [convs EXCEPT ![id] = y]
    BY <1>1 DEF Renewed
<1> HIDE DEF y
<1>6. /\ convs' \in Seq(ConvType) /\ Len(convs') = Len(convs)
      /\ \A j \in 1 .. Len(convs) : convs'[j] = IF j = id THEN y ELSE convs[j]
    BY <1>1, <1>4, <1>5, ExceptSeq
<1>7. DOMAIN convs' = 1 .. Len(convs')
    BY <1>6
<1> QED BY <1>1, <1>4, <1>6, <1>7

-----------------------------------------------------------------------------
(* Typing and the indexes *)

LEMMA InitInv == TrackerInit => TrackerInv
<1> SUFFICES ASSUME TrackerInit PROVE TrackerInv
    OBVIOUS
<1> USE TrackerAssumption DEF TrackerInit
<1>1. Hashes = {} /\ Indexed = {} /\ DOMAIN convs = {}
    BY DEF Hashes, Indexed
<1>2. TrackerTypeOK
    <2>1. byHash = [h \in Hashes |-> byHash[h]]
        BY DEF Hashes
    <2>2. convs \in Seq([hash : Seq(Message), pid : Pids, activity : 1 .. MaxTime])
        OBVIOUS
    <2>3. contexts \in [Conns -> {NoRequest} \cup DOMAIN convs]
        OBVIOUS
    <2>4. now \in 0 .. MaxTime
        OBVIOUS
    <2> QED BY <1>1, <2>1, <2>2, <2>3, <2>4, FS_EmptySet DEF TrackerTypeOK
<1>3. IndexConsistent /\ Grown
    BY <1>1 DEF IndexConsistent, Grown
<1>4. IndexBounded
    <2>1. Displaced = {}
        BY DEF Displaced
    <2>2. Cardinality(Conns) \in Nat /\ Cardinality(Hashes) = 0 /\ Cardinality(Displaced) = 0
        BY <1>1, <2>1, FS_EmptySet, FS_CardinalityType
    <2> QED BY <2>2 DEF IndexBounded
<1> QED BY <1>2, <1>3, <1>4 DEF TrackerInv

\* What a next turn and an answer do to the tracker.
Moves(id, new) ==
    /\ id \in byAgentID
    /\ new \in Seq(Message)
    /\ Prefix(convs[id].hash, new)
    /\ convs[id].hash # new
    /\ now < MaxTime
    /\ now' = now + 1
    /\ byHash' = Moved(convs[id].hash, new, id)
    /\ convs' = Renewed(id, new)
    /\ UNCHANGED byAgentID

\* The same, entry by entry.
Effect(id, new) ==
    /\ id \in DOMAIN convs /\ convs[id].hash \in Seq(Message)
    /\ Hashes' = (Hashes \ {convs[id].hash}) \cup {new}
    /\ byHash'[new] = id
    /\ \A h \in (Hashes \ {convs[id].hash}) \ {new} : byHash'[h] = byHash[h]
    /\ byHash' = [h \in Hashes' |-> byHash'[h]]
    /\ convs' \in Seq(ConvType) /\ DOMAIN convs' = DOMAIN convs
    /\ convs'[id].hash = new /\ convs'[id].pid = convs[id].pid
    /\ \A j \in DOMAIN convs \ {id} : convs'[j] = convs[j]

LEMMA MoveFacts ==
    ASSUME TrackerInv, NEW id, NEW new, Moves(id, new)
    PROVE  Effect(id, new)
<1>1. id \in DOMAIN convs
    BY DEF Moves, TrackerInv, TrackerTypeOK
<1>2. convs[id].hash \in Seq(Message)
    <2>1. convs \in Seq(ConvType) /\ id \in 1 .. Len(convs)
        BY <1>1 DEF TrackerInv, TrackerTypeOK, ConvType
    <2>2. convs[id] \in ConvType
        BY <2>1, ElementOfSeq
    <2> QED BY <2>2 DEF ConvType
<1>3. byHash' = With(Without(byHash, {convs[id].hash}), new, id)
    BY DEF Moves, Moved
<1>4. /\ Hashes' = (Hashes \ {convs[id].hash}) \cup {new}
      /\ byHash'[new] = id
      /\ \A h \in (Hashes \ {convs[id].hash}) \ {new} : byHash'[h] = byHash[h]
      /\ byHash' = [h \in Hashes' |-> byHash'[h]]
    <2> DEFINE old == {convs[id].hash}
               f == byHash
               g == byHash'
    <2>1. g = With(Without(f, old), new, id)
        BY <1>3
    <2> HIDE DEF old, f, g
    <2>2. /\ DOMAIN g = (DOMAIN f \ old) \cup {new}
          /\ g[new] = id
          /\ \A h \in (DOMAIN f \ old) \ {new} : g[h] = f[h]
          /\ g = [h \in DOMAIN g |-> g[h]]
        BY <2>1 DEF With, Without
    <2> QED BY <2>2 DEF old, f, g, Hashes
<1>5. /\ convs' \in Seq(ConvType) /\ DOMAIN convs' = DOMAIN convs
      /\ convs'[id].hash = new /\ convs'[id].pid = convs[id].pid
      /\ \A j \in DOMAIN convs \ {id} : convs'[j] = convs[j]
    BY <1>1, RenewFacts DEF Moves, TrackerInv
<1> QED BY <1>1, <1>2, <1>4, <1>5 DEF Effect

\* Everything but contexts and requests keeps its type, and the indexes agree.
IndexTypes ==
    /\ convs \in Seq(ConvType)
    /\ byHash = [h \in Hashes |-> byHash[h]] /\ Hashes \subseteq Seq(Message)
    /\ Indexed \subseteq DOMAIN convs /\ IsFiniteSet(Hashes)
    /\ byAgentID \subseteq DOMAIN convs
    /\ now \in 0 .. MaxTime

LEMMA MoveTypes ==
    ASSUME TrackerInv, NEW id, NEW new, Moves(id, new)
    PROVE  IndexTypes' /\ IndexConsistent'
<1>0. Effect(id, new)
    BY MoveFacts
<1> USE <1>0 DEF Effect
<1>1. Hashes' \subseteq Seq(Message)
    BY DEF Moves, TrackerInv, TrackerTypeOK
<1>2. IsFiniteSet(Hashes')
    <2>1. IsFiniteSet(Hashes \ {convs[id].hash})
        BY FS_RemoveElement DEF TrackerInv, TrackerTypeOK
    <2> QED BY <2>1, FS_AddElement
<1>3. \A h \in Hashes' : h # new => /\ h \in Hashes /\ byHash'[h] = byHash[h]
                                     /\ h # convs[id].hash
    OBVIOUS
<1>4. Indexed' \subseteq DOMAIN convs'
    <2>1. \A h \in Hashes : byHash[h] \in DOMAIN convs
        BY DEF TrackerInv, TrackerTypeOK, Indexed
    <2>2. \A h \in Hashes' : byHash'[h] \in DOMAIN convs
        BY <1>3, <2>1
    <2> QED BY <2>2 DEF Indexed
<1>5. now' \in 0 .. MaxTime
    BY TrackerAssumption DEF Moves, TrackerInv, TrackerTypeOK
<1>6. byAgentID' \subseteq DOMAIN convs'
    BY DEF Moves, TrackerInv, TrackerTypeOK
<1>7. IndexConsistent'
    <2> SUFFICES ASSUME NEW h \in Hashes'
                 PROVE  byHash'[h] \in byAgentID' /\ convs'[byHash'[h]].hash = h
        BY DEF IndexConsistent
    <2>1. CASE h = new
        BY <2>1 DEF Moves
    <2>2. CASE h # new
        <3>1. /\ h \in Hashes /\ byHash'[h] = byHash[h]
              /\ byHash[h] \in byAgentID /\ convs[byHash[h]].hash = h
              /\ byHash[h] # id /\ byHash[h] \in DOMAIN convs
            BY <1>3, <2>2 DEF TrackerInv, IndexConsistent, TrackerTypeOK
        <3> QED BY <3>1 DEF Moves
    <2> QED BY <2>1, <2>2
<1> QED BY <1>1, <1>2, <1>4, <1>5, <1>6, <1>7 DEF IndexTypes

\* The bodies of a conversation are prefixes of its new messages as well.
LEMMA MoveGrown ==
    ASSUME TrackerInv, NEW id, NEW new, Moves(id, new),
           NEW r \in requests
    PROVE  /\ r.pid = convs'[r.agentID].pid
           /\ Prefix(r.body, convs'[r.agentID].hash)
<1>0. Effect(id, new)
    BY MoveFacts
<1>1. /\ r.agentID \in DOMAIN convs /\ r.body \in Seq(Message)
      /\ r.pid = convs[r.agentID].pid /\ Prefix(r.body, convs[r.agentID].hash)
    BY DEF TrackerInv, TrackerTypeOK, Grown
<1>2. CASE r.agentID # id
    BY <1>0, <1>1, <1>2 DEF Effect
<1>3. CASE r.agentID = id
    <2>1. Prefix(r.body, convs[id].hash) /\ Prefix(convs[id].hash, new)
        BY <1>1, <1>3 DEF Moves
    <2>2. Prefix(r.body, new)
        BY <1>0, <1>1, <2>1, PrefixTrans DEF Moves, Effect
    <2> QED BY <1>0, <1>1, <1>3, <2>2 DEF Effect
<1> QED BY <1>2, <1>3

-----------------------------------------------------------------------------
(* Sizes *)

\* As many answers as connections can be waited for.
LEMMA ImageSize ==
    ASSUME NEW f, NEW S, IsFiniteSet(S)
    PROVE  /\ IsFiniteSet({f[x] : x \in S})
           /\ Cardinality({f[x] : x \in S}) <= Cardinality(S)
<1> DEFINE T == {f[x] : x \in S}
           g == [x \in S |-> f[x]]
<1>1. g \in [S -> T] /\ \A t \in T : \E s \in S : g[s] = t
    OBVIOUS
<1> HIDE DEF T, g
<1>2. g \in Surjection(S, T)
    BY <1>1, Fun_IsSurj
<1>3. IsFiniteSet(T) /\ Cardinality(T) <= Cardinality(S)
    BY <1>2, FS_Surjection
<1> QED BY <1>3 DEF T

\* One element more, which displaces another if it was there.
LEMMA Insertion ==
    ASSUME NEW K, NEW P, IsFiniteSet(K), IsFiniteSet(P), NEW new, NEW x, NEW Q,
           Q \subseteq P \cup {x}, new \notin K => Q \subseteq P
    PROVE  /\ IsFiniteSet(K \cup {new}) /\ IsFiniteSet(Q)
           /\ Cardinality(K \cup {new}) + Cardinality(Q) <= Cardinality(K) + Cardinality(P) + 1
<1>1. /\ IsFiniteSet(K \cup {new})
      /\ Cardinality(K \cup {new}) = IF new \in K THEN Cardinality(K) ELSE Cardinality(K) + 1
    BY FS_AddElement
<1>2. /\ IsFiniteSet(P \cup {x})
      /\ Cardinality(P \cup {x}) = IF x \in P THEN Cardinality(P) ELSE Cardinality(P) + 1
    BY FS_AddElement
<1>3. IsFiniteSet(Q) /\ Cardinality(Q) <= Cardinality(P \cup {x})
    BY <1>2, FS_Subset
<1>4. new \notin K => Cardinality(Q) <= Cardinality(P)
    BY FS_Subset
<1>5. /\ Cardinality(K) \in Nat /\ Cardinality(P) \in Nat
      /\ Cardinality(Q) \in Nat
    BY <1>3, FS_CardinalityType
<1> QED BY <1>1, <1>2, <1>3, <1>4, <1>5

LEMMA SizeFacts ==
    ASSUME TrackerTypeOK
    PROVE  /\ IsFiniteSet(Hashes) /\ IsFiniteSet(Displaced)
           /\ Cardinality(Hashes) \in Nat /\ Cardinality(Displaced) \in Nat
           /\ Cardinality(Conns) \in Nat /\ MaxConversations \in Nat
<1>1. IsFiniteSet(AwaitedAt(Conns))
    BY ImageSize, TrackerAssumption DEF AwaitedAt
<1>2. Displaced \subseteq AwaitedAt(Conns)
    BY DEF Displaced
<1>3. IsFiniteSet(Displaced)
    BY <1>1, <1>2, FS_Subset
<1> QED BY <1>3, FS_CardinalityType, TrackerAssumption DEF TrackerTypeOK

\* No conversation is the one of no request.
LEMMA NoneIsNoRequest == TrackerInv => NoRequest \notin DOMAIN convs
BY DEF TrackerInv, TrackerTypeOK, NoRequest

\* Fewer entries, and fewer that may be put back.
LEMMA LessRoom ==
    ASSUME TrackerInv, Hashes' \subseteq Hashes, Displaced' \subseteq Displaced
    PROVE  IndexBounded'
<1>1. /\ IsFiniteSet(Hashes) /\ IsFiniteSet(Displaced)
      /\ Cardinality(Hashes) \in Nat /\ Cardinality(Displaced) \in Nat
      /\ Cardinality(Conns) \in Nat /\ MaxConversations \in Nat
    BY SizeFacts DEF TrackerInv
<1> DEFINE H == Hashes'
           D == Displaced'
<1>2. H \subseteq Hashes /\ D \subseteq Displaced
    OBVIOUS
<1> HIDE DEF H, D
<1>3. /\ IsFiniteSet(H) /\ Cardinality(H) <= Cardinality(Hashes)
      /\ IsFiniteSet(D) /\ Cardinality(D) <= Cardinality(Displaced)
    BY <1>1, <1>2, FS_Subset
<1>4. Cardinality(H) \in Nat /\ Cardinality(D) \in Nat
    BY <1>3, FS_CardinalityType
<1>5. Cardinality(Hashes) + Cardinality(Displaced)
        < MaxConversations + Cardinality(Conns)
    BY DEF TrackerInv, IndexBounded
<1>6. Cardinality(H) + Cardinality(D) < MaxConversations + Cardinality(Conns)
    BY <1>1, <1>3, <1>4, <1>5
<1> QED BY <1>6 DEF IndexBounded, H, D

\* A conversation that moves leaves its place, or comes back for the answer that
\* was waited for: either pays for the place it takes.
LEMMA MoveRoom ==
    ASSUME TrackerInv, NEW id, NEW new, Moves(id, new),
           AwaitedAt(Conns)' \subseteq AwaitedAt(Conns) \cup {id, NoRequest},
           \/ convs[id].hash \in Hashes /\ byHash[convs[id].hash] = id
           \/ id \in Displaced
    PROVE  IndexBounded'
<1> DEFINE old == convs[id].hash
           K == Hashes \ {old}
           P == IF byHash[old] = id /\ old \in Hashes THEN Displaced
                ELSE IF old \in Hashes THEN (Displaced \ {id}) \cup {byHash[old]}
                ELSE Displaced \ {id}
<1>1. /\ Hashes' = K \cup {new} /\ byHash'[new] = id
      /\ \A h \in K \ {new} : byHash'[h] = byHash[h]
    BY MoveFacts DEF Effect
<1>2. /\ IsFiniteSet(Hashes) /\ IsFiniteSet(Displaced)
      /\ Cardinality(Hashes) \in Nat /\ Cardinality(Displaced) \in Nat
      /\ Cardinality(Conns) \in Nat /\ MaxConversations \in Nat
    BY SizeFacts DEF TrackerInv
<1>3. /\ IsFiniteSet(K)
      /\ Cardinality(K) = IF old \in Hashes THEN Cardinality(Hashes) - 1
                                            ELSE Cardinality(Hashes)
    BY <1>2, FS_RemoveElement
<1>4. IsFiniteSet(P) /\ Cardinality(K) + Cardinality(P) + 1
         <= Cardinality(Hashes) + Cardinality(Displaced)
    <2>1. /\ IsFiniteSet(Displaced \ {id})
          /\ id \in Displaced => Cardinality(Displaced \ {id}) = Cardinality(Displaced) - 1
        BY <1>2, FS_RemoveElement
    <2>2. CASE byHash[old] = id /\ old \in Hashes
        <3>1. P = Displaced
            BY <2>2
        <3> HIDE DEF P, K
        <3> QED BY <1>2, <1>3, <2>2, <3>1
    <2>3. CASE byHash[old] # id /\ old \in Hashes
        <3> DEFINE D == Displaced \ {id}
        <3>1. P = D \cup {byHash[old]} /\ id \in Displaced
            BY <2>3
        <3>2. IsFiniteSet(D) /\ Cardinality(D) = Cardinality(Displaced) - 1
            BY <2>1, <3>1
        <3> HIDE DEF D, P, K
        <3>3. /\ IsFiniteSet(D \cup {byHash[old]})
              /\ Cardinality(D \cup {byHash[old]}) \in {Cardinality(D), Cardinality(D) + 1}
            BY <3>2, FS_AddElement
        <3> QED BY <1>2, <1>3, <2>3, <3>1, <3>2, <3>3
    <2>4. CASE old \notin Hashes
        <3>1. P = Displaced \ {id} /\ id \in Displaced
            BY <2>4
        <3> HIDE DEF P, K
        <3> QED BY <1>2, <1>3, <2>1, <2>4, <3>1
    <2> QED BY <2>2, <2>3, <2>4
<1>5. Displaced \ {id} \subseteq P
    OBVIOUS
<1>6. old \in Hashes /\ byHash[old] # id => byHash[old] \in P
    OBVIOUS
<1>7. K = Hashes \ {old}
    OBVIOUS
<1> HIDE DEF P, K, old
<1>8. /\ Displaced' \subseteq P \cup {byHash[new]}
      /\ new \notin K => Displaced' \subseteq P
    <2> SUFFICES ASSUME NEW i \in Displaced'
                 PROVE  i \in P \/ (new \in K /\ i = byHash[new])
        OBVIOUS
    <2>1. i \in AwaitedAt(Conns)' /\ i \in byAgentID' /\ i \notin Indexed'
        BY DEF Displaced
    <2>2. i # id
        BY <1>1, <2>1 DEF Indexed
    <2>3. i \in AwaitedAt(Conns) /\ i \in byAgentID
        <3>1. i \in byAgentID /\ i # NoRequest
            BY <2>1, NoneIsNoRequest DEF Moves, TrackerInv, TrackerTypeOK
        <3> QED BY <2>1, <2>2, <3>1
    <2>4. CASE i \notin Indexed
        <3>1. i \in Displaced \ {id}
            BY <2>2, <2>3, <2>4 DEF Displaced
        <3> QED BY <1>5, <3>1
    <2>5. CASE i \in Indexed
        <3>1. PICK h \in Hashes : byHash[h] = i
            BY <2>5 DEF Indexed
        <3>2. h = old \/ h = new
            <4>1. h \in K \ {new} => byHash'[h] = i /\ h \in Hashes'
                BY <1>1, <3>1
            <4> QED BY <1>7, <2>1, <3>1, <4>1 DEF Indexed
        <3>3. CASE h = old
            BY <1>6, <2>2, <3>1, <3>3
        <3>4. CASE h = new /\ h # old
            BY <1>7, <3>1, <3>4
        <3> QED BY <3>2, <3>3, <3>4
    <2> QED BY <2>4, <2>5
<1>9. /\ IsFiniteSet(Displaced')
      /\ Cardinality(Hashes') + Cardinality(Displaced') <= Cardinality(K) + Cardinality(P) + 1
    <2> DEFINE Q == Displaced'
               x == byHash[new]
    <2>1. Q \subseteq P \cup {x} /\ (new \notin K => Q \subseteq P)
        BY <1>8
    <2> HIDE DEF Q, x
    <2>2. /\ IsFiniteSet(Q) /\ IsFiniteSet(K \cup {new})
          /\ Cardinality(K \cup {new}) + Cardinality(Q) <= Cardinality(K) + Cardinality(P) + 1
        BY ZenonT(60), <1>3, <1>4, <2>1, Insertion
    <2> QED BY <1>1, <2>2 DEF Q
<1>10. Cardinality(K) \in Nat /\ Cardinality(P) \in Nat /\ Cardinality(Displaced') \in Nat
    BY <1>3, <1>4, <1>9, FS_CardinalityType
<1>11. IsFiniteSet(Hashes') /\ Cardinality(Hashes') \in Nat
    <2>1. IsFiniteSet(Hashes')
        BY <1>1, <1>3, FS_AddElement
    <2> QED BY <2>1, FS_CardinalityType
<1>12. Cardinality(Hashes) + Cardinality(Displaced)
         < MaxConversations + Cardinality(Conns)
    BY DEF TrackerInv, IndexBounded
<1> QED BY <1>2, <1>4, <1>9, <1>10, <1>11, <1>12 DEF IndexBounded

-----------------------------------------------------------------------------
(* New conversations *)

\* mintNew, given the keys that are evicted.
Mints(c, m, gone) ==
    /\ now < MaxTime
    /\ now' = now + 1
    /\ gone \in Evicting
    /\ convs' = Append(convs, [hash |-> m, pid |-> c.pid, activity |-> now + 1])
    /\ byHash' = With(Without(byHash, gone), m, Len(convs) + 1)
    /\ byAgentID' = Tracked(gone) \cup {Len(convs) + 1}

\* The same, entry by entry.
MintEffect(c, m, gone) ==
    /\ \/ gone = {} /\ Cardinality(Hashes) < MaxConversations
       \/ /\ \E h \in Hashes : gone = {h}
          /\ Cardinality(Hashes) >= MaxConversations
    /\ Len(convs) \in Nat
    /\ DOMAIN convs = 1 .. Len(convs) /\ DOMAIN convs' = 1 .. Len(convs) + 1
    /\ convs' \in Seq(ConvType)
    /\ \A j \in DOMAIN convs : convs'[j] = convs[j]
    /\ convs'[Len(convs) + 1].hash = m /\ convs'[Len(convs) + 1].pid = c.pid
    /\ Hashes' = (Hashes \ gone) \cup {m}
    /\ byHash'[m] = Len(convs) + 1
    /\ \A h \in (Hashes \ gone) \ {m} : byHash'[h] = byHash[h]
    /\ byHash' = [h \in Hashes' |-> byHash'[h]]

LEMMA MintFacts ==
    ASSUME TrackerInv, NEW c \in Conns, NEW m \in Bodies, NEW gone, Mints(c, m, gone)
    PROVE  MintEffect(c, m, gone)
<1>1. \/ gone = {} /\ Cardinality(Hashes) < MaxConversations
      \/ /\ \E h \in Hashes : gone = {h}
         /\ Cardinality(Hashes) >= MaxConversations
    <2>1. Cardinality(Hashes) \in Nat /\ MaxConversations \in Nat
        BY SizeFacts DEF TrackerInv
    <2> QED BY <2>1 DEF Mints, Evicting, Oldest
<1>2. /\ convs \in Seq(ConvType) /\ Len(convs) \in Nat
      /\ DOMAIN convs = 1 .. Len(convs)
    BY DEF TrackerInv, TrackerTypeOK, ConvType
<1> DEFINE rec == [hash |-> m, pid |-> c.pid, activity |-> now + 1]
<1>3. rec \in ConvType /\ rec.hash = m /\ rec.pid = c.pid
    <2>1. now + 1 \in 1 .. MaxTime
        BY TrackerAssumption DEF Mints, TrackerInv, TrackerTypeOK
    <2>2. m \in Seq(Message) /\ c.pid \in Pids
        BY TrackerAssumption
    <2> QED BY <2>1, <2>2 DEF ConvType
<1>4. convs' = Append(convs, rec)
    BY DEF Mints
<1> HIDE DEF rec
<1>5. /\ convs' \in Seq(ConvType) /\ Len(convs') = Len(convs) + 1
      /\ \A j \in 1 .. Len(convs) : convs'[j] = convs[j]
      /\ convs'[Len(convs) + 1] = rec
    BY <1>2, <1>3, <1>4, AppendProperties
<1>6. DOMAIN convs' = 1 .. Len(convs) + 1
    BY <1>5
<1>7. /\ Hashes' = (Hashes \ gone) \cup {m}
      /\ byHash'[m] = Len(convs) + 1
      /\ \A h \in (Hashes \ gone) \ {m} : byHash'[h] = byHash[h]
      /\ byHash' = [h \in Hashes' |-> byHash'[h]]
    <2> DEFINE id == Len(convs) + 1
               f == byHash
               g == byHash'
    <2>1. g = With(Without(f, gone), m, id)
        BY DEF Mints
    <2> HIDE DEF id, f, g
    <2>2. /\ DOMAIN g = (DOMAIN f \ gone) \cup {m}
          /\ g[m] = id
          /\ \A h \in (DOMAIN f \ gone) \ {m} : g[h] = f[h]
          /\ g = [h \in DOMAIN g |-> g[h]]
        BY <2>1 DEF With, Without
    <2> QED BY <2>2 DEF id, f, g, Hashes
<1> QED BY <1>1, <1>2, <1>3, <1>5, <1>6, <1>7 DEF MintEffect

LEMMA MintTypes ==
    ASSUME TrackerInv, NEW c \in Conns, NEW m \in Bodies, NEW gone, Mints(c, m, gone)
    PROVE  IndexTypes' /\ IndexConsistent'
<1> DEFINE id == Len(convs) + 1
<1>1. MintEffect(c, m, gone)
    BY MintFacts
<1>2. id \notin DOMAIN convs /\ id \in DOMAIN convs' /\ DOMAIN convs \subseteq DOMAIN convs'
    BY <1>1 DEF MintEffect
<1>3. byAgentID' = (byAgentID \ {byHash[h] : h \in gone}) \cup {id}
    BY DEF Mints, Tracked
<1>4. /\ Hashes' = (Hashes \ gone) \cup {m} /\ byHash'[m] = id
      /\ \A h \in (Hashes \ gone) \ {m} : byHash'[h] = byHash[h]
      /\ byHash' = [h \in Hashes' |-> byHash'[h]]
      /\ convs' \in Seq(ConvType) /\ convs'[id].hash = m
      /\ \A j \in DOMAIN convs : convs'[j] = convs[j]
    BY <1>1 DEF MintEffect
<1> HIDE DEF id
<1>5. /\ \A h \in Hashes : /\ byHash[h] \in DOMAIN convs /\ byHash[h] \in byAgentID
                           /\ convs[byHash[h]].hash = h
      /\ byAgentID \subseteq DOMAIN convs
    BY DEF TrackerInv, TrackerTypeOK, Indexed, IndexConsistent
<1>6. Hashes' \subseteq Seq(Message)
    BY <1>4, TrackerAssumption DEF TrackerInv, TrackerTypeOK
<1>7. IsFiniteSet(Hashes')
    <2>1. IsFiniteSet(Hashes \ gone)
        BY FS_Subset DEF TrackerInv, TrackerTypeOK
    <2> QED BY <1>4, <2>1, FS_AddElement
<1>8. \A h \in Hashes' : h # m => /\ h \in Hashes \ gone /\ byHash'[h] = byHash[h]
    BY <1>4
<1>9. Indexed' \subseteq DOMAIN convs'
    <2>1. \A h \in Hashes' : byHash'[h] \in DOMAIN convs'
        BY <1>2, <1>4, <1>5, <1>8
    <2> QED BY <2>1 DEF Indexed
<1>10. byAgentID' \subseteq DOMAIN convs'
    BY <1>2, <1>3, <1>5
<1>11. now' \in 0 .. MaxTime
    BY TrackerAssumption DEF Mints, TrackerInv, TrackerTypeOK
<1>12. IndexConsistent'
    <2> SUFFICES ASSUME NEW h \in Hashes'
                 PROVE  byHash'[h] \in byAgentID' /\ convs'[byHash'[h]].hash = h
        BY DEF IndexConsistent
    <2>1. CASE h = m
        BY <1>3, <1>4, <2>1
    <2>2. CASE h # m
        <3>1. /\ h \in Hashes /\ h \notin gone /\ byHash'[h] = byHash[h]
              /\ byHash[h] \in byAgentID /\ convs'[byHash[h]].hash = h
            BY <1>4, <1>5, <1>8, <2>2
        <3>2. \A g \in gone : byHash[g] # byHash[h]
            <4>1. gone \subseteq Hashes
                BY <1>1 DEF MintEffect
            <4> QED BY <1>5, <3>1, <4>1
        <3> QED BY <1>3, <3>1, <3>2
    <2> QED BY <2>1, <2>2
<1> QED BY <1>4, <1>6, <1>7, <1>9, <1>10, <1>11, <1>12 DEF IndexTypes

\* Below the cap there is room; at the cap an entry goes for the one that comes.
LEMMA MintRoom ==
    ASSUME TrackerInv, NEW c \in Conns, NEW m \in Bodies, NEW gone, Mints(c, m, gone),
           contexts' = [contexts EXCEPT ![c] = Len(convs) + 1]
    PROVE  IndexBounded'
<1> DEFINE id == Len(convs) + 1
           others == Conns \ {c}
<1>1. MintEffect(c, m, gone)
    BY MintFacts
<1>2. /\ Hashes' = (Hashes \ gone) \cup {m} /\ byHash'[m] = id
      /\ \A h \in (Hashes \ gone) \ {m} : byHash'[h] = byHash[h]
    BY <1>1 DEF MintEffect
<1>3. byAgentID' = (byAgentID \ {byHash[h] : h \in gone}) \cup {id}
    BY DEF Mints, Tracked
<1>4. /\ contexts'[c] = id
      /\ \A d \in others : contexts'[d] = contexts[d]
    BY DEF TrackerInv, TrackerTypeOK
<1>5. /\ IsFiniteSet(Hashes) /\ IsFiniteSet(Displaced)
      /\ Cardinality(Hashes) \in Nat /\ Cardinality(Displaced) \in Nat
      /\ Cardinality(Conns) \in Nat /\ MaxConversations \in Nat
    BY SizeFacts DEF TrackerInv
<1>6. IsFiniteSet(others) /\ Cardinality(others) = Cardinality(Conns) - 1
    BY TrackerAssumption, FS_RemoveElement
<1> HIDE DEF id
<1>7. /\ IsFiniteSet(AwaitedAt(others))
      /\ Cardinality(AwaitedAt(others)) <= Cardinality(others)
    BY <1>6, ImageSize DEF AwaitedAt
<1>8. ASSUME NEW i \in Displaced'
      PROVE  /\ i \in AwaitedAt(others) /\ i # id /\ i \in byAgentID
             /\ i \notin {byHash[h] : h \in gone} /\ i \notin Indexed'
    <2>1. i \in AwaitedAt(Conns)' /\ i \in byAgentID' /\ i \notin Indexed'
        BY <1>8 DEF Displaced
    <2>2. i # id
        BY <1>2, <2>1 DEF Indexed
    <2>3. i \in AwaitedAt(others)
        BY <1>4, <2>1, <2>2 DEF AwaitedAt
    <2> QED BY <1>3, <2>1, <2>2, <2>3
<1>9. CASE gone = {} /\ Cardinality(Hashes) < MaxConversations
    <2>1. Displaced' \subseteq AwaitedAt(others)
        BY <1>8
    <2>2. /\ IsFiniteSet(Displaced')
          /\ Cardinality(Displaced') <= Cardinality(AwaitedAt(others))
        BY <1>7, <2>1, FS_Subset
    <2>3. /\ IsFiniteSet(Hashes')
          /\ Cardinality(Hashes') \in {Cardinality(Hashes), Cardinality(Hashes) + 1}
        <3>1. Hashes' = Hashes \cup {m}
            BY <1>2, <1>9
        <3> QED BY <1>5, <3>1, FS_AddElement
    <2>4. Cardinality(Displaced') \in Nat /\ Cardinality(AwaitedAt(others)) \in Nat
        BY <1>7, <2>2, FS_CardinalityType
    <2> HIDE DEF others
    <2> QED BY <1>5, <1>6, <1>7, <1>9, <2>2, <2>3, <2>4 DEF IndexBounded
<1>10. ASSUME NEW h \in Hashes, gone = {h}, Cardinality(Hashes) >= MaxConversations
       PROVE  IndexBounded'
    <2> DEFINE K == Hashes \ {h}
               x == byHash[m]
               Q == Displaced'
    <2>1. /\ IsFiniteSet(K) /\ Cardinality(K) = Cardinality(Hashes) - 1
        BY <1>5, FS_RemoveElement
    <2>2. Hashes' = K \cup {m}
        BY <1>2, <1>10
    <2>3. Q \subseteq Displaced \cup {x} /\ (m \notin K => Q \subseteq Displaced)
        <3> SUFFICES ASSUME NEW i \in Displaced'
                     PROVE  i \in Displaced \/ (m \in K /\ i = byHash[m])
            OBVIOUS
        <3>1. i \in AwaitedAt(Conns) /\ i \in byAgentID
            BY <1>8 DEF AwaitedAt
        <3>2. CASE i \notin Indexed
            BY <3>1, <3>2 DEF Displaced
        <3>3. CASE i \in Indexed
            <4>1. PICK g \in Hashes : byHash[g] = i
                BY <3>3 DEF Indexed
            <4>2. g # h
                BY <1>8, <1>10, <4>1
            <4>3. g = m
                <5>1. g # m => byHash'[g] = i /\ g \in Hashes'
                    BY <1>2, <1>10, <4>1, <4>2
                <5>2. i \notin Indexed'
                    BY <1>8
                <5> QED BY <5>1, <5>2 DEF Indexed
            <4> QED BY <4>1, <4>2, <4>3
        <3> QED BY <3>2, <3>3
    <2> HIDE DEF K, x, Q
    <2>4. /\ IsFiniteSet(K \cup {m}) /\ IsFiniteSet(Q)
          /\ Cardinality(K \cup {m}) + Cardinality(Q)
                 <= Cardinality(K) + Cardinality(Displaced) + 1
        BY <1>5, <2>1, <2>3, Insertion
    <2>5. /\ Cardinality(Hashes') + Cardinality(Displaced')
                 <= Cardinality(Hashes) + Cardinality(Displaced)
          /\ Cardinality(Hashes') \in Nat /\ Cardinality(Displaced') \in Nat
        <3>1. Cardinality(K \cup {m}) \in Nat /\ Cardinality(Q) \in Nat
            BY <2>4, FS_CardinalityType
        <3>2. Cardinality(K) + Cardinality(Displaced) + 1
                  = Cardinality(Hashes) + Cardinality(Displaced)
            BY <1>5, <2>1
        <3> QED BY <2>2, <2>4, <3>1, <3>2 DEF Q
    <2> QED BY <1>5, <2>5 DEF TrackerInv, IndexBounded
<1> QED BY <1>1, <1>9, <1>10 DEF MintEffect

-----------------------------------------------------------------------------
(* Every step keeps the invariant *)

\* A request that was given a conversation it fits.
LEMMA IdentifiedInv ==
    ASSUME TrackerInv, IndexTypes', DOMAIN convs \subseteq DOMAIN convs',
           NEW c \in Conns, NEW m \in Bodies, NEW id \in DOMAIN convs',
           Identified(c, m, id), convs'[id].pid = c.pid, convs'[id].hash = m,
           \A r \in requests : /\ r.pid = convs'[r.agentID].pid
                               /\ Prefix(r.body, convs'[r.agentID].hash)
    PROVE  TrackerTypeOK' /\ Grown'
<1> DEFINE req == [agentID |-> id, pid |-> c.pid, body |-> m]
<1>1. contexts' = [contexts EXCEPT ![c] = id] /\ requests' = requests \cup {req}
    BY DEF Identified
<1>2. contexts' \in [Conns -> {NoRequest} \cup DOMAIN convs']
    BY <1>1 DEF TrackerInv, TrackerTypeOK
<1>3. m \in Seq(Message) /\ c.pid \in Pids
    BY TrackerAssumption
<1>4. requests' \subseteq [agentID : DOMAIN convs', pid : Pids, body : Seq(Message)]
    BY <1>1, <1>3 DEF TrackerInv, TrackerTypeOK
<1>5. Prefix(m, m)
    BY <1>3 DEF Prefix
<1>6. Grown'
    BY <1>1, <1>5 DEF Grown
<1> QED BY <1>2, <1>4, <1>6 DEF IndexTypes, ConvType, TrackerTypeOK

\* The next turn is a move of the conversation that ends in its predecessor.
LEMMA ExtendMoves ==
    ASSUME TrackerInv, NEW c \in Conns, NEW m \in Bodies, Extend(c, m)
    PROVE  LET id == byHash[Predecessor(m)] IN
           /\ Moves(id, m)
           /\ Predecessor(m) \in Hashes /\ convs[id].hash = Predecessor(m)
           /\ convs[id].pid = c.pid
           /\ Identified(c, m, id)
<1> DEFINE pre == Predecessor(m)
           id == byHash[pre]
<1>1. /\ LooksLikeContinuation(m) /\ pre \in Hashes /\ convs[id].pid = c.pid
      /\ now < MaxTime /\ now' = now + 1 /\ UNCHANGED byAgentID
      /\ byHash' = Moved(pre, m, id) /\ convs' = Renewed(id, m)
      /\ Identified(c, m, id)
    BY DEF Extend, Continues
<1>2. id \in byAgentID /\ convs[id].hash = pre
    BY <1>1 DEF TrackerInv, IndexConsistent
<1>3. m \in Seq(Message) /\ Prefix(pre, m) /\ pre # m
    BY <1>1, PredecessorFacts
<1> HIDE DEF pre, id
<1>4. Moves(id, m)
    BY <1>1, <1>2, <1>3 DEF Moves
<1> QED BY <1>1, <1>2, <1>4 DEF pre, id

LEMMA ExtendInv ==
    ASSUME TrackerInv, NEW c \in Conns, NEW m \in Bodies, Extend(c, m)
    PROVE  TrackerInv'
<1> DEFINE id == byHash[Predecessor(m)]
<1>1. /\ Moves(id, m) /\ Predecessor(m) \in Hashes
      /\ convs[id].hash = Predecessor(m) /\ convs[id].pid = c.pid
      /\ Identified(c, m, id)
    BY ExtendMoves
<1>2. convs[id].hash \in Hashes /\ byHash[convs[id].hash] = id
    BY <1>1
<1> HIDE DEF id
<1>3. IndexTypes' /\ IndexConsistent' /\ Effect(id, m)
    BY <1>1, MoveTypes, MoveFacts
<1>4. \A r \in requests : /\ r.pid = convs'[r.agentID].pid
                          /\ Prefix(r.body, convs'[r.agentID].hash)
    BY <1>1, MoveGrown
<1>5. TrackerTypeOK' /\ Grown'
    <2>1. /\ DOMAIN convs \subseteq DOMAIN convs' /\ id \in DOMAIN convs'
          /\ convs'[id].pid = c.pid /\ convs'[id].hash = m
        BY <1>1, <1>3 DEF Effect
    <2> QED BY <1>1, <1>3, <1>4, <2>1, IdentifiedInv
<1>6. IndexBounded'
    <2>1. \A d \in Conns : contexts'[d] \in {contexts[d], id}
        BY <1>1 DEF Identified, TrackerInv, TrackerTypeOK
    <2>2. AwaitedAt(Conns)' \subseteq AwaitedAt(Conns) \cup {id}
        BY <2>1 DEF AwaitedAt
    <2> QED BY <1>1, <1>2, <2>2, MoveRoom
<1> QED BY <1>3, <1>5, <1>6 DEF TrackerInv

LEMMA MintNewInv ==
    ASSUME TrackerInv, NEW c \in Conns, NEW m \in Bodies, MintNew(c, m)
    PROVE  TrackerInv'
<1> DEFINE id == Len(convs) + 1
<1>1. PICK gone \in Evicting : Mints(c, m, gone)
    BY DEF MintNew, Mints
<1>2. IndexTypes' /\ IndexConsistent' /\ MintEffect(c, m, gone)
    BY <1>1, MintTypes, MintFacts
<1>3. Identified(c, m, id)
    BY DEF MintNew
<1>4. /\ DOMAIN convs \subseteq DOMAIN convs' /\ id \in DOMAIN convs'
      /\ convs'[id].pid = c.pid /\ convs'[id].hash = m
      /\ \A j \in DOMAIN convs : convs'[j] = convs[j]
    BY <1>2 DEF MintEffect
<1>5. IndexBounded'
    BY <1>1, <1>3, MintRoom DEF Identified
<1> HIDE DEF id
<1>6. \A r \in requests : /\ r.pid = convs'[r.agentID].pid
                          /\ Prefix(r.body, convs'[r.agentID].hash)
    BY <1>4 DEF TrackerInv, TrackerTypeOK, Grown
<1>7. TrackerTypeOK' /\ Grown'
    BY <1>2, <1>3, <1>4, <1>6, IdentifiedInv
<1> QED BY <1>2, <1>5, <1>7 DEF TrackerInv

\* What is waited for only gets less.
LEMMA TakenFacts ==
    ASSUME TrackerInv, NEW c \in Conns, Taken(c)
    PROVE  /\ contexts[c] # NoRequest
           /\ contexts' \in [Conns -> {NoRequest} \cup DOMAIN convs]
           /\ AwaitedAt(Conns)' \subseteq AwaitedAt(Conns) \cup {NoRequest}
           /\ UNCHANGED requests
<1>1. contexts' = [contexts EXCEPT ![c] = NoRequest] /\ contexts[c] # NoRequest
    BY DEF Taken
<1>2. \A d \in Conns : contexts'[d] \in {contexts[d], NoRequest}
    BY <1>1 DEF TrackerInv, TrackerTypeOK
<1>3. contexts' \in [Conns -> {NoRequest} \cup DOMAIN convs]
    BY <1>1 DEF TrackerInv, TrackerTypeOK
<1> QED BY <1>1, <1>2, <1>3 DEF Taken, AwaitedAt

\* An answer moves its conversation.
LEMMA AnswerMoves ==
    ASSUME TrackerInv, NEW c \in Conns, NEW content \in Contents,
           AppendAssistant(c, content)
    PROVE  \E new \in Seq(Message) : Moves(contexts[c], new)
<1> DEFINE id == contexts[c]
           old == convs[id].hash
           new == Append(old, Assistant(content))
<1>1. /\ id \in byAgentID /\ now < MaxTime /\ now' = now + 1
      /\ byHash' = Moved(old, new, id) /\ convs' = Renewed(id, new)
      /\ UNCHANGED byAgentID
    BY DEF AppendAssistant
<1>2. old \in Seq(Message)
    <2>1. convs \in Seq(ConvType) /\ id \in 1 .. Len(convs)
        BY <1>1 DEF TrackerInv, TrackerTypeOK, ConvType
    <2>2. convs[id] \in ConvType
        BY <2>1, ElementOfSeq
    <2> QED BY <2>2 DEF ConvType
<1>3. new \in Seq(Message) /\ Prefix(old, new) /\ old # new
    BY <1>2, AnswerFacts
<1> HIDE DEF new, id
<1>4. Moves(id, new)
    BY <1>1, <1>3 DEF Moves
<1> QED BY <1>3, <1>4 DEF id

LEMMA AppendAssistantInv ==
    ASSUME TrackerInv, NEW c \in Conns, NEW content \in Contents,
           AppendAssistant(c, content)
    PROVE  TrackerInv'
<1> DEFINE id == contexts[c]
<1>1. PICK new \in Seq(Message) : Moves(id, new)
    BY AnswerMoves
<1>2. IndexTypes' /\ IndexConsistent' /\ Effect(id, new)
    BY <1>1, MoveTypes, MoveFacts
<1>3. Taken(c)
    BY DEF AppendAssistant
<1>4. /\ contexts' \in [Conns -> {NoRequest} \cup DOMAIN convs]
      /\ AwaitedAt(Conns)' \subseteq AwaitedAt(Conns) \cup {NoRequest}
      /\ UNCHANGED requests
    BY <1>3, TakenFacts
<1>5. DOMAIN convs' = DOMAIN convs /\ id \in DOMAIN convs
    BY <1>2 DEF Effect
<1>6. id \in byAgentID /\ id \in AwaitedAt(Conns)
    BY <1>1 DEF Moves, AwaitedAt
<1>7. (convs[id].hash \in Hashes /\ byHash[convs[id].hash] = id) \/ id \notin Indexed
    BY DEF TrackerInv, IndexConsistent, Indexed
<1> HIDE DEF id
<1>8. TrackerTypeOK'
    BY <1>2, <1>4, <1>5 DEF IndexTypes, ConvType, TrackerTypeOK, TrackerInv
<1>9. Grown'
    BY <1>1, <1>4, MoveGrown DEF Grown
<1>10. IndexBounded'
    <2>1. \/ convs[id].hash \in Hashes /\ byHash[convs[id].hash] = id
          \/ id \in Displaced
        BY <1>6, <1>7 DEF Displaced
    <2> QED BY <1>1, <1>4, <2>1, MoveRoom
<1> QED BY <1>2, <1>8, <1>9, <1>10 DEF TrackerInv

\* What is no longer waited for leaves more room.
LEMMA AnswerMissedInv ==
    ASSUME TrackerInv, NEW c \in Conns, AnswerMissed(c)
    PROVE  TrackerInv'
<1>1. UNCHANGED <<convs, byHash, byAgentID, now>> /\ Taken(c)
    BY DEF AnswerMissed
<1>2. /\ contexts' \in [Conns -> {NoRequest} \cup DOMAIN convs]
      /\ AwaitedAt(Conns)' \subseteq AwaitedAt(Conns) \cup {NoRequest}
      /\ UNCHANGED requests
    BY <1>1, TakenFacts
<1>3. TrackerTypeOK' /\ IndexConsistent' /\ Grown'
    BY <1>1, <1>2 DEF TrackerInv, TrackerTypeOK, IndexConsistent, Grown, Hashes, Indexed
<1>4. Displaced' \subseteq Displaced
    <2>1. NoRequest \notin byAgentID
        BY NoneIsNoRequest DEF TrackerInv, TrackerTypeOK
    <2> QED BY <1>1, <1>2, <2>1 DEF Displaced, Indexed, Hashes
<1>5. Hashes' = Hashes
    BY <1>1 DEF Hashes
<1>6. IndexBounded'
    BY <1>4, <1>5, LessRoom
<1> QED BY <1>3, <1>6 DEF TrackerInv

\* An entry goes from both indexes, and what stays is not what went.
LEMMA SweepOnceInv ==
    ASSUME TrackerInv, NEW cutoff \in Int, SweepOnce(cutoff)
    PROVE  TrackerInv'
<1> DEFINE gone == {h \in Hashes : convs[byHash[h]].activity < cutoff}
<1>1. /\ byHash' = Without(byHash, gone)
      /\ byAgentID' = byAgentID \ {byHash[h] : h \in gone}
      /\ UNCHANGED <<convs, contexts, now, requests>>
    BY DEF SweepOnce, Tracked
<1>2. gone \subseteq Hashes
    OBVIOUS
<1> HIDE DEF gone
<1>3. /\ Hashes' = Hashes \ gone
      /\ \A h \in Hashes \ gone : byHash'[h] = byHash[h]
      /\ byHash' = [h \in Hashes' |-> byHash'[h]]
    <2> DEFINE f == byHash
               g == byHash'
    <2>1. g = Without(f, gone)
        BY <1>1
    <2> HIDE DEF f, g
    <2>2. /\ DOMAIN g = DOMAIN f \ gone
          /\ \A h \in DOMAIN f \ gone : g[h] = f[h]
          /\ g = [h \in DOMAIN g |-> g[h]]
        BY <2>1 DEF Without
    <2> QED BY <2>2 DEF f, g, Hashes
<1>4. \A h \in Hashes : /\ byHash[h] \in byAgentID /\ byHash[h] \in DOMAIN convs
                         /\ convs[byHash[h]].hash = h
    BY DEF TrackerInv, TrackerTypeOK, IndexConsistent, Indexed
<1>5. Indexed' \subseteq Indexed
    BY <1>3 DEF Indexed
<1>6. TrackerTypeOK'
    <2>1. Hashes' \subseteq Hashes /\ IsFiniteSet(Hashes')
        BY <1>3, FS_Subset DEF TrackerInv, TrackerTypeOK
    <2>2. byAgentID' \subseteq byAgentID
        BY <1>1
    <2> QED BY <1>1, <1>3, <1>5, <2>1, <2>2 DEF TrackerInv, TrackerTypeOK
<1>7. IndexConsistent'
    <2> SUFFICES ASSUME NEW h \in Hashes'
                 PROVE  byHash'[h] \in byAgentID' /\ convs'[byHash'[h]].hash = h
        BY DEF IndexConsistent
    <2>1. /\ h \in Hashes /\ h \notin gone /\ byHash'[h] = byHash[h]
          /\ convs[byHash[h]].hash = h /\ byHash[h] \in byAgentID
        BY <1>3, <1>4
    <2>2. \A g \in gone : byHash[g] # byHash[h]
        BY <1>2, <1>4, <2>1
    <2> QED BY <1>1, <2>1, <2>2
<1>8. Grown'
    BY <1>1 DEF TrackerInv, Grown
<1>9. Displaced' \subseteq Displaced
    <2> SUFFICES ASSUME NEW i \in Displaced' PROVE i \in Displaced
        OBVIOUS
    <2>1. i \in AwaitedAt(Conns) /\ i \in byAgentID /\ i \notin Indexed'
          /\ i \notin {byHash[h] : h \in gone}
        BY <1>1 DEF Displaced, AwaitedAt
    <2>2. i \notin Indexed
        BY <1>3, <2>1 DEF Indexed
    <2> QED BY <2>1, <2>2 DEF Displaced
<1>10. IndexBounded'
    BY <1>3, <1>9, LessRoom
<1> QED BY <1>6, <1>7, <1>8, <1>10 DEF TrackerInv

LEMMA NextInv == TrackerInv /\ [TrackerNext]_trackerVars => TrackerInv'
<1> SUFFICES ASSUME TrackerInv, [TrackerNext]_trackerVars PROVE TrackerInv'
    OBVIOUS
<1>1. ASSUME NEW c \in Conns, NEW messages \in Bodies, Extend(c, messages)
      PROVE  TrackerInv'
    BY <1>1, ExtendInv
<1>2. ASSUME NEW c \in Conns, NEW messages \in Bodies, MintNew(c, messages)
      PROVE  TrackerInv'
    BY <1>2, MintNewInv
<1>3. ASSUME NEW c \in Conns, NEW content \in Contents, AppendAssistant(c, content)
      PROVE  TrackerInv'
    BY <1>3, AppendAssistantInv
<1>4. ASSUME NEW c \in Conns, AnswerMissed(c) PROVE TrackerInv'
    BY <1>4, AnswerMissedInv
<1>5. ASSUME NEW cutoff \in 1 .. now, SweepOnce(cutoff) PROVE TrackerInv'
    <2>1. cutoff \in Int
        BY DEF TrackerInv, TrackerTypeOK
    <2> QED BY <1>5, <2>1, SweepOnceInv
<1>6. CASE UNCHANGED trackerVars
    BY <1>6 DEF trackerVars, TrackerInv, TrackerTypeOK, IndexConsistent, Grown, IndexBounded,
                Hashes, Indexed, Displaced, AwaitedAt
<1> QED BY <1>1, <1>2, <1>3, <1>4, <1>5, <1>6 DEF TrackerNext

-----------------------------------------------------------------------------
(* What displaces an entry *)

\* Conversation i went for a reason: it is no longer tracked, or another has or
\* had its messages.
Reason(i) ==
    \/ i \notin byAgentID'
    \/ \E j \in byAgentID' \ {i} :
          \/ convs'[j].hash = convs[i].hash
          \/ j \in byAgentID /\ convs[j].hash = convs[i].hash

\* An entry of the first index.
Entry(i, h) == h \in Hashes /\ byHash[h] = i /\ convs[i].hash = h /\ i \in DOMAIN convs

LEMMA EntryOf ==
    ASSUME TrackerInv, NEW i \in Indexed \ Indexed'
    PROVE  \E h : Entry(i, h) /\ (h \in Hashes' => byHash'[h] # i)
<1>1. PICK h \in Hashes : byHash[h] = i
    BY DEF Indexed
<1>2. Entry(i, h)
    BY <1>1 DEF Entry, TrackerInv, TrackerTypeOK, IndexConsistent
<1>3. h \in Hashes' => byHash'[h] # i
    BY DEF Indexed
<1> QED BY <1>2, <1>3

\* A conversation that moves takes the key it moves to from the one whose messages
\* it now has, and the key it leaves from the one that had the same.
LEMMA MoveReason ==
    ASSUME TrackerInv, NEW id, NEW new, Moves(id, new), NEW i \in Indexed \ Indexed'
    PROVE  Reason(i)
<1>1. PICK h : Entry(i, h) /\ (h \in Hashes' => byHash'[h] # i)
    BY EntryOf
<1>2. Effect(id, new)
    BY MoveFacts
<1>3. i # id
    BY <1>2 DEF Effect, Indexed
<1>4. id \in byAgentID /\ id \in byAgentID'
    BY DEF Moves
<1>5. h = convs[id].hash \/ h = new
    BY <1>1, <1>2 DEF Effect, Entry
<1>6. convs'[id].hash = new /\ convs[i].hash = h
    BY <1>1, <1>2 DEF Effect, Entry
<1> QED BY <1>3, <1>4, <1>5, <1>6 DEF Reason

\* A new conversation takes the key of the one that has its messages; the evicted
\* one is no longer tracked.
LEMMA MintReason ==
    ASSUME TrackerInv, NEW c \in Conns, NEW m \in Bodies, NEW gone, Mints(c, m, gone),
           NEW i \in Indexed \ Indexed'
    PROVE  Reason(i)
<1> DEFINE id == Len(convs) + 1
<1>1. PICK h : Entry(i, h) /\ (h \in Hashes' => byHash'[h] # i)
    BY EntryOf
<1>2. MintEffect(c, m, gone)
    BY MintFacts
<1>3. byAgentID' = (byAgentID \ {byHash[g] : g \in gone}) \cup {id}
    BY DEF Mints, Tracked
<1>4. id \notin DOMAIN convs
    BY <1>2 DEF MintEffect
<1>5. i # id
    BY <1>1, <1>4 DEF Entry
<1>6. h \in gone \/ h = m
    BY <1>1, <1>2 DEF MintEffect, Entry
<1>7. CASE h \in gone
    <2>1. i \notin byAgentID'
        BY <1>1, <1>3, <1>5, <1>7 DEF Entry
    <2> QED BY <2>1 DEF Reason
<1>8. CASE h = m
    <2>1. convs'[id].hash = convs[i].hash
        BY <1>1, <1>2, <1>8 DEF MintEffect, Entry
    <2> HIDE DEF id
    <2> QED BY <1>3, <1>5, <2>1 DEF Reason
<1> QED BY <1>6, <1>7, <1>8

\* What a sweep takes from one index it takes from the other.
LEMMA SweepReason ==
    ASSUME TrackerInv, NEW cutoff, SweepOnce(cutoff), NEW i \in Indexed \ Indexed'
    PROVE  Reason(i)
<1> DEFINE gone == {h \in Hashes : convs[byHash[h]].activity < cutoff}
<1>1. PICK h : Entry(i, h) /\ (h \in Hashes' => byHash'[h] # i)
    BY EntryOf
<1>2. byHash' = Without(byHash, gone) /\ byAgentID' = byAgentID \ {byHash[g] : g \in gone}
    BY DEF SweepOnce, Tracked
<1> HIDE DEF gone
<1>3. h \in gone
    <2>1. h \notin gone => h \in DOMAIN byHash' /\ byHash'[h] = byHash[h]
        BY <1>1, <1>2 DEF Without, Entry, Hashes
    <2> QED BY <1>1, <2>1 DEF Entry, Hashes
<1> QED BY <1>1, <1>2, <1>3 DEF Reason, Entry

-----------------------------------------------------------------------------
(* Theorems *)

\* The inductive invariant.
THEOREM Invariance == TrackerSpec => []TrackerInv
BY InitInv, NextInv, PTL DEF TrackerSpec

\* The tracker keeps the types of its state, whatever is captured.
THEOREM TypeCorrect == TrackerSpec => []TrackerTypeOK
BY Invariance, PTL DEF TrackerInv

\* An entry of byHash is a conversation that byAgentID has, under the hash of
\* its messages: the three places the hash is kept in agree after every request,
\* answer, eviction and sweep.
THEOREM IndexesAgree == TrackerSpec => []IndexConsistent
BY Invariance, PTL DEF TrackerInv

\* One agent id is one conversation of one process, however many run in parallel
\* and however they start.
THEOREM OneConversation == TrackerSpec => []OneChainPerId
<1>1. TrackerInv => OneChainPerId
    <2> SUFFICES ASSUME TrackerInv, NEW r \in requests, NEW s \in requests,
                        r.agentID = s.agentID
                 PROVE  /\ r.pid = s.pid
                        /\ Prefix(r.body, s.body) \/ Prefix(s.body, r.body)
        BY DEF OneChainPerId
    <2> DEFINE id == r.agentID
    <2>1. /\ r.pid = convs[id].pid /\ Prefix(r.body, convs[id].hash)
          /\ s.pid = convs[id].pid /\ Prefix(s.body, convs[id].hash)
        BY DEF TrackerInv, Grown
    <2>2. id \in DOMAIN convs /\ r.body \in Seq(Message) /\ s.body \in Seq(Message)
        BY DEF TrackerInv, TrackerTypeOK
    <2> HIDE DEF id
    <2>3. convs[id].hash \in Seq(Message)
        <3>1. convs \in Seq(ConvType) /\ id \in 1 .. Len(convs)
            BY <2>2 DEF TrackerInv, TrackerTypeOK, ConvType
        <3>2. convs[id] \in ConvType
            BY <3>1, ElementOfSeq
        <3> QED BY <3>2 DEF ConvType
    <2> QED BY <2>1, <2>2, <2>3, PrefixComparable
<1> QED BY <1>1, Invariance, PTL

\* The first index never outgrows its cap by as many entries as there are
\* connections, though answers are put back without a look at the cap, and not
\* even when all come that are waited for.
THEOREM IndexStaysBounded == TrackerSpec => []IndexBounded
BY Invariance, PTL DEF TrackerInv

\* A conversation that can be recognised stops being so only when it is evicted or
\* swept, or when another has, or had until now, exactly its messages.
THEOREM OnlyEqualsDisplace == TrackerSpec => LosesOnlyToEqual
<1>1. ASSUME TrackerInv, TrackerNext, NEW i \in Indexed \ Indexed'
      PROVE  Reason(i)
    <2>1. ASSUME NEW c \in Conns, NEW messages \in Bodies, Extend(c, messages)
          PROVE  Reason(i)
        BY <1>1, <2>1, ExtendMoves, MoveReason
    <2>2. ASSUME NEW c \in Conns, NEW messages \in Bodies, MintNew(c, messages)
          PROVE  Reason(i)
        <3>1. PICK gone \in Evicting : Mints(c, messages, gone)
            BY <2>2 DEF MintNew, Mints
        <3> QED BY <1>1, <3>1, MintReason
    <2>3. ASSUME NEW c \in Conns, NEW content \in Contents, AppendAssistant(c, content)
          PROVE  Reason(i)
        BY <1>1, <2>3, AnswerMoves, MoveReason
    <2>4. ASSUME NEW c \in Conns, AnswerMissed(c) PROVE FALSE
        BY <1>1, <2>4 DEF AnswerMissed, Indexed, Hashes
    <2>5. ASSUME NEW cutoff \in 1 .. now, SweepOnce(cutoff) PROVE Reason(i)
        BY <1>1, <2>5, SweepReason
    <2> QED BY <1>1, <2>1, <2>2, <2>3, <2>4, <2>5 DEF TrackerNext
<1>2. TrackerInv /\ [TrackerNext]_trackerVars
        => [\A i \in Indexed \ Indexed' :
              \/ i \notin byAgentID'
              \/ \E j \in byAgentID' \ {i} :
                    \/ convs'[j].hash = convs[i].hash
                    \/ j \in byAgentID /\ convs[j].hash = convs[i].hash]_trackerVars
    BY <1>1 DEF Reason
<1> QED BY <1>2, Invariance, PTL DEF TrackerSpec, LosesOnlyToEqual
=============================================================================
