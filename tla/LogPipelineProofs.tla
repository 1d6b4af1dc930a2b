------------------------- MODULE LogPipelineProofs -------------------------
(***************************************************************************)
(* What holds of LogPipeline for any number of requests, any batches and   *)
(* any bounds of the stream and of a read.                                 *)
(*                                                                         *)
(* The inductive invariant has four parts.  SdkInv is the transport's own  *)
(* (SdkTransportProofs).  RequestInv says how far each request has got     *)
(* with its batch: what is behind it has been taken care of.  KeyInv is    *)
(* the idempotency key: as long as anybody could publish an event again,   *)
(* its key is there, and whoever publishes holds it alone.  ConsumerInv    *)
(* follows a batch of entries through handle_batch.  What links them is    *)
(* the Horizon: an event that is still in the SDK's buffer is unknown to   *)
(* everybody else.                                                         *)
(***************************************************************************)
EXTENDS LogPipeline, SdkTransportProofs, FiniteSetTheorems

\* Events up to here have left the buffer.
Horizon == accepted - Len(buffer)

Published(e) == \E p \in 1 .. Len(stream) : stream[p] = e

Publishing(h, e) == handlers[h].state = "publish" /\ Current(h) = e

\* The event is in the stream, about to be, or known to be lost.
Treated(e) ==
    Published(e) \/ (\E h \in Handlers : Publishing(h, e)) \/ e \in claimLost

\* Somebody may still ask for the event to be published.
Around(e) == InSeq(e, batch) \/ \E h \in Handlers : InSeq(e, handlers[h].events)

IngestTypeOK ==
    /\ handlers \in [Handlers -> [state : HandlerStates, events : Seq(RequestIds),
                                  pos : Nat]]
    /\ idem \subseteq RequestIds
    /\ stream \in Seq(RequestIds)
    /\ trimmed \in 0 .. Len(stream)
    /\ claimLost \subseteq RequestIds
    /\ conn \in Handlers \cup {NoConn}
    /\ okIds \subseteq Events

\* A request is at an event of its batch, which has left the SDK's buffer, and
\* has taken care of those before.
RequestOK(h) ==
    /\ handlers[h].state = "idle" => handlers[h].events = <<>>
    /\ \A i \in 1 .. Len(handlers[h].events) : handlers[h].events[i] <= Horizon
    /\ handlers[h].state \in {"claim", "publish"} =>
          /\ handlers[h].pos \in 1 .. Len(handlers[h].events)
          /\ \A i \in 1 .. handlers[h].pos - 1 : Treated(handlers[h].events[i])
    /\ handlers[h].state = "claim" => Current(h) \notin Stitched
    /\ handlers[h].state = "ok" =>
          \A i \in 1 .. Len(handlers[h].events) : Treated(handlers[h].events[i])

RequestInv == \A h \in Handlers : RequestOK(h)

\* What has a key has been taken care of, and what has none but is published
\* will not be asked for again.
KeyInv ==
    /\ \A e \in idem : e <= Horizon /\ Treated(e)
    /\ \A p \in 1 .. Len(stream) : stream[p] <= Horizon
    /\ \A e \in RequestIds \ Stitched :
          /\ \A p, q \in 1 .. Len(stream) : stream[p] = e /\ stream[q] = e => p = q
          /\ Published(e) => e \in idem \/ ~Around(e)
          /\ \A h \in Handlers : Publishing(h, e) =>
                /\ e \in idem /\ ~Published(e)
                /\ \A g \in Handlers : Publishing(g, e) => g = h

\* A request somebody waits for works on the batch of the POST.
ConnInv ==
    /\ conn \in Handlers /\ handlers[conn].state # "idle" => handlers[conn].events = batch
    /\ \A e \in okIds : Treated(e)

\* An entry is in ClickHouse or in the DLQ, or newer entries have filled the DLQ
\* since it was there.
Kept(p) == InDlq(p) \/ (p \in overrun /\ Len(dlq) >= DlqMax)
Durable(p) == stream[p] \in table \/ Kept(p)

\* What the batch in hand still needs, at each await of handle_batch.
ConsumerInv ==
    /\ lastRead \in 0 .. Len(stream)
    /\ pending \subseteq 1 .. lastRead
    /\ acked \subseteq 1 .. lastRead
    /\ cbatch \subseteq pending
    /\ cstate \in ConsumerStates
    /\ dlqTodo \subseteq cbatch
    /\ dlq \in Seq(1 .. lastRead)
    /\ overrun \subseteq 1 .. lastRead
    /\ table \subseteq RequestIds
    /\ \A p \in cbatch : Decodes(p) \/ p \in dlqTodo \/ Kept(p)
    /\ cstate \in {"failed", "ack"} => \A p \in cbatch : p \in dlqTodo \/ Durable(p)
    /\ cstate \in {"idle", "insert", "ack"} => dlqTodo = {}
    /\ AckedIsDurable
    /\ ReadIsAccounted

ServiceInv ==
    /\ IngestTypeOK
    /\ RequestInv
    /\ KeyInv
    /\ ConnInv

PipelineInv ==
    /\ SdkInv
    /\ ServiceInv
    /\ ConsumerInv

-----------------------------------------------------------------------------
(* The consumer *)

\* The stream only grows, at its end.
Grows ==
    /\ stream' \in Seq(RequestIds)
    /\ Len(stream') >= Len(stream)
    /\ \A p \in 1 .. Len(stream) : stream'[p] = stream[p]
    /\ trimmed' \in trimmed .. Len(stream')

\* Growth of the stream is nothing to a consumer.
LEMMA GrowsInv ==
    ASSUME IngestTypeOK, ConsumerInv, Grows, UNCHANGED consumerVars
    PROVE  ConsumerInv'
<1>1. /\ stream \in Seq(RequestIds) /\ trimmed \in 0 .. Len(stream)
      /\ lastRead' = lastRead /\ pending' = pending /\ acked' = acked
      /\ cbatch' = cbatch /\ cstate' = cstate /\ dlqTodo' = dlqTodo
      /\ table' = table /\ dlq' = dlq /\ overrun' = overrun
    BY DEF IngestTypeOK, consumerVars, dlqVars
<1>2. /\ lastRead \in 0 .. Len(stream)
      /\ pending \subseteq 1 .. lastRead
      /\ acked \subseteq 1 .. lastRead
      /\ cbatch \subseteq pending
    BY DEF ConsumerInv
<1>3. \A p \in 1 .. lastRead : stream'[p] = stream[p]
    BY <1>1, <1>2 DEF Grows
<1>4. \A p \in cbatch \cup acked : stream'[p] = stream[p]
    BY <1>2, <1>3
<1>5. AckedIsDurable'
    BY <1>1, <1>4 DEF AckedIsDurable, ConsumerInv, InDlq
<1>6. trimmed' \in Nat /\ trimmed <= trimmed'
    BY <1>1 DEF Grows
<1>7. ReadIsAccounted'
    BY <1>1, <1>2, <1>6 DEF ReadIsAccounted, ConsumerInv
<1>8. lastRead' \in 0 .. Len(stream')
    BY <1>1, <1>2 DEF Grows
<1>9. /\ \A p \in cbatch' : Decodes(p)' \/ p \in dlqTodo' \/ Kept(p)'
      /\ cstate' \in {"failed", "ack"} => \A p \in cbatch' : p \in dlqTodo' \/ Durable(p)'
    BY <1>1, <1>4 DEF ConsumerInv, Decodes, Durable, Kept, InDlq
<1> QED BY <1>1, <1>2, <1>5, <1>7, <1>8, <1>9 DEF ConsumerInv

\* What a batch is when it enters handle_batch.
LEMMA EnterFacts ==
    ASSUME NEW S, Enter(S)
    PROVE  /\ cbatch' = S
           /\ dlqTodo' \subseteq S
           /\ \A p \in S : Decodes(p) \/ p \in dlqTodo'
           /\ cstate' \in {"malformed", "insert", "ack"}
           /\ cstate' = "malformed" \/ dlqTodo' = {}
           /\ cstate' = "ack" => S \subseteq dlqTodo'
BY DEF Enter, AfterDecode

\* What a batch inserts are events.
LEMMA InsertedType ==
    ASSUME stream \in Seq(RequestIds), table \subseteq RequestIds,
           NEW S \in SUBSET (1 .. Len(stream))
    PROVE  Inserted(S) \subseteq RequestIds
BY DEF Inserted

\* What is left of a sequence when some of its front is cut off.
LEMMA TailFacts ==
    ASSUME NEW S, NEW s \in Seq(S), NEW k \in 0 .. Len(s)
    PROVE  /\ SubSeq(s, k + 1, Len(s)) \in Seq(S)
           /\ Len(SubSeq(s, k + 1, Len(s))) = Len(s) - k
           /\ \A i \in 1 .. Len(s) - k : SubSeq(s, k + 1, Len(s))[i] = s[i + k]
OBVIOUS

\* What the XADD of one more failure makes of the DLQ: nothing that was there or
\* had been pushed out before is unaccounted for.
LEMMA DlqAddFacts ==
    ASSUME NEW n \in Nat, dlq \in Seq(1 .. n), overrun \subseteq 1 .. n,
           ConsumerAssumption, NEW p \in 1 .. n, DlqAdd(p)
    PROVE  /\ dlq' \in Seq(1 .. n) /\ overrun' \subseteq 1 .. n
           /\ Kept(p)'
           /\ \A q : Kept(q) => Kept(q)'
<1>1. PICK k \in 0 .. Len(dlq) :
          /\ k = 0 \/ Len(dlq) + 1 - k >= DlqMax
          /\ dlq' = SubSeq(Append(dlq, p), k + 1, Len(dlq) + 1)
          /\ overrun' = overrun \cup {dlq[i] : i \in 1 .. k}
    BY DEF DlqAdd
<1>2. /\ DlqMax \in Nat /\ Len(dlq) \in Nat /\ k \in Nat /\ k <= Len(dlq)
      /\ Len(dlq) + 1 - k \in Nat
    BY DEF ConsumerAssumption
<1>3. PICK grown \in Seq(1 .. n) :
          /\ grown = Append(dlq, p)
          /\ Len(grown) = Len(dlq) + 1
          /\ grown[Len(dlq) + 1] = p
          /\ \A i \in 1 .. Len(dlq) : grown[i] = dlq[i]
    <2>1. Append(dlq, p) \in Seq(1 .. n)
        OBVIOUS
    <2>2. /\ Len(Append(dlq, p)) = Len(dlq) + 1
          /\ Append(dlq, p)[Len(dlq) + 1] = p
          /\ \A i \in 1 .. Len(dlq) : Append(dlq, p)[i] = dlq[i]
        BY <1>2
    <2> QED BY <2>1, <2>2
<1>4. /\ dlq' \in Seq(1 .. n)
      /\ Len(dlq') = Len(dlq) + 1 - k
      /\ dlq'[Len(dlq) + 1 - k] = p
      /\ \A i \in 1 .. Len(dlq) - k : dlq'[i] = dlq[i + k]
    <2>1. dlq' = SubSeq(grown, k + 1, Len(grown))
        BY <1>1, <1>3
    <2>2. /\ dlq' \in Seq(1 .. n)
          /\ Len(dlq') = Len(grown) - k
          /\ \A i \in 1 .. Len(grown) - k : dlq'[i] = grown[i + k]
        <3>1. k \in 0 .. Len(grown)
            BY <1>2, <1>3
        <3> QED BY <2>1, <3>1, TailFacts
    <2>3. dlq'[Len(dlq) + 1 - k] = grown[Len(dlq) + 1]
        <3> DEFINE j == Len(dlq) + 1 - k
        <3>1. j \in 1 .. Len(grown) - k /\ j + k = Len(dlq) + 1
            BY <1>2, <1>3
        <3> HIDE DEF j
        <3>2. dlq'[j] = grown[Len(dlq) + 1]
            BY <2>2, <3>1
        <3> QED BY <3>2 DEF j
    <2>4. ASSUME NEW i \in 1 .. Len(dlq) - k
          PROVE  dlq'[i] = grown[i + k] /\ i + k \in 1 .. Len(dlq)
        <3>1. i \in 1 .. Len(grown) - k /\ i + k \in 1 .. Len(dlq)
            BY <1>2, <1>3
        <3> QED BY <2>2, <3>1
    <2> QED BY <1>2, <1>3, <2>2, <2>3, <2>4
<1>5. overrun' \subseteq 1 .. n
    <2>1. \A i \in 1 .. k : dlq[i] \in 1 .. n
        BY <1>2
    <2> QED BY <1>1, <2>1
<1>6. Kept(p)'
    <2>1. Len(dlq) + 1 - k \in 1 .. Len(dlq')
        BY <1>2, <1>4
    <2> QED BY <2>1, <1>4 DEF Kept, InDlq
<1>7. ASSUME NEW q, Kept(q) PROVE Kept(q)'
    <2>1. CASE q \in overrun /\ Len(dlq) >= DlqMax
        <3>1. q \in overrun' /\ Len(dlq') >= DlqMax
            BY <2>1, <1>1, <1>2, <1>4
        <3> QED BY <3>1 DEF Kept
    <2>2. ASSUME NEW i \in 1 .. Len(dlq), dlq[i] = q PROVE Kept(q)'
        <3>1. CASE i > k
            <4> DEFINE j == i - k
            <4>1. j \in 1 .. Len(dlq) - k /\ j \in 1 .. Len(dlq') /\ j + k = i
                BY <3>1, <1>2, <1>4
            <4> HIDE DEF j
            <4>2. dlq'[j] = q
                BY <2>2, <4>1, <1>4
            <4> QED BY <4>1, <4>2 DEF Kept, InDlq
        <3>2. CASE i <= k
            <4>1. i \in 1 .. k
                BY <3>2, <1>2
            <4>2. q \in overrun'
                BY <2>2, <4>1, <1>1
            <4>3. Len(dlq') >= DlqMax
                BY <4>1, <1>1, <1>2, <1>4
            <4> QED BY <4>2, <4>3 DEF Kept
        <3> QED BY <3>1, <3>2
    <2> QED BY <1>7, <2>1, <2>2 DEF Kept, InDlq
<1> QED BY <1>4, <1>5, <1>6, <1>7

LEMMA ConsumesInv ==
    ASSUME IngestTypeOK, ConsumerInv, ConsumerStep, UNCHANGED ingestVars
    PROVE  ConsumerInv'
<1> USE DEF IngestTypeOK, ConsumerInv, ingestVars, Durable, ConsumerStates, dlqVars
<1>a. UNCHANGED dlqVars => \A p : Kept(p)' <=> Kept(p)
    BY DEF Kept, InDlq
<1>0. Inserted(cbatch) \subseteq RequestIds
    <2>1. cbatch \in SUBSET (1 .. Len(stream))
        OBVIOUS
    <2> QED BY <2>1, InsertedType
<1>1. CASE Read
    <2>1. PICK last \in NextUnread .. Len(stream) :
              /\ Enter(NextUnread .. last)
              /\ lastRead' = last
              /\ pending' = pending \cup (NextUnread .. last)
        BY <1>1 DEF Read
    <2> DEFINE S == NextUnread .. last
    <2>2. /\ NextUnread \in Nat /\ NextUnread > lastRead /\ NextUnread > trimmed
          /\ \A p \in lastRead + 1 .. NextUnread - 1 : p <= trimmed
        BY DEF NextUnread
    <2>3. S \subseteq 1 .. last /\ lastRead <= last /\ last <= Len(stream)
        BY <2>2
    <2>4. UNCHANGED <<stream, trimmed, table, dlq, overrun, acked>>
        BY <1>1 DEF Read
    <2>5. ReadIsAccounted'
        <3> SUFFICES ASSUME NEW p \in 1 .. last
                     PROVE  p \in acked \cup pending \cup S \/ p <= trimmed
            BY <2>1, <2>4 DEF ReadIsAccounted
        <3>1. CASE p <= lastRead
            BY <3>1 DEF ReadIsAccounted
        <3>2. CASE p \in lastRead + 1 .. NextUnread - 1
            BY <3>2, <2>2
        <3> QED BY <3>1, <3>2, <2>2
    <2>6. AckedIsDurable'
        BY <2>4, <1>a DEF AckedIsDurable, Kept
    <2>7. /\ cbatch' = S /\ dlqTodo' \subseteq S /\ \A p \in S : Decodes(p) \/ p \in dlqTodo'
          /\ cstate' \in {"malformed", "insert", "ack"}
          /\ cstate' = "malformed" \/ dlqTodo' = {}
          /\ cstate' = "ack" => S \subseteq dlqTodo'
        BY <2>1, EnterFacts
    <2>8. /\ lastRead' \in 0 .. Len(stream')
          /\ pending' \subseteq 1 .. lastRead' /\ acked' \subseteq 1 .. lastRead'
          /\ cbatch' \subseteq pending' /\ dlq' \in Seq(1 .. lastRead')
          /\ overrun' \subseteq 1 .. lastRead'
        <3> HIDE DEF S
        <3>1. pending' = pending \cup S /\ lastRead' = last /\ last \in Nat
            BY <2>1, <2>2 DEF S
        <3> QED BY <3>1, <2>3, <2>4, <2>7
    <2> HIDE DEF S
    <2> QED BY <2>4, <2>5, <2>6, <2>7, <2>8, <1>a DEF Decodes
<1>2. CASE Redeliver
    <2>1. PICK p \in pending : Enter({p})
        BY <1>2 DEF Redeliver
    <2>2. /\ cbatch' = {p} /\ dlqTodo' \subseteq {p} /\ (Decodes(p) \/ p \in dlqTodo')
          /\ cstate' \in {"malformed", "insert", "ack"}
          /\ cstate' = "malformed" \/ dlqTodo' = {}
          /\ cstate' = "ack" => {p} \subseteq dlqTodo'
        BY <2>1, EnterFacts
    <2> QED BY <1>2, <1>a, <2>2 DEF Redeliver, Decodes, AckedIsDurable, Kept, ReadIsAccounted
<1>3. CASE InsertOk
    BY <1>0, <1>a, <1>3 DEF InsertOk, Inserted, Decodes, AckedIsDurable, Kept, ReadIsAccounted
<1>4. CASE InsertFails
    BY <1>0, <1>a, <1>4 DEF InsertFails, Inserted, Decodes, AckedIsDurable, Kept, ReadIsAccounted
<1>5. CASE DlqPublish
    <2>1. PICK p \in dlqTodo : DlqAdd(p) /\ dlqTodo' = dlqTodo \ {p}
        BY <1>5 DEF DlqPublish
    <2>2. /\ dlq' \in Seq(1 .. lastRead) /\ overrun' \subseteq 1 .. lastRead
          /\ Kept(p)' /\ \A q : Kept(q) => Kept(q)'
        <3>1. lastRead \in Nat /\ p \in 1 .. lastRead
            OBVIOUS
        <3> QED BY <2>1, <3>1, DlqAddFacts, ConsumerAssumption
    <2>3. UNCHANGED <<lastRead, pending, cbatch, table, acked, stream, trimmed>>
        BY <1>5 DEF DlqPublish
    <2>4. \A q \in acked : Durable(q)
        BY DEF AckedIsDurable, Kept
    <2>5. AckedIsDurable'
        BY <2>2, <2>3, <2>4 DEF AckedIsDurable, Kept
    <2>6. cstate' = IF dlqTodo' # {} THEN cstate
                    ELSE IF cstate = "failed" THEN "ack" ELSE AfterDecode(cbatch)
        BY <1>5 DEF DlqPublish
    <2>7. cstate \in {"malformed", "failed"}
        BY <1>5 DEF DlqPublish
    <2>8. /\ \A q \in cbatch' : Decodes(q)' \/ q \in dlqTodo' \/ Kept(q)'
          /\ cstate' \in {"failed", "ack"} => \A q \in cbatch' : q \in dlqTodo' \/ Durable(q)'
        BY <2>1, <2>2, <2>3, <2>6, <2>7 DEF Decodes, AfterDecode
    <2>9. /\ cstate' \in ConsumerStates
          /\ cstate' \in {"idle", "insert", "ack"} => dlqTodo' = {}
        BY <2>6, <2>7 DEF AfterDecode
    <2> QED BY <2>1, <2>2, <2>3, <2>5, <2>8, <2>9 DEF ReadIsAccounted
<1>6. CASE DlqError \/ ConsumerCrash
    BY <1>6, <1>a DEF DlqError, ConsumerCrash, Decodes, AckedIsDurable, Kept, ReadIsAccounted
<1>7. CASE Ack
    BY <1>7, <1>a DEF Ack, Decodes, AckedIsDurable, Kept, ReadIsAccounted
<1> QED BY <1>1, <1>2, <1>3, <1>4, <1>5, <1>6, <1>7 DEF ConsumerStep

-----------------------------------------------------------------------------
(* The transport *)

\* The transport's steps keep its own invariant, and what has left the buffer
\* does not return to it.
LEMMA SdkSteps ==
    ASSUME SdkInv, [SdkNext]_sdkVars
    PROVE  /\ SdkInv'
           /\ Horizon \in Int /\ Horizon' \in Int /\ Horizon <= Horizon'
<1>1. SdkInv'
    BY NextInv
<1>2. /\ accepted \in Nat /\ buffer \in Seq(Events)
      /\ accepted' \in Nat /\ buffer' \in Seq(Events)
    BY <1>1, SdkAssumption DEF SdkInv, SdkTypeOK
<1>3. Horizon <= Horizon'
    <2>1. CASE Submit
        <3>1. Len(buffer') <= Len(buffer) + 1 /\ accepted' = accepted + 1
            <4>1. accepted + 1 \in Events /\ Len(buffer) <= QueueMax
                BY <2>1, <1>2, SdkAssumption DEF Submit, Events, SdkInv, SdkTypeOK
            <4>2. Len(Enqueued(buffer, accepted + 1)) <= Len(buffer) + 1
                BY <4>1, <1>2, EnqueuedFacts
            <4> QED BY <2>1, <4>2 DEF Submit
        <3> QED BY <3>1, <1>2 DEF Horizon
    <2>2. CASE WakeAndPost
        <3>1. buffer' = Rest(buffer, TakeCount) /\ accepted' = accepted
            BY <2>2 DEF WakeAndPost
        <3>2. TakeCount \in 1 .. Len(buffer)
            BY <2>2, TakeCountFacts DEF WakeAndPost, SdkInv
        <3>3. Len(buffer') = Len(buffer) - TakeCount
            BY <3>1, <3>2, <1>2, FrontRest
        <3> QED BY <3>1, <3>2, <3>3, <1>2 DEF Horizon
    <2>3. CASE \/ Start \/ Close \/ CloseReturn \/ WakeEmpty \/ PostRetry
               \/ BackoffOver \/ UNCHANGED sdkVars
        <3>1. UNCHANGED <<buffer, accepted>>
            BY <2>3 DEF Start, Close, CloseReturn, WakeEmpty, PostRetry, BackoffOver,
                        sdkVars
        <3> QED BY <3>1, <1>2 DEF Horizon
    <2>4. CASE PostOk \/ PostRejected \/ PostGiveUp
        <3>1. UNCHANGED <<buffer, accepted>>
            BY <2>4 DEF PostOk, PostRejected, PostGiveUp, SendFails, SendReturns
        <3> QED BY <3>1, <1>2 DEF Horizon
    <2> QED BY <2>1, <2>2, <2>3, <2>4 DEF SdkNext
<1> QED BY <1>1, <1>2, <1>3 DEF Horizon

\* What a POST carries is what it carried before, or fresh from the buffer.
LEMMA PostsFresh ==
    ASSUME SdkInv, WakeAndPost \/ BackoffOver, NEW e, InSeq(e, batch')
    PROVE  InSeq(e, batch) \/ e > Horizon
<1>1. CASE WakeAndPost
    <2>1. PICK i \in 1 .. Len(batch') : batch'[i] = e
        BY DEF InSeq
    <2>2. buffer \in Seq(Events) /\ accepted \in Nat
        BY SdkAssumption DEF SdkInv, SdkTypeOK
    <2>3. TakeCount \in 1 .. Len(buffer)
        BY <1>1, TakeCountFacts DEF WakeAndPost, SdkInv
    <2>4. /\ Len(batch') = TakeCount
          /\ \A j \in 1 .. TakeCount : batch'[j] = buffer[j]
        BY <1>1, <2>2, <2>3, FrontRest DEF WakeAndPost
    <2>5. i \in 1 .. Len(buffer) /\ e = buffer[i]
        BY <2>1, <2>3, <2>4
    <2>6. e = accepted - Len(buffer) + i
        BY <2>5 DEF SdkInv, BufferIsNewest
    <2> QED BY <2>2, <2>5, <2>6 DEF Horizon
<1>2. CASE BackoffOver
    BY <1>2 DEF BackoffOver
<1> QED BY <1>1, <1>2

-----------------------------------------------------------------------------
(* The service: what every step has to keep *)

\* A request that did not move keeps its part of the invariant, if nothing that
\* was taken care of is forgotten.
LEMMA RequestsKept ==
    ASSUME IngestTypeOK, RequestInv,
           Horizon \in Int, Horizon' \in Int, Horizon <= Horizon',
           PipelineAssumption,
           \A e \in RequestIds : Treated(e) => Treated(e)',
           \A g \in Handlers : handlers'[g] = handlers[g] \/ RequestOK(g)'
    PROVE  RequestInv'
<1> SUFFICES ASSUME NEW g \in Handlers, handlers'[g] = handlers[g]
             PROVE  RequestOK(g)'
    BY DEF RequestInv
<1>1. RequestOK(g)
    BY DEF RequestInv
<1>2. handlers[g].events \in Seq(RequestIds) /\ handlers[g].pos \in Nat
    BY DEF IngestTypeOK
<1>3. \A i \in 1 .. Len(handlers[g].events) :
          /\ handlers[g].events[i] \in RequestIds
          /\ handlers[g].events[i] \in Int
    <2>1. \A i \in 1 .. Len(handlers[g].events) : handlers[g].events[i] \in RequestIds
        BY <1>2
    <2>2. \A e \in RequestIds : e \in Int
        BY DEF PipelineAssumption, Events
    <2> QED BY <2>1, <2>2
<1>4. \A i \in 1 .. Len(handlers[g].events) : handlers'[g].events[i] <= Horizon'
    BY <1>1, <1>3 DEF RequestOK
<1>5. handlers[g].state \in {"claim", "publish"} =>
          /\ handlers[g].pos \in 1 .. Len(handlers[g].events)
          /\ \A i \in 1 .. handlers[g].pos - 1 : Treated(handlers[g].events[i])'
    BY <1>1, <1>2, <1>3 DEF RequestOK
<1>6. handlers[g].state = "ok" =>
          \A i \in 1 .. Len(handlers[g].events) : Treated(handlers[g].events[i])'
    BY <1>1, <1>3 DEF RequestOK
<1> QED BY <1>1, <1>4, <1>5, <1>6 DEF RequestOK, Current

\* The keys are right after a step that touches neither keys nor stream, if it
\* makes nobody publish but a stitched event and offers only events that are new.
LEMMA KeysKept ==
    ASSUME KeyInv, PipelineAssumption, stream \in Seq(RequestIds), idem \subseteq RequestIds,
           Horizon \in Int, Horizon' \in Int, Horizon <= Horizon',
           UNCHANGED <<idem, stream>>,
           \A e \in RequestIds : Treated(e) => Treated(e)',
           \A h \in Handlers, e \in RequestIds \ Stitched :
               Publishing(h, e)' => Publishing(h, e),
           \A e \in RequestIds : Around(e)' => Around(e) \/ e > Horizon
    PROVE  KeyInv'
<1>1. \A e \in RequestIds : e \in Int
    BY DEF PipelineAssumption, Events
<1>2. \A p \in 1 .. Len(stream) : stream[p] \in RequestIds /\ stream[p] <= Horizon
    BY DEF KeyInv
<1>3. \A e \in idem' : e <= Horizon' /\ Treated(e)'
    BY <1>1 DEF KeyInv
<1>4. \A p \in 1 .. Len(stream') : stream'[p] <= Horizon'
    BY <1>1, <1>2
<1>5. \A e : Published(e)' <=> Published(e)
    BY DEF Published
<1>6. \A e \in RequestIds \ Stitched : Published(e)' => e \in idem' \/ ~Around(e)'
    <2> SUFFICES ASSUME NEW e \in RequestIds \ Stitched, Published(e), e \notin idem,
                        Around(e)'
                 PROVE  FALSE
        BY <1>5
    <2>1. e <= Horizon
        BY <1>2 DEF Published
    <2>2. ~Around(e)
        BY DEF KeyInv
    <2> QED BY <2>1, <2>2, <1>1
<1>7. \A e \in RequestIds \ Stitched, h \in Handlers : Publishing(h, e)' =>
          /\ e \in idem' /\ ~Published(e)'
          /\ \A g \in Handlers : Publishing(g, e)' => g = h
    BY <1>5 DEF KeyInv
<1>8. \A e \in RequestIds \ Stitched :
          \A p, q \in 1 .. Len(stream') : stream'[p] = e /\ stream'[q] = e => p = q
    BY DEF KeyInv
<1> QED BY <1>3, <1>4, <1>6, <1>7, <1>8 DEF KeyInv

\* Where the loop over a batch stands at position p.
LEMMA AtFacts ==
    ASSUME NEW events \in Seq(RequestIds), NEW p \in Nat
    PROVE  /\ At(events, p).events = events /\ At(events, p).pos = p
           /\ At(events, p) \in [state : HandlerStates, events : Seq(RequestIds), pos : Nat]
           /\ At(events, p).state \in {"ok", "error", "publish", "claim"}
           /\ At(events, p).state = "ok" => p > Len(events)
           /\ At(events, p).state \in {"publish", "claim"} => p <= Len(events)
           /\ At(events, p).state = "publish" => events[p] \in Stitched
           /\ At(events, p).state = "claim" => events[p] \notin Stitched
<1> USE IngestionAssumption
<1>1. StateAt(events, p) \in {"ok", "error", "publish", "claim"}
    BY DEF StateAt
<1>2. StateAt(events, p) = "ok" => p > Len(events)
    BY DEF StateAt
<1>3. StateAt(events, p) \in {"publish", "claim"} => p <= Len(events)
    BY DEF StateAt
<1>4. StateAt(events, p) = "publish" => events[p] \in Stitched
    BY DEF StateAt
<1>5. StateAt(events, p) = "claim" => events[p] \notin Stitched
    BY DEF StateAt
<1> QED BY <1>1, <1>2, <1>3, <1>4, <1>5 DEF At, HandlerStates

Requests == [state : HandlerStates, events : Seq(RequestIds), pos : Nat]

\* One request moves on in its batch, or is over: what that leaves alone.
LEMMA OneMoves ==
    ASSUME IngestTypeOK, NEW h \in Handlers, NEW r \in Requests,
           handlers' = [handlers EXCEPT ![h] = r],
           r.events = handlers[h].events \/ r = Idle
    PROVE  /\ handlers' \in [Handlers -> Requests]
           /\ handlers'[h] = r
           /\ \A g \in Handlers \ {h} : handlers'[g] = handlers[g]
           /\ \A e : (\E g \in Handlers : InSeq(e, handlers'[g].events))
                    => \E g \in Handlers : InSeq(e, handlers[g].events)
           /\ \A g \in Handlers \ {h} : \A e : Publishing(g, e)' <=> Publishing(g, e)
<1>1. /\ handlers' \in [Handlers -> Requests]
      /\ handlers'[h] = r
      /\ \A g \in Handlers \ {h} : handlers'[g] = handlers[g]
    BY DEF IngestTypeOK, Requests
<1>2. ASSUME NEW e, NEW g \in Handlers, InSeq(e, handlers'[g].events)
      PROVE  \E k \in Handlers : InSeq(e, handlers[k].events)
    <2>1. CASE g = h /\ r = Idle
        BY <1>1, <1>2, <2>1 DEF InSeq, Idle
    <2>2. CASE g = h /\ r.events = handlers[h].events
        BY <1>1, <1>2, <2>2
    <2>3. CASE g # h
        BY <1>1, <1>2, <2>3
    <2> QED BY <2>1, <2>2, <2>3
<1>3. \A g \in Handlers \ {h} : \A e : Publishing(g, e)' <=> Publishing(g, e)
    BY <1>1 DEF Publishing, Current
<1> QED BY <1>1, <1>2, <1>3

\* A request that starts on, or moves to, the position p of its batch.
LEMMA AtOK ==
    ASSUME NEW h \in Handlers, NEW events \in Seq(RequestIds), NEW p \in Nat \ {0},
           handlers'[h] = At(events, p),
           \A i \in 1 .. Len(events) : events[i] <= Horizon',
           \A i \in 1 .. Len(events) : i < p => Treated(events[i])'
    PROVE  /\ RequestOK(h)'
           /\ \A e \in RequestIds \ Stitched : ~Publishing(h, e)'
<1>1. /\ handlers'[h].events = events /\ handlers'[h].pos = p
      /\ handlers'[h].state \in {"ok", "error", "publish", "claim"}
      /\ handlers'[h].state = "ok" => p > Len(events)
      /\ handlers'[h].state \in {"publish", "claim"} => p <= Len(events)
      /\ handlers'[h].state = "publish" => events[p] \in Stitched
      /\ handlers'[h].state = "claim" => events[p] \notin Stitched
    BY AtFacts
<1>2. RequestOK(h)'
    <2>1. handlers'[h].state \in {"publish", "claim"} =>
             \A i \in 1 .. p - 1 : Treated(events[i])'
        BY <1>1
    <2>2. handlers'[h].state = "ok" => \A i \in 1 .. Len(events) : Treated(events[i])'
        BY <1>1
    <2> QED BY <1>1, <2>1, <2>2 DEF RequestOK, Current
<1> QED BY <1>1, <1>2 DEF Publishing, Current

-----------------------------------------------------------------------------
(* The steps of the connection *)

\* The steps the service does not see.
LEMMA UnseenSteps ==
    ASSUME PipelineInv, AppStep \/ PostLost \/ AnswerLost
    PROVE  ServiceInv' /\ Grows
<1> USE PipelineAssumption
<1>1. UNCHANGED ingestVars /\ okIds' = okIds /\ [SdkNext]_sdkVars
    BY DEF AppStep, PostLost, AnswerLost, SdkNext
<1>2. UNCHANGED <<handlers, idem, stream, trimmed, claimLost>>
    BY <1>1 DEF ingestVars
<1>3. SdkInv' /\ Horizon \in Int /\ Horizon' \in Int /\ Horizon <= Horizon'
    BY <1>1, SdkSteps DEF PipelineInv
<1>4. /\ \A e : Treated(e)' <=> Treated(e)
      /\ \A h, e : Publishing(h, e)' <=> Publishing(h, e)
    BY <1>2 DEF Treated, Published, Publishing, Current
<1>5. /\ AppStep => conn' = conn /\ batch' = batch
      /\ ~AppStep => conn' = NoConn
    BY DEF AppStep, PostLost, AnswerLost, Submit, Start, WakeEmpty
<1>6. \A e : InSeq(e, batch') => InSeq(e, batch) \/ e > Horizon
    <2>1. CASE AppStep
        BY <2>1, <1>5
    <2>2. CASE PostLost
        BY <2>2, PostsFresh DEF PostLost, PipelineInv
    <2>3. CASE AnswerLost
        <3>1. batch' = batch \/ batch' = <<>>
            BY <2>3 DEF AnswerLost, PostRetry, PostGiveUp, SendFails, SendReturns
        <3> QED BY <3>1 DEF InSeq
    <2> QED BY <2>1, <2>2, <2>3
<1>7. IngestTypeOK'
    BY <1>1, <1>2, <1>5 DEF IngestTypeOK, PipelineInv, ServiceInv
<1>8. RequestInv'
    BY <1>2, <1>3, <1>4, RequestsKept DEF PipelineInv, ServiceInv
<1>9. KeyInv'
    <2>1. \A e : Around(e)' => Around(e) \/ e > Horizon
        BY <1>2, <1>6 DEF Around
    <2> QED BY <1>2, <1>3, <1>4, <2>1, KeysKept DEF PipelineInv, ServiceInv, IngestTypeOK
<1>10. ConnInv'
    BY <1>1, <1>2, <1>4, <1>5 DEF ConnInv, PipelineInv, ServiceInv
<1>11. Grows
    BY <1>2 DEF Grows, PipelineInv, ServiceInv, IngestTypeOK
<1> QED BY <1>7, <1>8, <1>9, <1>10, <1>11 DEF ServiceInv

\* A POST becomes a request: its events have just left the buffer, or are those
\* of the POST before.
LEMMA PostArrivesInv ==
    ASSUME PipelineInv, NEW h \in Handlers, PostArrives(h)
    PROVE  ServiceInv' /\ Grows
<1> USE PipelineAssumption
<1> DEFINE r == IF Len(batch') \in 1 .. MaxEvents THEN At(batch', 1)
                ELSE [state |-> "rejected", events |-> batch', pos |-> 0]
<1>1. /\ UNCHANGED <<idem, stream, trimmed, claimLost>> /\ okIds' = okIds
      /\ conn' = h /\ [SdkNext]_sdkVars
      /\ handlers[h].state = "idle" /\ handlers' = [handlers EXCEPT ![h] = r]
    BY DEF PostArrives, Receive, SdkNext
<1>2. SdkInv' /\ Horizon \in Int /\ Horizon' \in Int /\ Horizon <= Horizon'
    BY <1>1, SdkSteps DEF PipelineInv
<1>3. /\ batch' \in Seq(RequestIds)
      /\ \A i \in 1 .. Len(batch') : batch'[i] <= Horizon'
    BY <1>2 DEF SdkInv, SdkTypeOK, PostsInv, Horizon
<1>4. r \in Requests /\ r.events = batch'
    BY <1>3, AtFacts DEF Requests, HandlerStates
<1>5. /\ handlers' \in [Handlers -> Requests] /\ handlers'[h] = r
      /\ \A g \in Handlers \ {h} : handlers'[g] = handlers[g]
    BY <1>1, <1>4 DEF Requests, PipelineInv, ServiceInv, IngestTypeOK
<1>6. /\ RequestOK(h)'
      /\ \A e \in RequestIds \ Stitched : ~Publishing(h, e)'
    <2>1. CASE Len(batch') \in 1 .. MaxEvents
        BY <1>3, <1>5, <2>1, AtOK
    <2>2. CASE Len(batch') \notin 1 .. MaxEvents
        BY <1>3, <1>5, <2>2 DEF RequestOK, Publishing
    <2> QED BY <2>1, <2>2
<1>7. \A g \in Handlers : \A e : Publishing(g, e) => Publishing(g, e)'
    BY <1>1, <1>5 DEF Publishing, Current
<1>8. \A e : Treated(e) => Treated(e)'
    BY <1>1, <1>7 DEF Treated, Published
<1>9. RequestInv'
    BY <1>2, <1>5, <1>6, <1>8, RequestsKept DEF PipelineInv, ServiceInv
<1>10. KeyInv'
    <2>1. \A g \in Handlers, e \in RequestIds \ Stitched :
              Publishing(g, e)' => Publishing(g, e)
        BY <1>5, <1>6 DEF Publishing, Current
    <2>2. ASSUME NEW e, Around(e)' PROVE Around(e) \/ e > Horizon
        <3>1. InSeq(e, batch') => InSeq(e, batch) \/ e > Horizon
            BY PostsFresh DEF PostArrives, PipelineInv
        <3>2. \A g \in Handlers : InSeq(e, handlers'[g].events)
                  => InSeq(e, batch') \/ InSeq(e, handlers[g].events)
            BY <1>4, <1>5
        <3> QED BY <2>2, <3>1, <3>2 DEF Around
    <2> QED BY <1>1, <1>2, <1>8, <2>1, <2>2, KeysKept DEF PipelineInv, ServiceInv, IngestTypeOK
<1>11. ConnInv'
    BY <1>1, <1>4, <1>5, <1>8 DEF ConnInv, PipelineInv, ServiceInv, IngestTypeOK
<1>12. IngestTypeOK'
    BY <1>1, <1>5 DEF IngestTypeOK, Requests, PipelineInv, ServiceInv
<1>13. Grows
    BY <1>1 DEF Grows, PipelineInv, ServiceInv, IngestTypeOK
<1> QED BY <1>9, <1>10, <1>11, <1>12, <1>13 DEF ServiceInv

\* A request is over once its answer has left, read or not.
LEMMA AnsweredFacts ==
    ASSUME IngestTypeOK, NEW h \in Handlers, Answered(h)
    PROVE  /\ handlers' \in [Handlers -> Requests]
           /\ handlers'[h] = Idle
           /\ \A g \in Handlers \ {h} : handlers'[g] = handlers[g]
           /\ \A e : (\E g \in Handlers : InSeq(e, handlers'[g].events))
                    => \E g \in Handlers : InSeq(e, handlers[g].events)
           /\ \A g \in Handlers : \A e : Publishing(g, e)' <=> Publishing(g, e)
           /\ \A e : Treated(e)' <=> Treated(e)
           /\ RequestOK(h)'
<1>1. Idle \in Requests
    BY DEF Idle, Requests, HandlerStates
<1>2. /\ handlers' = [handlers EXCEPT ![h] = Idle]
      /\ UNCHANGED <<idem, stream, trimmed, claimLost>>
      /\ handlers[h].state \in Final
    BY DEF Answered
<1>3. /\ handlers' \in [Handlers -> Requests] /\ handlers'[h] = Idle
      /\ \A g \in Handlers \ {h} : handlers'[g] = handlers[g]
      /\ \A e : (\E g \in Handlers : InSeq(e, handlers'[g].events))
               => \E g \in Handlers : InSeq(e, handlers[g].events)
      /\ \A g \in Handlers \ {h} : \A e : Publishing(g, e)' <=> Publishing(g, e)
    BY <1>1, <1>2, OneMoves
<1>4. \A e : ~Publishing(h, e) /\ ~Publishing(h, e)'
    BY <1>2, <1>3 DEF Publishing, Final, Idle
<1>5. \A g \in Handlers : \A e : Publishing(g, e)' <=> Publishing(g, e)
    BY <1>3, <1>4
<1>6. \A e : Treated(e)' <=> Treated(e)
    BY <1>2, <1>5 DEF Treated, Published
<1>7. RequestOK(h)'
    BY <1>3 DEF RequestOK, Idle
<1> QED BY <1>3, <1>5, <1>6, <1>7

\* The SDK reads an answer: a 202 says that the whole batch was taken care of.
LEMMA AnswerReadInv ==
    ASSUME PipelineInv, AnswerRead
    PROVE  ServiceInv' /\ Grows
<1> USE PipelineAssumption
<1>1. PICK h \in Handlers : h = conn
    BY DEF AnswerRead
<1>2. /\ Answered(h) /\ conn' = NoConn
      /\ [SdkNext]_sdkVars /\ UNCHANGED <<idem, stream, trimmed, claimLost>>
    BY <1>1 DEF AnswerRead, SdkNext, Answered
<1>3. SdkInv' /\ Horizon \in Int /\ Horizon' \in Int /\ Horizon <= Horizon'
    BY <1>1, <1>2, SdkSteps DEF PipelineInv
<1>4. IngestTypeOK /\ RequestInv /\ KeyInv /\ ConnInv
    BY DEF PipelineInv, ServiceInv
<1>5. /\ handlers' \in [Handlers -> Requests]
      /\ \A g \in Handlers \ {h} : handlers'[g] = handlers[g]
      /\ \A e : (\E g \in Handlers : InSeq(e, handlers'[g].events))
               => \E g \in Handlers : InSeq(e, handlers[g].events)
      /\ \A g \in Handlers : \A e : Publishing(g, e)' <=> Publishing(g, e)
      /\ \A e : Treated(e)' <=> Treated(e)
      /\ RequestOK(h)'
    BY <1>1, <1>2, <1>4, AnsweredFacts
<1>6. batch' = batch \/ batch' = <<>>
    BY DEF AnswerRead, PostOk, PostRetry, PostGiveUp, PostRejected, SendFails, SendReturns
<1>7. okIds' \subseteq Events /\ \A e \in okIds' : Treated(e)
    <2>1. CASE handlers[h].state = "ok"
        <3>1. okIds' = okIds \cup {e \in Events : InSeq(e, batch)}
            BY <1>1, <2>1 DEF AnswerRead
        <3>2. handlers[h].events = batch
            BY <1>1, <1>2, <1>4, <2>1 DEF ConnInv
        <3>3. \A i \in 1 .. Len(batch) : Treated(batch[i])
            BY <1>1, <1>2, <1>4, <2>1, <3>2 DEF RequestInv, RequestOK
        <3> QED BY <1>4, <3>1, <3>3 DEF ConnInv, IngestTypeOK, InSeq
    <2>2. CASE handlers[h].state # "ok"
        BY <1>1, <1>4, <2>2 DEF AnswerRead, ConnInv, IngestTypeOK
    <2> QED BY <2>1, <2>2
<1>8. RequestInv'
    BY <1>3, <1>4, <1>5, RequestsKept
<1>9. KeyInv'
    <2>1. \A e : Around(e)' => Around(e)
        BY SMTT(30), <1>5, <1>6 DEF Around, InSeq
    <2> QED BY <1>1, <1>2, <1>3, <1>4, <1>5, <2>1, KeysKept DEF IngestTypeOK
<1>10. ConnInv'
    BY <1>1, <1>2, <1>5, <1>7 DEF ConnInv
<1>11. IngestTypeOK'
    BY <1>1, <1>2, <1>4, <1>5, <1>7 DEF IngestTypeOK, Requests
<1>12. Grows
    BY <1>1, <1>2, <1>4 DEF Grows, IngestTypeOK
<1> QED BY <1>8, <1>9, <1>10, <1>11, <1>12 DEF ServiceInv

LEMMA AbandonedInv ==
    ASSUME PipelineInv, NEW h \in Handlers, AbandonedEnds(h)
    PROVE  ServiceInv' /\ Grows
<1> USE PipelineAssumption
<1>1. /\ Answered(h) /\ h # conn /\ UNCHANGED <<idem, stream, trimmed, claimLost>>
      /\ UNCHANGED <<sdkVars, conn, okIds>>
    BY DEF AbandonedEnds, Answered
<1>2. /\ Horizon \in Int /\ Horizon' \in Int /\ Horizon <= Horizon'
      /\ batch' = batch
    BY <1>1, SdkSteps DEF PipelineInv, sdkVars
<1>3. IngestTypeOK /\ RequestInv /\ KeyInv /\ ConnInv
    BY DEF PipelineInv, ServiceInv
<1>4. /\ handlers' \in [Handlers -> Requests]
      /\ \A g \in Handlers \ {h} : handlers'[g] = handlers[g]
      /\ \A e : (\E g \in Handlers : InSeq(e, handlers'[g].events))
               => \E g \in Handlers : InSeq(e, handlers[g].events)
      /\ \A g \in Handlers : \A e : Publishing(g, e)' <=> Publishing(g, e)
      /\ \A e : Treated(e)' <=> Treated(e)
      /\ RequestOK(h)'
    BY <1>1, <1>3, AnsweredFacts
<1>5. RequestInv'
    BY <1>2, <1>3, <1>4, RequestsKept
<1>6. KeyInv'
    <2>1. \A e : Around(e)' => Around(e)
        BY <1>2, <1>4 DEF Around
    <2> QED BY <1>1, <1>2, <1>3, <1>4, <2>1, KeysKept DEF IngestTypeOK
<1>7. ConnInv'
    BY <1>1, <1>2, <1>3, <1>4 DEF ConnInv
<1>8. IngestTypeOK'
    BY <1>1, <1>3, <1>4 DEF IngestTypeOK, Requests
<1>9. Grows
    BY <1>1, <1>3 DEF Grows, IngestTypeOK
<1> QED BY <1>5, <1>6, <1>7, <1>8, <1>9 DEF ServiceInv

-----------------------------------------------------------------------------
(* The steps of the service *)

\* What a step of a request at the event c of its batch has to show.
LEMMA ServiceKept ==
    ASSUME PipelineInv, NEW h \in Handlers, NEW r \in Requests,
           handlers' = [handlers EXCEPT ![h] = r],
           r.events = handlers[h].events \/ r = Idle,
           handlers[h].state \in {"claim", "publish"},
           UNCHANGED <<sdkVars, conn, okIds>>,
           idem' \subseteq RequestIds, claimLost' \subseteq RequestIds,
           Grows,
           \A e \in RequestIds : Treated(e) => Treated(e)',
           RequestOK(h)',
           KeyInv'
    PROVE  ServiceInv' /\ Grows
<1> USE PipelineAssumption
<1>1. /\ Horizon \in Int /\ Horizon' \in Int /\ Horizon <= Horizon'
      /\ batch' = batch
    BY SdkSteps DEF PipelineInv, sdkVars
<1>2. IngestTypeOK /\ RequestInv /\ ConnInv
    BY DEF PipelineInv, ServiceInv
<1>3. /\ handlers' \in [Handlers -> Requests] /\ handlers'[h] = r
      /\ \A g \in Handlers \ {h} : handlers'[g] = handlers[g]
    BY <1>2, OneMoves
<1>4. RequestInv'
    BY <1>1, <1>2, <1>3, RequestsKept
<1>5. ConnInv'
    <2>1. ASSUME conn \in Handlers, handlers'[conn].state # "idle"
          PROVE  handlers'[conn].events = batch
        <3>1. CASE conn = h
            BY <1>2, <1>3, <2>1, <3>1 DEF ConnInv, Idle
        <3>2. CASE conn # h
            BY <1>2, <1>3, <2>1, <3>2 DEF ConnInv
        <3> QED BY <3>1, <3>2
    <2> QED BY <1>1, <1>2, <2>1 DEF ConnInv, IngestTypeOK
<1>6. IngestTypeOK'
    BY <1>2, <1>3 DEF IngestTypeOK, Requests, Grows
<1> QED BY <1>4, <1>5, <1>6 DEF ServiceInv

\* Where a request is that has an event in hand.
LEMMA InHand ==
    ASSUME PipelineInv, NEW h \in Handlers, handlers[h].state \in {"claim", "publish"}
    PROVE  /\ handlers[h] \in Requests
           /\ handlers[h].events \in Seq(RequestIds)
           /\ handlers[h].pos \in 1 .. Len(handlers[h].events)
           /\ Current(h) \in RequestIds /\ Current(h) <= Horizon /\ Around(Current(h))
           /\ \A i \in 1 .. Len(handlers[h].events) : handlers[h].events[i] <= Horizon
           /\ \A i \in 1 .. handlers[h].pos - 1 : Treated(handlers[h].events[i])
           /\ handlers[h].state = "claim" => Current(h) \notin Stitched
           /\ \A e : handlers[h].state = "claim" => ~Publishing(h, e)
<1>1. handlers[h] \in Requests /\ RequestOK(h)
    BY DEF PipelineInv, ServiceInv, IngestTypeOK, RequestInv, Requests
<1>2. /\ handlers[h].events \in Seq(RequestIds)
      /\ handlers[h].pos \in 1 .. Len(handlers[h].events)
    BY <1>1 DEF RequestOK, Requests
<1>3. Current(h) \in RequestIds /\ Current(h) <= Horizon /\ Around(Current(h))
    BY <1>1, <1>2 DEF RequestOK, Current, Around, InSeq
<1> QED BY <1>1, <1>2, <1>3 DEF RequestOK, Publishing

\* The request that claims the key of its event is the only one at it: an event
\* that was published keeps its key while somebody may ask for it.
LEMMA ClaimInv ==
    ASSUME PipelineInv, NEW h \in Handlers, Claim(h), UNCHANGED <<sdkVars, conn, okIds>>
    PROVE  ServiceInv' /\ Grows
<1> USE PipelineAssumption
<1> DEFINE r == [handlers[h] EXCEPT !.state = "publish"]
<1>0. PICK c \in RequestIds : c = Current(h)
    BY InHand DEF Claim
<1>1. /\ handlers[h].state = "claim" /\ c \notin idem /\ idem' = idem \cup {c}
      /\ handlers' = [handlers EXCEPT ![h] = r]
      /\ UNCHANGED <<stream, trimmed, claimLost>>
    BY <1>0 DEF Claim, Become, ClaimFresh
<1>2. /\ handlers[h] \in Requests /\ handlers[h].events \in Seq(RequestIds)
      /\ handlers[h].pos \in 1 .. Len(handlers[h].events)
      /\ c \in RequestIds \ Stitched /\ c <= Horizon /\ Around(c)
      /\ \A i \in 1 .. Len(handlers[h].events) : handlers[h].events[i] <= Horizon
      /\ \A i \in 1 .. handlers[h].pos - 1 : Treated(handlers[h].events[i])
      /\ \A e : ~Publishing(h, e)
    BY <1>0, <1>1, InHand
<1>3. r \in Requests /\ r.events = handlers[h].events /\ r.pos = handlers[h].pos
      /\ r.state = "publish"
    BY <1>2 DEF Requests, HandlerStates
<1>4. IngestTypeOK /\ KeyInv /\ Horizon' = Horizon /\ batch' = batch
    BY DEF PipelineInv, ServiceInv, Horizon, sdkVars
<1>5. /\ handlers' \in [Handlers -> Requests] /\ handlers'[h] = r
      /\ \A g \in Handlers \ {h} : handlers'[g] = handlers[g]
      /\ \A e : (\E g \in Handlers : InSeq(e, handlers'[g].events))
               => \E g \in Handlers : InSeq(e, handlers[g].events)
      /\ \A g \in Handlers \ {h} : \A e : Publishing(g, e)' <=> Publishing(g, e)
    BY <1>1, <1>3, <1>4, OneMoves
<1> HIDE DEF r
<1>6. \A e : Publishing(h, e)' <=> e = c
    BY <1>0, <1>3, <1>5 DEF Publishing, Current
<1>7. \A e : Treated(e) => Treated(e)'
    BY <1>1, <1>2, <1>5 DEF Treated, Published
<1>8. Treated(c)'
    BY <1>6 DEF Treated
<1>9. RequestOK(h)'
    BY <1>2, <1>3, <1>4, <1>5, <1>7 DEF RequestOK
<1>10. \A e : (Published(e)' <=> Published(e)) /\ (Around(e)' => Around(e))
    BY <1>1, <1>4, <1>5 DEF Published, Around
<1>11. ~Published(c)
    BY <1>1, <1>2, <1>4 DEF KeyInv
<1>12. KeyInv'
    <2>1. \A e \in idem' : e <= Horizon' /\ Treated(e)'
        BY <1>1, <1>2, <1>4, <1>7, <1>8 DEF KeyInv
    <2>2. \A p \in 1 .. Len(stream') : stream'[p] <= Horizon'
        BY <1>1, <1>4 DEF KeyInv
    <2>3. ASSUME NEW e \in RequestIds \ Stitched
          PROVE  /\ \A p, q \in 1 .. Len(stream') : stream'[p] = e /\ stream'[q] = e => p = q
                 /\ Published(e)' => e \in idem' \/ ~Around(e)'
        BY <1>1, <1>4, <1>10 DEF KeyInv
    <2>4. ASSUME NEW e \in RequestIds \ Stitched, NEW g \in Handlers, Publishing(g, e)'
          PROVE  /\ e \in idem' /\ ~Published(e)'
                 /\ \A k \in Handlers : Publishing(k, e)' => k = g
        <3>1. CASE e = c
            <4>1. \A k \in Handlers : ~Publishing(k, c)
                BY <1>1, <1>2, <1>4 DEF KeyInv
            <4> QED BY <1>1, <1>5, <1>10, <1>11, <2>4, <3>1, <4>1
        <3>2. CASE e # c
            <4>1. g # h /\ Publishing(g, e)
                BY <1>5, <1>6, <2>4, <3>2
            <4> QED BY <1>1, <1>4, <1>5, <1>6, <1>10, <3>2, <4>1 DEF KeyInv
        <3> QED BY <3>1, <3>2
    <2> QED BY <2>1, <2>2, <2>3, <2>4 DEF KeyInv
<1>13. Grows /\ idem' \subseteq RequestIds /\ claimLost' \subseteq RequestIds
    BY <1>1, <1>2, <1>4 DEF Grows, IngestTypeOK
<1> QED BY <1>1, <1>3, <1>7, <1>9, <1>12, <1>13, ServiceKept

\* An event whose key is there has been taken care of: skipping it is right.
LEMMA DuplicateInv ==
    ASSUME PipelineInv, NEW h \in Handlers, Duplicate(h), UNCHANGED <<sdkVars, conn, okIds>>
    PROVE  ServiceInv' /\ Grows
<1> USE PipelineAssumption
<1>0. PICK s \in Seq(RequestIds), p \in Nat \ {0} :
          s = handlers[h].events /\ p = handlers[h].pos
    BY InHand DEF Duplicate
<1> DEFINE r == At(s, p + 1)
<1>1. /\ handlers[h].state = "claim" /\ Current(h) \in idem
      /\ handlers' = [handlers EXCEPT ![h] = r]
      /\ UNCHANGED <<idem, stream, trimmed, claimLost>>
    BY <1>0 DEF Duplicate, Advance, ClaimFresh
<1>2. /\ p \in 1 .. Len(s)
      /\ \A i \in 1 .. Len(s) : s[i] \in RequestIds /\ s[i] <= Horizon
      /\ \A i \in 1 .. p - 1 : Treated(s[i])
      /\ \A e : ~Publishing(h, e)
    BY <1>0, <1>1, InHand
<1>3. r \in Requests /\ r.events = handlers[h].events
    BY <1>0, <1>2, AtFacts DEF Requests
<1>4. /\ IngestTypeOK /\ KeyInv /\ Horizon' = Horizon /\ batch' = batch
      /\ Horizon \in Int
    BY SdkSteps DEF PipelineInv, ServiceInv, Horizon, sdkVars
<1>5. /\ handlers'[h] = r
      /\ \A e : (\E g \in Handlers : InSeq(e, handlers'[g].events))
               => \E g \in Handlers : InSeq(e, handlers[g].events)
      /\ \A g \in Handlers \ {h} : \A e : Publishing(g, e)' <=> Publishing(g, e)
    BY <1>1, <1>3, <1>4, OneMoves
<1> HIDE DEF r
<1>6. \A e : Treated(e) => Treated(e)'
    BY <1>1, <1>2, <1>5 DEF Treated, Published
<1>7. RequestOK(h)' /\ \A e \in RequestIds \ Stitched : ~Publishing(h, e)'
    <2>1. Treated(s[p])
        BY <1>0, <1>1, <1>4 DEF KeyInv, Current
    <2>2. \A i \in 1 .. Len(s) : i < p + 1 => Treated(s[i])'
        BY <1>2, <1>6, <2>1
    <2>3. \A i \in 1 .. Len(s) : s[i] <= Horizon'
        BY <1>2, <1>4
    <2> QED BY <1>2, <1>5, <2>2, <2>3, AtOK DEF r
<1>8. KeyInv'
    <2>1. \A e : Around(e)' => Around(e)
        BY <1>4, <1>5 DEF Around
    <2>2. \A g \in Handlers, e \in RequestIds \ Stitched :
              Publishing(g, e)' => Publishing(g, e)
        BY <1>5, <1>7
    <2> QED BY <1>1, <1>4, <1>6, <2>1, <2>2, KeysKept DEF IngestTypeOK
<1>9. Grows /\ idem' \subseteq RequestIds /\ claimLost' \subseteq RequestIds
    BY <1>1, <1>4 DEF Grows, IngestTypeOK
<1> QED BY <1>1, <1>3, <1>6, <1>7, <1>8, <1>9, ServiceKept

\* An entry that may have been added to the stream.
LEMMA XAddFacts ==
    ASSUME IngestTypeOK, NEW c \in RequestIds,
           XAdd(c) \/ UNCHANGED <<stream, trimmed>>
    PROVE  /\ Grows
           /\ XAdd(c) => Published(c)'
           /\ \A e : Published(e) => Published(e)'
           /\ \A p \in 1 .. Len(stream') : stream'[p] = c \/ p \in 1 .. Len(stream)
           /\ Len(stream') <= Len(stream) + 1
<1>1. CASE XAdd(c)
    <2>1. /\ stream' \in Seq(RequestIds) /\ Len(stream') = Len(stream) + 1
          /\ \A p \in 1 .. Len(stream) : stream'[p] = stream[p]
          /\ stream'[Len(stream) + 1] = c
        BY <1>1 DEF XAdd, IngestTypeOK
    <2>2. trimmed' \in trimmed .. Len(stream')
        BY <1>1, <2>1, IngestionAssumption DEF XAdd, IngestTypeOK
    <2>3. Len(stream) \in Nat
        BY DEF IngestTypeOK
    <2> QED BY <2>1, <2>2, <2>3 DEF Grows, Published
<1>2. CASE UNCHANGED <<stream, trimmed>> /\ ~XAdd(c)
    BY <1>2 DEF Grows, Published, IngestTypeOK
<1> QED BY <1>1, <1>2

\* A publish may put its event into the stream: nobody else is at that event and
\* it is not in the stream yet, and it keeps its key.
LEMMA PublishKeys ==
    ASSUME PipelineInv, PipelineAssumption,
           NEW h \in Handlers, NEW c \in RequestIds, Publishing(h, c), c <= Horizon,
           XAdd(c) \/ UNCHANGED <<stream, trimmed>>,
           UNCHANGED idem, Horizon' = Horizon,
           \A e : Around(e)' => Around(e),
           \A g \in Handlers \ {h} : \A e : Publishing(g, e)' <=> Publishing(g, e),
           \A e \in RequestIds \ Stitched : ~Publishing(h, e)',
           \A e \in RequestIds : Treated(e) => Treated(e)'
    PROVE  KeyInv'
<1>1. IngestTypeOK /\ KeyInv
    BY DEF PipelineInv, ServiceInv
<1>2. /\ \A p \in 1 .. Len(stream') : stream'[p] = c \/ p \in 1 .. Len(stream)
      /\ \A p \in 1 .. Len(stream) : stream'[p] = stream[p]
      /\ Len(stream') <= Len(stream) + 1 /\ Len(stream') \in Nat /\ Len(stream) \in Nat
    BY <1>1, XAddFacts DEF Grows, IngestTypeOK
<1>3. \A e : Published(e)' => Published(e) \/ e = c
    BY <1>2 DEF Published
<1>4. c \notin Stitched => /\ c \in idem /\ ~Published(c)
                          /\ \A g \in Handlers : Publishing(g, c) => g = h
    BY <1>1 DEF KeyInv
<1>5. \A e \in idem' : e <= Horizon' /\ Treated(e)'
    BY <1>1 DEF KeyInv, IngestTypeOK
<1>6. \A p \in 1 .. Len(stream') : stream'[p] <= Horizon'
    BY <1>1, <1>2 DEF KeyInv
<1>7. ASSUME NEW e \in RequestIds \ Stitched
      PROVE  \A p, q \in 1 .. Len(stream') : stream'[p] = e /\ stream'[q] = e => p = q
    <2>1. CASE e = c
        BY <1>2, <1>4, <2>1 DEF Published
    <2>2. CASE e # c
        BY <1>1, <1>2, <2>2 DEF KeyInv
    <2> QED BY <2>1, <2>2
<1>8. ASSUME NEW e \in RequestIds \ Stitched, Published(e)'
      PROVE  e \in idem' \/ ~Around(e)'
    BY <1>1, <1>3, <1>4, <1>8 DEF KeyInv
<1>9. ASSUME NEW e \in RequestIds \ Stitched, NEW g \in Handlers, Publishing(g, e)'
      PROVE  /\ e \in idem' /\ ~Published(e)'
             /\ \A k \in Handlers : Publishing(k, e)' => k = g
    <2>1. g # h /\ Publishing(g, e)
        BY <1>9
    <2>2. e # c
        BY <1>4, <2>1
    <2>3. e \in idem /\ ~Published(e) /\ \A k \in Handlers : Publishing(k, e) => k = g
        BY <1>1, <2>1 DEF KeyInv
    <2> QED BY <1>3, <2>2, <2>3
<1> QED BY <1>5, <1>6, <1>7, <1>8, <1>9 DEF KeyInv

LEMMA PublishInv ==
    ASSUME PipelineInv, NEW h \in Handlers, Publish(h), UNCHANGED <<sdkVars, conn, okIds>>
    PROVE  ServiceInv' /\ Grows
<1> USE PipelineAssumption
<1>0. PICK s \in Seq(RequestIds), p \in Nat \ {0}, c \in RequestIds :
          s = handlers[h].events /\ p = handlers[h].pos /\ c = Current(h)
    BY InHand DEF Publish
<1> DEFINE r == At(s, p + 1)
<1>1. /\ handlers[h].state = "publish" /\ XAdd(c)
      /\ handlers' = [handlers EXCEPT ![h] = r]
      /\ UNCHANGED <<idem, claimLost>>
    BY <1>0 DEF Publish, Advance
<1>2. /\ p \in 1 .. Len(s) /\ c = s[p] /\ c <= Horizon
      /\ \A i \in 1 .. Len(s) : s[i] \in RequestIds /\ s[i] <= Horizon
      /\ \A i \in 1 .. p - 1 : Treated(s[i])
      /\ \A e : Publishing(h, e) <=> e = c
    BY <1>0, <1>1, InHand DEF Current, Publishing
<1>3. r \in Requests /\ r.events = handlers[h].events
    BY <1>0, <1>2, AtFacts DEF Requests
<1>4. IngestTypeOK /\ Horizon' = Horizon /\ batch' = batch
    BY DEF PipelineInv, ServiceInv, Horizon, sdkVars
<1>5. /\ handlers'[h] = r
      /\ \A e : (\E g \in Handlers : InSeq(e, handlers'[g].events))
               => \E g \in Handlers : InSeq(e, handlers[g].events)
      /\ \A g \in Handlers \ {h} : \A e : Publishing(g, e)' <=> Publishing(g, e)
    BY <1>1, <1>3, <1>4, OneMoves
<1> HIDE DEF r
<1>6. Grows /\ Published(c)' /\ \A e : Published(e) => Published(e)'
    BY <1>1, <1>4, XAddFacts
<1>7. \A e : Treated(e) => Treated(e)'
    BY <1>1, <1>2, <1>5, <1>6 DEF Treated
<1>8. RequestOK(h)' /\ \A e \in RequestIds \ Stitched : ~Publishing(h, e)'
    <2>1. \A i \in 1 .. Len(s) : i < p + 1 => Treated(s[i])'
        BY <1>2, <1>6, <1>7 DEF Treated
    <2>2. \A i \in 1 .. Len(s) : s[i] <= Horizon'
        BY <1>2, <1>4
    <2> QED BY <1>2, <1>5, <2>1, <2>2, AtOK DEF r
<1>9. KeyInv'
    <2>1. \A e : Around(e)' => Around(e)
        BY <1>4, <1>5 DEF Around
    <2> QED BY <1>1, <1>2, <1>4, <1>5, <1>7, <1>8, <2>1, PublishKeys
<1> QED BY <1>1, <1>3, <1>4, <1>6, <1>7, <1>8, <1>9, ServiceKept DEF IngestTypeOK

\* A failed publish keeps the key: whether or not the entry is in the stream, the
\* event is not published again.
LEMMA PublishErrorInv ==
    ASSUME PipelineInv, NEW h \in Handlers, PublishError(h),
           UNCHANGED <<sdkVars, conn, okIds>>
    PROVE  ServiceInv' /\ Grows
<1> USE PipelineAssumption
<1>0. PICK c \in RequestIds : c = Current(h)
    BY InHand DEF PublishError
<1> DEFINE r == [handlers[h] EXCEPT !.state = "error"]
<1>1. /\ handlers[h].state = "publish"
      /\ XAdd(c) \/ UNCHANGED <<stream, trimmed>>
      /\ handlers' = [handlers EXCEPT ![h] = r]
      /\ idem' = idem /\ claimLost' = claimLost \cup {c}
    BY <1>0 DEF PublishError, Become
<1>2. /\ handlers[h] \in Requests /\ c <= Horizon
      /\ \A i \in 1 .. Len(handlers[h].events) : handlers[h].events[i] <= Horizon
      /\ \A e : Publishing(h, e) <=> e = c
    BY <1>0, <1>1, InHand DEF Publishing
<1>3. r \in Requests /\ r.events = handlers[h].events /\ r.state = "error"
    BY <1>2 DEF Requests, HandlerStates
<1>4. IngestTypeOK /\ Horizon' = Horizon /\ batch' = batch
    BY DEF PipelineInv, ServiceInv, Horizon, sdkVars
<1>5. /\ handlers'[h] = r
      /\ \A e : (\E g \in Handlers : InSeq(e, handlers'[g].events))
               => \E g \in Handlers : InSeq(e, handlers[g].events)
      /\ \A g \in Handlers \ {h} : \A e : Publishing(g, e)' <=> Publishing(g, e)
    BY <1>1, <1>3, <1>4, OneMoves
<1> HIDE DEF r
<1>6. Grows /\ \A e : Published(e) => Published(e)'
    BY <1>1, <1>4, XAddFacts
<1>7. \A e : Treated(e) => Treated(e)'
    BY <1>1, <1>2, <1>5, <1>6 DEF Treated
<1>8. RequestOK(h)' /\ \A e : ~Publishing(h, e)'
    BY <1>2, <1>3, <1>4, <1>5 DEF RequestOK, Publishing
<1>9. KeyInv'
    <2>1. \A e : Around(e)' => Around(e)
        BY <1>4, <1>5 DEF Around
    <2> QED BY <1>1, <1>2, <1>4, <1>5, <1>7, <1>8, <2>1, PublishKeys
<1> QED BY <1>1, <1>3, <1>4, <1>6, <1>7, <1>8, <1>9, ServiceKept DEF IngestTypeOK

\* A request that dies at its publish leaves an event behind that is known lost.
LEMMA HandlerCrashInv ==
    ASSUME PipelineInv, NEW h \in Handlers, HandlerCrash(h),
           UNCHANGED <<sdkVars, conn, okIds>>
    PROVE  ServiceInv' /\ Grows
<1> USE PipelineAssumption
<1>1. /\ handlers[h].state \in {"claim", "publish"}
      /\ handlers' = [handlers EXCEPT ![h] = Idle]
      /\ claimLost \subseteq claimLost' /\ claimLost' \subseteq claimLost \cup {Current(h)}
      /\ \A e : Publishing(h, e) => e \in claimLost'
      /\ UNCHANGED <<idem, stream, trimmed>>
    BY DEF HandlerCrash, Publishing
<1>2. Idle \in Requests
    BY DEF Idle, Requests, HandlerStates
<1>3. /\ IngestTypeOK /\ KeyInv /\ Horizon' = Horizon /\ batch' = batch
      /\ Horizon \in Int
    BY SdkSteps DEF PipelineInv, ServiceInv, Horizon, sdkVars
<1>4. /\ handlers'[h] = Idle
      /\ \A e : (\E g \in Handlers : InSeq(e, handlers'[g].events))
               => \E g \in Handlers : InSeq(e, handlers[g].events)
      /\ \A g \in Handlers \ {h} : \A e : Publishing(g, e)' <=> Publishing(g, e)
    BY <1>1, <1>2, <1>3, OneMoves
<1>5. \A e : Treated(e) => Treated(e)'
    BY <1>1, <1>4 DEF Treated, Published
<1>6. RequestOK(h)' /\ \A e : ~Publishing(h, e)'
    BY <1>4 DEF RequestOK, Publishing, Idle
<1>7. KeyInv'
    <2>1. \A e : Around(e)' => Around(e)
        BY <1>3, <1>4 DEF Around
    <2>2. \A g \in Handlers, e \in RequestIds \ Stitched :
              Publishing(g, e)' => Publishing(g, e)
        BY <1>4, <1>6
    <2> QED BY <1>1, <1>3, <1>5, <2>1, <2>2, KeysKept DEF IngestTypeOK
<1>8. Grows /\ idem' \subseteq RequestIds /\ claimLost' \subseteq RequestIds
    BY <1>1, <1>3, InHand DEF Grows, IngestTypeOK
<1> QED BY <1>1, <1>2, <1>5, <1>6, <1>7, <1>8, ServiceKept

\* A key that was set although the SET NX failed for its caller stands for an
\* event that is known lost.
LEMMA ClaimErrorInv ==
    ASSUME PipelineInv, NEW h \in Handlers, ClaimError(h),
           UNCHANGED <<sdkVars, conn, okIds>>
    PROVE  ServiceInv' /\ Grows
<1> USE PipelineAssumption
<1>0. PICK c \in RequestIds : c = Current(h)
    BY InHand DEF ClaimError
<1> DEFINE r == [handlers[h] EXCEPT !.state = "error"]
<1>1. /\ handlers[h].state = "claim"
      /\ handlers' = [handlers EXCEPT ![h] = r]
      /\ \/ idem' = idem /\ claimLost' = claimLost
         \/ idem' = idem \cup {c} /\ claimLost' = claimLost \cup {c}
      /\ UNCHANGED <<stream, trimmed>>
    BY <1>0 DEF ClaimError, Become
<1>2. /\ handlers[h] \in Requests /\ c <= Horizon
      /\ \A i \in 1 .. Len(handlers[h].events) : handlers[h].events[i] <= Horizon
      /\ \A e : ~Publishing(h, e)
    BY <1>0, <1>1, InHand
<1>3. r \in Requests /\ r.events = handlers[h].events /\ r.state = "error"
    BY <1>2 DEF Requests, HandlerStates
<1>4. IngestTypeOK /\ KeyInv /\ Horizon' = Horizon /\ batch' = batch
    BY DEF PipelineInv, ServiceInv, Horizon, sdkVars
<1>5. /\ handlers'[h] = r
      /\ \A e : (\E g \in Handlers : InSeq(e, handlers'[g].events))
               => \E g \in Handlers : InSeq(e, handlers[g].events)
      /\ \A g \in Handlers \ {h} : \A e : Publishing(g, e)' <=> Publishing(g, e)
    BY <1>1, <1>3, <1>4, OneMoves
<1> HIDE DEF r
<1>6. RequestOK(h)' /\ \A e : ~Publishing(h, e)'
    BY <1>2, <1>3, <1>4, <1>5 DEF RequestOK, Publishing
<1>7. \A e : Treated(e) => Treated(e)'
    BY <1>1, <1>2, <1>5 DEF Treated, Published
<1>8. KeyInv'
    <2>1. \A e : (Published(e)' <=> Published(e)) /\ (Around(e)' => Around(e))
        BY <1>1, <1>4, <1>5 DEF Published, Around
    <2>2. \A e \in idem' : e <= Horizon' /\ Treated(e)'
        BY <1>1, <1>2, <1>4, <1>7 DEF KeyInv, Treated, IngestTypeOK
    <2>3. \A p \in 1 .. Len(stream') : stream'[p] <= Horizon'
        BY <1>1, <1>4 DEF KeyInv
    <2>4. ASSUME NEW e \in RequestIds \ Stitched
          PROVE  /\ \A p, q \in 1 .. Len(stream') : stream'[p] = e /\ stream'[q] = e => p = q
                 /\ Published(e)' => e \in idem' \/ ~Around(e)'
        BY <1>1, <1>4, <2>1 DEF KeyInv
    <2>5. \A g \in Handlers : \A e : Publishing(g, e)' => Publishing(g, e)
        BY <1>5, <1>6
    <2>6. ASSUME NEW e \in RequestIds \ Stitched, NEW g \in Handlers, Publishing(g, e)'
          PROVE  /\ e \in idem' /\ ~Published(e)'
                 /\ \A k \in Handlers : Publishing(k, e)' => k = g
        <3>1. /\ e \in idem /\ ~Published(e)
              /\ \A k \in Handlers : Publishing(k, e) => k = g
            BY <1>4, <2>5, <2>6 DEF KeyInv
        <3> QED BY <1>1, <2>1, <2>5, <3>1
    <2> QED BY <2>2, <2>3, <2>4, <2>6 DEF KeyInv
<1>9. Grows /\ idem' \subseteq RequestIds /\ claimLost' \subseteq RequestIds
    BY <1>1, <1>4 DEF Grows, IngestTypeOK
<1> QED BY <1>1, <1>3, <1>6, <1>7, <1>8, <1>9, ServiceKept

\* A key that expires is one nobody asks for any more.
LEMMA KeyExpiresInv ==
    ASSUME PipelineInv, NEW d \in RequestIds, KeyExpires(d)
    PROVE  ServiceInv' /\ Grows
<1> USE PipelineAssumption
<1>1. /\ ~Around(d) /\ idem' = idem \ {d}
      /\ UNCHANGED <<handlers, stream, trimmed, claimLost, sdkVars, conn, okIds>>
    BY DEF KeyExpires, Expire, Around
<1>2. IngestTypeOK /\ RequestInv /\ KeyInv /\ ConnInv
    BY DEF PipelineInv, ServiceInv
<1>3. /\ Horizon' = Horizon /\ Horizon \in Int /\ batch' = batch
      /\ \A e : (Around(e)' <=> Around(e)) /\ (Published(e)' <=> Published(e))
      /\ \A e : Treated(e)' <=> Treated(e)
      /\ \A g, e : Publishing(g, e)' <=> Publishing(g, e)
    BY <1>1, SdkSteps DEF PipelineInv, Horizon, sdkVars, Around, Published, Treated,
                          Publishing, Current
<1>4. \A g \in Handlers : ~Publishing(g, d)
    <2> SUFFICES ASSUME NEW g \in Handlers, Publishing(g, d) PROVE FALSE
        OBVIOUS
    <2> QED BY <1>1, InHand DEF Publishing
<1>5. KeyInv'
    BY <1>1, <1>2, <1>3, <1>4 DEF KeyInv
<1>6. RequestInv'
    BY <1>1, <1>2, <1>3, RequestsKept
<1>7. ConnInv' /\ IngestTypeOK' /\ Grows
    BY <1>1, <1>2, <1>3 DEF ConnInv, IngestTypeOK, Grows
<1> QED BY <1>5, <1>6, <1>7 DEF ServiceInv

-----------------------------------------------------------------------------
(* The theorems *)

LEMMA PipelineInitInv == PipelineInit => PipelineInv
<1> SUFFICES ASSUME PipelineInit PROVE PipelineInv
    OBVIOUS
<1> USE DEF PipelineInit, IngestInit, ConsumerInit
<1>1. SdkInv
    BY InitInv
<1>2. \A h \in Handlers : handlers[h] = Idle
    OBVIOUS
<1>3. \A h \in Handlers : \A e : ~Publishing(h, e)
    BY <1>2 DEF Publishing, Idle
<1>4. IngestTypeOK
    BY <1>2 DEF IngestTypeOK, Idle, HandlerStates
<1>5. RequestInv
    BY <1>2 DEF RequestInv, RequestOK, Idle
<1>6. KeyInv
    BY <1>3 DEF KeyInv, Published
<1>7. ConnInv
    BY PipelineAssumption DEF ConnInv
<1>8. ConsumerInv
    BY DEF ConsumerInv, ConsumerStates, AckedIsDurable, ReadIsAccounted
<1> QED BY <1>1, <1>4, <1>5, <1>6, <1>7, <1>8 DEF PipelineInv, ServiceInv

LEMMA PipelineNextInv == PipelineInv /\ [PipelineNext]_pipelineVars => PipelineInv'
<1> SUFFICES ASSUME PipelineInv, [PipelineNext]_pipelineVars PROVE PipelineInv'
    OBVIOUS
<1> USE DEF PipelineInv
<1>1. CASE AppStep \/ PostLost \/ AnswerLost
    <2>1. [SdkNext]_sdkVars /\ UNCHANGED consumerVars
        BY <1>1 DEF AppStep, PostLost, AnswerLost, SdkNext
    <2> QED BY <1>1, <2>1, UnseenSteps, NextInv, GrowsInv DEF ServiceInv
<1>2. ASSUME NEW h \in Handlers, PostArrives(h) PROVE PipelineInv'
    <2>1. [SdkNext]_sdkVars /\ UNCHANGED consumerVars
        BY <1>2 DEF PostArrives, SdkNext
    <2> QED BY <1>2, <2>1, PostArrivesInv, NextInv, GrowsInv DEF ServiceInv
<1>3. CASE AnswerRead
    <2>1. [SdkNext]_sdkVars /\ UNCHANGED consumerVars
        BY <1>3 DEF AnswerRead, SdkNext
    <2> QED BY <1>3, <2>1, AnswerReadInv, NextInv, GrowsInv DEF ServiceInv
<1>4. ASSUME NEW h \in Handlers, ServiceStep(h) PROVE PipelineInv'
    <2>1. HandlerStep(h) /\ UNCHANGED <<sdkVars, consumerVars, conn, okIds>>
        BY <1>4 DEF ServiceStep
    <2>2. ServiceInv' /\ Grows
        BY <2>1, ClaimInv, DuplicateInv, ClaimErrorInv, PublishInv, PublishErrorInv,
           HandlerCrashInv DEF HandlerStep
    <2> QED BY <2>1, <2>2, NextInv, GrowsInv DEF ServiceInv
<1>5. ASSUME NEW h \in Handlers, AbandonedEnds(h) PROVE PipelineInv'
    <2>1. UNCHANGED <<sdkVars, consumerVars>>
        BY <1>5 DEF AbandonedEnds
    <2> QED BY <1>5, <2>1, AbandonedInv, NextInv, GrowsInv DEF ServiceInv
<1>6. ASSUME NEW e \in RequestIds, KeyExpires(e) PROVE PipelineInv'
    <2>1. UNCHANGED <<sdkVars, consumerVars>>
        BY <1>6 DEF KeyExpires
    <2> QED BY <1>6, <2>1, KeyExpiresInv, NextInv, GrowsInv DEF ServiceInv
<1>7. ASSUME ConsumerStep \/ UNCHANGED consumerVars,
             UNCHANGED <<sdkVars, ingestVars, conn, okIds>>
      PROVE  PipelineInv'
    <2>1. ConsumerInv'
        <3>1. CASE ConsumerStep
            BY <1>7, <3>1, ConsumesInv DEF ServiceInv
        <3>2. CASE UNCHANGED consumerVars
            <4>1. Grows
                BY <1>7 DEF Grows, ingestVars, ServiceInv, IngestTypeOK
            <4> QED BY <3>2, <4>1, GrowsInv DEF ServiceInv
        <3> QED BY <1>7, <3>1, <3>2
    <2>2. SdkInv'
        BY <1>7, NextInv
    <2>3. ServiceInv'
        BY <1>7 DEF ServiceInv, IngestTypeOK, RequestInv, RequestOK, KeyInv, ConnInv,
                    ingestVars, sdkVars, Horizon, Around, Published, Treated, Publishing,
                    Current
    <2> QED BY <2>1, <2>2, <2>3
<1> QED BY <1>1, <1>2, <1>3, <1>4, <1>5, <1>6, <1>7
        DEF PipelineNext, BackendConsumes, pipelineVars

\* Every reachable state of the log path satisfies the invariant.
THEOREM PipelineInvariance == PipelineSpec => []PipelineInv
<1>1. PipelineInit => PipelineInv
    BY PipelineInitInv
<1>2. PipelineInv /\ [PipelineNext]_pipelineVars => PipelineInv'
    BY PipelineNextInv
<1> QED BY <1>1, <1>2, PTL DEF PipelineSpec

\* The variables of the whole path keep their types: entries pending, in hand or
\* acknowledged are entries that were read, and what was read is in the stream.
THEOREM PipelineTypeCorrect == PipelineSpec => []PipelineTypeOK
<1>1. PipelineInv => PipelineTypeOK
    BY DEF PipelineInv, SdkInv, ServiceInv, IngestTypeOK, ConsumerInv, PipelineTypeOK
<1> QED BY <1>1, PipelineInvariance, PTL

\* For any number of requests and events, with every fault allowed: POSTs that are
\* retried, abandoned and interleaved publish an event at most once.
THEOREM PublishedAtMostOnce == PipelineSpec => []PublishedOnce
<1>1. PipelineInv => PublishedOnce
    <2> SUFFICES ASSUME PipelineInv, NEW e \in RequestIds \ Stitched
                 PROVE  Cardinality(Occurrences(e)) <= 1
        BY DEF PublishedOnce
    <2>1. \A p, q \in Occurrences(e) : p = q
        BY DEF Occurrences, PipelineInv, ServiceInv, KeyInv
    <2>2. CASE Occurrences(e) = {}
        BY <2>2, FS_EmptySet
    <2>3. CASE Occurrences(e) # {}
        <3>1. PICK p : Occurrences(e) = {p}
            BY <2>1, <2>3
        <3> QED BY <3>1, FS_Singleton
    <2> QED BY <2>2, <2>3
<1> QED BY <1>1, PipelineInvariance, PTL

\* A batch that was answered with 202 has every event in the stream, about to be
\* published by a request that still runs, or lost after its key was claimed.
THEOREM FlushedReachesStream == PipelineSpec => []FlushedIsPublished
<1>1. PipelineInv => FlushedIsPublished
    BY DEF PipelineInv, ServiceInv, ConnInv, Treated, Published, Publishing,
           FlushedIsPublished, Occurrences
<1> QED BY <1>1, PipelineInvariance, PTL

\* Nothing the consumer acknowledges is lost by a failed insert, a failed DLQ
\* write or a crash: only DlqMax newer failures push an entry out of the DLQ.
THEOREM AckedKept == PipelineSpec => []AckedIsDurable
<1>1. PipelineInv => AckedIsDurable
    BY DEF PipelineInv, ConsumerInv
<1> QED BY <1>1, PipelineInvariance, PTL

\* What was read and is not acknowledged can be claimed again.
THEOREM ReadRecoverable == PipelineSpec => []ReadIsAccounted
<1>1. PipelineInv => ReadIsAccounted
    BY DEF PipelineInv, ConsumerInv
<1> QED BY <1>1, PipelineInvariance, PTL

=============================================================================
