---------------------------- MODULE LogPipeline ----------------------------
(***************************************************************************)
(* The log path end to end: the SDK transport POSTs batches to the         *)
(* ingestion service, which publishes to the stream a consumer writes to   *)
(* ClickHouse.  The POST of the transport and the request of the service   *)
(* are joined by a connection, which either side can lose: the SDK then    *)
(* retries while the abandoned request goes on in the service.             *)
(***************************************************************************)
EXTENDS SdkTransport, StreamConsumer, FiniteSets

CONSTANT NoConn   (* no request *)

VARIABLES
    conn,   (* the request the pending POST waits for, or NoConn            *)
    okIds   (* history: events of the batches answered with 202             *)

pipelineVars == <<sdkVars, ingestVars, consumerVars, conn, okIds>>

ASSUME PipelineAssumption == RequestIds = Events /\ NoConn \notin Handlers

PipelineInit ==
    /\ SdkInit
    /\ IngestInit
    /\ ConsumerInit
    /\ conn = NoConn
    /\ okIds = {}

-----------------------------------------------------------------------------
(* The SDK's side of the connection *)

\* The application runs: it starts the transport and submits.  Shutting the
\* transport down is SdkTransport's own concern.
AppStep ==
    /\ Submit \/ Start \/ WakeEmpty
    /\ UNCHANGED <<ingestVars, consumerVars, conn, okIds>>

\* The flusher's POST, a first one or a retry, reaches the service.
PostArrives(h) ==
    /\ WakeAndPost \/ BackoffOver
    /\ Receive(h, batch')
    /\ conn' = h
    /\ UNCHANGED <<consumerVars, okIds>>

\* The POST does not reach the service.
PostLost ==
    /\ Fault("network")
    /\ WakeAndPost \/ BackoffOver
    /\ conn' = NoConn
    /\ UNCHANGED <<ingestVars, consumerVars, okIds>>

\* The SDK reads the answer of its request: 202 ends the batch, 500 and 503
\* are retried or, on the last attempt, given up, 400 and 413 are final.
AnswerRead ==
    /\ conn \in Handlers
    /\ Answered(conn)
    /\ conn' = NoConn
    /\ \/ /\ handlers[conn].state = "ok"
          /\ PostOk
          /\ okIds' = okIds \cup {e \in Events : InSeq(e, batch)}
       \/ /\ handlers[conn].state = "error"
          /\ PostRetry \/ PostGiveUp
          /\ UNCHANGED okIds
       \/ /\ handlers[conn].state = "rejected"
          /\ PostRejected
          /\ UNCHANGED okIds
    /\ UNCHANGED consumerVars

\* The SDK gives up waiting: request_timeout_s is over or the connection is
\* broken.  The service is not told; its request, if there is one, goes on.
AnswerLost ==
    /\ ~Fault("network") /\ conn \in Handlers => handlers[conn].state = "idle"
    /\ PostRetry \/ PostGiveUp
    /\ conn' = NoConn
    /\ UNCHANGED <<ingestVars, consumerVars, okIds>>

-----------------------------------------------------------------------------
(* The backend *)

ServiceStep(h) ==
    /\ HandlerStep(h)
    /\ UNCHANGED <<sdkVars, consumerVars, conn, okIds>>

\* An abandoned request answers nobody.
AbandonedEnds(h) ==
    /\ h # conn
    /\ Answered(h)
    /\ UNCHANGED <<sdkVars, consumerVars, conn, okIds>>

\* A key may expire when its event can no longer be POSTed or claimed: ttl_s
\* (600 s) is far longer than all attempts of a batch together.
KeyExpires(e) ==
    /\ ~InSeq(e, batch)
    /\ \A h \in Handlers : ~InSeq(e, handlers[h].events)
    /\ Expire(e)
    /\ UNCHANGED <<sdkVars, consumerVars, conn, okIds>>

BackendConsumes ==
    /\ ConsumerStep
    /\ UNCHANGED <<sdkVars, ingestVars, conn, okIds>>

PipelineNext ==
    \/ AppStep
    \/ \E h \in Handlers : PostArrives(h)
    \/ PostLost
    \/ AnswerRead
    \/ AnswerLost
    \/ \E h \in Handlers : ServiceStep(h)
    \/ \E h \in Handlers : AbandonedEnds(h)
    \/ \E e \in RequestIds : KeyExpires(e)
    \/ BackendConsumes

PipelineSpec == PipelineInit /\ [][PipelineNext]_pipelineVars

-----------------------------------------------------------------------------
(* Properties *)

Occurrences(e) == {p \in 1 .. Len(stream) : stream[p] = e}

PipelineTypeOK ==
    /\ SdkTypeOK
    /\ handlers \in [Handlers -> [state : HandlerStates, events : Seq(RequestIds),
                                  pos : Nat]]
    /\ idem \subseteq RequestIds
    /\ stream \in Seq(RequestIds)
    /\ trimmed \in 0 .. Len(stream)
    /\ claimLost \subseteq RequestIds
    /\ lastRead \in 0 .. Len(stream)
    /\ pending \subseteq 1 .. lastRead
    /\ cstate \in ConsumerStates
    /\ cbatch \subseteq pending
    /\ dlqTodo \subseteq cbatch
    /\ table \subseteq RequestIds
    /\ dlq \in Seq(1 .. lastRead)
    /\ overrun \subseteq 1 .. lastRead
    /\ acked \subseteq 1 .. lastRead
    /\ conn \in Handlers \cup {NoConn}
    /\ okIds \subseteq Events

\* Layer 2 of the idempotency design: however POSTs are retried, abandoned and
\* interleaved, an event enters the stream at most once.
PublishedOnce ==
    \A e \in RequestIds \ Stitched : Cardinality(Occurrences(e)) <= 1

\* Every event the SDK counts as flushed is in the stream, or is about to be
\* published by a request that still runs, or its publish failed after its key
\* was claimed.  The last case is the only way a 202 can hide a loss.
FlushedIsPublished ==
    \A e \in okIds :
        \/ Occurrences(e) # {}
        \/ \E h \in Handlers : handlers[h].state = "publish" /\ Current(h) = e
        \/ e \in claimLost

\* What the consumer acknowledges is safe: inserted, or kept in the DLQ until
\* DlqMax newer failures have pushed it out.  An entry is never acknowledged
\* away by a failed insert, a failed DLQ write or a crash, nor trimmed from a
\* DLQ that holds less than its limit.
AckedIsDurable ==
    \A p \in acked :
        \/ stream[p] \in table
        \/ InDlq(p)
        \/ p \in overrun /\ Len(dlq) >= DlqMax

\* An entry that was read and is not acknowledged is still pending, so it can
\* be recovered: no crash, error or redelivery makes it disappear.
ReadIsAccounted ==
    \A p \in 1 .. lastRead : p \in acked \cup pending \/ p <= trimmed

Quiet ==
    /\ task \in {"none", "waiting", "done"}
    /\ \A h \in Handlers : handlers[h].state = "idle"
    /\ cstate = "idle"
    /\ lastRead = Len(stream)

\* README.md:212 and ARCHITECTURE.md:107: a request_id lands in ClickHouse
\* exactly once, even when the SDK retries.  Stated of the events the SDK has a
\* 202 for, once nothing is under way any more.
ExactlyOnce == Quiet => okIds \subseteq table
=============================================================================
