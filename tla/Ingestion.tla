------------------------------ MODULE Ingestion ------------------------------
(***************************************************************************)
(* The ingestion service: POST /v1/logs                                    *)
(* (apps/ingestion-service/ingestion_service).  Each request runs          *)
(* ingest_batch on its own; it is suspended in the SET NX of the           *)
(* idempotency key and in the XADD of the publisher, and other requests,   *)
(* among them a retry of the same batch, run in between.                   *)
(*                                                                         *)
(* Valkey holds the idempotency keys and the stream.  A command to it can  *)
(* fail for the caller although it took effect (a reply that never came).  *)
(***************************************************************************)
EXTENDS Integers, Sequences

CONSTANTS
    Handlers,    (* requests the service can be working on at a time        *)
    RequestIds,  (* the request_id of every event                           *)
    Stitched,    (* the ones sent with metadata.stitched = True             *)
    Unkeyed,     (* ApplicationLog events: the model has no request_id      *)
    MaxEvents,   (* events per envelope, 500 in the controller              *)
    StreamMax,   (* MAXLEN of the stream                                    *)
    Faults       (* which components may fail: see Fault below              *)

FaultKinds == {"network", "valkey", "ingestion", "clickhouse", "consumer"}

ASSUME IngestionAssumption ==
    /\ Stitched \subseteq RequestIds
    /\ Unkeyed \subseteq RequestIds
    /\ Stitched \cap Unkeyed = {}
    /\ MaxEvents \in Nat \ {0}
    /\ StreamMax \in Nat \ {0}
    /\ Faults \subseteq FaultKinds

VARIABLES
    handlers,   (* what each request is doing                               *)
    idem,       (* request_ids with a live idem:<request_id> key            *)
    stream,     (* every entry ever XADDed, oldest first                    *)
    trimmed,    (* how many of them MAXLEN has removed                      *)
    claimLost   (* history: claimed, and the publish failed or never came    *)

ingestVars == <<handlers, idem, stream, trimmed, claimLost>>

HandlerStates == {"idle", "claim", "publish", "ok", "error", "rejected"}
Final == {"ok", "error", "rejected"}

Idle == [state |-> "idle", events |-> <<>>, pos |-> 0]

IngestInit ==
    /\ handlers = [h \in Handlers |-> Idle]
    /\ idem = {}
    /\ stream = <<>>
    /\ trimmed = 0
    /\ claimLost = {}

-----------------------------------------------------------------------------
(* Helpers; the ones called Mut... are bugs the code could have had.          *)

Fault(kind) == kind \in Faults

Current(h) == handlers[h].events[handlers[h].pos]

\* The next await of ingest_batch at position p of the batch.  Reading
\* log.request_id of an ApplicationLog raises, which FastAPI answers with 500;
\* a stitched event skips the idempotency key; after the last event: 202.
StateAt(events, p) ==
    IF p > Len(events) THEN "ok"
    ELSE CASE events[p] \in Unkeyed  -> "error"
           [] events[p] \in Stitched -> "publish"
           [] OTHER                  -> "claim"

At(events, p) ==
    [state |-> StateAt(events, p), events |-> events, pos |-> p]

MutAdvance(h) ==
    handlers' = [handlers EXCEPT ![h] = At(@.events, @.pos + 2)]

\* The next iteration of the loop over the events.
Advance(h) ==
    handlers' = [handlers EXCEPT ![h] = At(@.events, @.pos + 1)]

Become(h, s) == handlers' = [handlers EXCEPT ![h].state = s]

\* XADD ... MAXLEN ~ n: the trim is approximate, so it may also not happen.
XAdd(e) ==
    /\ stream' = Append(stream, e)
    /\ trimmed' \in {trimmed,
                     IF Len(stream') - StreamMax > trimmed
                     THEN Len(stream') - StreamMax ELSE trimmed}

-----------------------------------------------------------------------------
(* A request *)

\* The envelope is accepted, or answered with 400 (empty) or 413 (too large).
Receive(h, events) ==
    /\ handlers[h].state = "idle"
    /\ handlers' = [handlers EXCEPT ![h] =
          IF Len(events) \in 1 .. MaxEvents
          THEN At(events, 1)
          ELSE [state |-> "rejected", events |-> events, pos |-> 0]]
    /\ UNCHANGED <<idem, stream, trimmed, claimLost>>

\* What SET NX answers: true for whoever sets the key.
ClaimFresh(h) == Current(h) \notin idem

\* mark_or_check claims the key: publish next.
Claim(h) ==
    /\ handlers[h].state = "claim"
    /\ ClaimFresh(h)
    /\ idem' = idem \cup {Current(h)}
    /\ Become(h, "publish")
    /\ UNCHANGED <<stream, trimmed, claimLost>>

\* The key exists: the event is reported as "duplicate" and skipped.
Duplicate(h) ==
    /\ handlers[h].state = "claim"
    /\ ~ClaimFresh(h)
    /\ Advance(h)
    /\ UNCHANGED <<idem, stream, trimmed, claimLost>>

\* mark_or_check raises, which ingest_batch does not catch: 500.  The key may
\* have been set.
ClaimError(h) ==
    /\ Fault("valkey")
    /\ handlers[h].state = "claim"
    /\ Become(h, "error")
    /\ \/ UNCHANGED <<idem, claimLost>>
       \/ /\ Current(h) \notin idem
          /\ idem' = idem \cup {Current(h)}
          /\ claimLost' = claimLost \cup {Current(h)}
    /\ UNCHANGED <<stream, trimmed>>

\* publisher.publish succeeds.
Publish(h) ==
    /\ handlers[h].state = "publish"
    /\ XAdd(Current(h))
    /\ Advance(h)
    /\ UNCHANGED <<idem, claimLost>>

\* The obvious repair of the loss below: give the key back when publish raises.
MutPublishError(h) ==
    /\ Fault("valkey")
    /\ handlers[h].state = "publish"
    /\ Become(h, "error")
    /\ idem' = idem \ {Current(h)}
    /\ UNCHANGED claimLost
    /\ \/ UNCHANGED <<stream, trimmed>>
       \/ XAdd(Current(h))

\* publisher.publish raises: PublishError, answered with 503.  The key stays
\* set, the rest of the batch is not looked at, and the entry may be in the
\* stream.
PublishError(h) ==
    /\ Fault("valkey")
    /\ handlers[h].state = "publish"
    /\ Become(h, "error")
    /\ claimLost' = claimLost \cup {Current(h)}
    /\ UNCHANGED idem
    /\ \/ UNCHANGED <<stream, trimmed>>
       \/ XAdd(Current(h))

\* The process dies in the middle of a request.
HandlerCrash(h) ==
    /\ Fault("ingestion")
    /\ handlers[h].state \in {"claim", "publish"}
    /\ handlers' = [handlers EXCEPT ![h] = Idle]
    /\ claimLost' = IF handlers[h].state = "publish"
                    THEN claimLost \cup {Current(h)} ELSE claimLost
    /\ UNCHANGED <<idem, stream, trimmed>>

\* The answer has left: the request is over.
Answered(h) ==
    /\ handlers[h].state \in Final
    /\ handlers' = [handlers EXCEPT ![h] = Idle]
    /\ UNCHANGED <<idem, stream, trimmed, claimLost>>

\* A key lives for ttl_s (ten minutes).
Expire(e) ==
    /\ e \in idem
    /\ idem' = idem \ {e}
    /\ UNCHANGED <<handlers, stream, trimmed, claimLost>>

HandlerStep(h) ==
    \/ Claim(h)
    \/ Duplicate(h)
    \/ ClaimError(h)
    \/ Publish(h)
    \/ PublishError(h)
    \/ HandlerCrash(h)
=============================================================================
