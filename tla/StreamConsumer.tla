--------------------------- MODULE StreamConsumer ---------------------------
(***************************************************************************)
(* A stream consumer: inference-consumer and app-log-consumer share this   *)
(* shape (services/batch_service.py, repositories/clickhouse_writer.py,    *)
(* repositories/dlq_publisher.py, handlers.py).  A batch is read from the  *)
(* consumer group, decoded, inserted into ClickHouse, routed to the DLQ    *)
(* stream entry by entry when that fails, and acknowledged when the        *)
(* handler returns.  The consumer can die between any two of these.        *)
(*                                                                         *)
(* Entries are named by their position in the stream.                      *)
(***************************************************************************)
EXTENDS Ingestion

CONSTANTS
    ReadMax,   (* batch_size: entries per read                              *)
    Garbled,   (* request_ids whose entries do not decode                   *)
    DlqMax,    (* MAXLEN of the DLQ stream                                  *)
    DlqSlack   (* how many entries more an approximate trim may leave       *)

ASSUME ConsumerAssumption ==
    /\ ReadMax \in Nat \ {0}
    /\ Garbled \subseteq RequestIds
    /\ DlqMax \in Nat \ {0}
    /\ DlqSlack \in Nat

VARIABLES
    lastRead,  (* the group's last-delivered position                       *)
    pending,   (* positions delivered and not acknowledged                  *)
    cstate,    (* the await handle_batch is suspended in                    *)
    cbatch,    (* the positions of the batch                                *)
    dlqTodo,   (* positions publish_failed has still to republish           *)
    table,     (* request_ids in ClickHouse: rows of the same event are     *)
               (* collapsed by the ReplacingMergeTree                       *)
    dlq,       (* the DLQ stream: positions republished, oldest first       *)
    overrun,   (* history: positions MAXLEN has removed from the DLQ        *)
    acked      (* history: positions acknowledged                           *)

dlqVars == <<dlq, overrun>>
consumerVars == <<lastRead, pending, cstate, cbatch, dlqTodo, table, dlqVars, acked>>

ConsumerStates == {"idle", "malformed", "insert", "failed", "ack"}

ConsumerInit ==
    /\ lastRead = 0
    /\ pending = {}
    /\ cstate = "idle"
    /\ cbatch = {}
    /\ dlqTodo = {}
    /\ table = {}
    /\ dlq = <<>>
    /\ overrun = {}
    /\ acked = {}

-----------------------------------------------------------------------------
(* Helpers; the ones called Mut... are bugs the code could have had.          *)

Decodes(p) == stream[p] \notin Garbled

\* Where handle_batch goes once the malformed messages are dealt with.
AfterDecode(S) == IF \E p \in S : Decodes(p) THEN "insert" ELSE "ack"

\* A batch enters handle_batch: the malformed messages go to the DLQ first.
Enter(S) ==
    /\ cbatch' = S
    /\ dlqTodo' = {p \in S : ~Decodes(p)}
    /\ cstate' = IF dlqTodo' # {} THEN "malformed" ELSE AfterDecode(S)

\* The table after the insert of a batch.
Inserted(S) == table \cup {stream[p] : p \in {q \in S : Decodes(q)}}

\* XADD ... MAXLEN ~ n on the DLQ: the oldest entries go, by whole nodes of the
\* stream, never so many that fewer than n are left.
DlqAdd(p) ==
    \E n \in 0 .. Len(dlq) :
       /\ n = 0 \/ Len(dlq) + 1 - n >= DlqMax
       /\ Len(dlq) + 1 - n <= DlqMax + DlqSlack
       /\ dlq' = SubSeq(Append(dlq, p), n + 1, Len(dlq) + 1)
       /\ overrun' = overrun \cup {dlq[i] : i \in 1 .. n}

InDlq(p) == \E i \in 1 .. Len(dlq) : dlq[i] = p

\* The first position the group can still be given.
NextUnread == IF trimmed > lastRead THEN trimmed + 1 ELSE lastRead + 1

-----------------------------------------------------------------------------
(* handle_batch *)

\* A read with NOACK: nothing is recorded as pending.
MutRead ==
    /\ cstate = "idle"
    /\ \E last \in NextUnread .. Len(stream) :
          /\ last < NextUnread + ReadMax
          /\ Enter(NextUnread .. last)
          /\ lastRead' = last
    /\ UNCHANGED <<pending, table, dlqVars, acked>>

\* XREADGROUP with ">": new entries, up to batch_size of them.
Read ==
    /\ cstate = "idle"
    /\ \E last \in NextUnread .. Len(stream) :
          /\ last < NextUnread + ReadMax
          /\ Enter(NextUnread .. last)
          /\ lastRead' = last
          /\ pending' = pending \cup (NextUnread .. last)
    /\ UNCHANGED <<table, dlqVars, acked>>

\* Entries left pending by a handler that died or raised may be handed out
\* again: that is up to the broker client and to the operator.
Redeliver ==
    /\ cstate = "idle"
    /\ \E p \in pending : 
          /\ p > trimmed
          /\ Enter({p})
    /\ UNCHANGED <<lastRead, pending, table, dlqVars, acked>>

\* insert_batch succeeds.
InsertOk ==
    /\ cstate = "insert"
    /\ cstate' = "ack"
    /\ table' = Inserted(cbatch)
    /\ UNCHANGED <<lastRead, pending, cbatch, dlqTodo, dlqVars, acked>>

\* insert_batch raises: the whole batch goes to the DLQ, although the insert
\* may have happened.
InsertFails ==
    /\ Fault("clickhouse")
    /\ cstate = "insert"
    /\ cstate' = "failed"
    /\ dlqTodo' = {p \in cbatch : Decodes(p)}
    /\ table' \in {table, Inserted(cbatch)}
    /\ UNCHANGED <<lastRead, pending, cbatch, dlqVars, acked>>

\* publish_failed republishes the next event, in the order of the batch.
DlqPublish ==
    /\ cstate \in {"malformed", "failed"}
    /\ \E p \in dlqTodo :
          /\ \A q \in dlqTodo : p <= q
          /\ DlqAdd(p)
          /\ dlqTodo' = dlqTodo \ {p}
    /\ cstate' = IF dlqTodo' # {} THEN cstate
                 ELSE IF cstate = "failed" THEN "ack" ELSE AfterDecode(cbatch)
    /\ UNCHANGED <<lastRead, pending, cbatch, table, acked>>

\* A publish_failed that swallows the error.
MutDlqError ==
    /\ Fault("valkey")
    /\ cstate \in {"malformed", "failed"}
    /\ cstate' = "ack"
    /\ dlqTodo' = {}
    /\ UNCHANGED <<lastRead, pending, cbatch, table, dlqVars, acked>>

\* The XADD to the DLQ raises: handle_batch raises, nothing is acknowledged.
DlqError ==
    /\ Fault("valkey")
    /\ cstate \in {"malformed", "failed"}
    /\ cstate' = "idle"
    /\ cbatch' = {}
    /\ dlqTodo' = {}
    /\ UNCHANGED <<lastRead, pending, table, dlqVars, acked>>

\* The handler has returned: the broker client acknowledges the batch.
Ack ==
    /\ cstate = "ack"
    /\ cstate' = "idle"
    /\ cbatch' = {}
    /\ pending' = pending \ cbatch
    /\ acked' = acked \cup cbatch
    /\ UNCHANGED <<lastRead, dlqTodo, table, dlqVars>>

\* The consumer process dies and is restarted.
ConsumerCrash ==
    /\ Fault("consumer")
    /\ cstate # "idle"
    /\ cstate' = "idle"
    /\ cbatch' = {}
    /\ dlqTodo' = {}
    /\ UNCHANGED <<lastRead, pending, table, dlqVars, acked>>

ConsumerStep ==
    \/ Read
    \/ Redeliver
    \/ InsertOk
    \/ InsertFails
    \/ DlqPublish
    \/ DlqError
    \/ Ack
    \/ ConsumerCrash
=============================================================================
