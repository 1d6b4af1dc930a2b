----------------------------- MODULE ChatStream -----------------------------
(***************************************************************************)
(* The turns of one conversation in the chat service                       *)
(* (apps/chat-service/chat_service): streamed turns (stream_send in        *)
(* services/chat_service.py), plain ones (send_message), and the cancel    *)
(* endpoint, which finds the task of the running stream in the             *)
(* StreamRegistry (cancellation.py) and cancels it.                        *)
(*                                                                         *)
(* All run on one asyncio loop; a step is the code between two awaits that *)
(* can suspend.  The registry's lock never does: no holder of it awaits.   *)
(* A transaction is one step, its commit, but a plain turn holds the lock  *)
(* of the conversation's row from its first message to its last.           *)
(*                                                                         *)
(* Conversations share nothing, so one is enough.  What a message says and *)
(* the history a turn is given are left out, and message_count, which      *)
(* every transaction raises by the messages it stores.                     *)
(***************************************************************************)
EXTENDS Integers, Sequences

CONSTANTS
    Streams,    (* requests of POST /chat/stream, one turn each             *)
    Plains,     (* requests of POST /chat, one turn each                    *)
    Cancels,    (* requests of POST /conversations/<id>/cancel              *)
    NoTask,     (* nothing is registered, nobody holds the row              *)
    MaxChunks,  (* bound of the model: chunks of an answer                  *)
    ChatFaults  (* which of the failures below may happen                   *)

ASSUME ChatAssumption ==
    /\ Streams \cap Plains = {}
    /\ NoTask \notin Streams \cup Plains
    /\ MaxChunks \in Nat
    /\ ChatFaults \subseteq {"disconnect", "error"}

VARIABLES
    stream,    (* what each streamed turn is doing, and its chunks so far   *)
    plain,     (* what each plain turn is doing                             *)
    cancel,    (* what each cancel request is doing                         *)
    registry,  (* StreamRegistry._tasks of the conversation                 *)
    cancelled, (* tasks that task.cancel() was called on and that have not  *)
               (* run since                                                 *)
    status,    (* the conversation's status, as committed                   *)
    row,       (* the transaction that has locked the conversation's row    *)
    stored,    (* the messages each turn has committed                      *)
    asked      (* history: streams that task.cancel() was ever called on    *)

chatVars == <<stream, plain, cancel, registry, cancelled, status, row, stored,
              asked>>

Ended == {"done", "aborted", "failed", "gone", "refused"}

ChatInit ==
    /\ stream = [s \in Streams |-> [at |-> "new", chunks |-> 0]]
    /\ plain = [p \in Plains |-> "new"]
    /\ cancel = [c \in Cancels |-> "new"]
    /\ registry = NoTask
    /\ cancelled = {}
    /\ status = "active"
    /\ row = NoTask
    /\ stored = [t \in Streams \cup Plains |-> <<>>]
    /\ asked = {}

-----------------------------------------------------------------------------
(* Helpers; the ones called Mut... are bugs the code could have had.          *)

Fault(kind) == kind \in ChatFaults

Becomes(s, at) == stream' = [stream EXCEPT ![s].at = at]

Stores(t, messages) == stored' = [stored EXCEPT ![t] = @ \o messages]

\* The registered task, if it is not done().
Live == {s \in Streams : registry = s /\ stream[s].at \notin Ended}

\* task.cancel() for whichever task is in S.
CancelTasks(S) == cancelled' = cancelled \cup S /\ asked' = asked \cup S

\* Unregistering whoever is registered.
MutWithout(s) == NoTask

\* The registry when s has left its with-block: only its own entry goes.
Without(s) == IF registry = s THEN NoTask ELSE registry

\* A with-block that reaches over the storing of the answer.
MutAfterAnswer(s) == registry

AfterAnswer(s) == Without(s)

\* Where an interrupted stream goes on: a CancelledError inside the generator
\* is caught and the partial answer stored; one in the server's send, while the
\* generator is suspended in a yield, is not seen by it.
OnCancel(at) == IF at = "sending" THEN "gone" ELSE "aborting"

\* Storing what there is as if it were all.
MutPartial == "complete"

Partial == "cancelled"

\* A transaction that is not rolled back.
MutRowAfterError(p) == row

RowAfterError(p) == IF row = p THEN NoTask ELSE row

-----------------------------------------------------------------------------
(* A streamed turn *)

\* _prepare: a cancelled conversation takes no turns.
StreamAdmitted(s) ==
    /\ stream[s].at = "new"
    /\ Becomes(s, IF status = "cancelled" THEN "refused" ELSE "admitted")
    /\ UNCHANGED <<plain, cancel, registry, cancelled, status, row, stored,
                   asked>>

\* The user's message is committed; "start" is sent and the history loaded.
StreamStarts(s) ==
    /\ stream[s].at = "admitted"
    /\ row = NoTask
    /\ Stores(s, <<"user">>)
    /\ Becomes(s, "starting")
    /\ UNCHANGED <<plain, cancel, registry, cancelled, status, row, asked>>

\* The stream registers its task, cancels the one before, and calls the model.
Register(s) ==
    /\ stream[s].at = "starting"
    /\ CancelTasks(Live)
    /\ registry' = s
    /\ Becomes(s, "running")
    /\ UNCHANGED <<plain, cancel, status, row, stored>>

\* A chunk arrives and is being sent, which takes as long as the client does.
Chunk(s) ==
    /\ stream[s].at = "running"
    /\ s \notin cancelled
    /\ stream[s].chunks < MaxChunks
    /\ stream' = [stream EXCEPT ![s] = [at |-> "sending", chunks |-> @.chunks + 1]]
    /\ UNCHANGED <<plain, cancel, registry, cancelled, status, row, stored,
                   asked>>

Sent(s) ==
    /\ stream[s].at = "sending"
    /\ s \notin cancelled
    /\ Becomes(s, "running")
    /\ UNCHANGED <<plain, cancel, registry, cancelled, status, row, stored,
                   asked>>

\* The answer is complete; from here on the stream cannot be cancelled.
AnswerEnds(s) ==
    /\ stream[s].at = "running"
    /\ s \notin cancelled
    /\ Becomes(s, "saving")
    /\ registry' = AfterAnswer(s)
    /\ UNCHANGED <<plain, cancel, cancelled, status, row, stored, asked>>

\* It is committed, and "done" is sent.
StreamDone(s) ==
    /\ stream[s].at = "saving"
    /\ s \notin cancelled
    /\ row = NoTask
    /\ Stores(s, <<"complete">>)
    /\ Becomes(s, "done")
    /\ UNCHANGED <<plain, cancel, registry, cancelled, status, row, asked>>

\* The cancelled task runs.  The commit it may be suspended in may be through.
Interrupted(s) ==
    /\ s \in cancelled
    /\ cancelled' = cancelled \ {s}
    /\ Becomes(s, OnCancel(stream[s].at))
    /\ registry' = IF stream[s].at = "sending" THEN registry ELSE Without(s)
    /\ \/ UNCHANGED stored
       \/ stream[s].at = "saving" /\ Stores(s, <<"complete">>)
    /\ UNCHANGED <<plain, cancel, status, row, asked>>

\* What there is of the answer is committed, and "cancelled" is sent.
StreamAborted(s) ==
    /\ stream[s].at = "aborting"
    /\ row = NoTask
    /\ Stores(s, <<Partial>>)
    /\ Becomes(s, "aborted")
    /\ UNCHANGED <<plain, cancel, registry, cancelled, status, row, asked>>

\* The model or the database raises something else: rollback, and no answer.
StreamFails(s) ==
    /\ Fault("error")
    /\ stream[s].at \in {"admitted", "starting", "running", "saving", "aborting"}
    /\ s \notin cancelled
    /\ Becomes(s, "failed")
    /\ registry' = Without(s)
    /\ UNCHANGED <<plain, cancel, cancelled, status, row, stored, asked>>

\* The client closes the connection.  The server cancels the task at each of
\* its awaits, those of the except block included: nothing more is stored, but
\* a commit the task is suspended in may be through.
Disconnect(s) ==
    /\ Fault("disconnect")
    /\ stream[s].at \notin {"new"} \cup Ended
    /\ Becomes(s, "gone")
    /\ cancelled' = cancelled \ {s}
    /\ registry' = IF stream[s].at = "sending" THEN registry ELSE Without(s)
    /\ \/ UNCHANGED stored
       \/ /\ row = NoTask
          /\ \/ stream[s].at = "admitted" /\ Stores(s, <<"user">>)
             \/ stream[s].at = "saving" /\ Stores(s, <<"complete">>)
             \/ stream[s].at = "aborting" /\ Stores(s, <<Partial>>)
    /\ UNCHANGED <<plain, cancel, status, row, asked>>

\* A generator left in a yield is closed when it is collected.
Collected(s) ==
    /\ stream[s].at = "gone"
    /\ registry = s
    /\ registry' = Without(s)
    /\ UNCHANGED <<stream, plain, cancel, cancelled, status, row, stored, asked>>

-----------------------------------------------------------------------------
(* A plain turn *)

PlainAdmitted(p) ==
    /\ plain[p] = "new"
    /\ plain' = [plain EXCEPT ![p] =
                    IF status = "cancelled" THEN "refused" ELSE "admitted"]
    /\ UNCHANGED <<stream, cancel, registry, cancelled, status, row, stored,
                   asked>>

\* bump_for_message locks the row; the model is called in the transaction.
PlainBumps(p) ==
    /\ plain[p] = "admitted"
    /\ row = NoTask
    /\ row' = p
    /\ plain' = [plain EXCEPT ![p] = "thinking"]
    /\ UNCHANGED <<stream, cancel, registry, cancelled, status, stored, asked>>

\* Both messages are committed at the end of the request.
PlainDone(p) ==
    /\ plain[p] = "thinking"
    /\ Stores(p, <<"user", "complete">>)
    /\ row' = NoTask
    /\ plain' = [plain EXCEPT ![p] = "done"]
    /\ UNCHANGED <<stream, cancel, registry, cancelled, status, asked>>

\* Neither is, after an error.
PlainFails(p) ==
    /\ Fault("error")
    /\ plain[p] \in {"admitted", "thinking"}
    /\ row' = RowAfterError(p)
    /\ plain' = [plain EXCEPT ![p] = "failed"]
    /\ UNCHANGED <<stream, cancel, registry, cancelled, status, stored, asked>>

-----------------------------------------------------------------------------
(* The cancel endpoint *)

\* registry.cancel.
CancelFinds(c) ==
    /\ cancel[c] = "new"
    /\ CancelTasks(Live)
    /\ cancel' = [cancel EXCEPT ![c] = "marking"]
    /\ UNCHANGED <<stream, plain, registry, status, row, stored>>

\* The conversation is marked as cancelled.
CancelMarks(c) ==
    /\ cancel[c] = "marking"
    /\ row = NoTask
    /\ status' = "cancelled"
    /\ cancel' = [cancel EXCEPT ![c] = "done"]
    /\ UNCHANGED <<stream, plain, registry, cancelled, row, stored, asked>>

\* The user has no such conversation, or the database raises: whatever was
\* cancelled before stays cancelled, and the conversation takes turns as ever.
CancelFails(c) ==
    /\ Fault("error")
    /\ cancel[c] = "marking"
    /\ cancel' = [cancel EXCEPT ![c] = "failed"]
    /\ UNCHANGED <<stream, plain, registry, cancelled, status, row, stored, asked>>

-----------------------------------------------------------------------------
(* The specification *)

\* What a streamed turn does of itself once it is admitted.
StreamStep(s) ==
    \/ StreamStarts(s)
    \/ Register(s)
    \/ Chunk(s)
    \/ Sent(s)
    \/ AnswerEnds(s)
    \/ StreamDone(s)
    \/ Interrupted(s)
    \/ StreamAborted(s)

ChatNext ==
    \/ \E s \in Streams :
          \/ StreamAdmitted(s)
          \/ StreamStep(s)
          \/ StreamFails(s)
          \/ Disconnect(s)
          \/ Collected(s)
    \/ \E p \in Plains :
          \/ PlainAdmitted(p)
          \/ PlainBumps(p)
          \/ PlainDone(p)
          \/ PlainFails(p)
    \/ \E c \in Cancels : CancelFinds(c) \/ CancelMarks(c) \/ CancelFails(c)

ChatSpec == ChatInit /\ [][ChatNext]_chatVars

\* The loop runs every task, calls of the model end, a client reads or goes
\* away, and Postgres gives the row to everyone who waits for it: hence the
\* strong fairness of what needs the row.
ChatFairSpec ==
    /\ ChatSpec
    /\ \A s \in Streams :
          /\ WF_chatVars(StreamStep(s))
          /\ SF_chatVars(StreamStarts(s) \/ StreamDone(s) \/ StreamAborted(s))
    /\ \A p \in Plains :
          /\ SF_chatVars(PlainBumps(p))
          /\ WF_chatVars(PlainDone(p))
    /\ \A c \in Cancels : SF_chatVars(CancelMarks(c))

-----------------------------------------------------------------------------
(* Properties *)

InFlight(s) == stream[s].at \in {"running", "sending"}

\* A cancellation is pending only for a stream that is in flight.
ChatTypeOK ==
    /\ stream \in [Streams -> [at : {"new", "admitted", "starting", "running",
                                     "sending", "saving", "aborting"} \cup Ended,
                               chunks : 0 .. MaxChunks]]
    /\ plain \in [Plains -> {"new", "admitted", "thinking"} \cup Ended]
    /\ cancel \in [Cancels -> {"new", "marking", "done", "failed"}]
    /\ registry \in Streams \cup {NoTask}
    /\ cancelled \subseteq asked
    /\ \A s \in cancelled : InFlight(s)
    /\ asked \subseteq Streams
    /\ status \in {"active", "cancelled"}
    /\ row \in Plains \cup {NoTask}
    /\ stored \in [Streams \cup Plains -> Seq({"user", "complete", "cancelled"})]

\* The registry is right: whatever takes over, fails or leaves in whatever
\* order, a stream that runs and has not been cancelled is the one a cancel
\* would find, and no task is found that has got past the point of no return.
RegistryExact ==
    /\ \A s \in Streams : InFlight(s) /\ s \notin cancelled => registry = s
    /\ \A s \in Live : InFlight(s)

\* A turn never has two answers, nor one without its question.
OneAnswer ==
    \A t \in Streams \cup Plains :
        stored[t] \in {<<>>, <<"user">>, <<"user", "complete">>,
                       <<"user", "cancelled">>}

\* A cancelled answer is never stored as a complete one, and a stream that
\* ends of itself has not been cancelled.
CancelledIsPartial ==
    \A s \in asked : stored[s] # <<"user", "complete">> /\ stream[s].at # "done"

\* Every turn that is admitted comes to its end, and so does every cancel.
RequestsEnd ==
    /\ \A s \in Streams : (stream[s].at = "admitted") ~> (stream[s].at \in Ended)
    /\ \A p \in Plains : (plain[p] = "admitted") ~> (plain[p] \in Ended)
    /\ \A c \in Cancels : (cancel[c] = "marking") ~> (cancel[c] \in {"done", "failed"})

\* controllers/conversation_controller.py:71: the endpoint cancels any stream
\* of the conversation that is in flight.
CancelStops ==
    (\E c \in Cancels : cancel[c] = "done") =>
        \A s \in Streams : InFlight(s) => s \in cancelled
=============================================================================
