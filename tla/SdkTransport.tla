---------------------------- MODULE SdkTransport ----------------------------
(***************************************************************************)
(* BatchedLogTransport of the Python SDK                                   *)
(* (packages/chatbot-sdk/chatbot_sdk/transport.py).                        *)
(*                                                                         *)
(* The transport lives on one asyncio loop, so a step of this model is the *)
(* code between two awaits.  The flusher task can be suspended in          *)
(* wait_for(_flush_event), in client.post or in asyncio.sleep; between two *)
(* of its steps the application may submit, start or close.                *)
(*                                                                         *)
(* An event is the number of its submission: event 1 was submitted first.  *)
(* What the ingestion service does with a POST is its environment: any     *)
(* answer is possible here; LogPipeline puts the real service behind it.   *)
(* A POST that raises something other than httpx.HTTPError or a            *)
(* TimeoutError (an URL httpx does not take, a value that is no JSON) is   *)
(* left out: nothing catches it, and the flusher task ends with it.        *)
(***************************************************************************)
EXTENDS Integers, Sequences

CONSTANTS BatchMax,    (* batch_max: events per POST                       *)
          QueueMax,    (* queue_max: events the buffer holds               *)
          MaxRetries,  (* max_retries: POSTs per batch                     *)
          MaxSubmits   (* bound of the model: events ever accepted         *)

\* With queue_max = 0 submit() would pop from an empty deque, and with
\* max_retries = 0 nothing is ever sent: the code needs both positive.
ASSUME SdkAssumption ==
    /\ BatchMax \in Nat \ {0}
    /\ QueueMax \in Nat \ {0}
    /\ MaxRetries \in Nat \ {0}
    /\ MaxSubmits \in Nat

VARIABLES
    buffer,         (* _buffer, oldest event first                         *)
    flushEvent,     (* _flush_event.is_set()                               *)
    closed,         (* _closed                                             *)
    closing,        (* close() is suspended in "await self._task"          *)
    task,           (* where the flusher task is; "none" is _task = None   *)
    batch,          (* the events _send holds                              *)
    attempt,        (* the attempt of _send's for loop, 0 outside it       *)
    dropped,        (* dropped_count                                       *)
    flushed,        (* flushed_count                                       *)
    failedBatches,  (* failed_batches                                      *)
    accepted,       (* history: events submit() has put in the buffer      *)
    lostInFailed,   (* history: events that were in a failed batch         *)
    posts           (* history: how often each event has been POSTed       *)

sdkVars == <<buffer, flushEvent, closed, closing, task, batch, attempt,
             dropped, flushed, failedBatches, accepted, lostInFailed, posts>>

Events == 1 .. MaxSubmits

Tasks == {"none", "waiting", "posting", "backoff", "done"}

SdkInit ==
    /\ buffer = <<>>
    /\ flushEvent = FALSE
    /\ closed = FALSE
    /\ closing = FALSE
    /\ task = "none"
    /\ batch = <<>>
    /\ attempt = 0
    /\ dropped = 0
    /\ flushed = 0
    /\ failedBatches = 0
    /\ accepted = 0
    /\ lostInFailed = 0
    /\ posts = [e \in Events |-> 0]

-----------------------------------------------------------------------------
(* Helpers.  The ones called Mut... are bugs the code could have had; they    *)
(* are used by no definition.                                                *)

InSeq(e, s) == \E i \in 1 .. Len(s) : s[i] = e

\* The first n elements of s, and what is left without them.
Front(s, n) == SubSeq(s, 1, n)
Rest(s, n) == SubSeq(s, n + 1, Len(s))

MutEnqueuedDropNewest(s, e) == IF Len(s) = QueueMax THEN s ELSE Append(s, e)
MutEnqueuedInFront(s, e) == <<e>> \o (IF Len(s) = QueueMax THEN Tail(s) ELSE s)

\* The buffer after submit(): a full one discards its oldest event.
Enqueued(s, e) == Append(IF Len(s) = QueueMax THEN Tail(s) ELSE s, e)

MutOverflow == 0

\* What submit() adds to dropped_count.
Overflow == IF Len(buffer) = QueueMax THEN 1 ELSE 0

\* How many events one pass of the flusher takes.
TakeCount == IF Len(buffer) < BatchMax THEN Len(buffer) ELSE BatchMax

\* Every event of s goes out on the wire once more.
Posted(s) == [e \in Events |-> IF InSeq(e, s) THEN posts[e] + 1 ELSE posts[e]]

MutMayWake == task = "waiting" /\ flushEvent

\* wait_for(_flush_event.wait(), flush_interval_s) may return: the event is set
\* or the interval is over, so always sooner or later.
MayWake == task = "waiting"

MutMayEnd == closed

\* The flusher's loop condition after _send.
MayEnd == closed /\ buffer = <<>>

\* _send's for loop has another attempt.
RetriesLeft == attempt < MaxRetries

-----------------------------------------------------------------------------
(* The application's calls *)

\* submit(): a closed transport ignores the event (a step that changes
\* nothing); a full one discards its oldest event and counts it.
Submit ==
    /\ ~closed
    /\ accepted < MaxSubmits
    /\ accepted' = accepted + 1
    /\ dropped' = dropped + Overflow
    /\ buffer' = Enqueued(buffer, accepted + 1)
    /\ flushEvent' = (flushEvent \/ Len(buffer') >= BatchMax)
    /\ UNCHANGED <<closed, closing, task, batch, attempt, flushed,
                   failedBatches, lostInFailed, posts>>

\* start(): nothing if there is a task already.  After a close() it starts a
\* new flusher, but _closed stays set.
Start ==
    /\ task = "none"
    /\ task' = "waiting"
    /\ UNCHANGED <<buffer, flushEvent, closed, closing, batch, attempt, dropped,
                   flushed, failedBatches, accepted, lostInFailed, posts>>

\* close(), up to its await.  Without a task it returns at once, whatever the
\* buffer holds.  (A second close() while one is waiting would only set the
\* event again.)
Close ==
    /\ ~closing
    /\ closed' = TRUE
    /\ flushEvent' = TRUE
    /\ closing' = (task # "none")
    /\ UNCHANGED <<buffer, task, batch, attempt, dropped, flushed,
                   failedBatches, accepted, lostInFailed, posts>>

\* close() after the flusher has ended: _task = None, the client is closed.
CloseReturn ==
    /\ closing
    /\ task = "done"
    /\ closing' = FALSE
    /\ task' = "none"
    /\ UNCHANGED <<buffer, flushEvent, closed, batch, attempt, dropped, flushed,
                   failedBatches, accepted, lostInFailed, posts>>

-----------------------------------------------------------------------------
(* The flusher *)

\* The flusher wakes, clears the event, takes up to batch_max events and POSTs
\* them for the first time.
WakeAndPost ==
    /\ MayWake
    /\ buffer # <<>>
    /\ flushEvent' = FALSE
    /\ batch' = Front(buffer, TakeCount)
    /\ buffer' = Rest(buffer, TakeCount)
    /\ task' = "posting"
    /\ attempt' = 1
    /\ posts' = Posted(batch')
    /\ UNCHANGED <<closed, closing, dropped, flushed, failedBatches, accepted,
                   lostInFailed>>

\* A loop "while True" that goes on when there is nothing to send.
MutWakeEmpty ==
    /\ MayWake
    /\ buffer = <<>>
    /\ flushEvent' = FALSE
    /\ UNCHANGED <<buffer, closed, closing, task, batch, attempt, dropped,
                   flushed, failedBatches, accepted, lostInFailed, posts>>

\* The flusher wakes with nothing to send: it waits again, or ends if the
\* transport is closed.
WakeEmpty ==
    /\ MayWake
    /\ buffer = <<>>
    /\ flushEvent' = FALSE
    /\ task' = IF closed THEN "done" ELSE "waiting"
    /\ UNCHANGED <<buffer, closed, closing, batch, attempt, dropped, flushed,
                   failedBatches, accepted, lostInFailed, posts>>

\* _send returns and the flusher goes round its loop or ends.
SendReturns ==
    /\ batch' = <<>>
    /\ attempt' = 0
    /\ task' = IF MayEnd THEN "done" ELSE "waiting"
    /\ UNCHANGED <<buffer, flushEvent, closed, closing, dropped, accepted, posts>>

\* The POST is answered with 2xx.
PostOk ==
    /\ task = "posting"
    /\ flushed' = flushed + Len(batch)
    /\ SendReturns
    /\ UNCHANGED <<failedBatches, lostInFailed>>

\* The batch is given up: counted as one failed batch, however many events.
SendFails ==
    /\ failedBatches' = failedBatches + 1
    /\ lostInFailed' = lostInFailed + Len(batch)
    /\ SendReturns
    /\ UNCHANGED flushed

\* The POST is answered with a 4xx other than 429: no retry.
PostRejected ==
    /\ task = "posting"
    /\ SendFails

\* The POST is answered with 429 or 5xx, times out or fails on the network,
\* and attempts are left: _send sleeps before the next one.
PostRetry ==
    /\ task = "posting"
    /\ RetriesLeft
    /\ task' = "backoff"
    /\ UNCHANGED <<buffer, flushEvent, closed, closing, batch, attempt, dropped,
                   flushed, failedBatches, accepted, lostInFailed, posts>>

\* The same on the last attempt.
PostGiveUp ==
    /\ task = "posting"
    /\ ~RetriesLeft
    /\ SendFails

\* The backoff is over: the same envelope is POSTed again.
BackoffOver ==
    /\ task = "backoff"
    /\ attempt' = attempt + 1
    /\ task' = "posting"
    /\ posts' = Posted(batch)
    /\ UNCHANGED <<buffer, flushEvent, closed, closing, batch, dropped,
                   flushed, failedBatches, accepted, lostInFailed>>

-----------------------------------------------------------------------------
(* The specification *)

PostAnswered == PostOk \/ PostRejected \/ PostRetry \/ PostGiveUp

SdkNext ==
    \/ Submit
    \/ Start
    \/ Close
    \/ CloseReturn
    \/ WakeAndPost
    \/ WakeEmpty
    \/ PostOk
    \/ PostRejected
    \/ PostRetry
    \/ PostGiveUp
    \/ BackoffOver

SdkSpec == SdkInit /\ [][SdkNext]_sdkVars

\* The loop keeps running the flusher: its timers fire (flush_interval_s, the
\* backoff) and a POST ends, since httpx is given a timeout.  Nothing is
\* assumed of the application, and nothing of what the POST is answered.
SdkFairness ==
    /\ WF_sdkVars(WakeAndPost \/ WakeEmpty)
    /\ WF_sdkVars(PostAnswered)
    /\ WF_sdkVars(BackoffOver)
    /\ WF_sdkVars(CloseReturn)

SdkFairSpec == SdkSpec /\ SdkFairness

-----------------------------------------------------------------------------
(* Properties *)

SdkTypeOK ==
    /\ buffer \in Seq(Events) /\ Len(buffer) <= QueueMax
    /\ batch \in Seq(Events) /\ Len(batch) <= BatchMax
    /\ flushEvent \in BOOLEAN
    /\ closed \in BOOLEAN
    /\ closing \in BOOLEAN
    /\ task \in Tasks
    /\ attempt \in 0 .. MaxRetries
    /\ dropped \in Nat
    /\ flushed \in Nat
    /\ failedBatches \in Nat
    /\ lostInFailed \in Nat
    /\ accepted \in 0 .. MaxSubmits
    /\ posts \in [Events -> Nat]

\* Every event submit() accepted is at any time in exactly one place: in the
\* buffer, in the batch being sent, flushed, dropped, or lost with a failed
\* batch.  This is what makes stats() worth reading.
Conservation ==
    accepted = Len(buffer) + Len(batch) + flushed + dropped + lostInFailed

\* The buffer always holds the newest accepted events, in submission order:
\* overflow discards the oldest, and the flusher takes from the front.
BufferIsNewest ==
    \A i \in 1 .. Len(buffer) : buffer[i] = accepted - Len(buffer) + i

\* No event is POSTed more often than max_retries, whatever the answers.
RetryBound == \A e \in Events : posts[e] <= MaxRetries

\* Events go out for the first time in the order they were submitted: retries
\* and drops never let a newer event overtake an older one.
FirstPostInOrder ==
    [][\A d, e \in Events :
          posts[e] = 0 /\ posts'[e] > 0 /\ posts[d] > 0 => d < e]_sdkVars

\* When close() returns after waiting for the flusher, nothing is left behind:
\* the buffer is empty and no batch is in flight.
CloseDrains ==
    [][closing /\ ~closing' => buffer = <<>> /\ batch = <<>>]_sdkVars

\* close() returns: the flusher cannot be kept busy for ever, because a closed
\* transport accepts nothing and a batch is tried at most max_retries times.
CloseTerminates == closing ~> ~closing

\* Once started, the flusher gets every buffered event out of the buffer, even
\* when the batch is never full and nobody calls close().
BufferedLeaves ==
    \A e \in Events : (task # "none" /\ InSeq(e, buffer)) ~> ~InSeq(e, buffer)

Queue == INSTANCE DropOldestQueue
         WITH Batch <- BatchMax, Capacity <- QueueMax, Bound <- MaxSubmits,
              queue <- buffer, flight <- batch, puts <- accepted,
              open <- ~closed

\* The transport implements the drop-oldest queue the SDK documents: timers,
\* retries and close() never reorder, duplicate or split what it hands over,
\* and no event is accepted after close().
ImplementsQueue == Queue!Spec

=============================================================================
