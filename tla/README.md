# A formal model of inferspect

inferspect watches and controls LLM traffic. Applications report their calls
through a Python SDK, or an agent on the host captures them from the TLS library
with eBPF; an ingestion service publishes what arrives to Valkey streams, consumers
write it to ClickHouse, a dashboard shows it, and an operator can block a
conversation in the kernel of the host it runs on. A chat service is the
demonstration application.

This directory holds TLA+ models of the parts of it whose correctness depends on
the order of things: what runs side by side, what fails half way, and what is done
twice. TLC checks each on small instances; the safety of all of them is
also proved, for every value of their constants, with TLAPS. `PROJECT.json` lists,
machine-readably, the runs, the mutants, the hazards and the source lines of every
definition.

    tlc -config MCUplink.cfg MCUplink.tla      # one run
    tlapm LogPipelineProofs.tla                # the proofs of a module

## 1. Inventory

| Component (path) | State it keeps | Operations | What is hard | Correct if | Module |
|---|---|---|---|---|---|
| SDK transport (`packages/chatbot-sdk/.../transport.py`) | deque, flush event, flusher task, counters | submit, start, close, the flusher, `_send` with retries | submits while a batch is in flight, overflow, closing during a backoff | every event accounted for, in order, within bounds; `close()` drains and returns | `SdkTransport`, `DropOldestQueue` |
| SDK instrumentation (`client.py`, `sync.py`, `integrations/`) | open spans, what a handler remembers, a loop in a thread | open and leave a span, wrap a client, callbacks of an agent, submit to the loop | streams that are abandoned, concurrent requests on one handler, a close while threads wait | one event per call, with its status, output preview and parent | `InferenceSpan`, `VendorCalls`, `SdkCallbacks`, `SyncLogger`, `Instrumentation` |
| Ingestion, `POST /v1/logs` (`apps/ingestion-service`) | idempotency keys and streams in Valkey | validate, claim key, publish, answer | two requests with one batch, errors between claim and publish, lost answers | an event is published once, and a 202 means it is published | `Ingestion` |
| Stream consumers (`apps/inference-consumer`, `apps/app-log-consumer`) | group position, pending entries | read, decode, insert, dead-letter, acknowledge | crashes between insert and acknowledgement, DLQ errors half way, a DLQ that is trimmed | what is acknowledged is safe | `StreamConsumer` |
| Control queue and poll (`control_queue.py`, `control_service.py`) | a Valkey list per host | enqueue, long poll | a poll nobody waits for any more goes on popping | commands in order, at most once | `ControlChannel` |
| Agent: downlink poller (`internal/downlink`) | the poll it waits for | poll, handle, back off | restarts, lost answers | every command handled or known lost | `ControlChannel` |
| Agent: enforcement (`cmd/agent/main.go`, `internal/policy`, `bpf/ssl_uprobe.c`) | policy store, anchor slots, BPF maps | block, unblock, check and mark captured requests | commands against requests that are half handled; expiry, eviction, a map that is full | a kill takes hold, hits only its targets, and is undone by its unblock | `Enforcement` |
| Agent: conversation tracker (`internal/fingerprint`) | conversations, two indexes of them, requests that wait for an answer | identify a request, append an answer, evict, sweep | conversations that start alike, answers that are missed or late, equal hashes, eviction | the indexes agree and stay bounded, an agent id is one conversation | `Tracker` (the connection a kill asks for: `Enforcement`) |
| Agent: uplink (`internal/uplink`) | pending events, disk queue | enqueue, flush, persist with eviction, drain, expire | two goroutines on one directory, restarts, signals | nothing lost or repeated that need not be | `Uplink` |
| Agent: HTTP reassembly, ring buffer, parsing, redaction (`internal/http`, `llm`, `redact`) | bytes of a connection | feed, extract | split and pipelined messages | equal to a reference parser | canonicalisation, hash and redaction in `AnchorText`; the rest planned |
| Chat service: turns (`services/chat_service.py`, `cancellation.py`) | stream registry, conversation row, messages | stream, send, cancel | take-over, cancel at any await, disconnect | one answer per turn, a cancel finds the stream | `ChatStream` |
| Chat service: model adapters, tools, auth | which client is instrumented | library calls | a stream that outlives its request | see the instrumentation | `sdk_integrations.py` in `VendorCalls` |
| Insights API: kills (`agents_service.py`, `anchor.py`) | the audit table | list, look up, build an anchor, POST, record | a POST that times out and is served, rows that age, expire or have no fingerprint, anchors of redacted or escaped text | what an operator is told is true; the last word stands; the agent recognises the anchor | `OperatorKills`, `AnchorText` |
| Insights API: metrics, anomalies, auth | none | queries, z-score scan | boundaries | equal to its definition | planned (scan) |
| Web front ends, infrastructure, scripts | - | - | - | - | not modelled |

How they interact: the SDK and the agent's uplink POST envelopes to the ingestion
service; the service and the consumers share Valkey streams; the insights API
enqueues commands through the ingestion service, the agent's poller fetches them by
long poll and its handler changes the policy store and BPF maps that the capture
goroutine and the kernel read. Within a Python service everything runs on one
asyncio loop, so the code between two awaits is atomic; within the agent the
goroutines interleave freely between their locks.

## 2. Modules

An action is one handler, or the part of one between two points where another
actor can get in, and carries the name of the function or of the outcome. Helpers
called `Mut...` are bugs the code could have had; no definition uses them, they are
what the mutants put in the place of the helper that follows them.

**`SdkTransport`** - `BatchedLogTransport`. The variables are the fields of the
class, plus `task` (where the flusher is suspended: the event, the POST, the
backoff), and what close() waits for. Any answer to a POST is possible.
**`DropOldestQueue`** is its abstract specification: a bounded queue that forgets
the oldest and hands over batches, without timers, retries or answers.

**`Ingestion`** - one record per request, suspended in SET NX ("claim") or XADD
("publish"). `PublishError` and `ClaimError` may have taken effect. One stream
stands for the three; MAXLEN trims or does not, as it is approximate.
**`StreamConsumer`** - `handle_batch` with its awaits: malformed entries, insert,
dead-letter entries one by one, acknowledge. The dead-letter stream has a MAXLEN that is
approximate too (`DlqAdd`): up to `DlqSlack` entries more than `DlqMax` may stay.
**`LogPipeline`** composes `SdkTransport`, `Ingestion` and `StreamConsumer`:
`conn` joins the pending POST to a request, either side can lose it, and a
retry then runs next to the abandoned request. Closing the SDK is left
to `SdkTransport`.

**`InferenceSpan`** - a span of `InferenceLogger.inference()` or `tool_call()`, from
`observe_chunk` and `set_response` to the event of the finally clause. A text is the
sequence of pieces it was made of; the preview is cut at `PREVIEW_MAX` pieces and the pieces
a recognizer knows are hidden, in that order (`Preview`). **`VendorCalls`** - the wrappers of openai,
anthropic and google: every await of a call, a customer who reads on, stops or breaks
off, and the interpreter that collects what is left.
**`SdkCallbacks`** - the handlers of LangChain and LlamaIndex under concurrent requests
of rounds and tools, with what they share between requests: `HandlerOf` gives each
request its handler, and may give two the same. A model's run or a tool ends by an answer,
an error, a timeout or a cancellation; `Told` says what reaches the span of an exception,
and `CancelledUntold` is the cancellation LangChain calls no handler for. **`SyncLogger`** -
the threads, the loop's queue and its iterations, start, close with its join of five
seconds, and restart.
**`Instrumentation`** composes them: an application uses one of them, and all end in
`reports`.

**`AnchorText`** - operators only: the wire form of a body, its redacted and cut preview,
the anchor and the hash the Insights API makes of the preview, and the hash the agent
makes of the body. A character stands for a class that the conversions treat alike
(letter, space, escaped, Python-only white space, redacted). `Fingerprinted` says which
bodies the agent has a fingerprint for; the others leave no row that a query returns.
**`OperatorKills`**
composes it with `ControlChannel`: the calls of the dashboard with the look-up and its
fallback, the POST with its three ends for the caller and its two for the service,
and the audit row. Rows expire (`Expires`), in any order, and any id may be asked for, one
the agent has never made up as well (`NoTarget`). `known` is history: the call is by an
id of a conversation that has had a row all the time.

**`ControlChannel`** - the command list, the long polls with every await apart
(`PollFirst`, `PollMore`, `PollDrained`), and the agent's poller. **`LossyChannel`** is
what it implements: commands are handed over in order, each at most once, and some
go missing for good; there are no lists, polls, batches or answers.

**`Tracker`** - `IdentifyOrCreate` (`Extend`, `MintNew`), `AppendAssistant`, `sweepOnce`,
and the `requestStore` between a request and its answer (`contexts`). A rolling hash is
the sequence of messages it was computed over, and an agent id the number of its
conversation; `byHash` and `byAgentID` are the two indexes. The tracker's work for a
request or an answer is atomic: it is done under its mutex by the one goroutine that
reads the ring buffer, and a sweep between it and the `requestStore` is the same as one
before or after. The clock does not go back and ticks between two operations. `requests`
is a history variable.

**`Enforcement`** - three parties: writes the uprobe lets pass, the capture
goroutine (`Observe`, `Match`, `MatchMarks`, `Check`, `CheckMarks`), and the
downlink handler (`BlockBegins` ... `BlockEnds`, `UnblockBegins` ...
`UnblockEnds`). Fingerprints, anchors and texts of conversations are constants. `Mark` is
the one place where marks are set: the map of the kernel holds `MaxSsl` of them and pushes
others out without a word when it is full, and an update may fail. `slipped` keeps, as
history, the connections that lost their mark so.

**`Uplink`** - the flusher (`FlushBegins` to `Persist`), the drain (`DrainBegins`
to `DrainRemoves`), and the process (`Signal`, `MainReturns`, `Killed`, `Boot`) on
one directory, which is a function from the files' numbers to their batches: a name
begins with the time of its `persist`, so numbers and names sort alike. `Victims` are
the files `persist` removes one by one, oldest first, until there is room. A remove may
fail wherever the code only logs that, and a read of a file that is there too
(`DrainReadFails`): the drain goes on to the next one. A persist that fails, or a death in
the middle of one, may leave a `.tmp` file (`leftover`), which nobody counts, reads or
removes. Sizes are counted in events. A queue that could not be set up is not modelled apart: its
flusher is one whose `persist` always fails.

**`ChatStream`** - streamed and plain turns of one conversation, the registry and
the cancel endpoint. A pending `task.cancel()` is delivered when the task next runs:
inside the generator it is caught, while the server sends a chunk it is not
(`OnCancel`). The registry's lock is left out because no holder of it awaits.
What Starlette does when a client leaves (`Disconnect`) is outside the repository:
it cancels the task again at each await, so the except block cannot store anything.
The database may fail the cancel endpoint after it has cancelled the task (`CancelFails`).

## 3. Runs

| Run | Bounds | Distinct states | What it shows |
|---|---|---|---|
| `sdk_transport` | buffer 3, batch 2, 2 attempts, 6 events | 34 000 | see the properties below, under fairness, and the refinement of `DropOldestQueue` |
| `log_pipeline` | 3 events (one malformed, one without request_id), batches to 3 and envelopes to 2, 2 requests, a stream and a DLQ of 1 entry, every fault | 936 000 | no event is published twice; a 202 hides no loss but the known one; acknowledged is durable until the DLQ is trimmed |
| `exactly_once` | 2 events, only Valkey commands fail | violated | finding 1 |
| `control_channel` | 4 commands, 2 polls of up to 2, every fault | 6 200 | order, at most once, nothing vanishes, everything settles, and the refinement of `LossyChannel` |
| `tracker` | 3 connections of 2 processes, 4 bodies with one opening, 5 clock readings, cap 2 | 805 000 | the indexes agree; an agent id is one conversation; what is forgotten was evicted or displaced by its equal; the index stays below cap plus connections |
| `operator_kills` | 3 conversations (plain; too short for an anchor; without a fingerprint), 2 captured requests that may expire, 2 calls, 2 commands, one poll of up to 2, time-outs, refusals and failing inserts | 1.6 million | from the console to the agent, and back to what the operator is told |
| `enforcement` | 3 conversations, 2 fingerprints, 2 connections, 2 slots, a map for 1 mark, 2 commands, every disturbance | 1.3 million | a kill takes hold; only targets are marked |
| `unblock_clears` | the same with 3 commands, one anchor for all, room for all marks, no disturbance | violated | finding 2 |
| `uplink` | 3 events, a directory for 2, envelopes to 2, one invalid event, every fault | 243 000 | accounting, repeats, cap, order, and every file leaves |
| `chat_stream` | 2 streams, 1 plain turn, 1 cancel, errors and disconnects | 23 000 | registry, answers, and every request ends |
| `cancel_stops` | 1 stream, 1 cancel, nothing fails | violated | finding 3 |
| `instrumentation` | 1 vendor call of up to 3 messages, one of them private, and previews of 2; or 2 requests that share a handler, of up to 2 rounds (3 in all) with a tool each; or 2 threads, the logger started twice | 965 000 | one faithful event per call |

Why these bounds are enough to be worth something: in each run every queue, batch,
slot table or directory can fill, overflow and empty again; every pair of actors
that can meet, meets (two requests, two polls, two streams, a request and a
command); each retry has a first, a repeated and a last attempt; and every action
of the next-state relation fires. Counters are bounded by the number of inputs
(`MaxSubmits`, `MaxCommands`, `MaxEvents`, `MaxRequests`, `MaxChunks`, `MaxMessages`,
`MaxRounds`, `MaxTools`, `MaxLlmRuns`, `MaxLoops`, `MaxTime`, and the sets of requests and
calls), which are the only bounds the code does not have itself. Sizes it does have are
scaled down: `MaxSsl` stands for the 8192 marks of the kernel's map, `DlqMax` for the
100 000 entries of the DLQ, `PreviewMax` of the SDK for 500 characters. Lengths in
`AnchorText` are scaled down together: the minimum and the maximum of an anchor are 4
characters and the key with its quotes is two, so that a first message can be shorter and
longer than the minimum and, like one of one to three bytes in the code, remain too short in
its quotes.

CHECK_DEADLOCK is off where the system really stops: in `LogPipeline`, `ChatStream`,
`OperatorKills` and `Instrumentation` all requests and calls can be over with nothing
left to do, and in `Tracker` the clock can be at its bound.

### Properties

*SDK transport.* `Conservation`: accepted = buffered + in flight + flushed + dropped
+ lost in failed batches. `FirstPostInOrder`: retries never let a newer event
overtake. `CloseDrains`, `CloseTerminates`, `BufferedLeaves`: closing leaves
nothing behind and ends; a partial batch goes out without it. `ImplementsQueue`: the
buffer holds the newest events, and nothing but an overflow discards any.

*Pipeline.* `PublishedOnce`, `FlushedIsPublished` (a 202 means published, is being
published by a request still running, or the publish failed after the claim),
`AckedIsDurable` (inserted, in the DLQ, or trimmed from there when later entries overran
it), `ReadIsAccounted`. `Stitched` events, which bypass the idempotency
key, come from the agent only; the pipeline's runs have none.

*Control.* `NothingVanishes` and `Settled` say that a command is handled or lost to a
failure the model names. `ImplementsLossy`: whatever abandoned polls do, commands are
handled in the order they were issued in, each at most once, and one that was lost does
not turn up later. The invariants this rests on are `InOrder`, of the whole way ahead of a
command (handled, inbox, poll, queue), and `NoDuplicate`, of the polls nobody waits for.

*Tracker.* `IndexConsistent`: an entry of `byHash` is a conversation of `byAgentID`, under
the hash of its messages. `OneChainPerId`: of any two requests that were given one agent
id, one continues the other, and both are of one process. `LosesOnlyToEqual`: a
conversation leaves `byHash` only when it is evicted or swept, or when another has, or had
until now, exactly its messages. `IndexBounded`: `AppendAssistant` may put a displaced
conversation back into a full index, but no more than cap and connections together allow,
even when every answer comes that is waited for.

*Operators.* `ToldIsIssued`: a call that was accepted or audited is behind exactly one
command, for the conversation of the row (not the other way round: a call that timed
out may be served). `LastWordStands`: of several operators the last one gets what was
asked for, once every command is handled and none lost. `AgentIdExact`: a kill by the
agent's id hits that conversation, if there is a row of it with a fingerprint all the time
until the look-up; without one the fallback takes another, and the property says nothing.
`AgentRecognises`: the anchor of a plain conversation is found in all its later requests, is
long enough for the scan unless it is the whole of a very short message in its quotes, and
the hash is the agent's; `PlainBody` names what is not plain.

*Enforcement.* `KillTakesHold`: for every tracked conversation with a blocked
fingerprint the connection is marked, or one of the two parties is on its way to
it; excepted are marks an unblock has cleared and those that slipped (failed updates, a full
map). `OnlyTargetsMarked`: no mark without a command aimed at the conversation.

*Uplink.* `EventsAccounted`; `RepeatsAreUnsettled` (the service gets an event twice
only when the agent could not know); `DiskBounded` and `OldestGivenUp`, which
except files that could not be removed, and the first says of `.tmp` files, which come on
top of the cap, that no event in them is still in the queue; `ReplayedInOrder`, but for
files that could not be read at their turn; `FilesLeave`, for an agent that does not hang
for ever after a signal.

*Chat.* `RegistryExact`, `OneAnswer`, `CancelledIsPartial`, `RequestsEnd`.

*Instrumentation.* `OncePerCall`, `FaithfulStatus` and `FaithfulOutput`: one event per
call, with what became of it and the preview of the text the customer got. The exceptions
the code has are written out: a stream of anthropic is not looked at, google's last text
comes twice (before the cut), LangChain's tokens are followed by the whole answer, some
cancellations are not told to its handler, LlamaIndex's handler looks at no exception, so
that its runs may be reported as ok whatever became of them, and reports, without a loop, at
their start. `ToolsLinked`: a tool names the inference that asked for it or, where requests
share a handler, one of another request that ended after that one. `EarlyCallsReturn`:
close() leaves no earlier call waiting, also when its join gives up.

### Fairness

- `SdkTransport`: weak fairness of the flusher's wake-up, of the end of a POST (httpx
  has a timeout), of the backoff and of the return of close(). The application is
  free, and so are the answers.
- `ControlChannel`: the loop runs each poll (BRPOP has a timeout), the agent polls for
  ever. Strong fairness only of `PollFirst`: a failing Valkey or network may recur,
  but not at every single BRPOP.
- `Uplink`: the drain's ticker and the restart by the supervisor. Strong fairness of the
  drain's steps: outages, failing reads and removes and deaths may recur for ever, but not
  every time. That main returns after a signal is not assumed: an idle agent stays in the
  ring buffer's `Read`. `FilesLeave` is therefore said of an agent that is not signalled
  for good.
- `ChatStream`: the loop runs every task, a call of a model ends, a client reads or
  leaves, and Postgres grants the row to everyone who waits (strong fairness).
- `LogPipeline`, `Enforcement`, `Tracker`, `OperatorKills` and `Instrumentation` check safety
  only: nothing makes an application or a garbage collector go on.

## 4. What is proved

Every theorem holds for all values of the constants that meet the named ASSUMEs of the
modules (`SdkAssumption`, `IngestionAssumption`, `ConsumerAssumption`,
`PipelineAssumption`, `ChannelAssumption`, `EnforcementAssumption`,
`OperatorAssumption`, `AnchorAssumption`, `UplinkAssumption`, `ChatAssumption`,
`TrackerAssumption`, `SpanAssumption`, `CallsAssumption`, `CallbacksAssumption`,
`SyncAssumption`, `IdsAssumption`): sizes are positive, the special values are none of
the ordinary ones, the ids of spans, fresh `uuid4()`s in the code, differ, and the
tracker's cap is positive (`main.go:187` sets it) and its connections finitely many.
SHA-256 is taken to have no collisions. Nothing bounds the number of requests, polls,
connections, streams, messages, threads or commands, and all faults are included. One
result has a hypothesis of its own, the corollary `ToolsOfOwnHandlers` of `ToolsAreLinked`:
that each request has its handler, as the chat service arranges
(`sdk_integrations.py:249`). A handler that requests share, as LlamaIndex's global one, keeps
one `last_inference_request_id` for all of them, and the theorem says how far a link can
go astray then.

| Module | Theorem | Property |
|---|---|---|
| `SdkTransportProofs` | `Invariance` | `SdkInv` |
| | `TypeCorrect`, `Conserved`, `NewestKept`, `RetriesBounded` | `SdkTypeOK`, `Conservation`, `BufferIsNewest`, `RetryBound` |
| | `PostedInOrder`, `CloseHasDrained` | `FirstPostInOrder`, `CloseDrains` |
| | `Refinement` | `ImplementsQueue` |
| `LogPipelineProofs` | `PipelineInvariance`, `PipelineTypeCorrect` | `PipelineInv`, `PipelineTypeOK` |
| | `PublishedAtMostOnce`, `FlushedReachesStream` | `PublishedOnce`, `FlushedIsPublished` |
| | `AckedKept`, `ReadRecoverable` | `AckedIsDurable`, `ReadIsAccounted` |
| `ControlProofs` | `Invariance`, `TypeCorrect` | `ChannelInv`, `ChannelTypeOK` |
| | `OrderKept`, `NoneTwice`, `NoneVanishes` | `InOrder`, `NoDuplicate`, `NothingVanishes` |
| | `ChannelRefinement` | `ImplementsLossy` |
| | `KillsInvariance` | `KillsInv` |
| | `ToldWasIssued`, `AgentIdHits` | `ToldIsIssued`, `AgentIdExact` |
| | `OperatorsUseChannel`: `KillSpec => ChannelSpec` | |
| | `LastWord` | `LastWordStands` |
| `EnforcementProofs` | `TypeCorrect` | `EnforceTypeOK` |
| | `KillsTakeHold`, `TargetsOnly` | `KillTakesHold`, `OnlyTargetsMarked` |
| `TrackerProofs` | `Invariance`, `TypeCorrect` | `TrackerInv`, `TrackerTypeOK` |
| | `IndexesAgree`, `OneConversation`, `IndexStaysBounded` | `IndexConsistent`, `OneChainPerId`, `IndexBounded` |
| | `OnlyEqualsDisplace` (an action property) | `LosesOnlyToEqual` |
| `UplinkProofs` | `UplinkInvariance` | `UplinkInv` |
| | `NoEventLost`, `RepeatsHaveAReason` | `EventsAccounted`, `RepeatsAreUnsettled` |
| | `QueueWithinCap`, `OldestGoesFirst` | `DiskBounded`, `OldestGivenUp` |
| | `ReplayIsInOrder` (an action property) | `ReplayedInOrder` |
| `ChatStreamProofs` | `Invariance`, `TypeCorrect` | `ChatInv`, `ChatTypeOK` |
| | `RegistryIsExact`, `AnsweredOnce`, `CancelledStaysPartial` | `RegistryExact`, `OneAnswer`, `CancelledIsPartial` |
| `InstrumentationProofs` | `InstrumentationInvariance` | `AllInv` |
| | `ReportedOnce`, `StatusIsFaithful`, `OutputIsFaithful` | `OncePerCall`, `FaithfulStatus`, `FaithfulOutput` |
| | `EarlyCallsAreServed` | `EarlyCallsReturn` |
| | `ToolsAreLinked`; `ToolsOfOwnHandlers`, if no handler is shared | `ToolsLinked` |

Each module proves that the initial states satisfy an inductive invariant, that each
action preserves it (one lemma per action, or per group of actions that move the same
variables), and that it implies the properties.

- `SdkInv`: `SdkTypeOK`, `Conservation`, `BufferIsNewest`; `FlusherInv`, which ties
  `task`, `batch` and `attempt` together (a batch is held exactly while it is POSTed or
  backs off; a flusher that ended, ended with an empty buffer); and `PostsInv`, how
  often each event has been POSTed by where it is.
- `PipelineInv`: `SdkInv`, so the pipeline's steps are also steps of the transport; and
  the invariants of the service and the consumer. PublishedOnce says nothing of keys,
  so it is not inductive. What carries it: an event still in the SDK's buffer is unknown
  to everybody else (`Horizon`); while an event is in the batch or in a request
  (`Around`) its key does not expire; who publishes has claimed, alone; a "duplicate" is
  of an event that has been treated. `ConsumerInv` says what the batch in hand still
  needs at each await.
- `ChannelInv`: each stretch of a command's way is in order, further down is
  older, and no two stretches share a command, for all polls, abandoned or not. With it
  every step of the channel is one of `LossyChannel`: taking a command into a batch changes
  nothing ahead, handling the oldest hands it over, and each failure, restart or abandoned
  poll makes some go missing. As `KillSpec => ChannelSpec`, operators have such a channel.
- `TrackerInv`: `IndexConsistent` with the types is inductive, as entries leave both indexes
  together and no two keys are one conversation. `OneChainPerId` needs `Grown`: each body a
  conversation was given is a prefix of its messages, which only grow. `IndexBounded`
  counts, beside the entries, the conversations that are tracked, out of the index, and
  waited for: a step that puts one back takes it from those, one that displaces an entry
  adds none to the index, and a new conversation occupies the connection it came on. The
  bound of the entries alone is not inductive.
- `EnforceInv`: `KillTakesHold` with the types is inductive, since every disjunct hands
  over to another in the step in which it ends, and a mark that fails or is pushed out of the
  map hands over to `slipped`; `OnlyTargetsMarked` needs `Decided` and
  `Aimed`: a decision to mark was taken of something that a command had put there.
- `KillsInv`: where a call, its POST and its command stand to each other, and that a call
  that is `known` finds rows of its conversation: the last one that expires under its
  look-up ends that, and captures only add rows.
- `WordInv`, for `LastWordStands`: `KillsInv`, `ChannelInv` (operators and channel take only
  steps of the channel), as many commands as numbers issued, and: the command of a call
  is behind those of the calls whose answers its operator had seen. When as many commands
  are handled as were issued, in order and none twice, each was handled, and the last
  one for a conversation is that of the last call.
- `UplinkInv`: the properties, and the order that keeps them: each batch and file is
  sorted, and what is further on is older, from `pending` over the flusher's batch to the
  files, newest first; so no event is in two places, and the sizes of files add up.
  `GivenUpInv`: what was evicted is older still. `WalkInv`: the drain has had every
  older file of its walk answered, and a file written meanwhile is newer; the batch it
  holds may be that of a file that is gone. `SendInv`: what is pending, in the
  flusher's batch, or on disk and not posted at this moment, has not been received, or
  was unsettled. That eviction makes room is `RoomMade`: of the files that are kept
  the oldest is no victim, so it and those after it leave room.
- `AllInv`: the spans of calls, runs and threads are apart, so each step speaks
  (`Spoke`) only of the spans of the integration that takes it. What has been said of a
  span is a function of where it is: `CallReports` with `CallShape` for calls (an open
  span has said nothing and has seen what the customer got), `RunReports` with
  `RunShape` and `RoundInv` for runs (what is held has said nothing), `SaidInv` for
  threads. `LinkInv` adds what a handler remembers while a tool can start: the run that asked
  for it, or one of another of its requests that ended later (`Follows`).
  `EarlyCallsReturn` needs the loop's queue: a waiting thread has one job, on the loop
  it waits for (`JobInv`, `WaitInv`), and every job goes through the queue three times, a
  stage further each time; `RankInv` says that while close() waits, whoever was there
  before it is before it in the queue or a stage ahead, so that when it goes on nobody
  but the late waits (`LateInv`). A loop may outlive the join, so the invariants are of
  every loop that was `Asked` to stop or `Left`, not of the current one alone.
- `ChatInv`: `RegistryExact`, what a turn has stored by where it is, and where a stream
  that was cancelled can be; the last needs the first, as a cancel meets a
  stream in flight only because the registry holds none that is past it.

Only model-checked: the liveness properties (`BufferedLeaves`, `CloseTerminates`,
`Settled`, `FilesLeave`, `RequestsEnd`), which are beyond the
prover, and `AgentRecognises`: its conversions are folds over texts of any length, so
its proof would be an induction over data.

## 5. Findings

1. **A 202 for an event that is nowhere** (`exactly_once`). `ingest_batch` claims the
   idempotency key before it publishes and keeps it when the publish raises. The
   client's retry is a "duplicate", with a 202. README.md:212 and ARCHITECTURE.md:107
   promise exactly once.
2. **An unblock that leaves the connection blocked** (`unblock_clears`). A request that
   has asked `IsBlocked` marks its connection after the unblock has cleared it, for
   good. main.go:285-289 says that every enforcement state is cleared. The property
   also fails without that race: two kills of a fingerprint arm two slots and an
   unblock disarms one; only the last connection of each conversation that is still
   tracked is cleared.
3. **A cancel that comes too early** (`cancel_stops`). A stream registers its task only
   after the first commit, the "start" event and the load of the history; a cancel
   before that finds nothing, and the stream goes on in a cancelled conversation.

Disagreements of code and documents that no run shows:

- Tracked conversations that nothing removes: `mintNew` overwrites the entry of a
  conversation with the same messages in `byHash` and adds one to `byAgentID`; cap,
  eviction and sweep look at `byHash` only. tracker.go:76 and main.go:185 say that they
  bound the tracker. In the model the same request four times is enough for a
  `byAgentID` beyond the bound that `IndexBounded` gives for `byHash`.
- A second turn that is not recognised: main.go:441 and tracker.go:319 speak of any chat
  with an answer in it; `looksLikeContinuation` wants four messages, so a chat without a
  system message begins anew at its second turn (`MintNew`). All chats with Anthropic are
  of that kind: compute.go:105 says their system field leads the chain, but
  compute.go:115 takes their bodies for OpenAI's and does not look at it.
- A shutdown that does not drain: main.go:10 says the uplink is drained on Ctrl+C; main
  does not wait for the goroutine that would (`MainReturns`). An idle agent does not end
  at all, since `reader.Run` stays in `Read`.
- ingest_batch answers single events with "rejected", but the endpoint's envelope is typed
  and one invalid event is a 422 for all.
- `chat_controller.py:38-41` says that a disconnect persists the partial message as
  cancelled, where the model of `Disconnect` stores nothing.
- `clickhouse_repo.py:610` calls the fallback of a session kill exact for single hosts,
  where it takes the latest capture of any conversation (the exception in `AgentIdExact`).
- `anomaly_service.py:10-11` speaks of a rolling window, and `_scan_series` drops no bucket.
- `ARCHITECTURE.md:72` gives `close()` of the SDK's transport a configurable timeout; it has
  none, and takes as long as the last batches and their retries (`CloseTerminates`).
- anchor.py:24-28 and 175-177 say that a padded anchor is always long enough to be scanned;
  one to three bytes in their quotes are 13 to 15, and ssl_uprobe.c:257 skips anchors under
  16 (the exception in `AgentRecognises`). The agent pads in the same way, main.go:780-795.
- `test_anchor.py:86-99` wants the last messages in an anchor; build_anchor takes the first
  user message and ignores `tail_turns`.
- A kill by the agent's id that finds no row kills another conversation: rows expire, and a
  body with Anthropic's list for a system prompt, or of Google, has no fingerprint
  (main.go:412-425), so that no id of such a conversation is ever found.
- google.py:96 speaks of the usage of the last chunk; `set_response` takes its text too, so
  that the last text of a stream is in the preview twice.
- The SDK's README.md:85-87 promises the status of each call and the parent of each tool;
  LlamaIndex's handler does not look at the exception it is given (llamaindex.py:103-135),
  and a shared handler links a tool to whatever inference ended last.
- queue.go:10 caps the directory; `.tmp` files of failed writes come on top, and are never
  removed.
- queue.go:5-7 replays in the order of the timestamps; a file that cannot be read is passed
  over until the next tick (queue.go:126-129).

## 6. Plan

Done, in this order: SDK transport; ingestion, consumers and the pipeline; control
channel; enforcement; uplink; chat turns; operator kills with anchors;
instrumentation; tracker; the lossy channel; the proofs of section 4.

Left:

1. Algorithms over bounded inputs, each against a reference definition: the HTTP
   reassembler, the scan of the uprobe with its window, the z-score scan.
2. `AgentControl` - `ControlChannel` feeding `Enforcement`, so that a lost or delayed
   command meets the enforcement it was meant for.
3. Proofs: of these modules, and that `Ingestion` alone, with any client, implements an
   abstract publisher of one message per claimed key.

## 7. What is left out

- Contents: what an event, a message or a prompt says, enrichment, token counts, costs,
  latencies. Where a decision depends on contents (fingerprints, malformed rows) they
  are constants, or classes of characters (`AnchorText`).
- In the SDK: `log()` and the structlog and stdlib processors, which make one event of one
  record; previews of inputs; the ids of conversations, which a wrapper copies from the
  context it begins in (google's stream wrapper begins at the first message, when the caller
  may be in another context, and an abandoned stream may leave the caller's context set);
  a KeyboardInterrupt in the synchronous close(), whose finally clause then stops the loop
  under the coroutine it waited for; and exceptions of a POST that are neither
  httpx.HTTPError nor TimeoutError, which `_send` does not catch (transport.py:139) and which
  end the flusher for good.
- In the Insights API: `list_hosts`, filters by client, a block's `ttl_seconds`; all
  queries of the dashboard, and the anomaly scan.
- In the chat service: the dates of messages. `created_at` is the start of a transaction
  (`db/models.py:96`), so question and answer of a plain turn share it, and lists, which
  order by nothing else, may swap them.
- Time: timers fire at any moment. TTLs are an action that may happen when the
  relation of the time-outs allows it (`KeyExpires` not before the last attempt of a
  batch; `QueueExpires`, `PolicyExpires`, `Expires`).
- The kernel's scan itself: `WritePasses` lets any write of an unmarked connection
  pass, because the scan sees only a window of it. A write that is corrupted changes
  no state of the model.
- In `Enforcement`: `block_conversation` and `unblock_anchor`, which no service sends,
  `block_pid`, which the agent ignores, and the counters of `RecordKill`.
- Heartbeats, host registry and cursor of the control plane: nobody reads them back.
- The Valkey broker client: when it redelivers pending entries is its own affair, so
  `Redeliver` may happen at any time.
- Front ends, dashboards, deployment: no protocol state.
