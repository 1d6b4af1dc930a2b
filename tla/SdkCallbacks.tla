---------------------------- MODULE SdkCallbacks ----------------------------
(***************************************************************************)
(* The callback handlers of the SDK: SDKCallback                           *)
(* (chatbot_sdk/integrations/langchain.py) and LlamaIndexCallback          *)
(* (integrations/llamaindex.py), and the agents that drive them.           *)
(*                                                                         *)
(* A request to an agent is a row of rounds: the model is called (run      *)
(* <<q, n, 0>>), it may ask for tools (runs <<q, n, 1>>, ...), which are   *)
(* run at the same time, and their results go into the next round.         *)
(* Requests are concurrent, and a handler may be attached to several of    *)
(* them, as LlamaIndex's global handler is; what it shares between them is *)
(* last_inference_request_id.  The spans it holds are keyed by the run, so *)
(* they are kept here by the run.                                          *)
(***************************************************************************)
EXTENDS InferenceSpan, FiniteSets

CONSTANTS Requests,    (* requests to the agent                            *)
          Handlers,    (* callback handlers                                *)
          HandlerOf,   (* the handler attached to each request             *)
          MaxRounds,   (* bound of the model: rounds of a request          *)
          MaxTools,    (* bound of the model: tools of a round             *)
          MaxLlmRuns   (* bound of the model: rounds of all requests       *)

LlmRun(q, n) == <<q, n, 0>>
ToolRuns(q, n) == {<<q, n, k>> : k \in 1 .. MaxTools}
LlmRuns == {LlmRun(q, n) : q \in Requests, n \in 1 .. MaxRounds}
AllToolRuns == UNION {ToolRuns(q, n) : q \in Requests, n \in 1 .. MaxRounds}

ASSUME CallbacksAssumption ==
    /\ LlmRuns \cup AllToolRuns \subseteq SpanIds
    /\ HandlerOf \in [Requests -> Handlers]
    /\ MaxRounds \in Nat \ {0} /\ MaxTools \in Nat \ {0} /\ MaxLlmRuns \in Nat

VARIABLES
    lastInference,   (* last_inference_request_id of each handler          *)
    round,           (* the round each request is in, 0 before the first   *)
    run,             (* the runs                                           *)
    held             (* spans in _inference_cms and _tool_cms              *)

callbackVars == <<lastInference, round, run, held>>

\* A run: its phase, what it got (its own id stands for a piece of its text),
\* which tools it asked for, how it ended and whether the handler was called
\* for the exception; and the span that was opened for it.  `before` is history:
\* the model's runs that had ended when this one did.
NoRun == [phase |-> "none", got |-> <<>>, asks |-> {}, fate |-> "none",
          told |-> FALSE, span |-> NewSpan, parent |-> NoParent, before |-> {}]

CallbackInit ==
    /\ lastInference = [h \in Handlers |-> NoParent]
    /\ round = [q \in Requests |-> 0]
    /\ run = [r \in LlmRuns \cup AllToolRuns |-> NoRun]
    /\ held = {}

\* What can end a run.
Exceptions == {"error", "timeout", "cancelled"}

Running(r) == run[r].phase = "running"
Handler(r) == HandlerOf[r[1]]

\* The request can start its next round: nothing of it runs, and its last
\* round ended in results of tools.
MayGoOn(q) ==
    round[q] > 0 =>
        LET r == LlmRun(q, round[q])
        IN /\ run[r].fate = "ok"
           /\ run[r].asks # {}
           /\ \A t \in run[r].asks : run[t].fate \in {"ok", "error", "timeout"}

\* The model's runs that have ended.
Ended == {r \in LlmRuns : run[r].phase = "over"}

-----------------------------------------------------------------------------
(* The handlers *)

\* Entering a span.  Without a running loop _run() is asyncio.run(), which on
\* its way out closes the generator of the span's context manager,
\* and that reports the log.
OpenSpan(r, log) ==
    IF integration = "llamaindex_sync"
    THEN SubmitReport(r, log, 1)
    ELSE UNCHANGED reports

\* Leaving the span of r: there is one to leave if it is held, and it reports
\* unless it has done so when it was opened.
CloseSpan(r, log) ==
    /\ held' = held \ {r}
    /\ IF r \in held /\ integration # "llamaindex_sync"
       THEN SubmitReport(r, log, 1)
       ELSE UNCHANGED reports

\* How the exception e reaches the span: LlamaIndex ends the event with the
\* exception for a payload, and the handler does not look at it and leaves the
\* span as after an answer.
Told(e) == IF integration = "langchain" THEN e ELSE "none"

\* on_chat_model_start(), on_llm_start(), _open_inference()
LlmStart(q) ==
    /\ round[q] < MaxRounds
    /\ Cardinality({r \in LlmRuns : run[r].phase # "none"}) < MaxLlmRuns
    /\ MayGoOn(q)
    /\ LET r == LlmRun(q, round[q] + 1)
       IN /\ run' = [run EXCEPT ![r].phase = "running"]
          /\ held' = held \cup {r}
          /\ OpenSpan(r, InferenceLog(NewSpan, "generator_exit"))
    /\ round' = [round EXCEPT ![q] = @ + 1]
    /\ UNCHANGED <<lastInference, sdkClosed>>

\* on_llm_new_token(): LangChain only.  One token stands for all of them.
LlmNewToken(r) ==
    /\ integration = "langchain"
    /\ Running(r)
    /\ run[r].got = <<>>
    /\ LET m == [text |-> <<r>>, tool |-> "none", usage |-> 0]
       IN run' = [run EXCEPT ![r].got = <<r>>,
                             ![r].span = IF r \in held THEN ObserveChunk(@, m) ELSE @]
    /\ UNCHANGED <<lastInference, round, held, reports, sdkClosed>>

MutRemembered(h, r) ==
    IF lastInference[h] = NoParent THEN [lastInference EXCEPT ![h] = r] ELSE lastInference

\* last_inference_request_id after the run r.
Remembered(h, r) == [lastInference EXCEPT ![h] = r]

\* The last message of an answer, as the span reads it.  LlamaIndex passes no
\* tool calls.
FinalMessage(r, tools) ==
    [text |-> <<r>>, usage |-> 1,
     tool |-> IF tools # {} /\ integration = "langchain" THEN "t" ELSE "none"]

\* on_llm_end(), _close_inference(): the answer is taken as a whole, behind
\* the tokens that were observed.
LlmEnd(r, tools) ==
    /\ Running(r)
    /\ LET span == SetResponse(run[r].span, FinalMessage(r, tools))
       IN /\ run' = [run EXCEPT ![r].phase = "over", ![r].fate = "ok", ![r].got = <<r>>,
                                ![r].asks = tools, ![r].span = span, ![r].before = Ended]
          /\ CloseSpan(r, InferenceLog(span, "none"))
    /\ lastInference' = IF r \in held THEN Remembered(Handler(r), r) ELSE lastInference
    /\ UNCHANGED <<round, sdkClosed>>

\* on_llm_error(), or _close_inference() with no answer.
LlmError(r, e) ==
    /\ Running(r)
    /\ run' = [run EXCEPT ![r].phase = "over", ![r].fate = e, ![r].told = TRUE,
                          ![r].before = Ended]
    /\ CloseSpan(r, InferenceLog(run[r].span, Told(e)))
    /\ lastInference' = IF r \in held /\ integration # "langchain"
                        THEN Remembered(Handler(r), r) ELSE lastInference
    /\ UNCHANGED <<round, sdkClosed>>

Cancelled(tools) == \E t \in tools : run[t].fate = "cancelled"

\* on_tool_start(), _open_tool(): the parent is whatever inference the handler
\* has seen end last.
ToolStart(t) ==
    LET llm == LlmRun(t[1], t[2])
        parent == lastInference[Handler(t)]
    IN /\ run[llm].phase = "over" /\ t \in run[llm].asks
       /\ run[t].phase = "none" /\ ~Cancelled(run[llm].asks)
       /\ run' = [run EXCEPT ![t].phase = "running", ![t].parent = parent]
       /\ held' = held \cup {t}
       /\ OpenSpan(t, ToolExecutionLog(parent, "generator_exit"))
       /\ UNCHANGED <<lastInference, round, sdkClosed>>

\* on_tool_end(), _close_tool()
ToolEnd(t) ==
    /\ Running(t)
    /\ run' = [run EXCEPT ![t].phase = "over", ![t].fate = "ok"]
    /\ CloseSpan(t, ToolExecutionLog(run[t].parent, "none"))
    /\ UNCHANGED <<lastInference, round, sdkClosed>>

\* on_tool_error(), or _close_tool() without a response.  LangChain calls
\* on_tool_error() for an Exception only, and a CancelledError is none.
ToolError(t, e) ==
    /\ Running(t)
    /\ e = "cancelled" => integration # "langchain"
    /\ run' = [run EXCEPT ![t].phase = "over", ![t].fate = e, ![t].told = TRUE]
    /\ CloseSpan(t, ToolExecutionLog(run[t].parent, Told(e)))
    /\ UNCHANGED <<lastInference, round, sdkClosed>>

\* The task of a run is cancelled and LangChain calls no handler: that of a tool,
\* or of a model that is not streamed, whose agenerate() is cancelled in its
\* gather().  The handler keeps the span.
CancelledUntold(r) ==
    /\ integration = "langchain"
    /\ Running(r)
    /\ run' = [run EXCEPT ![r].phase = "over", ![r].fate = "cancelled"]
    /\ UNCHANGED <<lastInference, round, held, reports, sdkClosed>>

\* The request can do nothing more.
Finished(q) ==
    /\ round[q] > 0
    /\ \A r \in DOMAIN run : r[1] = q => ~Running(r)
    /\ LET asks == run[LlmRun(q, round[q])].asks
       IN (\A t \in asks : run[t].phase = "over") \/ Cancelled(asks)
    /\ ~MayGoOn(q) \/ round[q] = MaxRounds

\* A handler that was made for its requests goes with them, and the spans it
\* still holds are closed by the loop.
HandlerCollected(r) ==
    /\ r \in held
    /\ \A q \in Requests : HandlerOf[q] = Handler(r) => Finished(q)

SpanCollected(r) ==
    /\ HandlerCollected(r)
    /\ CloseSpan(r, IF r \in LlmRuns THEN InferenceLog(run[r].span, "generator_exit")
                    ELSE ToolExecutionLog(run[r].parent, "generator_exit"))
    /\ UNCHANGED <<lastInference, round, run, sdkClosed>>

CallbackNext ==
    \/ \E q \in Requests : LlmStart(q)
    \/ \E r \in LlmRuns :
         \/ LlmNewToken(r)
         \/ \E tools \in SUBSET ToolRuns(r[1], r[2]) : LlmEnd(r, tools)
         \/ \E e \in Exceptions : LlmError(r, e)
    \/ \E t \in AllToolRuns :
         ToolStart(t) \/ ToolEnd(t) \/ \E e \in Exceptions : ToolError(t, e)
    \/ \E r \in LlmRuns \cup AllToolRuns : CancelledUntold(r) \/ SpanCollected(r)
=============================================================================
