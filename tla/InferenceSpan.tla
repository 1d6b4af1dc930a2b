--------------------------- MODULE InferenceSpan ---------------------------
(***************************************************************************)
(* Spans of the Python SDK and the events they end in                      *)
(* (packages/chatbot-sdk/chatbot_sdk/client.py).                           *)
(*                                                                         *)
(* A text is the sequence of the pieces it was put together from, so that  *)
(* a piece that is missing, repeated or of somebody else shows; lengths    *)
(* are counted in pieces, and a recognizer of private data matches a whole *)
(* piece or nothing.  Times, costs, the previews of inputs and of tools,   *)
(* and the ids of conversations are left out.  `reports` has, for every    *)
(* span, the events that were handed to transport.submit() and accepted;   *)
(* what becomes of them is modelled in SdkTransport.                       *)
(***************************************************************************)
EXTENDS Naturals, Sequences

CONSTANTS SpanIds,   (* the spans there can be: their request_ids          *)
          NoParent,  (* parent_inference_request_id = None                 *)
          PreviewMax,(* PREVIEW_MAX, in pieces                             *)
          Ellipsis,  (* what a text that was cut ends in                   *)
          Private,   (* pieces that a recognizer matches                   *)
          Hidden     (* what redact_text() puts in their place             *)

ASSUME SpanAssumption == NoParent \notin SpanIds /\ PreviewMax \in Nat

VARIABLES
    integration,  (* how the application calls its models: "vendor",       *)
                  (* "langchain", "llamaindex", "llamaindex_sync", "sync"  *)
    reports,      (* the accepted events of each span                      *)
    sdkClosed     (* transport._closed: submit() ignores everything        *)

Integrations == {"vendor", "langchain", "llamaindex", "llamaindex_sync", "sync"}

\* What can come out of the "yield" of a span's context manager.
Outcomes == {"none", "error", "timeout", "cancelled", "generator_exit"}

\* A span before anything is observed.
NewSpan == [output |-> <<>>, tokens |-> 0, tools |-> <<>>, ttft |-> FALSE]

\* A token count is kept unless the message brings a new one.
Latest(tokens, usage) == IF usage = 0 THEN tokens ELSE usage

Elements(s) == {s[i] : i \in 1 .. Len(s)}

\* Adds the names of a streamed message, each once.
WithNames(tools, name) ==
    IF name \in Elements(tools) \cup {"none"} THEN tools ELSE Append(tools, name)

MutObserveReplaces(s, m) ==
    [s EXCEPT !.ttft = TRUE, !.output = m.text,
              !.tokens = Latest(@, m.usage), !.tools = WithNames(@, m.tool)]

\* observe_chunk(): one message of a stream.
ObserveChunk(s, m) ==
    [s EXCEPT !.ttft = TRUE,
              !.output = @ \o m.text,
              !.tokens = Latest(@, m.usage),
              !.tools = WithNames(@, m.tool)]

\* set_response(): the whole answer, behind whatever was observed before.
SetResponse(s, m) ==
    [s EXCEPT !.output = @ \o m.text,
              !.tokens = Latest(@, m.usage),
              !.tools = IF m.tool = "none" THEN @ ELSE Append(@, m.tool)]

MutStatusOkOnTimeout(outcome) ==
    IF outcome \in {"cancelled", "error"} THEN outcome ELSE "ok"

\* inference() and tool_call(): the status after what came out of the body.
\* A GeneratorExit passes as if nothing had happened.
StatusOf(outcome) ==
    IF outcome \in {"cancelled", "timeout", "error"} THEN outcome ELSE "ok"

\* _finalize(): the reason when the caller has not set one.
FinishReason(s, status) ==
    IF s.tools # <<>> THEN "tool_calls"
    ELSE IF status \in {"cancelled", "error"} THEN status ELSE "stop"

\* _truncate()
Truncate(text) ==
    IF Len(text) <= PreviewMax THEN text
    ELSE Append(SubSeq(text, 1, PreviewMax), Ellipsis)

\* redact_text()
RedactText(text) ==
    [i \in DOMAIN text |-> IF text[i] \in Private THEN Hidden ELSE text[i]]

\* output_preview: the text is cut first and redacted then; of no text there is
\* none.
Preview(text) == IF text = <<>> THEN <<>> ELSE RedactText(Truncate(text))

\* The InferenceLog of a span.
InferenceLog(s, outcome) ==
    [status |-> StatusOf(outcome),
     finish |-> FinishReason(s, StatusOf(outcome)),
     output |-> Preview(s.output),
     tokens |-> s.tokens,
     calls |-> Len(s.tools),
     parent |-> NoParent]

\* The ToolExecutionLog of a tool's span.
ToolExecutionLog(parent, outcome) ==
    [status |-> StatusOf(outcome), finish |-> "stop", output |-> <<>>,
     tokens |-> 0, calls |-> 0, parent |-> parent]

\* transport.submit() at the end of the span `id`, n times.
SubmitReport(id, log, n) ==
    reports' = [reports EXCEPT ![id] =
        IF sdkClosed THEN @ ELSE @ \o [i \in 1 .. n |-> log]]

\* InferenceLogger.close().  The transport stays closed for good, also when it
\* is started again.
CloseLogger ==
    /\ ~sdkClosed
    /\ sdkClosed' = TRUE
    /\ UNCHANGED reports

SpanInit ==
    /\ integration \in Integrations
    /\ reports = [id \in SpanIds |-> <<>>]
    /\ sdkClosed = FALSE
=============================================================================
