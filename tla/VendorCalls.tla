---------------------------- MODULE VendorCalls ----------------------------
(***************************************************************************)
(* The instrumented vendor clients of the SDK                              *)
(* (chatbot_sdk/integrations/openai.py, anthropic.py, google.py and        *)
(* _instrument.py), with the code that calls them                          *)
(* (chat_service/llm/sdk_integrations.py) as the customer.                 *)
(*                                                                         *)
(* A call is one coroutine; it is suspended while the provider is asked    *)
(* for the answer or the next message, and a stream is suspended at its    *)
(* "yield" while the customer has the message.  What the provider answers  *)
(* and what the customer does with a stream is free.                       *)
(***************************************************************************)
EXTENDS InferenceSpan

CONSTANTS Calls,        (* calls of an instrumented method                 *)
          MaxMessages   (* bound of the model: messages of one stream      *)

ASSUME CallsAssumption == Calls \subseteq SpanIds /\ MaxMessages \in Nat \ {0}

VARIABLES
    layers,   (* how many wrappers are around the client's method          *)
    call      (* the calls                                                 *)

vendorVars == <<layers, call>>

Kinds == {"openai", "openai_stream", "anthropic", "anthropic_stream",
          "google", "google_stream"}

Streams == {"openai_stream", "anthropic_stream", "google_stream"}

\* What an answer or a message of a stream can hold; "args" is a part of the
\* arguments of a tool whose name came before.
Parts == {"text", "tool", "args", "usage"}

NoMessage == [text |-> <<>>, tool |-> "none", usage |-> 0]

\* The n-th message of a call, with these parts, as the span reads it; its text
\* is one piece.
OpenaiMessage(parts, n) ==
    [text |-> IF "text" \in parts THEN <<<<n>>>> ELSE <<>>,
     tool |-> IF "tool" \in parts THEN "t" ELSE "none",
     usage |-> IF "usage" \in parts THEN n ELSE 0]

\* Of anthropic's blocks, text and tool_use are read.
AnthropicMessage(parts, n) == OpenaiMessage(parts \ {"args"}, n)

\* google's tool calls are left out of an answer,
GoogleResponse(parts, n) == OpenaiMessage(parts \ {"tool", "args"}, n)

\* and of a message of a stream everything but its text.
GoogleChunk(parts, n) == OpenaiMessage(parts \cap {"text"}, n)

NoCall == [kind |-> "none", phase |-> "idle", layers |-> 0, open |-> FALSE,
           sent |-> FALSE, span |-> NewSpan, got |-> <<>>, n |-> 0, last |-> {},
           fate |-> "none", told |-> FALSE]

VendorInit ==
    /\ layers = 0
    /\ call = [c \in Calls |-> NoCall]

-----------------------------------------------------------------------------
(* Instrumenting *)

MutWrapped(n) == n + 1

\* wrap_method(): a method that carries the sentinel is left as it is.
Wrapped(n) == IF n > 0 THEN n ELSE n + 1

\* instrument(client, logger=...), which may be called again at any time.
Instrument ==
    /\ layers < 2
    /\ layers' = Wrapped(layers)
    /\ UNCHANGED <<call, reports, sdkClosed>>

-----------------------------------------------------------------------------
(* Calls *)

\* The span of call c ends: its context manager is left with `outcome`.
Exit(c, span, outcome) ==
    IF call[c].open
    THEN SubmitReport(c, InferenceLog(span, outcome), call[c].layers)
    ELSE UNCHANGED reports

\* The wrapper of create() or generate_content() enters its span and asks the
\* provider.  The stream wrapper of google is an async generator function: a
\* call of it runs nothing yet.
Called(k) ==
    IF k = "google_stream"
    THEN [NoCall EXCEPT !.kind = k, !.layers = layers, !.phase = "held"]
    ELSE [NoCall EXCEPT !.kind = k, !.layers = layers, !.phase = "request",
                        !.open = (layers > 0), !.sent = TRUE]

\* The customer calls.
Request(c, k) ==
    /\ call[c].phase = "idle"
    /\ call' = [call EXCEPT ![c] = Called(k)]
    /\ UNCHANGED <<layers, reports, sdkClosed>>

\* The answer of a plain call as its span reads it.
Answer(k, parts) ==
    CASE k = "openai"    -> OpenaiMessage(parts, 1)
      [] k = "anthropic" -> AnthropicMessage(parts, 1)
      [] k = "google"    -> GoogleResponse(parts, 1)

\* A plain call is answered.
Answered(c) ==
    /\ call[c].phase = "request"
    /\ call[c].kind \notin Streams
    /\ \E parts \in SUBSET (Parts \ {"args"}) :
         /\ Exit(c, SetResponse(call[c].span, Answer(call[c].kind, parts)), "none")
         /\ call' = [call EXCEPT ![c].phase = "over", ![c].open = FALSE, ![c].fate = "ok",
                                 ![c].got = OpenaiMessage(parts, 1).text]
    /\ UNCHANGED <<layers, sdkClosed>>

\* The answer is a stream.  The wrapper of openai hands out a proxy for it;
\* that of anthropic treats the stream as an answer, without anything it can
\* read, and hands out the stream itself.
StreamOpens(c) ==
    /\ call[c].phase = "request"
    /\ call[c].kind \in Streams
    /\ IF call[c].kind = "anthropic_stream"
       THEN /\ Exit(c, SetResponse(call[c].span, NoMessage), "none")
            /\ call' = [call EXCEPT ![c].phase = "held", ![c].open = FALSE]
       ELSE /\ call' = [call EXCEPT ![c].phase = "held"]
            /\ UNCHANGED reports
    /\ UNCHANGED <<layers, sdkClosed>>

\* The stream wrapper of google runs for the first time: it opens its span and
\* asks the provider.
Begun(x) ==
    [x EXCEPT !.phase = "pulling", !.open = (x.layers > 0), !.sent = TRUE]

\* The customer asks for the next message.
NextMessage(c) ==
    /\ call[c].phase \in {"held", "yielded"}
    /\ call' = [call EXCEPT ![c] = IF @.sent THEN [@ EXCEPT !.phase = "pulling"]
                                   ELSE Begun(@)]
    /\ UNCHANGED <<layers, reports, sdkClosed>>

\* A message of a stream as its span reads it.
Chunk(k, parts, n) ==
    IF k = "google_stream" THEN GoogleChunk(parts, n) ELSE OpenaiMessage(parts, n)

\* A message arrives; the proxy observes it and yields it.
Message(c) ==
    /\ call[c].phase = "pulling"
    /\ call[c].n < MaxMessages
    /\ \E part \in Parts :
         LET n == call[c].n + 1
             m == Chunk(call[c].kind, {part}, n)
         IN call' = [call EXCEPT
              ![c].phase = "yielded", ![c].n = n, ![c].last = {part},
              ![c].got = @ \o OpenaiMessage({part}, n).text,
              ![c].span = IF call[c].open THEN ObserveChunk(@, m) ELSE @]
    /\ UNCHANGED <<layers, reports, sdkClosed>>

\* The span when the stream is drained: google's wrapper takes the last
\* message as the answer, for its usage, and its text comes along.
Drained(c) ==
    IF call[c].kind = "google_stream" /\ call[c].n > 0
    THEN SetResponse(call[c].span, GoogleResponse(call[c].last, call[c].n))
    ELSE call[c].span

\* The stream is over.
Drains(c) ==
    /\ call[c].phase = "pulling"
    /\ Exit(c, Drained(c), "none")
    /\ call' = [call EXCEPT ![c].phase = "over", ![c].open = FALSE, ![c].fate = "ok"]
    /\ UNCHANGED <<layers, sdkClosed>>

\* The provider fails, or the customer's task is cancelled while it waits for
\* the provider.
Fails(c, e) ==
    /\ call[c].phase \in {"request", "pulling"}
    /\ Exit(c, call[c].span, e)
    /\ call' = [call EXCEPT ![c].phase = "over", ![c].open = FALSE, ![c].fate = e,
                            ![c].told = call[c].open]
    /\ UNCHANGED <<layers, sdkClosed>>

\* The customer does not go on with the stream: it leaves the loop, is
\* cancelled while it has a message, or never begins.
Leaves(c, why) ==
    /\ call[c].phase \in {"held", "yielded"}
    /\ call' = [call EXCEPT ![c].phase = IF call[c].open THEN "dropped" ELSE "over",
                            ![c].fate = why]
    /\ UNCHANGED <<layers, reports, sdkClosed>>

\* Nothing refers to the stream any more, and the loop closes the generators
\* nobody refers to: that of the proxy, or, if it was never begun, that of the
\* span's context manager.
Collected(c) ==
    /\ call[c].phase = "dropped"
    /\ Exit(c, call[c].span, "generator_exit")
    /\ call' = [call EXCEPT ![c].phase = "over", ![c].open = FALSE]
    /\ UNCHANGED <<layers, sdkClosed>>

VendorStep(c) ==
    \/ \E k \in Kinds : Request(c, k)
    \/ Answered(c)
    \/ StreamOpens(c)
    \/ NextMessage(c)
    \/ Message(c)
    \/ Drains(c)
    \/ \E e \in {"error", "timeout", "cancelled"} : Fails(c, e)
    \/ \E why \in {"abandoned", "cancelled"} : Leaves(c, why)
    \/ Collected(c)

VendorNext ==
    \/ Instrument
    \/ \E c \in Calls : VendorStep(c)
=============================================================================
