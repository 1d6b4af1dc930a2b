----------------------- MODULE InstrumentationProofs -----------------------
(***************************************************************************)
(* The safety of the instrumentation, for any calls, agents, threads,      *)
(* messages and loops.                                                     *)
(***************************************************************************)
EXTENDS Instrumentation, SequenceTheorems, TLAPS

-----------------------------------------------------------------------------
(* Spans and reports *)

SpanType(S) ==
    [output : Seq(S), tokens : Nat, tools : Seq({"t"}), ttft : BOOLEAN]

MessageType(S) == [text : Seq(S), tool : {"none", "t"}, usage : Nat]

LEMMA NewSpanType == \A S : NewSpan \in SpanType(S) /\ NewSpan.output = <<>>
    BY DEF NewSpan, SpanType

\* What is observed goes behind what was observed before.
LEMMA SpanGrows ==
    ASSUME NEW S, NEW s \in SpanType(S), NEW m \in MessageType(S)
    PROVE  /\ ObserveChunk(s, m) \in SpanType(S)
           /\ ObserveChunk(s, m).output = s.output \o m.text
           /\ SetResponse(s, m) \in SpanType(S)
           /\ SetResponse(s, m).output = s.output \o m.text
<1>1. s.output \o m.text \in Seq(S) /\ Latest(s.tokens, m.usage) \in Nat
    BY DEF SpanType, MessageType, Latest
<1>2. WithNames(s.tools, m.tool) \in Seq({"t"})
    BY DEF SpanType, MessageType, WithNames
<1>3. (IF m.tool = "none" THEN s.tools ELSE Append(s.tools, m.tool)) \in Seq({"t"})
    BY DEF SpanType, MessageType
<1> QED BY <1>1, <1>2, <1>3 DEF SpanType, MessageType, ObserveChunk, SetResponse

\* Nothing is said of spans outside S.
Spoke(S) ==
    /\ DOMAIN reports' = SpanIds
    /\ \A s \in SpanIds \ S : reports'[s] = reports[s]

\* A span that has said nothing says it once, if the transport takes it.
LEMMA Submits ==
    ASSUME DOMAIN reports = SpanIds, NEW id \in SpanIds, NEW log,
           reports[id] = <<>>, SubmitReport(id, log, 1)
    PROVE  /\ Spoke({id})
           /\ reports'[id] = IF sdkClosed THEN <<>> ELSE <<log>>
<1>1. <<>> \o [i \in 1 .. 1 |-> log] = <<log>>
    <2>1. <<>> \in Seq({log}) /\ <<log>> \in Seq({log})
        OBVIOUS
    <2>2. [i \in 1 .. 1 |-> log] = <<log>>
        OBVIOUS
    <2> QED BY <2>1, <2>2
<1> QED BY <1>1 DEF SubmitReport, Spoke

-----------------------------------------------------------------------------
(* The calls of a vendor's client *)

Phases == {"idle", "request", "held", "yielded", "pulling", "dropped", "over"}
Fates == {"none", "ok", "error", "timeout", "cancelled", "abandoned"}

\* A piece of a text.
Pieces == Seq(Nat)

CallType ==
    [kind : Kinds \cup {"none"}, phase : Phases, layers : 0 .. 1, open : BOOLEAN,
     sent : BOOLEAN, span : SpanType(Pieces), got : Seq(Pieces), n : Nat, last : SUBSET Parts,
     fate : Fates, told : BOOLEAN]

LEMMA PhasesAndFates ==
    /\ "idle" \in Phases /\ "request" \in Phases /\ "held" \in Phases
    /\ "yielded" \in Phases /\ "pulling" \in Phases /\ "dropped" \in Phases
    /\ "over" \in Phases
    /\ "none" \in Fates /\ "ok" \in Fates /\ "error" \in Fates /\ "timeout" \in Fates
    /\ "cancelled" \in Fates /\ "abandoned" \in Fates
    BY DEF Phases, Fates

\* Where a call is, and what its span has seen by then.
CallShape(x) ==
    /\ x.phase # "idle" => x.kind \in Kinds
    /\ x.phase \in {"held", "yielded", "pulling", "dropped"} => x.kind \in Streams
    /\ x.open <=> /\ x.layers = 1 /\ x.sent
                  /\ x.phase \notin {"idle", "over"}
                  /\ x.kind = "anthropic_stream" => x.phase = "request"
    /\ x.phase = "idle" => ~x.sent
    /\ x.phase # "idle" /\ ~x.sent => x.kind = "google_stream"
    /\ x.phase \in {"request", "yielded", "pulling"} => x.sent
    /\ x.phase = "dropped" => x.open
    /\ x.phase = "request" \/ ~x.sent => x.got = <<>> /\ x.n = 0
    /\ x.phase = "request" => x.span.output = <<>>
    /\ x.phase \notin {"dropped", "over"} => x.fate = "none"
    /\ x.phase = "dropped" => x.fate \in {"abandoned", "cancelled"}
    /\ x.told => x.phase = "over"
    /\ x.open => x.span.output = x.got
    /\ ~x.sent => x.span.output = <<>>
    /\ x.n = 0 => x.last = {}

CallStatus(x) ==
    IF x.fate \in {"error", "timeout", "cancelled"} /\ x.told THEN x.fate ELSE "ok"

CallOutput(x) ==
    CASE x.kind = "anthropic_stream" -> <<>>
      [] x.kind = "google_stream" /\ x.fate = "ok"
           -> x.got \o GoogleResponse(x.last, x.n).text
      [] OTHER -> x.got

\* What has been said of a call: nothing as long as its span is open, and then
\* what became of it.
CallReports(x, said) ==
    /\ x.open \/ ~x.sent \/ x.layers = 0 => said = <<>>
    /\ ~x.open /\ x.sent /\ x.layers > 0 => sdkClosed \/ Len(said) = 1
    /\ \/ said = <<>>
       \/ /\ Len(said) = 1
          /\ said[1].status = CallStatus(x)
          /\ said[1].output = Preview(CallOutput(x))

VendorInv ==
    /\ layers \in 0 .. 1
    /\ call \in [Calls -> CallType]
    /\ \A c \in Calls : CallShape(call[c]) /\ CallReports(call[c], reports[c])

\* One call moves on.
LEMMA CallMoves ==
    ASSUME VendorInv, NEW c \in Calls, NEW y \in CallType,
           call' = [call EXCEPT ![c] = y], UNCHANGED <<layers, sdkClosed>>,
           Spoke({c}), CallShape(y), CallReports(y, reports'[c])
    PROVE  VendorInv' /\ Spoke(Calls)
<1>1. Calls \subseteq SpanIds
    BY CallsAssumption
<1>2. call' \in [Calls -> CallType]
    BY DEF VendorInv
<1>3. ASSUME NEW d \in Calls PROVE (CallShape(call[d]) /\ CallReports(call[d], reports[d]))'
    <2>1. CASE d = c
        BY <2>1 DEF VendorInv, CallShape, CallReports, CallStatus, CallOutput
    <2>2. CASE d # c
        BY <1>1, <2>2 DEF VendorInv, CallShape, CallReports, CallStatus, CallOutput, Spoke
    <2> QED BY <2>1, <2>2
<1> QED BY <1>2, <1>3 DEF VendorInv, Spoke

\* What is said when a call leaves its span.
LEMMA Exits ==
    ASSUME VendorInv, DOMAIN reports = SpanIds, NEW c \in Calls, NEW span, NEW ended,
           Exit(c, span, ended)
    PROVE  /\ Spoke({c})
           /\ ~call[c].open => reports'[c] = reports[c]
           /\ call[c].open =>
                 \/ sdkClosed /\ reports'[c] = <<>>
                 \/ /\ Len(reports'[c]) = 1
                    /\ reports'[c][1].status = StatusOf(ended)
                    /\ reports'[c][1].output = Preview(span.output)
<1>1. c \in SpanIds
    BY CallsAssumption
<1>2. CASE call[c].open
    <2> DEFINE log == InferenceLog(span, ended)
    <2>1. reports[c] = <<>> /\ call[c].layers = 1
        BY <1>2 DEF VendorInv, CallShape, CallReports
    <2>2. SubmitReport(c, log, 1)
        BY <1>2, <2>1 DEF Exit
    <2>3. Spoke({c}) /\ reports'[c] = IF sdkClosed THEN <<>> ELSE <<log>>
        <3> HIDE DEF log
        <3> QED BY <1>1, <2>1, <2>2, Submits
    <2>4. Len(<<log>>) = 1 /\ <<log>>[1] = log
        OBVIOUS
    <2>5. log.status = StatusOf(ended) /\ log.output = Preview(span.output)
        BY DEF InferenceLog
    <2> HIDE DEF log
    <2> QED BY <1>2, <2>3, <2>4, <2>5
<1>3. CASE ~call[c].open
    BY <1>3 DEF Exit, Spoke
<1> QED BY <1>2, <1>3

\* The messages are messages.
LEMMA MessageTypes ==
    ASSUME NEW n \in Nat, NEW parts \in SUBSET Parts
    PROVE  /\ OpenaiMessage(parts, n) \in MessageType(Pieces)
           /\ AnthropicMessage(parts, n) \in MessageType(Pieces)
           /\ GoogleResponse(parts, n) \in MessageType(Pieces)
           /\ GoogleChunk(parts, n) \in MessageType(Pieces)
           /\ AnthropicMessage(parts, n).text = OpenaiMessage(parts, n).text
           /\ GoogleResponse(parts, n).text = OpenaiMessage(parts, n).text
           /\ GoogleChunk(parts, n).text = OpenaiMessage(parts, n).text
<1>1. \A ps : /\ (IF "text" \in ps THEN <<<<n>>>> ELSE <<>>) \in Seq(Pieces)
               /\ (IF "usage" \in ps THEN n ELSE 0) \in Nat
    <2>1. <<n>> \in Seq(Nat)
        OBVIOUS
    <2>2. \A x \in Seq(Nat) : <<x>> \in Seq(Seq(Nat))
        OBVIOUS
    <2> QED BY <2>1, <2>2 DEF Pieces
<1>2. \A ps : OpenaiMessage(ps, n) \in MessageType(Pieces)
    BY <1>1 DEF MessageType, OpenaiMessage
<1> QED BY <1>2 DEF OpenaiMessage, AnthropicMessage, GoogleResponse, GoogleChunk

LEMMA RequestInv ==
    ASSUME VendorInv, DOMAIN reports = SpanIds, NEW c \in Calls, NEW k \in Kinds,
           Request(c, k)
    PROVE  VendorInv' /\ Spoke(Calls)
<1> DEFINE y == Called(k)
<1>1. /\ call' = [call EXCEPT ![c] = y] /\ UNCHANGED <<layers, reports, sdkClosed>>
      /\ call[c].phase = "idle" /\ Spoke({c})
    BY DEF Request, Spoke
<1>4. NewSpan \in SpanType(Pieces) /\ NewSpan.output = <<>>
    BY NewSpanType
<1>3. NoCall \in CallType
    <2>1. /\ <<>> \in Seq(Pieces) /\ {} \in SUBSET Parts
          /\ 0 \in Nat /\ 0 \in 0 .. 1
        OBVIOUS
    <2> QED BY <1>4, <2>1, PhasesAndFates DEF NoCall, CallType
<1>5. layers \in 0 .. 1 /\ k \in Kinds \cup {"none"} /\ layers \in Nat
    BY DEF VendorInv
<1>6. reports[c] = <<>>
    BY <1>1 DEF VendorInv, CallShape, CallReports
<1>7. CASE k = "google_stream"
    <2>1. y = [NoCall EXCEPT !.kind = k, !.layers = layers, !.phase = "held"]
        BY <1>7 DEF Called
    <2> HIDE DEF y
    <2>5. y \in CallType
        BY <1>3, <1>5, <2>1, PhasesAndFates DEF CallType
    <2>2. /\ y.kind = k /\ y.phase = "held" /\ y.open = NoCall.open
          /\ y.layers = layers /\ y.span = NoCall.span /\ y.got = NoCall.got
          /\ y.n = NoCall.n /\ y.last = NoCall.last /\ y.fate = NoCall.fate
          /\ y.told = NoCall.told /\ y.sent = NoCall.sent
        BY <1>3, <1>5, <2>1, PhasesAndFates DEF CallType
    <2>3. CallShape(y)
        BY <1>4, <1>7, <2>2 DEF CallShape, Streams, NoCall
    <2>4. CallReports(y, reports'[c])
        BY <1>1, <1>6, <2>2 DEF CallReports, NoCall
    <2> QED BY <1>1, <2>3, <2>4, <2>5, CallMoves
<1>8. CASE k # "google_stream"
    <2>1. y = [NoCall EXCEPT !.kind = k, !.layers = layers, !.phase = "request",
                             !.open = (layers > 0), !.sent = TRUE]
        BY <1>8 DEF Called
    <2> HIDE DEF y
    <2>5. y \in CallType
        <3>1. (layers > 0) \in BOOLEAN
            OBVIOUS
        <3> QED BY <1>3, <1>4, <1>5, <2>1, <3>1, PhasesAndFates DEF CallType
    <2>2. /\ y.kind = k /\ y.phase = "request" /\ (y.open <=> layers > 0)
          /\ y.sent /\ y.layers = layers /\ y.span = NoCall.span
          /\ y.got = NoCall.got /\ y.n = NoCall.n /\ y.last = NoCall.last
          /\ y.fate = NoCall.fate /\ y.told = NoCall.told
        BY <1>3, <1>4, <1>5, <2>1, PhasesAndFates DEF CallType, VendorInv
    <2>3. CallShape(y)
        BY <1>4, <1>5, <1>8, <2>2 DEF CallShape, NoCall
    <2>4. CallReports(y, reports'[c])
        BY <1>1, <1>5, <1>6, <2>2 DEF CallReports
    <2> QED BY <1>1, <2>3, <2>4, <2>5, CallMoves
<1> QED BY <1>7, <1>8

\* What Exit has said of a call is what CallReports asks for.
LEMMA SaidOnExit ==
    ASSUME VendorInv, DOMAIN reports = SpanIds, NEW c \in Calls, NEW span, NEW ended,
           Exit(c, span, ended), NEW y \in CallType,
           ~y.open, y.layers = call[c].layers, y.sent = call[c].sent,
           call[c].open => /\ StatusOf(ended) = CallStatus(y)
                           /\ span.output = CallOutput(y),
           ~call[c].open /\ reports[c] # <<>> =>
               CallStatus(y) = CallStatus(call[c]) /\ CallOutput(y) = CallOutput(call[c])
    PROVE  CallReports(y, reports'[c])
<1>1. CASE call[c].open
    <2>1. y.sent /\ y.layers = 1
        BY <1>1 DEF VendorInv, CallShape
    <2>2. \/ sdkClosed /\ reports'[c] = <<>>
          \/ /\ Len(reports'[c]) = 1
             /\ reports'[c][1].status = CallStatus(y)
             /\ reports'[c][1].output = Preview(CallOutput(y))
        BY ZenonT(60), <1>1, <2>1, Exits
    <2>3. ~(y.open \/ ~y.sent \/ y.layers = 0)
        BY <2>1
    <2> QED BY <2>2, <2>3 DEF CallReports
<1>2. CASE ~call[c].open
    <2>1. reports'[c] = reports[c]
        BY <1>2, Exits
    <2> QED BY <1>2, <2>1 DEF VendorInv, CallReports
<1> QED BY <1>1, <1>2

LEMMA AnsweredInv ==
    ASSUME VendorInv, DOMAIN reports = SpanIds, NEW c \in Calls, Answered(c)
    PROVE  VendorInv' /\ Spoke(Calls)
<1>1. PICK x \in CallType : x = call[c] /\ CallShape(x)
    BY DEF VendorInv
<1>2. PICK parts \in SUBSET (Parts \ {"args"}) :
         /\ Exit(c, SetResponse(x.span, Answer(x.kind, parts)), "none")
         /\ call' = [call EXCEPT ![c].phase = "over", ![c].open = FALSE, ![c].fate = "ok",
                                 ![c].got = OpenaiMessage(parts, 1).text]
    BY <1>1 DEF Answered
<1> DEFINE m == Answer(x.kind, parts)
           text == OpenaiMessage(parts, 1).text
           y == [x EXCEPT !.phase = "over", !.open = FALSE, !.fate = "ok", !.got = text]
<1>3. x.phase = "request" /\ x.kind \notin Streams /\ UNCHANGED <<layers, sdkClosed>>
    BY <1>1 DEF Answered
<1>4. call' = [call EXCEPT ![c] = y] /\ Exit(c, SetResponse(x.span, m), "none")
    BY <1>1, <1>2
<1>5. parts \in SUBSET Parts /\ 1 \in Nat
    OBVIOUS
<1>6. m \in MessageType(Pieces) /\ m.text = text /\ text \in Seq(Pieces)
    <2>1. x.kind \in {"openai", "anthropic", "google"}
        BY <1>1, <1>3 DEF CallShape, Kinds, Streams
    <2> QED BY <1>5, <2>1, MessageTypes DEF Answer, MessageType
<1> HIDE DEF m, text
<1>7. /\ y \in CallType /\ y.phase = "over" /\ ~y.open /\ y.fate = "ok" /\ y.got = text
      /\ y.kind = x.kind /\ y.layers = x.layers /\ y.sent = x.sent /\ y.span = x.span
      /\ y.n = x.n /\ y.last = x.last /\ y.told = x.told
    BY <1>6, PhasesAndFates DEF CallType
<1> HIDE DEF y
<1>8. CallShape(y)
    BY <1>1, <1>3, <1>7 DEF CallShape
<1>9. SetResponse(x.span, m).output = text
    <2>1. x.span \in SpanType(Pieces) /\ x.span.output = <<>>
        BY <1>1, <1>3 DEF CallType, CallShape
    <2>2. <<>> \o text = text
        BY <1>6
    <2> QED BY ZenonT(60), <1>6, <2>1, <2>2, SpanGrows
<1>10. CallReports(y, reports'[c])
    <2>1. CallStatus(y) = "ok" /\ CallOutput(y) = text
        BY <1>3, <1>7 DEF CallStatus, CallOutput, Streams
    <2>2. ~x.open => reports[c] = <<>>
        BY <1>1, <1>3 DEF CallShape, VendorInv, CallReports, CallType, Streams
    <2> QED BY <1>1, <1>4, <1>7, <1>9, <2>1, <2>2, SaidOnExit DEF StatusOf
<1> QED BY <1>3, <1>4, <1>7, <1>8, <1>10, Exits, CallMoves

LEMMA StreamOpensInv ==
    ASSUME VendorInv, DOMAIN reports = SpanIds, NEW c \in Calls, StreamOpens(c)
    PROVE  VendorInv' /\ Spoke(Calls)
<1>1. PICK x \in CallType : x = call[c] /\ CallShape(x)
    BY DEF VendorInv
<1>2. /\ x.phase = "request" /\ x.kind \in Streams /\ UNCHANGED <<layers, sdkClosed>>
    BY <1>1 DEF StreamOpens
<1>3. CASE x.kind = "anthropic_stream"
    <2> DEFINE y == [x EXCEPT !.phase = "held", !.open = FALSE]
    <2>1. call' = [call EXCEPT ![c] = y] /\ Exit(c, SetResponse(x.span, NoMessage), "none")
        BY <1>1, <1>3 DEF StreamOpens
    <2>2. /\ y \in CallType /\ y.phase = "held" /\ ~y.open /\ y.fate = x.fate
          /\ y.got = x.got /\ y.kind = x.kind /\ y.layers = x.layers /\ y.sent = x.sent
          /\ y.span = x.span /\ y.n = x.n /\ y.last = x.last /\ y.told = x.told
        BY PhasesAndFates DEF CallType
    <2> HIDE DEF y
    <2>3. CallShape(y)
        BY <1>1, <1>2, <1>3, <2>2 DEF CallShape
    <2>4. NoMessage \in MessageType(Pieces) /\ NoMessage.text = <<>> /\ <<>> \o <<>> = <<>>
        BY DEF NoMessage, MessageType
    <2>5. SetResponse(x.span, NoMessage).output = <<>>
        <3>1. x.span \in SpanType(Pieces) /\ x.span.output = <<>>
            BY <1>1, <1>2 DEF CallType, CallShape
        <3>2. SetResponse(x.span, NoMessage).output = x.span.output \o NoMessage.text
            BY <2>4, <3>1, SpanGrows
        <3> QED BY <2>4, <3>1, <3>2
    <2>6. CallStatus(y) = "ok" /\ CallOutput(y) = <<>>
        BY <1>1, <1>2, <1>3, <2>2 DEF CallStatus, CallOutput, CallShape
    <2>7. CallStatus(x) = "ok" /\ CallOutput(x) = <<>>
        BY <1>1, <1>2, <1>3 DEF CallStatus, CallOutput, CallShape
    <2>8. CallReports(y, reports'[c])
        BY <1>1, <2>1, <2>2, <2>5, <2>6, <2>7, SaidOnExit DEF StatusOf
    <2> QED BY <1>2, <2>1, <2>2, <2>3, <2>8, Exits, CallMoves
<1>4. CASE x.kind # "anthropic_stream"
    <2> DEFINE y == [x EXCEPT !.phase = "held"]
    <2>1. call' = [call EXCEPT ![c] = y] /\ UNCHANGED reports /\ Spoke({c})
        BY <1>1, <1>4 DEF StreamOpens, Spoke
    <2>2. /\ y \in CallType /\ y.phase = "held" /\ y.open = x.open /\ y.fate = x.fate
          /\ y.got = x.got /\ y.kind = x.kind /\ y.layers = x.layers /\ y.sent = x.sent
          /\ y.span = x.span /\ y.n = x.n /\ y.last = x.last /\ y.told = x.told
        BY PhasesAndFates DEF CallType
    <2> HIDE DEF y
    <2>3. CallShape(y)
        BY <1>1, <1>2, <1>4, <2>2 DEF CallShape
    <2>4. CallReports(y, reports'[c])
        BY <1>1, <2>1, <2>2 DEF VendorInv, CallReports, CallStatus, CallOutput
    <2> QED BY <1>2, <2>1, <2>2, <2>3, <2>4, CallMoves
<1> QED BY <1>3, <1>4

LEMMA NextMessageInv ==
    ASSUME VendorInv, DOMAIN reports = SpanIds, NEW c \in Calls, NextMessage(c)
    PROVE  VendorInv' /\ Spoke(Calls)
<1>1. PICK x \in CallType : x = call[c] /\ CallShape(x) /\ CallReports(x, reports[c])
    BY DEF VendorInv
<1>2. /\ x.phase \in {"held", "yielded"} /\ Spoke({c})
      /\ UNCHANGED <<layers, reports, sdkClosed>>
    BY <1>1 DEF NextMessage, Spoke
<1>3. CASE x.sent
    <2> DEFINE y == [x EXCEPT !.phase = "pulling"]
    <2>1. call' = [call EXCEPT ![c] = y]
        BY <1>1, <1>3 DEF NextMessage
    <2>2. /\ y \in CallType /\ y.phase = "pulling" /\ y.open = x.open /\ y.fate = x.fate
          /\ y.got = x.got /\ y.kind = x.kind /\ y.layers = x.layers /\ y.sent = x.sent
          /\ y.span = x.span /\ y.n = x.n /\ y.last = x.last /\ y.told = x.told
        BY PhasesAndFates DEF CallType
    <2> HIDE DEF y
    <2>3. CallShape(y)
        BY <1>1, <1>2, <1>3, <2>2 DEF CallShape
    <2>4. CallReports(y, reports'[c])
        BY <1>1, <1>2, <1>3, <2>2 DEF CallReports, CallStatus, CallOutput
    <2> QED BY <1>2, <2>1, <2>2, <2>3, <2>4, CallMoves
<1>4. CASE ~x.sent
    <2> DEFINE y == Begun(x)
    <2>1. call' = [call EXCEPT ![c] = y]
        BY <1>1, <1>4 DEF NextMessage
    <2>2. (x.layers > 0) \in BOOLEAN /\ x.layers \in 0 .. 1
        BY DEF CallType
    <2>3. y \in CallType
        BY <2>2, PhasesAndFates DEF CallType, Begun
    <2>4. /\ y.phase = "pulling" /\ (y.open <=> x.layers > 0) /\ y.fate = x.fate
          /\ y.got = x.got /\ y.kind = x.kind /\ y.layers = x.layers /\ y.sent
          /\ y.span = x.span /\ y.n = x.n /\ y.last = x.last /\ y.told = x.told
        BY DEF CallType, Begun
    <2> HIDE DEF y
    <2>5. CallShape(y)
        BY <1>1, <1>2, <1>4, <2>2, <2>4 DEF CallShape, Streams
    <2>6. CallReports(y, reports'[c])
        BY <1>1, <1>2, <1>4, <2>2, <2>4 DEF CallReports
    <2> QED BY <1>2, <2>1, <2>3, <2>5, <2>6, CallMoves
<1> QED BY <1>3, <1>4

LEMMA MessageInv ==
    ASSUME VendorInv, DOMAIN reports = SpanIds, NEW c \in Calls, Message(c)
    PROVE  VendorInv' /\ Spoke(Calls)
<1>1. PICK x \in CallType : x = call[c] /\ CallShape(x) /\ CallReports(x, reports[c])
    BY DEF VendorInv
<1>2. /\ x.phase = "pulling" /\ Spoke({c})
      /\ UNCHANGED <<layers, reports, sdkClosed>>
    BY <1>1 DEF Message, Spoke
<1>3. PICK part \in Parts :
         call' = [call EXCEPT
              ![c].phase = "yielded", ![c].n = x.n + 1, ![c].last = {part},
              ![c].got = @ \o OpenaiMessage({part}, x.n + 1).text,
              ![c].span = IF x.open THEN ObserveChunk(@, Chunk(x.kind, {part}, x.n + 1))
                          ELSE @]
    BY <1>1 DEF Message
<1> DEFINE m == Chunk(x.kind, {part}, x.n + 1)
           text == OpenaiMessage({part}, x.n + 1).text
           span == IF x.open THEN ObserveChunk(x.span, m) ELSE x.span
           got == x.got \o text
           y == [x EXCEPT !.phase = "yielded", !.n = x.n + 1, !.last = {part},
                          !.got = got, !.span = span]
<1>4. call' = [call EXCEPT ![c] = y]
    BY <1>1, <1>3
<1>5. /\ x.n \in Nat /\ x.n + 1 \in Nat /\ x.n + 1 # 0 /\ {part} \in SUBSET Parts
      /\ x.span \in SpanType(Pieces) /\ x.got \in Seq(Pieces)
    BY DEF CallType
<1>6. m \in MessageType(Pieces) /\ m.text = text /\ text \in Seq(Pieces)
    BY <1>5, MessageTypes DEF Chunk, MessageType
<1> HIDE DEF m, text
<1>7. /\ ObserveChunk(x.span, m) \in SpanType(Pieces)
      /\ ObserveChunk(x.span, m).output = x.span.output \o text
    BY <1>5, <1>6, SpanGrows
<1>8. /\ span \in SpanType(Pieces) /\ got \in Seq(Pieces)
      /\ x.open => span.output = got
    <2>1. got \in Seq(Pieces)
        BY <1>5, <1>6
    <2>2. CASE x.open
        BY <1>1, <1>7, <2>1, <2>2 DEF CallShape
    <2>3. CASE ~x.open
        BY <1>5, <2>1, <2>3
    <2> QED BY <2>2, <2>3
<1> HIDE DEF span, got
<1>9. /\ y \in CallType /\ y.phase = "yielded" /\ y.open = x.open /\ y.fate = x.fate
      /\ y.got = got /\ y.kind = x.kind /\ y.layers = x.layers /\ y.sent = x.sent
      /\ y.span = span /\ y.n = x.n + 1 /\ y.last = {part} /\ y.told = x.told
    BY <1>5, <1>8, PhasesAndFates DEF CallType
<1> HIDE DEF y
<1>10. CallShape(y)
    BY <1>1, <1>2, <1>5, <1>8, <1>9 DEF CallShape
<1>11. CallReports(y, reports'[c])
    <2>1. CallStatus(y) = CallStatus(x)
        BY <1>9 DEF CallStatus
    <2>2. reports[c] # <<>> => x.kind = "anthropic_stream" /\ x.layers > 0
        <3>1. ~x.open /\ x.layers > 0 => x.kind = "anthropic_stream"
            BY <1>1, <1>2 DEF CallShape, CallType
        <3>2. x.layers \in 0 .. 1
            BY DEF CallType
        <3> QED BY <1>1, <3>1, <3>2 DEF CallReports
    <2>3. reports[c] # <<>> => CallOutput(y) = CallOutput(x)
        BY <1>9, <2>2 DEF CallOutput
    <2> QED BY <1>1, <1>2, <1>9, <2>1, <2>3 DEF CallReports
<1> QED BY <1>2, <1>4, <1>9, <1>10, <1>11, CallMoves

LEMMA DrainsInv ==
    ASSUME VendorInv, DOMAIN reports = SpanIds, NEW c \in Calls, Drains(c)
    PROVE  VendorInv' /\ Spoke(Calls)
<1>1. PICK x \in CallType : x = call[c] /\ CallShape(x) /\ CallReports(x, reports[c])
    BY DEF VendorInv
<1> DEFINE y == [x EXCEPT !.phase = "over", !.open = FALSE, !.fate = "ok"]
<1>2. /\ x.phase = "pulling" /\ UNCHANGED <<layers, sdkClosed>>
      /\ call' = [call EXCEPT ![c] = y] /\ Exit(c, Drained(c), "none")
    BY <1>1 DEF Drains
<1>3. /\ y \in CallType /\ y.phase = "over" /\ ~y.open /\ y.fate = "ok"
      /\ y.got = x.got /\ y.kind = x.kind /\ y.layers = x.layers /\ y.sent = x.sent
      /\ y.span = x.span /\ y.n = x.n /\ y.last = x.last /\ y.told = x.told
    BY PhasesAndFates DEF CallType
<1> HIDE DEF y
<1>4. CallShape(y)
    BY <1>1, <1>2, <1>3 DEF CallShape
<1>5. x.open => Drained(c).output = CallOutput(y)
    <2> DEFINE m == GoogleResponse(x.last, x.n)
    <2>1. x.span \in SpanType(Pieces) /\ x.n \in Nat /\ x.last \in SUBSET Parts /\ x.got \in Seq(Pieces)
        BY DEF CallType
    <2>2. m \in MessageType(Pieces) /\ (x.n = 0 => m.text = <<>>)
        BY <1>1, <2>1, MessageTypes DEF CallShape, GoogleResponse, OpenaiMessage
    <2> HIDE DEF m
    <2>3. SetResponse(x.span, m).output = x.span.output \o m.text
        BY <2>1, <2>2, SpanGrows
    <2>4. CASE x.kind = "google_stream"
        <3>1. CallOutput(y) = x.got \o m.text
            BY <1>3, <2>4 DEF CallOutput, m
        <3>2. CASE x.n > 0
            <4>1. Drained(c) = SetResponse(x.span, m)
                BY <1>1, <2>4, <3>2 DEF Drained, m
            <4> QED BY <1>1, <2>3, <3>1, <4>1 DEF CallShape
        <3>3. CASE x.n = 0
            <4>1. Drained(c) = x.span
                BY <1>1, <3>3 DEF Drained
            <4>2. x.got \o m.text = x.got
                BY <2>1, <2>2, <3>3, ConcatEmptySeq
            <4> QED BY <1>1, <3>1, <4>1, <4>2 DEF CallShape
        <3> QED BY <2>1, <3>2, <3>3
    <2>5. CASE x.kind # "google_stream"
        <3>1. Drained(c) = x.span
            BY <1>1, <2>5 DEF Drained
        <3>2. x.open => CallOutput(y) = x.got
            BY <1>1, <1>2, <1>3, <2>5 DEF CallOutput, CallShape
        <3> QED BY <1>1, <3>1, <3>2 DEF CallShape
    <2> QED BY <2>4, <2>5
<1>6. CallStatus(y) = "ok"
    BY <1>3 DEF CallStatus
<1>7. ~x.open /\ reports[c] # <<>> =>
          CallStatus(y) = CallStatus(x) /\ CallOutput(y) = CallOutput(x)
    <2> SUFFICES ASSUME ~x.open, reports[c] # <<>>
                 PROVE  CallStatus(x) = "ok" /\ CallOutput(y) = CallOutput(x)
        BY <1>6
    <2>1. x.layers = 1 /\ x.sent
        BY <1>1 DEF CallReports, CallType
    <2>2. x.kind = "anthropic_stream" /\ ~x.told
        BY <1>1, <1>2, <2>1 DEF CallShape
    <2> QED BY <1>3, <2>2 DEF CallStatus, CallOutput
<1>8. CallReports(y, reports'[c])
    <2>1. StatusOf("none") = "ok"
        BY DEF StatusOf
    <2> QED BY <1>1, <1>2, <1>3, <1>5, <1>6, <1>7, <2>1, SaidOnExit
<1> QED BY <1>2, <1>3, <1>4, <1>8, Exits, CallMoves

LEMMA FailsInv ==
    ASSUME VendorInv, DOMAIN reports = SpanIds, NEW c \in Calls,
           NEW e \in {"error", "timeout", "cancelled"}, Fails(c, e)
    PROVE  VendorInv' /\ Spoke(Calls)
<1>1. PICK x \in CallType : x = call[c] /\ CallShape(x) /\ CallReports(x, reports[c])
    BY DEF VendorInv
<1> DEFINE y == [x EXCEPT !.phase = "over", !.open = FALSE, !.fate = e, !.told = x.open]
<1>2. /\ x.phase \in {"request", "pulling"} /\ UNCHANGED <<layers, sdkClosed>>
      /\ call' = [call EXCEPT ![c] = y] /\ Exit(c, x.span, e)
    BY <1>1 DEF Fails
<1>3. /\ y \in CallType /\ y.phase = "over" /\ ~y.open /\ y.fate = e
      /\ y.got = x.got /\ y.kind = x.kind /\ y.layers = x.layers /\ y.sent = x.sent
      /\ y.span = x.span /\ y.n = x.n /\ y.last = x.last /\ y.told = x.open
    BY PhasesAndFates DEF CallType
<1> HIDE DEF y
<1>4. CallShape(y)
    BY <1>1, <1>2, <1>3 DEF CallShape
<1>5. x.open => StatusOf(e) = CallStatus(y) /\ x.span.output = CallOutput(y)
    <2>1. x.open => (x.kind = "anthropic_stream" => x.got = <<>>) /\ x.span.output = x.got
        BY <1>1 DEF CallShape
    <2> QED BY <1>3, <2>1 DEF StatusOf, CallStatus, CallOutput
<1>6. ~x.open /\ reports[c] # <<>> =>
          CallStatus(y) = CallStatus(x) /\ CallOutput(y) = CallOutput(x)
    <2> SUFFICES ASSUME ~x.open, reports[c] # <<>>
                 PROVE  CallStatus(y) = CallStatus(x) /\ CallOutput(y) = CallOutput(x)
        OBVIOUS
    <2>1. x.layers = 1 /\ x.sent
        BY <1>1 DEF CallReports, CallType
    <2>2. x.kind = "anthropic_stream" /\ ~x.told
        BY <1>1, <1>2, <2>1 DEF CallShape
    <2> QED BY <1>3, <2>2 DEF CallStatus, CallOutput
<1>7. CallReports(y, reports'[c])
    BY <1>1, <1>2, <1>3, <1>5, <1>6, SaidOnExit
<1> QED BY <1>2, <1>3, <1>4, <1>7, Exits, CallMoves

LEMMA LeavesInv ==
    ASSUME VendorInv, DOMAIN reports = SpanIds, NEW c \in Calls,
           NEW why \in {"abandoned", "cancelled"}, Leaves(c, why)
    PROVE  VendorInv' /\ Spoke(Calls)
<1>1. PICK x \in CallType : x = call[c] /\ CallShape(x) /\ CallReports(x, reports[c])
    BY DEF VendorInv
<1> DEFINE phase == IF x.open THEN "dropped" ELSE "over"
           y == [x EXCEPT !.phase = phase, !.fate = why]
<1>2. /\ x.phase \in {"held", "yielded"} /\ Spoke({c})
      /\ UNCHANGED <<layers, reports, sdkClosed>>
      /\ call' = [call EXCEPT ![c] = y]
    BY <1>1 DEF Leaves, Spoke
<1>3. /\ y \in CallType /\ y.phase = phase /\ y.open = x.open /\ y.fate = why
      /\ y.got = x.got /\ y.kind = x.kind /\ y.layers = x.layers /\ y.sent = x.sent
      /\ y.span = x.span /\ y.n = x.n /\ y.last = x.last /\ y.told = x.told
    BY PhasesAndFates DEF CallType
<1> HIDE DEF y
<1>4. CallShape(y)
    BY <1>1, <1>2, <1>3 DEF CallShape
<1>5. CallStatus(y) = CallStatus(x) /\ CallOutput(y) = CallOutput(x)
    BY <1>1, <1>2, <1>3 DEF CallShape, CallStatus, CallOutput
<1>6. CallReports(y, reports'[c])
    BY <1>1, <1>2, <1>3, <1>5 DEF CallReports
<1> QED BY <1>2, <1>3, <1>4, <1>6, CallMoves

LEMMA CollectedInv ==
    ASSUME VendorInv, DOMAIN reports = SpanIds, NEW c \in Calls, Collected(c)
    PROVE  VendorInv' /\ Spoke(Calls)
<1>1. PICK x \in CallType : x = call[c] /\ CallShape(x) /\ CallReports(x, reports[c])
    BY DEF VendorInv
<1> DEFINE y == [x EXCEPT !.phase = "over", !.open = FALSE]
<1>2. /\ x.phase = "dropped" /\ UNCHANGED <<layers, sdkClosed>>
      /\ call' = [call EXCEPT ![c] = y] /\ Exit(c, x.span, "generator_exit")
    BY <1>1 DEF Collected
<1>3. /\ y \in CallType /\ y.phase = "over" /\ ~y.open /\ y.fate = x.fate
      /\ y.got = x.got /\ y.kind = x.kind /\ y.layers = x.layers /\ y.sent = x.sent
      /\ y.span = x.span /\ y.n = x.n /\ y.last = x.last /\ y.told = x.told
    BY PhasesAndFates DEF CallType
<1> HIDE DEF y
<1>4. CallShape(y)
    BY <1>1, <1>2, <1>3 DEF CallShape
<1>5. /\ x.open /\ x.span.output = x.got /\ x.kind # "anthropic_stream" /\ ~x.told
      /\ x.fate # "ok"
    BY <1>1, <1>2 DEF CallShape
<1>6. StatusOf("generator_exit") = CallStatus(y) /\ x.span.output = CallOutput(y)
    BY <1>3, <1>5 DEF StatusOf, CallStatus, CallOutput
<1>7. CallReports(y, reports'[c])
    BY <1>1, <1>2, <1>3, <1>5, <1>6, SaidOnExit
<1> QED BY <1>2, <1>3, <1>4, <1>7, Exits, CallMoves

\* Whatever the customer, the provider or the loop does.
LEMMA VendorNextInv ==
    ASSUME VendorInv, DOMAIN reports = SpanIds, VendorNext
    PROVE  VendorInv' /\ Spoke(Calls) /\ UNCHANGED sdkClosed
<1>1. CASE Instrument
    BY <1>1 DEF Instrument, Wrapped, VendorInv, CallReports, Spoke
<1>2. ASSUME NEW c \in Calls, VendorStep(c)
      PROVE  VendorInv' /\ Spoke(Calls) /\ UNCHANGED sdkClosed
    <2>1. UNCHANGED sdkClosed
        BY <1>2 DEF VendorStep, Request, Answered, StreamOpens, NextMessage, Message, Drains,
                    Fails, Leaves, Collected
    <2> QED BY <1>2, <2>1, RequestInv, AnsweredInv, StreamOpensInv, NextMessageInv,
               MessageInv, DrainsInv, FailsInv, LeavesInv, CollectedInv DEF VendorStep
<1> QED BY <1>1, <1>2 DEF VendorNext

-----------------------------------------------------------------------------
(* The runs of agents *)

RunType ==
    [phase : {"none", "running", "over"}, got : Seq(Runs), asks : SUBSET AllToolRuns,
     fate : {"none", "ok"} \cup Exceptions, told : BOOLEAN, span : SpanType(Runs),
     parent : Runs \cup {NoParent}, before : SUBSET LlmRuns]

LEMMA RunFacts ==
    /\ LlmRuns \subseteq Runs /\ AllToolRuns \subseteq Runs /\ LlmRuns \cap AllToolRuns = {}
    /\ Runs = LlmRuns \cup AllToolRuns /\ Runs \subseteq SpanIds
    /\ \A r \in Runs : r[1] \in Requests /\ r[2] \in 1 .. MaxRounds /\ Handler(r) \in Handlers
    /\ \A r \in LlmRuns : r = LlmRun(r[1], r[2])
    /\ \A t \in AllToolRuns : t \in ToolRuns(t[1], t[2])
    /\ \A q \in Requests, n \in 1 .. MaxRounds :
          /\ LlmRun(q, n) \in LlmRuns /\ LlmRun(q, n)[1] = q /\ LlmRun(q, n)[2] = n
          /\ ToolRuns(q, n) \subseteq AllToolRuns
<1>1. \A r \in LlmRuns : \E q \in Requests, n \in 1 .. MaxRounds : r = <<q, n, 0>>
    BY DEF LlmRuns, LlmRun
<1>2. \A t \in AllToolRuns : \E q \in Requests, n \in 1 .. MaxRounds, k \in 1 .. MaxTools :
          t = <<q, n, k>>
    BY DEF AllToolRuns, ToolRuns
<1>3. MaxTools \in Nat /\ HandlerOf \in [Requests -> Handlers]
    BY CallbacksAssumption
<1>4. \A r \in Runs : r[1] \in Requests /\ r[2] \in 1 .. MaxRounds
    BY <1>1, <1>2 DEF Runs
<1>5. LlmRuns \cap AllToolRuns = {}
    <2> SUFFICES ASSUME NEW r \in LlmRuns, r \in AllToolRuns PROVE FALSE
        OBVIOUS
    <2>1. r[3] = 0
        BY <1>1
    <2>2. r[3] \in 1 .. MaxTools
        BY <1>2
    <2> QED BY <1>3, <2>1, <2>2
<1>6. Runs \subseteq SpanIds
    BY CallbacksAssumption DEF Runs
<1>7. \A r \in LlmRuns : r = LlmRun(r[1], r[2])
    BY <1>1 DEF LlmRun
<1>8. \A t \in AllToolRuns : t \in ToolRuns(t[1], t[2])
    BY <1>2 DEF ToolRuns
<1>9. \A q \in Requests, n \in 1 .. MaxRounds :
          /\ LlmRun(q, n) \in LlmRuns /\ LlmRun(q, n)[1] = q /\ LlmRun(q, n)[2] = n
          /\ ToolRuns(q, n) \subseteq AllToolRuns
    BY DEF LlmRuns, LlmRun, AllToolRuns
<1> QED BY <1>3, <1>4, <1>5, <1>6, <1>7, <1>8, <1>9 DEF Runs, Handler

\* Where the run r is: x is what is kept of it, H are the spans that are held.
RunShape(r, x, H) ==
    /\ x.phase = "none" => r \notin H
    /\ x.phase = "running" => r \in H
    /\ x.phase = "over" => x.fate # "none"
    /\ x.phase # "over" => x.fate = "none" /\ x.asks = {} /\ x.span.output = x.got
    /\ x.phase # "over" /\ integration # "langchain" => x.got = <<>>
    /\ x.got = <<>> \/ x.got = <<r>>
    /\ x.asks # {} => x.fate = "ok" /\ r \in LlmRuns /\ x.asks \subseteq ToolRuns(r[1], r[2])
    /\ x.phase # "over" => ~x.told
    /\ x.phase = "over" /\ r \in H
          => x.fate = "cancelled" /\ ~x.told /\ x.span.output = x.got

RunStatus(x) == IF integration = "langchain" /\ x.told THEN x.fate ELSE "ok"

RunOutputs(x) ==
    CASE integration = "langchain" -> {Preview(x.got), Preview(x.got \o x.got)}
      [] integration = "llamaindex_sync" -> {<<>>}
      [] OTHER -> {Preview(x.got)}

\* What has been said of a run: nothing as long as its span is held, but
\* everything from the start if there is no loop that could hold it.
RunReports(r, x, H, said) ==
    /\ x.phase = "none" => said = <<>>
    /\ integration # "llamaindex_sync" /\ r \in H => said = <<>>
    /\ x.phase # "none" /\ (integration = "llamaindex_sync" \/ r \notin H)
          => sdkClosed \/ Len(said) = 1
    /\ \/ said = <<>>
       \/ /\ Len(said) = 1
          /\ said[1].status = RunStatus(x)
          /\ r \in LlmRuns => said[1].output \in RunOutputs(x)
          /\ r \in AllToolRuns => said[1].parent = x.parent

\* How a tool has ended whose results go into the next round.
GoneOn == {"ok", "error", "timeout"}

\* The rounds of a request follow each other.
RoundInv ==
    \A q \in Requests, n \in 1 .. MaxRounds :
        /\ n > round[q] => run[LlmRun(q, n)].phase = "none"
        /\ n < round[q] => /\ run[LlmRun(q, n)].fate = "ok"
                           /\ \A t \in run[LlmRun(q, n)].asks : run[t].fate \in GoneOn

CallbackInv ==
    /\ lastInference \in [Handlers -> Runs \cup {NoParent}]
    /\ round \in [Requests -> 0 .. MaxRounds]
    /\ run \in [Runs -> RunType]
    /\ held \subseteq Runs
    /\ \A r \in Runs : /\ RunShape(r, run[r], held)
                       /\ RunReports(r, run[r], held, reports[r])
    /\ RoundInv

\* One run moves on.
LEMMA RunMoves ==
    ASSUME CallbackInv, NEW r \in Runs, NEW y \in RunType,
           run' = [run EXCEPT ![r] = y],
           held' \subseteq Runs, \A s \in Runs \ {r} : s \in held' <=> s \in held,
           UNCHANGED <<integration, sdkClosed>>,
           Spoke({r}), RunShape(r, y, held'), RunReports(r, y, held', reports'[r])
    PROVE  /\ (\A s \in Runs : /\ RunShape(s, run[s], held)
                               /\ RunReports(s, run[s], held, reports[s]))'
           /\ run' \in [Runs -> RunType]
           /\ run'[r] = y /\ \A s \in Runs \ {r} : run'[s] = run[s]
           /\ Spoke(Runs)
<1>1. /\ run' \in [Runs -> RunType] /\ run'[r] = y
      /\ \A s \in Runs \ {r} : run'[s] = run[s]
    BY DEF CallbackInv
<1>2. ASSUME NEW s \in Runs
      PROVE  (RunShape(s, run[s], held) /\ RunReports(s, run[s], held, reports[s]))'
    <2>1. CASE s = r
        BY <1>1, <2>1 DEF RunShape, RunReports, RunStatus, RunOutputs
    <2>2. CASE s # r
        <3>1. reports'[s] = reports[s] /\ run'[s] = run[s] /\ (s \in held' <=> s \in held)
            BY <1>1, <2>2, RunFacts DEF Spoke
        <3>2. RunShape(s, run[s], held) /\ RunReports(s, run[s], held, reports[s])
            BY DEF CallbackInv
        <3> QED BY <3>1, <3>2 DEF RunShape, RunReports, RunStatus, RunOutputs
    <2> QED BY <2>1, <2>2
<1> QED BY <1>1, <1>2, RunFacts DEF Spoke

\* A span is opened: it is reported if there is no loop.
LEMMA Opens ==
    ASSUME DOMAIN reports = SpanIds, NEW r \in Runs, NEW log, reports[r] = <<>>,
           OpenSpan(r, log)
    PROVE  /\ Spoke({r})
           /\ \/ /\ integration # "llamaindex_sync" \/ sdkClosed
                 /\ reports'[r] = <<>>
              \/ /\ integration = "llamaindex_sync"
                 /\ Len(reports'[r]) = 1 /\ reports'[r][1] = log
<1>1. r \in SpanIds /\ Len(<<log>>) = 1 /\ <<log>>[1] = log
    BY RunFacts
<1>2. CASE integration = "llamaindex_sync"
    BY <1>1, <1>2, Submits DEF OpenSpan
<1>3. CASE integration # "llamaindex_sync"
    BY <1>3 DEF OpenSpan, Spoke
<1> QED BY <1>2, <1>3

\* A span that is held is left.
LEMMA Closes ==
    ASSUME CallbackInv, DOMAIN reports = SpanIds, NEW r \in Runs, NEW log, r \in held,
           CloseSpan(r, log)
    PROVE  /\ Spoke({r})
           /\ held' \subseteq Runs /\ r \notin held'
           /\ \A s \in Runs \ {r} : s \in held' <=> s \in held
           /\ integration = "llamaindex_sync" => reports'[r] = reports[r]
           /\ integration # "llamaindex_sync" =>
                 \/ sdkClosed /\ reports'[r] = <<>>
                 \/ Len(reports'[r]) = 1 /\ reports'[r][1] = log
<1>1. r \in SpanIds /\ Len(<<log>>) = 1 /\ <<log>>[1] = log
    BY RunFacts
<1>2. CASE integration = "llamaindex_sync"
    BY <1>2 DEF CloseSpan, Spoke, CallbackInv
<1>3. CASE integration # "llamaindex_sync"
    <2>1. reports[r] = <<>>
        BY <1>3 DEF CallbackInv, RunReports
    <2>2. SubmitReport(r, log, 1)
        BY <1>3 DEF CloseSpan
    <2>3. Spoke({r}) /\ reports'[r] = IF sdkClosed THEN <<>> ELSE <<log>>
        BY <1>1, <2>1, <2>2, Submits
    <2> QED BY <1>1, <1>3, <2>3 DEF CloseSpan, CallbackInv
<1> QED BY <1>2, <1>3

\* A run that is not over moves on: the earlier rounds stay as they were.
LEMMA RoundKept ==
    ASSUME CallbackInv, NEW r \in Runs, run[r].phase # "over",
           r \in LlmRuns => run[r].phase = "running",
           \A s \in Runs \ {r} : run'[s] = run[s], UNCHANGED round
    PROVE  RoundInv'
<1>1. run[r].fate = "none"
    BY DEF CallbackInv, RunShape
<1>2. ASSUME NEW q \in Requests, NEW n \in 1 .. MaxRounds, n > round[q]
      PROVE  run'[LlmRun(q, n)].phase = "none"
    <2>1. run[LlmRun(q, n)].phase = "none" /\ LlmRun(q, n) \in LlmRuns
        BY <1>2, RunFacts DEF CallbackInv, RoundInv
    <2>2. LlmRun(q, n) # r
        BY <2>1
    <2> QED BY <2>1, <2>2, RunFacts
<1>3. ASSUME NEW q \in Requests, NEW n \in 1 .. MaxRounds, n < round[q]
      PROVE  /\ run'[LlmRun(q, n)].fate = "ok"
             /\ \A t \in run'[LlmRun(q, n)].asks : run'[t].fate \in GoneOn
    <2>1. /\ run[LlmRun(q, n)].fate = "ok" /\ LlmRun(q, n) \in Runs
          /\ \A t \in run[LlmRun(q, n)].asks : run[t].fate \in GoneOn
        BY <1>3, RunFacts DEF CallbackInv, RoundInv
    <2>2. run[LlmRun(q, n)].asks \subseteq Runs
        BY <2>1, RunFacts DEF CallbackInv, RunType
    <2>3. run'[LlmRun(q, n)] = run[LlmRun(q, n)]
        BY <1>1, <2>1
    <2>4. \A t \in run[LlmRun(q, n)].asks : run'[t] = run[t]
        BY <1>1, <2>1, <2>2 DEF GoneOn
    <2> QED BY <2>1, <2>3, <2>4
<1> QED BY <1>2, <1>3 DEF RoundInv

LEMMA LlmStartInv ==
    ASSUME CallbackInv, DOMAIN reports = SpanIds, UNCHANGED integration,
           NEW q \in Requests, LlmStart(q)
    PROVE  CallbackInv' /\ Spoke(Runs) /\ UNCHANGED sdkClosed
<1> DEFINE n == round[q] + 1
           r == LlmRun(q, n)
           log == InferenceLog(NewSpan, "generator_exit")
           y == [run[r] EXCEPT !.phase = "running"]
<1>1. /\ round[q] < MaxRounds /\ MayGoOn(q) /\ run' = [run EXCEPT ![r].phase = "running"]
      /\ held' = held \cup {r} /\ OpenSpan(r, log) /\ round' = [round EXCEPT ![q] = @ + 1]
      /\ UNCHANGED <<lastInference, sdkClosed>>
    BY DEF LlmStart
<1>2. /\ round \in [Requests -> 0 .. MaxRounds] /\ n \in 1 .. MaxRounds /\ n > round[q]
      /\ round' \in [Requests -> 0 .. MaxRounds] /\ round'[q] = n
      /\ \A p \in Requests \ {q} : round'[p] = round[p]
    BY <1>1, CallbacksAssumption DEF CallbackInv
<1>3. r \in LlmRuns /\ r \in Runs /\ r \notin AllToolRuns
    BY <1>2, RunFacts
<1>4. /\ run[r].phase = "none" /\ run[r] \in RunType /\ RunShape(r, run[r], held)
      /\ reports[r] = <<>>
    BY <1>2, <1>3 DEF CallbackInv, RoundInv, RunReports
<1>5. /\ log.status = "ok" /\ log.output = <<>>
    BY NewSpanType DEF InferenceLog, StatusOf, Preview
<1>6. /\ Spoke({r})
      /\ \/ (integration # "llamaindex_sync" \/ sdkClosed) /\ reports'[r] = <<>>
         \/ integration = "llamaindex_sync" /\ Len(reports'[r]) = 1 /\ reports'[r][1] = log
    <2> HIDE DEF r, log
    <2> QED BY <1>1, <1>3, <1>4, Opens
<1>7. /\ y \in RunType /\ y.phase = "running" /\ y.fate = run[r].fate /\ y.got = run[r].got
      /\ y.asks = run[r].asks /\ y.span = run[r].span /\ y.parent = run[r].parent
      /\ y.told = run[r].told
    <2> HIDE DEF r
    <2> QED BY <1>4 DEF RunType
<1>8. run' = [run EXCEPT ![r] = y]
    BY <1>1
<1> HIDE DEF y, log
<1>9. RunShape(r, y, held')
    <2> HIDE DEF r
    <2> QED BY <1>1, <1>3, <1>4, <1>7 DEF RunShape
<1>10. RunReports(r, y, held', reports'[r])
    <2> HIDE DEF r
    <2>1. integration = "llamaindex_sync" => RunStatus(y) = "ok" /\ <<>> \in RunOutputs(y)
        BY DEF RunStatus, RunOutputs
    <2>2. r \in held'
        BY <1>1
    <2> QED BY <1>1, <1>3, <1>5, <1>6, <1>7, <2>1, <2>2 DEF RunReports
<1>11. /\ (\A s \in Runs : /\ RunShape(s, run[s], held)
                           /\ RunReports(s, run[s], held, reports[s]))'
       /\ run' \in [Runs -> RunType]
       /\ run'[r] = y /\ \A s \in Runs \ {r} : run'[s] = run[s]
       /\ Spoke(Runs) /\ held' \subseteq Runs
    <2>1. held' \subseteq Runs /\ \A s \in Runs \ {r} : s \in held' <=> s \in held
        BY <1>1, <1>3 DEF CallbackInv
    <2> HIDE DEF r
    <2> QED BY <1>1, <1>3, <1>6, <1>7, <1>8, <1>9, <1>10, <2>1, RunMoves
<1>12. RoundInv'
    <2>1. ASSUME NEW p \in Requests, NEW m \in 1 .. MaxRounds, m > round'[p]
          PROVE  run'[LlmRun(p, m)].phase = "none"
        <3>1. LlmRun(p, m) # r /\ m > round[p] /\ LlmRun(p, m) \in Runs
            BY <1>2, <2>1, RunFacts DEF LlmRun
        <3> QED BY <1>11, <3>1 DEF CallbackInv, RoundInv
    <2>2. ASSUME NEW p \in Requests, NEW m \in 1 .. MaxRounds, m < round'[p]
          PROVE  /\ run'[LlmRun(p, m)].fate = "ok"
                 /\ \A t \in run'[LlmRun(p, m)].asks : run'[t].fate \in GoneOn
        <3>1. /\ run[LlmRun(p, m)].fate = "ok"
              /\ \A t \in run[LlmRun(p, m)].asks : run[t].fate \in GoneOn
            <4>1. CASE p = q /\ m = round[q]
                BY <1>1, <4>1 DEF MayGoOn, GoneOn
            <4>2. CASE ~(p = q /\ m = round[q])
                <5>1. m < round[p]
                    BY <1>2, <2>2, <4>2
                <5> QED BY <5>1 DEF CallbackInv, RoundInv
            <4> QED BY <4>1, <4>2
        <3>2. LlmRun(p, m) \in Runs /\ run[LlmRun(p, m)].asks \subseteq AllToolRuns
            BY RunFacts DEF CallbackInv, RunType
        <3>3. LlmRun(p, m) # r
            BY <1>4, <3>1 DEF RunShape
        <3>4. run'[LlmRun(p, m)] = run[LlmRun(p, m)]
            BY <1>11, <3>2, <3>3
        <3>5. \A t \in run[LlmRun(p, m)].asks : run'[t] = run[t]
            BY <1>3, <1>11, <3>2, RunFacts
        <3> QED BY <3>1, <3>4, <3>5
    <2> QED BY <2>1, <2>2 DEF RoundInv
<1> QED BY <1>1, <1>2, <1>11, <1>12 DEF CallbackInv

\* A running run ends, and its span is left.
LEMMA RunEnds ==
    ASSUME CallbackInv, DOMAIN reports = SpanIds, UNCHANGED <<integration, sdkClosed, round>>,
           lastInference' \in [Handlers -> Runs \cup {NoParent}],
           NEW r \in Runs, Running(r), NEW log, CloseSpan(r, log),
           NEW y \in RunType, run' = [run EXCEPT ![r] = y],
           y.phase = "over", y.parent = run[r].parent, RunShape(r, y, {}),
           log.status = RunStatus(y),
           r \in LlmRuns /\ integration # "llamaindex_sync" => log.output \in RunOutputs(y),
           r \in AllToolRuns => log.parent = y.parent
    PROVE  CallbackInv' /\ Spoke(Runs)
<1>1. r \in held /\ run[r].phase = "running" /\ RunReports(r, run[r], held, reports[r])
    BY DEF Running, CallbackInv, RunShape
<1>2. /\ Spoke({r})
      /\ held' \subseteq Runs /\ r \notin held'
      /\ \A s \in Runs \ {r} : s \in held' <=> s \in held
      /\ integration = "llamaindex_sync" => reports'[r] = reports[r]
      /\ integration # "llamaindex_sync" =>
            \/ sdkClosed /\ reports'[r] = <<>>
            \/ Len(reports'[r]) = 1 /\ reports'[r][1] = log
    BY <1>1, Closes
<1>3. RunShape(r, y, held')
    BY <1>2 DEF RunShape
<1>4. RunReports(r, y, held', reports'[r])
    <2>1. CASE integration = "llamaindex_sync"
        <3>1. RunStatus(y) = RunStatus(run[r]) /\ RunOutputs(y) = RunOutputs(run[r])
            BY <2>1 DEF RunStatus, RunOutputs
        <3> QED BY <1>1, <1>2, <2>1, <3>1 DEF RunReports
    <2>2. CASE integration # "llamaindex_sync"
        BY <1>2, <2>2 DEF RunReports
    <2> QED BY <2>1, <2>2
<1>5. /\ (\A s \in Runs : /\ RunShape(s, run[s], held)
                          /\ RunReports(s, run[s], held, reports[s]))'
      /\ run' \in [Runs -> RunType]
      /\ run'[r] = y /\ \A s \in Runs \ {r} : run'[s] = run[s]
      /\ Spoke(Runs)
    BY <1>2, <1>3, <1>4, RunMoves
<1>6. RoundInv'
    BY <1>1, <1>5, RoundKept
<1> QED BY <1>2, <1>5, <1>6 DEF CallbackInv

LEMMA LlmNewTokenInv ==
    ASSUME CallbackInv, DOMAIN reports = SpanIds, UNCHANGED integration,
           NEW r \in LlmRuns, LlmNewToken(r)
    PROVE  CallbackInv' /\ Spoke(Runs) /\ UNCHANGED sdkClosed
<1>1. r \in Runs
    BY RunFacts
<1>2. PICK x \in RunType : /\ x = run[r] /\ RunShape(r, x, held)
                           /\ RunReports(r, x, held, reports[r])
    BY <1>1 DEF CallbackInv
<1> DEFINE text == <<r>>
           m == [text |-> text, tool |-> "none", usage |-> 0]
           span == ObserveChunk(x.span, m)
           y == [x EXCEPT !.got = text, !.span = span]
<1>3. /\ integration = "langchain" /\ x.phase = "running" /\ x.got = <<>> /\ r \in held
      /\ x.span.output = <<>> /\ UNCHANGED <<lastInference, round, held, reports, sdkClosed>>
      /\ Spoke({r})
    BY <1>2 DEF LlmNewToken, Running, Spoke, RunShape
<1>4. run' = [run EXCEPT ![r] = y]
    BY <1>2, <1>3 DEF LlmNewToken
<1>5. text \in Seq(Runs) /\ <<>> \o text = text
    BY <1>1
<1>6. m \in MessageType(Runs) /\ m.text = text
    BY <1>5 DEF MessageType
<1> HIDE DEF m
<1>7. span \in SpanType(Runs) /\ span.output = text
    <2>1. x.span \in SpanType(Runs)
        BY <1>2 DEF RunType
    <2>2. span \in SpanType(Runs) /\ span.output = x.span.output \o m.text
        BY <1>6, <2>1, SpanGrows
    <2> QED BY <1>3, <1>5, <1>6, <2>2
<1>8. text = <<r>>
    OBVIOUS
<1> HIDE DEF span, text
<1>9. /\ y \in RunType /\ y.phase = x.phase /\ y.fate = x.fate /\ y.got = text
      /\ y.asks = x.asks /\ y.span = span /\ y.parent = x.parent /\ y.told = x.told
    BY <1>2, <1>5, <1>7 DEF RunType
<1> HIDE DEF y
<1>10. RunShape(r, y, held')
    BY <1>2, <1>3, <1>7, <1>8, <1>9 DEF RunShape
<1>11. RunReports(r, y, held', reports'[r])
    BY <1>2, <1>3, <1>9 DEF RunReports
<1>12. /\ (\A s \in Runs : /\ RunShape(s, run[s], held)
                           /\ RunReports(s, run[s], held, reports[s]))'
       /\ run' \in [Runs -> RunType]
       /\ run'[r] = y /\ \A s \in Runs \ {r} : run'[s] = run[s]
       /\ Spoke(Runs)
    <2>1. held' \subseteq Runs /\ \A s \in Runs \ {r} : s \in held' <=> s \in held
        BY <1>3 DEF CallbackInv
    <2> QED BY <1>1, <1>3, <1>4, <1>9, <1>10, <1>11, <2>1, RunMoves
<1>13. RoundInv'
    BY <1>1, <1>2, <1>3, <1>12, RoundKept
<1> QED BY <1>3, <1>12, <1>13 DEF CallbackInv

LEMMA LlmEndInv ==
    ASSUME CallbackInv, DOMAIN reports = SpanIds, UNCHANGED integration,
           integration \in {"langchain", "llamaindex", "llamaindex_sync"},
           NEW r \in LlmRuns, NEW tools \in SUBSET ToolRuns(r[1], r[2]), LlmEnd(r, tools)
    PROVE  CallbackInv' /\ Spoke(Runs) /\ UNCHANGED sdkClosed
<1>1. r \in Runs /\ r \notin AllToolRuns /\ tools \subseteq AllToolRuns
    BY RunFacts
<1>2. PICK x \in RunType : x = run[r] /\ RunShape(r, x, held)
    BY <1>1 DEF CallbackInv
<1> DEFINE text == <<r>>
           m == FinalMessage(r, tools)
           span == SetResponse(x.span, m)
           log == InferenceLog(span, "none")
           y == [x EXCEPT !.phase = "over", !.fate = "ok", !.got = text, !.asks = tools,
                          !.span = span, !.before = Ended]
<1>3. /\ x.phase = "running" /\ Running(r)
      /\ lastInference' = IF r \in held THEN Remembered(Handler(r), r) ELSE lastInference
      /\ UNCHANGED <<round, sdkClosed>>
    BY <1>2 DEF LlmEnd, Running
<1>4. run' = [run EXCEPT ![r] = y] /\ CloseSpan(r, log)
    BY <1>2 DEF LlmEnd
<1>5. text \in Seq(Runs) /\ <<>> \o text = text
    BY <1>1
<1>6. m \in MessageType(Runs) /\ m.text = text
    BY <1>5 DEF MessageType, FinalMessage
<1> HIDE DEF m
<1>7. span \in SpanType(Runs) /\ span.output = x.span.output \o text
    <2>1. x.span \in SpanType(Runs)
        BY <1>2 DEF RunType
    <2>2. span \in SpanType(Runs) /\ span.output = x.span.output \o m.text
        BY <1>6, <2>1, SpanGrows
    <2> QED BY <1>6, <2>2
<1>8. text = <<r>>
    OBVIOUS
<1> HIDE DEF span, text
<1>9. /\ y \in RunType /\ y.phase = "over" /\ y.fate = "ok" /\ y.got = text
      /\ y.asks = tools /\ y.span = span /\ y.parent = x.parent /\ y.told = x.told
    BY <1>1, <1>2, <1>5, <1>7 DEF RunType, Ended
<1> HIDE DEF y
<1>10. RunShape(r, y, {})
    BY <1>8, <1>9 DEF RunShape
<1>11. log.status = "ok" /\ log.output = Preview(span.output)
    BY DEF InferenceLog, StatusOf
<1> HIDE DEF log
<1>12. log.status = RunStatus(y)
    BY <1>9, <1>11 DEF RunStatus
<1>13. integration # "llamaindex_sync" => log.output \in RunOutputs(y)
    <2>1. /\ x.span.output = x.got /\ (x.got = <<>> \/ x.got = text)
          /\ integration # "langchain" => x.got = <<>>
        BY <1>2, <1>3, <1>8 DEF RunShape
    <2> QED BY <1>5, <1>7, <1>9, <1>11, <2>1 DEF RunOutputs
<1>14. lastInference' \in [Handlers -> Runs \cup {NoParent}]
    BY <1>1, <1>3 DEF CallbackInv, Remembered
<1>15. CallbackInv' /\ Spoke(Runs)
    BY <1>1, <1>2, <1>3, <1>4, <1>9, <1>10, <1>12, <1>13, <1>14, RunEnds
<1> QED BY <1>3, <1>15

LEMMA LlmErrorInv ==
    ASSUME CallbackInv, DOMAIN reports = SpanIds, UNCHANGED integration,
           integration \in {"langchain", "llamaindex", "llamaindex_sync"},
           NEW r \in LlmRuns, NEW e \in Exceptions, LlmError(r, e)
    PROVE  CallbackInv' /\ Spoke(Runs) /\ UNCHANGED sdkClosed
<1> DEFINE log == InferenceLog(run[r].span, Told(e))
           y == [run[r] EXCEPT !.phase = "over", !.fate = e, !.told = TRUE, !.before = Ended]
<1>1. /\ Running(r) /\ run' = [run EXCEPT ![r] = y] /\ CloseSpan(r, log)
      /\ lastInference' = IF r \in held /\ integration # "langchain"
                          THEN Remembered(Handler(r), r) ELSE lastInference
      /\ UNCHANGED <<round, sdkClosed>>
    BY DEF LlmError
<1>2. r \in Runs /\ run[r] \in RunType /\ RunShape(r, run[r], held)
    BY RunFacts DEF CallbackInv
<1>3. /\ y \in RunType /\ y.phase = "over" /\ y.fate = e /\ y.got = run[r].got
      /\ y.asks = run[r].asks /\ y.span = run[r].span /\ y.parent = run[r].parent
      /\ y.told
    BY <1>2 DEF RunType, Ended
<1> HIDE DEF y
<1>4. RunShape(r, y, {})
    BY <1>1, <1>2, <1>3 DEF RunShape, Running, Exceptions
<1>5. log.status = StatusOf(Told(e)) /\ log.output = Preview(run[r].span.output)
    BY DEF InferenceLog
<1> HIDE DEF log
<1>6. log.status = RunStatus(y)
    BY <1>3, <1>5 DEF RunStatus, StatusOf, Told, Exceptions
<1>7. integration # "llamaindex_sync" => log.output \in RunOutputs(y)
    BY <1>1, <1>2, <1>3, <1>5 DEF RunShape, Running, RunOutputs
<1>8. lastInference' \in [Handlers -> Runs \cup {NoParent}]
    BY <1>1, <1>2 DEF CallbackInv, Remembered
<1>9. r \notin AllToolRuns
    BY RunFacts
<1>10. CallbackInv' /\ Spoke(Runs)
    BY <1>1, <1>2, <1>3, <1>4, <1>6, <1>7, <1>8, <1>9, RunEnds
<1> QED BY <1>1, <1>10

LEMMA ToolStartInv ==
    ASSUME CallbackInv, DOMAIN reports = SpanIds, UNCHANGED integration,
           NEW t \in AllToolRuns, ToolStart(t)
    PROVE  CallbackInv' /\ Spoke(Runs) /\ UNCHANGED sdkClosed
<1> DEFINE parent == lastInference[Handler(t)]
           log == ToolExecutionLog(parent, "generator_exit")
           y == [run[t] EXCEPT !.phase = "running", !.parent = parent]
<1>1. /\ run[t].phase = "none" /\ run' = [run EXCEPT ![t] = y]
      /\ held' = held \cup {t} /\ OpenSpan(t, log) /\ UNCHANGED <<lastInference, round, sdkClosed>>
    BY DEF ToolStart
<1>2. /\ t \in Runs /\ t \notin LlmRuns /\ run[t] \in RunType /\ RunShape(t, run[t], held)
      /\ reports[t] = <<>>
    BY <1>1, RunFacts DEF CallbackInv, RunReports
<1>3. parent \in Runs \cup {NoParent}
    BY <1>2, RunFacts DEF CallbackInv
<1>4. log.status = "ok" /\ log.parent = parent
    BY DEF ToolExecutionLog, StatusOf
<1>5. /\ Spoke({t})
      /\ \/ (integration # "llamaindex_sync" \/ sdkClosed) /\ reports'[t] = <<>>
         \/ integration = "llamaindex_sync" /\ Len(reports'[t]) = 1 /\ reports'[t][1] = log
    <2> HIDE DEF log
    <2> QED BY <1>1, <1>2, Opens
<1> HIDE DEF log, parent
<1>6. /\ y \in RunType /\ y.phase = "running" /\ y.fate = run[t].fate /\ y.got = run[t].got
      /\ y.asks = run[t].asks /\ y.span = run[t].span /\ y.parent = parent
      /\ y.told = run[t].told
    BY <1>2, <1>3 DEF RunType
<1> HIDE DEF y
<1>7. RunShape(t, y, held')
    BY <1>1, <1>2, <1>6 DEF RunShape
<1>8. RunReports(t, y, held', reports'[t])
    <2>1. integration = "llamaindex_sync" => RunStatus(y) = "ok"
        BY DEF RunStatus
    <2>2. t \in held'
        BY <1>1
    <2> QED BY <1>1, <1>2, <1>4, <1>5, <1>6, <2>1, <2>2 DEF RunReports
<1>9. /\ (\A s \in Runs : /\ RunShape(s, run[s], held)
                          /\ RunReports(s, run[s], held, reports[s]))'
      /\ run' \in [Runs -> RunType]
      /\ run'[t] = y /\ \A s \in Runs \ {t} : run'[s] = run[s]
      /\ Spoke(Runs) /\ held' \subseteq Runs
    <2>1. held' \subseteq Runs /\ \A s \in Runs \ {t} : s \in held' <=> s \in held
        BY <1>1, <1>2 DEF CallbackInv
    <2> QED BY <1>1, <1>2, <1>5, <1>6, <1>7, <1>8, <2>1, RunMoves
<1>10. RoundInv'
    BY <1>1, <1>2, <1>9, RoundKept
<1> QED BY <1>1, <1>9, <1>10 DEF CallbackInv

\* A tool ends and the handler is called.
LEMMA ToolLeaves ==
    ASSUME CallbackInv, DOMAIN reports = SpanIds, UNCHANGED integration,
           integration \in {"langchain", "llamaindex", "llamaindex_sync"},
           NEW t \in AllToolRuns, Running(t), NEW y \in RunType,
           run' = [run EXCEPT ![t] = y],
           y.phase = "over", y.fate # "none", y.got = run[t].got, y.asks = run[t].asks,
           y.parent = run[t].parent,
           NEW ended, CloseSpan(t, ToolExecutionLog(run[t].parent, ended)),
           StatusOf(ended) = RunStatus(y),
           UNCHANGED <<lastInference, round, sdkClosed>>
    PROVE  CallbackInv' /\ Spoke(Runs) /\ UNCHANGED sdkClosed
<1> DEFINE log == ToolExecutionLog(run[t].parent, ended)
<1>1. CloseSpan(t, log)
    OBVIOUS
<1>2. t \in Runs /\ t \notin LlmRuns /\ run[t] \in RunType /\ RunShape(t, run[t], held)
    BY RunFacts DEF CallbackInv
<1>3. RunShape(t, y, {})
    BY <1>2 DEF RunShape, Running
<1>4. log.status = RunStatus(y) /\ log.parent = y.parent
    BY DEF ToolExecutionLog
<1> HIDE DEF log
<1>5. lastInference' \in [Handlers -> Runs \cup {NoParent}]
    BY DEF CallbackInv
<1> QED BY <1>1, <1>2, <1>3, <1>4, <1>5, RunEnds

LEMMA ToolEndInv ==
    ASSUME CallbackInv, DOMAIN reports = SpanIds, UNCHANGED integration,
           integration \in {"langchain", "llamaindex", "llamaindex_sync"},
           NEW t \in AllToolRuns, ToolEnd(t)
    PROVE  CallbackInv' /\ Spoke(Runs) /\ UNCHANGED sdkClosed
<1> DEFINE y == [run[t] EXCEPT !.phase = "over", !.fate = "ok"]
<1>1. /\ Running(t) /\ run' = [run EXCEPT ![t] = y]
      /\ CloseSpan(t, ToolExecutionLog(run[t].parent, "none"))
      /\ UNCHANGED <<lastInference, round, sdkClosed>>
    BY DEF ToolEnd
<1>2. run[t] \in RunType
    BY RunFacts DEF CallbackInv
<1>3. /\ y \in RunType /\ y.phase = "over" /\ y.fate = "ok" /\ y.got = run[t].got
      /\ y.asks = run[t].asks /\ y.parent = run[t].parent
    BY <1>2 DEF RunType
<1> HIDE DEF y
<1>4. StatusOf("none") = RunStatus(y)
    BY <1>3 DEF StatusOf, RunStatus
<1> QED BY <1>1, <1>3, <1>4, ToolLeaves

LEMMA ToolErrorInv ==
    ASSUME CallbackInv, DOMAIN reports = SpanIds, UNCHANGED integration,
           integration \in {"langchain", "llamaindex", "llamaindex_sync"},
           NEW t \in AllToolRuns, NEW e \in Exceptions, ToolError(t, e)
    PROVE  CallbackInv' /\ Spoke(Runs) /\ UNCHANGED sdkClosed
<1> DEFINE y == [run[t] EXCEPT !.phase = "over", !.fate = e, !.told = TRUE]
<1>1. /\ Running(t) /\ run' = [run EXCEPT ![t] = y]
      /\ CloseSpan(t, ToolExecutionLog(run[t].parent, Told(e)))
      /\ UNCHANGED <<lastInference, round, sdkClosed>>
    BY DEF ToolError
<1>2. run[t] \in RunType /\ e \in {"error", "timeout", "cancelled"}
    BY RunFacts DEF CallbackInv, Exceptions
<1>3. /\ y \in RunType /\ y.phase = "over" /\ y.fate = e /\ y.got = run[t].got /\ y.told
      /\ y.asks = run[t].asks /\ y.parent = run[t].parent
    BY <1>2 DEF RunType
<1> HIDE DEF y
<1>4. StatusOf(Told(e)) = RunStatus(y)
    BY <1>2, <1>3 DEF StatusOf, Told, RunStatus
<1> QED BY <1>1, <1>2, <1>3, <1>4, ToolLeaves

\* LangChain keeps a cancellation to itself.
LEMMA CancelledUntoldInv ==
    ASSUME CallbackInv, DOMAIN reports = SpanIds, UNCHANGED integration,
           NEW r \in Runs, CancelledUntold(r)
    PROVE  CallbackInv' /\ Spoke(Runs) /\ UNCHANGED sdkClosed
<1>1. PICK x \in RunType : /\ x = run[r] /\ RunShape(r, x, held)
                           /\ RunReports(r, x, held, reports[r])
    BY DEF CallbackInv
<1> DEFINE y == [x EXCEPT !.phase = "over", !.fate = "cancelled"]
<1>2. /\ x.phase = "running" /\ run' = [run EXCEPT ![r] = y] /\ Spoke({r})
      /\ integration = "langchain"
      /\ UNCHANGED <<held, reports, lastInference, round, sdkClosed>>
    BY <1>1 DEF CancelledUntold, Running, Spoke
<1>3. /\ y \in RunType /\ y.phase = "over" /\ y.fate = "cancelled" /\ y.got = x.got
      /\ y.asks = x.asks /\ y.span = x.span /\ y.parent = x.parent /\ y.told = x.told
    BY DEF RunType, Exceptions
<1> HIDE DEF y
<1>4. RunShape(r, y, held')
    BY <1>1, <1>2, <1>3 DEF RunShape
<1>5. RunReports(r, y, held', reports'[r])
    BY <1>1, <1>2, <1>3 DEF RunReports, RunShape
<1>6. /\ (\A s \in Runs : /\ RunShape(s, run[s], held)
                          /\ RunReports(s, run[s], held, reports[s]))'
      /\ run' \in [Runs -> RunType]
      /\ run'[r] = y /\ \A s \in Runs \ {r} : run'[s] = run[s]
      /\ Spoke(Runs)
    <2>1. held' \subseteq Runs /\ \A s \in Runs \ {r} : s \in held' <=> s \in held
        BY <1>2 DEF CallbackInv
    <2> QED BY <1>2, <1>3, <1>4, <1>5, <2>1, RunMoves
<1>7. RoundInv'
    BY <1>1, <1>2, <1>6, RoundKept
<1> QED BY <1>2, <1>6, <1>7 DEF CallbackInv

\* The spans that are left to the interpreter are those of cancelled runs.
LEMMA SpanCollectedInv ==
    ASSUME CallbackInv, DOMAIN reports = SpanIds, UNCHANGED integration,
           integration \in {"langchain", "llamaindex", "llamaindex_sync"},
           NEW r \in Runs, SpanCollected(r)
    PROVE  CallbackInv' /\ Spoke(Runs) /\ UNCHANGED sdkClosed
<1>1. PICK x \in RunType : /\ x = run[r] /\ RunShape(r, x, held)
                           /\ RunReports(r, x, held, reports[r])
    BY DEF CallbackInv
<1>2. /\ r \in held /\ UNCHANGED <<lastInference, round, run, sdkClosed>>
      /\ Finished(r[1])
    BY RunFacts DEF SpanCollected, HandlerCollected, Handler
<1>3. x.phase = "over" /\ x.fate = "cancelled" /\ ~x.told /\ x.span.output = x.got
    <2>1. ~Running(r)
        BY <1>2 DEF Finished, CallbackInv
    <2> QED BY <1>1, <1>2, <2>1, RunFacts DEF RunShape, Running, RunType
<1> DEFINE log == IF r \in LlmRuns THEN InferenceLog(run[r].span, "generator_exit")
                  ELSE ToolExecutionLog(run[r].parent, "generator_exit")
<1>4. CloseSpan(r, log)
    BY DEF SpanCollected
<1>5. /\ log.status = "ok"
      /\ r \in LlmRuns => log.output = Preview(x.got)
      /\ r \in AllToolRuns => log.parent = x.parent
    <2>1. CASE r \in LlmRuns
        BY <1>1, <1>3, <2>1, RunFacts DEF InferenceLog, StatusOf
    <2>2. CASE r \notin LlmRuns
        BY <1>1, <2>2 DEF ToolExecutionLog, StatusOf
    <2> QED BY <2>1, <2>2
<1> HIDE DEF log
<1>6. /\ Spoke({r})
      /\ held' \subseteq Runs /\ r \notin held'
      /\ \A s \in Runs \ {r} : s \in held' <=> s \in held
      /\ integration = "llamaindex_sync" => reports'[r] = reports[r]
      /\ integration # "llamaindex_sync" =>
            \/ sdkClosed /\ reports'[r] = <<>>
            \/ Len(reports'[r]) = 1 /\ reports'[r][1] = log
    BY <1>2, <1>4, Closes
<1>7. RunShape(r, x, held')
    BY <1>1, <1>3, <1>6 DEF RunShape
<1>10. integration \in {"langchain", "llamaindex", "llamaindex_sync"}
    OBVIOUS
<1>8. RunReports(r, x, held', reports'[r])
    <2>1. RunStatus(x) = "ok"
        BY <1>3 DEF RunStatus
    <2>2. integration # "llamaindex_sync" => Preview(x.got) \in RunOutputs(x)
        BY <1>10 DEF RunOutputs
    <2> QED BY <1>1, <1>3, <1>5, <1>6, <2>1, <2>2 DEF RunReports
<1>9. run' = [run EXCEPT ![r] = x]
    BY <1>1, <1>2 DEF CallbackInv
<1>11. /\ (\A s \in Runs : /\ RunShape(s, run[s], held)
                           /\ RunReports(s, run[s], held, reports[s]))'
       /\ Spoke(Runs)
    BY <1>1, <1>2, <1>6, <1>7, <1>8, <1>9, RunMoves
<1> QED BY <1>2, <1>6, <1>11 DEF CallbackInv, RoundInv

\* Whatever the agents do.
LEMMA CallbackNextInv ==
    ASSUME CallbackInv, DOMAIN reports = SpanIds, UNCHANGED integration,
           integration \in {"langchain", "llamaindex", "llamaindex_sync"}, CallbackNext
    PROVE  CallbackInv' /\ Spoke(Runs) /\ UNCHANGED sdkClosed
<1>1. CASE \E q \in Requests : LlmStart(q)
    BY <1>1, LlmStartInv
<1>2. CASE \E r \in LlmRuns :
             \/ LlmNewToken(r)
             \/ \E tools \in SUBSET ToolRuns(r[1], r[2]) : LlmEnd(r, tools)
             \/ \E e \in Exceptions : LlmError(r, e)
    BY <1>2, LlmNewTokenInv, LlmEndInv, LlmErrorInv
<1>3. CASE \E t \in AllToolRuns :
             ToolStart(t) \/ ToolEnd(t) \/ \E e \in Exceptions : ToolError(t, e)
    BY <1>3, ToolStartInv, ToolEndInv, ToolErrorInv
<1>4. CASE \E r \in LlmRuns \cup AllToolRuns : CancelledUntold(r) \/ SpanCollected(r)
    BY <1>4, CancelledUntoldInv, SpanCollectedInv DEF Runs
<1> QED BY <1>1, <1>2, <1>3, <1>4 DEF CallbackNext

\* With the runs R, `p` is the inference `own` or one that the same handler saw end
\* after it.
Follows(R, own, p) ==
    p # own => /\ p \in LlmRuns /\ Handler(p) = Handler(own)
               /\ R[p].phase = "over" /\ own \in R[p].before

\* What a handler remembers has not ended before any answer it has seen; a tool
\* has for a parent its own round's inference or a later one of another request.
LinkInv ==
    /\ \A p \in LlmRuns : \A r \in run[p].before : r[1] = p[1] => r[2] < p[2]
    /\ \A r \in LlmRuns : run[r].fate = "ok" => Follows(run, r, lastInference[Handler(r)])
    /\ \A t \in AllToolRuns : run[t].phase # "none" =>
          LET own == LlmRun(t[1], t[2])
          IN /\ Follows(run, own, run[t].parent)
             /\ run[t].parent # own => run[t].parent[1] # t[1]

\* A tool's parent as it should be.
Linked(R, t, p) ==
    LET own == LlmRun(t[1], t[2])
    IN Follows(R, own, p) /\ (p # own => p[1] # t[1])

\* A run that is not over moves on: what follows an inference still does.
LEMMA FollowsKept ==
    ASSUME CallbackInv, NEW r \in Runs, run[r].phase # "over", NEW y,
           run' = [run EXCEPT ![r] = y]
    PROVE  /\ run'[r] = y /\ \A s \in Runs \ {r} : run'[s] = run[s]
           /\ \A own, p : Follows(run, own, p) => Follows(run', own, p)
           /\ \A t, p : Linked(run, t, p) => Linked(run', t, p)
<1>1. run'[r] = y /\ \A s \in Runs \ {r} : run'[s] = run[s]
    BY DEF CallbackInv
<1>2. ASSUME NEW own, NEW p, Follows(run, own, p) PROVE Follows(run', own, p)
    BY <1>1, <1>2, RunFacts DEF Follows
<1> QED BY <1>1, <1>2 DEF Linked

\* A run moves on that no handler remembers for it.
LEMMA LinkKept ==
    ASSUME CallbackInv, LinkInv, NEW r \in Runs, run[r].phase # "over", NEW y,
           run' = [run EXCEPT ![r] = y], UNCHANGED lastInference,
           r \in LlmRuns => y.fate # "ok" /\ y.before = run[r].before,
           r \in AllToolRuns /\ y.phase # "none" => Linked(run, r, y.parent)
    PROVE  LinkInv'
<1>1. ASSUME NEW p \in LlmRuns, NEW s \in run'[p].before, s[1] = p[1] PROVE s[2] < p[2]
    BY <1>1, FollowsKept, RunFacts DEF LinkInv
<1>2. ASSUME NEW s \in LlmRuns, run'[s].fate = "ok"
      PROVE  Follows(run', s, lastInference'[Handler(s)])
    <2>1. run[s].fate = "ok"
        BY <1>2, FollowsKept, RunFacts
    <2> QED BY <2>1, FollowsKept DEF LinkInv
<1>3. ASSUME NEW t \in AllToolRuns, run'[t].phase # "none"
      PROVE  Linked(run', t, run'[t].parent)
    <2>1. CASE t = r
        <3>1. run'[t] = y
            BY <2>1, FollowsKept
        <3>2. Linked(run, r, y.parent)
            BY <1>3, <2>1, <3>1
        <3> QED BY <2>1, <3>1, <3>2, FollowsKept
    <2>2. CASE t # r
        <3>1. run'[t] = run[t]
            BY <2>2, FollowsKept, RunFacts
        <3>2. Linked(run, t, run[t].parent)
            BY <1>3, <3>1 DEF LinkInv, Linked
        <3> QED BY <3>1, <3>2, FollowsKept
    <2> QED BY <2>1, <2>2
<1> QED BY <1>1, <1>2, <1>3 DEF LinkInv, Linked

\* The model is running only in the round its request is in.
LEMMA RunningRound ==
    ASSUME CallbackInv, NEW r \in LlmRuns, Running(r)
    PROVE  r = LlmRun(r[1], round[r[1]]) /\ r[2] = round[r[1]]
<1>1. /\ r \in Runs /\ r = LlmRun(r[1], r[2]) /\ r[1] \in Requests /\ r[2] \in 1 .. MaxRounds
      /\ round[r[1]] \in 0 .. MaxRounds
    BY RunFacts DEF CallbackInv
<1>2. run[r].phase = "running" /\ run[r].fate = "none"
    BY <1>1 DEF Running, CallbackInv, RunShape
<1>3. ~(r[2] > round[r[1]]) /\ ~(r[2] < round[r[1]])
    BY <1>1, <1>2 DEF CallbackInv, RoundInv
<1> QED BY <1>1, <1>3, CallbacksAssumption

\* The model answers or fails: those that had ended are of earlier rounds or of
\* other requests.
LEMMA LinkMoves ==
    ASSUME CallbackInv, LinkInv, NEW r \in LlmRuns, Running(r), NEW y,
           run' = [run EXCEPT ![r] = y], y.phase = "over", y.before = Ended,
           \/ lastInference' = Remembered(Handler(r), r)
           \/ lastInference' = lastInference /\ y.fate # "ok"
    PROVE  LinkInv'
<1>1. r \in Runs /\ r \notin AllToolRuns /\ Handler(r) \in Handlers /\ run[r].phase = "running"
    BY RunFacts DEF Running
<1>2. DOMAIN lastInference = Handlers
    BY DEF CallbackInv
<1>3. ASSUME NEW p \in LlmRuns, NEW s \in run'[p].before, s[1] = p[1] PROVE s[2] < p[2]
    <2>1. CASE p # r
        BY <1>1, <1>3, <2>1, FollowsKept, RunFacts DEF LinkInv
    <2>2. CASE p = r
        <3>0. run'[p] = y
            BY <1>1, <2>2, FollowsKept
        <3>1. s \in LlmRuns /\ run[s].phase = "over"
            BY <1>3, <3>0 DEF Ended
        <3>2. r = LlmRun(r[1], r[2]) /\ s = LlmRun(r[1], s[2]) /\ s # r /\ s \in Runs
            BY <1>1, <1>3, <2>2, <3>1, RunFacts
        <3>3. /\ r[2] = round[r[1]] /\ s[2] \in 1 .. MaxRounds /\ r[2] \in 1 .. MaxRounds
              /\ r[1] \in Requests
            BY <1>1, <3>2, RunningRound, RunFacts
        <3>4. ~(s[2] > r[2])
            BY <3>1, <3>2, <3>3 DEF CallbackInv, RoundInv
        <3>5. s[2] # r[2]
            BY <3>2
        <3> QED BY <2>2, <3>3, <3>4, <3>5, CallbacksAssumption
    <2> QED BY <2>1, <2>2
<1>4. ASSUME NEW s \in LlmRuns, run'[s].fate = "ok"
      PROVE  Follows(run', s, lastInference'[Handler(s)])
    <2>0. s \in Runs /\ Handler(s) \in Handlers
        BY RunFacts
    <2>1. CASE s = r
        <3>1. run'[s] = y
            BY <1>1, <2>1, FollowsKept
        <3>2. lastInference' = Remembered(Handler(r), r)
            BY <1>4, <3>1
        <3> QED BY <1>1, <1>2, <2>1, <3>2 DEF Remembered, Follows
    <2>2. CASE s # r /\ Handler(s) = Handler(r) /\ lastInference' = Remembered(Handler(r), r)
        <3>1. run'[s] = run[s]
            BY <1>1, <2>0, <2>2, FollowsKept
        <3>2. run[s].phase = "over"
            BY <1>4, <2>0, <3>1 DEF CallbackInv, RunShape
        <3>3. s \in Ended
            BY <3>2 DEF Ended
        <3>4. run'[r] = y
            BY <1>1, FollowsKept
        <3> QED BY <1>2, <2>0, <2>2, <3>3, <3>4 DEF Remembered, Follows
    <2>3. CASE s # r /\ ~(Handler(s) = Handler(r) /\ lastInference' = Remembered(Handler(r), r))
        <3>1. run'[s] = run[s]
            BY <1>1, <2>0, <2>3, FollowsKept
        <3>2. lastInference'[Handler(s)] = lastInference[Handler(s)]
            BY <1>1, <1>2, <2>0, <2>3 DEF Remembered
        <3>3. Follows(run, s, lastInference[Handler(s)])
            BY <1>4, <3>1 DEF LinkInv
        <3> QED BY <1>1, <3>2, <3>3, FollowsKept
    <2> QED BY <2>1, <2>2, <2>3
<1>5. ASSUME NEW t \in AllToolRuns, run'[t].phase # "none"
      PROVE  Linked(run', t, run'[t].parent)
    <2>1. run'[t] = run[t]
        BY <1>1, FollowsKept, RunFacts
    <2>2. Linked(run, t, run[t].parent)
        BY <1>5, <2>1 DEF LinkInv, Linked
    <2> QED BY <1>1, <2>1, <2>2, FollowsKept
<1> QED BY <1>3, <1>4, <1>5 DEF LinkInv, Linked

LEMMA LinkLlmStart ==
    ASSUME CallbackInv, LinkInv, NEW q \in Requests, LlmStart(q)
    PROVE  LinkInv'
<1> DEFINE n == round[q] + 1
           r == LlmRun(q, n)
           y == [run[r] EXCEPT !.phase = "running"]
<1>1. round[q] < MaxRounds /\ run' = [run EXCEPT ![r] = y] /\ UNCHANGED lastInference
    BY DEF LlmStart
<1>2. n \in 1 .. MaxRounds /\ n > round[q]
    BY <1>1, CallbacksAssumption DEF CallbackInv
<1>3. r \in LlmRuns /\ r \in Runs /\ r \notin AllToolRuns
    BY <1>2, RunFacts
<1>4. run[r].phase = "none" /\ run[r].fate = "none" /\ run[r] \in RunType
    BY <1>2, <1>3 DEF CallbackInv, RoundInv, RunShape
<1> HIDE DEF r
<1>5. y.fate = "none" /\ y.before = run[r].before
    BY <1>4 DEF RunType
<1> HIDE DEF y
<1> QED BY <1>1, <1>3, <1>4, <1>5, LinkKept

\* A tool that starts was asked for in the round its request is in.
LEMMA LinkToolStart ==
    ASSUME CallbackInv, LinkInv, NEW t \in AllToolRuns, ToolStart(t)
    PROVE  LinkInv'
<1> DEFINE q == t[1]
           n == t[2]
           own == LlmRun(q, n)
           parent == lastInference[Handler(t)]
           y == [run[t] EXCEPT !.phase = "running", !.parent = parent]
<1>1. /\ run[own].phase = "over" /\ t \in run[own].asks
      /\ run[t].phase = "none" /\ run' = [run EXCEPT ![t] = y]
      /\ UNCHANGED lastInference
    BY DEF ToolStart
<1>2. /\ t \in Runs /\ t \notin LlmRuns /\ q \in Requests /\ n \in 1 .. MaxRounds
      /\ own \in LlmRuns /\ own \in Runs /\ own[1] = q /\ own[2] = n
      /\ Handler(own) = Handler(t) /\ round[q] \in 0 .. MaxRounds
    BY RunFacts DEF CallbackInv, Handler
<1>3. run[own].fate = "ok" /\ run[t].fate = "none"
    BY <1>1, <1>2 DEF CallbackInv, RunShape
<1>4. ~(n < round[q])
    BY <1>1, <1>2, <1>3 DEF CallbackInv, RoundInv, GoneOn
<1>5. Follows(run, own, parent)
    <2>1. Follows(run, own, lastInference[Handler(own)])
        BY <1>2, <1>3 DEF LinkInv
    <2> QED BY <1>2, <2>1
<1>6. parent # own => parent[1] # q
    <2> SUFFICES ASSUME parent # own, parent[1] = q PROVE FALSE
        OBVIOUS
    <2> HIDE DEF own, parent
    <2>1. parent \in LlmRuns /\ run[parent].phase = "over" /\ own \in run[parent].before
        BY <1>5 DEF Follows
    <2>2. n < parent[2]
        BY <1>2, <2>1 DEF LinkInv
    <2>3. parent = LlmRun(q, parent[2]) /\ parent[2] \in 1 .. MaxRounds
        BY <2>1, RunFacts
    <2>4. parent[2] > round[q]
        BY <1>2, <1>4, <2>2, <2>3, CallbacksAssumption
    <2> QED BY <1>2, <2>1, <2>3, <2>4 DEF CallbackInv, RoundInv
<1>7. Linked(run, t, parent)
    BY <1>5, <1>6 DEF Linked
<1>8. y.parent = parent
    BY <1>2 DEF CallbackInv, RunType
<1> HIDE DEF y, parent, own
<1> QED BY <1>1, <1>2, <1>7, <1>8, LinkKept

\* A run that runs moves on or ends without an answer or, if it is a tool, in any
\* way.
LEMMA LinkRunning ==
    ASSUME CallbackInv, LinkInv, NEW r \in Runs, Running(r), NEW y,
           run' = [run EXCEPT ![r] = y], UNCHANGED lastInference,
           r \in LlmRuns => y.fate # "ok",
           y.before = run[r].before, y.parent = run[r].parent
    PROVE  LinkInv'
<1>1. r \in AllToolRuns => Linked(run, r, y.parent)
    BY DEF Running, LinkInv, Linked
<1> QED BY <1>1, LinkKept DEF Running

LEMMA LinkNextInv ==
    ASSUME CallbackInv, LinkInv, CallbackNext
    PROVE  LinkInv'
<1>0. \A r \in Runs : run[r] \in RunType /\ (Running(r) => run[r].fate = "none")
    BY DEF CallbackInv, RunShape, Running
<1>1. ASSUME NEW q \in Requests, LlmStart(q) PROVE LinkInv'
    BY <1>1, LinkLlmStart
<1>2. ASSUME NEW r \in LlmRuns, LlmNewToken(r) PROVE LinkInv'
    <2>1. r \in Runs /\ Running(r) /\ UNCHANGED lastInference
        BY <1>2, RunFacts DEF LlmNewToken
    <2>2. PICK x \in RunType : x = run[r] /\ x.fate = "none"
        BY <1>0, <2>1
    <2> DEFINE span == IF r \in held
                       THEN ObserveChunk(x.span, [text |-> <<r>>, tool |-> "none", usage |-> 0])
                       ELSE x.span
               y == [x EXCEPT !.got = <<r>>, !.span = span]
    <2>3. run' = [run EXCEPT ![r] = y]
        BY <1>2, <2>2 DEF LlmNewToken
    <2> HIDE DEF span
    <2>4. y.fate = x.fate /\ y.before = x.before /\ y.parent = x.parent
        BY DEF RunType
    <2> HIDE DEF y
    <2> QED BY <2>1, <2>2, <2>3, <2>4, LinkRunning
<1>3. ASSUME NEW r \in LlmRuns, NEW tools \in SUBSET ToolRuns(r[1], r[2]), LlmEnd(r, tools)
      PROVE  LinkInv'
    <2> DEFINE span == SetResponse(run[r].span, FinalMessage(r, tools))
               y == [run[r] EXCEPT !.phase = "over", !.fate = "ok", !.got = <<r>>,
                                   !.asks = tools, !.span = span, !.before = Ended]
    <2>1. Running(r) /\ r \in held /\ r \in Runs
        BY <1>3, RunFacts DEF LlmEnd, Running, CallbackInv, RunShape
    <2>2. run' = [run EXCEPT ![r] = y] /\ lastInference' = Remembered(Handler(r), r)
        BY <1>3, <2>1 DEF LlmEnd
    <2> HIDE DEF span
    <2>3. y.phase = "over" /\ y.before = Ended
        BY <1>0, <2>1 DEF RunType
    <2> HIDE DEF y
    <2> QED BY <2>1, <2>2, <2>3, LinkMoves
<1>4. ASSUME NEW r \in LlmRuns, NEW e \in Exceptions, LlmError(r, e)
      PROVE  LinkInv'
    <2> DEFINE y == [run[r] EXCEPT !.phase = "over", !.fate = e, !.told = TRUE,
                                   !.before = Ended]
    <2>1. /\ Running(r) /\ run' = [run EXCEPT ![r] = y]
          /\ \/ lastInference' = Remembered(Handler(r), r)
             \/ lastInference' = lastInference
        BY <1>4 DEF LlmError
    <2>2. y.phase = "over" /\ y.before = Ended /\ y.fate # "ok"
        BY <1>0, RunFacts DEF RunType, Exceptions
    <2> HIDE DEF y
    <2> QED BY <2>1, <2>2, LinkMoves
<1>5. ASSUME NEW t \in AllToolRuns, ToolStart(t) PROVE LinkInv'
    BY <1>5, LinkToolStart
<1>6. ASSUME NEW t \in AllToolRuns, ToolEnd(t) \/ \E e \in Exceptions : ToolError(t, e)
      PROVE  LinkInv'
    <2>1. /\ t \in Runs /\ t \notin LlmRuns /\ run[t] \in RunType /\ Running(t)
          /\ UNCHANGED lastInference
        BY <1>0, <1>6, RunFacts DEF ToolEnd, ToolError
    <2>2. CASE ToolEnd(t)
        <3> DEFINE y == [run[t] EXCEPT !.phase = "over", !.fate = "ok"]
        <3>1. run' = [run EXCEPT ![t] = y]
            BY <2>2 DEF ToolEnd
        <3>2. y.before = run[t].before /\ y.parent = run[t].parent
            BY <2>1 DEF RunType
        <3> HIDE DEF y
        <3> QED BY <2>1, <3>1, <3>2, LinkRunning
    <2>3. ASSUME NEW e \in Exceptions, ToolError(t, e) PROVE LinkInv'
        <3> DEFINE y == [run[t] EXCEPT !.phase = "over", !.fate = e, !.told = TRUE]
        <3>1. run' = [run EXCEPT ![t] = y]
            BY <2>3 DEF ToolError
        <3>2. y.before = run[t].before /\ y.parent = run[t].parent
            BY <2>1 DEF RunType
        <3> HIDE DEF y
        <3> QED BY <2>1, <3>1, <3>2, LinkRunning
    <2> QED BY <1>6, <2>2, <2>3
<1>7. ASSUME NEW r \in Runs, CancelledUntold(r) PROVE LinkInv'
    <2> DEFINE y == [run[r] EXCEPT !.phase = "over", !.fate = "cancelled"]
    <2>1. Running(r) /\ run' = [run EXCEPT ![r] = y] /\ UNCHANGED lastInference
        BY <1>7 DEF CancelledUntold
    <2>2. y.fate # "ok" /\ y.before = run[r].before /\ y.parent = run[r].parent
        BY <1>0 DEF RunType
    <2> HIDE DEF y
    <2> QED BY <2>1, <2>2, LinkRunning
<1>8. ASSUME NEW r \in Runs, SpanCollected(r) PROVE LinkInv'
    BY <1>8 DEF SpanCollected, LinkInv
<1> QED BY <1>1, <1>2, <1>3, <1>4, <1>5, <1>6, <1>7, <1>8 DEF CallbackNext, Runs

-----------------------------------------------------------------------------
(* The synchronous logger *)

Waiting == {"entering", "exiting", "starting", "closing"}

Whats == {"callback", "task", "result", "stop"}

Stage == [callback |-> 0, task |-> 1, result |-> 2, stop |-> 3]

SyncTypes ==
    /\ loops \in 0 .. MaxLoops /\ current \in 0 .. loops
    /\ ready \in [LoopIds -> Seq(Whats \X Callers)]
    /\ batch \in [LoopIds -> Nat]
    /\ ending \subseteq LoopIds /\ over \subseteq ending
    /\ DOMAIN at = Callers
    /\ \A t \in Threads : at[t] \in {"idle", "entering", "body", "exiting", "over", "raised"}
    /\ at[Owner] \in {"idle", "starting", "closing", "stopping", "joining", "raised"}
    /\ waitsOn \in [Callers -> 0 .. loops]
    /\ DOMAIN outcome = Threads
    /\ late \subseteq Callers

\* The loops that close() has asked to stop, and those it will ask next.
Asked(l) == l <= loops /\ (l = current => at[Owner] = "joining")
Left(l) == l = current => at[Owner] \in {"stopping", "joining"}

\* A loop that was not made has no work; one that has stopped has none left,
\* and only one that close() has asked to stops.
LoopInv ==
    /\ \A l \in LoopIds : batch[l] <= Len(ready[l])
    /\ \A l \in LoopIds : l > loops \/ l \in over => ready[l] = <<>>
    /\ \A l \in ending : Asked(l)
    /\ at[Owner] \in {"starting", "closing", "stopping", "joining"} => current # 0
    /\ at[Owner] \in {"starting", "closing"} => waitsOn[Owner] = current

\* The work of a loop is that of the threads that wait for it, one at a time.
JobInv ==
    \A l \in LoopIds : \A i \in 1 .. Len(ready[l]) :
        /\ IF ready[l][i][1] = "stop"
           THEN ready[l][i][2] = Owner /\ Asked(l)
           ELSE at[ready[l][i][2]] \in Waiting /\ waitsOn[ready[l][i][2]] = l
        /\ \A k \in 1 .. Len(ready[l]) : k # i => ready[l][k][2] # ready[l][i][2]

\* Who waits has work on its loop, unless that has stopped.
WaitInv ==
    \A t \in Threads :
        at[t] \in Waiting =>
            /\ waitsOn[t] # 0
            /\ \/ waitsOn[t] \in over
               \/ \E i \in 1 .. Len(ready[waitsOn[t]]) : ready[waitsOn[t]][i][2] = t

\* Behind the owner in the queue q are only those that are further on, and
\* before it those that are not less far, but for the excused.
Behind(q, excused) ==
    \A p, i \in 1 .. Len(q) :
        q[p][2] = Owner /\ q[i][2] \notin excused \cup {Owner} =>
            /\ i < p => Stage[q[i][1]] >= Stage[q[p][1]]
            /\ i > p => Stage[q[i][1]] > Stage[q[p][1]]

\* Nobody who called before close() is behind it.
RankInv == at[Owner] = "closing" => Behind(ready[current], late)

LateInv == \A t \in Threads : at[t] \in Waiting /\ Left(waitsOn[t]) => t \in late

SaidInv ==
    \A t \in Threads :
        /\ at[t] \in {"idle", "entering", "body", "raised"} => reports[t] = <<>>
        /\ at[t] = "exiting" =>
             \A l \in LoopIds : \A i \in 1 .. Len(ready[l]) :
                ready[l][i][2] = t =>
                    IF ready[l][i][1] = "result" THEN sdkClosed \/ Len(reports[t]) = 1
                    ELSE reports[t] = <<>>
        /\ at[t] = "over" => sdkClosed \/ Len(reports[t]) = 1
        /\ reports[t] = <<>> \/ (Len(reports[t]) = 1 /\ reports[t][1].status = StatusOf(outcome[t]))

SyncInv == SyncTypes /\ LoopInv /\ JobInv /\ WaitInv /\ RankInv /\ LateInv /\ EarlyCallsReturn /\ SaidInv

\* A queue with one more at its end, or one less at its front.
LEMMA Queues ==
    ASSUME NEW S, NEW q \in Seq(S), NEW x \in S
    PROVE  /\ Append(q, x) \in Seq(S) /\ Len(Append(q, x)) = Len(q) + 1
           /\ Append(q, x)[Len(q) + 1] = x
           /\ \A i \in 1 .. Len(q) : Append(q, x)[i] = q[i]
           /\ Len(q) \in Nat /\ \A i \in 1 .. Len(q) : q[i] \in S
           /\ q # <<>> => /\ Tail(q) \in Seq(S) /\ Len(Tail(q)) = Len(q) - 1
                          /\ Head(q) = q[1] /\ Len(q) > 0
                          /\ \A i \in 1 .. Len(q) - 1 : Tail(q)[i] = q[i + 1]
                          /\ Append(Tail(q), x) \in Seq(S)
                          /\ Len(Append(Tail(q), x)) = Len(q)
                          /\ Append(Tail(q), x)[Len(q)] = x
                          /\ \A i \in 1 .. Len(q) - 1 : Append(Tail(q), x)[i] = q[i + 1]
<1>1. ASSUME NEW p \in Seq(S)
      PROVE  /\ Append(p, x) \in Seq(S) /\ Len(Append(p, x)) = Len(p) + 1
             /\ Append(p, x)[Len(p) + 1] = x
             /\ \A i \in 1 .. Len(p) : Append(p, x)[i] = p[i]
    OBVIOUS
<1>2. q # <<>> => /\ Tail(q) \in Seq(S) /\ Len(Tail(q)) = Len(q) - 1
                  /\ Head(q) = q[1] /\ Len(q) > 0
                  /\ \A i \in 1 .. Len(q) - 1 : Tail(q)[i] = q[i + 1]
    OBVIOUS
<1>3. Len(q) \in Nat /\ \A i \in 1 .. Len(q) : q[i] \in S
    OBVIOUS
<1> QED BY <1>1, <1>2, <1>3

LEMMA Works ==
    ASSUME SyncTypes, NEW l \in LoopIds
    PROVE  /\ ready[l] \in Seq(Whats \X Callers) /\ Len(ready[l]) \in Nat
           /\ \A i \in 1 .. Len(ready[l]) : /\ ready[l][i][1] \in Whats
                                            /\ ready[l][i][2] \in Callers
<1>1. ready[l] \in Seq(Whats \X Callers)
    BY DEF SyncTypes
<1>2. ASSUME NEW i \in 1 .. Len(ready[l])
      PROVE  ready[l][i][1] \in Whats /\ ready[l][i][2] \in Callers
    <2>1. ready[l][i] \in Whats \X Callers
        BY <1>1
    <2> QED BY <2>1
<1> QED BY <1>1, <1>2

\* A thread without work on any loop submits a coroutine.
LEMMA Submitted ==
    ASSUME SyncInv, NEW t \in Callers, NEW waiting \in Waiting,
           at[t] \notin Waiting \cup {"stopping", "joining"},
           t = Owner => at[Owner] = "idle" /\ waiting = "closing",
           t \in Threads => at[t] \in {"idle", "body"} /\ waiting \in {"entering", "exiting"},
           current # 0, current \notin over,
           at' = [at EXCEPT ![t] = waiting], waitsOn' = [waitsOn EXCEPT ![t] = current],
           ready' = [ready EXCEPT ![current] = Append(@, <<"callback", t>>)],
           late' = IF at[Owner] \in {"closing", "stopping", "joining"}
                   THEN late \cup {t} ELSE late \ {t},
           DOMAIN outcome' = Threads, \A u \in Threads \ {t} : outcome'[u] = outcome[u],
           UNCHANGED <<current, loops, batch, ending, over, reports, sdkClosed>>
    PROVE  SyncInv'
<1> DEFINE q == ready[current]
           n == Len(q) + 1
<1>1. /\ current \in LoopIds /\ q \in Seq(Whats \X Callers)
      /\ <<"callback", t>> \in Whats \X Callers
    BY SyncAssumption DEF SyncInv, SyncTypes, LoopIds, Whats
<1>2. /\ ready' \in [LoopIds -> Seq(Whats \X Callers)]
      /\ Len(ready'[current]) = n /\ ready'[current][n] = <<"callback", t>>
      /\ \A i \in 1 .. Len(q) : ready'[current][i] = ready[current][i]
      /\ \A l \in LoopIds \ {current} : ready'[l] = ready[l]
      /\ Len(q) \in Nat
    <2>1. ready'[current] = Append(q, <<"callback", t>>)
        BY <1>1 DEF SyncInv, SyncTypes
    <2>2. \A l \in LoopIds \ {current} : ready'[l] = ready[l]
        BY DEF SyncInv, SyncTypes
    <2>3. Append(q, <<"callback", t>>) \in Seq(Whats \X Callers)
        BY <1>1, Queues
    <2>4. ready' \in [LoopIds -> Seq(Whats \X Callers)]
        BY <2>3 DEF SyncInv, SyncTypes
    <2> HIDE DEF q
    <2> QED BY <1>1, <2>1, <2>2, <2>4, Queues
<1>3. /\ at'[t] = waiting /\ waitsOn'[t] = current
      /\ \A u \in Callers \ {t} : at'[u] = at[u] /\ waitsOn'[u] = waitsOn[u]
      /\ DOMAIN at' = Callers /\ Owner \in Callers /\ Threads \subseteq Callers
      /\ Owner \notin Threads /\ waitsOn' \in [Callers -> 0 .. loops]
    BY SyncAssumption DEF SyncInv, SyncTypes, Callers
<1>0. /\ \A l : Asked(l) => Asked(l)'
      /\ \A u \in Threads : Left(waitsOn[u])' /\ u # t => Left(waitsOn[u])
      /\ Left(current)' => at[Owner] \in {"stopping", "joining"}
    BY <1>3 DEF Asked, Left, Waiting
<1>4. ASSUME NEW l \in LoopIds, NEW i \in 1 .. Len(ready[l])
      PROVE  /\ ready[l][i][2] \in Callers /\ ready[l][i][1] \in Whats
             /\ l = current \/ t \in Threads => ready[l][i][2] # t
             /\ ready[l][i][1] # "stop" => ready[l][i][2] # t
    <2>1. SyncTypes /\ JobInv
        BY DEF SyncInv
    <2>2. ready[l][i][1] # "stop" => ready[l][i][2] # t
        BY <2>1 DEF JobInv
    <2>3. l = current \/ t \in Threads => ready[l][i][2] # t
        <3>1. CASE ready[l][i][1] = "stop"
            BY <1>3, <2>1, <3>1 DEF JobInv, Asked
        <3> QED BY <2>2, <3>1
    <2> QED BY <2>1, <2>2, <2>3, Works
<1>5. SyncTypes'
    <2>1. at'[Owner] \in {"idle", "starting", "closing", "stopping", "joining", "raised"}
        BY <1>3 DEF SyncInv, SyncTypes
    <2>2. \A u \in Threads : at'[u] \in {"idle", "entering", "body", "exiting", "over", "raised"}
        BY <1>3 DEF SyncInv, SyncTypes
    <2> QED BY <1>2, <1>3, <2>1, <2>2 DEF SyncInv, SyncTypes
<1>6. LoopInv'
    <2>1. \A l \in LoopIds : batch[l] <= Len(ready'[l])
        BY <1>1, <1>2 DEF SyncInv, SyncTypes, LoopInv
    <2>2. \A l \in LoopIds : l > loops \/ l \in over => ready'[l] = <<>>
        BY <1>2 DEF SyncInv, SyncTypes, LoopInv, LoopIds
    <2>3. \A l \in ending : Asked(l)'
        BY <1>0 DEF SyncInv, LoopInv
    <2> QED BY <1>3, <2>1, <2>2, <2>3 DEF SyncInv, LoopInv, Waiting
<1>7. JobInv'
    <2> SUFFICES ASSUME NEW l \in LoopIds, NEW i \in 1 .. Len(ready'[l])
                 PROVE  /\ IF ready'[l][i][1] = "stop"
                           THEN ready'[l][i][2] = Owner /\ Asked(l)'
                           ELSE at'[ready'[l][i][2]] \in Waiting /\ waitsOn'[ready'[l][i][2]] = l
                        /\ \A k \in 1 .. Len(ready'[l]) : k # i => ready'[l][k][2] # ready'[l][i][2]
        BY DEF JobInv
    <2>1. CASE l = current /\ i = n
        <3>1. ready'[l][i][1] = "callback" /\ ready'[l][i][2] = t
            BY <1>2, <2>1
        <3>2. \A k \in 1 .. Len(ready'[l]) : k # i => ready'[l][k][2] # t
            BY <1>1, <1>2, <1>4, <2>1
        <3> QED BY <1>3, <2>1, <3>1, <3>2
    <2>2. CASE ~(l = current /\ i = n)
        <3>1. i \in 1 .. Len(ready[l]) /\ ready'[l][i] = ready[l][i]
            BY <1>2, <2>2
        <3>2. /\ IF ready[l][i][1] = "stop"
                 THEN ready[l][i][2] = Owner /\ Asked(l)
                 ELSE at[ready[l][i][2]] \in Waiting /\ waitsOn[ready[l][i][2]] = l
              /\ \A k \in 1 .. Len(ready[l]) : k # i => ready[l][k][2] # ready[l][i][2]
            BY <3>1 DEF SyncInv, JobInv
        <3>3. /\ ready[l][i][2] \in Callers
              /\ l = current \/ ready[l][i][1] # "stop" => ready[l][i][2] # t
            BY <1>4, <3>1
        <3>4. IF ready'[l][i][1] = "stop"
              THEN ready'[l][i][2] = Owner /\ Asked(l)'
              ELSE at'[ready'[l][i][2]] \in Waiting /\ waitsOn'[ready'[l][i][2]] = l
            BY <1>0, <1>3, <3>1, <3>2, <3>3
        <3>5. ASSUME NEW k \in 1 .. Len(ready'[l]), k # i
              PROVE  ready'[l][k][2] # ready'[l][i][2]
            <4>1. CASE l = current /\ k = n
                BY <1>2, <3>1, <3>3, <4>1
            <4>2. CASE ~(l = current /\ k = n)
                <5>1. k \in 1 .. Len(ready[l]) /\ ready'[l][k] = ready[l][k]
                    BY <1>2, <4>2
                <5> QED BY <3>1, <3>2, <3>5, <5>1
            <4> QED BY <4>1, <4>2
        <3> QED BY <3>4, <3>5
    <2> QED BY <2>1, <2>2
<1>8. WaitInv'
    <2> SUFFICES ASSUME NEW u \in Threads, at'[u] \in Waiting
                 PROVE  /\ waitsOn'[u] # 0
                        /\ \/ waitsOn'[u] \in over'
                           \/ \E i \in 1 .. Len(ready'[waitsOn'[u]]) : ready'[waitsOn'[u]][i][2] = u
        BY DEF WaitInv
    <2>1. CASE u = t
        <3>1. n \in 1 .. Len(ready'[current]) /\ ready'[current][n][2] = u
            BY <1>2, <2>1
        <3> QED BY <1>3, <2>1, <3>1
    <2>2. CASE u # t
        <3>1. at'[u] = at[u] /\ waitsOn'[u] = waitsOn[u]
            BY <1>3, <2>2
        <3>2. CASE waitsOn[u] \in over
            BY <3>1, <3>2 DEF SyncInv, WaitInv
        <3>3. CASE waitsOn[u] \notin over
            <4>1. waitsOn[u] # 0
                BY <3>1 DEF SyncInv, WaitInv
            <4>2. PICK i \in 1 .. Len(ready[waitsOn[u]]) : ready[waitsOn[u]][i][2] = u
                BY <3>1, <3>3 DEF SyncInv, WaitInv
            <4>3. waitsOn[u] \in LoopIds
                BY SMTT(30), <1>3, <4>1, SyncAssumption DEF SyncInv, SyncTypes, LoopIds
            <4>4. i \in 1 .. Len(ready'[waitsOn[u]]) /\ ready'[waitsOn[u]][i] = ready[waitsOn[u]][i]
                BY <1>2, <4>3
            <4> QED BY <3>1, <4>1, <4>2, <4>4
        <3> QED BY <3>2, <3>3
    <2> QED BY <2>1, <2>2
<1>9. RankInv'
    <2> SUFFICES ASSUME at'[Owner] = "closing",
                        NEW p \in 1 .. Len(ready'[current]), NEW i \in 1 .. Len(ready'[current]),
                        ready'[current][p][2] = Owner,
                        ready'[current][i][2] \notin late' \cup {Owner}
                 PROVE  /\ i < p => Stage[ready'[current][i][1]] >= Stage[ready'[current][p][1]]
                        /\ i > p => Stage[ready'[current][i][1]] > Stage[ready'[current][p][1]]
        BY SMTT(30) DEF RankInv, Behind
    <2>1. CASE t = Owner
        <3>1. p = n
            BY <1>1, <1>2, <1>4, <2>1
        <3>2. CASE i < p
            <4>1. i \in 1 .. Len(ready[current]) /\ ready'[current][i] = ready[current][i]
                BY <1>2, <3>1, <3>2
            <4>2. ready'[current][i][1] \in Whats /\ ready'[current][p][1] = "callback"
                BY <1>1, <1>2, <1>4, <3>1, <4>1
            <4> QED BY <3>2, <4>2 DEF Stage, Whats
        <3> QED BY <1>2, <3>1, <3>2
    <2>2. CASE t # Owner
        <3>1. late' = late \cup {t} /\ at[Owner] = "closing"
            BY <1>3, <2>2
        <3>2. p # n /\ i # n
            BY <1>2, <2>2, <3>1
        <3>3. /\ p \in 1 .. Len(ready[current]) /\ ready'[current][p] = ready[current][p]
              /\ i \in 1 .. Len(ready[current]) /\ ready'[current][i] = ready[current][i]
            BY <1>2, <3>2
        <3> QED BY <3>1, <3>3 DEF SyncInv, RankInv, Behind
    <2> QED BY <2>1, <2>2
<1>10. LateInv' /\ EarlyCallsReturn'
    <2>1. ASSUME NEW u \in Threads, at'[u] \in Waiting, Left(waitsOn[u])'
          PROVE  u \in late'
        <3>1. CASE u = t
            <4>1. Left(current)'
                BY <1>3, <2>1, <3>1 DEF Left
            <4> QED BY <1>0, <3>1, <4>1
        <3>2. CASE u # t
            BY <1>0, <1>3, <2>1, <3>2 DEF SyncInv, LateInv
        <3> QED BY <3>1, <3>2
    <2>2. LateInv'
        BY <2>1 DEF LateInv
    <2>3. EarlyCallsReturn'
        BY <1>3 DEF SyncInv, EarlyCallsReturn
    <2> QED BY <2>2, <2>3
<1>11. SaidInv'
    <2> SUFFICES ASSUME NEW u \in Threads
                 PROVE  /\ at'[u] \in {"idle", "entering", "body", "raised"} => reports[u] = <<>>
                        /\ at'[u] = "exiting" =>
                             \A l \in LoopIds : \A i \in 1 .. Len(ready'[l]) :
                                ready'[l][i][2] = u =>
                                    IF ready'[l][i][1] = "result"
                                    THEN sdkClosed \/ Len(reports[u]) = 1
                                    ELSE reports[u] = <<>>
                        /\ at'[u] = "over" => sdkClosed \/ Len(reports[u]) = 1
                        /\ \/ reports[u] = <<>>
                           \/ /\ Len(reports[u]) = 1
                              /\ reports[u][1].status = StatusOf(outcome'[u])
        BY DEF SaidInv
    <2>1. CASE u = t
        <3>1. reports[u] = <<>> /\ at'[u] \in {"entering", "exiting"}
            BY <1>3, <2>1 DEF SyncInv, SaidInv
        <3>2. \A l \in LoopIds : \A i \in 1 .. Len(ready'[l]) :
                  ready'[l][i][2] = u => ready'[l][i][1] = "callback"
            <4> SUFFICES ASSUME NEW l \in LoopIds, NEW i \in 1 .. Len(ready'[l]),
                                ready'[l][i][2] = u
                         PROVE  ready'[l][i][1] = "callback"
                OBVIOUS
            <4>1. CASE l = current /\ i = n
                BY <1>2, <4>1
            <4>2. CASE ~(l = current /\ i = n)
                <5>1. i \in 1 .. Len(ready[l]) /\ ready'[l][i] = ready[l][i]
                    BY <1>2, <4>2
                <5> QED BY <1>4, <2>1, <5>1
            <4> QED BY <4>1, <4>2
        <3> QED BY <3>1, <3>2
    <2>2. CASE u # t
        <3>1. at'[u] = at[u] /\ outcome'[u] = outcome[u]
            BY <1>3, <2>2
        <3>2. ASSUME NEW l \in LoopIds, NEW i \in 1 .. Len(ready'[l]), ready'[l][i][2] = u
              PROVE  i \in 1 .. Len(ready[l]) /\ ready'[l][i] = ready[l][i]
            <4>1. ~(l = current /\ i = n)
                BY <1>2, <2>2, <3>2
            <4> QED BY <1>2, <4>1
        <3> QED BY <3>1, <3>2 DEF SyncInv, SaidInv
    <2> QED BY <2>1, <2>2
<1> QED BY <1>5, <1>6, <1>7, <1>8, <1>9, <1>10, <1>11 DEF SyncInv

\* A thread goes on with an exception.
LEMMA Raises ==
    ASSUME SyncInv, NEW t \in Threads, at[t] \in {"idle", "body"},
           at' = [at EXCEPT ![t] = "raised"], DOMAIN outcome' = Threads,
           \A u \in Threads \ {t} : outcome'[u] = outcome[u],
           UNCHANGED <<current, loops, ready, batch, ending, over, waitsOn, late, reports,
                       sdkClosed>>
    PROVE  SyncInv'
<1>1. /\ at'[t] = "raised" /\ \A u \in Callers \ {t} : at'[u] = at[u]
      /\ DOMAIN at' = Callers /\ t \in Callers /\ Owner \in Callers /\ Threads \subseteq Callers
      /\ t # Owner
    BY SyncAssumption DEF SyncInv, SyncTypes, Callers
<1>2. reports[t] = <<>>
    BY DEF SyncInv, SaidInv
<1>3. ASSUME NEW l \in LoopIds, NEW i \in 1 .. Len(ready[l])
      PROVE  ready[l][i][2] # t /\ ready[l][i][2] \in Callers
    <2>1. SyncTypes /\ JobInv
        BY DEF SyncInv
    <2>2. ready[l][i][2] # t
        BY <1>1, <2>1 DEF JobInv, Waiting
    <2> QED BY <2>1, <2>2, Works
<1>4. SyncTypes' /\ LoopInv'
    BY <1>1 DEF SyncInv, SyncTypes, LoopInv, Asked
<1>5. JobInv'
    BY <1>1, <1>3 DEF SyncInv, JobInv, Asked
<1>6. WaitInv' /\ LateInv' /\ EarlyCallsReturn'
    BY <1>1 DEF SyncInv, WaitInv, LateInv, Left, EarlyCallsReturn, Waiting
<1>7. RankInv'
    BY <1>1 DEF SyncInv, RankInv
<1>8. SaidInv'
    BY <1>1, <1>2 DEF SyncInv, SaidInv
<1> QED BY <1>4, <1>5, <1>6, <1>7, <1>8 DEF SyncInv

LEMMA EnterInv ==
    ASSUME SyncInv, NEW t \in Threads, Enter(t) \/ Body(t)
    PROVE  SyncInv' /\ UNCHANGED <<reports, sdkClosed>>
<1>1. t \in Callers /\ t # Owner /\ at[t] \in {"idle", "body"}
    BY SyncAssumption DEF Callers, Enter, Body
<1>2. PICK waiting \in {"entering", "exiting"} :
          /\ SubmitCoro(t, waiting)
          /\ UNCHANGED <<current, loops, batch, ending, over, reports, sdkClosed>>
    BY DEF Enter, Body
<1>3. DOMAIN outcome' = Threads /\ \A u \in Threads \ {t} : outcome'[u] = outcome[u]
    BY DEF Enter, Body, SyncInv, SyncTypes
<1>4. CASE current = 0 \/ current \in over
    BY <1>1, <1>2, <1>3, <1>4, Raises DEF SubmitCoro
<1>5. CASE ~(current = 0 \/ current \in over)
    <2>1. waiting \in Waiting /\ at[t] \notin Waiting \cup {"stopping", "joining"}
        BY <1>1 DEF Waiting
    <2>2. /\ at' = [at EXCEPT ![t] = waiting] /\ waitsOn' = [waitsOn EXCEPT ![t] = current]
          /\ ready' = [ready EXCEPT ![current] = Append(@, <<"callback", t>>)]
          /\ late' = IF at[Owner] \in {"closing", "stopping", "joining"}
                     THEN late \cup {t} ELSE late \ {t}
        BY <1>2, <1>5 DEF SubmitCoro
    <2> QED BY <1>1, <1>2, <1>3, <1>5, <2>1, <2>2, Submitted
<1> QED BY <1>2, <1>4, <1>5

LEMMA CloseInv ==
    ASSUME SyncInv, Close
    PROVE  SyncInv' /\ UNCHANGED <<reports, sdkClosed>>
<1>1. /\ at[Owner] = "idle" /\ current # 0 /\ SubmitCoro(Owner, "closing")
      /\ UNCHANGED <<current, loops, batch, ending, over, outcome, reports, sdkClosed>>
    BY DEF Close
<1>2. current \notin over
    BY <1>1 DEF SyncInv, SyncTypes, LoopInv, Asked
<1>3. /\ Owner \in Callers /\ Owner \notin Threads /\ "closing" \in Waiting
      /\ at[Owner] \notin Waiting \cup {"stopping", "joining"}
      /\ DOMAIN outcome' = Threads /\ \A u \in Threads \ {Owner} : outcome'[u] = outcome[u]
    BY <1>1, SyncAssumption DEF Callers, Waiting, SyncInv, SyncTypes
<1>4. /\ at' = [at EXCEPT ![Owner] = "closing"]
      /\ waitsOn' = [waitsOn EXCEPT ![Owner] = current]
      /\ ready' = [ready EXCEPT ![current] = Append(@, <<"callback", Owner>>)]
      /\ late' = IF at[Owner] \in {"closing", "stopping", "joining"}
                 THEN late \cup {Owner} ELSE late \ {Owner}
    BY <1>1, <1>2 DEF SubmitCoro
<1> QED BY <1>1, <1>2, <1>3, <1>4, Submitted

\* A new loop has the start of the transport to do, and nobody else's work.
LEMMA StartInv ==
    ASSUME SyncInv, Start
    PROVE  SyncInv' /\ UNCHANGED <<reports, sdkClosed>>
<1> DEFINE n == loops + 1
<1>1. /\ at[Owner] = "idle" /\ current = 0 /\ loops < MaxLoops
      /\ loops' = n /\ current' = n
      /\ at' = [at EXCEPT ![Owner] = "starting"]
      /\ waitsOn' = [waitsOn EXCEPT ![Owner] = n]
      /\ ready' = [ready EXCEPT ![n] = <<<<"callback", Owner>>>>]
      /\ UNCHANGED <<batch, ending, over, outcome, late, reports, sdkClosed>>
    BY DEF Start
<1>2. loops \in 0 .. MaxLoops /\ n \in LoopIds /\ n > loops /\ n \in 0 .. MaxLoops /\ loops \in Nat
    BY <1>1, SyncAssumption DEF SyncInv, SyncTypes, LoopIds
<1>3. /\ Owner \in Callers /\ Owner \notin Threads /\ Threads \subseteq Callers
      /\ at'[Owner] = "starting" /\ \A u \in Callers \ {Owner} : at'[u] = at[u]
      /\ DOMAIN at' = Callers
      /\ waitsOn'[Owner] = n /\ \A u \in Callers \ {Owner} : waitsOn'[u] = waitsOn[u]
      /\ waitsOn' \in [Callers -> 0 .. n] /\ waitsOn \in [Callers -> 0 .. loops]
    BY <1>1, <1>2, SyncAssumption DEF SyncInv, SyncTypes, Callers
<1>4. /\ ready' \in [LoopIds -> Seq(Whats \X Callers)]
      /\ Len(ready'[n]) = 1 /\ ready'[n][1] = <<"callback", Owner>>
      /\ \A l \in LoopIds \ {n} : ready'[l] = ready[l]
    <2>1. <<<<"callback", Owner>>>> \in Seq(Whats \X Callers)
        BY <1>3 DEF Whats
    <2>2. Len(<<<<"callback", Owner>>>>) = 1 /\ <<<<"callback", Owner>>>>[1] = <<"callback", Owner>>
        OBVIOUS
    <2> QED BY <1>1, <1>2, <2>1, <2>2 DEF SyncInv, SyncTypes
<1>5. /\ ready[n] = <<>> /\ batch[n] <= 0 /\ n \notin ending /\ n \notin over
      /\ \A l : Asked(l) /\ l \in LoopIds => Asked(l)'
    BY <1>1, <1>2, <1>3 DEF SyncInv, LoopInv, SyncTypes, Asked, LoopIds
<1>6. ASSUME NEW l \in LoopIds, NEW i \in 1 .. Len(ready[l])
      PROVE  /\ ready[l][i][1] # "stop" => ready[l][i][2] # Owner
             /\ ready[l][i][2] \in Callers
    <2>1. SyncTypes /\ JobInv
        BY DEF SyncInv
    <2>2. ready[l][i][1] # "stop" => ready[l][i][2] # Owner
        BY <1>1, <2>1 DEF JobInv, Waiting
    <2> QED BY <2>1, <2>2, Works
<1>7. SyncTypes'
    BY <1>1, <1>2, <1>3, <1>4 DEF SyncInv, SyncTypes
<1>8. LoopInv'
    <2>1. \A l \in LoopIds : batch[l] <= Len(ready'[l])
        <3>1. batch[n] \in Nat /\ batch[n] <= Len(ready'[n])
            BY <1>2, <1>4, <1>5 DEF SyncInv, SyncTypes
        <3>2. \A l \in LoopIds \ {n} : batch[l] <= Len(ready'[l])
            BY <1>4 DEF SyncInv, LoopInv
        <3> QED BY <3>1, <3>2
    <2>2. \A l \in LoopIds : l > n \/ l \in over => ready'[l] = <<>>
        BY <1>2, <1>4, <1>5 DEF SyncInv, LoopInv, LoopIds
    <2>3. \A l \in ending : Asked(l)'
        BY <1>5 DEF SyncInv, LoopInv, SyncTypes
    <2> QED BY <1>1, <1>2, <1>3, <1>5, <2>1, <2>2, <2>3 DEF LoopInv
<1>9. JobInv'
    <2> SUFFICES ASSUME NEW l \in LoopIds, NEW i \in 1 .. Len(ready'[l])
                 PROVE  /\ IF ready'[l][i][1] = "stop"
                           THEN ready'[l][i][2] = Owner /\ Asked(l)'
                           ELSE at'[ready'[l][i][2]] \in Waiting /\ waitsOn'[ready'[l][i][2]] = l
                        /\ \A k \in 1 .. Len(ready'[l]) : k # i => ready'[l][k][2] # ready'[l][i][2]
        BY DEF JobInv
    <2>1. CASE l = n
        BY <1>3, <1>4, <2>1 DEF Waiting
    <2>2. CASE l # n
        <3>1. ready'[l] = ready[l] /\ i \in 1 .. Len(ready[l])
            BY <1>4, <2>2
        <3>2. /\ ready[l][i][1] # "stop" => ready[l][i][2] # Owner
              /\ ready[l][i][2] \in Callers
            BY <1>6, <3>1
        <3>3. /\ IF ready[l][i][1] = "stop"
                 THEN ready[l][i][2] = Owner /\ Asked(l)
                 ELSE at[ready[l][i][2]] \in Waiting /\ waitsOn[ready[l][i][2]] = l
              /\ \A k \in 1 .. Len(ready[l]) : k # i => ready[l][k][2] # ready[l][i][2]
            BY <3>1 DEF SyncInv, JobInv
        <3> QED BY <1>3, <1>5, <3>1, <3>2, <3>3
    <2> QED BY <2>1, <2>2
<1>10. WaitInv'
    <2> SUFFICES ASSUME NEW u \in Threads, at[u] \in Waiting
                 PROVE  /\ waitsOn[u] # 0
                        /\ \/ waitsOn[u] \in over
                           \/ \E i \in 1 .. Len(ready'[waitsOn[u]]) : ready'[waitsOn[u]][i][2] = u
        BY <1>1, <1>3 DEF WaitInv
    <2>1. /\ waitsOn[u] # 0
          /\ \/ waitsOn[u] \in over
             \/ \E i \in 1 .. Len(ready[waitsOn[u]]) : ready[waitsOn[u]][i][2] = u
        BY DEF SyncInv, WaitInv
    <2>2. waitsOn[u] \in LoopIds \ {n}
        BY <1>2, <1>3, <2>1, SyncAssumption DEF LoopIds
    <2> QED BY <1>4, <2>1, <2>2
<1>11. RankInv' /\ LateInv' /\ EarlyCallsReturn'
    <2>1. ASSUME NEW u \in Threads, at'[u] \in Waiting PROVE u \in late
        <3>1. at[u] \in Waiting /\ waitsOn[u] # 0
            BY <1>3, <2>1 DEF SyncInv, WaitInv
        <3> QED BY <1>1, <3>1 DEF SyncInv, LateInv, Left
    <2> QED BY <1>1, <1>3, <2>1 DEF RankInv, LateInv, SyncInv, EarlyCallsReturn
<1>12. SaidInv'
    <2>1. ASSUME NEW u \in Threads, NEW l \in LoopIds, NEW i \in 1 .. Len(ready'[l]),
                 ready'[l][i][2] = u
          PROVE  i \in 1 .. Len(ready[l]) /\ ready'[l][i] = ready[l][i]
        <3>1. CASE l = n
            <4>0. Len(ready'[l]) = 1
                BY <1>4, <3>1
            <4>1. i = 1
                BY <4>0
            <4>2. u = Owner
                BY <1>4, <2>1, <3>1, <4>1
            <4> QED BY <1>3, <4>2
        <3>2. CASE l # n
            BY <1>4, <3>2
        <3> QED BY <3>1, <3>2
    <2>2. \A u \in Threads : at'[u] = at[u]
        BY <1>3
    <2> QED BY <1>1, <2>1, <2>2 DEF SyncInv, SaidInv
<1> QED BY <1>1, <1>7, <1>8, <1>9, <1>10, <1>11, <1>12 DEF SyncInv

\* The daemon takes what is queued, ends, or is told to end, or has ended.
LEMMA IterateInv ==
    ASSUME SyncInv, NEW l \in LoopIds, Iterate(l)
    PROVE  SyncInv' /\ UNCHANGED <<reports, sdkClosed>>
<1>1. /\ batch' = [batch EXCEPT ![l] = Len(ready[l])]
      /\ UNCHANGED <<current, loops, ready, ending, over, at, waitsOn, outcome, late, reports,
                     sdkClosed>>
    BY DEF Iterate
<1>2. /\ batch' \in [LoopIds -> Nat] /\ batch'[l] = Len(ready[l])
      /\ \A m \in LoopIds \ {l} : batch'[m] = batch[m]
    <2>1. Len(ready[l]) \in Nat
        BY Works DEF SyncInv
    <2> QED BY <1>1, <2>1 DEF SyncInv, SyncTypes
<1>3. \A m \in LoopIds : batch'[m] <= Len(ready[m])
    <2>1. Len(ready[l]) \in Nat
        BY Works DEF SyncInv
    <2> QED BY <1>2, <2>1 DEF SyncInv, LoopInv
<1>4. SyncTypes' /\ LoopInv'
    BY <1>1, <1>2, <1>3 DEF SyncInv, SyncTypes, LoopInv, Asked
<1>5. JobInv' /\ WaitInv' /\ RankInv'
    BY <1>1 DEF SyncInv, JobInv, WaitInv, RankInv, Asked
<1>6. LateInv' /\ EarlyCallsReturn' /\ SaidInv'
    BY <1>1 DEF SyncInv, LateInv, Left, EarlyCallsReturn, SaidInv
<1> QED BY <1>1, <1>4, <1>5, <1>6 DEF SyncInv

LEMMA EndLoopInv ==
    ASSUME SyncInv, NEW l \in LoopIds, EndLoop(l)
    PROVE  SyncInv' /\ UNCHANGED <<reports, sdkClosed>>
<1>1. /\ batch[l] = 0 /\ l \in ending \ over /\ over' = over \cup {l}
      /\ ready' = [ready EXCEPT ![l] = <<>>]
      /\ UNCHANGED <<current, loops, batch, ending, at, waitsOn, outcome, late, reports,
                     sdkClosed>>
    BY DEF EndLoop
<1>2. /\ l = current => at[Owner] = "joining"
      /\ \A m : Asked(m)' <=> Asked(m)
    BY <1>1 DEF SyncInv, LoopInv, Asked
<1>3. /\ ready' \in [LoopIds -> Seq(Whats \X Callers)] /\ Len(ready'[l]) = 0 /\ ready'[l] = <<>>
      /\ \A m \in LoopIds \ {l} : ready'[m] = ready[m]
    <2>1. <<>> \in Seq(Whats \X Callers) /\ Len(<<>>) = 0
        OBVIOUS
    <2> QED BY <1>1, <2>1 DEF SyncInv, SyncTypes
<1>4. SyncTypes'
    BY <1>1, <1>3 DEF SyncInv, SyncTypes
<1>5. LoopInv'
    <2>1. \A m \in LoopIds : batch[m] <= Len(ready'[m])
        BY <1>1, <1>3 DEF SyncInv, LoopInv
    <2>2. \A m \in LoopIds : m > loops \/ m \in over' => ready'[m] = <<>>
        BY <1>1, <1>3 DEF SyncInv, LoopInv
    <2> QED BY <1>1, <1>2, <2>1, <2>2 DEF SyncInv, LoopInv
<1>6. \A m \in LoopIds : \A i \in 1 .. Len(ready'[m]) : m # l /\ ready'[m] = ready[m]
    BY <1>3
<1>7. JobInv'
    BY <1>1, <1>2, <1>6 DEF SyncInv, JobInv
<1>8. WaitInv'
    <2> SUFFICES ASSUME NEW u \in Threads, at[u] \in Waiting
                 PROVE  /\ waitsOn[u] # 0
                        /\ \/ waitsOn[u] \in over'
                           \/ \E i \in 1 .. Len(ready'[waitsOn[u]]) : ready'[waitsOn[u]][i][2] = u
        BY <1>1 DEF WaitInv
    <2>1. /\ waitsOn[u] # 0
          /\ \/ waitsOn[u] \in over
             \/ \E i \in 1 .. Len(ready[waitsOn[u]]) : ready[waitsOn[u]][i][2] = u
        BY DEF SyncInv, WaitInv
    <2>2. waitsOn[u] \in LoopIds
        BY <2>1, SyncAssumption DEF SyncInv, SyncTypes, LoopIds, Callers
    <2> QED BY <1>1, <1>3, <2>1, <2>2
<1>9. RankInv' /\ LateInv'
    <2>1. LateInv'
        BY <1>1 DEF SyncInv, LateInv, Left
    <2>2. ASSUME at[Owner] = "closing" PROVE Behind(ready'[current], late)
        <3>1. current \in LoopIds \ {l}
            BY <1>2, <2>2, SyncAssumption DEF SyncInv, SyncTypes, LoopInv, LoopIds
        <3> QED BY <1>3, <2>2, <3>1 DEF SyncInv, RankInv
    <2> QED BY <1>1, <2>1, <2>2 DEF RankInv
<1>10. EarlyCallsReturn'
    BY <1>4, <1>5, <1>9 DEF SyncTypes, LoopInv, LateInv, EarlyCallsReturn, Asked, Left, Waiting
<1>11. SaidInv'
    BY <1>1, <1>6 DEF SyncInv, SaidInv
<1> QED BY <1>1, <1>4, <1>5, <1>7, <1>8, <1>9, <1>10, <1>11 DEF SyncInv

LEMMA JoinedInv ==
    ASSUME SyncInv, Joined
    PROVE  SyncInv' /\ UNCHANGED <<reports, sdkClosed>>
<1>1. /\ at[Owner] = "joining" /\ at' = [at EXCEPT ![Owner] = "idle"]
      /\ current' = 0
      /\ UNCHANGED <<loops, ready, batch, ending, over, waitsOn, outcome, late, reports,
                     sdkClosed>>
    BY DEF Joined
<1>2. /\ Owner \in Callers /\ Owner \notin Threads /\ Threads \subseteq Callers
      /\ at'[Owner] = "idle" /\ \A u \in Callers \ {Owner} : at'[u] = at[u]
      /\ DOMAIN at' = Callers
    BY <1>1, SyncAssumption DEF SyncInv, SyncTypes, Callers
<1>3. \A l : Asked(l) /\ l \in LoopIds => Asked(l)'
    BY <1>1, SyncAssumption DEF Asked, LoopIds
<1>4. ASSUME NEW l \in LoopIds, NEW i \in 1 .. Len(ready[l])
      PROVE  /\ ready[l][i][1] # "stop" => ready[l][i][2] # Owner
             /\ ready[l][i][2] \in Callers
    <2>1. SyncTypes /\ JobInv
        BY DEF SyncInv
    <2>2. ready[l][i][1] # "stop" => ready[l][i][2] # Owner
        BY <1>1, <2>1 DEF JobInv, Waiting
    <2> QED BY <2>1, <2>2, Works
<1>5. SyncTypes'
    BY <1>1, <1>2 DEF SyncInv, SyncTypes
<1>6. LoopInv'
    BY <1>1, <1>2, <1>3 DEF SyncInv, SyncTypes, LoopInv
<1>7. JobInv'
    BY <1>1, <1>2, <1>3, <1>4 DEF SyncInv, JobInv
<1>8. WaitInv' /\ EarlyCallsReturn'
    BY <1>1, <1>2 DEF SyncInv, WaitInv, EarlyCallsReturn
<1>9. RankInv' /\ LateInv'
    <2>1. ASSUME NEW u \in Threads, at'[u] \in Waiting PROVE u \in late
        BY <1>1, <1>2, <2>1 DEF SyncInv, LateInv, Left
    <2> QED BY <1>1, <1>2, <2>1 DEF RankInv, LateInv
<1>10. SaidInv'
    BY <1>1, <1>2 DEF SyncInv, SaidInv
<1> QED BY <1>1, <1>5, <1>6, <1>7, <1>8, <1>9, <1>10 DEF SyncInv

LEMMA AskToStopInv ==
    ASSUME SyncInv, AskToStop
    PROVE  SyncInv' /\ UNCHANGED <<reports, sdkClosed>>
<1> DEFINE q == ready[current]
           n == Len(q) + 1
<1>1. /\ at[Owner] = "stopping" /\ at' = [at EXCEPT ![Owner] = "joining"]
      /\ ready' = [ready EXCEPT ![current] = Append(@, <<"stop", Owner>>)]
      /\ UNCHANGED <<current, loops, batch, ending, over, waitsOn, outcome, late, reports,
                     sdkClosed>>
    BY DEF AskToStop
<1>2. /\ Owner \in Callers /\ Owner \notin Threads /\ Threads \subseteq Callers
      /\ at'[Owner] = "joining" /\ \A u \in Callers \ {Owner} : at'[u] = at[u]
      /\ DOMAIN at' = Callers
    BY <1>1, SyncAssumption DEF SyncInv, SyncTypes, Callers
<1>3. /\ current # 0 /\ current \in LoopIds /\ current \notin over
      /\ current <= loops /\ current \in Nat /\ loops \in Nat
    BY <1>1, SyncAssumption DEF SyncInv, SyncTypes, LoopInv, LoopIds, Asked
<1>14. /\ \A l : Asked(l) => Asked(l)'
       /\ Asked(current)'
       /\ \A l : Left(l)' => Left(l)
    BY <1>1, <1>2, <1>3 DEF Asked, Left
<1>4. /\ ready' \in [LoopIds -> Seq(Whats \X Callers)]
      /\ Len(ready'[current]) = n /\ ready'[current][n] = <<"stop", Owner>>
      /\ \A i \in 1 .. Len(q) : ready'[current][i] = ready[current][i]
      /\ \A l \in LoopIds \ {current} : ready'[l] = ready[l]
      /\ Len(q) \in Nat
    <2>1. ready'[current] = Append(q, <<"stop", Owner>>)
        BY <1>1, <1>3 DEF SyncInv, SyncTypes
    <2>2. \A l \in LoopIds \ {current} : ready'[l] = ready[l]
        BY <1>1 DEF SyncInv, SyncTypes
    <2>3. <<"stop", Owner>> \in Whats \X Callers /\ q \in Seq(Whats \X Callers)
        BY <1>2, <1>3 DEF Whats, SyncInv, SyncTypes
    <2>4. Append(q, <<"stop", Owner>>) \in Seq(Whats \X Callers)
        BY <2>3, Queues
    <2>5. ready' \in [LoopIds -> Seq(Whats \X Callers)]
        BY <1>1, <2>4 DEF SyncInv, SyncTypes
    <2> HIDE DEF q
    <2>6. /\ Len(Append(q, <<"stop", Owner>>)) = Len(q) + 1 /\ Len(q) \in Nat
          /\ Append(q, <<"stop", Owner>>)[Len(q) + 1] = <<"stop", Owner>>
          /\ \A i \in 1 .. Len(q) : Append(q, <<"stop", Owner>>)[i] = q[i]
        BY <2>3, Queues
    <2>7. q = ready[current]
        BY DEF q
    <2> QED BY <2>1, <2>2, <2>5, <2>6, <2>7
<1>5. ASSUME NEW l \in LoopIds, NEW i \in 1 .. Len(ready[l])
      PROVE  /\ ready[l][i][2] \in Callers
             /\ l = current \/ ready[l][i][1] # "stop" => ready[l][i][2] # Owner
             /\ l = current => ready[l][i][1] # "stop"
    <2>1. SyncTypes /\ JobInv
        BY DEF SyncInv
    <2>2. ready[l][i][1] # "stop" => ready[l][i][2] # Owner
        BY <1>1, <2>1 DEF JobInv, Waiting
    <2>3. l = current => ready[l][i][1] # "stop"
        BY <1>1, <2>1 DEF JobInv, Asked
    <2> QED BY <2>1, <2>2, <2>3, Works
<1>6. ASSUME NEW l \in LoopIds, NEW i \in 1 .. Len(ready'[l]), ~(l = current /\ i = n)
      PROVE  i \in 1 .. Len(ready[l]) /\ ready'[l][i] = ready[l][i]
    BY <1>4, <1>6
<1>7. ready'[current][n][1] = "stop" /\ ready'[current][n][2] = Owner
    BY <1>4
<1>8. SyncTypes'
    BY <1>1, <1>2, <1>4 DEF SyncInv, SyncTypes
<1>9. LoopInv'
    <2>1. \A l \in LoopIds : batch[l] <= Len(ready'[l])
        <3>1. batch[current] \in Nat /\ batch[current] <= Len(q)
            BY <1>3 DEF SyncInv, SyncTypes, LoopInv
        <3>2. batch[current] <= Len(ready'[current])
            BY <1>4, <3>1
        <3> QED BY <1>4, <3>2 DEF SyncInv, LoopInv
    <2>2. \A l \in LoopIds : l > loops \/ l \in over => ready'[l] = <<>>
        BY <1>3, <1>4 DEF SyncInv, LoopInv
    <2> QED BY <1>1, <1>2, <1>3, <1>14, <2>1, <2>2 DEF SyncInv, LoopInv
<1>10. JobInv'
    <2> SUFFICES ASSUME NEW l \in LoopIds, NEW i \in 1 .. Len(ready'[l])
                 PROVE  /\ IF ready'[l][i][1] = "stop"
                           THEN ready'[l][i][2] = Owner /\ Asked(l)'
                           ELSE at'[ready'[l][i][2]] \in Waiting /\ waitsOn'[ready'[l][i][2]] = l
                        /\ \A k \in 1 .. Len(ready'[l]) : k # i => ready'[l][k][2] # ready'[l][i][2]
        BY DEF JobInv
    <2>1. CASE l = current /\ i = n
        <3>1. \A k \in 1 .. Len(ready'[l]) : k # i => ready'[l][k][2] # Owner
            BY <1>3, <1>5, <1>6, <2>1
        <3> QED BY <1>1, <1>2, <1>7, <1>14, <2>1, <3>1
    <2>2. CASE ~(l = current /\ i = n)
        <3>1. i \in 1 .. Len(ready[l]) /\ ready'[l][i] = ready[l][i]
            BY <1>6, <2>2
        <3>2. /\ ready[l][i][2] \in Callers
              /\ l = current \/ ready[l][i][1] # "stop" => ready[l][i][2] # Owner
            BY <1>5, <3>1
        <3>3. IF ready[l][i][1] = "stop"
              THEN ready[l][i][2] = Owner /\ Asked(l)
              ELSE at[ready[l][i][2]] \in Waiting /\ waitsOn[ready[l][i][2]] = l
            BY <3>1 DEF SyncInv, JobInv
        <3>4. ASSUME NEW k \in 1 .. Len(ready'[l]), k # i
              PROVE  ready'[l][k][2] # ready'[l][i][2]
            <4>1. CASE l = current /\ k = n
                BY <1>7, <3>1, <3>2, <4>1
            <4>2. CASE ~(l = current /\ k = n)
                BY SMTT(30), <1>6, <3>1, <3>4, <4>2 DEF SyncInv, JobInv
            <4> QED BY <4>1, <4>2
        <3> QED BY <1>1, <1>2, <1>14, <3>1, <3>2, <3>3, <3>4
    <2> QED BY <2>1, <2>2
<1>11. WaitInv'
    <2> SUFFICES ASSUME NEW u \in Threads, at[u] \in Waiting
                 PROVE  /\ waitsOn[u] # 0
                        /\ \/ waitsOn[u] \in over
                           \/ \E i \in 1 .. Len(ready'[waitsOn[u]]) : ready'[waitsOn[u]][i][2] = u
        BY <1>1, <1>2 DEF WaitInv
    <2>1. /\ waitsOn[u] # 0
          /\ \/ waitsOn[u] \in over
             \/ \E i \in 1 .. Len(ready[waitsOn[u]]) : ready[waitsOn[u]][i][2] = u
        BY DEF SyncInv, WaitInv
    <2>2. waitsOn[u] \in LoopIds
        BY <1>2, <2>1, SyncAssumption DEF SyncInv, SyncTypes, LoopIds
    <2>3. ASSUME NEW i \in 1 .. Len(ready[waitsOn[u]])
          PROVE  i \in 1 .. Len(ready'[waitsOn[u]]) /\ ready'[waitsOn[u]][i] = ready[waitsOn[u]][i]
        <3>1. CASE waitsOn[u] = current
            <4>1. i \in 1 .. Len(ready[current])
                BY <3>1
            <4>2. /\ ready'[current][i] = ready[current][i]
                  /\ i \in 1 .. Len(ready'[current])
                BY <1>4, <4>1
            <4> QED BY <3>1, <4>2
        <3>2. CASE waitsOn[u] # current
            BY <1>4, <2>2, <3>2
        <3> QED BY <3>1, <3>2
    <2> QED BY <2>1, <2>3
<1>12. RankInv' /\ LateInv' /\ EarlyCallsReturn'
    <2>1. LateInv'
        BY <1>1, <1>2, <1>14 DEF SyncInv, LateInv
    <2> QED BY <1>1, <1>2, <2>1 DEF SyncInv, RankInv, EarlyCallsReturn
<1>13. SaidInv'
    <2>1. ASSUME NEW u \in Threads, NEW l \in LoopIds, NEW i \in 1 .. Len(ready'[l]),
                 ready'[l][i][2] = u
          PROVE  i \in 1 .. Len(ready[l]) /\ ready'[l][i] = ready[l][i]
        BY <1>2, <1>6, <1>7, <2>1
    <2>2. \A u \in Threads : at'[u] = at[u]
        BY <1>2
    <2> QED BY <1>1, <2>1, <2>2 DEF SyncInv, SaidInv
<1> QED BY <1>1, <1>8, <1>9, <1>10, <1>11, <1>12, <1>13 DEF SyncInv

LEMMA WaitsOnLoop ==
    ASSUME SyncInv, NEW u \in Threads, at[u] \in Waiting
    PROVE  waitsOn[u] \in LoopIds
<1>1. waitsOn[u] # 0
    BY DEF SyncInv, WaitInv
<1>2. waitsOn[u] \in 0 .. loops /\ loops \in 0 .. MaxLoops
    BY DEF SyncInv, SyncTypes, Callers
<1> QED BY <1>1, <1>2, SyncAssumption DEF LoopIds

\* What a loop does next.
LEMMA Heads ==
    ASSUME SyncInv, NEW l \in LoopIds, batch[l] > 0, batch' = [batch EXCEPT ![l] = @ - 1]
    PROVE  /\ ready[l] # <<>> /\ Head(ready[l]) = ready[l][1] /\ Len(ready[l]) \in Nat
           /\ Len(ready[l]) > 0 /\ 1 \in 1 .. Len(ready[l])
           /\ ready[l] \in Seq(Whats \X Callers)
           /\ ready[l][1][1] \in Whats /\ ready[l][1][2] \in Callers
           /\ \A k \in 1 .. Len(ready[l]) : k # 1 => ready[l][k][2] # ready[l][1][2]
           /\ l \notin over /\ l <= loops
           /\ batch' \in [LoopIds -> Nat] /\ batch'[l] <= Len(ready[l]) - 1
           /\ \A m \in LoopIds \ {l} : batch'[m] = batch[m]
<1>1. /\ ready[l] \in Seq(Whats \X Callers) /\ batch[l] \in Nat /\ batch[l] <= Len(ready[l])
      /\ SyncTypes /\ JobInv
    BY DEF SyncInv, SyncTypes, LoopInv
<1>2. Len(ready[l]) \in Nat /\ Len(ready[l]) > 0 /\ ready[l] # <<>> /\ 1 \in 1 .. Len(ready[l])
    BY <1>1
<1>3. Head(ready[l]) = ready[l][1]
    BY <1>1, <1>2
<1>4. ready[l][1][1] \in Whats /\ ready[l][1][2] \in Callers
    BY <1>1, <1>2, Works
<1>5. \A k \in 1 .. Len(ready[l]) : k # 1 => ready[l][k][2] # ready[l][1][2]
    BY <1>1, <1>2 DEF JobInv
<1>6. l \notin over /\ l <= loops
    BY <1>2, SyncAssumption DEF SyncInv, SyncTypes, LoopInv, LoopIds
<1>7. /\ batch' \in [LoopIds -> Nat] /\ batch'[l] = batch[l] - 1
      /\ \A m \in LoopIds \ {l} : batch'[m] = batch[m]
    BY <1>1 DEF SyncInv, SyncTypes
<1> QED BY <1>1, <1>2, <1>3, <1>4, <1>5, <1>6, <1>7

\* The coroutine of a thread goes one stage on, to the end of the queue.
LEMMA Rotates ==
    ASSUME SyncInv, NEW l \in LoopIds, batch[l] > 0, batch' = [batch EXCEPT ![l] = @ - 1],
           NEW next \in {"task", "result"}, NEW t, t = ready[l][1][2],
           ready[l][1][1] # "stop", Stage[next] = Stage[ready[l][1][1]] + 1,
           ready' = [ready EXCEPT ![l] = Append(Tail(@), <<next, t>>)],
           UNCHANGED <<current, loops, ending, over, at, waitsOn, outcome, late>>,
           \A u \in Threads \ {t} : reports'[u] = reports[u], sdkClosed => sdkClosed',
           t \in Threads =>
               /\ at[t] = "exiting" => IF next = "result"
                                       THEN sdkClosed' \/ Len(reports'[t]) = 1
                                       ELSE reports'[t] = <<>>
               /\ at[t] # "exiting" => reports'[t] = reports[t]
               /\ \/ reports'[t] = <<>>
                  \/ Len(reports'[t]) = 1 /\ reports'[t][1].status = StatusOf(outcome[t])
    PROVE  SyncInv'
<1> DEFINE q == ready[l]
           n == Len(q)
<1>1. /\ q # <<>> /\ n \in Nat /\ n > 0 /\ 1 \in 1 .. n /\ n \in 1 .. n
      /\ q \in Seq(Whats \X Callers) /\ t \in Callers
      /\ \A k \in 1 .. n : k # 1 => ready[l][k][2] # t
      /\ l \notin over /\ l <= loops /\ ready[l][1][1] \in Whats
      /\ batch' \in [LoopIds -> Nat] /\ batch'[l] <= n - 1
      /\ \A m \in LoopIds \ {l} : batch'[m] = batch[m]
    <2>1. n \in Nat /\ n > 0 => n \in 1 .. n
        OBVIOUS
    <2> QED BY <2>1, Heads
<1>2. /\ at[t] \in Waiting /\ waitsOn[t] = l
    BY <1>1 DEF SyncInv, JobInv
<1>3. /\ ready' \in [LoopIds -> Seq(Whats \X Callers)]
      /\ Len(ready'[l]) = n /\ ready'[l][n] = <<next, t>>
      /\ \A i \in 1 .. n - 1 : ready'[l][i] = ready[l][i + 1]
      /\ \A m \in LoopIds \ {l} : ready'[m] = ready[m]
    <2> DEFINE x == <<next, t>>
    <2>1. x \in Whats \X Callers
        BY <1>1 DEF Whats
    <2>2. ready'[l] = Append(Tail(q), x) /\ \A m \in LoopIds \ {l} : ready'[m] = ready[m]
        BY DEF SyncInv, SyncTypes
    <2> HIDE DEF x
    <2>3. /\ Append(Tail(q), x) \in Seq(Whats \X Callers)
          /\ Len(Append(Tail(q), x)) = Len(q)
          /\ Append(Tail(q), x)[Len(q)] = x
          /\ \A i \in 1 .. Len(q) - 1 : Append(Tail(q), x)[i] = q[i + 1]
        <3> HIDE DEF q
        <3> QED BY <1>1, <2>1, Queues
    <2>4. ready' \in [LoopIds -> Seq(Whats \X Callers)]
        <3>1. DOMAIN ready' = LoopIds /\ \A m \in LoopIds : ready'[m] \in Seq(Whats \X Callers)
            BY <2>2, <2>3 DEF SyncInv, SyncTypes
        <3>2. ready' = [m \in DOMAIN ready' |-> ready'[m]]
            BY DEF SyncInv, SyncTypes
        <3> QED BY <3>1, <3>2
    <2> QED BY <2>2, <2>3, <2>4 DEF x
<1>4. ready'[l][n][1] = next /\ ready'[l][n][2] = t
    BY <1>3
\* Where the work that is now at i was.
<1> DEFINE from(m, i) == IF m # l THEN i ELSE IF i = n THEN 1 ELSE i + 1
<1>5. ASSUME NEW m \in LoopIds, NEW i \in 1 .. Len(ready'[m])
      PROVE  /\ from(m, i) \in 1 .. Len(ready[m])
             /\ ready'[m][i][2] = ready[m][from(m, i)][2]
             /\ \/ ready'[m][i] = ready[m][from(m, i)]
                \/ m = l /\ i = n /\ from(m, i) = 1
             /\ \A k \in 1 .. Len(ready'[m]) : k # i => from(m, k) # from(m, i)
    <2>1. CASE m # l
        BY <1>3, <2>1
    <2>2. CASE m = l
        <3>1. i \in 1 .. n
            BY <1>3, <2>2
        <3>2. CASE i = n
            <4>1. from(m, i) = 1 /\ \A k \in 1 .. n : k # n => from(l, k) # 1
                BY <1>1, <2>2, <3>2
            <4>2. ready'[m][i][2] = ready[m][1][2]
                BY <1>4, <2>2, <3>2
            <4>3. Len(ready'[m]) = n /\ 1 \in 1 .. Len(ready[m])
                BY <1>1, <1>3, <2>2
            <4> HIDE DEF n
            <4> QED BY <2>2, <3>2, <4>1, <4>2, <4>3
        <3>3. CASE i # n
            <4>1. i \in 1 .. n - 1 /\ i + 1 \in 1 .. n
                BY <1>1, <3>1, <3>3
            <4>2. \A k \in 1 .. n : k # i => from(l, k) # i + 1
                BY <1>1, <4>1
            <4> QED BY <1>3, <2>2, <3>3, <4>1, <4>2
        <3> QED BY <3>2, <3>3
    <2> QED BY <2>1, <2>2
<1>6. SyncTypes'
    BY <1>1, <1>3 DEF SyncInv, SyncTypes
<1>7. LoopInv'
    <2>1. \A m \in LoopIds : batch'[m] <= Len(ready'[m])
        <3>1. batch'[l] <= Len(ready'[l])
            BY <1>1, <1>3, <1>6 DEF SyncTypes
        <3> QED BY <1>1, <1>3, <3>1 DEF SyncInv, LoopInv
    <2>2. \A m \in LoopIds : m > loops \/ m \in over => ready'[m] = <<>>
        <3>1. ~(l > loops)
            BY <1>1 DEF SyncInv, SyncTypes, LoopIds
        <3> QED BY <1>1, <1>3, <3>1 DEF SyncInv, LoopInv
    <2> QED BY <2>1, <2>2 DEF SyncInv, LoopInv, Asked
<1>8. JobInv'
    <2> SUFFICES ASSUME NEW m \in LoopIds, NEW i \in 1 .. Len(ready'[m])
                 PROVE  /\ IF ready'[m][i][1] = "stop"
                           THEN ready'[m][i][2] = Owner /\ Asked(m)
                           ELSE at[ready'[m][i][2]] \in Waiting /\ waitsOn[ready'[m][i][2]] = m
                        /\ \A k \in 1 .. Len(ready'[m]) : k # i => ready'[m][k][2] # ready'[m][i][2]
        BY DEF JobInv, Asked
    <2> DEFINE j == from(m, i)
    <2>1. /\ j \in 1 .. Len(ready[m]) /\ ready'[m][i][2] = ready[m][j][2]
          /\ ready'[m][i] = ready[m][j] \/ (m = l /\ i = n /\ j = 1)
          /\ \A k \in 1 .. Len(ready'[m]) : k # i => from(m, k) # j
        BY <1>5
    <2>2. \A k \in 1 .. Len(ready'[m]) : k # i => ready'[m][k][2] # ready'[m][i][2]
        <3> SUFFICES ASSUME NEW k \in 1 .. Len(ready'[m]), k # i
                     PROVE  ready'[m][k][2] # ready'[m][i][2]
            OBVIOUS
        <3>1. /\ from(m, k) \in 1 .. Len(ready[m]) /\ ready'[m][k][2] = ready[m][from(m, k)][2]
              /\ from(m, k) # j
            BY <1>5, <2>1
        <3> HIDE DEF from, j
        <3> QED BY <2>1, <3>1 DEF SyncInv, JobInv
    <2>3. IF ready'[m][i][1] = "stop"
          THEN ready'[m][i][2] = Owner /\ Asked(m)
          ELSE at[ready'[m][i][2]] \in Waiting /\ waitsOn[ready'[m][i][2]] = m
        <3>1. CASE ready'[m][i] = ready[m][j]
            <4> HIDE DEF j
            <4> QED BY <2>1, <3>1 DEF SyncInv, JobInv
        <3>2. CASE m = l /\ i = n
            BY <1>2, <1>4, <3>2
        <3> QED BY <2>1, <3>1, <3>2
    <2> QED BY <2>2, <2>3
<1>9. WaitInv'
    <2> SUFFICES ASSUME NEW u \in Threads, at[u] \in Waiting, waitsOn[u] \notin over
                 PROVE  /\ waitsOn[u] # 0
                        /\ \E i \in 1 .. Len(ready'[waitsOn[u]]) : ready'[waitsOn[u]][i][2] = u
        BY DEF SyncInv, WaitInv
    <2>1. waitsOn[u] # 0
        BY DEF SyncInv, WaitInv
    <2>2. PICK i \in 1 .. Len(ready[waitsOn[u]]) : ready[waitsOn[u]][i][2] = u
        BY DEF SyncInv, WaitInv
    <2>3. waitsOn[u] \in LoopIds
        BY WaitsOnLoop
    <2>4. CASE waitsOn[u] # l
        BY <1>3, <2>1, <2>2, <2>3, <2>4
    <2>5. CASE waitsOn[u] = l
        <3>1. i \in 1 .. n
            BY <2>2, <2>5
        <3>2. CASE i = 1
            <4>1. u = t
                BY <2>2, <2>5, <3>2
            <4>2. n \in 1 .. Len(ready'[waitsOn[u]])
                BY <1>1, <1>3, <2>5
            <4>3. ready'[waitsOn[u]][n][2] = u
                BY <1>4, <2>5, <4>1
            <4> HIDE DEF n
            <4> QED BY <2>1, <4>2, <4>3
        <3>3. CASE i # 1
            <4>1. i - 1 \in 1 .. n - 1 /\ (i - 1) + 1 = i /\ i - 1 \in 1 .. n
                BY <1>1, <3>1, <3>3
            <4>2. ready'[l][i - 1] = ready[l][i]
                BY <1>3, <4>1
            <4>3. i - 1 \in 1 .. Len(ready'[waitsOn[u]])
                BY <1>3, <2>5, <4>1
            <4>4. ready'[waitsOn[u]][i - 1][2] = u
                BY <2>2, <2>5, <4>2
            <4> QED BY <2>1, <4>3, <4>4
        <3> QED BY <3>2, <3>3
    <2> QED BY <2>4, <2>5
<1>10. RankInv'
    <2> SUFFICES ASSUME at[Owner] = "closing" PROVE RankInv'
        BY DEF RankInv
    <2>1. current \in LoopIds
        <3>1. current # 0 /\ current \in 0 .. loops /\ loops \in 0 .. MaxLoops
            BY DEF SyncInv, SyncTypes, LoopInv
        <3> QED BY <3>1, SyncAssumption DEF LoopIds
    <2>2. CASE current # l
        <3>1. ready'[current'] = ready[current]
            BY <1>3, <2>1, <2>2
        <3>2. Behind(ready'[current'], late')
            BY <3>1 DEF SyncInv, RankInv
        <3> QED BY <3>2 DEF RankInv
    <2>3. CASE current = l
        <3> DEFINE stage(k) == Stage[ready[l][k][1]]
        <3> SUFFICES ASSUME NEW p \in 1 .. n, NEW i \in 1 .. n,
                            ready'[l][p][2] = Owner, ready'[l][i][2] \notin late \cup {Owner}
                     PROVE  /\ i < p => Stage[ready'[l][i][1]] >= Stage[ready'[l][p][1]]
                            /\ i > p => Stage[ready'[l][i][1]] > Stage[ready'[l][p][1]]
            <4>1. current' = l /\ late' = late /\ Len(ready'[l]) = n
                BY <1>3, <2>3
            <4>2. Behind(ready'[l], late)
                <5> HIDE DEF n
                <5> QED BY <4>1 DEF Behind
            <4> QED BY <4>1, <4>2 DEF RankInv
        <3>1. \A k \in 1 .. n : stage(k) \in 0 .. 3
            <4> SUFFICES ASSUME NEW k \in 1 .. n PROVE Stage[ready[l][k][1]] \in 0 .. 3
                OBVIOUS
            <4>1. ready[l][k][1] \in Whats
                BY Works DEF SyncInv
            <4> QED BY <4>1 DEF Whats, Stage
        <3>2. i # p
            OBVIOUS
        <3>3. ASSUME NEW k \in 1 .. n, k # n
              PROVE  k + 1 \in 1 .. n /\ k + 1 > 1 /\ ready'[l][k] = ready[l][k + 1]
            <4>1. k \in 1 .. n - 1 /\ k + 1 \in 1 .. n /\ k + 1 > 1
                <5>1. n \in Nat
                    BY <1>1
                <5> HIDE DEF n
                <5> QED BY <3>3, <5>1
            <4> QED BY <1>3, <4>1
        <3>4. stage(1) + 1 = Stage[ready'[l][n][1]] /\ ready'[l][n][2] = ready[l][1][2]
            BY <1>4
        <3>5. ASSUME NEW a \in 1 .. n, NEW b \in 1 .. n,
                     ready[l][a][2] = Owner, ready[l][b][2] \notin late \cup {Owner}
              PROVE  (b < a => stage(b) >= stage(a)) /\ (b > a => stage(b) > stage(a))
            BY <2>3, <3>5 DEF SyncInv, RankInv, Behind
        <3>6. CASE p = n
            <4>1. i # n /\ i < p /\ ready[l][1][2] = Owner
                BY <1>1, <3>2, <3>4, <3>6
            <4>2. /\ i + 1 \in 1 .. n /\ i + 1 > 1 /\ ready'[l][i] = ready[l][i + 1]
                  /\ ready[l][i + 1][2] \notin late \cup {Owner}
                BY <3>3, <4>1
            <4>3. /\ stage(i + 1) > stage(1) /\ stage(i + 1) \in 0 .. 3 /\ stage(1) \in 0 .. 3
                  /\ Stage[ready'[l][i][1]] = stage(i + 1)
                BY <1>1, <3>1, <3>5, <4>1, <4>2
            <4> HIDE DEF stage
            <4> QED BY <3>4, <3>6, <4>1, <4>3
        <3>7. CASE p # n /\ i = n
            <4>1. p < i /\ ready[l][1][2] \notin late \cup {Owner}
                BY <1>1, <3>4, <3>7
            <4>2. /\ p + 1 \in 1 .. n /\ p + 1 > 1 /\ ready'[l][p] = ready[l][p + 1]
                  /\ ready[l][p + 1][2] = Owner
                BY <3>3, <3>7
            <4>3. /\ stage(1) >= stage(p + 1) /\ stage(p + 1) \in 0 .. 3 /\ stage(1) \in 0 .. 3
                  /\ Stage[ready'[l][p][1]] = stage(p + 1)
                BY <1>1, <3>1, <3>5, <4>1, <4>2
            <4> HIDE DEF stage
            <4> QED BY <3>4, <3>7, <4>1, <4>3
        <3>8. CASE p # n /\ i # n
            <4>1. /\ p + 1 \in 1 .. n /\ ready'[l][p] = ready[l][p + 1]
                  /\ ready[l][p + 1][2] = Owner
                  /\ i + 1 \in 1 .. n /\ ready'[l][i] = ready[l][i + 1]
                  /\ ready[l][i + 1][2] \notin late \cup {Owner}
                BY <3>3, <3>8
            <4>2. /\ i + 1 < p + 1 => stage(i + 1) >= stage(p + 1)
                  /\ i + 1 > p + 1 => stage(i + 1) > stage(p + 1)
                BY <3>5, <4>1
            <4> QED BY <4>1, <4>2
        <3> QED BY <3>6, <3>7, <3>8
    <2> QED BY <2>2, <2>3
<1>11. LateInv' /\ EarlyCallsReturn'
    BY DEF SyncInv, LateInv, Left, EarlyCallsReturn
<1>12. SaidInv'
    <2> SUFFICES ASSUME NEW u \in Threads
                 PROVE  /\ at[u] \in {"idle", "entering", "body", "raised"} => reports'[u] = <<>>
                        /\ at[u] = "exiting" =>
                             \A m \in LoopIds : \A i \in 1 .. Len(ready'[m]) :
                                ready'[m][i][2] = u =>
                                    IF ready'[m][i][1] = "result"
                                    THEN sdkClosed' \/ Len(reports'[u]) = 1
                                    ELSE reports'[u] = <<>>
                        /\ at[u] = "over" => sdkClosed' \/ Len(reports'[u]) = 1
                        /\ \/ reports'[u] = <<>>
                           \/ /\ Len(reports'[u]) = 1
                              /\ reports'[u][1].status = StatusOf(outcome[u])
        BY DEF SaidInv
    <2>1. CASE u # t
        <3>1. ASSUME NEW m \in LoopIds, NEW i \in 1 .. Len(ready'[m]), ready'[m][i][2] = u
              PROVE  /\ from(m, i) \in 1 .. Len(ready[m])
                     /\ ready'[m][i] = ready[m][from(m, i)]
            BY <1>4, <1>5, <2>1, <3>1
        <3> HIDE DEF from
        <3>2. reports'[u] = reports[u]
            BY <2>1
        <3> QED BY <3>1, <3>2 DEF SyncInv, SaidInv
    <2>2. CASE u = t
        <3>1. ASSUME NEW m \in LoopIds, NEW i \in 1 .. Len(ready'[m]), ready'[m][i][2] = u
              PROVE  ready'[m][i][1] = next
            <4>1. /\ from(m, i) \in 1 .. Len(ready[m]) /\ ready[m][from(m, i)][2] = t
                  /\ ready'[m][i] = ready[m][from(m, i)] \/ (m = l /\ i = n /\ from(m, i) = 1)
                BY <1>5, <2>2, <3>1
            <4>2. m = l
                <5> HIDE DEF from
                <5> QED BY <1>2, <2>2, <4>1, SyncAssumption DEF SyncInv, JobInv, Waiting
            <4>3. from(m, i) = 1
                <5> HIDE DEF from
                <5> QED BY <1>1, <4>1, <4>2
            <4>4. i = n
                <5>1. i \in 1 .. n
                    BY <1>3, <4>2
                <5> HIDE DEF n
                <5> QED BY <4>2, <4>3, <5>1
            <4> QED BY <1>4, <4>2, <4>4
        <3>2. at[u] # "over" /\ at[u] # "exiting" => reports'[u] = reports[u]
            BY <1>2, <2>2 DEF Waiting
        <3> QED BY <1>2, <2>2, <3>1, <3>2 DEF SyncInv, SaidInv, Waiting
    <2> QED BY <2>1, <2>2
<1> QED BY <1>6, <1>7, <1>8, <1>9, <1>10, <1>11, <1>12 DEF SyncInv

\* What t was waiting for is taken from the queue of l, and nothing else.
Dropped(l, t) ==
    /\ ready' \in [LoopIds -> Seq(Whats \X Callers)] /\ batch' \in [LoopIds -> Nat]
    /\ \A m \in LoopIds : batch'[m] <= Len(ready'[m])
    /\ \A m \in LoopIds : ready[m] = <<>> => ready'[m] = <<>>
    /\ \A m \in LoopIds : \A i \in 1 .. Len(ready'[m]) :
          /\ \E j \in 1 .. Len(ready[m]) : ready'[m][i] = ready[m][j]
          /\ m = l => ready'[m][i][2] # t
          /\ \A k \in 1 .. Len(ready'[m]) : k # i => ready'[m][k][2] # ready'[m][i][2]
    /\ \A m \in LoopIds : \A j \in 1 .. Len(ready[m]) :
          ready[m][j][2] # t => \E i \in 1 .. Len(ready'[m]) : ready'[m][i] = ready[m][j]
    /\ \A m \in LoopIds : Behind(ready[m], late) => Behind(ready'[m], late)

\* The first work of a loop is done.
LEMMA Drops ==
    ASSUME SyncInv, NEW l \in LoopIds, batch[l] > 0, batch' = [batch EXCEPT ![l] = @ - 1],
           NEW t, t = ready[l][1][2], ready' = [ready EXCEPT ![l] = Tail(@)]
    PROVE  Dropped(l, t)
<1> DEFINE q == ready[l]
           n == Len(q)
<1>1. /\ q # <<>> /\ n \in Nat /\ n > 0 /\ 1 \in 1 .. n
      /\ q \in Seq(Whats \X Callers)
      /\ batch' \in [LoopIds -> Nat] /\ batch'[l] <= n - 1
      /\ \A m \in LoopIds \ {l} : batch'[m] = batch[m]
    BY Heads
<1>2. /\ ready' \in [LoopIds -> Seq(Whats \X Callers)]
      /\ Len(ready'[l]) = n - 1
      /\ \A i \in 1 .. n - 1 : ready'[l][i] = ready[l][i + 1]
      /\ \A m \in LoopIds \ {l} : ready'[m] = ready[m]
    <2>1. ready'[l] = Tail(q) /\ \A m \in LoopIds \ {l} : ready'[m] = ready[m]
        BY DEF SyncInv, SyncTypes
    <2>2. /\ Tail(q) \in Seq(Whats \X Callers) /\ Len(Tail(q)) = Len(q) - 1
          /\ \A i \in 1 .. Len(q) - 1 : Tail(q)[i] = q[i + 1]
        <3> HIDE DEF q
        <3> QED BY <1>1
    <2>3. ready' \in [LoopIds -> Seq(Whats \X Callers)]
        <3>1. DOMAIN ready' = LoopIds /\ \A m \in LoopIds : ready'[m] \in Seq(Whats \X Callers)
            BY <2>1, <2>2 DEF SyncInv, SyncTypes
        <3>2. ready' = [m \in DOMAIN ready' |-> ready'[m]]
            BY DEF SyncInv, SyncTypes
        <3> QED BY <3>1, <3>2
    <2> QED BY <2>1, <2>2, <2>3
<1>3. \A m \in LoopIds : batch'[m] <= Len(ready'[m])
    BY <1>1, <1>2 DEF SyncInv, LoopInv
<1>4. \A m \in LoopIds : ready[m] = <<>> => ready'[m] = <<>>
    BY <1>1, <1>2
<1>5. ASSUME NEW j \in 1 .. Len(ready[l]), ready[l][j][2] = t
      PROVE  j = 1
    BY <1>1, <1>5 DEF SyncInv, JobInv
<1>6. ASSUME NEW i \in 1 .. n - 1
      PROVE  i + 1 \in 1 .. n /\ i + 1 # 1
    <2>1. n \in Nat
        BY <1>1
    <2> HIDE DEF n
    <2> QED BY <2>1
<1>7. ASSUME NEW m \in LoopIds, NEW i \in 1 .. Len(ready'[m])
      PROVE  /\ \E j \in 1 .. Len(ready[m]) : ready'[m][i] = ready[m][j]
             /\ m = l => ready'[m][i][2] # t
             /\ \A k \in 1 .. Len(ready'[m]) : k # i => ready'[m][k][2] # ready'[m][i][2]
    <2>1. CASE m # l
        BY <1>2, <2>1 DEF SyncInv, JobInv
    <2>2. CASE m = l
        <3>1. i \in 1 .. n - 1 /\ ready'[l][i] = ready[l][i + 1] /\ i + 1 \in 1 .. n /\ i + 1 # 1
            BY <1>2, <1>6, <2>2
        <3>2. ready[l][i + 1][2] # t
            BY <1>5, <3>1
        <3>3. ASSUME NEW k \in 1 .. Len(ready'[l]), k # i
              PROVE  ready'[l][k][2] # ready'[l][i][2]
            <4>1. k \in 1 .. n - 1 /\ ready'[l][k] = ready[l][k + 1] /\ k + 1 \in 1 .. n
                BY <1>2, <1>6
            <4>2. k + 1 # i + 1
                BY <3>1, <3>3, <4>1
            <4> QED BY <3>1, <4>1, <4>2 DEF SyncInv, JobInv
        <3> QED BY <2>2, <3>1, <3>2, <3>3
    <2> QED BY <2>1, <2>2
<1>8. ASSUME NEW m \in LoopIds, NEW j \in 1 .. Len(ready[m]), ready[m][j][2] # t
      PROVE  \E i \in 1 .. Len(ready'[m]) : ready'[m][i] = ready[m][j]
    <2>1. CASE m # l
        BY <1>2, <2>1
    <2>2. CASE m = l
        <3>1. j # 1
            BY <1>8, <2>2
        <3>2. j - 1 \in 1 .. n - 1 /\ (j - 1) + 1 = j
            <4>1. n \in Nat /\ j \in 1 .. n
                BY <1>1, <2>2
            <4> HIDE DEF n
            <4> QED BY <3>1, <4>1
        <3>3. ready'[l][j - 1] = ready[l][j] /\ j - 1 \in 1 .. Len(ready'[l])
            BY <1>2, <3>2
        <3> QED BY <2>2, <3>3
    <2> QED BY <2>1, <2>2
<1>9. ASSUME NEW m \in LoopIds, Behind(ready[m], late)
      PROVE  Behind(ready'[m], late)
    <2>1. CASE m # l
        BY <1>2, <1>9, <2>1
    <2>2. CASE m = l
        <3> SUFFICES ASSUME NEW p \in 1 .. n - 1, NEW i \in 1 .. n - 1,
                            ready'[l][p][2] = Owner, ready'[l][i][2] \notin late \cup {Owner}
                     PROVE  /\ i < p => Stage[ready'[l][i][1]] >= Stage[ready'[l][p][1]]
                            /\ i > p => Stage[ready'[l][i][1]] > Stage[ready'[l][p][1]]
            BY <1>2, <2>2 DEF Behind
        <3>1. /\ p + 1 \in 1 .. n /\ ready'[l][p] = ready[l][p + 1]
              /\ i + 1 \in 1 .. n /\ ready'[l][i] = ready[l][i + 1]
            BY <1>2, <1>6
        <3>2. /\ i + 1 < p + 1 => Stage[ready[l][i + 1][1]] >= Stage[ready[l][p + 1][1]]
              /\ i + 1 > p + 1 => Stage[ready[l][i + 1][1]] > Stage[ready[l][p + 1][1]]
            BY <1>9, <2>2, <3>1 DEF Behind
        <3> QED BY <3>1, <3>2
    <2> QED BY <2>1, <2>2
<1> QED BY <1>1, <1>2, <1>3, <1>4, <1>7, <1>8, <1>9 DEF Dropped

\* A thread has its result, and goes on.
LEMMA Resumes ==
    ASSUME SyncInv, NEW l \in LoopIds, batch[l] > 0, batch' = [batch EXCEPT ![l] = @ - 1],
           NEW t, t = ready[l][1][2], ready[l][1][1] = "result",
           ready' = [ready EXCEPT ![l] = Tail(@)], Resume(t),
           UNCHANGED <<current, loops, ending, over, waitsOn, outcome, late, reports,
                       sdkClosed>>
    PROVE  SyncInv'
<1>0. Dropped(l, t)
    BY Drops
<1>1. /\ ready' \in [LoopIds -> Seq(Whats \X Callers)] /\ batch' \in [LoopIds -> Nat]
      /\ \A m \in LoopIds : batch'[m] <= Len(ready'[m])
      /\ \A m \in LoopIds : ready[m] = <<>> => ready'[m] = <<>>
    BY <1>0 DEF Dropped
<1>2. \A m \in LoopIds : \A i \in 1 .. Len(ready'[m]) :
         /\ \E j \in 1 .. Len(ready[m]) : ready'[m][i] = ready[m][j]
         /\ m = l => ready'[m][i][2] # t
         /\ \A k \in 1 .. Len(ready'[m]) : k # i => ready'[m][k][2] # ready'[m][i][2]
    BY <1>0 DEF Dropped
<1>3. \A m \in LoopIds : \A j \in 1 .. Len(ready[m]) :
         ready[m][j][2] # t => \E i \in 1 .. Len(ready'[m]) : ready'[m][i] = ready[m][j]
    BY <1>0 DEF Dropped
<1>4. \A m \in LoopIds : Behind(ready[m], late) => Behind(ready'[m], late)
    BY <1>0 DEF Dropped
<1>5. /\ t \in Callers /\ 1 \in 1 .. Len(ready[l]) /\ at[t] \in Waiting /\ waitsOn[t] = l
      /\ l \notin over
    <2>1. t \in Callers /\ 1 \in 1 .. Len(ready[l]) /\ l \notin over
        BY Heads
    <2> QED BY <2>1 DEF SyncInv, JobInv
<1>6. /\ at' = [at EXCEPT ![t] = After[at[t]]] /\ DOMAIN at' = Callers
      /\ at'[t] = After[at[t]] /\ \A u \in Callers \ {t} : at'[u] = at[u]
      /\ Owner \in Callers /\ Owner \notin Threads /\ Threads \subseteq Callers
    BY <1>5, SyncAssumption DEF Resume, SyncInv, SyncTypes, Callers
<1>7. /\ t \in Threads => \/ at[t] = "entering" /\ at'[t] = "body"
                          \/ at[t] = "exiting" /\ at'[t] = "over"
      /\ t = Owner => \/ at[t] = "starting" /\ at'[t] = "idle"
                      \/ at[t] = "closing" /\ at'[t] = "stopping"
      /\ at'[t] \notin Waiting
    <2>1. /\ t \in Threads => at[t] \in {"entering", "exiting"}
          /\ t = Owner => at[t] \in {"starting", "closing"}
          /\ t \in Threads \/ t = Owner
        BY <1>5 DEF SyncInv, SyncTypes, Waiting, Callers
    <2> QED BY <1>6, <2>1 DEF After, Waiting
<1>8. SyncTypes'
    <2>1. /\ \A u \in Threads : at'[u] \in {"idle", "entering", "body", "exiting", "over", "raised"}
          /\ at'[Owner] \in {"idle", "starting", "closing", "stopping", "joining", "raised"}
        BY <1>6, <1>7 DEF SyncInv, SyncTypes
    <2> QED BY <1>1, <1>6, <2>1 DEF SyncInv, SyncTypes
<1>9. \A m : Asked(m) => Asked(m)'
    BY <1>6, <1>7 DEF Asked
<1>10. LoopInv'
    <2>1. at'[Owner] \in {"starting", "closing", "stopping", "joining"} =>
              at[Owner] \in {"starting", "closing", "stopping", "joining"}
        BY <1>6, <1>7
    <2>2. at'[Owner] \in {"starting", "closing"} => at[Owner] \in {"starting", "closing"}
        BY <1>6, <1>7
    <2> QED BY <1>1, <1>9, <2>1, <2>2 DEF SyncInv, LoopInv
<1>11. JobInv'
    <2> SUFFICES ASSUME NEW m \in LoopIds, NEW i \in 1 .. Len(ready'[m])
                 PROVE  /\ IF ready'[m][i][1] = "stop"
                           THEN ready'[m][i][2] = Owner /\ Asked(m)'
                           ELSE at'[ready'[m][i][2]] \in Waiting /\ waitsOn'[ready'[m][i][2]] = m
                        /\ \A k \in 1 .. Len(ready'[m]) : k # i => ready'[m][k][2] # ready'[m][i][2]
        BY DEF JobInv
    <2>1. PICK j \in 1 .. Len(ready[m]) : ready'[m][i] = ready[m][j]
        BY <1>2
    <2>2. IF ready[m][j][1] = "stop"
          THEN ready[m][j][2] = Owner /\ Asked(m)
          ELSE at[ready[m][j][2]] \in Waiting /\ waitsOn[ready[m][j][2]] = m
        BY DEF SyncInv, JobInv
    <2>3. ready[m][j][2] \in Callers /\ (ready[m][j][1] # "stop" => ready[m][j][2] # t)
        <3>1. ASSUME ready[m][j][1] # "stop" PROVE ready[m][j][2] # t
            <4>1. CASE m = l
                <5>1. ready'[m][i][2] # t
                    BY <1>2, <4>1
                <5> QED BY <2>1, <5>1
            <4>2. CASE m # l
                BY <1>5, <2>2, <3>1, <4>2
            <4> QED BY <4>1, <4>2
        <3>2. ready[m][j][2] \in Callers
            <4>1. SyncTypes
                BY DEF SyncInv
            <4> QED BY <4>1, Works
        <3> QED BY <3>1, <3>2
    <2>4. IF ready'[m][i][1] = "stop"
          THEN ready'[m][i][2] = Owner /\ Asked(m)'
          ELSE at'[ready'[m][i][2]] \in Waiting /\ waitsOn[ready'[m][i][2]] = m
        BY <1>6, <1>9, <2>1, <2>2, <2>3
    <2> QED BY <1>2, <2>4
<1>12. WaitInv'
    <2> SUFFICES ASSUME NEW u \in Threads, at'[u] \in Waiting, waitsOn[u] \notin over
                 PROVE  /\ waitsOn[u] # 0
                        /\ \E i \in 1 .. Len(ready'[waitsOn[u]]) : ready'[waitsOn[u]][i][2] = u
        <3>1. \A u \in Threads : at'[u] \in Waiting => at[u] \in Waiting
            BY <1>6, <1>7
        <3> QED BY <3>1 DEF SyncInv, WaitInv
    <2>1. u # t /\ at[u] \in Waiting
        BY <1>6, <1>7
    <2>2. waitsOn[u] \in LoopIds /\ waitsOn[u] # 0
        BY <2>1, WaitsOnLoop DEF LoopIds
    <2>3. PICK j \in 1 .. Len(ready[waitsOn[u]]) : ready[waitsOn[u]][j][2] = u
        BY <2>1 DEF SyncInv, WaitInv
    <2>4. PICK i \in 1 .. Len(ready'[waitsOn[u]]) : ready'[waitsOn[u]][i] = ready[waitsOn[u]][j]
        BY <1>3, <2>1, <2>2, <2>3
    <2> QED BY <2>2, <2>3, <2>4
<1>13. RankInv'
    <2> SUFFICES ASSUME at'[Owner] = "closing" PROVE Behind(ready'[current], late)
        BY DEF RankInv
    <2>1. at[Owner] = "closing"
        BY <1>6, <1>7
    <2>2. current \in LoopIds
        <3>1. current # 0 /\ current \in 0 .. loops /\ loops \in 0 .. MaxLoops
            BY <2>1 DEF SyncInv, SyncTypes, LoopInv
        <3> QED BY <3>1, SyncAssumption DEF LoopIds
    <2> QED BY <1>4, <2>1, <2>2 DEF SyncInv, RankInv
\* When close() goes on, whoever called before it has gone on.
<1>14. LateInv'
    <2> SUFFICES ASSUME NEW u \in Threads, at'[u] \in Waiting, Left(waitsOn[u])'
                 PROVE  u \in late
        BY DEF LateInv
    <2>1. u # t /\ at[u] \in Waiting
        BY <1>6, <1>7
    <2>2. CASE t # Owner \/ waitsOn[u] # current \/ at[Owner] = "starting"
        <3>1. Left(waitsOn[u])
            BY <1>6, <1>7, <2>2 DEF Left
        <3> QED BY <2>1, <3>1 DEF SyncInv, LateInv
    <2>3. CASE t = Owner /\ waitsOn[u] = current /\ at[Owner] # "starting"
        <3>0. at[Owner] = "closing"
            BY <1>7, <2>3
        <3>9. waitsOn[Owner] = current
            BY <3>0 DEF SyncInv, LoopInv
        <3>1. l = current /\ Behind(ready[l], late)
            BY <1>5, <2>3, <3>0, <3>9 DEF SyncInv, RankInv
        <3>2. PICK j \in 1 .. Len(ready[l]) : ready[l][j][2] = u
            BY <1>5, <2>1, <2>3, <3>1 DEF SyncInv, WaitInv
        <3>3. j > 1 /\ ready[l][j][1] # "stop" /\ ready[l][j][1] \in Whats
            <4>1. j # 1
                BY <2>1, <3>2
            <4>2. ready[l][j][1] # "stop"
                BY <1>6, <3>2 DEF SyncInv, JobInv
            <4>3. ready[l][j][1] \in Whats
                BY Works DEF SyncInv
            <4> QED BY <4>1, <4>2, <4>3
        <3>4. ~(Stage[ready[l][j][1]] > Stage["result"])
            BY <3>3 DEF Stage, Whats
        <3>5. u # Owner
            BY <1>6
        <3> QED BY <1>5, <2>3, <3>1, <3>2, <3>3, <3>4, <3>5 DEF Behind
    <2> QED BY <2>2, <2>3
<1>15. EarlyCallsReturn'
    BY <1>6, <1>7 DEF SyncInv, EarlyCallsReturn, Waiting
<1>16. SaidInv'
    <2> SUFFICES ASSUME NEW u \in Threads
                 PROVE  /\ at'[u] \in {"idle", "entering", "body", "raised"} => reports[u] = <<>>
                        /\ at'[u] = "exiting" =>
                             \A m \in LoopIds : \A i \in 1 .. Len(ready'[m]) :
                                ready'[m][i][2] = u =>
                                    IF ready'[m][i][1] = "result"
                                    THEN sdkClosed \/ Len(reports[u]) = 1
                                    ELSE reports[u] = <<>>
                        /\ at'[u] = "over" => sdkClosed \/ Len(reports[u]) = 1
                        /\ \/ reports[u] = <<>>
                           \/ /\ Len(reports[u]) = 1
                              /\ reports[u][1].status = StatusOf(outcome[u])
        BY DEF SaidInv
    <2>1. CASE u # t
        BY <1>2, <1>6, <2>1 DEF SyncInv, SaidInv
    <2>2. CASE u = t
        BY <1>5, <1>7, <2>2 DEF SyncInv, SaidInv
    <2> QED BY <2>1, <2>2
<1> QED BY <1>8, <1>10, <1>11, <1>12, <1>13, <1>14, <1>15, <1>16 DEF SyncInv

\* The loop is told to stop: it is that of the logger being closed.
LEMMA Stops ==
    ASSUME SyncInv, NEW l \in LoopIds, batch[l] > 0, batch' = [batch EXCEPT ![l] = @ - 1],
           NEW t, t = ready[l][1][2], ready[l][1][1] = "stop", ready' = [ready EXCEPT ![l] = Tail(@)],
           ending' = ending \cup {l},
           UNCHANGED <<current, loops, over, at, waitsOn, outcome, late, reports, sdkClosed>>
    PROVE  SyncInv'
<1>0. Dropped(l, t)
    BY Drops
<1>1. /\ ready' \in [LoopIds -> Seq(Whats \X Callers)] /\ batch' \in [LoopIds -> Nat]
      /\ \A m \in LoopIds : batch'[m] <= Len(ready'[m])
      /\ \A m \in LoopIds : ready[m] = <<>> => ready'[m] = <<>>
    BY <1>0 DEF Dropped
<1>2. \A m \in LoopIds : \A i \in 1 .. Len(ready'[m]) :
         /\ \E j \in 1 .. Len(ready[m]) : ready'[m][i] = ready[m][j]
         /\ m = l => ready'[m][i][2] # t
         /\ \A k \in 1 .. Len(ready'[m]) : k # i => ready'[m][k][2] # ready'[m][i][2]
    BY <1>0 DEF Dropped
<1>3. \A m \in LoopIds : \A j \in 1 .. Len(ready[m]) :
         ready[m][j][2] # t => \E i \in 1 .. Len(ready'[m]) : ready'[m][i] = ready[m][j]
    BY <1>0 DEF Dropped
<1>4. t = Owner /\ Asked(l) /\ l \notin over /\ \A m : Asked(m)' <=> Asked(m)
    <2>1. 1 \in 1 .. Len(ready[l]) /\ l \notin over /\ l <= loops
        BY Heads
    <2> QED BY <2>1 DEF SyncInv, JobInv, Asked
<1>5. SyncTypes'
    BY <1>1 DEF SyncInv, SyncTypes
<1>6. LoopInv'
    <2> QED BY <1>1, <1>4 DEF SyncInv, LoopInv
<1>7. JobInv'
    <2> SUFFICES ASSUME NEW m \in LoopIds, NEW i \in 1 .. Len(ready'[m])
                 PROVE  /\ IF ready'[m][i][1] = "stop"
                           THEN ready'[m][i][2] = Owner /\ Asked(m)'
                           ELSE at'[ready'[m][i][2]] \in Waiting /\ waitsOn'[ready'[m][i][2]] = m
                        /\ \A k \in 1 .. Len(ready'[m]) : k # i => ready'[m][k][2] # ready'[m][i][2]
        BY DEF JobInv
    <2>1. PICK j \in 1 .. Len(ready[m]) : ready'[m][i] = ready[m][j]
        BY <1>2
    <2>2. IF ready[m][j][1] = "stop"
          THEN ready[m][j][2] = Owner /\ Asked(m)
          ELSE at[ready[m][j][2]] \in Waiting /\ waitsOn[ready[m][j][2]] = m
        BY DEF SyncInv, JobInv
    <2>3. Asked(m) => Asked(m)'
        BY <1>4
    <2> QED BY ZenonT(60), <1>2, <2>1, <2>2, <2>3
<1>8. WaitInv'
    <2> SUFFICES ASSUME NEW u \in Threads, at[u] \in Waiting, waitsOn[u] \notin over
                 PROVE  /\ waitsOn[u] # 0
                        /\ \E i \in 1 .. Len(ready'[waitsOn[u]]) : ready'[waitsOn[u]][i][2] = u
        BY DEF SyncInv, WaitInv
    <2>1. u # t
        BY <1>4, SyncAssumption
    <2>2. waitsOn[u] \in LoopIds /\ waitsOn[u] # 0
        BY WaitsOnLoop DEF LoopIds
    <2>3. PICK j \in 1 .. Len(ready[waitsOn[u]]) : ready[waitsOn[u]][j][2] = u
        BY DEF SyncInv, WaitInv
    <2>4. PICK i \in 1 .. Len(ready'[waitsOn[u]]) : ready'[waitsOn[u]][i] = ready[waitsOn[u]][j]
        BY <1>3, <2>1, <2>2, <2>3
    <2> QED BY <2>2, <2>3, <2>4
<1>9. RankInv' /\ LateInv' /\ EarlyCallsReturn'
    <2>1. ASSUME at[Owner] = "closing" PROVE Behind(ready'[current], late)
        <3>1. current \in LoopIds
            BY <2>1, SyncAssumption DEF SyncInv, SyncTypes, LoopInv, LoopIds
        <3> QED BY <1>0, <2>1, <3>1 DEF SyncInv, RankInv, Dropped
    <2> QED BY <2>1 DEF RankInv, SyncInv, LateInv, Left, EarlyCallsReturn
<1>10. SaidInv'
    BY <1>2 DEF SyncInv, SaidInv
<1> QED BY <1>5, <1>6, <1>7, <1>8, <1>9, <1>10 DEF SyncInv

\* The coroutine of a thread runs; only that of close() closes the transport.
LEMMA RunsCoro ==
    ASSUME SyncInv, DOMAIN reports = SpanIds, NEW l \in LoopIds, NEW t, t = ready[l][1][2],
           1 \in 1 .. Len(ready[l]), ready[l][1][1] = "task", RunCoro(t),
           UNCHANGED <<at, outcome>>
    PROVE  /\ Spoke(Threads)
           /\ sdkClosed => sdkClosed'
           /\ \A u \in Threads \ {t} : reports'[u] = reports[u]
           /\ t \in Threads =>
                 /\ at[t] = "exiting" => sdkClosed' \/ Len(reports'[t]) = 1
                 /\ at[t] # "exiting" => reports'[t] = reports[t]
                 /\ \/ reports'[t] = <<>>
                    \/ Len(reports'[t]) = 1 /\ reports'[t][1].status = StatusOf(outcome[t])
<1>1. t \in Callers /\ at[t] \in Waiting /\ Threads \subseteq SpanIds
    <2>1. SyncTypes
        BY DEF SyncInv
    <2>2. t \in Callers
        BY <2>1, Works
    <2> QED BY <2>2, SyncAssumption DEF SyncInv, JobInv
<1>2. sdkClosed => sdkClosed'
    BY DEF RunCoro
<1>3. CASE at[t] = "exiting"
    <2>1. t \in Threads /\ t \in SpanIds /\ reports[t] = <<>>
        <3>1. t \in Threads
            BY <1>1, <1>3 DEF SyncInv, SyncTypes, Callers
        <3> QED BY <1>1, <1>3, <3>1 DEF SyncInv, SaidInv
    <2> DEFINE log == InferenceLog(NewSpan, outcome[t])
    <2>2. log.status = StatusOf(outcome[t])
        BY DEF InferenceLog
    <2>3. SubmitReport(t, log, 1) /\ (sdkClosed => sdkClosed')
        BY <1>2, <1>3 DEF RunCoro
    <2> HIDE DEF log
    <2>4. Spoke({t}) /\ reports'[t] = IF sdkClosed THEN <<>> ELSE <<log>>
        BY <2>1, <2>3, Submits
    <2>5. Len(<<log>>) = 1 /\ <<log>>[1] = log
        OBVIOUS
    <2>6. Spoke(Threads) /\ \A u \in Threads \ {t} : reports'[u] = reports[u]
        BY <1>1, <2>1, <2>4 DEF Spoke
    <2> QED BY <1>2, <1>3, <2>2, <2>4, <2>5, <2>6
<1>4. CASE at[t] # "exiting"
    <2>1. UNCHANGED reports
        BY <1>4 DEF RunCoro
    <2> QED BY <1>2, <1>4, <2>1 DEF Spoke, SyncInv, SaidInv
<1> QED BY <1>3, <1>4

LEMMA RunOneInv ==
    ASSUME SyncInv, DOMAIN reports = SpanIds, NEW l \in LoopIds, RunOne(l)
    PROVE  SyncInv' /\ Spoke(Threads) /\ (sdkClosed => sdkClosed')
<1> DEFINE t == Head(ready[l])[2]
           what == Head(ready[l])[1]
<1>1. /\ batch[l] > 0 /\ batch' = [batch EXCEPT ![l] = @ - 1]
      /\ UNCHANGED <<current, loops, over, waitsOn, outcome, late>>
      /\ \/ /\ what = "callback"
            /\ ready' = [ready EXCEPT ![l] = Append(Tail(@), <<"task", t>>)]
            /\ UNCHANGED <<ending, at, reports, sdkClosed>>
         \/ /\ what = "task"
            /\ ready' = [ready EXCEPT ![l] = Append(Tail(@), <<"result", t>>)]
            /\ RunCoro(t) /\ UNCHANGED <<ending, at>>
         \/ /\ what = "result" /\ Resume(t) /\ ready' = [ready EXCEPT ![l] = Tail(@)]
            /\ UNCHANGED <<ending, reports, sdkClosed>>
         \/ /\ what = "stop" /\ ending' = ending \cup {l}
            /\ ready' = [ready EXCEPT ![l] = Tail(@)]
            /\ UNCHANGED <<at, reports, sdkClosed>>
    BY DEF RunOne
<1>2. t = ready[l][1][2] /\ what = ready[l][1][1] /\ 1 \in 1 .. Len(ready[l])
    BY <1>1, Heads
<1> HIDE DEF t, what
<1>3. CASE /\ what = "callback"
           /\ ready' = [ready EXCEPT ![l] = Append(Tail(@), <<"task", t>>)]
           /\ UNCHANGED <<ending, at, reports, sdkClosed>>
    <2>1. Stage["task"] = Stage["callback"] + 1
        BY DEF Stage
    <2>2. t \in Threads =>
              /\ at[t] = "exiting" => reports[t] = <<>>
              /\ \/ reports[t] = <<>>
                 \/ Len(reports[t]) = 1 /\ reports[t][1].status = StatusOf(outcome[t])
        BY <1>2, <1>3 DEF SyncInv, SaidInv
    <2>3. SyncInv'
        BY <1>1, <1>2, <1>3, <2>1, <2>2, Rotates
    <2> QED BY <1>3, <2>3 DEF Spoke
<1>4. CASE /\ what = "task"
           /\ ready' = [ready EXCEPT ![l] = Append(Tail(@), <<"result", t>>)]
           /\ RunCoro(t) /\ UNCHANGED <<ending, at>>
    <2>1. Stage["result"] = Stage["task"] + 1
        BY DEF Stage
    <2>2. /\ Spoke(Threads)
          /\ sdkClosed => sdkClosed'
          /\ \A u \in Threads \ {t} : reports'[u] = reports[u]
          /\ t \in Threads =>
                /\ at[t] = "exiting" => sdkClosed' \/ Len(reports'[t]) = 1
                /\ at[t] # "exiting" => reports'[t] = reports[t]
                /\ \/ reports'[t] = <<>>
                   \/ Len(reports'[t]) = 1 /\ reports'[t][1].status = StatusOf(outcome[t])
        BY ZenonT(60), <1>1, <1>2, <1>4, RunsCoro
    <2>3. SyncInv'
        <3>1. "result" \in {"task", "result"} /\ what # "stop" /\ Stage["result"] = Stage[what] + 1
            BY <1>4, <2>1
        <3>2. t \in Threads =>
                 /\ at[t] = "exiting" => IF "result" = "result"
                                         THEN sdkClosed' \/ Len(reports'[t]) = 1
                                         ELSE reports'[t] = <<>>
                 /\ at[t] # "exiting" => reports'[t] = reports[t]
                 /\ \/ reports'[t] = <<>>
                    \/ Len(reports'[t]) = 1 /\ reports'[t][1].status = StatusOf(outcome[t])
            BY <2>2
        <3> QED BY <1>1, <1>2, <1>4, <2>2, <3>1, <3>2, Rotates
    <2> QED BY <2>2, <2>3
<1>5. CASE /\ what = "result" /\ Resume(t) /\ ready' = [ready EXCEPT ![l] = Tail(@)]
           /\ UNCHANGED <<ending, reports, sdkClosed>>
    <2>1. SyncInv'
        BY <1>1, <1>2, <1>5, Resumes
    <2> QED BY <1>5, <2>1 DEF Spoke
<1>6. CASE /\ what = "stop" /\ ending' = ending \cup {l}
           /\ ready' = [ready EXCEPT ![l] = Tail(@)]
           /\ UNCHANGED <<at, reports, sdkClosed>>
    <2>1. SyncInv'
        BY <1>1, <1>2, <1>6, Stops
    <2> QED BY <1>6, <2>1 DEF Spoke
<1> QED BY <1>1, <1>3, <1>4, <1>5, <1>6

\* Whatever the threads and the loops do.
LEMMA SyncNextInv ==
    ASSUME SyncInv, DOMAIN reports = SpanIds, SyncNext
    PROVE  SyncInv' /\ Spoke(Threads) /\ (sdkClosed => sdkClosed')
<1>1. SyncInv' /\ UNCHANGED <<reports, sdkClosed>> => SyncInv' /\ Spoke(Threads) /\ (sdkClosed => sdkClosed')
    BY DEF Spoke
<1>2. CASE DaemonStep
    BY <1>1, <1>2, RunOneInv, IterateInv, EndLoopInv DEF DaemonStep
<1>3. CASE OwnerStep
    BY <1>1, <1>3, StartInv, CloseInv, AskToStopInv, JoinedInv DEF OwnerStep
<1>4. CASE \E t \in Threads : Enter(t) \/ Body(t)
    BY <1>1, <1>4, EnterInv
<1> QED BY <1>2, <1>3, <1>4 DEF SyncNext

-----------------------------------------------------------------------------
(* The whole: one integration is used, and the ids of its spans are its own *)

AllInv ==
    /\ integration \in Integrations
    /\ DOMAIN reports = SpanIds
    /\ VendorInv
    /\ CallbackInv
    /\ SyncInv
    /\ \A s \in SpanIds \ (Calls \cup Runs \cup Threads) : reports[s] = <<>>

LEMMA OfTheirOwn ==
    /\ Calls \cap Runs = {} /\ Calls \cap Threads = {} /\ Runs \cap Threads = {}
    /\ Calls \subseteq SpanIds /\ Runs \subseteq SpanIds /\ Threads \subseteq SpanIds
    BY IdsAssumption, CallsAssumption, SyncAssumption, RunFacts DEF Runs

LEMMA VendorKept ==
    ASSUME VendorInv, UNCHANGED vendorVars, sdkClosed => sdkClosed',
           \A c \in Calls : reports'[c] = reports[c]
    PROVE  VendorInv'
    BY DEF VendorInv, vendorVars, CallReports

LEMMA CallbackKept ==
    ASSUME CallbackInv, UNCHANGED <<integration, callbackVars>>, sdkClosed => sdkClosed',
           \A r \in Runs : reports'[r] = reports[r]
    PROVE  CallbackInv'
<1>1. UNCHANGED <<integration, lastInference, round, run, held>>
    BY DEF callbackVars
<1>2. RoundInv'
    BY <1>1 DEF CallbackInv, RoundInv
<1>3. ASSUME NEW r \in Runs
      PROVE  RunShape(r, run[r], held)' /\ RunReports(r, run[r], held, reports[r])'
    <2>1. RunShape(r, run[r], held)'
        BY <1>1 DEF CallbackInv, RunShape
    <2>2. RunReports(r, run[r], held, reports[r]) /\ reports'[r] = reports[r]
        BY DEF CallbackInv
    <2>3. RunStatus(run[r])' = RunStatus(run[r]) /\ RunOutputs(run[r])' = RunOutputs(run[r])
        BY <1>1 DEF RunStatus, RunOutputs
    <2> QED BY <1>1, <2>1, <2>2, <2>3 DEF RunReports
<1> QED BY <1>1, <1>2, <1>3 DEF CallbackInv

LEMMA SyncKept ==
    ASSUME SyncInv, UNCHANGED syncVars, sdkClosed => sdkClosed',
           \A t \in Threads : reports'[t] = reports[t]
    PROVE  SyncInv'
<1>1. UNCHANGED <<current, loops, ready, batch, ending, over, at, waitsOn, outcome, late>>
    BY DEF syncVars
<1>2. SyncTypes' /\ LoopInv' /\ JobInv' /\ WaitInv'
    <2>1. (SyncTypes' = SyncTypes) /\ (LoopInv' = LoopInv)
        BY <1>1 DEF SyncTypes, LoopInv, Asked
    <2>2. (JobInv' = JobInv) /\ (WaitInv' = WaitInv)
        BY <1>1 DEF JobInv, WaitInv, Asked
    <2> QED BY <2>1, <2>2 DEF SyncInv
<1>4. RankInv' /\ LateInv' /\ EarlyCallsReturn'
    BY <1>1 DEF SyncInv, RankInv, LateInv, Left, EarlyCallsReturn
<1>3. SaidInv'
    BY <1>1 DEF SyncInv, SaidInv
<1> QED BY <1>2, <1>3, <1>4 DEF SyncInv

\* Before anything happens.
LEMMA AllInit ==
    ASSUME Init
    PROVE  AllInv
<1> USE DEF Init, SpanInit
<1>1. VendorInv
    <2>1. NoCall \in CallType
        BY NewSpanType, PhasesAndFates DEF NoCall, CallType
    <2>2. CallShape(NoCall)
        BY NewSpanType DEF NoCall, CallShape
    <2>3. ASSUME NEW c \in Calls
          PROVE  CallShape(call[c]) /\ CallReports(call[c], reports[c])
        <3>1. call[c] = NoCall /\ reports[c] = <<>>
            BY OfTheirOwn DEF VendorInit
        <3>2. ~NoCall.open /\ ~NoCall.sent
            BY DEF NoCall
        <3> QED BY <2>2, <3>1, <3>2 DEF CallReports
    <2> QED BY <2>1, <2>3 DEF VendorInv, VendorInit
<1>2. CallbackInv
    <2>1. NoRun \in RunType /\ NoRun.phase = "none" /\ NoRun.fate = "none" /\ NoRun.asks = {}
          /\ NoRun.got = <<>> /\ NoRun.span.output = <<>> /\ ~NoRun.told
        BY NewSpanType DEF NoRun, RunType
    <2>2. ASSUME NEW r \in Runs
          PROVE  RunShape(r, run[r], held) /\ RunReports(r, run[r], held, reports[r])
        <3>1. run[r] = NoRun /\ reports[r] = <<>> /\ held = {}
            BY OfTheirOwn DEF CallbackInit, Runs
        <3> HIDE DEF Init
        <3> QED BY <2>1, <3>1 DEF RunShape, RunReports
    <2>3. RoundInv
        <3>1. ASSUME NEW q \in Requests, NEW n \in 1 .. MaxRounds
              PROVE  run[LlmRun(q, n)] = NoRun /\ round[q] = 0
            <4>1. LlmRun(q, n) \in LlmRuns
                BY RunFacts
            <4> QED BY <4>1 DEF CallbackInit
        <3> QED BY <2>1, <3>1 DEF RoundInv
    <2>4. /\ lastInference \in [Handlers -> Runs \cup {NoParent}]
          /\ round \in [Requests -> 0 .. MaxRounds]
          /\ run \in [Runs -> RunType] /\ held \subseteq Runs
        BY <2>1, CallbacksAssumption DEF CallbackInit, Runs
    <2> QED BY <2>2, <2>3, <2>4 DEF CallbackInv
<1>3. SyncInv
    <2> USE DEF SyncInit
    <2>1. /\ Owner \in Callers /\ Threads \subseteq Callers /\ 0 \in 0 .. MaxLoops
          /\ \A t \in Callers : at[t] = "idle" /\ \A l \in LoopIds : ready[l] = <<>> /\ batch[l] = 0
        BY SyncAssumption DEF Callers
    <2>2. SyncTypes
        <3>1. <<>> \in Seq(Whats \X Callers)
            OBVIOUS
        <3> QED BY <2>1, <3>1, SyncAssumption DEF SyncTypes
    <2>3. LoopInv
        BY <2>1 DEF LoopInv
    <2>4. JobInv /\ WaitInv
        BY <2>1 DEF JobInv, WaitInv, Waiting
    <2>5. RankInv /\ LateInv /\ EarlyCallsReturn
        BY <2>1 DEF RankInv, LateInv, EarlyCallsReturn, Waiting
    <2>6. SaidInv
        BY <2>1, OfTheirOwn DEF SaidInv
    <2> QED BY <2>2, <2>3, <2>4, <2>5, <2>6 DEF SyncInv
<1>4. \A s \in SpanIds \ (Calls \cup Runs \cup Threads) : reports[s] = <<>>
    OBVIOUS
<1> QED BY <1>1, <1>2, <1>3, <1>4 DEF AllInv

\* One part moves, and of the others nothing is said.
LEMMA AllNext ==
    ASSUME AllInv, [Next]_vars
    PROVE  AllInv'
<1> USE DEF AllInv
<1>1. CASE WithVendor
    <2>1. /\ VendorNext /\ UNCHANGED <<integration, callbackVars>> /\ UNCHANGED syncVars
        BY <1>1 DEF WithVendor
    <2>2. VendorInv' /\ Spoke(Calls) /\ UNCHANGED sdkClosed
        BY <2>1, VendorNextInv
    <2>3. CallbackInv' /\ SyncInv'
        BY <2>1, <2>2, OfTheirOwn, CallbackKept, SyncKept DEF Spoke
    <2> QED BY <2>1, <2>2, <2>3 DEF Spoke
<1>2. CASE WithCallbacks
    <2>1. /\ CallbackNext /\ UNCHANGED integration /\ UNCHANGED vendorVars /\ UNCHANGED syncVars
          /\ integration \in {"langchain", "llamaindex", "llamaindex_sync"}
        BY <1>2 DEF WithCallbacks
    <2>2. CallbackInv' /\ Spoke(Runs) /\ UNCHANGED sdkClosed
        BY <2>1, CallbackNextInv
    <2>3. VendorInv' /\ SyncInv'
        BY <2>1, <2>2, OfTheirOwn, VendorKept, SyncKept DEF Spoke
    <2> QED BY <2>1, <2>2, <2>3 DEF Spoke
<1>3. CASE WithSyncLogger
    <2>1. SyncNext /\ UNCHANGED <<integration, callbackVars>> /\ UNCHANGED vendorVars
        BY <1>3 DEF WithSyncLogger
    <2>2. SyncInv' /\ Spoke(Threads) /\ (sdkClosed => sdkClosed')
        BY <2>1, SyncNextInv
    <2>3. VendorInv' /\ CallbackInv'
        BY <2>1, <2>2, OfTheirOwn, VendorKept, CallbackKept DEF Spoke
    <2> QED BY <2>1, <2>2, <2>3 DEF Spoke
<1>4. CASE LoggerCloses
    <2>1. /\ UNCHANGED <<integration, callbackVars>> /\ UNCHANGED vendorVars
          /\ UNCHANGED syncVars /\ UNCHANGED reports /\ sdkClosed' = TRUE
        BY <1>4 DEF LoggerCloses, CloseLogger
    <2>2. VendorInv' /\ CallbackInv' /\ SyncInv'
        BY <2>1, VendorKept, CallbackKept, SyncKept
    <2> QED BY <2>1, <2>2
<1>5. CASE UNCHANGED vars
    <2>1. /\ UNCHANGED <<integration, callbackVars>> /\ UNCHANGED vendorVars
          /\ UNCHANGED syncVars /\ UNCHANGED reports /\ UNCHANGED sdkClosed
        BY <1>5 DEF vars
    <2>2. VendorInv' /\ CallbackInv' /\ SyncInv'
        BY <2>1, VendorKept, CallbackKept, SyncKept
    <2> QED BY <2>1, <2>2
<1> QED BY <1>1, <1>2, <1>3, <1>4, <1>5 DEF Next

LEMMA AllLinked ==
    ASSUME AllInv, LinkInv, [Next]_vars
    PROVE  LinkInv'
<1>1. CASE WithCallbacks
    BY <1>1, LinkNextInv DEF AllInv, WithCallbacks
<1>2. CASE UNCHANGED callbackVars
    <2>1. UNCHANGED <<run, lastInference>>
        BY <1>2 DEF callbackVars
    <2> QED BY <2>1 DEF LinkInv
<1> QED BY <1>1, <1>2 DEF Next, WithVendor, WithSyncLogger, LoggerCloses, vars

LEMMA LinkInit ==
    ASSUME Init
    PROVE  LinkInv
<1>1. \A r \in Runs : run[r] = NoRun
    BY DEF Init, CallbackInit, Runs
<1>2. NoRun.phase = "none" /\ NoRun.fate = "none" /\ NoRun.before = {}
    BY DEF NoRun
<1> QED BY <1>1, <1>2, RunFacts DEF LinkInv

-----------------------------------------------------------------------------
(* The theorems *)

\* What has been said of every span fits where the span is, whatever the calls,
\* the runs, the threads and the loops do (client.py:382-504).
THEOREM InstrumentationInvariance == Spec => []AllInv
<1>1. Init => AllInv
    BY AllInit
<1>2. AllInv /\ [Next]_vars => AllInv'
    BY AllNext
<1> QED BY <1>1, <1>2, PTL DEF Spec

\* Each call, run and thread is reported once: never twice, and not left out
\* unless the logger was closed (client.py:448-450, _instrument.py:40-41).
THEOREM ReportedOnce == Spec => []OncePerCall
<1>1. AllInv => OncePerCall
    <2> SUFFICES ASSUME AllInv PROVE OncePerCall
        OBVIOUS
    <2>0. ASSUME NEW said, said = <<>> \/ Len(said) = 1 PROVE Len(said) <= 1
        <3>1. CASE said = <<>>
            BY <3>1
        <3>2. CASE Len(said) = 1
            <4>1. \A n \in {1} : n <= 1
                OBVIOUS
            <4> QED BY <3>2, <4>1
        <3> QED BY <2>0, <3>1, <3>2
    <2>1. ASSUME NEW c \in Calls
          PROVE  /\ Len(reports[c]) <= 1
                 /\ call[c].phase = "over" /\ call[c].sent /\ call[c].layers > 0
                      => sdkClosed \/ Len(reports[c]) = 1
        <3>1. CallShape(call[c]) /\ CallReports(call[c], reports[c])
            BY DEF AllInv, VendorInv
        <3>2. call[c].phase = "over" => ~call[c].open
            BY <3>1 DEF CallShape
        <3>3. reports[c] = <<>> \/ Len(reports[c]) = 1
            BY <3>1 DEF CallReports
        <3>4. ~call[c].open /\ call[c].sent /\ call[c].layers > 0 => sdkClosed \/ Len(reports[c]) = 1
            BY <3>1 DEF CallReports
        <3> QED BY <2>0, <3>2, <3>3, <3>4
    <2>2. ASSUME NEW r \in Runs
          PROVE  /\ Len(reports[r]) <= 1
                 /\ run[r].phase = "over" /\ r \notin held => sdkClosed \/ Len(reports[r]) = 1
        <3>1. RunShape(r, run[r], held) /\ RunReports(r, run[r], held, reports[r])
            BY DEF AllInv, CallbackInv
        <3>2. reports[r] = <<>> \/ Len(reports[r]) = 1
            BY <3>1 DEF RunReports
        <3>3. run[r].phase # "none" /\ r \notin held => sdkClosed \/ Len(reports[r]) = 1
            BY <3>1 DEF RunReports
        <3> QED BY <2>0, <3>2, <3>3
    <2>3. ASSUME NEW t \in Threads
          PROVE  Len(reports[t]) <= 1 /\ (at[t] = "over" => sdkClosed \/ Len(reports[t]) = 1)
        <3>1. reports[t] = <<>> \/ Len(reports[t]) = 1
            BY DEF AllInv, SyncInv, SaidInv
        <3>2. at[t] = "over" => sdkClosed \/ Len(reports[t]) = 1
            BY DEF AllInv, SyncInv, SaidInv
        <3> QED BY <2>0, <3>1, <3>2
    <2>4. \A s \in SpanIds : Len(reports[s]) <= 1
        BY <2>0, <2>1, <2>2, <2>3 DEF AllInv
    <2> QED BY <2>1, <2>2, <2>3, <2>4 DEF OncePerCall
<1> QED BY <1>1, InstrumentationInvariance, PTL

\* An error, a timeout or a cancellation that the wrapper or the handler saw is
\* the status of the event, and no other call has one (client.py:432-450).
THEOREM StatusIsFaithful == Spec => []FaithfulStatus
<1>1. AllInv => FaithfulStatus
    <2> SUFFICES ASSUME AllInv PROVE FaithfulStatus
        OBVIOUS
    <2>1. ASSUME NEW c \in Calls
          PROVE  Reported(c, CallStatus(call[c]))
        BY DEF AllInv, VendorInv, CallReports, Reported
    <2>2. ASSUME NEW r \in Runs
          PROVE  Reported(r, RunStatus(run[r]))
        BY DEF AllInv, CallbackInv, RunReports, Reported
    <2>3. ASSUME NEW t \in Threads
          PROVE  Reported(t, StatusOf(outcome[t]))
        BY DEF AllInv, SyncInv, SaidInv, Reported
    <2>4. integration = "langchain" =>
             \A r \in Runs : Reported(r, IF run[r].told THEN run[r].fate ELSE "ok")
        BY <2>2 DEF RunStatus
    <2>5. integration \in {"llamaindex", "llamaindex_sync"} =>
             \A r \in Runs : Reported(r, "ok")
        BY <2>2 DEF RunStatus
    <2> QED BY <2>1, <2>3, <2>4, <2>5 DEF FaithfulStatus, CallStatus
<1> QED BY <1>1, InstrumentationInvariance, PTL

\* The output of an event is the preview of what the customer got, in order, with
\* nothing missing, twice or of another call, but where the property says so
\* (client.py:77-80, 203-210, google.py:96-103, langchain.py:139-158).
THEOREM OutputIsFaithful == Spec => []FaithfulOutput
<1>1. AllInv => FaithfulOutput
    <2> SUFFICES ASSUME AllInv PROVE FaithfulOutput
        OBVIOUS
    <2>1. ASSUME NEW c \in Calls, NEW i \in 1 .. Len(reports[c])
          PROVE  reports[c][i].output \in OutputsOf(call[c])
        <3>1. reports[c][i].output = Preview(CallOutput(call[c]))
            BY DEF AllInv, VendorInv, CallReports
        <3>2. Preview(<<>>) = <<>>
            BY DEF Preview
        <3> QED BY <3>1, <3>2 DEF OutputsOf, CallOutput
    <2>2. ASSUME NEW r \in LlmRuns, NEW i \in 1 .. Len(reports[r])
          PROVE  reports[r][i].output \in OutputsOfRun(run[r])
        <3>1. reports[r][i].output \in RunOutputs(run[r])
            BY DEF AllInv, CallbackInv, RunReports, Runs
        <3> QED BY <3>1 DEF OutputsOfRun, RunOutputs
    <2> QED BY <2>1, <2>2 DEF FaithfulOutput
<1> QED BY <1>1, InstrumentationInvariance, PTL

\* A call of the synchronous logger that began before close() is never left
\* waiting for a loop that has stopped (sync.py:99-111, 183-186).
THEOREM EarlyCallsAreServed == Spec => []EarlyCallsReturn
<1>1. AllInv => EarlyCallsReturn
    BY DEF AllInv, SyncInv
<1> QED BY <1>1, InstrumentationInvariance, PTL

\* A tool's event names the inference that asked for the tool or one of another
\* request that the same handler saw end after it (langchain.py:150-167, 184-191,
\* llamaindex.py:103-131).
THEOREM ToolsAreLinked == Spec => []ToolsLinked
<1>1. Init => AllInv /\ LinkInv
    BY AllInit, LinkInit
<1>2. AllInv /\ LinkInv /\ [Next]_vars => (AllInv /\ LinkInv)'
    BY AllNext, AllLinked
<1>3. AllInv /\ LinkInv => ToolsLinked
    <2> SUFFICES ASSUME AllInv, LinkInv, NEW t \in AllToolRuns, NEW i \in 1 .. Len(reports[t])
                 PROVE  LET own == LlmRun(t[1], t[2])
                            p == reports[t][i].parent
                        IN p # own => /\ p \in LlmRuns /\ p[1] # t[1]
                                      /\ Handler(p) = Handler(t) /\ own \in run[p].before
        BY DEF ToolsLinked
    <2> DEFINE own == LlmRun(t[1], t[2])
    <2>1. RunReports(t, run[t], held, reports[t])
        BY DEF AllInv, CallbackInv, Runs
    <2>2. run[t].phase # "none" /\ reports[t][i].parent = run[t].parent
        BY <2>1 DEF RunReports
    <2>3. Handler(own) = Handler(t)
        BY RunFacts DEF Handler
    <2>4. Follows(run, own, run[t].parent) /\ (run[t].parent # own => run[t].parent[1] # t[1])
        BY <2>2 DEF LinkInv
    <2> HIDE DEF own
    <2>5. run[t].parent # own =>
             /\ run[t].parent \in LlmRuns /\ run[t].parent[1] # t[1]
             /\ Handler(run[t].parent) = Handler(t) /\ own \in run[run[t].parent].before
        BY <2>3, <2>4 DEF Follows
    <2> QED BY <2>2, <2>5 DEF own
<1> QED BY <1>1, <1>2, <1>3, PTL DEF Spec

\* With a handler for each request, a tool's event names the inference that asked
\* for it: the other one would be of another request (chat_service.py:317-323).
COROLLARY ToolsOfOwnHandlers ==
    ASSUME \A p, q \in Requests : HandlerOf[p] = HandlerOf[q] => p = q
    PROVE  Spec => [](\A t \in AllToolRuns : \A i \in 1 .. Len(reports[t]) :
                         reports[t][i].parent = LlmRun(t[1], t[2]))
<1>1. ToolsLinked => \A t \in AllToolRuns : \A i \in 1 .. Len(reports[t]) :
                         reports[t][i].parent = LlmRun(t[1], t[2])
    BY RunFacts DEF ToolsLinked, Handler, Runs
<1> QED BY <1>1, ToolsAreLinked, PTL
=============================================================================
