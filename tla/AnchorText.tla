----------------------------- MODULE AnchorText -----------------------------
(***************************************************************************)
(* What a request body turns into on both sides of a kill: the byte anchor *)
(* and the rolling hash that the Insights API makes of a captured preview  *)
(* (insights_api/services/anchor.py), and the bytes and the hash the agent *)
(* compares them with (internal/fingerprint, internal/policy/anchors.go).  *)
(*                                                                         *)
(* A text is a sequence of characters, and a character stands for a class: *)
(*   "a", "b"  a letter                 "sp"  a space                      *)
(*   "nl"      a newline, a quote ...: JSON writes it as an escape         *)
(*   "fs"      U+001C .. U+001F: white space for Python, not for Go        *)
(*   "pii"     a character of an address or a number that the agent        *)
(*             redacts in previews                                         *)
(* SHA256 is taken to be injective: a hash is the sequence that was hashed.*)
(***************************************************************************)
EXTENDS Integers, SequencesExt

CONSTANTS
    MinAnchorBytes, (* FIRST_SEG of the scan: shorter anchors are skipped   *)
    AnchorMaxBytes, (* ANCHOR_MAX: size of an anchor slot                   *)
    PreviewMax      (* messages of a body that fit into input_preview       *)

ASSUME AnchorAssumption ==
    /\ MinAnchorBytes \in Nat
    /\ AnchorMaxBytes \in Nat \ {0}
    /\ PreviewMax \in Nat

\* A message's content is a string (blocks = FALSE, one part) or a list of
\* text blocks, its parts; images count as no part.  A body has its messages,
\* the content of Anthropic's top-level system prompt (or NoSystem), and the way
\* its writer separates keys from values.
Str(t) == [blocks |-> FALSE, parts |-> <<t>>]

NoSystem == Str(<<>>)

PySpace == {"sp", "nl", "fs"}
GoSpace == {"sp", "nl"}

-----------------------------------------------------------------------------
(* Bytes *)

\* json.dumps of a text: what needs an escape is not there as it is.
Escaped(t) ==
    FoldLeft(LAMBDA w, c : IF c \in {"nl", "fs"} THEN w \o <<"\\", c>> ELSE Append(w, c),
             <<>>, t)

\* The key and the quotes around a string content.
OpenQuote(compact) == IF compact THEN <<"content:q">> ELSE <<"content: q">>
CloseQuote == <<"q">>

\* A message as the application writes it.
WireOf(m, compact) ==
    <<"role", m.role>> \o
    (IF m.content.blocks
     THEN FoldLeft(LAMBDA w, t : w \o <<"text:q">> \o Escaped(t) \o CloseQuote,
                   <<>>, m.content.parts)
     ELSE OpenQuote(compact) \o Escaped(m.content.parts[1]) \o CloseQuote)

\* The bytes of a request body.
Wire(body) ==
    FoldLeft(LAMBDA w, t : w \o Escaped(t), <<>>, body.system.parts) \o
    FoldLeft(LAMBDA w, m : w \o WireOf(m, body.compact), <<>>, body.messages)

\* bytes.Index
Occurs(t, w) ==
    \E i \in 0 .. Len(w) - Len(t) : SubSeq(w, i + 1, i + Len(t)) = t

-----------------------------------------------------------------------------
(* The preview the agent sends: redacted, and cut at a size *)

RedactText(t) == [i \in DOMAIN t |-> IF t[i] = "pii" THEN "*" ELSE t[i]]

RedactContent(content) ==
    [content EXCEPT !.parts = [i \in DOMAIN @ |-> RedactText(@[i])]]

Redact(m) == [m EXCEPT !.content = RedactContent(@)]

\* What can be read of a preview.  json.loads of a whole body gives the system
\* prompt as well; of a cut one _parse_messages_lenient gives the messages that
\* are complete.
MutParseWireBody(body) ==
    [i \in 1 .. Len(body.messages) - 1 |-> Redact(body.messages[i + 1])]

ParseWireBody(body) ==
    LET all == [i \in DOMAIN body.messages |-> Redact(body.messages[i])] IN
    IF Len(all) > PreviewMax
    THEN SubSeq(all, 1, PreviewMax)
    ELSE IF body.system # NoSystem
         THEN <<[role |-> "system", content |-> RedactContent(body.system)]>> \o all
         ELSE all

-----------------------------------------------------------------------------
(* Both sides' canonical form *)

\* White space runs become one space; none is left at the ends.
Collapse(t, space) ==
    LET step(acc, c) ==
          IF c \notin space THEN Append(acc, c)
          ELSE IF acc = <<>> \/ acc[Len(acc)] = "sp" THEN acc
          ELSE Append(acc, "sp")
        out == FoldLeft(step, <<>>, t)
    IN  IF out # <<>> /\ out[Len(out)] = "sp" THEN Front(out) ELSE out

\* Runs are kept.
MutNormalizeContent(t) == t

NormalizeContent(t) == Collapse(t, PySpace)

AgentNormalizeContent(t) == Collapse(t, GoSpace)

\* The text blocks of a content, joined.
ExtractText(content) == FoldLeft(LAMBDA acc, t : acc \o t, <<>>, content.parts)

\* With no text block Python hashes the JSON of the content, Go nothing.
ExtractMessageText(content) ==
    IF content.blocks /\ content.parts = <<>> THEN <<"[", "]">> ELSE ExtractText(content)

\* Roles are written "user", "User" or "us er": str.lower(), and
Lower(role) == IF role = "User" THEN "user" ELSE role

\* normalize_role and normalizeRole, which drop white space too.
NormalizeRole(role) == IF role = "us er" THEN "user" ELSE Lower(role)

\* rolling_hash_over: the chain of role and content.
RollingHash(messages) ==
    [i \in DOMAIN messages |->
        <<NormalizeRole(messages[i].role),
          NormalizeContent(ExtractMessageText(messages[i].content))>>]

\* ExtractNormalizedMessages reads every body with messages as OpenAI's, whose
\* system prompt is one of the messages: Anthropic's is not looked at.
AgentHash(body) ==
    [i \in DOMAIN body.messages |->
        <<NormalizeRole(body.messages[i].role),
          AgentNormalizeContent(ExtractText(body.messages[i].content))>>]

-----------------------------------------------------------------------------
(* The anchor *)

FirstBytes(t) == SubSeq(t, 1, IF Len(t) < AnchorMaxBytes THEN Len(t) ELSE AnchorMaxBytes)

\* A text with the key and quotes that surround it in a compact body.
Quoted(text) == OpenQuote(TRUE) \o text \o CloseQuote

\* Too short for the scan, and no key around it.
MutPadded(text) == FirstBytes(text)

\* A text too short for the scan gets the key and quotes.  With one to three
\* bytes of text that is still too short.
Padded(text) ==
    FirstBytes(IF Len(text) >= MinAnchorBytes THEN text ELSE Quoted(text))

\* The first user message with text, else the first that is not the system's.
BuildAnchor(messages) ==
    LET texts(Who(_)) == {i \in DOMAIN messages :
                             /\ Who(Lower(messages[i].role))
                             /\ ExtractMessageText(messages[i].content) # <<>>}
        users  == texts(LAMBDA r : r = "user")
        others == texts(LAMBDA r : r # "system")
        from   == IF users # {} THEN users ELSE others
        first  == CHOOSE i \in from : \A j \in from : i <= j
    IN  IF from = {} THEN <<>>
        ELSE Padded(ExtractMessageText(messages[first].content))

\* build_full_anchor raises ValueError: no message, or no text.
Unanchored(body) == BuildAnchor(ParseWireBody(body)) = <<>>

-----------------------------------------------------------------------------
(* The fingerprint *)

\* FromOpenAIBody, FromAnthropicBody: there must be a system prompt or a user
\* message, and one of Anthropic's must be a string: a list does not decode.
Fingerprinted(body) ==
    /\ ~body.system.blocks
    /\ \/ body.system # NoSystem
       \/ \E i \in DOMAIN body.messages : body.messages[i].role \in {"system", "user"}

-----------------------------------------------------------------------------
(* What the two sides agree on *)

\* The text is in the body as it is.
Verbatim(t) == \A i \in DOMAIN t : t[i] \notin {"nl", "fs", "pii"}

\* A body whose every text is plain, and whose separators are compact.
PlainBody(body) ==
    /\ body.compact
    /\ body.system = NoSystem
    /\ \A i \in DOMAIN body.messages :
          /\ ~body.messages[i].content.blocks
          /\ Verbatim(body.messages[i].content.parts[1])
=============================================================================
