---------------------------- MODULE OperatorKills ----------------------------
(***************************************************************************)
(* The operator's side of the control channel: the /agents endpoints of    *)
(* the Insights API (insights_api/controllers/agents_controller.py,        *)
(* services/agents_service.py, repositories/clickhouse_repo.py), which ask *)
(* ClickHouse what to kill, and the /v1/control endpoints of the ingestion *)
(* service (controllers/control_controller.py,                             *)
(* services/control_service.py), which put the command into the queue of   *)
(* ControlChannel.                                                         *)
(*                                                                         *)
(* One host and one customer, so a conversation has one fingerprint, and a *)
(* client filter lets every row through.  The caller of a POST gives up    *)
(* after five seconds; the service it called does not learn of it.  Rows    *)
(* leave ClickHouse by their TTL of 90 days.  A block's ttl_seconds is left  *)
(* out: Enforcement has it.                                                *)
(***************************************************************************)
EXTENDS ControlChannel, AnchorText, FiniteSetsExt

CONSTANTS
    Convs,       (* conversations on the host                               *)
    BodyOf,      (* the bodies of a conversation's requests, in order       *)
    Calls,       (* calls of operators                                      *)
    NoTarget,
    ApiFaults,   (* which failures of the API's own may happen              *)
    MaxRequests  (* bound of the model: requests ever captured              *)

ASSUME OperatorAssumption ==
    /\ NoTarget \notin Convs
    /\ MaxRequests \in Nat
    /\ ApiFaults \subseteq {"timeout", "refused", "insert"}

VARIABLES
    rows,    (* inference_logs: the agent's rows with a body and a          *)
             (* fingerprint, oldest first                                   *)
    turns,   (* how many requests of a conversation there were              *)
    calls,   (* where every call is                                         *)
    commands,(* history: the command with each number                       *)
    audit    (* enforcement_events                                          *)

operatorVars == <<rows, turns, calls, commands, audit>>

killVars == <<channelVars, operatorVars>>

\* at: where the caller is.  post: where its POST to the ingestion service is.
\* asked: the conversation it named, NoTarget if by an id that is no agent's.
\* after: the calls that were accepted when this one began.  known: it named a
\* fingerprint, or a conversation that had a row until its lookup.
NoCall == [at |-> "idle", asked |-> NoTarget, post |-> "none",
           command |-> "none", conv |-> NoTarget, turn |-> 0, anchor |-> <<>>,
           hash |-> <<>>, after |-> {}, known |-> FALSE]

OperatorInit ==
    /\ rows = <<>>
    /\ turns = [v \in Convs |-> 0]
    /\ calls = [c \in Calls |-> NoCall]
    /\ commands = <<>>
    /\ audit = {}

KillInit == ChannelInit /\ OperatorInit

-----------------------------------------------------------------------------
(* Queries, and what they are asked for; Mut...: bugs the code could have had. *)

RowsOf(v) == {i \in DOMAIN rows : rows[i].conv = v}

\* The conversations the console has had a fingerprint of.
Named == {v \in Convs : \E n \in 1 .. turns[v] : Fingerprinted(BodyOf[v][n])}

Latest(S) == CHOOSE i \in S : \A j \in S : j <= i

\* The fallback: whatever was captured last in the last five minutes, when the
\* first so many rows are older than that.
Recent(old) == {i \in DOMAIN rows : i > old}

\* The fallback without a look at the id.
MutFound(call, old) == Recent(old)

\* session_fingerprint matches the ids in the agent's rows, which are ids the
\* agent has made up: the application's id of a conversation is in none of them.
Found(call, old) ==
    IF RowsOf(call.asked) # {} THEN RowsOf(call.asked) ELSE Recent(old)

Accepted == {c \in Calls : calls[c].at = "accepted"}

Begins(v) == [NoCall EXCEPT !.asked = v, !.after = Accepted]

-----------------------------------------------------------------------------
(* Captured traffic *)

\* The row of a conversation's next request arrives in ClickHouse.  Without a
\* fingerprint it is shipped all the same, but no query here ever returns it.
Captured(v) ==
    LET n == turns[v] + 1 IN
    /\ n <= Len(BodyOf[v])
    /\ MapThenSumSet(LAMBDA w : turns[w], Convs) < MaxRequests
    /\ turns' = [turns EXCEPT ![v] = n]
    /\ rows' = IF Fingerprinted(BodyOf[v][n])
               THEN Append(rows, [conv |-> v, turn |-> n]) ELSE rows
    /\ UNCHANGED <<channelVars, calls, commands, audit>>

\* A row is past its TTL.  Parts are merged, and lose such rows, in any order.
Expires(i) ==
    LET v == rows[i].conv IN
    /\ rows' = RemoveAt(rows, i)
    /\ calls' = [c \in Calls |->
          [calls[c] EXCEPT !.known =
              @ /\ (calls[c].at = "looking" /\ calls[c].asked = v => RowsOf(v) # {i})]]
    /\ UNCHANGED <<channelVars, turns, commands, audit>>

-----------------------------------------------------------------------------
(* The calls of the Insights API *)

\* kill_on_host and unblock_on_host, of a fingerprint the console has shown,
\* though its rows may be gone by now.
KillOnHost(c, v, command) ==
    /\ calls[c].at = "idle"
    /\ v \in Named
    /\ calls' = [calls EXCEPT ![c] =
          [Begins(v) EXCEPT !.at = "posting", !.post = "sent", !.command = command,
             !.conv = v, !.known = TRUE]]
    /\ UNCHANGED <<channelVars, rows, turns, commands, audit>>

\* kill_session, by the id the agent has made up, or will, for the conversation v,
\* or by another: any UUID is taken.
KillSession(c, v) ==
    /\ calls[c].at = "idle"
    /\ calls' = [calls EXCEPT ![c] =
          [Begins(v) EXCEPT !.at = "looking", !.known = RowsOf(v) # {}]]
    /\ UNCHANGED <<channelVars, rows, turns, commands, audit>>

\* What the call posts about a row: an anchor of its preview, else a kill by its
\* fingerprint.
KillFor(call, row) ==
    LET body == BodyOf[row.conv][row.turn]
        seen == ParseWireBody(body)
    IN  IF Unanchored(body)
        THEN [call EXCEPT !.at = "posting", !.post = "sent", !.conv = row.conv,
                          !.turn = row.turn, !.command = "block_fingerprint"]
        ELSE [call EXCEPT !.at = "posting", !.post = "sent", !.conv = row.conv,
                          !.turn = row.turn, !.command = "block_anchor",
                          !.anchor = BuildAnchor(seen), !.hash = RollingHash(seen)]

\* No row: ValueError, which the controller turns into a 404.
LooksInVain(c) ==
    /\ calls[c].at = "looking"
    /\ \E old \in 0 .. Len(rows) : Found(calls[c], old) = {}
    /\ calls' = [calls EXCEPT ![c].at = "refused"]
    /\ UNCHANGED <<channelVars, rows, turns, commands, audit>>

\* The latest of the rows found (it is in the window if any is).
LooksUp(c) ==
    /\ calls[c].at = "looking"
    /\ \E i \in Found(calls[c], 0) :
          /\ \A j \in Found(calls[c], 0) : j <= i
          /\ calls' = [calls EXCEPT ![c] = KillFor(@, rows[i])]
    /\ UNCHANGED <<channelVars, rows, turns, commands, audit>>

\* The answer 202.  A kill goes on to its audit row, an unblock has none.
PostAnswered(c) ==
    /\ calls[c].at = "posting"
    /\ calls[c].post = "served"
    /\ calls' = [calls EXCEPT ![c].at =
          IF calls[c].command = "unblock_fingerprint" THEN "accepted" ELSE "auditing"]
    /\ UNCHANGED <<channelVars, rows, turns, commands, audit>>

\* The answer 500, or no connection.
PostFailed(c) ==
    /\ calls[c].at = "posting"
    /\ calls[c].post = "failed"
    /\ calls' = [calls EXCEPT ![c].at = "failed"]
    /\ UNCHANGED <<channelVars, rows, turns, commands, audit>>

\* Five seconds without an answer, or the answer is lost.  The POST, if it is
\* still on its way, is served all the same.
PostTimesOut(c) ==
    /\ "timeout" \in ApiFaults
    /\ calls[c].at = "posting"
    /\ calls[c].post \in {"sent", "served"}
    /\ calls' = [calls EXCEPT ![c].at = "failed"]
    /\ UNCHANGED <<channelVars, rows, turns, commands, audit>>

\* record_enforcement_event, with the fingerprint of the row.
Audits(c) ==
    /\ calls[c].at = "auditing"
    /\ calls' = [calls EXCEPT ![c].at = "accepted"]
    /\ audit' = audit \cup {[call |-> c, conv |-> calls[c].conv,
                              command |-> calls[c].command]}
    /\ UNCHANGED <<channelVars, rows, turns, commands>>

\* The insert raises: a warning, and the kill stands.
AuditFails(c) ==
    /\ "insert" \in ApiFaults
    /\ calls[c].at = "auditing"
    /\ calls' = [calls EXCEPT ![c].at = "accepted"]
    /\ UNCHANGED <<channelVars, rows, turns, commands, audit>>

-----------------------------------------------------------------------------
(* The endpoints of the ingestion service *)

\* The command is what the body of the POST says.
CommandOf(c) == [call |-> c, command |-> calls[c].command, conv |-> calls[c].conv,
                 turn |-> calls[c].turn, anchor |-> calls[c].anchor,
                 hash |-> calls[c].hash]

\* The answer is given before the queue has the command.
MutServes(c) ==
    /\ calls[c].post = "sent"
    /\ calls' = [calls EXCEPT ![c].post = "served"]
    /\ UNCHANGED <<channelVars, rows, turns, commands, audit>>

\* kill, kill_anchor, unblock: one command is enqueued, then 202.
Serves(c) ==
    /\ calls[c].post = "sent"
    /\ Enqueue
    /\ commands' = Append(commands, CommandOf(c))
    /\ calls' = [calls EXCEPT ![c].post = "served"]
    /\ UNCHANGED <<rows, turns, audit>>

\* The request does not get there, or the queue raises: 500.
ServeFails(c) ==
    /\ "refused" \in ApiFaults
    /\ calls[c].post = "sent"
    /\ calls' = [calls EXCEPT ![c].post = "failed"]
    /\ UNCHANGED <<channelVars, rows, turns, commands, audit>>

-----------------------------------------------------------------------------
(* The specification: the operators, and the channel without its Enqueue *)

OperatorStep(c) ==
    \/ \E v \in Convs :
          \E command \in {"block_fingerprint", "unblock_fingerprint"} :
             KillOnHost(c, v, command)
    \/ \E v \in Convs \cup {NoTarget} : KillSession(c, v)
    \/ LooksInVain(c)
    \/ LooksUp(c)
    \/ PostAnswered(c)
    \/ PostFailed(c)
    \/ PostTimesOut(c)
    \/ Audits(c)
    \/ AuditFails(c)
    \/ Serves(c)
    \/ ServeFails(c)

Delivery ==
    \/ QueueExpires
    \/ \E p \in Polls :
          \/ PollFirst(p)
          \/ PollTimeout(p)
          \/ PollMore(p)
          \/ PollDrained(p)
          \/ PollError(p)
          \/ PollUnread(p)
          \/ PollSent(p)
    \/ PollAnswered
    \/ PollAbandoned
    \/ HandleCommand
    \/ AgentRestarts

KillNext ==
    \/ \E v \in Convs : Captured(v)
    \/ \E i \in DOMAIN rows : Expires(i)
    \/ \E c \in Calls : OperatorStep(c)
    \/ Delivery /\ UNCHANGED operatorVars

KillSpec == KillInit /\ [][KillNext]_killVars

-----------------------------------------------------------------------------
(* Properties *)

\* What an operator has been told is true: a call that was accepted, or has an
\* audit row, is behind exactly one command, for the conversation of the row.
\* (Not the other way round: the command of a call that timed out is issued.)
ToldIsIssued ==
    /\ \A c \in Calls : calls[c].at \in {"auditing", "accepted"} =>
          Cardinality({i \in DOMAIN commands : commands[i].call = c}) = 1
    /\ \A a \in audit : \E i \in DOMAIN commands :
          /\ commands[i].call = a.call
          /\ commands[i].command = a.command
          /\ commands[i].conv = a.conv

\* The commands the agent has handled for a conversation, and what they leave.
HandledFor(v) == {k \in DOMAIN applied : commands[applied[k]].conv = v}

Blocked(v) ==
    /\ HandledFor(v) # {}
    /\ commands[applied[Latest(HandledFor(v))]].command # "unblock_fingerprint"

\* The calls whose commands are for a conversation, and those of them that were
\* answered before a call began.
IssuedFor(v) == {commands[i].call : i \in {j \in DOMAIN commands : commands[j].conv = v}}

\* An operator who has the last word on a conversation, all other commands for
\* it having been accepted before, gets what was asked for as soon as every
\* command is handled and none was lost, however many polls the commands took.
LastWordStands ==
    \A i \in DOMAIN commands :
        LET c == commands[i].call
            v == commands[i].conv
        IN  (/\ IssuedFor(v) \ {c} \subseteq calls[c].after
             /\ Len(applied) = issued)
            => (Blocked(v) <=> commands[i].command # "unblock_fingerprint")

\* A kill of a session by the id the agent made up for it hits that conversation,
\* whatever is captured or leaves the table meanwhile, if there is a row of it with
\* a fingerprint all the time until the lookup.  If there is none, or the id is not
\* an agent's, whatever was captured last is hit.
AgentIdExact ==
    \A i \in DOMAIN commands :
        LET call == calls[commands[i].call] IN
        call.known => commands[i].conv = call.asked

\* The bodies of the conversations, and what the agent makes of them.
Wires == [v \in Convs |-> [n \in DOMAIN BodyOf[v] |-> Wire(BodyOf[v][n])]]
AgentHashes == [v \in Convs |-> [n \in DOMAIN BodyOf[v] |-> AgentHash(BodyOf[v][n])]]

\* The agent finds the anchor of a kill in every later request of the plain
\* conversation it was made from; its length is one the scan does not skip, unless
\* it is the whole of a message shorter than that even in its quotes; and if the
\* preview was whole, the hash of the kill is that of the request.
AgentRecognises ==
    \A i \in DOMAIN commands :
        LET k    == commands[i]
            body == BodyOf[k.conv][k.turn]
        IN  (k.command = "block_anchor" /\ PlainBody(body)) =>
                /\ \/ Len(k.anchor) >= MinAnchorBytes
                   \/ \E m \in DOMAIN body.messages :
                         k.anchor = Quoted(body.messages[m].content.parts[1])
                /\ \A n \in k.turn .. Len(BodyOf[k.conv]) : Occurs(k.anchor, Wires[k.conv][n])
                /\ Len(body.messages) <= PreviewMax => k.hash = AgentHashes[k.conv][k.turn]
=============================================================================
