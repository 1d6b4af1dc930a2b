--------------------------- MODULE ControlChannel ---------------------------
(***************************************************************************)
(* The way of a control command from the operator to the agent of one      *)
(* host: ControlQueue, a Valkey list (ingestion_service/repositories/      *)
(* control_queue.py), the long poll that takes commands out of it, and the *)
(* poller of the agent (inferspect-agent/internal/downlink/poller.go).     *)
(*                                                                         *)
(* A poll pops the commands before its answer is sent, each in an await of *)
(* its own, and the service is not told when the agent has stopped         *)
(* waiting: an abandoned poll goes on and answers nobody.                  *)
(*                                                                         *)
(* A command is the number of its enqueue.  The cursor is left out: it is  *)
(* sent back and forth and looked at by nobody.                            *)
(***************************************************************************)
EXTENDS Integers, Sequences

CONSTANTS
    Polls,        (* poll requests the service can be working on at a time  *)
    NoPoll,       (* the poller is not waiting for one                      *)
    PollMax,      (* max_batch: commands per poll                           *)
    MaxCommands,  (* bound of the model: commands ever enqueued             *)
    ChannelFaults (* which of the failures below may happen                 *)

ASSUME ChannelAssumption ==
    /\ NoPoll \notin Polls
    /\ PollMax \in Nat \ {0}
    /\ MaxCommands \in Nat
    /\ ChannelFaults \subseteq {"network", "valkey", "agent", "expiry"}

VARIABLES
    queue,    (* control:queue:<host>, oldest command first                 *)
    issued,   (* how many commands were ever enqueued                       *)
    polls,    (* what each poll request is doing, and what it has popped    *)
    current,  (* the poll the agent waits for, or NoPoll                    *)
    inbox,    (* commands of the last answer the poller has yet to handle   *)
    applied,  (* history: the commands given to the handler, in order       *)
    lost      (* history: commands that were dropped on the way             *)

channelVars == <<queue, issued, polls, current, inbox, applied, lost>>

Commands == 1 .. MaxCommands

PollStates == {"idle", "blocked", "draining", "answering"}

NoPollYet == [state |-> "idle", got |-> <<>>]

ChannelInit ==
    /\ queue = <<>>
    /\ issued = 0
    /\ polls = [p \in Polls |-> NoPollYet]
    /\ current = NoPoll
    /\ inbox = <<>>
    /\ applied = <<>>
    /\ lost = {}

-----------------------------------------------------------------------------
(* Helpers; the ones called Mut... are bugs the code could have had.          *)

Elems(s) == {s[i] : i \in 1 .. Len(s)}

\* LPOP instead of RPOP.
MutPopNewest == [command |-> queue[Len(queue)],
                 rest |-> SubSeq(queue, 1, Len(queue) - 1)]

\* RPOP on a list filled with LPUSH takes the oldest command.
Pop == [command |-> Head(queue), rest |-> Tail(queue)]

MutCollected(p) == <<Pop.command>>

\* The commands of a poll with one more.
Collected(p) == Append(polls[p].got, Pop.command)

BatchFull(p) == Len(polls[p].got) = PollMax

MutDrained(p) == BatchFull(p)

\* The loop over RPOP is over.
Drained(p) == queue = <<>> \/ BatchFull(p)

\* What an answer that nobody reads takes with it.
AbandonedLosses(p) == Elems(polls[p].got)

-----------------------------------------------------------------------------
(* The operator's side *)

\* ControlQueue.enqueue: one transaction of LPUSH, EXPIRE and INCR.
Enqueue ==
    /\ issued < MaxCommands
    /\ issued' = issued + 1
    /\ queue' = Append(queue, issued + 1)
    /\ UNCHANGED <<polls, current, inbox, applied, lost>>

\* Nothing was enqueued for a day: Valkey drops the list.
QueueExpires ==
    /\ "expiry" \in ChannelFaults
    /\ queue # <<>>
    /\ lost' = lost \cup Elems(queue)
    /\ queue' = <<>>
    /\ UNCHANGED <<issued, polls, current, inbox, applied>>

-----------------------------------------------------------------------------
(* The poll: ControlQueue.await_commands *)

\* The first BRPOP answers with a command.
PollFirst(p) ==
    /\ polls[p].state = "blocked"
    /\ queue # <<>>
    /\ polls' = [polls EXCEPT ![p] = [state |-> "draining", got |-> Collected(p)]]
    /\ queue' = Pop.rest
    /\ UNCHANGED <<issued, current, inbox, applied, lost>>

\* BRPOP times out: the answer is empty.
PollTimeout(p) ==
    /\ polls[p].state = "blocked"
    /\ queue = <<>>
    /\ polls' = [polls EXCEPT ![p].state = "answering"]
    /\ UNCHANGED <<queue, issued, current, inbox, applied, lost>>

\* RPOP answers with one more.
PollMore(p) ==
    /\ polls[p].state = "draining"
    /\ ~BatchFull(p)
    /\ queue # <<>>
    /\ polls' = [polls EXCEPT ![p].got = Collected(p)]
    /\ queue' = Pop.rest
    /\ UNCHANGED <<issued, current, inbox, applied, lost>>

\* The list is empty or the batch is full.
PollDrained(p) ==
    /\ polls[p].state = "draining"
    /\ Drained(p)
    /\ polls' = [polls EXCEPT ![p].state = "answering"]
    /\ UNCHANGED <<queue, issued, current, inbox, applied, lost>>

\* A Valkey call of the poll raises: 500, and what was popped is gone.
PollError(p) ==
    /\ "valkey" \in ChannelFaults
    /\ polls[p].state \in {"blocked", "draining", "answering"}
    /\ lost' = lost \cup AbandonedLosses(p)
    /\ polls' = [polls EXCEPT ![p] = NoPollYet]
    /\ current' = IF current = p THEN NoPoll ELSE current
    /\ UNCHANGED <<queue, issued, inbox, applied>>

\* A late answer is taken after all.
MutPollUnread(p) ==
    /\ p # current
    /\ polls[p].state = "answering"
    /\ inbox' = inbox \o polls[p].got
    /\ polls' = [polls EXCEPT ![p] = NoPollYet]
    /\ UNCHANGED <<queue, issued, current, applied, lost>>

\* The answer of a poll nobody waits for any more.
PollUnread(p) ==
    /\ p # current
    /\ polls[p].state = "answering"
    /\ lost' = lost \cup AbandonedLosses(p)
    /\ polls' = [polls EXCEPT ![p] = NoPollYet]
    /\ UNCHANGED <<queue, issued, current, inbox, applied>>

-----------------------------------------------------------------------------
(* The poller of the agent *)

\* pollOnce sends the next poll when all commands of the last are handled.
PollSent(p) ==
    /\ current = NoPoll
    /\ inbox = <<>>
    /\ polls[p].state = "idle"
    /\ current' = p
    /\ polls' = [polls EXCEPT ![p].state = "blocked"]
    /\ UNCHANGED <<queue, issued, inbox, applied, lost>>

\* pollOnce returns the commands.
PollAnswered ==
    /\ current \in Polls
    /\ polls[current].state = "answering"
    /\ inbox' = polls[current].got
    /\ polls' = [polls EXCEPT ![current] = NoPollYet]
    /\ current' = NoPoll
    /\ UNCHANGED <<queue, issued, applied, lost>>

\* pollOnce fails on the network or on its timeout; Run backs off and polls
\* again.
PollAbandoned ==
    /\ "network" \in ChannelFaults
    /\ current \in Polls
    /\ current' = NoPoll
    /\ UNCHANGED <<queue, issued, polls, inbox, applied, lost>>

\* Run gives the handler the next command; an error it returns is logged.
HandleCommand ==
    /\ inbox # <<>>
    /\ applied' = Append(applied, Head(inbox))
    /\ inbox' = Tail(inbox)
    /\ UNCHANGED <<queue, issued, polls, current, lost>>

\* The agent dies and is started again.
AgentRestarts ==
    /\ "agent" \in ChannelFaults
    /\ current # NoPoll \/ inbox # <<>>
    /\ lost' = lost \cup Elems(inbox)
    /\ inbox' = <<>>
    /\ current' = NoPoll
    /\ UNCHANGED <<queue, issued, polls, applied>>

-----------------------------------------------------------------------------
(* The specification *)

PollStep(p) == PollFirst(p) \/ PollTimeout(p) \/ PollMore(p) \/ PollDrained(p)

ChannelNext ==
    \/ Enqueue
    \/ QueueExpires
    \/ \E p \in Polls :
          \/ PollFirst(p)
          \/ PollTimeout(p)
          \/ PollMore(p)
          \/ PollDrained(p)
          \/ PollError(p)
          \/ PollUnread(p)
          \/ PollSent(p)
    \/ PollAnswered
    \/ PollAbandoned
    \/ HandleCommand
    \/ AgentRestarts

ChannelSpec == ChannelInit /\ [][ChannelNext]_channelVars

\* The event loop runs every poll, BRPOP's timeout included, and the agent
\* keeps polling: Run retries for ever.  Failures may go on happening, but
\* Valkey does not fail every single BRPOP.
ChannelFairSpec ==
    /\ ChannelSpec
    /\ \A p \in Polls : WF_channelVars(PollStep(p)) /\ WF_channelVars(PollUnread(p))
    /\ SF_channelVars(\E p \in Polls : PollFirst(p))
    /\ WF_channelVars(\E p \in Polls : PollSent(p))
    /\ WF_channelVars(PollAnswered)
    /\ WF_channelVars(HandleCommand)

-----------------------------------------------------------------------------
(* Properties *)

Increasing(s) == \A i, j \in 1 .. Len(s) : i < j => s[i] < s[j]

\* What the poll the agent waits for has popped.
Underway == IF current \in Polls THEN polls[current].got ELSE <<>>

ChannelTypeOK ==
    /\ queue \in Seq(Commands)
    /\ issued \in 0 .. MaxCommands
    /\ polls \in [Polls -> [state : PollStates, got : Seq(Commands)]]
    /\ \A p \in Polls : Len(polls[p].got) <= PollMax
    /\ current \in Polls \cup {NoPoll}
    /\ inbox \in Seq(Commands)
    /\ applied \in Seq(Commands)
    /\ lost \subseteq Commands

\* Commands reach the handler in the order the operator gave them and at most
\* once, whatever polls were abandoned, failed or ran side by side: an unblock
\* is never overtaken by the block it was meant to undo.  Stated of the whole
\* way that is still ahead of a command, not only of its end.
InOrder == Increasing(applied \o inbox \o Underway \o queue)

\* A command popped by an abandoned poll is never also on its way to the agent.
NoDuplicate ==
    \A p \in Polls : \A c \in Elems(polls[p].got) :
        /\ c \notin Elems(applied \o inbox \o queue)
        /\ \A q \in Polls \ {p} : c \notin Elems(polls[q].got)

\* No command vanishes without one of the failures: each is on its way,
\* applied, or accounted for as lost.
NothingVanishes ==
    1 .. issued = Elems(applied \o inbox \o queue) \cup lost
                      \cup UNION {Elems(polls[p].got) : p \in Polls}

\* Every command is sooner or later handled by the agent or lost: none stays in
\* the queue for ever while the agent polls, and no poll keeps one to itself.
Settled ==
    \A c \in Commands : (c <= issued) ~> (c \in Elems(applied) \cup lost)

\* The commands the agent can still get to handle: what an abandoned poll has
\* popped is not among them.
Ahead == Elems(inbox \o Underway \o queue)

Lossy == INSTANCE LossyChannel
         WITH Bound <- MaxCommands, ahead <- Ahead, handed <- applied

\* The channel implements the lossy one: whatever polls are abandoned, fail or
\* go on next to each other, the agent handles the oldest command it can still
\* get, and one that went missing never comes back.
ImplementsLossy == Lossy!Spec
=============================================================================
