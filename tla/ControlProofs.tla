---------------------------- MODULE ControlProofs ----------------------------
(***************************************************************************)
(* What holds of ControlChannel, and of OperatorKills, which is            *)
(* ControlChannel with operators in front of it, for any conversations,    *)
(* bodies, calls, polls and commands and any size of a batch.              *)
(*                                                                         *)
(* The inductive invariant ChannelInv takes the path of a command apart:   *)
(* each stretch of it (queue, polls, inbox, applied) is in order, and what *)
(* is further down the path is older.  InOrder follows by putting the      *)
(* stretches together again.  Polls are in it with all they have popped,   *)
(* abandoned or not, since a pop of one must not overtake another.         *)
(*                                                                         *)
(* The inductive invariant KillsInv says of every call where its POST and  *)
(* its command are: there is no command before the ingestion service has   *)
(* served the POST, one from then on, for the conversation the call has    *)
(* settled on; and a call by the agent's own id can settle on no other     *)
(* conversation than the one it was asked for, since rows only grow.       *)
(*                                                                         *)
(* Why the last word of an operator stands: InOrder holds of the commands  *)
(* of operators; an operator who has seen a call accepted has a command    *)
(* behind that of the call; and when as many commands are handled as were  *)
(* issued, each was handled at its own number.                             *)
(***************************************************************************)
EXTENDS OperatorKills, SequenceTheorems, FiniteSetTheorems, TLAPS

(***************************************************************************)
(* The channel                                                             *)
(***************************************************************************)

\* Everything in s was issued before everything in t.
Older(s, t) == \A a \in Elems(s), b \in Elems(t) : a < b

Disjoint(s, t) == Elems(s) \cap Elems(t) = {}

\* A poll that has popped nothing yet has nothing, and the poller waits for an
\* answer only when it has handled the last one.
Waiting ==
    /\ \A p \in Polls : polls[p].state \in {"idle", "blocked"} => polls[p].got = <<>>
    /\ current # NoPoll => inbox = <<>>

\* Every stretch of the path is in order.
Sorted ==
    /\ Increasing(applied) /\ Increasing(inbox) /\ Increasing(queue)
    /\ \A p \in Polls : Increasing(polls[p].got)

\* The stretches are in order.
Staggered ==
    /\ Older(applied, inbox) /\ Older(applied, queue) /\ Older(inbox, queue)
    /\ \A p \in Polls : Older(polls[p].got, queue)
    /\ current # NoPoll => Older(applied, polls[current].got)

\* No two hold the same command.
Apart ==
    \A p \in Polls :
        /\ Disjoint(polls[p].got, applied) /\ Disjoint(polls[p].got, inbox)
        /\ \A q \in Polls \ {p} : Disjoint(polls[p].got, polls[q].got)

\* NothingVanishes, stretch by stretch.
Accounted ==
    \A c \in Commands :
        c <= issued <=> \/ c \in Elems(applied) \/ c \in Elems(inbox)
                        \/ c \in Elems(queue) \/ c \in lost
                        \/ \E p \in Polls : c \in Elems(polls[p].got)

ChannelInv ==
    /\ ChannelTypeOK
    /\ Waiting
    /\ Sorted
    /\ Staggered
    /\ Apart
    /\ Accounted

-----------------------------------------------------------------------------
(* Facts about sequences of commands *)

\* Nothing is in the empty one.
LEMMA EmptyFacts == Elems(<<>>) = {} /\ Increasing(<<>>)
BY DEF Elems, Increasing

LEMMA AppendFacts ==
    ASSUME NEW s \in Seq(Commands), NEW c \in Commands
    PROVE  /\ Append(s, c) \in Seq(Commands)
           /\ Elems(Append(s, c)) = Elems(s) \cup {c}
           /\ Increasing(s) /\ (\A a \in Elems(s) : a < c) => Increasing(Append(s, c))
<1>1. \A i \in 1 .. Len(s) : Append(s, c)[i] = s[i]
    OBVIOUS
<1>2. Len(Append(s, c)) = Len(s) + 1 /\ Append(s, c)[Len(s) + 1] = c
    OBVIOUS
<1>3. Elems(Append(s, c)) = Elems(s) \cup {c}
    BY <1>1, <1>2 DEF Elems
<1>4. ASSUME Increasing(s), \A a \in Elems(s) : a < c PROVE Increasing(Append(s, c))
    BY <1>1, <1>2, <1>4 DEF Increasing, Elems
<1> QED BY <1>3, <1>4

LEMMA TailFacts ==
    ASSUME NEW s \in Seq(Commands), s # <<>>
    PROVE  /\ Head(s) \in Commands
           /\ Tail(s) \in Seq(Commands)
           /\ Elems(s) = {Head(s)} \cup Elems(Tail(s))
           /\ Increasing(s) => /\ Increasing(Tail(s))
                               /\ \A a \in Elems(Tail(s)) : Head(s) < a
<1>1. /\ Head(s) \in Commands /\ Head(s) = s[1] /\ Len(s) > 0
      /\ Tail(s) \in Seq(Commands)
      /\ Len(Tail(s)) = Len(s) - 1
      /\ \A i \in 1 .. Len(s) - 1 : Tail(s)[i] = s[i + 1]
    OBVIOUS
<1>2. \A i \in 1 .. Len(s) : i = 1 \/ i - 1 \in 1 .. Len(s) - 1
    BY <1>1
<1>3. Elems(s) = {Head(s)} \cup Elems(Tail(s))
    <2>1. \A i \in 1 .. Len(s) : s[i] = Head(s) \/ s[i] \in Elems(Tail(s))
        <3> SUFFICES ASSUME NEW i \in 1 .. Len(s), i # 1
                     PROVE  s[i] \in Elems(Tail(s))
            BY <1>1
        <3>1. i - 1 \in 1 .. Len(Tail(s)) /\ Tail(s)[i - 1] = s[i]
            BY <1>1, <1>2
        <3> QED BY <3>1 DEF Elems
    <2>2. Elems(s) \subseteq {Head(s)} \cup Elems(Tail(s))
        BY <2>1 DEF Elems
    <2>3. {Head(s)} \cup Elems(Tail(s)) \subseteq Elems(s)
        BY <1>1 DEF Elems
    <2> QED BY <2>2, <2>3
<1>4. ASSUME Increasing(s)
      PROVE  Increasing(Tail(s)) /\ \A a \in Elems(Tail(s)) : Head(s) < a
    BY <1>1, <1>4 DEF Increasing, Elems
<1> QED BY <1>1, <1>3, <1>4

LEMMA ConcatFacts ==
    ASSUME NEW s \in Seq(Commands), NEW t \in Seq(Commands)
    PROVE  /\ s \o t \in Seq(Commands)
           /\ Elems(s \o t) = Elems(s) \cup Elems(t)
           /\ Increasing(s) /\ Increasing(t) /\ Older(s, t) => Increasing(s \o t)
<1>1. /\ s \o t \in Seq(Commands)
      /\ Len(s \o t) = Len(s) + Len(t)
      /\ \A i \in 1 .. Len(s) + Len(t) :
            (s \o t)[i] = IF i <= Len(s) THEN s[i] ELSE t[i - Len(s)]
    BY ConcatProperties
<1>2. /\ \A i \in 1 .. Len(s) : (s \o t)[i] = s[i]
      /\ \A i \in 1 .. Len(t) : (s \o t)[i + Len(s)] = t[i]
    BY <1>1
<1>3. Elems(s \o t) = Elems(s) \cup Elems(t)
    <2>1. Elems(s \o t) \subseteq Elems(s) \cup Elems(t)
        BY <1>1 DEF Elems
    <2>2. Elems(s) \cup Elems(t) \subseteq Elems(s \o t)
        BY <1>1, <1>2 DEF Elems
    <2> QED BY <2>1, <2>2
<1>4. ASSUME Increasing(s), Increasing(t), Older(s, t),
             NEW i \in 1 .. Len(s \o t), NEW j \in 1 .. Len(s \o t), i < j
      PROVE  (s \o t)[i] < (s \o t)[j]
    <2>1. CASE j <= Len(s)
        BY <1>1, <1>4, <2>1 DEF Increasing
    <2>2. CASE i > Len(s)
        BY <1>1, <1>4, <2>2 DEF Increasing
    <2>3. CASE i <= Len(s) /\ j > Len(s)
        BY <1>1, <1>4, <2>3 DEF Older, Elems
    <2> QED BY <1>1, <2>1, <2>2, <2>3
<1> QED BY <1>1, <1>3, <1>4 DEF Increasing

\* Commands are the numbers of their enqueue.
LEMMA ElemsAreCommands == \A s \in Seq(Commands) : Elems(s) \subseteq Commands
BY DEF Elems

-----------------------------------------------------------------------------
(* The invariant *)

\* It holds when nothing was issued.
LEMMA InitInv == ChannelInit => ChannelInv
<1> SUFFICES ASSUME ChannelInit PROVE ChannelInv
    OBVIOUS
<1> USE ChannelAssumption, EmptyFacts DEF ChannelInit, NoPollYet
<1>1. ChannelTypeOK
    BY DEF ChannelTypeOK, PollStates, Commands
<1>2. Waiting /\ Sorted
    BY DEF Waiting, Sorted
<1>3. Staggered /\ Apart
    BY DEF Staggered, Apart, Older, Disjoint
<1>4. Accounted
    BY DEF Accounted, Commands
<1> QED BY <1>1, <1>2, <1>3, <1>4 DEF ChannelInv

\* A pop moves the oldest command of the queue behind what its poll has, and
\* whatever else is on the path is older or in another poll.
LEMMA PopInv ==
    ASSUME ChannelInv, NEW p \in Polls, queue # <<>>,
           polls[p].state \in {"blocked", "draining"}, Len(polls[p].got) < PollMax,
           polls' = [polls EXCEPT ![p] = [state |-> "draining",
                                          got |-> Append(polls[p].got, Head(queue))]],
           queue' = Tail(queue),
           UNCHANGED <<issued, current, inbox, applied, lost>>
    PROVE  ChannelInv'
<1> DEFINE h == Head(queue)
<1> USE DEF ChannelInv
<1>1. /\ h \in Commands /\ queue' \in Seq(Commands)
      /\ Elems(queue) = {h} \cup Elems(queue')
      /\ Increasing(queue') /\ \A a \in Elems(queue') : h < a
    BY TailFacts DEF ChannelTypeOK, Sorted
<1>2. /\ polls'[p].got \in Seq(Commands)
      /\ Elems(polls'[p].got) = Elems(polls[p].got) \cup {h}
      /\ Increasing(polls'[p].got)
      /\ Len(polls'[p].got) <= PollMax
      /\ polls'[p].state = "draining"
    <2>1. polls[p].got \in Seq(Commands) /\ polls'[p].got = Append(polls[p].got, h)
        BY DEF ChannelTypeOK
    <2>2. \A a \in Elems(polls[p].got) : a < h
        BY <1>1 DEF Staggered, Older
    <2>3. Len(polls'[p].got) = Len(polls[p].got) + 1
        BY <2>1
    <2>4. polls'[p].state = "draining"
        BY DEF ChannelTypeOK
    <2> QED BY <1>1, <2>1, <2>2, <2>3, <2>4, AppendFacts, ChannelAssumption DEF Sorted
<1>3. \A q \in Polls \ {p} : polls'[q] = polls[q]
    BY DEF ChannelTypeOK
<1> HIDE DEF h
<1>4. ChannelTypeOK'
    BY <1>1, <1>2 DEF ChannelTypeOK, PollStates
<1>5. Waiting'
    BY <1>2, <1>3 DEF Waiting
<1>6. Sorted'
    BY <1>1, <1>2, <1>3 DEF Sorted
<1>7. Staggered'
    BY <1>1, <1>2, <1>3, ChannelAssumption DEF Staggered, Older, ChannelTypeOK
<1>8. Apart'
    <2>1. h \in Elems(queue) /\ ~ h < h
        BY <1>1, ChannelAssumption DEF Commands
    <2>2. h \notin Elems(applied) /\ h \notin Elems(inbox)
        BY <2>1 DEF Staggered, Older
    <2>3. \A q \in Polls : h \notin Elems(polls[q].got)
        BY <2>1 DEF Staggered, Older
    <2>4. ASSUME NEW r \in Polls
          PROVE  Disjoint(polls'[r].got, applied) /\ Disjoint(polls'[r].got, inbox)
        BY <1>2, <1>3, <2>2 DEF Apart, Disjoint
    <2>5. ASSUME NEW r \in Polls, NEW q \in Polls \ {r}
          PROVE  Disjoint(polls'[r].got, polls'[q].got)
        <3>1. CASE r = p
            <4>1. /\ polls'[r].got = polls'[p].got /\ polls'[q].got = polls[q].got
                  /\ Elems(polls[p].got) \cap Elems(polls[q].got) = {}
                  /\ h \notin Elems(polls[q].got)
                BY <1>3, <2>3, <3>1 DEF Apart, Disjoint
            <4> QED BY <1>2, <4>1 DEF Disjoint
        <3>2. CASE r # p /\ q = p
            <4>1. /\ polls'[r].got = polls[r].got /\ polls'[q].got = polls'[p].got
                  /\ Elems(polls[r].got) \cap Elems(polls[p].got) = {}
                  /\ h \notin Elems(polls[r].got)
                BY <1>3, <2>3, <3>2 DEF Apart, Disjoint
            <4> QED BY <1>2, <4>1 DEF Disjoint
        <3>3. CASE r # p /\ q # p
            BY <1>3, <3>3 DEF Apart
        <3> QED BY <3>1, <3>2, <3>3
    <2> QED BY <2>4, <2>5 DEF Apart, Disjoint
<1>9. Accounted'
    BY <1>1, <1>2, <1>3 DEF Accounted
<1> QED BY <1>4, <1>5, <1>6, <1>7, <1>8, <1>9

\* A poll that is over has nothing: its commands are lost.
LEMMA DropInv ==
    ASSUME ChannelInv, NEW p \in Polls,
           lost' = lost \cup AbandonedLosses(p),
           polls' = [polls EXCEPT ![p] = NoPollYet],
           current' \in {current, NoPoll},
           current' # p,
           UNCHANGED <<queue, issued, inbox, applied>>
    PROVE  ChannelInv'
<1> USE DEF ChannelInv
<1>1. polls'[p] = NoPollYet /\ Elems(polls'[p].got) = {} /\ Increasing(polls'[p].got)
    BY EmptyFacts DEF ChannelTypeOK, NoPollYet
<1>2. \A q \in Polls \ {p} : polls'[q] = polls[q]
    BY DEF ChannelTypeOK
<1>3. ChannelTypeOK'
    <2>1. Elems(polls[p].got) \subseteq Commands
        BY ElemsAreCommands DEF ChannelTypeOK
    <2> QED BY <2>1, ChannelAssumption
            DEF ChannelTypeOK, NoPollYet, PollStates, AbandonedLosses
<1>4. Waiting'
    BY <1>1, <1>2 DEF Waiting, NoPollYet
<1>5. Sorted'
    BY <1>1, <1>2 DEF Sorted
<1>6. Staggered'
    BY <1>1, <1>2 DEF Staggered, Older, ChannelTypeOK
<1>7. Apart'
    BY <1>1, <1>2 DEF Apart, Disjoint
<1>8. Accounted'
    BY <1>1, <1>2 DEF Accounted, AbandonedLosses
<1> QED BY <1>3, <1>4, <1>5, <1>6, <1>7, <1>8

\* A poll that only changes its state, to one where it may hold commands.
LEMMA StateInv ==
    ASSUME ChannelInv, NEW p \in Polls, NEW st \in PollStates,
           st \in {"idle", "blocked"} => polls[p].got = <<>>,
           polls' = [polls EXCEPT ![p].state = st],
           current' \in {current, p},
           current' # current => inbox = <<>> /\ polls[p].got = <<>>,
           UNCHANGED <<queue, issued, inbox, applied, lost>>
    PROVE  ChannelInv'
<1> USE DEF ChannelInv
<1>1. \A q \in Polls : polls'[q].got = polls[q].got
    BY DEF ChannelTypeOK
<1>2. \A q \in Polls : polls'[q].state = IF q = p THEN st ELSE polls[q].state
    BY DEF ChannelTypeOK
<1>3. ChannelTypeOK'
    BY <1>1 DEF ChannelTypeOK
<1>4. Waiting'
    BY <1>1, <1>2 DEF Waiting
<1>5. Sorted' /\ Apart'
    BY <1>1 DEF Sorted, Apart, Disjoint
<1>6. Staggered'
    BY <1>1, EmptyFacts DEF Staggered, Older, ChannelTypeOK
<1>7. Accounted'
    BY <1>1 DEF Accounted
<1> QED BY <1>3, <1>4, <1>5, <1>6, <1>7
-----------------------------------------------------------------------------
(* Every step keeps it *)

\* A new command is younger than all others.
LEMMA EnqueueInv == ChannelInv /\ Enqueue => ChannelInv'
<1> SUFFICES ASSUME ChannelInv, Enqueue PROVE ChannelInv'
    OBVIOUS
<1> USE ChannelAssumption DEF ChannelInv
<1> DEFINE n == issued + 1
<1>1. n \in Commands /\ issued' = n /\ queue' = Append(queue, n)
    BY DEF Enqueue, ChannelTypeOK, Commands
<1>2. UNCHANGED <<polls, current, inbox, applied, lost>>
    BY DEF Enqueue
<1>3. \A c \in Commands : \/ c \in Elems(applied) \/ c \in Elems(inbox)
                            \/ c \in Elems(queue) \/ c \in lost
                            \/ \E p \in Polls : c \in Elems(polls[p].got)
                         => c < n
    BY DEF Accounted, ChannelTypeOK, Commands
<1>4. /\ Elems(applied) \subseteq Commands /\ Elems(inbox) \subseteq Commands
      /\ Elems(queue) \subseteq Commands
      /\ \A p \in Polls : Elems(polls[p].got) \subseteq Commands
    BY ElemsAreCommands DEF ChannelTypeOK
<1>5. /\ queue' \in Seq(Commands)
      /\ Elems(queue') = Elems(queue) \cup {n}
      /\ Increasing(queue')
    <2>1. \A a \in Elems(queue) : a < n
        BY <1>3, <1>4
    <2> QED BY <1>1, <2>1, AppendFacts DEF ChannelTypeOK, Sorted
<1>6. \A c \in Commands : c <= issued' <=> c <= issued \/ c = n
    BY <1>1 DEF Commands, ChannelTypeOK
<1> HIDE DEF n
<1>7. ChannelTypeOK'
    BY <1>1, <1>2, <1>5 DEF ChannelTypeOK, Commands
<1>8. Waiting' /\ Sorted' /\ Apart'
    BY <1>2, <1>5 DEF Waiting, Sorted, Apart, Disjoint
<1>9. Staggered'
    BY <1>2, <1>3, <1>4, <1>5 DEF Staggered, Older
<1>10. Accounted'
    BY <1>2, <1>5, <1>6 DEF Accounted
<1> QED BY <1>7, <1>8, <1>9, <1>10

LEMMA QueueExpiresInv == ChannelInv /\ QueueExpires => ChannelInv'
<1> SUFFICES ASSUME ChannelInv, QueueExpires PROVE ChannelInv'
    OBVIOUS
<1> USE EmptyFacts DEF ChannelInv
<1>1. /\ queue' = <<>> /\ lost' = lost \cup Elems(queue)
      /\ UNCHANGED <<issued, polls, current, inbox, applied>>
    BY DEF QueueExpires
<1>2. ChannelTypeOK'
    BY <1>1, ElemsAreCommands DEF ChannelTypeOK
<1>3. Waiting' /\ Sorted' /\ Apart'
    BY <1>1 DEF Waiting, Sorted, Apart, Disjoint
<1>4. Staggered'
    BY <1>1 DEF Staggered, Older
<1>5. Accounted'
    BY <1>1 DEF Accounted
<1> QED BY <1>2, <1>3, <1>4, <1>5

\* The steps of a poll are the three kinds above.
LEMMA PollInv ==
    ASSUME ChannelInv, NEW p \in Polls,
           \/ PollFirst(p) \/ PollTimeout(p) \/ PollMore(p) \/ PollDrained(p)
           \/ PollError(p) \/ PollUnread(p) \/ PollSent(p)
    PROVE  ChannelInv'
<1> USE ChannelAssumption
<1>0. /\ polls[p].got \in Seq(Commands) /\ Len(polls[p].got) <= PollMax
      /\ polls[p].state \in {"idle", "blocked"} => polls[p].got = <<>>
      /\ polls[p] = [state |-> polls[p].state, got |-> polls[p].got]
    BY DEF ChannelInv, ChannelTypeOK, Waiting
<1>1. CASE PollFirst(p)
    <2>1. Len(polls[p].got) < PollMax
        BY <1>0, <1>1 DEF PollFirst
    <2> QED BY <1>1, <2>1, PopInv DEF PollFirst, Collected, Pop
<1>2. CASE PollMore(p)
    <2>1. Len(polls[p].got) < PollMax
        BY <1>0, <1>2 DEF PollMore, BatchFull
    <2>2. polls' = [polls EXCEPT ![p] = [state |-> "draining",
                                         got |-> Append(polls[p].got, Head(queue))]]
        <3>1. [polls[p] EXCEPT !.got = Append(polls[p].got, Head(queue))]
                  = [state |-> "draining", got |-> Append(polls[p].got, Head(queue))]
            <4>1. polls[p] = [state |-> "draining", got |-> polls[p].got]
                BY <1>0, <1>2 DEF PollMore
            <4>2. \A g, x : [[state |-> "draining", got |-> g] EXCEPT !.got = x]
                              = [state |-> "draining", got |-> x]
                OBVIOUS
            <4> QED BY SMTT(30), <4>1, <4>2
        <3> QED BY <1>2, <3>1 DEF PollMore, Collected, Pop
    <2> QED BY <1>2, <2>1, <2>2, PopInv DEF PollMore, Pop
<1>3. CASE PollTimeout(p)
    BY <1>3, StateInv DEF PollTimeout, PollStates
<1>4. CASE PollDrained(p)
    BY <1>4, StateInv DEF PollDrained, PollStates
<1>5. CASE PollSent(p)
    BY <1>0, <1>5, StateInv DEF PollSent, PollStates
<1>6. CASE PollError(p)
    BY <1>6, DropInv DEF PollError
<1>7. CASE PollUnread(p)
    BY <1>7, DropInv DEF PollUnread
<1> QED BY <1>1, <1>2, <1>3, <1>4, <1>5, <1>6, <1>7

\* The answer goes on with what its poll had, and nothing else is as far.
LEMMA PollAnsweredInv == ChannelInv /\ PollAnswered => ChannelInv'
<1> SUFFICES ASSUME ChannelInv, PollAnswered PROVE ChannelInv'
    OBVIOUS
<1> USE ChannelAssumption, EmptyFacts DEF ChannelInv
<1>1. /\ current \in Polls /\ current # NoPoll /\ current' = NoPoll
      /\ inbox = <<>> /\ inbox' = polls[current].got
      /\ polls' = [polls EXCEPT ![current] = NoPollYet]
      /\ UNCHANGED <<queue, issued, applied, lost>>
    BY DEF PollAnswered, Waiting
<1>2. polls'[current] = NoPollYet /\ polls'[current].got = <<>>
    BY <1>1 DEF ChannelTypeOK, NoPollYet
<1>3. \A q \in Polls \ {current} : polls'[q] = polls[q]
    BY <1>1 DEF ChannelTypeOK
<1>4. ChannelTypeOK'
    <2>1. NoPollYet \in [state : PollStates, got : Seq(Commands)]
        BY DEF NoPollYet, PollStates
    <2>2. polls' \in [Polls -> [state : PollStates, got : Seq(Commands)]]
        BY <1>1, <2>1 DEF ChannelTypeOK
    <2>3. \A q \in Polls : Len(polls'[q].got) <= PollMax
        BY <1>2, <1>3 DEF ChannelTypeOK
    <2> QED BY <1>1, <2>2, <2>3 DEF ChannelTypeOK
<1>5. Waiting'
    BY <1>1, <1>2, <1>3 DEF Waiting
<1>6. Sorted'
    BY <1>1, <1>2, <1>3 DEF Sorted
<1>7. Staggered'
    BY <1>1, <1>2, <1>3 DEF Staggered, Older
<1>8. Apart'
    BY <1>1, <1>2, <1>3 DEF Apart, Disjoint
<1>9. Accounted'
    BY <1>1, <1>2, <1>3 DEF Accounted
<1> QED BY <1>4, <1>5, <1>6, <1>7, <1>8, <1>9

LEMMA PollAbandonedInv == ChannelInv /\ PollAbandoned => ChannelInv'
BY ChannelAssumption
   DEF ChannelInv, PollAbandoned, ChannelTypeOK, Waiting, Sorted, Staggered, Apart,
       Accounted

\* The oldest command of the inbox goes on.
LEMMA HandleCommandInv == ChannelInv /\ HandleCommand => ChannelInv'
<1> SUFFICES ASSUME ChannelInv, HandleCommand PROVE ChannelInv'
    OBVIOUS
<1> USE ChannelAssumption DEF ChannelInv
<1> DEFINE h == Head(inbox)
<1>1. /\ inbox # <<>> /\ applied' = Append(applied, h) /\ inbox' = Tail(inbox)
      /\ UNCHANGED <<queue, issued, polls, current, lost>>
    BY DEF HandleCommand
<1>2. /\ h \in Commands /\ inbox' \in Seq(Commands)
      /\ Elems(inbox) = {h} \cup Elems(inbox')
      /\ Increasing(inbox') /\ \A a \in Elems(inbox') : h < a
    BY <1>1, TailFacts DEF ChannelTypeOK, Sorted
<1>3. /\ applied' \in Seq(Commands)
      /\ Elems(applied') = Elems(applied) \cup {h}
      /\ Increasing(applied')
    <2>1. \A a \in Elems(applied) : a < h
        BY <1>2 DEF Staggered, Older
    <2> QED BY <1>1, <1>2, <2>1, AppendFacts DEF ChannelTypeOK, Sorted
<1> HIDE DEF h
<1>4. current = NoPoll
    BY <1>1 DEF Waiting
<1>5. ChannelTypeOK'
    BY <1>1, <1>2, <1>3 DEF ChannelTypeOK
<1>6. Waiting' /\ Sorted'
    BY <1>1, <1>2, <1>3, <1>4 DEF Waiting, Sorted
<1>7. Staggered'
    BY <1>1, <1>2, <1>3, <1>4 DEF Staggered, Older
<1>8. Apart'
    BY <1>1, <1>2, <1>3 DEF Apart, Disjoint
<1>9. Accounted'
    BY <1>1, <1>2, <1>3 DEF Accounted
<1> QED BY <1>5, <1>6, <1>7, <1>8, <1>9

LEMMA AgentRestartsInv == ChannelInv /\ AgentRestarts => ChannelInv'
<1> SUFFICES ASSUME ChannelInv, AgentRestarts PROVE ChannelInv'
    OBVIOUS
<1> USE EmptyFacts DEF ChannelInv
<1>1. /\ inbox' = <<>> /\ current' = NoPoll /\ lost' = lost \cup Elems(inbox)
      /\ UNCHANGED <<queue, issued, polls, applied>>
    BY DEF AgentRestarts
<1>2. ChannelTypeOK'
    BY <1>1, ElemsAreCommands DEF ChannelTypeOK
<1>3. Waiting' /\ Sorted' /\ Apart'
    BY <1>1 DEF Waiting, Sorted, Apart, Disjoint
<1>4. Staggered'
    BY <1>1 DEF Staggered, Older
<1>5. Accounted'
    BY <1>1 DEF Accounted
<1> QED BY <1>2, <1>3, <1>4, <1>5

LEMMA NextInv == ChannelInv /\ [ChannelNext]_channelVars => ChannelInv'
<1> SUFFICES ASSUME ChannelInv, [ChannelNext]_channelVars PROVE ChannelInv'
    OBVIOUS
<1>1. CASE UNCHANGED channelVars
    BY <1>1 DEF channelVars, ChannelInv, ChannelTypeOK, Waiting, Sorted, Staggered,
                Apart, Accounted
<1>2. ASSUME NEW p \in Polls,
             \/ PollFirst(p) \/ PollTimeout(p) \/ PollMore(p) \/ PollDrained(p)
             \/ PollError(p) \/ PollUnread(p) \/ PollSent(p)
      PROVE  ChannelInv'
    BY <1>2, PollInv
<1> QED
    BY <1>1, <1>2, EnqueueInv, QueueExpiresInv, PollAnsweredInv, PollAbandonedInv,
       HandleCommandInv, AgentRestartsInv DEF ChannelNext

-----------------------------------------------------------------------------
(* The theorems *)

THEOREM Invariance == ChannelSpec => []ChannelInv
BY InitInv, NextInv, PTL DEF ChannelSpec

\* Everything keeps its type, and no poll pops more than its batch.
THEOREM TypeCorrect == ChannelSpec => []ChannelTypeOK
<1>1. ChannelInv => ChannelTypeOK
    BY DEF ChannelInv
<1> QED BY <1>1, Invariance, PTL

\* Commands reach the handler of the agent in the order of the operator and at
\* most once.
THEOREM OrderKept == ChannelSpec => []InOrder
<1>1. ASSUME ChannelInv PROVE InOrder
    <2> USE ChannelAssumption, EmptyFacts, <1>1 DEF ChannelInv
    <2> DEFINE u == Underway
    <2>1. /\ u \in Seq(Commands) /\ Increasing(u)
          /\ Older(applied, u) /\ Older(inbox, u) /\ Older(u, queue)
        BY DEF Underway, ChannelTypeOK, Waiting, Sorted, Staggered, Older
    <2> HIDE DEF u
    <2>2. /\ applied \in Seq(Commands) /\ inbox \in Seq(Commands)
          /\ queue \in Seq(Commands)
        BY DEF ChannelTypeOK
    <2> DEFINE s == applied \o inbox
    <2>3. s \in Seq(Commands) /\ Elems(s) = Elems(applied) \cup Elems(inbox) /\ Increasing(s)
        BY <2>2, ConcatFacts DEF Sorted, Staggered
    <2>4. Older(s, u) /\ Older(s, queue)
        BY <2>1, <2>3 DEF Older, Staggered
    <2> HIDE DEF s
    <2> DEFINE t == s \o u
    <2>5. t \in Seq(Commands) /\ Elems(t) = Elems(s) \cup Elems(u) /\ Increasing(t)
        BY <2>1, <2>3, <2>4, ConcatFacts
    <2>6. Older(t, queue)
        BY <2>1, <2>4, <2>5 DEF Older
    <2> HIDE DEF t
    <2>7. Increasing(t \o queue)
        BY <2>2, <2>5, <2>6, ConcatFacts DEF Sorted
    <2> QED BY <2>7 DEF InOrder, t, s, u
<1> QED BY <1>1, Invariance, PTL

\* What is on the path: the elements of its three stretches.
LEMMA PathElems ==
    ChannelTypeOK => Elems(applied \o inbox \o queue)
                         = Elems(applied) \cup Elems(inbox) \cup Elems(queue)
<1> SUFFICES ASSUME ChannelTypeOK
             PROVE  Elems(applied \o inbox \o queue)
                        = Elems(applied) \cup Elems(inbox) \cup Elems(queue)
    OBVIOUS
<1>1. applied \in Seq(Commands) /\ inbox \in Seq(Commands) /\ queue \in Seq(Commands)
    BY DEF ChannelTypeOK
<1>2. /\ applied \o inbox \in Seq(Commands)
      /\ Elems(applied \o inbox) = Elems(applied) \cup Elems(inbox)
    BY <1>1, ConcatFacts
<1> QED BY <1>1, <1>2, ConcatFacts

\* No command is in two places, whoever still answers an abandoned poll.
THEOREM NoneTwice == ChannelSpec => []NoDuplicate
<1>1. ASSUME ChannelInv PROVE NoDuplicate
    <2>1. ASSUME NEW p \in Polls, NEW c \in Elems(polls[p].got)
          PROVE  c \notin Elems(queue)
        <3>1. c \in Commands /\ ~ c < c
            BY <1>1, ElemsAreCommands, ChannelAssumption
               DEF ChannelInv, ChannelTypeOK, Commands
        <3> QED BY <1>1, <3>1 DEF ChannelInv, Staggered, Older
    <2>2. ASSUME NEW p \in Polls, NEW c \in Elems(polls[p].got)
          PROVE  /\ c \notin Elems(applied) /\ c \notin Elems(inbox)
                 /\ \A q \in Polls \ {p} : c \notin Elems(polls[q].got)
        BY <1>1 DEF ChannelInv, Apart, Disjoint
    <2> QED BY <1>1, <2>1, <2>2, PathElems DEF ChannelInv, NoDuplicate
<1> QED BY <1>1, Invariance, PTL

\* Every command issued is on its way, applied, or accounted for as lost.
THEOREM NoneVanishes == ChannelSpec => []NothingVanishes
<1>1. ASSUME ChannelInv PROVE NothingVanishes
    <2> USE <1>1 DEF ChannelInv
    <2> DEFINE held == UNION {Elems(polls[p].got) : p \in Polls}
               path == Elems(applied) \cup Elems(inbox) \cup Elems(queue)
    <2>1. path \subseteq Commands /\ lost \subseteq Commands /\ held \subseteq Commands
        BY ElemsAreCommands DEF ChannelTypeOK
    <2>2. \A c \in Commands : c \in 1 .. issued <=> c \in path \cup lost \cup held
        BY ChannelAssumption DEF Accounted, ChannelTypeOK, Commands
    <2>3. 1 .. issued \subseteq Commands
        BY ChannelAssumption DEF ChannelTypeOK, Commands
    <2>4. 1 .. issued = path \cup lost \cup held
        BY <2>1, <2>2, <2>3
    <2> QED BY <2>4, PathElems DEF NothingVanishes
<1> QED BY <1>1, Invariance, PTL

LEMMA WayElems ==
    ASSUME NEW s \in Seq(Commands), NEW t \in Seq(Commands), NEW u \in Seq(Commands)
    PROVE  Elems(s \o t \o u) = Elems(s) \cup Elems(t) \cup Elems(u)
<1>1. s \o t \in Seq(Commands) /\ Elems(s \o t) = Elems(s) \cup Elems(t)
    BY ConcatFacts
<1> QED BY <1>1, ConcatFacts

\* A pop takes a command off the queue; the agent may get it, if it waits for
\* the poll.
LEMMA PopMayLose ==
    ASSUME ChannelInv, NEW p \in Polls, PollFirst(p) \/ PollMore(p)
    PROVE  Elems(Underway') \cup Elems(queue') \subseteq Elems(Underway) \cup Elems(queue)
<1> DEFINE h == Head(queue)
<1> USE DEF ChannelInv
<1>1. /\ queue # <<>> /\ queue' = Tail(queue) /\ UNCHANGED current
      /\ polls'[p].got = Append(polls[p].got, h)
      /\ \A q \in Polls \ {p} : polls'[q] = polls[q]
    BY DEF PollFirst, PollMore, Pop, Collected, ChannelTypeOK
<1>2. h \in Commands /\ Elems(queue) = {h} \cup Elems(queue')
    BY <1>1, TailFacts DEF ChannelTypeOK
<1> HIDE DEF h
<1>3. CASE current = p
    <2>1. Underway = polls[p].got /\ Underway' = polls'[p].got
        BY <1>1, <1>3 DEF Underway
    <2>2. Elems(Underway') = Elems(Underway) \cup {h}
        BY <1>1, <1>2, <2>1, AppendFacts DEF ChannelTypeOK
    <2> QED BY <1>2, <2>2
<1>4. CASE current # p
    <2>1. Underway' = Underway
        BY <1>1, <1>4 DEF Underway
    <2> QED BY <1>2, <2>1
<1> QED BY <1>3, <1>4

\* Whatever a step of a poll, a lost answer or a restart does, the agent gets
\* nothing it could not have got before.
LEMMA OnlyLess ==
    ASSUME ChannelInv,
           \/ QueueExpires \/ PollAnswered \/ PollAbandoned \/ AgentRestarts
           \/ \E p \in Polls :
                 \/ PollFirst(p) \/ PollTimeout(p) \/ PollMore(p) \/ PollDrained(p)
                 \/ PollError(p) \/ PollUnread(p) \/ PollSent(p)
    PROVE  /\ UNCHANGED <<issued, applied>>
           /\ Elems(inbox') \cup Elems(Underway') \cup Elems(queue')
                  \subseteq Elems(inbox) \cup Elems(Underway) \cup Elems(queue)
<1> USE EmptyFacts, ChannelAssumption DEF ChannelInv
<1>1. CASE QueueExpires
    BY <1>1 DEF QueueExpires, Underway
<1>2. CASE PollAnswered
    <2>1. Underway' = <<>> /\ inbox' = Underway /\ UNCHANGED <<queue, issued, applied>>
        BY <1>2 DEF PollAnswered, Underway
    <2> QED BY <2>1
<1>3. CASE PollAbandoned \/ AgentRestarts
    <2>1. Underway' = <<>> /\ inbox' \in {inbox, <<>>} /\ UNCHANGED <<queue, issued, applied>>
        BY <1>3 DEF PollAbandoned, AgentRestarts, Underway
    <2> QED BY <2>1
<1>4. ASSUME NEW p \in Polls, PollFirst(p) \/ PollMore(p)
      PROVE  /\ UNCHANGED <<issued, applied, inbox>>
             /\ Elems(Underway') \cup Elems(queue')
                    \subseteq Elems(Underway) \cup Elems(queue)
    <2>1. UNCHANGED <<issued, applied, inbox>>
        BY <1>4 DEF PollFirst, PollMore
    <2> QED BY <1>4, <2>1, PopMayLose
<1>5. ASSUME NEW p \in Polls, PollTimeout(p) \/ PollDrained(p)
      PROVE  UNCHANGED <<issued, applied, inbox, queue>> /\ Underway' = Underway
    <2>1. polls' = [polls EXCEPT ![p].state = "answering"]
        BY <1>5 DEF PollTimeout, PollDrained
    <2>2. \A q \in Polls : polls'[q].got = polls[q].got
        BY <2>1 DEF ChannelTypeOK
    <2> QED BY <1>5, <2>2 DEF PollTimeout, PollDrained, Underway
<1>6. ASSUME NEW p \in Polls, PollError(p) \/ PollUnread(p)
      PROVE  UNCHANGED <<issued, applied, inbox, queue>> /\ Underway' \in {Underway, <<>>}
    <2>1. \A q \in Polls \ {p} : polls'[q] = polls[q]
        BY <1>6 DEF PollError, PollUnread, ChannelTypeOK
    <2>2. current' # p /\ current' \in {current, NoPoll}
        BY <1>6 DEF PollError, PollUnread
    <2> QED BY <1>6, <2>1, <2>2 DEF PollError, PollUnread, Underway
<1>7. ASSUME NEW p \in Polls, PollSent(p)
      PROVE  UNCHANGED <<issued, applied, inbox, queue>> /\ Underway' = <<>>
    <2>1. current' = p /\ polls'[p].got = <<>>
        BY <1>7 DEF PollSent, ChannelTypeOK, Waiting
    <2> QED BY <1>7, <2>1 DEF PollSent, Underway
<1> QED BY <1>1, <1>2, <1>3, <1>4, <1>5, <1>6, <1>7

\* The channel refines LossyChannel: every step issues a command, hands over the
\* oldest there is, or loses some.
THEOREM ChannelRefinement == ChannelSpec => ImplementsLossy
<1>1. ChannelInit => Lossy!Init
    <2> SUFFICES ASSUME ChannelInit PROVE Lossy!Init
        OBVIOUS
    <2>1. inbox = <<>> /\ Underway = <<>> /\ queue = <<>> /\ issued = 0 /\ applied = <<>>
        BY ChannelAssumption DEF ChannelInit, Underway
    <2>2. Ahead = {}
        BY <2>1, WayElems, EmptyFacts DEF Ahead
    <2> QED BY <2>1, <2>2 DEF Lossy!Init
<1>2. ChannelInv /\ ChannelInv' /\ [ChannelNext]_channelVars => [Lossy!Next]_(Lossy!lossyVars)
    <2> SUFFICES ASSUME ChannelInv, ChannelInv', [ChannelNext]_channelVars
                 PROVE  Lossy!Next \/ UNCHANGED <<issued, Ahead, applied>>
        BY DEF Lossy!lossyVars
    <2>1. Ahead = Elems(inbox) \cup Elems(Underway) \cup Elems(queue)
        <3>1. /\ inbox \in Seq(Commands) /\ Underway \in Seq(Commands)
              /\ queue \in Seq(Commands)
            BY DEF ChannelInv, ChannelTypeOK, Underway
        <3> QED BY <3>1, WayElems DEF Ahead
    <2>2. Ahead' = Elems(inbox') \cup Elems(Underway') \cup Elems(queue')
        <3>1. /\ inbox' \in Seq(Commands) /\ Underway' \in Seq(Commands)
              /\ queue' \in Seq(Commands)
            BY DEF ChannelInv, ChannelTypeOK, Underway
        <3> QED BY <3>1, WayElems DEF Ahead
    <2>3. CASE UNCHANGED channelVars
        <3>1. UNCHANGED <<inbox, queue, issued, applied>> /\ Underway' = Underway
            BY <2>3 DEF channelVars, Underway
        <3> QED BY <2>1, <2>2, <3>1
    <2>4. CASE Enqueue
        <3>1. issued < MaxCommands /\ issued' = issued + 1 /\ UNCHANGED <<applied, inbox>>
            BY <2>4 DEF Enqueue
        <3>2. Underway' = Underway
            BY <2>4 DEF Enqueue, Underway
        <3>3. Elems(queue') = Elems(queue) \cup {issued + 1}
            <4>1. issued + 1 \in Commands /\ queue \in Seq(Commands)
                BY <3>1, ChannelAssumption DEF ChannelInv, ChannelTypeOK, Commands
            <4> QED BY <2>4, <4>1, AppendFacts DEF Enqueue
        <3>4. Ahead' = Ahead \cup {issued + 1}
            BY <2>1, <2>2, <3>1, <3>2, <3>3
        <3>5. Lossy!Issue
            BY <3>1, <3>4 DEF Lossy!Issue
        <3> QED BY <3>5 DEF Lossy!Next
    <2>5. CASE HandleCommand
        <3> DEFINE h == Head(inbox)
        <3>1. /\ inbox # <<>> /\ inbox' = Tail(inbox) /\ applied' = Append(applied, h)
              /\ UNCHANGED <<issued, queue, current>>
            BY <2>5 DEF HandleCommand
        <3>0. Underway = <<>> /\ Underway' = <<>>
            BY <3>1, ChannelAssumption DEF Underway, ChannelInv, Waiting
        <3>2. /\ h \in Commands /\ Elems(inbox) = {h} \cup Elems(inbox')
              /\ \A a \in Elems(inbox') : h < a
            BY <3>1, TailFacts DEF ChannelInv, ChannelTypeOK, Sorted
        <3>3. \A a \in Elems(queue) : h < a
            BY <3>2 DEF ChannelInv, Staggered, Older
        <3> HIDE DEF h
        <3>4. Ahead = {h} \cup Elems(inbox') \cup Elems(queue)
            BY <2>1, <3>0, <3>2, EmptyFacts
        <3>5. Ahead' = Elems(inbox') \cup Elems(queue)
            BY <2>2, <3>0, <3>1, EmptyFacts
        <3>6. h \in Nat /\ ~ h < h /\ h <= h /\ \A a \in Commands : h < a => h <= a
            BY <3>2, ChannelAssumption DEF Commands
        <3>7. Elems(inbox') \subseteq Commands /\ Elems(queue) \subseteq Commands
            BY ElemsAreCommands DEF ChannelInv, ChannelTypeOK
        <3>8. h \in Ahead /\ Ahead' = Ahead \ {h} /\ \A d \in Ahead : h <= d
            BY <3>2, <3>3, <3>4, <3>5, <3>6, <3>7
        <3>9. Lossy!HandOver
            BY <3>1, <3>8 DEF Lossy!HandOver
        <3> QED BY <3>9 DEF Lossy!Next
    <2>6. CASE \/ QueueExpires \/ PollAnswered \/ PollAbandoned \/ AgentRestarts
               \/ \E p \in Polls :
                     \/ PollFirst(p) \/ PollTimeout(p) \/ PollMore(p) \/ PollDrained(p)
                     \/ PollError(p) \/ PollUnread(p) \/ PollSent(p)
        <3>1. UNCHANGED <<issued, applied>> /\ Ahead' \subseteq Ahead
            BY <2>1, <2>2, <2>6, OnlyLess
        <3>2. Lossy!GoMissing
            BY <3>1 DEF Lossy!GoMissing
        <3> QED BY <3>2 DEF Lossy!Next
    <2> QED BY <2>3, <2>4, <2>5, <2>6 DEF ChannelNext
<1> QED BY <1>1, <1>2, Invariance, PTL DEF ChannelSpec, ImplementsLossy, Lossy!Spec

(***************************************************************************)
(* The operators                                                           *)
(***************************************************************************)

\* What a call can carry.
Bodies == {BodyOf[v][n] : v \in Convs, n \in Nat}
CallType ==
    [at : {"idle", "looking", "refused", "posting", "auditing", "accepted", "failed"},
     asked : Convs \cup {NoTarget}, known : BOOLEAN,
     post : {"none", "sent", "served", "failed"},
     command : {"none", "block_fingerprint", "unblock_fingerprint", "block_anchor"},
     conv : Convs \cup {NoTarget}, turn : Nat,
     anchor : {BuildAnchor(ParseWireBody(b)) : b \in Bodies} \cup {<<>>},
     hash : {RollingHash(ParseWireBody(b)) : b \in Bodies} \cup {<<>>},
     after : SUBSET Calls]

CommandType ==
    [call : Calls,
     command : {"none", "block_fingerprint", "unblock_fingerprint", "block_anchor"},
     conv : Convs \cup {NoTarget}, turn : Nat,
     anchor : {BuildAnchor(ParseWireBody(b)) : b \in Bodies} \cup {<<>>},
     hash : {RollingHash(ParseWireBody(b)) : b \in Bodies} \cup {<<>>}]

KillsTypeOK ==
    /\ rows \in Seq([conv : Convs, turn : Nat])
    /\ turns \in [Convs -> Nat]
    /\ calls \in [Calls -> CallType]
    /\ commands \in Seq(CommandType)

IsCommandOf(i, c) == commands[i].call = c

\* A call and its command.
CommandInv ==
    \A c \in Calls :
        /\ calls[c].at \in {"idle", "looking", "refused"} => calls[c].post = "none"
        /\ calls[c].at \in {"auditing", "accepted"} => calls[c].post = "served"
        /\ calls[c].post # "served" => \A i \in 1 .. Len(commands) : ~IsCommandOf(i, c)
        /\ calls[c].post = "served" =>
              \E i \in 1 .. Len(commands) :
                 /\ \A j \in 1 .. Len(commands) : IsCommandOf(j, c) <=> j = i
                 /\ commands[i].command = calls[c].command
                 /\ commands[i].conv = calls[c].conv

\* A call and its conversation.
TargetInv ==
    \A c \in Calls :
        /\ calls[c].at = "looking" /\ calls[c].known => RowsOf(calls[c].asked) # {}
        /\ calls[c].post # "none" /\ calls[c].known => calls[c].conv = calls[c].asked

\* An audit row and the command it stands for.
AuditInv ==
    \A a \in audit : \E i \in 1 .. Len(commands) :
        /\ commands[i].call = a.call
        /\ commands[i].command = a.command
        /\ commands[i].conv = a.conv

KillsInv ==
    /\ KillsTypeOK
    /\ CommandInv
    /\ TargetInv
    /\ AuditInv

-----------------------------------------------------------------------------
(* Rows *)

\* What a lookup finds: by a known id only rows of the conversation.
LEMMA FoundFacts ==
    ASSUME KillsInv, NEW c \in Calls, calls[c].at = "looking", NEW i \in Found(calls[c], 0)
    PROVE  /\ i \in 1 .. Len(rows)
           /\ rows[i].conv \in Convs /\ rows[i].turn \in Nat
           /\ calls[c].known => rows[i].conv = calls[c].asked
<1>1. DOMAIN rows = 1 .. Len(rows)
    BY DEF KillsInv, KillsTypeOK
<1>2. i \in RowsOf(calls[c].asked) \/ (i \in Recent(0) /\ ~calls[c].known)
    BY DEF Found, KillsInv, TargetInv
<1>3. i \in 1 .. Len(rows)
    BY <1>1, <1>2 DEF RowsOf, Recent
<1>4. rows[i].conv \in Convs /\ rows[i].turn \in Nat
    <2> DEFINE Row == [conv : Convs, turn : Nat]
    <2>1. rows \in Seq(Row)
        BY DEF KillsInv, KillsTypeOK
    <2> HIDE DEF Row
    <2>2. rows[i] \in Row
        BY <1>3, <2>1
    <2> QED BY <2>2 DEF Row
<1> QED BY <1>1, <1>2, <1>3, <1>4 DEF RowsOf, Recent

\* What it posts about the row found.
LEMMA KillForType ==
    ASSUME KillsInv, NEW c \in Calls, calls[c].at = "looking", NEW i \in Found(calls[c], 0)
    PROVE  LET r == KillFor(calls[c], rows[i]) IN
           /\ r \in CallType /\ r.at = "posting" /\ r.post = "sent"
           /\ r.conv = rows[i].conv
           /\ r.known = calls[c].known /\ r.asked = calls[c].asked
           /\ r.after = calls[c].after
<1>1. rows[i].conv \in Convs /\ rows[i].turn \in Nat
    BY FoundFacts
<1>2. BodyOf[rows[i].conv][rows[i].turn] \in Bodies
    BY <1>1 DEF Bodies
<1>3. calls[c] \in CallType
    BY DEF KillsInv, KillsTypeOK
<1> QED BY ZenonT(60), <1>1, <1>2, <1>3 DEF KillFor, CallType

-----------------------------------------------------------------------------
(* The steps *)

\* Only the call c moves; rows and commands stay as they are.
LEMMA CallMoves ==
    ASSUME KillsInv, NEW c \in Calls, NEW r \in CallType,
           calls' = [calls EXCEPT ![c] = r],
           UNCHANGED <<rows, turns, commands>>, AuditInv',
           r.at \in {"idle", "looking", "refused"} => r.post = "none",
           r.at \in {"auditing", "accepted"} => r.post = "served",
           r.post = "served" <=> calls[c].post = "served",
           r.post = "served" => r.command = calls[c].command /\ r.conv = calls[c].conv,
           r.at = "looking" /\ r.known => RowsOf(r.asked) # {},
           r.post # "none" /\ r.known => r.conv = r.asked
    PROVE  KillsInv'
<1>1. /\ calls' \in [Calls -> CallType] /\ calls'[c] = r
      /\ \A d \in Calls \ {c} : calls'[d] = calls[d]
    BY DEF KillsInv, KillsTypeOK
<1>2. KillsTypeOK'
    BY <1>1 DEF KillsInv, KillsTypeOK
<1>3. CommandInv'
    <2> SUFFICES ASSUME NEW d \in Calls PROVE CommandInv!(d)'
        BY DEF CommandInv
    <2>1. CASE d = c
        BY <1>1, <2>1 DEF KillsInv, CommandInv, IsCommandOf
    <2>2. CASE d # c
        BY <1>1, <2>2 DEF KillsInv, CommandInv, IsCommandOf
    <2> QED BY <2>1, <2>2
<1>4. TargetInv'
    BY <1>1 DEF KillsInv, TargetInv, RowsOf
<1> QED BY <1>2, <1>3, <1>4 DEF KillsInv

\* Every step of a call that is not the serving of its POST.
LEMMA CallStepInv ==
    ASSUME KillsInv, NEW c \in Calls, OperatorStep(c), ~Serves(c)
    PROVE  KillsInv'
<1> USE DEF CallType
<1>0. /\ calls[c] \in CallType /\ calls \in [Calls -> CallType]
      /\ DOMAIN rows = 1 .. Len(rows)
      /\ rows \in Seq([conv : Convs, turn : Nat])
    BY DEF KillsInv, KillsTypeOK
<1>1. /\ calls[c].at \in {"idle", "looking", "refused"} => calls[c].post = "none"
      /\ calls[c].at \in {"auditing", "accepted"} => calls[c].post = "served"
      /\ calls[c].at = "looking" /\ calls[c].known => RowsOf(calls[c].asked) # {}
      /\ calls[c].post # "none" /\ calls[c].known => calls[c].conv = calls[c].asked
    BY DEF KillsInv, CommandInv, TargetInv
<1>10. UNCHANGED <<commands, audit>> => AuditInv'
    BY DEF KillsInv, AuditInv
<1>11. ASSUME NEW at
       PROVE  LET r == [calls[c] EXCEPT !.at = at] IN
              /\ r.at = at /\ r.post = calls[c].post /\ r.known = calls[c].known
              /\ r.conv = calls[c].conv /\ r.asked = calls[c].asked
              /\ r.command = calls[c].command
    BY <1>0
<1>2. ASSUME NEW v \in Convs, NEW command \in {"block_fingerprint", "unblock_fingerprint"},
             KillOnHost(c, v, command)
      PROVE  KillsInv'
    <2> DEFINE r == [Begins(v) EXCEPT !.at = "posting", !.post = "sent",
                        !.command = command, !.conv = v, !.known = TRUE]
    <2>1. /\ calls' = [calls EXCEPT ![c] = r] /\ calls[c].at = "idle"
          /\ UNCHANGED <<rows, turns, commands, audit>>
        BY <1>2 DEF KillOnHost
    <2>2. /\ r \in CallType /\ r.at = "posting" /\ r.post = "sent"
          /\ r.conv = v /\ r.asked = v
        BY DEF Begins, NoCall, Accepted
    <2> QED BY <1>1, <2>1, <2>2, <1>10, CallMoves
<1>3. ASSUME NEW v \in Convs \cup {NoTarget}, KillSession(c, v)
      PROVE  KillsInv'
    <2> DEFINE r == [Begins(v) EXCEPT !.at = "looking", !.known = RowsOf(v) # {}]
    <2>1. /\ calls' = [calls EXCEPT ![c] = r] /\ calls[c].at = "idle"
          /\ UNCHANGED <<rows, turns, commands, audit>>
        BY <1>3 DEF KillSession
    <2>2. /\ r \in CallType /\ r.at = "looking" /\ r.post = "none"
          /\ r.known = (RowsOf(v) # {}) /\ r.asked = v
        BY DEF Begins, NoCall, Accepted
    <2> QED BY <1>1, <2>1, <2>2, <1>10, CallMoves
<1>4. CASE LooksInVain(c)
    <2> DEFINE r == [calls[c] EXCEPT !.at = "refused"]
    <2>1. /\ calls' = [calls EXCEPT ![c] = r] /\ calls[c].at = "looking"
          /\ UNCHANGED <<rows, turns, commands, audit>>
        BY <1>4 DEF LooksInVain
    <2>2. r \in CallType /\ r.at = "refused" /\ r.post = "none"
        BY <1>0, <1>1, <2>1
    <2> QED BY <1>0, <1>1, <2>1, <2>2, <1>10, CallMoves
<1>5. CASE LooksUp(c)
    <2>1. PICK i \in Found(calls[c], 0) :
              calls' = [calls EXCEPT ![c] = KillFor(calls[c], rows[i])]
        BY <1>5 DEF LooksUp
    <2> DEFINE r == KillFor(calls[c], rows[i])
    <2>3. /\ calls[c].at = "looking" /\ calls[c].post = "none"
          /\ UNCHANGED <<rows, turns, commands, audit>>
        BY <1>1, <1>5 DEF LooksUp
    <2>2. rows[i].conv \in Convs /\ (calls[c].known => rows[i].conv = calls[c].asked)
        BY <2>3, FoundFacts
    <2>4. /\ r \in CallType /\ r.at = "posting" /\ r.post = "sent"
          /\ r.known = calls[c].known
          /\ r.conv = rows[i].conv /\ r.asked = calls[c].asked
        BY <2>3, KillForType
    <2>6. calls' = [calls EXCEPT ![c] = r]
        BY <2>1
    <2> HIDE DEF r
    <2> QED BY <1>1, <2>2, <2>3, <2>4, <2>6, <1>10, CallMoves
<1>6. CASE PostAnswered(c)
    <2>1. PICK at \in {"accepted", "auditing"} :
              calls' = [calls EXCEPT ![c] = [calls[c] EXCEPT !.at = at]]
        BY <1>6 DEF PostAnswered
    <2> DEFINE r == [calls[c] EXCEPT !.at = at]
    <2>2. calls[c].post = "served" /\ UNCHANGED <<rows, turns, commands, audit>>
        BY <1>6 DEF PostAnswered
    <2>3. r \in CallType /\ r.at = at
        BY <1>0, <2>1
    <2>4. /\ r.post = calls[c].post /\ r.known = calls[c].known /\ r.conv = calls[c].conv
          /\ r.asked = calls[c].asked /\ r.command = calls[c].command
        BY <1>11
    <2>5. calls' = [calls EXCEPT ![c] = r]
        BY <2>1
    <2> HIDE DEF r
    <2> QED BY <1>1, <1>10, <2>2, <2>3, <2>4, <2>5, CallMoves
<1>7. CASE PostFailed(c) \/ PostTimesOut(c)
    <2> DEFINE r == [calls[c] EXCEPT !.at = "failed"]
    <2>1. calls' = [calls EXCEPT ![c] = r] /\ UNCHANGED <<rows, turns, commands, audit>>
        BY <1>7 DEF PostFailed, PostTimesOut
    <2>2. r \in CallType /\ r.at = "failed"
        BY <1>0
    <2>3. /\ r.post = calls[c].post /\ r.known = calls[c].known /\ r.conv = calls[c].conv
          /\ r.asked = calls[c].asked /\ r.command = calls[c].command
        BY <1>11
    <2> HIDE DEF r
    <2> QED BY <1>1, <2>3, <2>1, <2>2, <1>10, CallMoves
<1>8. CASE Audits(c) \/ AuditFails(c)
    <2> DEFINE r == [calls[c] EXCEPT !.at = "accepted"]
    <2>1. /\ calls' = [calls EXCEPT ![c] = r] /\ UNCHANGED <<rows, turns, commands>>
          /\ calls[c].post = "served"
        BY <1>1, <1>8 DEF Audits, AuditFails
    <2>2. r \in CallType /\ r.at = "accepted"
        BY <1>0
    <2>3. AuditInv'
        <3>1. PICK i \in 1 .. Len(commands) :
                  /\ commands[i].call = c
                  /\ commands[i].command = calls[c].command
                  /\ commands[i].conv = calls[c].conv
            BY <2>1 DEF KillsInv, CommandInv, IsCommandOf
        <3>2. CASE AuditFails(c)
            BY <1>10, <3>2 DEF AuditFails
        <3>3. CASE Audits(c)
            BY <2>1, <3>1, <3>3 DEF Audits, KillsInv, AuditInv
        <3> QED BY <1>8, <3>2, <3>3
    <2> QED BY ZenonT(60), <1>0, <1>1, <2>1, <2>2, <2>3, CallMoves
<1>9. CASE ServeFails(c)
    <2> DEFINE r == [calls[c] EXCEPT !.post = "failed"]
    <2>1. /\ calls' = [calls EXCEPT ![c] = r] /\ UNCHANGED <<rows, turns, commands, audit>>
          /\ calls[c].post = "sent"
        BY <1>9 DEF ServeFails
    <2>2. r \in CallType /\ r.post = "failed"
        BY <1>0
    <2> QED BY <1>0, <1>1, <2>1, <2>2, <1>10, CallMoves
<1> QED BY <1>2, <1>3, <1>4, <1>5, <1>6, <1>7, <1>8, <1>9 DEF OperatorStep

\* The ingestion service serves a POST: that makes the one command of the call.
LEMMA ServesInv ==
    ASSUME KillsInv, NEW c \in Calls, Serves(c)
    PROVE  KillsInv'
<1> DEFINE r == [calls[c] EXCEPT !.post = "served"]
           k == CommandOf(c)
           n == Len(commands) + 1
<1>1. /\ calls[c].post = "sent" /\ commands' = Append(commands, k)
      /\ calls' = [calls EXCEPT ![c] = r] /\ UNCHANGED <<rows, turns, audit>>
    BY DEF Serves
<1>2. /\ calls[c] \in CallType /\ calls \in [Calls -> CallType]
      /\ Len(commands) \in Nat /\ DOMAIN commands = 1 .. Len(commands)
    BY DEF KillsInv, KillsTypeOK
<1>3. /\ r \in CallType /\ r.post = "served" /\ r.at = calls[c].at
      /\ r.known = calls[c].known
      /\ r.conv = calls[c].conv /\ r.asked = calls[c].asked
      /\ r.command = calls[c].command
    BY <1>2 DEF CallType
<1>4. k.call = c /\ k.command = r.command /\ k.conv = r.conv
    BY <1>3 DEF CommandOf
<1>5. KillsTypeOK'
    <2>1. k \in CommandType
        BY <1>2 DEF CommandOf, CallType, CommandType
    <2> HIDE DEF r, k
    <2> QED BY <1>1, <1>2, <1>3, <2>1 DEF KillsInv, KillsTypeOK
<1> HIDE DEF r, k
<1>6. /\ calls'[c] = r /\ \A d \in Calls \ {c} : calls'[d] = calls[d]
      /\ Len(commands') = n /\ commands'[n] = k
      /\ \A i \in 1 .. Len(commands) : commands'[i] = commands[i]
    BY <1>1, <1>2 DEF KillsInv, KillsTypeOK
<1>7. \A i \in 1 .. Len(commands) : commands[i].call # c
    BY <1>1 DEF KillsInv, CommandInv, IsCommandOf
<1>8. CommandInv'
    <2> SUFFICES ASSUME NEW d \in Calls PROVE CommandInv!(d)'
        BY DEF CommandInv
    <2>1. CASE d = c
        <3>1. calls[c].at \notin {"idle", "looking", "refused", "auditing", "accepted"}
            BY <1>1 DEF KillsInv, CommandInv
        <3>2. /\ \A j \in 1 .. n : commands'[j].call = c <=> j = n
              /\ commands'[n].command = r.command /\ commands'[n].conv = r.conv
            BY <1>2, <1>4, <1>6, <1>7
        <3> QED BY <1>2, <1>3, <1>6, <2>1, <3>1, <3>2 DEF IsCommandOf
    <2>2. CASE d # c
        <3>1. CommandInv!(d) /\ commands'[n].call # d /\ calls'[d] = calls[d]
            BY <1>4, <1>6, <2>2 DEF KillsInv, CommandInv
        <3> QED BY <1>2, <1>6, <3>1 DEF IsCommandOf
    <2> QED BY <2>1, <2>2
<1>9. TargetInv'
    BY <1>1, <1>3, <1>6 DEF KillsInv, TargetInv, CommandInv, RowsOf
<1>10. AuditInv'
    BY <1>1, <1>2, <1>6 DEF KillsInv, AuditInv
<1> QED BY <1>5, <1>8, <1>9, <1>10 DEF KillsInv

\* The rows when one of them has gone.
LEMMA RowsLeft ==
    ASSUME KillsInv, NEW i \in DOMAIN rows, rows' = RemoveAt(rows, i)
    PROVE  /\ rows' \in Seq([conv : Convs, turn : Nat])
           /\ \A v : RowsOf(v) \notin {{}, {i}} => RowsOf(v)' # {}
<1> DEFINE Row == [conv : Convs, turn : Nat]
           n == Len(rows)
           left == SubSeq(rows, 1, i - 1)
           right == SubSeq(rows, i + 1, n)
<1>1. rows \in Seq(Row) /\ n \in Nat /\ i \in 1 .. n /\ DOMAIN rows = 1 .. n
    BY DEF KillsInv, KillsTypeOK
<1>2. rows' = left \o right
    BY DEF RemoveAt
<1> HIDE DEF Row
<1>3. /\ left \in Seq(Row) /\ Len(left) = i - 1
      /\ \A k \in 1 .. i - 1 : left[k] = rows[k]
    <2>1. 1 \in Int /\ i - 1 \in Int /\ \A k \in 1 .. i - 1 : rows[k] \in Row
        BY <1>1
    <2> QED BY <1>1, <2>1, SubSeqProperties
<1>4. /\ right \in Seq(Row) /\ Len(right) = n - i
      /\ \A k \in 1 .. n - i : right[k] = rows[k + i]
    <2>1. i + 1 \in Int /\ n \in Int /\ \A k \in i + 1 .. n : rows[k] \in Row
        BY <1>1
    <2>2. /\ right \in Seq(Row)
          /\ Len(right) = IF i + 1 <= n THEN n - (i + 1) + 1 ELSE 0
          /\ \A k \in 1 .. n - (i + 1) + 1 : right[k] = rows[(i + 1) + k - 1]
        BY <2>1, SubSeqProperties
    <2>3. /\ n - (i + 1) + 1 = n - i /\ (~(i + 1 <= n) => n - i = 0)
          /\ \A k \in 1 .. n - i : (i + 1) + k - 1 = k + i
        BY <1>1
    <2> HIDE DEF right, n
    <2> QED BY <2>2, <2>3
<1> HIDE DEF left, right
<1>5. /\ rows' \in Seq(Row) /\ Len(rows') = n - 1
      /\ \A k \in 1 .. n - 1 :
            rows'[k] = IF k <= i - 1 THEN left[k] ELSE right[k - (i - 1)]
    <2>1. /\ left \o right \in Seq(Row)
          /\ Len(left \o right) = Len(left) + Len(right)
          /\ \A k \in 1 .. Len(left) + Len(right) : (left \o right)[k] =
                IF k <= Len(left) THEN left[k] ELSE right[k - Len(left)]
        BY <1>3, <1>4, ConcatProperties
    <2>2. (i - 1) + (n - i) = n - 1
        BY <1>1
    <2> HIDE DEF n
    <2> QED BY <1>2, <1>3, <1>4, <2>1, <2>2
<1>6. \A k \in 1 .. n - 1 : rows'[k] = IF k < i THEN rows[k] ELSE rows[k + 1]
    <2> TAKE k \in 1 .. n - 1
    <2>1. CASE k < i
        BY <1>1, <1>3, <1>5, <2>1
    <2>2. CASE ~(k < i)
        <3>1. /\ k - (i - 1) \in 1 .. n - i /\ (k - (i - 1)) + i = k + 1
              /\ ~(k <= i - 1)
            BY <1>1, <2>2
        <3>2. right[k - (i - 1)] = rows[k + 1]
            BY <1>4, <3>1
        <3> QED BY <1>5, <2>2, <3>1, <3>2
    <2> QED BY <2>1, <2>2
<1>7. ASSUME NEW v, RowsOf(v) \notin {{}, {i}} PROVE RowsOf(v)' # {}
    <2>1. PICK j \in 1 .. n : j # i /\ rows[j].conv = v
        BY <1>1, <1>7 DEF RowsOf
    <2> DEFINE k == IF j < i THEN j ELSE j - 1
    <2>2. k \in 1 .. n - 1 /\ rows'[k] = rows[j]
        BY <1>1, <1>6, <2>1
    <2>3. k \in DOMAIN rows'
        BY <1>5, <2>2
    <2> QED BY <2>1, <2>2, <2>3 DEF RowsOf
<1> QED BY <1>5, <1>7 DEF Row

\* A call that is looking for a conversation does not know the rows are gone.
LEMMA ExpiresInv ==
    ASSUME KillsInv, NEW i \in DOMAIN rows, Expires(i)
    PROVE  KillsInv'
<1> DEFINE K(c) == calls[c].known /\ (calls[c].at = "looking" /\ calls[c].asked = rows[i].conv
                                         => RowsOf(rows[i].conv) # {i})
<1>1. /\ rows' = RemoveAt(rows, i) /\ UNCHANGED <<turns, commands, audit>>
      /\ calls' = [c \in Calls |-> [calls[c] EXCEPT !.known = K(c)]]
    BY DEF Expires
<1>2. \A c \in Calls : calls[c] \in CallType /\ K(c) \in BOOLEAN
    BY DEF KillsInv, KillsTypeOK, CallType
<1>3. \A c \in Calls :
         /\ calls'[c] \in CallType /\ calls'[c].known = K(c)
         /\ calls'[c].at = calls[c].at /\ calls'[c].post = calls[c].post
         /\ calls'[c].command = calls[c].command /\ calls'[c].conv = calls[c].conv
         /\ calls'[c].asked = calls[c].asked
    <2> HIDE DEF K
    <2> QED BY <1>1, <1>2 DEF CallType
<1>4. KillsTypeOK'
    <2>1. calls' \in [Calls -> CallType]
        <3> HIDE DEF K
        <3> QED BY <1>1, <1>3
    <2> QED BY <1>1, <2>1, RowsLeft DEF KillsInv, KillsTypeOK
<1>5. CommandInv'
    BY <1>1, <1>3 DEF KillsInv, CommandInv, IsCommandOf
<1>6. TargetInv'
    <2> SUFFICES ASSUME NEW c \in Calls PROVE TargetInv!(c)'
        BY DEF TargetInv
    <2>1. ASSUME calls'[c].at = "looking", calls'[c].known
          PROVE  RowsOf(calls[c].asked)' # {}
        <3>1. calls[c].at = "looking" /\ K(c) /\ RowsOf(calls[c].asked) # {}
            BY <1>3, <2>1 DEF KillsInv, TargetInv
        <3>2. RowsOf(calls[c].asked) # {i}
            <4>1. RowsOf(calls[c].asked) = {i} => rows[i].conv = calls[c].asked
                BY DEF RowsOf
            <4> QED BY <3>1, <4>1
        <3>3. RowsOf(calls[c].asked) \notin {{}, {i}}
            BY <3>1, <3>2
        <3>4. \A v : RowsOf(v) \notin {{}, {i}} => RowsOf(v)' # {}
            BY <1>1, RowsLeft
        <3>5. RowsOf(calls[c].asked)' = {j \in DOMAIN rows' : rows'[j].conv = calls[c].asked}
            BY <1>3 DEF RowsOf
        <3> QED BY <3>3, <3>4, <3>5 DEF RowsOf
    <2>2. calls'[c].post # "none" /\ calls'[c].known => calls'[c].conv = calls'[c].asked
        BY <1>3 DEF KillsInv, TargetInv
    <2> QED BY <1>3, <2>1, <2>2
<1>7. AuditInv'
    BY <1>1 DEF KillsInv, AuditInv
<1> QED BY <1>4, <1>5, <1>6, <1>7 DEF KillsInv

\* No call has begun.
LEMMA KillsInit == KillInit => KillsInv
<1> SUFFICES ASSUME KillInit PROVE KillsInv
    OBVIOUS
<1> USE DEF KillInit, OperatorInit
<1>1. NoCall \in CallType
    BY DEF NoCall, CallType
<1>2. KillsTypeOK
    BY <1>1 DEF KillsTypeOK
<1>3. \A c \in Calls : calls[c] = NoCall
    OBVIOUS
<1> QED BY <1>2, <1>3 DEF KillsInv, CommandInv, TargetInv, AuditInv, NoCall, IsCommandOf

LEMMA KillsNextInv == KillsInv /\ [KillNext]_killVars => KillsInv'
<1> SUFFICES ASSUME KillsInv, [KillNext]_killVars PROVE KillsInv'
    OBVIOUS
<1>1. ASSUME NEW v \in Convs, Captured(v) PROVE KillsInv'
    <2> DEFINE row == [conv |-> v, turn |-> turns[v] + 1]
    <2>1. rows' = Append(rows, row) \/ rows' = rows
        BY <1>1 DEF Captured
    <2>2. /\ rows \in Seq([conv : Convs, turn : Nat]) /\ turns \in [Convs -> Nat]
          /\ UNCHANGED <<calls, commands, audit>>
        BY <1>1 DEF Captured, KillsInv, KillsTypeOK
    <2>3. turns' \in [Convs -> Nat]
        BY <1>1, <2>2 DEF Captured
    <2>4. row \in [conv : Convs, turn : Nat]
        BY <2>2
    <2> HIDE DEF row
    <2>5. /\ rows' \in Seq([conv : Convs, turn : Nat])
          /\ \A u : RowsOf(u) \subseteq RowsOf(u)'
        <3> DEFINE Row == [conv : Convs, turn : Nat]
        <3>1. rows \in Seq(Row) /\ row \in Row
            BY <2>2, <2>4
        <3> HIDE DEF Row
        <3>2. CASE rows' = rows
            BY <3>1, <3>2 DEF RowsOf, Row
        <3>3. CASE rows' = Append(rows, row)
            BY <3>1, <3>3 DEF RowsOf, Row
        <3> QED BY <2>1, <3>2, <3>3
    <2>6. KillsTypeOK'
        BY <2>2, <2>3, <2>5 DEF KillsInv, KillsTypeOK
    <2>7. TargetInv'
        BY <2>2, <2>5 DEF KillsInv, TargetInv
    <2> QED BY <2>2, <2>6, <2>7 DEF KillsInv, CommandInv, AuditInv, IsCommandOf
<1>2. ASSUME NEW c \in Calls, OperatorStep(c) PROVE KillsInv'
    BY <1>2, CallStepInv, ServesInv
<1>3. CASE UNCHANGED operatorVars
    <2>1. UNCHANGED <<rows, turns, calls, commands, audit>>
        BY <1>3 DEF operatorVars
    <2>2. KillsTypeOK' /\ AuditInv'
        BY <2>1 DEF KillsInv, KillsTypeOK, AuditInv
    <2>3. CommandInv'
        BY <2>1 DEF KillsInv, CommandInv, IsCommandOf
    <2>4. TargetInv'
        BY <2>1 DEF KillsInv, TargetInv, RowsOf
    <2> QED BY <2>2, <2>3, <2>4 DEF KillsInv
<1>4. ASSUME NEW i \in DOMAIN rows, Expires(i) PROVE KillsInv'
    BY <1>4, ExpiresInv
<1> QED BY <1>1, <1>2, <1>3, <1>4 DEF KillNext, killVars

-----------------------------------------------------------------------------
(* The theorems *)

\* Every reachable state of the calls of operators satisfies the invariant.
THEOREM KillsInvariance == KillSpec => []KillsInv
<1>1. KillInit => KillsInv
    BY KillsInit
<1>2. KillsInv /\ [KillNext]_killVars => KillsInv'
    BY KillsNextInv
<1> QED BY <1>1, <1>2, PTL DEF KillSpec

\* Whatever times out, fails or is answered late: a call that was accepted, or has
\* an audit row, has issued its command, and once.
THEOREM ToldWasIssued == KillSpec => []ToldIsIssued
<1>1. KillsInv => ToldIsIssued
    <2> SUFFICES ASSUME KillsInv PROVE ToldIsIssued
        OBVIOUS
    <2>1. DOMAIN commands = 1 .. Len(commands)
        BY DEF KillsInv, KillsTypeOK
    <2>2. ASSUME NEW c \in Calls, calls[c].at \in {"auditing", "accepted"}
          PROVE  Cardinality({i \in DOMAIN commands : commands[i].call = c}) = 1
        <3>1. PICK i \in 1 .. Len(commands) :
                  \A j \in 1 .. Len(commands) : commands[j].call = c <=> j = i
            BY <2>2 DEF KillsInv, CommandInv, IsCommandOf
        <3>2. {j \in DOMAIN commands : commands[j].call = c} = {i}
            BY <2>1, <3>1
        <3> QED BY <3>2, FS_Singleton
    <2> QED BY <2>1, <2>2 DEF ToldIsIssued, KillsInv, AuditInv
<1> QED BY <1>1, KillsInvariance, PTL

\* A kill of a conversation that had a row with a fingerprint until the lookup, or
\* of a fingerprint, hits that conversation, whatever is captured or expires.
THEOREM AgentIdHits == KillSpec => []AgentIdExact
<1>1. KillsInv => AgentIdExact
    <2> SUFFICES ASSUME KillsInv, NEW i \in DOMAIN commands
                 PROVE  calls[commands[i].call].known =>
                            commands[i].conv = calls[commands[i].call].asked
        BY DEF AgentIdExact
    <2>1. i \in 1 .. Len(commands) /\ commands[i].call \in Calls
        <3>1. commands \in Seq(CommandType) /\ i \in 1 .. Len(commands)
            BY DEF KillsInv, KillsTypeOK
        <3>2. commands[i] \in CommandType
            BY <3>1
        <3> QED BY <3>1, <3>2 DEF CommandType
    <2>2. PICK c \in Calls : c = commands[i].call
        BY <2>1
    <2>3. calls[c].post = "served" /\ commands[i].conv = calls[c].conv
        BY <2>1, <2>2 DEF KillsInv, CommandInv, IsCommandOf
    <2> QED BY <2>2, <2>3 DEF KillsInv, TargetInv
<1> QED BY <1>1, KillsInvariance, PTL

-----------------------------------------------------------------------------
(* The last word *)

\* The commands of the calls a call came after are before its own.
AfterInv ==
    \A c \in Calls : \A d \in calls[c].after :
        /\ calls[d].post = "served"
        /\ \A i, j \in 1 .. Len(commands) :
              IsCommandOf(i, d) /\ IsCommandOf(j, c) => i < j

WordInv ==
    /\ KillsInv
    /\ ChannelInv
    /\ AfterInv
    /\ Len(commands) = issued

-----------------------------------------------------------------------------
(* The channel *)

\* Every step is a step of the channel or leaves it alone.
LEMMA StepsOfChannel == [KillNext]_killVars => [ChannelNext]_channelVars
<1> SUFFICES ASSUME [KillNext]_killVars PROVE [ChannelNext]_channelVars
    OBVIOUS
<1>1. ASSUME NEW v \in Convs, Captured(v) PROVE UNCHANGED channelVars
    BY <1>1 DEF Captured
<1>2. ASSUME NEW c \in Calls, OperatorStep(c) PROVE Enqueue \/ UNCHANGED channelVars
    BY <1>2 DEF OperatorStep, KillOnHost, KillSession, LooksInVain, LooksUp, PostAnswered,
                PostFailed, PostTimesOut, Audits, AuditFails, Serves, ServeFails
<1>3. CASE Delivery
    BY <1>3 DEF Delivery, ChannelNext
<1>4. CASE UNCHANGED killVars
    BY <1>4 DEF killVars
<1>5. ASSUME NEW i \in DOMAIN rows, Expires(i) PROVE UNCHANGED channelVars
    BY <1>5 DEF Expires
<1> QED BY <1>1, <1>2, <1>3, <1>4, <1>5 DEF KillNext, ChannelNext

\* There are as many commands as were issued.
LEMMA CommandsCounted ==
    ASSUME WordInv, [KillNext]_killVars
    PROVE  Len(commands') = issued'
<1>1. commands \in Seq(CommandType) /\ Len(commands) = issued /\ issued \in Nat
    BY DEF WordInv, KillsInv, KillsTypeOK, ChannelInv, ChannelTypeOK
<1>2. CASE \E c \in Calls : Serves(c)
    <2>1. PICK c \in Calls : Serves(c)
        BY <1>2
    <2>2. commands' = Append(commands, CommandOf(c)) /\ issued' = issued + 1
        BY <2>1 DEF Serves, Enqueue
    <2> QED BY <1>1, <2>2
<1>3. CASE UNCHANGED <<commands, issued>>
    BY <1>1, <1>3
<1>4. \/ \E c \in Calls : Serves(c)
      \/ UNCHANGED <<commands, issued>>
    <2>1. ASSUME NEW v \in Convs, Captured(v) PROVE UNCHANGED <<commands, issued>>
        BY <2>1 DEF Captured, channelVars
    <2>2. ASSUME NEW c \in Calls, OperatorStep(c), ~Serves(c)
          PROVE  UNCHANGED <<commands, issued>>
        BY <2>2 DEF OperatorStep, KillOnHost, KillSession, LooksInVain, LooksUp,
                    PostAnswered, PostFailed, PostTimesOut, Audits, AuditFails, ServeFails,
                    channelVars
    <2>3. ASSUME Delivery, UNCHANGED operatorVars PROVE UNCHANGED <<commands, issued>>
        BY <2>3 DEF Delivery, operatorVars, QueueExpires, PollFirst, PollTimeout, PollMore,
                    PollDrained, PollError, PollUnread, PollSent, PollAnswered,
                    PollAbandoned, HandleCommand, AgentRestarts
    <2>4. CASE UNCHANGED killVars
        BY <2>4 DEF killVars, operatorVars, channelVars
    <2>5. ASSUME NEW i \in DOMAIN rows, Expires(i) PROVE UNCHANGED <<commands, issued>>
        BY <2>5 DEF Expires, channelVars
    <2> QED BY <2>1, <2>2, <2>3, <2>4, <2>5 DEF KillNext
<1> QED BY <1>2, <1>3, <1>4

-----------------------------------------------------------------------------
(* What a call came after *)

\* A call moves without a new command: it came after what it came after, or it
\* begins, without a command of its own.
LEMMA AfterMoves ==
    ASSUME KillsInv, AfterInv, NEW c \in Calls, NEW r \in CallType,
           calls' = [calls EXCEPT ![c] = r], UNCHANGED commands,
           calls[c].post = "served" => r.post = "served",
           \/ r.after = calls[c].after
           \/ r.after = Accepted /\ calls[c].post # "served"
    PROVE  AfterInv'
<1>1. calls'[c] = r /\ \A d \in Calls \ {c} : calls'[d] = calls[d]
    BY DEF KillsInv, KillsTypeOK
<1>2. \A d \in Calls : calls[d].post = "served" => calls'[d].post = "served"
    BY <1>1
<1>3. \A d \in Calls : calls[d].after \subseteq Calls
    BY DEF KillsInv, KillsTypeOK, CallType
<1> SUFFICES ASSUME NEW b \in Calls, NEW d \in calls'[b].after
             PROVE  /\ calls'[d].post = "served"
                    /\ \A i, j \in 1 .. Len(commands) :
                          IsCommandOf(i, d) /\ IsCommandOf(j, b) => i < j
    BY DEF AfterInv, IsCommandOf
<1>4. CASE d \in calls[b].after
    BY <1>2, <1>3, <1>4 DEF AfterInv
<1>5. CASE d \notin calls[b].after
    <2>1. b = c /\ d \in Accepted /\ calls[c].post # "served"
        BY <1>1, <1>5
    <2>2. calls[d].post = "served"
        BY <2>1 DEF Accepted, KillsInv, CommandInv
    <2>3. \A j \in 1 .. Len(commands) : ~IsCommandOf(j, c)
        BY <2>1 DEF KillsInv, CommandInv
    <2> QED BY <1>2, <2>1, <2>2, <2>3 DEF Accepted
<1> QED BY <1>4, <1>5

\* The steps of a call that is not served now.
LEMMA AfterStepInv ==
    ASSUME KillsInv, AfterInv, NEW c \in Calls, OperatorStep(c), ~Serves(c)
    PROVE  AfterInv'
<1> USE DEF CallType
<1>0. /\ calls[c] \in CallType /\ DOMAIN rows = 1 .. Len(rows)
      /\ rows \in Seq([conv : Convs, turn : Nat])
    BY DEF KillsInv, KillsTypeOK
<1>1. calls[c].at \in {"idle", "looking"} => calls[c].post = "none"
    BY DEF KillsInv, CommandInv
<1>2. ASSUME NEW v \in Convs, NEW command \in {"block_fingerprint", "unblock_fingerprint"},
             KillOnHost(c, v, command)
      PROVE  AfterInv'
    <2> DEFINE r == [Begins(v) EXCEPT !.at = "posting", !.post = "sent",
                        !.command = command, !.conv = v, !.known = TRUE]
    <2>1. calls' = [calls EXCEPT ![c] = r] /\ calls[c].at = "idle" /\ UNCHANGED commands
        BY <1>2 DEF KillOnHost
    <2>2. r \in CallType /\ r.after = Accepted
        BY DEF Begins, NoCall, Accepted
    <2> HIDE DEF r
    <2> QED BY <1>1, <2>1, <2>2, AfterMoves
<1>3. ASSUME NEW v \in Convs \cup {NoTarget}, KillSession(c, v)
      PROVE  AfterInv'
    <2> DEFINE r == [Begins(v) EXCEPT !.at = "looking", !.known = RowsOf(v) # {}]
    <2>1. calls' = [calls EXCEPT ![c] = r] /\ calls[c].at = "idle" /\ UNCHANGED commands
        BY <1>3 DEF KillSession
    <2>2. r \in CallType /\ r.after = Accepted
        BY DEF Begins, NoCall, Accepted
    <2> HIDE DEF r
    <2> QED BY <1>1, <2>1, <2>2, AfterMoves
<1>4. CASE LooksUp(c)
    <2>1. PICK i \in Found(calls[c], 0) :
              calls' = [calls EXCEPT ![c] = KillFor(calls[c], rows[i])]
        BY <1>4 DEF LooksUp
    <2> DEFINE r == KillFor(calls[c], rows[i])
    <2>3. calls[c].at = "looking" /\ UNCHANGED commands /\ calls' = [calls EXCEPT ![c] = r]
        BY <1>4, <2>1 DEF LooksUp
    <2>2. r \in CallType /\ r.after = calls[c].after
        BY <1>0, <2>3, KillForType
    <2> HIDE DEF r
    <2> QED BY <1>1, <2>2, <2>3, AfterMoves
<1>5. CASE LooksInVain(c) \/ PostAnswered(c) \/ PostFailed(c) \/ PostTimesOut(c)
              \/ Audits(c) \/ AuditFails(c)
    <2>1. PICK at \in {"refused", "accepted", "auditing", "failed"} :
              calls' = [calls EXCEPT ![c] = [calls[c] EXCEPT !.at = at]]
        BY <1>5 DEF LooksInVain, PostAnswered, PostFailed, PostTimesOut, Audits, AuditFails
    <2> DEFINE r == [calls[c] EXCEPT !.at = at]
    <2>2. UNCHANGED commands
        BY <1>5 DEF LooksInVain, PostAnswered, PostFailed, PostTimesOut, Audits, AuditFails
    <2>3. r \in CallType
        BY <1>0, <2>1
    <2>4. r.post = calls[c].post /\ r.after = calls[c].after
        BY <1>0
    <2>5. calls' = [calls EXCEPT ![c] = r]
        BY <2>1
    <2> HIDE DEF r
    <2> QED BY <2>2, <2>3, <2>4, <2>5, AfterMoves
<1>6. CASE ServeFails(c)
    <2> DEFINE r == [calls[c] EXCEPT !.post = "failed"]
    <2>1. /\ calls' = [calls EXCEPT ![c] = r] /\ UNCHANGED commands
          /\ calls[c].post = "sent"
        BY <1>6 DEF ServeFails
    <2>2. r \in CallType /\ r.after = calls[c].after
        BY <1>0
    <2> HIDE DEF r
    <2> QED BY <2>1, <2>2, AfterMoves
<1> QED BY <1>2, <1>3, <1>4, <1>5, <1>6 DEF OperatorStep

\* A new command is behind all others, and nobody has come after its call yet.
LEMMA AfterServesInv ==
    ASSUME KillsInv, AfterInv, NEW c \in Calls, Serves(c)
    PROVE  AfterInv'
<1> DEFINE r == [calls[c] EXCEPT !.post = "served"]
           n == Len(commands) + 1
<1>1. /\ calls[c].post = "sent" /\ commands' = Append(commands, CommandOf(c))
      /\ calls' = [calls EXCEPT ![c] = r]
    BY DEF Serves
<1>2. /\ calls[c] \in CallType /\ calls \in [Calls -> CallType]
      /\ Len(commands) \in Nat /\ commands \in Seq(CommandType)
    BY DEF KillsInv, KillsTypeOK
<1>3. r.post = "served" /\ r.after = calls[c].after
    BY <1>2 DEF CallType
<1>4. CommandOf(c).call = c
    BY DEF CommandOf
<1> HIDE DEF r
<1>5. /\ calls'[c] = r /\ \A d \in Calls \ {c} : calls'[d] = calls[d]
      /\ Len(commands') = n /\ commands'[n].call = c
      /\ \A i \in 1 .. Len(commands) : commands'[i] = commands[i]
    BY <1>1, <1>2, <1>4
<1>6. \A d \in Calls : calls[d].after \subseteq Calls
    BY <1>2 DEF CallType
<1> SUFFICES ASSUME NEW b \in Calls, NEW d \in calls'[b].after
             PROVE  /\ calls'[d].post = "served"
                    /\ \A i, j \in 1 .. n :
                          commands'[i].call = d /\ commands'[j].call = b => i < j
    BY <1>5 DEF AfterInv, IsCommandOf
<1>7. d \in calls[b].after /\ d \in Calls
    BY <1>3, <1>5, <1>6
<1>8. calls[d].post = "served"
    BY <1>7 DEF AfterInv
<1>9. d # c /\ calls'[d] = calls[d]
    BY <1>1, <1>5, <1>7, <1>8
<1>10. \A i, j \in 1 .. Len(commands) :
          commands[i].call = d /\ commands[j].call = b => i < j
    BY <1>7 DEF AfterInv, IsCommandOf
<1> QED BY <1>2, <1>5, <1>8, <1>9, <1>10

LEMMA WordInit == KillInit => WordInv
<1> SUFFICES ASSUME KillInit PROVE WordInv
    OBVIOUS
<1>1. KillsInv
    BY KillsInit
<1>2. ChannelInv
    BY InitInv DEF KillInit
<1>3. AfterInv /\ Len(commands) = issued
    BY DEF KillInit, OperatorInit, ChannelInit, AfterInv, NoCall
<1> QED BY <1>1, <1>2, <1>3 DEF WordInv

LEMMA WordNext == WordInv /\ [KillNext]_killVars => WordInv'
<1> SUFFICES ASSUME WordInv, [KillNext]_killVars PROVE WordInv'
    OBVIOUS
<1> USE DEF WordInv
<1>1. KillsInv' /\ ChannelInv' /\ Len(commands') = issued'
    BY KillsNextInv, NextInv, StepsOfChannel, CommandsCounted
<1>2. AfterInv'
    <2>1. ASSUME NEW c \in Calls, OperatorStep(c) PROVE AfterInv'
        BY <2>1, AfterStepInv, AfterServesInv
    <2>2. CASE UNCHANGED <<calls, commands>>
        BY <2>2 DEF AfterInv, IsCommandOf
    <2>3. ASSUME NEW i \in DOMAIN rows, Expires(i) PROVE AfterInv'
        <3>1. /\ UNCHANGED commands
              /\ \A c \in Calls : calls[c] \in CallType
              /\ \A c \in Calls : \E known :
                    calls'[c] = [calls[c] EXCEPT !.known = known]
            BY <2>3 DEF Expires, KillsInv, KillsTypeOK
        <3>2. \A c \in Calls :
                  calls'[c].post = calls[c].post /\ calls'[c].after = calls[c].after
            BY <3>1 DEF CallType
        <3>3. \A c \in Calls : calls[c].after \subseteq Calls
            BY <3>1 DEF CallType
        <3> QED BY <3>1, <3>2, <3>3 DEF AfterInv, IsCommandOf
    <2>4. \/ \E c \in Calls : OperatorStep(c)
          \/ \E i \in DOMAIN rows : Expires(i)
          \/ UNCHANGED <<calls, commands>>
        BY DEF KillNext, Captured, killVars, operatorVars
    <2> QED BY <2>1, <2>2, <2>3, <2>4
<1> QED BY <1>1, <1>2

-----------------------------------------------------------------------------
(* The theorems *)

\* When as many commands are handled as were issued, none is missing.
LEMMA AllHandled ==
    ASSUME ChannelInv, Len(applied) = issued, NEW i \in 1 .. issued
    PROVE  \E k \in 1 .. Len(applied) : applied[k] = i
<1> DEFINE S == 1 .. issued
<1>1. /\ applied \in Seq(Commands) /\ issued \in 0 .. MaxCommands /\ MaxCommands \in Nat
      /\ Increasing(applied)
    BY ChannelAssumption DEF ChannelInv, ChannelTypeOK, Sorted
<1>2. \A k \in 1 .. Len(applied) : applied[k] \in S
    <2> SUFFICES ASSUME NEW k \in 1 .. Len(applied) PROVE applied[k] \in S
        OBVIOUS
    <2>1. applied[k] \in Commands /\ applied[k] \in Elems(applied)
        BY <1>1 DEF Elems
    <2> QED BY <1>1, <2>1 DEF ChannelInv, Accounted, Commands
<1>3. applied \in [S -> S]
    BY <1>1, <1>2
<1>4. \A k, m \in S : applied[k] = applied[m] => k = m
    BY <1>1, <1>2 DEF Increasing
<1>5. applied \in Injection(S, S)
    BY <1>3, <1>4 DEF Injection, IsInjective
<1>6. IsFiniteSet(S)
    <2>1. 1 \in Int /\ issued \in Int
        BY <1>1
    <2> QED BY <2>1, FS_Interval
<1>7. applied \in Surjection(S, S)
    BY <1>5, <1>6, FS_Injection
<1> QED BY <1>7 DEF Surjection

\* Operators and channel together are the channel: what holds of ControlChannel
\* holds of the commands of operators.
THEOREM OperatorsUseChannel == KillSpec => ChannelSpec
<1>1. KillInit => ChannelInit
    BY DEF KillInit
<1>2. [KillNext]_killVars => [ChannelNext]_channelVars
    BY StepsOfChannel
<1> QED BY <1>1, <1>2, PTL DEF KillSpec, ChannelSpec

\* However many operators, commands and polls there are: an operator who acts
\* after all others were answered gets what was asked for.
THEOREM LastWord == KillSpec => []LastWordStands
<1>1. WordInv => LastWordStands
    <2> SUFFICES ASSUME WordInv, NEW i \in DOMAIN commands,
                        IssuedFor(commands[i].conv) \ {commands[i].call}
                            \subseteq calls[commands[i].call].after,
                        Len(applied) = issued
                 PROVE  Blocked(commands[i].conv)
                            <=> commands[i].command # "unblock_fingerprint"
        BY DEF LastWordStands
    <2> DEFINE c == commands[i].call
               v == commands[i].conv
    <2>1. /\ commands \in Seq(CommandType) /\ DOMAIN commands = 1 .. Len(commands)
          /\ Len(commands) = issued /\ i \in 1 .. issued
        BY DEF WordInv, KillsInv, KillsTypeOK
    <2>2. /\ applied \in Seq(Commands) /\ Increasing(applied)
          /\ \A k \in 1 .. Len(applied) : applied[k] \in Commands
          /\ DOMAIN applied = 1 .. Len(applied)
        BY DEF WordInv, ChannelInv, ChannelTypeOK, Sorted
    <2>3. PICK k \in 1 .. Len(applied) : applied[k] = i
        BY <2>1, AllHandled DEF WordInv
    <2>4. ASSUME NEW j \in 1 .. issued, commands[j].conv = v, j # i
          PROVE  j < i
        <3>1. commands[i].call \in Calls /\ commands[j].call \in Calls
            <4>1. commands[i] \in CommandType /\ commands[j] \in CommandType
                BY <2>1
            <4> QED BY <4>1 DEF CommandType
        <3>2. commands[j].call # c
            <4>1. PICK d \in Calls : d = c
                BY <3>1
            <4>2. IsCommandOf(i, d) /\ i \in 1 .. Len(commands)
                BY <2>1, <4>1 DEF IsCommandOf
            <4>3. calls[d].post = "served"
                BY <4>2 DEF WordInv, KillsInv, CommandInv
            <4>4. PICK m \in 1 .. Len(commands) :
                      \A l \in 1 .. Len(commands) : IsCommandOf(l, d) <=> l = m
                BY <4>3 DEF WordInv, KillsInv, CommandInv
            <4> QED BY <2>1, <2>4, <4>1, <4>2, <4>4 DEF IsCommandOf
        <3>3. commands[j].call \in IssuedFor(v)
            BY <2>1, <2>4 DEF IssuedFor
        <3>4. commands[j].call \in calls[c].after
            BY <3>2, <3>3
        <3> QED BY <2>1, <3>1, <3>4 DEF WordInv, AfterInv, IsCommandOf
    <2>5. k \in HandledFor(v)
        BY <2>2, <2>3 DEF HandledFor
    <2>6. ASSUME NEW m \in HandledFor(v) PROVE m <= k
        <3>1. m \in 1 .. Len(applied) /\ commands[applied[m]].conv = v
            BY <2>2 DEF HandledFor
        <3>2. applied[m] \in 1 .. issued
            <4>1. applied[m] \in Commands /\ applied[m] \in Elems(applied)
                BY <2>2, <3>1 DEF Elems
            <4> QED BY <4>1 DEF WordInv, ChannelInv, Accounted, Commands, ChannelTypeOK
        <3>3. applied[m] <= i
            BY <2>1, <2>4, <3>1, <3>2
        <3> QED BY <2>1, <2>2, <2>3, <3>1, <3>2, <3>3 DEF Increasing
    <2>7. Latest(HandledFor(v)) = k
        <3> DEFINE H == HandledFor(v)
        <3>1. \E m \in H : \A l \in H : l <= m
            BY <2>5, <2>6
        <3> HIDE DEF H
        <3>2. Latest(H) \in H /\ \A m \in H : m <= Latest(H)
            BY <3>1 DEF Latest
        <3>3. H \subseteq 1 .. Len(applied) /\ Len(applied) \in Nat
            BY <2>2 DEF H, HandledFor
        <3> QED BY <2>5, <2>6, <3>2, <3>3 DEF H
    <2> QED BY <2>3, <2>5, <2>7 DEF Blocked
<1> QED BY <1>1, WordInit, WordNext, PTL DEF KillSpec

=============================================================================
