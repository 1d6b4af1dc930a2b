-------------------------- MODULE ChatStreamProofs --------------------------
(***************************************************************************)
(* What holds of ChatStream for any number of turns, cancels and chunks.   *)
(*                                                                         *)
(* The inductive invariant ChatInv is ChatTypeOK and RegistryExact, what a *)
(* turn has stored by where it is, and where a stream that was ever        *)
(* cancelled can be.  RegistryExact and the last one need each other: a    *)
(* cancel only ever meets a stream in flight because the registry never    *)
(* holds one that is past it.                                              *)
(***************************************************************************)
EXTENDS ChatStream, SequenceTheorems, TLAPS

Places == {"new", "admitted", "starting", "running", "sending", "saving",
           "aborting"} \cup Ended

Answers == {<<>>, <<"user">>, <<"user", "complete">>, <<"user", "cancelled">>}

\* What a streamed turn has stored by where it is.
StreamStored ==
    \A s \in Streams :
        /\ stream[s].at \in {"new", "refused", "admitted"} => stored[s] = <<>>
        /\ stream[s].at \in {"starting", "running", "sending", "saving", "aborting"}
              => stored[s] = <<"user">>
        /\ stream[s].at = "aborted" => stored[s] = <<"user", "cancelled">>
        /\ stored[s] \in Answers

\* And a plain one.
PlainStored ==
    \A p \in Plains :
        /\ plain[p] # "done" => stored[p] = <<>>
        /\ stored[p] \in Answers

\* Where a stream can be that was ever cancelled, and what it has stored.
AskedInv ==
    \A s \in asked :
        /\ s \in cancelled \/ stream[s].at \in {"aborting", "aborted", "failed", "gone"}
        /\ stored[s] # <<"user", "complete">>

ChatInv ==
    /\ ChatTypeOK
    /\ RegistryExact
    /\ StreamStored
    /\ PlainStored
    /\ AskedInv

-----------------------------------------------------------------------------
(* Facts about what is stored *)

\* The messages of a turn, one after the other.
LEMMA Appended ==
    /\ <<>> \o <<"user">> = <<"user">>
    /\ <<>> \o <<"user", "complete">> = <<"user", "complete">>
    /\ <<"user">> \o <<"complete">> = <<"user", "complete">>
    /\ <<"user">> \o <<"cancelled">> = <<"user", "cancelled">>
<1> DEFINE M == {"user", "complete", "cancelled"}
<1>1. ASSUME NEW a \in M, NEW b \in M PROVE <<a>> \o <<b>> = <<a, b>>
    <2> DEFINE ab == <<a>> \o <<b>>
    <2>1. <<a>> \in Seq(M) /\ <<b>> \in Seq(M) /\ <<a, b>> \in Seq(M)
        OBVIOUS
    <2>2. ab \in Seq(M) /\ Len(ab) = 2 /\ ab[1] = a /\ ab[2] = b
        BY <2>1, ConcatProperties
    <2>3. Len(<<a, b>>) = 2 /\ <<a, b>>[1] = a /\ <<a, b>>[2] = b
        OBVIOUS
    <2>4. \A i \in 1 .. 2 : i = 1 \/ i = 2
        OBVIOUS
    <2> HIDE DEF ab
    <2>5. ab = <<a, b>>
        BY <2>1, <2>2, <2>3, <2>4, SeqEqual
    <2> QED BY <2>5 DEF ab
<1>2. \A t \in Seq(M) : <<>> \o t = t
    BY ConcatEmptySeq
<1>3. <<"user">> \in Seq(M) /\ <<"user", "complete">> \in Seq(M)
    OBVIOUS
<1> QED BY <1>1, <1>2, <1>3

\* They are four different ones.
LEMMA AnswersDiffer ==
    /\ <<"user">> # <<"user", "complete">>
    /\ <<>> # <<"user", "complete">>
    /\ <<"user", "cancelled">> # <<"user", "complete">>
OBVIOUS

\* They are sequences of messages.
LEMMA AnswersAreSequences == Answers \subseteq Seq({"user", "complete", "cancelled"})
BY DEF Answers

-----------------------------------------------------------------------------
(* Facts about steps *)

\* A streamed turn moves, and no other does.
LEMMA Moves ==
    ASSUME ChatTypeOK, NEW s \in Streams, NEW at \in Places, Becomes(s, at)
    PROVE  /\ stream' \in [Streams -> [at : Places, chunks : 0 .. MaxChunks]]
           /\ stream'[s].at = at
           /\ \A t \in Streams \ {s} : stream'[t] = stream[t]
BY DEF ChatTypeOK, Becomes, Places

\* A turn stores, and no other does.
LEMMA Storing ==
    ASSUME ChatTypeOK, NEW t \in Streams \cup Plains, NEW messages, Stores(t, messages),
           stored[t] \o messages \in Answers
    PROVE  /\ stored' \in [Streams \cup Plains -> Seq({"user", "complete", "cancelled"})]
           /\ stored'[t] = stored[t] \o messages
           /\ \A u \in (Streams \cup Plains) \ {t} : stored'[u] = stored[u]
BY AnswersAreSequences DEF ChatTypeOK, Stores

-----------------------------------------------------------------------------
(* The invariant *)

\* It holds at the start, when nobody has said anything.
LEMMA InitInv == ChatInit => ChatInv
<1> SUFFICES ASSUME ChatInit PROVE ChatInv
    OBVIOUS
<1> USE ChatAssumption DEF ChatInit
<1>1. ChatTypeOK
    BY DEF ChatTypeOK, InFlight
<1>2. RegistryExact
    BY DEF RegistryExact, InFlight, Live
<1>3. StreamStored /\ PlainStored /\ AskedInv
    BY DEF StreamStored, PlainStored, AskedInv, Answers
<1> QED BY <1>1, <1>2, <1>3 DEF ChatInv

\* Every step of a turn and of a cancel preserves it.
LEMMA StepPreserves == ChatInv /\ [ChatNext]_chatVars => ChatInv'
<1> SUFFICES ASSUME ChatInv, [ChatNext]_chatVars PROVE ChatInv'
    OBVIOUS
<1> USE ChatAssumption, Appended, AnswersDiffer
<1> USE DEF ChatInv
<1>1. ASSUME NEW s \in Streams, StreamAdmitted(s) PROVE ChatInv'
    <2> USE <1>1
    <2>1. /\ stream' \in [Streams -> [at : Places, chunks : 0 .. MaxChunks]]
          /\ stream'[s].at = IF status = "cancelled" THEN "refused" ELSE "admitted"
          /\ \A t \in Streams \ {s} : stream'[t] = stream[t]
        BY Moves DEF StreamAdmitted, Places, Ended, ChatTypeOK
    <2>3. ChatTypeOK'
        BY <2>1 DEF StreamAdmitted, Ended, Places, InFlight, Live, ChatTypeOK,
           RegistryExact
    <2>4. RegistryExact'
        BY <2>1 DEF StreamAdmitted, Ended, Places, InFlight, Live, ChatTypeOK,
           RegistryExact
    <2>5. StreamStored'
        BY <2>1 DEF StreamAdmitted, Ended, Places, StreamStored, Answers
    <2>6. PlainStored'
        BY <2>1 DEF StreamAdmitted, Ended, Places, InFlight, PlainStored,
           ChatTypeOK
    <2>7. AskedInv'
        BY <2>1 DEF StreamAdmitted, Ended, Places, InFlight, Live, AskedInv,
           ChatTypeOK, RegistryExact, StreamStored
    <2> QED BY <2>3, <2>4, <2>5, <2>6, <2>7
<1>2. ASSUME NEW s \in Streams, StreamStarts(s) PROVE ChatInv'
    <2> USE <1>2
    <2>1. /\ stream' \in [Streams -> [at : Places, chunks : 0 .. MaxChunks]]
          /\ stream'[s].at = "starting"
          /\ \A t \in Streams \ {s} : stream'[t] = stream[t]
        BY Moves DEF StreamStarts, Places, Ended, ChatTypeOK
    <2>2. /\ stored' \in [Streams \cup Plains -> Seq({"user", "complete", "cancelled"})]
          /\ stored'[s] = stored[s] \o <<"user">> /\ stored[s] = <<>>
          /\ \A u \in (Streams \cup Plains) \ {s} : stored'[u] = stored[u]
        <3>1. stored[s] = <<>>
            BY DEF StreamStarts, StreamStored
        <3> QED BY <3>1, Storing DEF StreamStarts, Answers, Partial
    <2>3. ChatTypeOK'
        BY <2>1, <2>2 DEF StreamStarts, Ended, Places, InFlight, Live,
           ChatTypeOK, RegistryExact
    <2>4. RegistryExact'
        BY <2>1, <2>2 DEF StreamStarts, Ended, Places, InFlight, Live,
           ChatTypeOK, RegistryExact
    <2>5. StreamStored'
        BY ZenonT(60), <2>1, <2>2 DEF StreamStarts, Ended, Places, StreamStored, Answers
    <2>6. PlainStored'
        BY <2>1, <2>2 DEF StreamStarts, Ended, Places, InFlight, PlainStored,
           ChatTypeOK
    <2>7. AskedInv'
        <3>1. s \notin asked
            BY DEF StreamStarts, AskedInv, ChatTypeOK, InFlight
        <3> QED BY ZenonT(60), <2>1, <2>2, <3>1 DEF StreamStarts, AskedInv, ChatTypeOK
    <2> QED BY <2>3, <2>4, <2>5, <2>6, <2>7
<1>3. ASSUME NEW s \in Streams, Register(s) PROVE ChatInv'
    <2> USE <1>3
    <2>1. /\ stream' \in [Streams -> [at : Places, chunks : 0 .. MaxChunks]]
          /\ stream'[s].at = "running"
          /\ \A t \in Streams \ {s} : stream'[t] = stream[t]
        BY Moves DEF Register, Places, Ended, ChatTypeOK
    <2>3. ChatTypeOK'
        BY <2>1 DEF Register, Ended, Places, InFlight, Live, CancelTasks,
           ChatTypeOK, RegistryExact
    <2>4. RegistryExact'
        BY <2>1 DEF Register, Ended, Places, InFlight, Live, CancelTasks,
           ChatTypeOK, RegistryExact
    <2>5. StreamStored'
        BY <2>1 DEF Register, Ended, Places, Live, CancelTasks, StreamStored,
           Answers
    <2>6. PlainStored'
        BY <2>1 DEF Register, Ended, Places, InFlight, Live, CancelTasks,
           PlainStored, ChatTypeOK
    <2>7. AskedInv'
        BY ZenonT(60), <2>1 DEF Register, Ended, Places, InFlight, Live, CancelTasks,
           AskedInv, ChatTypeOK, RegistryExact, StreamStored
    <2> QED BY <2>3, <2>4, <2>5, <2>6, <2>7
<1>4. ASSUME NEW s \in Streams, Chunk(s) PROVE ChatInv'
    <2> USE <1>4
    <2>1. /\ stream' \in [Streams -> [at : Places, chunks : 0 .. MaxChunks]]
          /\ stream'[s].at = "sending"
          /\ \A t \in Streams \ {s} : stream'[t] = stream[t]
        BY Moves DEF Chunk, Places, Ended, ChatTypeOK
    <2>3. ChatTypeOK'
        BY <2>1 DEF Chunk, Ended, Places, InFlight, Live, ChatTypeOK,
           RegistryExact
    <2>4. RegistryExact'
        BY <2>1 DEF Chunk, Ended, Places, InFlight, Live, ChatTypeOK,
           RegistryExact
    <2>5. StreamStored'
        BY <2>1 DEF Chunk, Ended, Places, StreamStored, Answers
    <2>6. PlainStored'
        BY <2>1 DEF Chunk, Ended, Places, InFlight, PlainStored, ChatTypeOK
    <2>7. AskedInv'
        BY <2>1 DEF Chunk, Ended, Places, InFlight, Live, AskedInv,
           ChatTypeOK, RegistryExact, StreamStored
    <2> QED BY <2>3, <2>4, <2>5, <2>6, <2>7
<1>5. ASSUME NEW s \in Streams, Sent(s) PROVE ChatInv'
    <2> USE <1>5
    <2>1. /\ stream' \in [Streams -> [at : Places, chunks : 0 .. MaxChunks]]
          /\ stream'[s].at = "running"
          /\ \A t \in Streams \ {s} : stream'[t] = stream[t]
        BY Moves DEF Sent, Places, Ended, ChatTypeOK
    <2>3. ChatTypeOK'
        BY <2>1 DEF Sent, Ended, Places, InFlight, Live, ChatTypeOK,
           RegistryExact
    <2>4. RegistryExact'
        BY <2>1 DEF Sent, Ended, Places, InFlight, Live, ChatTypeOK,
           RegistryExact
    <2>5. StreamStored'
        BY <2>1 DEF Sent, Ended, Places, StreamStored, Answers
    <2>6. PlainStored'
        BY <2>1 DEF Sent, Ended, Places, InFlight, PlainStored, ChatTypeOK
    <2>7. AskedInv'
        BY <2>1 DEF Sent, Ended, Places, InFlight, Live, AskedInv, ChatTypeOK,
           RegistryExact, StreamStored
    <2> QED BY <2>3, <2>4, <2>5, <2>6, <2>7
<1>6. ASSUME NEW s \in Streams, AnswerEnds(s) PROVE ChatInv'
    <2> USE <1>6
    <2>1. /\ stream' \in [Streams -> [at : Places, chunks : 0 .. MaxChunks]]
          /\ stream'[s].at = "saving"
          /\ \A t \in Streams \ {s} : stream'[t] = stream[t]
        BY Moves DEF AnswerEnds, Places, Ended, ChatTypeOK
    <2>3. ChatTypeOK'
        BY <2>1 DEF AnswerEnds, Ended, Places, InFlight, Live, Without,
           AfterAnswer, ChatTypeOK, RegistryExact
    <2>4. RegistryExact'
        BY <2>1 DEF AnswerEnds, Ended, Places, InFlight, Live, Without,
           AfterAnswer, ChatTypeOK, RegistryExact
    <2>5. StreamStored'
        BY <2>1 DEF AnswerEnds, Ended, Places, Without, AfterAnswer,
           StreamStored, Answers
    <2>6. PlainStored'
        BY <2>1 DEF AnswerEnds, Ended, Places, InFlight, Without, AfterAnswer,
           PlainStored, ChatTypeOK
    <2>7. AskedInv'
        BY <2>1 DEF AnswerEnds, Ended, Places, InFlight, Live, Without,
           AfterAnswer, AskedInv, ChatTypeOK, RegistryExact, StreamStored
    <2> QED BY <2>3, <2>4, <2>5, <2>6, <2>7
<1>7. ASSUME NEW s \in Streams, StreamDone(s) PROVE ChatInv'
    <2> USE <1>7
    <2>1. /\ stream' \in [Streams -> [at : Places, chunks : 0 .. MaxChunks]]
          /\ stream'[s].at = "done"
          /\ \A t \in Streams \ {s} : stream'[t] = stream[t]
        BY Moves DEF StreamDone, Places, Ended, ChatTypeOK
    <2>2. /\ stored' \in [Streams \cup Plains -> Seq({"user", "complete", "cancelled"})]
          /\ stored'[s] = stored[s] \o <<"complete">> /\ stored[s] = <<"user">>
          /\ \A u \in (Streams \cup Plains) \ {s} : stored'[u] = stored[u]
        <3>1. stored[s] = <<"user">>
            BY DEF StreamDone, StreamStored
        <3> QED BY <3>1, Storing DEF StreamDone, Answers, Partial
    <2>3. ChatTypeOK'
        BY <2>1, <2>2 DEF StreamDone, Ended, Places, InFlight, Live,
           ChatTypeOK, RegistryExact
    <2>4. RegistryExact'
        BY <2>1, <2>2 DEF StreamDone, Ended, Places, InFlight, Live,
           ChatTypeOK, RegistryExact
    <2>5. StreamStored'
        BY ZenonT(60), <2>1, <2>2 DEF StreamDone, Ended, Places, StreamStored, Answers
    <2>6. PlainStored'
        BY <2>1, <2>2 DEF StreamDone, Ended, Places, InFlight, PlainStored,
           ChatTypeOK
    <2>7. AskedInv'
        <3>1. s \notin asked
            BY DEF StreamDone, AskedInv, ChatTypeOK, InFlight
        <3> QED BY ZenonT(60), <2>1, <2>2, <3>1 DEF StreamDone, AskedInv, ChatTypeOK
    <2> QED BY <2>3, <2>4, <2>5, <2>6, <2>7
<1>8. ASSUME NEW s \in Streams, Interrupted(s) PROVE ChatInv'
    <2> USE <1>8
    <2>1. /\ stream' \in [Streams -> [at : Places, chunks : 0 .. MaxChunks]]
          /\ stream'[s].at = OnCancel(stream[s].at)
          /\ \A t \in Streams \ {s} : stream'[t] = stream[t]
        BY Moves DEF Interrupted, Places, Ended, ChatTypeOK, OnCancel
    <2>3. ChatTypeOK'
        BY <2>1 DEF Interrupted, Ended, Places, InFlight, Live, Without,
           OnCancel, ChatTypeOK, RegistryExact
    <2>4. RegistryExact'
        BY <2>1 DEF Interrupted, Ended, Places, InFlight, Live, Without,
           OnCancel, ChatTypeOK, RegistryExact
    <2>5. StreamStored'
        <3>1. UNCHANGED stored /\ stream[s].at \in {"running", "sending"}
            BY DEF Interrupted, ChatTypeOK, InFlight
        <3>2. stored[s] = <<"user">>
            BY <3>1 DEF StreamStored
        <3> QED BY <2>1, <3>1, <3>2 DEF StreamStored, OnCancel, Answers
    <2>6. PlainStored'
        BY <2>1 DEF Interrupted, Ended, Places, InFlight, Without, OnCancel,
           PlainStored, ChatTypeOK
    <2>7. AskedInv'
        BY <2>1 DEF Interrupted, Ended, Places, InFlight, Live, Without,
           OnCancel, AskedInv, ChatTypeOK, RegistryExact, StreamStored
    <2> QED BY <2>3, <2>4, <2>5, <2>6, <2>7
<1>9. ASSUME NEW s \in Streams, StreamAborted(s) PROVE ChatInv'
    <2> USE <1>9
    <2>1. /\ stream' \in [Streams -> [at : Places, chunks : 0 .. MaxChunks]]
          /\ stream'[s].at = "aborted"
          /\ \A t \in Streams \ {s} : stream'[t] = stream[t]
        BY Moves DEF StreamAborted, Places, Ended, ChatTypeOK
    <2>2. /\ stored' \in [Streams \cup Plains -> Seq({"user", "complete", "cancelled"})]
          /\ stored'[s] = stored[s] \o <<"cancelled">> /\ stored[s] = <<"user">>
          /\ \A u \in (Streams \cup Plains) \ {s} : stored'[u] = stored[u]
        <3>1. stored[s] = <<"user">>
            BY DEF StreamAborted, StreamStored
        <3> QED BY <3>1, Storing DEF StreamAborted, Answers, Partial
    <2>3. ChatTypeOK'
        BY <2>1, <2>2 DEF StreamAborted, Ended, Places, InFlight, Live,
           ChatTypeOK, RegistryExact
    <2>4. RegistryExact'
        BY <2>1, <2>2 DEF StreamAborted, Ended, Places, InFlight, Live,
           ChatTypeOK, RegistryExact
    <2>5. StreamStored'
        BY ZenonT(60), <2>1, <2>2 DEF StreamAborted, Ended, Places, StreamStored, Answers
    <2>6. PlainStored'
        BY <2>1, <2>2 DEF StreamAborted, Ended, Places, InFlight, PlainStored,
           ChatTypeOK
    <2>7. AskedInv'
        <3>1. stored'[s] = <<"user", "cancelled">>
            BY <2>2
        <3>2. /\ stored'[s] # <<"user", "complete">>
              /\ \A t \in asked \ {s} : stored'[t] = stored[t]
            BY <2>2, <3>1 DEF ChatTypeOK
        <3> QED BY <2>1, <3>2 DEF StreamAborted, AskedInv, ChatTypeOK
    <2> QED BY <2>3, <2>4, <2>5, <2>6, <2>7
<1>10. ASSUME NEW s \in Streams, StreamFails(s) PROVE ChatInv'
    <2> USE <1>10
    <2>1. /\ stream' \in [Streams -> [at : Places, chunks : 0 .. MaxChunks]]
          /\ stream'[s].at = "failed"
          /\ \A t \in Streams \ {s} : stream'[t] = stream[t]
        BY Moves DEF StreamFails, Places, Ended, ChatTypeOK
    <2>3. ChatTypeOK'
        BY <2>1 DEF StreamFails, Ended, Places, InFlight, Live, Without,
           ChatTypeOK, RegistryExact
    <2>4. RegistryExact'
        BY <2>1 DEF StreamFails, Ended, Places, InFlight, Live, Without,
           ChatTypeOK, RegistryExact
    <2>5. StreamStored'
        BY <2>1 DEF StreamFails, Ended, Places, Without, StreamStored, Answers
    <2>6. PlainStored'
        BY <2>1 DEF StreamFails, Ended, Places, InFlight, Without,
           PlainStored, ChatTypeOK
    <2>7. AskedInv'
        BY <2>1 DEF StreamFails, Ended, Places, InFlight, Live, Without,
           AskedInv, ChatTypeOK, RegistryExact, StreamStored
    <2> QED BY <2>3, <2>4, <2>5, <2>6, <2>7
<1>11. ASSUME NEW s \in Streams, Disconnect(s) PROVE ChatInv'
    <2> USE <1>11
    <2>1. /\ stream' \in [Streams -> [at : Places, chunks : 0 .. MaxChunks]]
          /\ stream'[s].at = "gone"
          /\ \A t \in Streams \ {s} : stream'[t] = stream[t]
        BY Moves DEF Disconnect, Places, Ended
    <2>2. /\ stored' \in [Streams \cup Plains -> Seq({"user", "complete", "cancelled"})]
          /\ stored'[s] \in Answers
          /\ s \in asked => stored'[s] # <<"user", "complete">>
          /\ \A u \in (Streams \cup Plains) \ {s} : stored'[u] = stored[u]
        <3>1. CASE UNCHANGED stored
            BY <3>1 DEF ChatTypeOK, StreamStored, AskedInv
        <3>2. CASE stream[s].at = "admitted" /\ Stores(s, <<"user">>)
            BY ZenonT(60), <3>2, Storing DEF StreamStored, Answers
        <3>3. CASE stream[s].at = "saving" /\ Stores(s, <<"complete">>)
            <4>1. s \notin asked
                BY <3>3 DEF AskedInv, ChatTypeOK, InFlight
            <4>2. stored[s] \o <<"complete">> \in Answers
                BY <3>3 DEF StreamStored, Answers
            <4> QED BY <3>3, <4>1, <4>2, Storing
        <3>4. CASE stream[s].at = "aborting" /\ Stores(s, <<"cancelled">>)
            BY ZenonT(60), <3>4, Storing DEF StreamStored, Answers
        <3> QED BY <3>1, <3>2, <3>3, <3>4 DEF Disconnect, Partial
    <2>3. ChatTypeOK'
        BY <2>1, <2>2 DEF Disconnect, Ended, Places, InFlight, Live, Without,
           ChatTypeOK, RegistryExact
    <2>4. RegistryExact'
        BY <2>1, <2>2 DEF Disconnect, Ended, Places, InFlight, Live, Without,
           ChatTypeOK, RegistryExact
    <2>5. StreamStored'
        BY ZenonT(60), <2>1, <2>2 DEF Disconnect, Ended, Places, Without, StreamStored,
           Answers
    <2>6. PlainStored'
        BY <2>1, <2>2 DEF Disconnect, Ended, Places, InFlight, Without,
           PlainStored, ChatTypeOK
    <2>7. AskedInv'
        <3>1. \A t \in asked \ {s} : stored'[t] = stored[t] /\ stream'[t] = stream[t]
            BY <2>1, <2>2 DEF ChatTypeOK
        <3> QED BY ZenonT(60), <2>1, <2>2, <3>1 DEF Disconnect, AskedInv, ChatTypeOK
    <2> QED BY <2>3, <2>4, <2>5, <2>6, <2>7
<1>12. ASSUME NEW s \in Streams, Collected(s) PROVE ChatInv'
    <2> USE <1>12
    <2>3. ChatTypeOK'
        BY <1>12 DEF Collected, Ended, Places, InFlight, Live, Without,
           ChatTypeOK, RegistryExact
    <2>4. RegistryExact'
        BY <1>12 DEF Collected, Ended, Places, InFlight, Live, Without,
           ChatTypeOK, RegistryExact
    <2>5. StreamStored'
        BY <1>12 DEF Collected, Ended, Places, Without, StreamStored, Answers
    <2>6. PlainStored'
        BY <1>12 DEF Collected, Ended, Places, InFlight, Without, PlainStored,
           ChatTypeOK
    <2>7. AskedInv'
        BY <1>12 DEF Collected, Ended, Places, InFlight, Live, Without,
           AskedInv, ChatTypeOK, RegistryExact, StreamStored
    <2> QED BY <2>3, <2>4, <2>5, <2>6, <2>7
<1>13. ASSUME NEW p \in Plains, PlainAdmitted(p) PROVE ChatInv'
    <2> USE <1>13 DEF RowAfterError
    <2>3. ChatTypeOK'
        BY <1>13 DEF PlainAdmitted, Ended, Places, InFlight, Live, ChatTypeOK,
           RegistryExact
    <2>4. RegistryExact'
        BY <1>13 DEF PlainAdmitted, Ended, Places, InFlight, Live, ChatTypeOK,
           RegistryExact
    <2>5. StreamStored'
        BY <1>13 DEF PlainAdmitted, Ended, Places, StreamStored, Answers
    <2>6. PlainStored'
        BY <1>13 DEF PlainAdmitted, Ended, Places, InFlight, PlainStored,
           ChatTypeOK
    <2>7. AskedInv'
        BY <1>13 DEF PlainAdmitted, Ended, Places, InFlight, Live, AskedInv,
           ChatTypeOK, RegistryExact, StreamStored
    <2> QED BY <2>3, <2>4, <2>5, <2>6, <2>7
<1>14. ASSUME NEW p \in Plains, PlainBumps(p) PROVE ChatInv'
    <2> USE <1>14 DEF RowAfterError
    <2>3. ChatTypeOK'
        BY <1>14 DEF PlainBumps, Ended, Places, InFlight, Live, ChatTypeOK,
           RegistryExact
    <2>4. RegistryExact'
        BY <1>14 DEF PlainBumps, Ended, Places, InFlight, Live, ChatTypeOK,
           RegistryExact
    <2>5. StreamStored'
        BY <1>14 DEF PlainBumps, Ended, Places, StreamStored, Answers
    <2>6. PlainStored'
        BY <1>14 DEF PlainBumps, Ended, Places, InFlight, PlainStored,
           ChatTypeOK
    <2>7. AskedInv'
        BY <1>14 DEF PlainBumps, Ended, Places, InFlight, Live, AskedInv,
           ChatTypeOK, RegistryExact, StreamStored
    <2> QED BY <2>3, <2>4, <2>5, <2>6, <2>7
<1>15. ASSUME NEW p \in Plains, PlainDone(p) PROVE ChatInv'
    <2> USE <1>15 DEF RowAfterError
    <2>2. /\ stored' \in [Streams \cup Plains -> Seq({"user", "complete", "cancelled"})]
          /\ stored'[p] = <<"user", "complete">>
          /\ \A u \in (Streams \cup Plains) \ {p} : stored'[u] = stored[u]
        <3>1. stored[p] = <<>>
            BY DEF PlainDone, PlainStored
        <3> QED BY <3>1, Storing DEF PlainDone, Answers
    <2>3. ChatTypeOK'
        BY <2>2 DEF PlainDone, Ended, Places, InFlight, Live, ChatTypeOK,
           RegistryExact
    <2>4. RegistryExact'
        BY <2>2 DEF PlainDone, Ended, Places, InFlight, Live, ChatTypeOK,
           RegistryExact
    <2>5. StreamStored'
        BY <2>2 DEF PlainDone, Ended, Places, StreamStored, Answers
    <2>6. PlainStored'
        <3>1. \A q \in Plains \ {p} : stored'[q] = stored[q] /\ plain'[q] = plain[q]
            BY <2>2 DEF PlainDone, ChatTypeOK
        <3>2. plain'[p] = "done"
            BY DEF PlainDone, ChatTypeOK
        <3> QED BY <2>2, <3>1, <3>2 DEF PlainStored, Answers
    <2>7. AskedInv'
        <3>1. \A t \in asked : stored'[t] = stored[t]
            BY <2>2 DEF ChatTypeOK
        <3> QED BY <3>1 DEF PlainDone, AskedInv
    <2> QED BY <2>3, <2>4, <2>5, <2>6, <2>7
<1>16. ASSUME NEW p \in Plains, PlainFails(p) PROVE ChatInv'
    <2> USE <1>16 DEF RowAfterError
    <2>3. ChatTypeOK'
        BY <1>16 DEF PlainFails, Ended, Places, InFlight, Live, ChatTypeOK,
           RegistryExact
    <2>4. RegistryExact'
        BY <1>16 DEF PlainFails, Ended, Places, InFlight, Live, ChatTypeOK,
           RegistryExact
    <2>5. StreamStored'
        BY <1>16 DEF PlainFails, Ended, Places, StreamStored, Answers
    <2>6. PlainStored'
        BY <1>16 DEF PlainFails, Ended, Places, InFlight, PlainStored,
           ChatTypeOK
    <2>7. AskedInv'
        BY <1>16 DEF PlainFails, Ended, Places, InFlight, Live, AskedInv,
           ChatTypeOK, RegistryExact, StreamStored
    <2> QED BY <2>3, <2>4, <2>5, <2>6, <2>7
<1>17. ASSUME NEW c \in Cancels, CancelFinds(c) PROVE ChatInv'
    <2> USE <1>17
    <2>3. ChatTypeOK'
        BY <1>17 DEF CancelFinds, Ended, Places, InFlight, Live, CancelTasks,
           ChatTypeOK, RegistryExact
    <2>4. RegistryExact'
        BY <1>17 DEF CancelFinds, Ended, Places, InFlight, Live, CancelTasks,
           ChatTypeOK, RegistryExact
    <2>5. StreamStored'
        BY <1>17 DEF CancelFinds, Ended, Places, Live, CancelTasks,
           StreamStored, Answers
    <2>6. PlainStored'
        BY <1>17 DEF CancelFinds, Ended, Places, InFlight, Live, CancelTasks,
           PlainStored, ChatTypeOK
    <2>7. AskedInv'
        <3>1. \A t \in Live : t \in Streams /\ stored[t] = <<"user">>
            BY DEF Live, RegistryExact, InFlight, StreamStored
        <3> QED BY <3>1 DEF CancelFinds, CancelTasks, AskedInv
    <2> QED BY <2>3, <2>4, <2>5, <2>6, <2>7
<1>18. ASSUME NEW c \in Cancels, CancelMarks(c) PROVE ChatInv'
    <2> USE <1>18
    <2>3. ChatTypeOK'
        BY <1>18 DEF CancelMarks, Ended, Places, InFlight, Live, ChatTypeOK,
           RegistryExact
    <2>4. RegistryExact'
        BY <1>18 DEF CancelMarks, Ended, Places, InFlight, Live, ChatTypeOK,
           RegistryExact
    <2>5. StreamStored'
        BY <1>18 DEF CancelMarks, Ended, Places, StreamStored, Answers
    <2>6. PlainStored'
        BY <1>18 DEF CancelMarks, Ended, Places, InFlight, PlainStored,
           ChatTypeOK
    <2>7. AskedInv'
        BY <1>18 DEF CancelMarks, Ended, Places, InFlight, Live, AskedInv,
           ChatTypeOK, RegistryExact, StreamStored
    <2> QED BY <2>3, <2>4, <2>5, <2>6, <2>7
<1>20. ASSUME NEW c \in Cancels, CancelFails(c) PROVE ChatInv'
    <2> USE <1>20
    <2>3. ChatTypeOK'
        BY <1>20 DEF CancelFails, Ended, Places, InFlight, Live, ChatTypeOK,
           RegistryExact
    <2>4. RegistryExact'
        BY <1>20 DEF CancelFails, Ended, Places, InFlight, Live, ChatTypeOK,
           RegistryExact
    <2>5. StreamStored'
        BY <1>20 DEF CancelFails, Ended, Places, StreamStored, Answers
    <2>6. PlainStored'
        BY <1>20 DEF CancelFails, Ended, Places, InFlight, PlainStored,
           ChatTypeOK
    <2>7. AskedInv'
        BY <1>20 DEF CancelFails, Ended, Places, InFlight, Live, AskedInv,
           ChatTypeOK, RegistryExact, StreamStored
    <2> QED BY <2>3, <2>4, <2>5, <2>6, <2>7
<1>19. CASE UNCHANGED chatVars
    BY <1>19 DEF chatVars, ChatTypeOK, RegistryExact, StreamStored,
       PlainStored, AskedInv, InFlight, Live
<1> QED BY <1>1, <1>2, <1>3, <1>4, <1>5, <1>6, <1>7, <1>8, <1>9, <1>10, <1>11, <1>12,
           <1>13, <1>14, <1>15, <1>16, <1>17, <1>18, <1>19, <1>20 DEF ChatNext, StreamStep

-----------------------------------------------------------------------------
(* The theorems *)

\* The inductive invariant holds in every reachable state.
THEOREM Invariance == ChatSpec => []ChatInv
<1>1. ChatInit => ChatInv
    BY InitInv
<1>2. ChatInv /\ [ChatNext]_chatVars => ChatInv'
    BY StepPreserves
<1> QED BY <1>1, <1>2, PTL DEF ChatSpec

\* The variables keep their types, and a cancellation is pending only for a
\* stream that is in flight.
THEOREM TypeCorrect == ChatSpec => []ChatTypeOK
<1>1. ChatInv => ChatTypeOK
    BY DEF ChatInv
<1> QED BY <1>1, Invariance, PTL

\* StreamRegistry (cancellation.py): a stream that runs and has not been
\* cancelled is the one a cancel finds, and no cancel finds one that is past it.
THEOREM RegistryIsExact == ChatSpec => []RegistryExact
<1>1. ChatInv => RegistryExact
    BY DEF ChatInv
<1> QED BY <1>1, Invariance, PTL

\* stream_send, send_message: a turn has at most one answer, behind its question.
THEOREM AnsweredOnce == ChatSpec => []OneAnswer
<1>1. ChatInv => OneAnswer
    BY DEF ChatInv, StreamStored, PlainStored, Answers, OneAnswer
<1> QED BY <1>1, Invariance, PTL

\* stream_send: a stream that was cancelled neither ends of itself nor stores
\* its answer as a complete one.
THEOREM CancelledStaysPartial == ChatSpec => []CancelledIsPartial
<1>1. ChatInv => CancelledIsPartial
    BY DEF ChatInv, AskedInv, ChatTypeOK, InFlight, CancelledIsPartial
<1> QED BY <1>1, Invariance, PTL
=============================================================================
