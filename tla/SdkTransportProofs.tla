------------------------- MODULE SdkTransportProofs -------------------------
(***************************************************************************)
(* What holds of SdkTransport for every batch size, queue size, number of  *)
(* retries and number of submissions.                                      *)
(*                                                                         *)
(* The inductive invariant SdkInv is SdkTypeOK, the bookkeeping (each      *)
(* event is in one place, the buffer holds the newest events in order) and *)
(* what links them to the flusher: where the flusher is tells whether      *)
(* there is a batch and which attempt it is on, and how often an event has *)
(* been POSTed follows from where it is.                                   *)
(***************************************************************************)
EXTENDS SdkTransport, TLAPS

Busy == task \in {"posting", "backoff"}

\* Where the flusher is, and what it holds there.
FlusherInv ==
    /\ Busy => batch # <<>> /\ attempt \in 1 .. MaxRetries
    /\ ~Busy => batch = <<>> /\ attempt = 0
    /\ task = "backoff" => attempt < MaxRetries
    /\ task = "done" => closed /\ buffer = <<>>
    /\ closing => closed /\ task # "none"

\* How often an event was POSTed: never while it waits in the buffer or before
\* it exists, once per attempt while it is in the batch.
PostsInv ==
    /\ \A e \in Events : e > accepted - Len(buffer) => posts[e] = 0
    /\ \A i \in 1 .. Len(batch) :
          /\ batch[i] <= accepted - Len(buffer)
          /\ posts[batch[i]] = attempt
    /\ RetryBound

SdkInv ==
    /\ SdkTypeOK
    /\ FlusherInv
    /\ Conservation
    /\ BufferIsNewest
    /\ PostsInv

-----------------------------------------------------------------------------
(* Facts about sequences and the helpers *)

\* Taking the front off a sequence: what each part is.
LEMMA FrontRest ==
    ASSUME NEW s \in Seq(Events), NEW n \in 0 .. Len(s)
    PROVE  /\ Front(s, n) \in Seq(Events)
           /\ Len(Front(s, n)) = n
           /\ \A i \in 1 .. n : Front(s, n)[i] = s[i]
           /\ Rest(s, n) \in Seq(Events)
           /\ Len(Rest(s, n)) = Len(s) - n
           /\ \A i \in 1 .. Len(s) - n : Rest(s, n)[i] = s[i + n]
BY DEF Front, Rest

\* What submit() makes of a buffer that is not over its bound.
LEMMA EnqueuedFacts ==
    ASSUME NEW s \in Seq(Events), NEW e \in Events, Len(s) <= QueueMax
    PROVE  /\ Enqueued(s, e) \in Seq(Events)
           /\ Len(Enqueued(s, e)) \in 1 .. QueueMax
           /\ Len(Enqueued(s, e)) = IF Len(s) = QueueMax THEN Len(s) ELSE Len(s) + 1
           /\ Enqueued(s, e)[Len(Enqueued(s, e))] = e
           /\ \A i \in 1 .. Len(Enqueued(s, e)) - 1 :
                 Enqueued(s, e)[i] = IF Len(s) = QueueMax THEN s[i + 1] ELSE s[i]
<1> USE SdkAssumption
<1>1. CASE Len(s) = QueueMax
    <2>1. Tail(s) \in Seq(Events) /\ Len(Tail(s)) = Len(s) - 1
        BY <1>1
    <2>2. \A i \in 1 .. Len(Tail(s)) : Tail(s)[i] = s[i + 1]
        BY <1>1
    <2>3. Enqueued(s, e) = Append(Tail(s), e)
        BY <1>1 DEF Enqueued
    <2> QED BY <1>1, <2>1, <2>2, <2>3
<1>2. CASE Len(s) # QueueMax
    <2>1. Enqueued(s, e) = Append(s, e)
        BY <1>2 DEF Enqueued
    <2> QED BY <1>2, <2>1
<1> QED BY <1>1, <1>2

\* One pass takes at least one event if there is one, never more than a batch.
LEMMA TakeCountFacts ==
    ASSUME SdkTypeOK, buffer # <<>>
    PROVE  TakeCount \in 1 .. Len(buffer) /\ TakeCount <= BatchMax
BY SdkAssumption DEF TakeCount, SdkTypeOK

-----------------------------------------------------------------------------
(* The invariant *)

LEMMA InitInv == SdkInit => SdkInv
<1> SUFFICES ASSUME SdkInit PROVE SdkInv
    OBVIOUS
<1> USE SdkAssumption DEF SdkInit
<1>1. SdkTypeOK
    <2>1. buffer \in Seq(Events) /\ batch \in Seq(Events)
        OBVIOUS
    <2>2. Len(buffer) = 0 /\ Len(batch) = 0
        OBVIOUS
    <2>3. posts \in [Events -> Nat]
        OBVIOUS
    <2>4. accepted \in 0 .. MaxSubmits /\ attempt \in 0 .. MaxRetries
        OBVIOUS
    <2>5. flushEvent \in BOOLEAN /\ closed \in BOOLEAN /\ closing \in BOOLEAN
        OBVIOUS
    <2> QED BY <2>1, <2>2, <2>3, <2>4, <2>5 DEF SdkTypeOK, Tasks
<1>2. FlusherInv
    BY DEF FlusherInv, Busy
<1>3. Conservation
    BY DEF Conservation
<1>4. BufferIsNewest
    BY DEF BufferIsNewest
<1>5. PostsInv
    BY DEF PostsInv, RetryBound
<1> QED BY <1>1, <1>2, <1>3, <1>4, <1>5 DEF SdkInv

\* submit() keeps the newest events: what moves one place to the front keeps
\* its number, and the new event has the next one.
LEMMA SubmitInv == SdkInv /\ Submit => SdkInv'
<1> SUFFICES ASSUME SdkInv, Submit PROVE SdkInv'
    OBVIOUS
<1> USE SdkAssumption
<1> DEFINE e == accepted + 1
<1>1. e \in Events
    BY DEF Submit, SdkInv, SdkTypeOK, Events
<1>2. /\ buffer' \in Seq(Events)
      /\ Len(buffer') \in 1 .. QueueMax
      /\ Len(buffer') = IF Len(buffer) = QueueMax THEN Len(buffer) ELSE Len(buffer) + 1
      /\ buffer'[Len(buffer')] = e
      /\ \A i \in 1 .. Len(buffer') - 1 :
            buffer'[i] = IF Len(buffer) = QueueMax THEN buffer[i + 1] ELSE buffer[i]
    <2>1. buffer \in Seq(Events) /\ Len(buffer) <= QueueMax
        BY DEF SdkInv, SdkTypeOK
    <2>2. buffer' = Enqueued(buffer, e)
        BY DEF Submit
    <2> HIDE DEF e
    <2> QED BY <1>1, <2>1, <2>2, EnqueuedFacts
<1>3. /\ accepted' = accepted + 1
      /\ dropped' = dropped + Overflow
      /\ UNCHANGED <<closed, closing, task, batch, attempt, flushed,
                     failedBatches, lostInFailed, posts>>
    BY DEF Submit
<1>4. SdkTypeOK'
    <2>1. buffer' \in Seq(Events) /\ Len(buffer') <= QueueMax
        BY <1>2
    <2>2. flushEvent' \in BOOLEAN
        BY DEF Submit, SdkInv, SdkTypeOK
    <2>3. accepted' \in 0 .. MaxSubmits
        BY DEF Submit, SdkInv, SdkTypeOK
    <2>4. dropped' \in Nat
        BY <1>3 DEF SdkInv, SdkTypeOK, Overflow
    <2> QED BY <1>3, <2>1, <2>2, <2>3, <2>4 DEF SdkInv, SdkTypeOK
<1>5. FlusherInv'
    <2>1. task # "done"
        BY DEF Submit, SdkInv, FlusherInv
    <2> QED BY <1>3, <2>1 DEF SdkInv, FlusherInv, Busy
<1>6. Conservation'
    <2>1. Len(buffer') = Len(buffer) + 1 - Overflow
        BY <1>2 DEF Overflow, SdkInv, SdkTypeOK
    <2>2. Overflow \in Nat
        BY DEF Overflow
    <2> QED BY <1>3, <2>1, <2>2 DEF SdkInv, SdkTypeOK, Conservation
<1>7. BufferIsNewest'
    <2> SUFFICES ASSUME NEW i \in 1 .. Len(buffer')
                 PROVE  buffer'[i] = accepted' - Len(buffer') + i
        BY DEF BufferIsNewest
    <2>1. CASE i = Len(buffer')
        BY <1>2, <1>3, <2>1 DEF SdkInv, SdkTypeOK
    <2>2. CASE i < Len(buffer')
        <3>1. buffer'[i] = IF Len(buffer) = QueueMax THEN buffer[i + 1] ELSE buffer[i]
            BY <1>2, <2>2
        <3>2. \A j \in 1 .. Len(buffer) : buffer[j] = accepted - Len(buffer) + j
            BY DEF SdkInv, BufferIsNewest
        <3>3. Len(buffer) \in Nat /\ accepted \in Nat /\ i \in Nat
            BY DEF SdkInv, SdkTypeOK
        <3>4. CASE Len(buffer) = QueueMax
            <4>1. Len(buffer') = Len(buffer) /\ i + 1 \in 1 .. Len(buffer)
                BY <1>2, <2>2, <3>3, <3>4
            <4>2. buffer'[i] = accepted - Len(buffer) + (i + 1)
                BY <3>1, <3>2, <3>4, <4>1
            <4> QED BY <1>3, <3>3, <4>1, <4>2
        <3>5. CASE Len(buffer) # QueueMax
            <4>1. Len(buffer') = Len(buffer) + 1 /\ i \in 1 .. Len(buffer)
                BY <1>2, <2>2, <3>3, <3>5
            <4>2. buffer'[i] = accepted - Len(buffer) + i
                BY <3>1, <3>2, <3>5, <4>1
            <4> QED BY <1>3, <3>3, <4>1, <4>2
        <3> QED BY <3>4, <3>5
    <2> QED BY <1>2, <2>1, <2>2
<1>8. PostsInv'
    <2>1. accepted - Len(buffer) <= accepted' - Len(buffer')
        BY <1>2, <1>3 DEF SdkInv, SdkTypeOK
    <2>2. accepted' - Len(buffer') \in Int /\ accepted - Len(buffer) \in Int
        BY <1>2, <1>3 DEF SdkInv, SdkTypeOK
    <2>3. ASSUME NEW d \in Events, d > accepted' - Len(buffer')
          PROVE  posts'[d] = 0
        BY <1>3, <2>1, <2>2, <2>3 DEF SdkInv, PostsInv, Events
    <2>4. ASSUME NEW i \in 1 .. Len(batch')
          PROVE  /\ batch'[i] <= accepted' - Len(buffer')
                 /\ posts'[batch'[i]] = attempt'
        <3>1. batch[i] \in Int
            BY <1>3, <2>4 DEF SdkInv, SdkTypeOK, Events
        <3> QED BY <1>3, <2>1, <2>2, <2>4, <3>1 DEF SdkInv, PostsInv
    <2>5. RetryBound'
        BY <1>3 DEF SdkInv, PostsInv, RetryBound
    <2> QED BY <2>3, <2>4, <2>5 DEF PostsInv
<1> QED BY <1>4, <1>5, <1>6, <1>7, <1>8 DEF SdkInv

\* The flusher takes the oldest events: what it leaves are the newest, and what
\* it takes has never been POSTed.
LEMMA WakeAndPostInv == SdkInv /\ WakeAndPost => SdkInv'
<1> SUFFICES ASSUME SdkInv, WakeAndPost PROVE SdkInv'
    OBVIOUS
<1> USE SdkAssumption
<1> DEFINE n == TakeCount
<1>1. n \in 1 .. Len(buffer) /\ n <= BatchMax
    BY TakeCountFacts DEF WakeAndPost, SdkInv
<1>2. buffer \in Seq(Events) /\ Len(buffer) <= QueueMax /\ n \in 0 .. Len(buffer)
    BY <1>1 DEF SdkInv, SdkTypeOK
<1>3. batch' = Front(buffer, n) /\ buffer' = Rest(buffer, n)
    BY DEF WakeAndPost
<1> HIDE DEF n
<1>4. /\ batch' \in Seq(Events)
      /\ Len(batch') = n
      /\ \A i \in 1 .. n : batch'[i] = buffer[i]
      /\ buffer' \in Seq(Events)
      /\ Len(buffer') = Len(buffer) - n
      /\ \A i \in 1 .. Len(buffer) - n : buffer'[i] = buffer[i + n]
    BY <1>2, <1>3, FrontRest
<1>5. /\ task' = "posting"
      /\ attempt' = 1
      /\ posts' = [e \in Events |-> IF InSeq(e, batch') THEN posts[e] + 1 ELSE posts[e]]
      /\ UNCHANGED <<closed, closing, dropped, flushed, failedBatches, accepted,
                     lostInFailed>>
    BY DEF WakeAndPost, Posted
<1>6. batch = <<>> /\ task = "waiting"
    BY DEF WakeAndPost, MayWake, SdkInv, FlusherInv, Busy
<1>7. \A j \in 1 .. Len(buffer) : buffer[j] = accepted - Len(buffer) + j
    BY DEF SdkInv, BufferIsNewest
<1>8. Len(buffer) \in Nat /\ accepted \in Nat /\ n \in Nat
    BY <1>1 DEF SdkInv, SdkTypeOK
<1>9. \A e \in Events : InSeq(e, batch') => posts[e] = 0
    <2> SUFFICES ASSUME NEW e \in Events, NEW i \in 1 .. Len(batch'), batch'[i] = e
                 PROVE  posts[e] = 0
        BY DEF InSeq
    <2>1. i \in 1 .. n /\ i \in 1 .. Len(buffer)
        BY <1>1, <1>4, <1>8
    <2>2. e = accepted - Len(buffer) + i
        BY <1>4, <1>7, <2>1
    <2>3. e > accepted - Len(buffer)
        BY <1>8, <2>1, <2>2
    <2> QED BY <2>3 DEF SdkInv, PostsInv
<1>10. SdkTypeOK'
    <2>1. posts' \in [Events -> Nat]
        BY <1>5 DEF SdkInv, SdkTypeOK
    <2>2. flushEvent' \in BOOLEAN
        BY DEF WakeAndPost
    <2>4. task' \in Tasks /\ attempt' \in 0 .. MaxRetries
        BY <1>5 DEF Tasks
    <2>3. Len(batch') <= BatchMax /\ Len(buffer') <= QueueMax
        BY <1>1, <1>2, <1>4, <1>8
    <2> QED BY <1>4, <1>5, <2>1, <2>2, <2>3, <2>4 DEF SdkInv, SdkTypeOK
<1>11. FlusherInv'
    <2>1. batch' # <<>>
        BY <1>1, <1>4
    <2> QED BY <1>5, <1>6, <2>1 DEF SdkInv, FlusherInv, Busy
<1>12. Conservation'
    <2>1. Len(batch) = 0
        BY <1>6
    <2> QED BY SMTT(30), <1>4, <1>5, <1>8, <2>1 DEF SdkInv, SdkTypeOK, Conservation
<1>13. BufferIsNewest'
    <2> SUFFICES ASSUME NEW i \in 1 .. Len(buffer')
                 PROVE  buffer'[i] = accepted' - Len(buffer') + i
        BY DEF BufferIsNewest
    <2>1. i \in 1 .. Len(buffer) - n /\ i + n \in 1 .. Len(buffer)
        BY <1>4, <1>8
    <2>2. buffer'[i] = accepted - Len(buffer) + (i + n)
        BY <1>4, <1>7, <2>1
    <2> QED BY <1>4, <1>5, <1>8, <2>1, <2>2
<1>14. PostsInv'
    <2>1. ASSUME NEW e \in Events, e > accepted' - Len(buffer')
          PROVE  posts'[e] = 0
        <3>1. e > accepted - Len(buffer)
            BY <1>1, <1>4, <1>5, <1>8, <2>1 DEF Events
        <3>2. ~InSeq(e, batch')
            <4> SUFFICES ASSUME NEW i \in 1 .. Len(batch'), batch'[i] = e
                         PROVE  FALSE
                BY DEF InSeq
            <4>1. e = accepted - Len(buffer) + i /\ i <= n /\ i \in Nat
                BY <1>1, <1>4, <1>7, <1>8
            <4> QED BY <1>4, <1>5, <1>8, <2>1, <4>1
        <3> QED BY <1>5, <3>1, <3>2 DEF SdkInv, PostsInv
    <2>2. ASSUME NEW i \in 1 .. Len(batch')
          PROVE  /\ batch'[i] <= accepted' - Len(buffer')
                 /\ posts'[batch'[i]] = attempt'
        <3>1. i \in 1 .. n /\ i \in 1 .. Len(buffer)
            BY <1>1, <1>4, <1>8
        <3>2. batch'[i] = accepted - Len(buffer) + i
            BY <1>4, <1>7, <3>1
        <3>3. batch'[i] \in Events /\ InSeq(batch'[i], batch')
            BY <1>4 DEF InSeq
        <3>4. posts[batch'[i]] = 0
            BY <1>9, <3>3
        <3> QED BY <1>4, <1>5, <1>8, <3>1, <3>2, <3>3, <3>4
    <2>3. RetryBound'
        BY <1>5, <1>9 DEF SdkInv, SdkTypeOK, PostsInv, RetryBound
    <2> QED BY <2>1, <2>2, <2>3 DEF PostsInv
<1> QED BY <1>10, <1>11, <1>12, <1>13, <1>14 DEF SdkInv

\* Going round the loop, starting, closing and waiting move no event.
LEMMA ControlInv ==
    SdkInv /\ (Start \/ Close \/ CloseReturn \/ WakeEmpty \/ PostRetry) => SdkInv'
<1> SUFFICES ASSUME SdkInv, Start \/ Close \/ CloseReturn \/ WakeEmpty \/ PostRetry
             PROVE  SdkInv'
    OBVIOUS
<1>1. UNCHANGED <<buffer, batch, attempt, dropped, flushed, failedBatches,
                  accepted, lostInFailed, posts>>
    BY DEF Start, Close, CloseReturn, WakeEmpty, PostRetry
<1>2. SdkTypeOK'
    <2>1. flushEvent' \in BOOLEAN
        BY DEF Start, Close, CloseReturn, WakeEmpty, PostRetry, SdkInv, SdkTypeOK
    <2>2. closed' \in BOOLEAN
        BY DEF Start, Close, CloseReturn, WakeEmpty, PostRetry, SdkInv, SdkTypeOK
    <2>3. closing' \in BOOLEAN
        BY DEF Start, Close, CloseReturn, WakeEmpty, PostRetry, SdkInv, SdkTypeOK
    <2>4. task' \in Tasks
        BY DEF Start, Close, CloseReturn, WakeEmpty, PostRetry, SdkInv, SdkTypeOK,
           Tasks
    <2> QED BY <1>1, <2>1, <2>2, <2>3, <2>4 DEF SdkInv, SdkTypeOK
<1>3. FlusherInv'
    <2>1. CASE Start
        BY <1>1, <2>1 DEF Start, SdkInv, FlusherInv, Busy
    <2>2. CASE Close
        BY <1>1, <2>2 DEF Close, SdkInv, FlusherInv, Busy
    <2>3. CASE CloseReturn
        BY <1>1, <2>3 DEF CloseReturn, SdkInv, FlusherInv, Busy
    <2>4. CASE WakeEmpty
        BY <1>1, <2>4 DEF WakeEmpty, MayWake, SdkInv, FlusherInv, Busy
    <2>5. CASE PostRetry
        BY <1>1, <2>5 DEF PostRetry, RetriesLeft, SdkInv, FlusherInv, Busy
    <2> QED BY <2>1, <2>2, <2>3, <2>4, <2>5
<1>4. Conservation' /\ BufferIsNewest' /\ PostsInv'
    BY <1>1 DEF SdkInv, Conservation, BufferIsNewest, PostsInv, RetryBound
<1> QED BY <1>2, <1>3, <1>4 DEF SdkInv

\* The end of a batch: its events become flushed or lost, all at once.
LEMMA SendEndsInv ==
    SdkInv /\ (PostOk \/ PostRejected \/ PostGiveUp) => SdkInv'
<1> SUFFICES ASSUME SdkInv, PostOk \/ PostRejected \/ PostGiveUp
             PROVE  SdkInv'
    OBVIOUS
<1> USE SdkAssumption
<1>1. SendReturns /\ task = "posting"
    BY DEF PostOk, PostRejected, PostGiveUp, SendFails
<1>2. /\ batch' = <<>>
      /\ attempt' = 0
      /\ task' = IF MayEnd THEN "done" ELSE "waiting"
      /\ UNCHANGED <<buffer, flushEvent, closed, closing, dropped, accepted, posts>>
    BY <1>1 DEF SendReturns
<1>3. \/ flushed' = flushed + Len(batch) /\ UNCHANGED <<failedBatches, lostInFailed>>
      \/ /\ UNCHANGED flushed
         /\ failedBatches' = failedBatches + 1
         /\ lostInFailed' = lostInFailed + Len(batch)
    BY DEF PostOk, PostRejected, PostGiveUp, SendFails
<1>4. Len(batch) \in Nat
    BY DEF SdkInv, SdkTypeOK
<1>5. SdkTypeOK'
    <2>1. flushed' \in Nat /\ failedBatches' \in Nat /\ lostInFailed' \in Nat
        BY <1>3, <1>4 DEF SdkInv, SdkTypeOK
    <2>2. batch' \in Seq(Events) /\ Len(batch') <= BatchMax
        BY <1>2
    <2>3. task' \in Tasks /\ attempt' \in 0 .. MaxRetries
        BY <1>2 DEF Tasks
    <2> QED BY <1>2, <2>1, <2>2, <2>3 DEF SdkInv, SdkTypeOK
<1>6. FlusherInv'
    BY <1>1, <1>2 DEF SdkInv, FlusherInv, Busy, MayEnd
<1>7. Conservation'
    BY <1>2, <1>3, <1>4 DEF SdkInv, SdkTypeOK, Conservation
<1>8. BufferIsNewest' /\ PostsInv'
    BY <1>2 DEF SdkInv, BufferIsNewest, PostsInv, RetryBound
<1> QED BY <1>5, <1>6, <1>7, <1>8 DEF SdkInv

\* A retry POSTs every event of the batch once more, within the bound.
LEMMA BackoffOverInv == SdkInv /\ BackoffOver => SdkInv'
<1> SUFFICES ASSUME SdkInv, BackoffOver PROVE SdkInv'
    OBVIOUS
<1> USE SdkAssumption
<1>1. /\ task = "backoff"
      /\ task' = "posting"
      /\ attempt' = attempt + 1
      /\ posts' = [e \in Events |-> IF InSeq(e, batch) THEN posts[e] + 1 ELSE posts[e]]
      /\ UNCHANGED <<buffer, flushEvent, closed, closing, batch, dropped,
                     flushed, failedBatches, accepted, lostInFailed>>
    BY DEF BackoffOver, Posted
<1>2. attempt \in 1 .. MaxRetries /\ attempt < MaxRetries /\ batch # <<>>
    BY <1>1 DEF SdkInv, FlusherInv, Busy
<1>3. posts \in [Events -> Nat] /\ batch \in Seq(Events)
    BY DEF SdkInv, SdkTypeOK
<1>4. \A e \in Events : InSeq(e, batch) =>
          posts[e] = attempt /\ e <= accepted - Len(buffer)
    BY DEF InSeq, SdkInv, PostsInv
<1>5. Len(buffer) \in Nat /\ accepted \in Nat
    BY DEF SdkInv, SdkTypeOK
<1>6. SdkTypeOK'
    <2>1. posts' \in [Events -> Nat]
        BY <1>1, <1>3
    <2>2. task' \in Tasks /\ attempt' \in 0 .. MaxRetries
        BY <1>1, <1>2 DEF Tasks
    <2> QED BY <1>1, <2>1, <2>2 DEF SdkInv, SdkTypeOK
<1>7. FlusherInv'
    BY <1>1, <1>2 DEF SdkInv, FlusherInv, Busy
<1>8. Conservation' /\ BufferIsNewest'
    BY <1>1 DEF SdkInv, Conservation, BufferIsNewest
<1>9. PostsInv'
    <2>1. ASSUME NEW e \in Events, e > accepted' - Len(buffer')
          PROVE  posts'[e] = 0
        <3>1. ~InSeq(e, batch)
            BY <1>1, <1>4, <1>5, <2>1 DEF Events
        <3> QED BY <1>1, <2>1, <3>1 DEF SdkInv, PostsInv
    <2>2. ASSUME NEW i \in 1 .. Len(batch')
          PROVE  /\ batch'[i] <= accepted' - Len(buffer')
                 /\ posts'[batch'[i]] = attempt'
        <3>1. i \in 1 .. Len(batch) /\ batch[i] \in Events
            BY <1>1, <1>3
        <3>2. InSeq(batch[i], batch)
            BY <3>1 DEF InSeq
        <3> QED BY <1>1, <1>4, <3>1, <3>2
    <2>3. RetryBound'
        BY <1>1, <1>2, <1>3, <1>4 DEF SdkInv, PostsInv, RetryBound
    <2> QED BY <2>1, <2>2, <2>3 DEF PostsInv
<1> QED BY <1>6, <1>7, <1>8, <1>9 DEF SdkInv

\* The invariant is inductive.
LEMMA NextInv == SdkInv /\ [SdkNext]_sdkVars => SdkInv'
<1>1. SdkInv /\ SdkNext => SdkInv'
    BY SubmitInv, WakeAndPostInv, ControlInv, SendEndsInv, BackoffOverInv
       DEF SdkNext
<1>2. SdkInv /\ UNCHANGED sdkVars => SdkInv'
    BY DEF sdkVars, SdkInv, SdkTypeOK, FlusherInv, Busy, Conservation,
       BufferIsNewest, PostsInv, RetryBound
<1> QED BY <1>1, <1>2

\* Every reachable state satisfies the inductive invariant.
THEOREM Invariance == SdkSpec => []SdkInv
<1> QED BY InitInv, NextInv, PTL DEF SdkSpec

-----------------------------------------------------------------------------
(* The properties *)

\* The variables keep their types; the buffer never outgrows queue_max and no
\* batch is larger than batch_max.
THEOREM TypeCorrect == SdkSpec => []SdkTypeOK
<1>1. SdkInv => SdkTypeOK
    BY DEF SdkInv
<1> QED BY <1>1, Invariance, PTL

\* The counters account for every event submit() accepted.
THEOREM Conserved == SdkSpec => []Conservation
<1>1. SdkInv => Conservation
    BY DEF SdkInv
<1> QED BY <1>1, Invariance, PTL

\* The buffer holds the newest events in the order they were submitted.
THEOREM NewestKept == SdkSpec => []BufferIsNewest
<1>1. SdkInv => BufferIsNewest
    BY DEF SdkInv
<1> QED BY <1>1, Invariance, PTL

\* No event is POSTed more than max_retries times.
THEOREM RetriesBounded == SdkSpec => []RetryBound
<1>1. SdkInv => RetryBound
    BY DEF SdkInv, PostsInv
<1> QED BY <1>1, Invariance, PTL

\* A newer event is never POSTed before an older one that is still to be POSTed.
THEOREM PostedInOrder == SdkSpec => FirstPostInOrder
<1> DEFINE A == \A d, e \in Events :
                    posts[e] = 0 /\ posts'[e] > 0 /\ posts[d] > 0 => d < e
<1>1. SdkInv /\ [SdkNext]_sdkVars => [A]_sdkVars
    <2> SUFFICES ASSUME SdkInv, SdkNext,
                        NEW d \in Events, NEW e \in Events,
                        posts[e] = 0, posts'[e] > 0, posts[d] > 0
                 PROVE  d < e
        OBVIOUS
    <2>1. CASE WakeAndPost
        <3>1. InSeq(e, batch')
            BY <2>1 DEF WakeAndPost, Posted
        <3>2. PICK i \in 1 .. Len(batch') : batch'[i] = e
            BY <3>1 DEF InSeq
        <3>3. TakeCount \in 1 .. Len(buffer)
            BY <2>1, TakeCountFacts DEF WakeAndPost, SdkInv
        <3>4. buffer \in Seq(Events) /\ Len(buffer) \in Nat /\ accepted \in Nat
            BY DEF SdkInv, SdkTypeOK
        <3>5. /\ Len(batch') = TakeCount
              /\ \A j \in 1 .. TakeCount : batch'[j] = buffer[j]
            <4>1. batch' = Front(buffer, TakeCount)
                BY <2>1 DEF WakeAndPost
            <4>2. TakeCount \in 0 .. Len(buffer)
                BY <3>3, <3>4
            <4>3. /\ Len(Front(buffer, TakeCount)) = TakeCount
                  /\ \A j \in 1 .. TakeCount :
                        Front(buffer, TakeCount)[j] = buffer[j]
                BY <3>4, <4>2, FrontRest
            <4> QED BY <4>1, <4>3
        <3>6. e = accepted - Len(buffer) + i /\ i \in Nat \ {0}
            BY <3>2, <3>3, <3>4, <3>5 DEF SdkInv, BufferIsNewest
        <3>7. d <= accepted - Len(buffer)
            BY <3>4 DEF SdkInv, PostsInv, Events
        <3> QED BY <3>4, <3>6, <3>7 DEF Events
    <2>2. CASE BackoffOver
        <3>1. InSeq(e, batch)
            BY <2>2 DEF BackoffOver, Posted
        <3>2. posts[e] = attempt /\ attempt >= 1
            BY <2>2, <3>1 DEF BackoffOver, InSeq, SdkInv, PostsInv, FlusherInv, Busy
        <3> QED BY <3>2
    <2>3. CASE ~(WakeAndPost \/ BackoffOver)
        <3>1. UNCHANGED posts
            BY <2>3 DEF SdkNext, Submit, Start, Close, CloseReturn, WakeEmpty,
               PostOk, PostRejected, PostRetry, PostGiveUp, SendFails, SendReturns
        <3> QED BY <3>1
    <2> QED BY <2>1, <2>2, <2>3
<1>2. SdkSpec => [][A]_sdkVars
    BY <1>1, Invariance, PTL DEF SdkSpec
<1> QED BY <1>2 DEF FirstPostInOrder

\* close() returns only when nothing is left in the buffer or in flight.
THEOREM CloseHasDrained == SdkSpec => CloseDrains
<1> DEFINE A == closing /\ ~closing' => buffer = <<>> /\ batch = <<>>
<1>1. SdkInv /\ [SdkNext]_sdkVars => [A]_sdkVars
    <2> SUFFICES ASSUME SdkInv, SdkNext, closing, ~closing'
                 PROVE  buffer = <<>> /\ batch = <<>>
        OBVIOUS
    <2>1. CloseReturn
        BY DEF SdkNext, Submit, Start, Close, WakeAndPost, WakeEmpty, PostOk,
           PostRejected, PostRetry, PostGiveUp, SendFails, SendReturns, BackoffOver
    <2> QED BY <2>1 DEF CloseReturn, SdkInv, FlusherInv, Busy
<1>2. SdkSpec => [][A]_sdkVars
    BY <1>1, Invariance, PTL DEF SdkSpec
<1> QED BY <1>2 DEF CloseDrains

\* The transport refines DropOldestQueue: every step of it is a Put, HandOver,
\* Settle or Shut of the queue, or changes nothing of it.
THEOREM Refinement == SdkSpec => ImplementsQueue
<1>1. SdkInit => Queue!Init
    BY DEF SdkInit, Queue!Init
<1>2. SdkInv /\ [SdkNext]_sdkVars => [Queue!Next]_(Queue!queueVars)
    <2> SUFFICES ASSUME SdkInv, SdkNext
                 PROVE  Queue!Next \/ UNCHANGED Queue!queueVars
        BY DEF sdkVars, Queue!queueVars
    <2>1. CASE Submit
        BY <2>1 DEF Submit, Enqueued, Queue!Next, Queue!Put
    <2>2. CASE WakeAndPost
        <3>1. batch = <<>>
            BY <2>2 DEF WakeAndPost, MayWake, SdkInv, FlusherInv, Busy
        <3>2. Queue!HandOver
            BY <2>2, <3>1 DEF WakeAndPost, TakeCount, Front, Rest, Queue!HandOver
        <3> QED BY <3>2 DEF Queue!Next
    <2>3. CASE PostOk \/ PostRejected \/ PostGiveUp
        <3>1. batch # <<>>
            BY <2>3 DEF PostOk, PostRejected, PostGiveUp, SdkInv, FlusherInv, Busy
        <3>2. Queue!Settle
            BY <2>3, <3>1 DEF PostOk, PostRejected, PostGiveUp, SendFails,
               SendReturns, Queue!Settle
        <3> QED BY <3>2 DEF Queue!Next
    <2>4. CASE Close
        BY <2>4 DEF Close, Queue!Next, Queue!Shut, Queue!queueVars, SdkInv, SdkTypeOK
    <2>5. CASE Start \/ CloseReturn \/ WakeEmpty \/ PostRetry \/ BackoffOver
        BY <2>5 DEF Start, CloseReturn, WakeEmpty, PostRetry, BackoffOver,
           Queue!queueVars
    <2> QED BY <2>1, <2>2, <2>3, <2>4, <2>5 DEF SdkNext
<1> QED BY <1>1, <1>2, Invariance, PTL DEF SdkSpec, ImplementsQueue, Queue!Spec
=============================================================================
