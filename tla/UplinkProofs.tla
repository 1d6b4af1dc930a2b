---------------------------- MODULE UplinkProofs ----------------------------
(***************************************************************************)
(* The safety of Uplink, for any capacity, batches, faults and restarts.   *)
(*                                                                         *)
(* The inductive invariant UplinkInv rests on the order of the events: an  *)
(* event moves from pending to the batch in hand, to a file, and out; what *)
(* is further on is older, so that no event is in two places.  What the    *)
(* drain holds is the content of a file that may be gone; what it has not  *)
(* yet sent has not been taken by the service, unless that is "unsettled". *)
(***************************************************************************)
EXTENDS Uplink, FiniteSetTheorems, SequenceTheorems, WellFoundedInduction, TLAPS

FlusherType ==
    [at : {"idle", "posting", "failed", "ended"}, batch : Seq(Events), final : BOOLEAN]

\* What the drain can be doing when there were n files.
DrainType(n) ==
    [at : {"idle", "walking", "posting", "posted"},
     todo : SUBSET (1 .. n), file : 0 .. n, body : Seq(Events), skipped : SUBSET (1 .. n)]

UplinkTypeOK ==
    /\ pending \in Seq(Events)
    /\ flusher \in FlusherType
    /\ persisted \in Nat
    /\ DOMAIN files \subseteq 1 .. persisted
    /\ files \in [DOMAIN files -> Seq(Events)]
    /\ drain \in DrainType(persisted)
    /\ enqueued \in 0 .. MaxEvents
    /\ received \in [Events -> 0 .. 2]
    /\ refused \subseteq Events /\ forgotten \subseteq Events
    /\ perished \subseteq Events /\ unsettled \subseteq Events
    /\ stuck \subseteq 1 .. persisted
    /\ flusher.at \in {"idle", "ended"} => flusher.batch = <<>>
    /\ drain.at \in {"idle", "walking"} => drain.body = <<>>

\* What is further on is older.
OrderInv ==
    /\ Elems(pending) \cup Elems(flusher.batch) \subseteq 1 .. enqueued
    /\ \A e \in Elems(flusher.batch), d \in Elems(pending) : e < d
    /\ \A f \in DOMAIN files : \A e \in Elems(files[f]) :
          /\ e <= enqueued
          /\ \A d \in Elems(pending) \cup Elems(flusher.batch) : e < d
    /\ \A f, g \in DOMAIN files : f < g =>
          \A e \in Elems(files[f]), d \in Elems(files[g]) : e < d
    /\ \A e \in Elems(drain.body) :
          /\ e <= enqueued
          /\ \A d \in Elems(pending) \cup Elems(flusher.batch) : e < d
          /\ \A f \in DOMAIN files : f # drain.file => e \notin Elems(files[f])

\* What was given up is older than what is kept.
GivenUpInv ==
    /\ \A e \in forgotten :
          /\ e <= enqueued
          /\ \A d \in Elems(pending) \cup Elems(flusher.batch) : e < d
    /\ OldestGivenUp

Answered(e) == received[e] > 0 \/ e \in refused

\* The walk of the drain through the directory.
WalkInv ==
    /\ drain.at \in {"posting", "posted"} =>
          /\ drain.file \in drain.todo
          /\ \A g \in drain.todo : drain.file <= g
          /\ drain.file \in DOMAIN files => files[drain.file] = drain.body
    /\ drain.at = "posted" => \A e \in Elems(drain.body) : Answered(e)
    /\ drain.at # "idle" =>
          \A f \in DOMAIN files \ drain.todo :
             \/ \A e \in Elems(files[f]) : Answered(e)
             \/ f \in drain.skipped
             \/ \A g \in drain.todo : g < f

\* The service has not taken e, as far as the agent can know.
Unsent(e) == received[e] = 0 \/ e \in unsettled

\* What the agent is going to send, it does not know to be taken.
SendInv ==
    /\ \A e \in Elems(pending) \cup Elems(flusher.batch) : Unsent(e)
    /\ \A e \in Events : e > enqueued => received[e] = 0
    /\ drain.at # "posted" => \A e \in Elems(drain.body) : Unsent(e)
    /\ \A f \in DOMAIN files :
          (drain.at # "posted" \/ f # drain.file) =>
             \A e \in Elems(files[f]) : Unsent(e)
    /\ RepeatsAreUnsettled

\* The part of DiskBounded that is about the queue's own files.
CapKept ==
    LET counted == DOMAIN files \ stuck IN
    Cardinality(counted) > 1 => SizeOf(counted) <= Capacity

UplinkInv ==
    /\ UplinkTypeOK
    /\ OrderInv
    /\ GivenUpInv
    /\ WalkInv
    /\ SendInv
    /\ EventsAccounted
    /\ CapKept

-----------------------------------------------------------------------------
(* Batches *)

USE DEF FlusherType, DrainType

LEMMA ElemsOfAppend ==
    ASSUME NEW S, NEW s \in Seq(S), NEW e
    PROVE  Elems(Append(s, e)) = Elems(s) \cup {e}
<1>1. Len(Append(s, e)) = Len(s) + 1 /\ Len(s) \in Nat
    BY AppendProperties
<1>2. \A i \in 1 .. Len(s) : Append(s, e)[i] = s[i]
    BY AppendProperties
<1>3. Append(s, e)[Len(s) + 1] = e
    BY AppendProperties
<1> QED BY <1>1, <1>2, <1>3 DEF Elems

LEMMA ElemsOfEmpty == Elems(<<>>) = {}
    BY DEF Elems

LEMMA ElemsType ==
    ASSUME NEW S, NEW s \in Seq(S)
    PROVE  Elems(s) \subseteq S
    BY DEF Elems

LEMMA Ranges ==
    ASSUME UplinkTypeOK
    PROVE  /\ Events \subseteq Nat /\ DOMAIN files \subseteq Nat
           /\ enqueued \in Nat /\ persisted \in Nat
           /\ Elems(pending) \subseteq Events /\ Elems(flusher.batch) \subseteq Events
           /\ Elems(drain.body) \subseteq Events /\ forgotten \subseteq Events
           /\ \A f \in DOMAIN files : Elems(files[f]) \subseteq Events
<1>1. MaxEvents \in Nat
    BY UplinkAssumption
<1>2. \A f \in DOMAIN files : files[f] \in Seq(Events)
    BY DEF UplinkTypeOK
<1> QED BY SMTT(30), <1>1, <1>2, ElemsType DEF UplinkTypeOK, Events

\* Counting an envelope: more than before for its events, no less for others.
LEMMA ReceivedFacts ==
    ASSUME UplinkInv, NEW s \in Seq(Events), Received(s)
    PROVE  /\ received' \in [Events -> 0 .. 2]
           /\ \A e \in Events : received'[e] >= received[e]
           /\ \A e \in Elems(s) : received'[e] > 0
           /\ \A e \in Events : e \notin Elems(s) => received'[e] = received[e]
           /\ \A e \in Elems(s) : received[e] = 0 => received'[e] = 1
<1>1. Elems(s) \subseteq Events /\ received \in [Events -> 0 .. 2]
    BY ElemsType DEF UplinkInv, UplinkTypeOK
<1>2. \A e \in Events : received'[e] = IF e \in Elems(s) /\ received[e] < 2
                                    THEN received[e] + 1 ELSE received[e]
    BY DEF Received
<1>3. \A e \in Events : received[e] \in 0 .. 2
    BY <1>1
<1>4. received' \in [Events -> 0 .. 2]
    BY <1>2, <1>3 DEF Received
<1> QED BY <1>1, <1>2, <1>3, <1>4

-----------------------------------------------------------------------------
(* The flusher *)

LEMMA EnqueueInv == UplinkInv /\ Enqueue => UplinkInv'
<1> SUFFICES ASSUME UplinkInv, Enqueue PROVE UplinkInv'
    OBVIOUS
<1>1. Elems(pending') = Elems(pending) \cup {enqueued + 1}
    BY ElemsOfAppend DEF Enqueue, UplinkInv, UplinkTypeOK
<1>2. enqueued' = enqueued + 1 /\ enqueued + 1 \in Events /\ enqueued \in Nat
    BY UplinkAssumption DEF Enqueue, UplinkInv, UplinkTypeOK, Events
<1>3. UplinkTypeOK'
    BY <1>2, UplinkAssumption DEF Enqueue, UplinkInv, UplinkTypeOK
<1>4. OrderInv'
    BY <1>1, <1>2, Ranges DEF Enqueue, UplinkInv, OrderInv
<1>5. GivenUpInv'
    <2>1. OldestGivenUp'
        BY DEF Enqueue, UplinkInv, GivenUpInv, OldestGivenUp, EventsIn
    <2> QED BY <1>1, <1>2, <2>1, Ranges DEF Enqueue, UplinkInv, GivenUpInv
<1>6. WalkInv'
    BY DEF Enqueue, UplinkInv, WalkInv, Answered
<1>7. SendInv'
    BY <1>1, <1>2, Ranges DEF Enqueue, UplinkInv, SendInv, Unsent, RepeatsAreUnsettled
<1>8. EventsAccounted'
    BY <1>1, <1>2 DEF Enqueue, UplinkInv, EventsAccounted, EventsIn
<1>9. CapKept'
    BY DEF Enqueue, UplinkInv, CapKept, SizeOf, EventsIn
<1> QED BY <1>3, <1>4, <1>5, <1>6, <1>7, <1>8, <1>9 DEF UplinkInv

LEMMA FlushBeginsInv ==
    ASSUME UplinkInv, NEW final \in BOOLEAN, FlushBegins(final)
    PROVE  UplinkInv'
<1>1. /\ Elems(pending') = {} /\ Elems(flusher'.batch) = Elems(pending)
      /\ Elems(flusher.batch) = {}
    BY ElemsOfEmpty DEF FlushBegins, UplinkInv, UplinkTypeOK
<1>2. UNCHANGED <<files, drain, historyVars>>
    BY DEF FlushBegins
<1>3. UplinkTypeOK'
    BY DEF FlushBegins, UplinkInv, UplinkTypeOK, historyVars, NothingPending
<1>4. OrderInv'
    BY <1>1, <1>2 DEF UplinkInv, OrderInv, historyVars
<1>5. GivenUpInv'
    BY <1>1, <1>2 DEF UplinkInv, GivenUpInv, OldestGivenUp, EventsIn, historyVars
<1>6. WalkInv'
    BY <1>2 DEF UplinkInv, WalkInv, Answered, historyVars
<1>7. SendInv'
    BY <1>1, <1>2 DEF UplinkInv, SendInv, Unsent, RepeatsAreUnsettled, historyVars
<1>8. EventsAccounted'
    BY <1>1, <1>2 DEF UplinkInv, EventsAccounted, EventsIn, historyVars
<1>9. CapKept'
    BY <1>2 DEF UplinkInv, CapKept, SizeOf, EventsIn, historyVars
<1> QED BY <1>3, <1>4, <1>5, <1>6, <1>7, <1>8, <1>9 DEF UplinkInv

LEMMA FlushReturnsFacts ==
    ASSUME UplinkTypeOK, FlushReturns
    PROVE  /\ flusher' \in FlusherType
           /\ flusher'.at \in {"idle", "ended"} /\ flusher'.batch = <<>>
           /\ Elems(flusher'.batch) = {}
<1>1. PICK at \in {"idle", "ended"} :
          flusher' = [at |-> at, batch |-> <<>>, final |-> FALSE]
    BY DEF FlushReturns, FlusherIdle
<1>2. <<>> \in Seq(Events)
    OBVIOUS
<1> QED BY <1>1, <1>2, ElemsOfEmpty

\* An envelope is counted, the rest of the world stays as it is.
LEMMA AnsweredGrows ==
    ASSUME UplinkInv, NEW s \in Seq(Events), Received(s), refused' = refused
    PROVE  \A e \in Events : Answered(e) => Answered(e)'
<1>1. \A e \in Events : received[e] \in 0 .. 2 /\ received'[e] \in 0 .. 2
    BY ReceivedFacts DEF UplinkInv, UplinkTypeOK
<1> QED BY <1>1, ReceivedFacts DEF Answered

LEMMA DeliveredInv == UplinkInv /\ Delivered => UplinkInv'
<1> SUFFICES ASSUME UplinkInv, Delivered PROVE UplinkInv'
    OBVIOUS
<1> DEFINE s == flusher.batch
<1>1. /\ UNCHANGED <<pending, files, drain, enqueued, persisted, refused, forgotten,
                     perished, unsettled, stuck>>
      /\ s \in Seq(Events) /\ Received(s) /\ FlushReturns
    BY DEF Delivered, UplinkInv, UplinkTypeOK
<1> HIDE DEF Delivered
<1>2. Elems(flusher'.batch) = {} /\ flusher'.batch = <<>>
    BY <1>1, FlushReturnsFacts DEF UplinkInv
<1>3. UplinkTypeOK'
    BY <1>1, FlushReturnsFacts, ReceivedFacts DEF UplinkInv, UplinkTypeOK
<1>4. OrderInv'
    BY <1>1, <1>2 DEF UplinkInv, OrderInv
<1>5. GivenUpInv'
    BY <1>1, <1>2 DEF UplinkInv, GivenUpInv, OldestGivenUp, EventsIn
<1>6. WalkInv'
    BY <1>1, AnsweredGrows, Ranges DEF UplinkInv, WalkInv
<1>7. SendInv'
    <2>1. /\ \A e \in Elems(pending) : e \notin Elems(s)
          /\ \A f \in DOMAIN files : \A e \in Elems(files[f]) : e \notin Elems(s)
          /\ \A e \in Elems(drain.body) : e \notin Elems(s)
          /\ \A e \in Events : e > enqueued => e \notin Elems(s)
        BY Ranges DEF UplinkInv, OrderInv
    <2>2. \A e \in Events : e \notin Elems(s) => received'[e] = received[e]
        BY <1>1, ReceivedFacts
    <2>3. \A e \in Elems(s) : Unsent(e) /\ e \in Events
        BY Ranges DEF UplinkInv, SendInv
    <2>4. RepeatsAreUnsettled'
        <3> SUFFICES ASSUME NEW e \in Events, received'[e] > 1 PROVE e \in unsettled
            BY <1>1 DEF RepeatsAreUnsettled
        <3>1. CASE e \in Elems(s)
            BY <1>1, <2>3, <3>1, ReceivedFacts DEF Unsent
        <3>2. CASE e \notin Elems(s)
            BY <2>2, <3>2 DEF UplinkInv, SendInv, RepeatsAreUnsettled
        <3> QED BY <3>1, <3>2
    <2> QED BY <1>1, <1>2, <2>1, <2>2, <2>4, Ranges DEF UplinkInv, SendInv, Unsent
<1>8. EventsAccounted'
    <2>1. \A e \in 1 .. enqueued : e \in Events
        BY UplinkAssumption DEF UplinkInv, UplinkTypeOK, Events
    <2>2. \A e \in Events : received[e] > 0 => received'[e] > 0
        BY <1>1, ReceivedFacts DEF UplinkInv, UplinkTypeOK
    <2>3. \A e \in Elems(s) : received'[e] > 0
        BY <1>1, ReceivedFacts
    <2> QED BY <1>1, <2>1, <2>2, <2>3 DEF UplinkInv, EventsAccounted, EventsIn
<1>9. CapKept'
    BY <1>1 DEF UplinkInv, CapKept, SizeOf, EventsIn
<1> QED BY <1>3, <1>4, <1>5, <1>6, <1>7, <1>8, <1>9 DEF UplinkInv

LEMMA RefusedInv == UplinkInv /\ Refused => UplinkInv'
<1> SUFFICES ASSUME UplinkInv, Refused PROVE UplinkInv'
    OBVIOUS
<1>1. /\ UNCHANGED <<pending, files, drain, enqueued, persisted, received, forgotten,
                     perished, unsettled, stuck>>
      /\ refused' = refused \cup Elems(flusher.batch) /\ FlushReturns
    BY DEF Refused
<1>2. Elems(flusher'.batch) = {} /\ flusher'.batch = <<>>
    BY <1>1, FlushReturnsFacts DEF UplinkInv
<1>3. UplinkTypeOK'
    BY <1>1, FlushReturnsFacts, Ranges DEF UplinkInv, UplinkTypeOK
<1>4. OrderInv'
    BY <1>1, <1>2 DEF UplinkInv, OrderInv
<1>5. GivenUpInv'
    BY <1>1, <1>2 DEF UplinkInv, GivenUpInv, OldestGivenUp, EventsIn
<1>6. WalkInv'
    BY <1>1 DEF UplinkInv, WalkInv, Answered
<1>7. SendInv'
    BY <1>1, <1>2 DEF UplinkInv, SendInv, Unsent, RepeatsAreUnsettled
<1>8. EventsAccounted'
    BY <1>1 DEF UplinkInv, EventsAccounted, EventsIn
<1>9. CapKept'
    BY <1>1 DEF UplinkInv, CapKept, SizeOf, EventsIn
<1> QED BY <1>3, <1>4, <1>5, <1>6, <1>7, <1>8, <1>9 DEF UplinkInv

\* The batch in hand may have been taken all the same.
LEMMA DeliverFailsInv == UplinkInv /\ DeliverFails => UplinkInv'
<1> SUFFICES ASSUME UplinkInv, DeliverFails PROVE UplinkInv'
    OBVIOUS
<1> DEFINE s == flusher.batch
<1>1. /\ UNCHANGED <<pending, files, drain, enqueued, persisted, refused, forgotten,
                     perished, stuck>>
      /\ s \in Seq(Events) /\ flusher' = [flusher EXCEPT !.at = "failed"]
      /\ flusher'.batch = s /\ flusher'.at = "failed"
      /\ \/ UNCHANGED <<received, unsettled>>
         \/ Received(s) /\ unsettled' = unsettled \cup Elems(s)
    BY DEF DeliverFails, UplinkInv, UplinkTypeOK
<1> HIDE DEF DeliverFails
<1>2. /\ \A e \in Events : received'[e] \in 0 .. 2 /\ received'[e] >= received[e]
      /\ \A e \in Events : Unsent(e) => Unsent(e)'
      /\ \A e \in Events : Answered(e) => Answered(e)'
      /\ \A e \in Events : received'[e] # received[e] => e \in Elems(s)
      /\ received' \in [Events -> 0 .. 2]
    <2>1. \A e \in Events : received[e] \in 0 .. 2
        BY DEF UplinkInv, UplinkTypeOK
    <2>2. CASE UNCHANGED <<received, unsettled>>
        BY <1>1, <2>1, <2>2 DEF Unsent, Answered, UplinkInv, UplinkTypeOK
    <2>3. CASE Received(s) /\ unsettled' = unsettled \cup Elems(s)
        <3>1. \A e \in Events : received'[e] \in 0 .. 2
            BY <1>1, <2>3, ReceivedFacts
        <3> QED BY <1>1, <2>1, <2>3, <3>1, ReceivedFacts, AnsweredGrows DEF Unsent
    <2> QED BY <1>1, <2>2, <2>3
<1>3. UplinkTypeOK'
    <2>1. unsettled' \subseteq Events
        BY <1>1, Ranges DEF UplinkInv, UplinkTypeOK
    <2> QED BY <1>1, <1>2, <2>1 DEF UplinkInv, UplinkTypeOK
<1>4. OrderInv'
    BY <1>1 DEF UplinkInv, OrderInv
<1>5. GivenUpInv'
    BY <1>1 DEF UplinkInv, GivenUpInv, OldestGivenUp, EventsIn
<1>6. WalkInv'
    BY <1>1, <1>2, Ranges DEF UplinkInv, WalkInv
<1>7. SendInv'
    <2>1. RepeatsAreUnsettled'
        <3> SUFFICES ASSUME NEW e \in Events, received'[e] > 1 PROVE e \in unsettled'
            BY DEF RepeatsAreUnsettled
        <3>1. CASE UNCHANGED <<received, unsettled>>
            BY <3>1 DEF UplinkInv, SendInv, RepeatsAreUnsettled
        <3>2. CASE Received(s) /\ unsettled' = unsettled \cup Elems(s)
            BY <1>2, <3>2 DEF UplinkInv, SendInv, RepeatsAreUnsettled
        <3> QED BY <1>1, <3>1, <3>2
    <2>2. \A e \in Events : e > enqueued => received'[e] = 0
        BY <1>2, Ranges DEF UplinkInv, SendInv, OrderInv
    <2> QED BY <1>1, <1>2, <2>1, <2>2, Ranges DEF UplinkInv, SendInv
<1>8. EventsAccounted'
    <2>1. \A e \in 1 .. enqueued : e \in Events /\ received[e] \in 0 .. 2
        BY UplinkAssumption DEF UplinkInv, UplinkTypeOK, Events
    <2> QED BY <1>1, <1>2, <2>1 DEF UplinkInv, EventsAccounted, EventsIn
<1>9. CapKept'
    BY <1>1 DEF UplinkInv, CapKept, SizeOf, EventsIn
<1> QED BY <1>3, <1>4, <1>5, <1>6, <1>7, <1>8, <1>9 DEF UplinkInv

-----------------------------------------------------------------------------
(* The directory *)

LEMMA LeastOne ==
    ASSUME NEW S, S \subseteq Nat, S # {}
    PROVE  \E f \in S : \A g \in S : f <= g
<1> DEFINE UpTo(f) == {g \in S : g <= f}
           T == {UpTo(f) : f \in S}
<1>1. \A f \in S : UpTo(f) \in FiniteSubsetsOf(Nat)
    <2> TAKE f \in S
    <2>1. f \in Nat /\ UpTo(f) \subseteq Nat
        OBVIOUS
    <2>2. UpTo(f) \in SUBSET (0 .. f)
        BY <2>1
    <2>3. IsFiniteSet(UpTo(f))
        <3>1. 0 \in Int /\ f \in Int
            BY <2>1
        <3>2. IsFiniteSet(0 .. f)
            BY <3>1, FS_Interval
        <3> HIDE DEF UpTo
        <3> QED BY <2>2, <3>2, FS_Subset
    <2> QED BY <2>1, <2>3 DEF FiniteSubsetsOf
<1>2. T \subseteq FiniteSubsetsOf(Nat) /\ T # {}
    BY <1>1
<1>3. PICK x \in T : \A y \in T : ~(<<y, x>> \in StrictSubsetOrdering(Nat))
    <2> HIDE DEF T
    <2> QED BY <1>2, WFMin, FS_StrictSubsetOrderingWellFounded
<1>4. PICK f \in S : x = UpTo(f)
    OBVIOUS
<1>5. ASSUME NEW g \in S, ~(f <= g) PROVE FALSE
    <2>1. UpTo(g) \subseteq UpTo(f) /\ f \in UpTo(f) /\ f \notin UpTo(g)
        <3>1. f \in Nat /\ g \in Nat /\ \A h \in S : h \in Nat
            OBVIOUS
        <3>2. g < f /\ ~(f <= g)
            BY <1>5, <3>1
        <3>3. \A h \in S : h <= g => h <= f
            BY <3>1, <3>2
        <3>4. f \in UpTo(f) /\ f \notin UpTo(g)
            BY <3>1, <3>2
        <3> QED BY <3>3, <3>4
    <2>2. \A h \in S : UpTo(h) \subseteq Nat
        OBVIOUS
    <2>4. UpTo(g) \in T
        <3> HIDE DEF UpTo
        <3> QED OBVIOUS
    <2>3. <<UpTo(g), UpTo(f)>> \in StrictSubsetOrdering(Nat)
        BY <2>1, <2>2 DEF StrictSubsetOrdering
    <2> QED BY <1>3, <1>4, <2>3, <2>4
<1>6. \A g \in S : f <= g
    BY <1>5
<1> QED BY <1>6

LEMMA CountedEvents ==
    ASSUME UplinkTypeOK, NEW s \in Seq(Events)
    PROVE  /\ IsFiniteSet(Elems(s))
           /\ Cardinality(Elems(s)) \in Nat
           /\ Cardinality(Elems(s)) <= Len(s)
<1> DEFINE I == 1 .. Len(s)
<1>1. Len(s) \in Nat /\ IsFiniteSet(I) /\ Cardinality(I) = Len(s)
    <2>1. Len(s) \in Nat /\ Len(s) \in Int /\ 1 \in Int
        OBVIOUS
    <2> QED BY SMTT(30), <2>1, FS_Interval
<1>2. s \in [I -> Elems(s)] /\ \A e \in Elems(s) : \E i \in I : s[i] = e
    BY DEF Elems
<1>3. s \in Surjection(I, Elems(s))
    BY <1>2 DEF Surjection
<1> HIDE DEF I
<1>4. IsFiniteSet(Elems(s)) /\ Cardinality(Elems(s)) <= Cardinality(I)
    BY <1>1, <1>3, FS_Surjection
<1> QED BY <1>1, <1>4, FS_CardinalityType

LEMMA FiniteDirectory ==
    ASSUME UplinkTypeOK
    PROVE  /\ IsFiniteSet(DOMAIN files)
           /\ \A S \in SUBSET DOMAIN files :
                 /\ IsFiniteSet(EventsIn(S)) /\ SizeOf(S) \in Nat
                 /\ EventsIn(S) \subseteq Events
<1>1. IsFiniteSet(1 .. persisted) /\ IsFiniteSet(Events)
    <2>1. 1 \in Int /\ persisted \in Int /\ MaxEvents \in Int
        BY UplinkAssumption DEF UplinkTypeOK
    <2> QED BY <2>1, FS_Interval DEF Events
<1>2. IsFiniteSet(DOMAIN files)
    BY <1>1, FS_Subset DEF UplinkTypeOK
<1>3. ASSUME NEW S \in SUBSET DOMAIN files
      PROVE  /\ IsFiniteSet(EventsIn(S)) /\ SizeOf(S) \in Nat
             /\ EventsIn(S) \subseteq Events
    <2>1. EventsIn(S) \subseteq Events
        BY Ranges DEF EventsIn
    <2>2. IsFiniteSet(EventsIn(S))
        BY <1>1, <2>1, FS_Subset
    <2> QED BY <2>1, <2>2, FS_CardinalityType DEF SizeOf
<1> QED BY <1>2, <1>3

\* With files gone, or no longer counted, the directory is no fuller.
LEMMA FewerFiles ==
    ASSUME UplinkTypeOK, CapKept,
           DOMAIN files' \subseteq DOMAIN files,
           \A f \in DOMAIN files' : files'[f] = files[f],
           stuck \subseteq stuck'
    PROVE  CapKept'
<1> DEFINE C == DOMAIN files \ stuck
           D == C'
<1>1. D \subseteq C /\ C \in SUBSET DOMAIN files
    OBVIOUS
<1>2. EventsIn(C)' \subseteq EventsIn(C)
    BY <1>1 DEF EventsIn
<1>3. IsFiniteSet(C) /\ IsFiniteSet(EventsIn(C)) /\ SizeOf(C) \in Nat
    BY <1>1, FiniteDirectory, FS_Subset
<1> SUFFICES ASSUME Cardinality(D) > 1 PROVE SizeOf(C)' <= Capacity
    BY DEF CapKept
<1>4. IsFiniteSet(D) /\ Cardinality(D) <= Cardinality(C)
    BY <1>1, <1>3, FS_Subset
<1>5. Cardinality(D) \in Nat /\ Cardinality(C) \in Nat
    BY <1>3, <1>4, FS_CardinalityType
<1>6. SizeOf(C) <= Capacity
    <2>1. Cardinality(C) > 1
        BY <1>4, <1>5
    <2> QED BY <2>1 DEF CapKept
<1>7. IsFiniteSet(EventsIn(C)') /\ Cardinality(EventsIn(C)') <= Cardinality(EventsIn(C))
    BY <1>2, <1>3, FS_Subset
<1>8. Cardinality(EventsIn(C)') \in Nat /\ Cardinality(EventsIn(C)) \in Nat
    BY <1>3, <1>7, FS_CardinalityType
<1>9. SizeOf(C)' = Cardinality(EventsIn(C)') /\ SizeOf(C) = Cardinality(EventsIn(C))
    BY DEF SizeOf
<1> QED BY <1>6, <1>7, <1>8, <1>9, UplinkAssumption

\* When the oldest files made room, or are counted no longer, one more fits.
LEMMA RoomMade ==
    ASSUME UplinkTypeOK, NEW batch \in Seq(Events), NEW p \in Nat,
           DOMAIN files' \ stuck' \subseteq (DOMAIN files \ Victims(Len(batch))) \cup {p},
           p \in DOMAIN files', files'[p] = batch, p \notin DOMAIN files,
           \A f \in DOMAIN files' : f # p => f \in DOMAIN files /\ files'[f] = files[f]
    PROVE  CapKept'
<1> DEFINE C == DOMAIN files \ stuck
           D == C'
           n == Len(batch)
           Kept == DOMAIN files \ Victims(n)
<1> SUFFICES ASSUME Cardinality(D) > 1 PROVE SizeOf(C)' <= Capacity
    BY DEF CapKept
<1>1. Kept # {}
    <2> SUFFICES ASSUME Kept = {} PROVE FALSE
        OBVIOUS
    <2>1. D \subseteq {p} /\ IsFiniteSet({p}) /\ Cardinality({p}) = 1
        BY FS_Singleton
    <2>2. IsFiniteSet(D) /\ Cardinality(D) <= 1
        BY <2>1, FS_Subset
    <2> QED BY <2>2, FS_CardinalityType
<1>2. PICK f \in Kept : \A g \in Kept : f <= g
    <2>1. Kept \subseteq Nat
        BY Ranges
    <2> HIDE DEF Kept
    <2> QED BY <1>1, <2>1, LeastOne
<1> DEFINE K == {g \in DOMAIN files : g >= f}
<1>3. Kept \subseteq K /\ K \in SUBSET DOMAIN files
    <2>1. DOMAIN files \subseteq Nat
        BY Ranges
    <2> QED BY <1>2, <2>1
<1>4. IsFiniteSet(EventsIn(K)) /\ SizeOf(K) \in Nat
    BY <1>3, FiniteDirectory
<1>5. SizeOf(K) + n <= Capacity
    <2>1. ~(SizeOf(K) + n > Capacity)
        BY <1>2 DEF Victims
    <2>2. n \in Nat
        OBVIOUS
    <2> HIDE DEF K, n
    <2> QED BY <1>4, <2>1, <2>2, UplinkAssumption
<1>6. EventsIn(C)' \subseteq EventsIn(K) \cup Elems(batch)
    <2>1. \A g \in D : g = p \/ (g \in K /\ files'[g] = files[g])
        BY <1>3
    <2> HIDE DEF K, D
    <2>2. \A g \in D : Elems(files'[g]) \subseteq EventsIn(K) \cup Elems(batch)
        BY <2>1 DEF EventsIn
    <2> QED BY <2>2 DEF EventsIn, D
<1> HIDE DEF K, Kept, n
<1>7. /\ IsFiniteSet(Elems(batch)) /\ Cardinality(Elems(batch)) \in Nat
      /\ Cardinality(Elems(batch)) <= n /\ n \in Nat
    BY CountedEvents DEF n
<1> DEFINE U == EventsIn(K) \cup Elems(batch)
<1>8. /\ IsFiniteSet(U)
      /\ Cardinality(U) = Cardinality(EventsIn(K)) + Cardinality(Elems(batch))
                            - Cardinality(EventsIn(K) \cap Elems(batch))
    BY <1>4, <1>7, FS_Union
<1>9. Cardinality(EventsIn(K) \cap Elems(batch)) \in Nat
    BY <1>4, FS_Intersection, FS_CardinalityType
<1>10. Cardinality(U) <= SizeOf(K) + n
    BY <1>4, <1>7, <1>8, <1>9 DEF SizeOf
<1>11. Cardinality(EventsIn(C)') <= Cardinality(U) /\ IsFiniteSet(EventsIn(C)')
    <2> HIDE DEF U
    <2> QED BY <1>6, <1>8, FS_Subset DEF U
<1>12. Cardinality(EventsIn(C)') \in Nat /\ Cardinality(U) \in Nat
    BY <1>8, <1>11, FS_CardinalityType
<1>13. SizeOf(C)' = Cardinality(EventsIn(C)')
    BY DEF SizeOf
<1> HIDE DEF U, D, C
<1> QED BY <1>4, <1>5, <1>7, <1>10, <1>11, <1>12, <1>13, UplinkAssumption

\* The victims are the oldest files.
LEMMA OldestAreVictims ==
    ASSUME UplinkTypeOK, NEW n \in Nat, NEW f \in Victims(n),
           NEW g \in DOMAIN files \ Victims(n)
    PROVE  f < g
<1> DEFINE F == {h \in DOMAIN files : h >= f}
           G == {h \in DOMAIN files : h >= g}
<1>1. DOMAIN files \subseteq Nat /\ f \in DOMAIN files
    BY Ranges DEF Victims
<1>2. SizeOf(F) + n > Capacity /\ ~(SizeOf(G) + n > Capacity)
    BY DEF Victims
<1>3. F \in SUBSET DOMAIN files /\ G \in SUBSET DOMAIN files
    OBVIOUS
<1> SUFFICES ASSUME g <= f PROVE FALSE
    BY <1>1
<1>4. EventsIn(F) \subseteq EventsIn(G)
    <2>1. F \subseteq G
        BY <1>1
    <2> HIDE DEF F, G
    <2> QED BY <2>1 DEF EventsIn
<1> HIDE DEF F, G
<1>5. IsFiniteSet(EventsIn(G)) /\ SizeOf(F) \in Nat /\ SizeOf(G) \in Nat
    BY <1>3, FiniteDirectory
<1>6. SizeOf(F) <= SizeOf(G)
    BY <1>4, <1>5, FS_Subset DEF SizeOf
<1> QED BY <1>2, <1>5, <1>6, UplinkAssumption

\* When the oldest files are due and those of R go, what is given up is older
\* than what is kept.
LEMMA OldestGo ==
    ASSUME UplinkInv, NEW due, NEW R, R \subseteq due, due \subseteq DOMAIN files,
           \A f \in due, g \in DOMAIN files \ due : f < g,
           GiveUp(due, R)
    PROVE  /\ forgotten' \subseteq Events /\ stuck' \subseteq 1 .. persisted
           /\ \A d \in forgotten' :
                 /\ d <= enqueued
                 /\ \A e \in Elems(pending) \cup Elems(flusher.batch) : d < e
                 /\ \A f \in DOMAIN files \ (R \cup stuck') :
                       \A e \in Elems(files[f]) : d < e
           /\ \A f \in R : \A e \in Elems(files[f]) : e \in forgotten'
<1>1. /\ forgotten' = forgotten \cup EventsIn(R) /\ stuck' = stuck \cup (due \ R)
      /\ DOMAIN files \subseteq 1 .. persisted /\ R \in SUBSET DOMAIN files
    BY DEF GiveUp, UplinkInv, UplinkTypeOK
<1>2. EventsIn(R) \subseteq Events
    BY <1>1, FiniteDirectory DEF UplinkInv
<1>3. \A d \in EventsIn(R) : \E r \in R : d \in Elems(files[r])
    BY DEF EventsIn
<1>4. ASSUME NEW d \in forgotten'
      PROVE  /\ d <= enqueued
             /\ \A e \in Elems(pending) \cup Elems(flusher.batch) : d < e
             /\ \A f \in DOMAIN files \ (R \cup stuck') :
                   \A e \in Elems(files[f]) : d < e
    <2>1. CASE d \in forgotten
        BY <1>1, <2>1 DEF UplinkInv, GivenUpInv, OldestGivenUp, EventsIn
    <2>2. CASE d \in EventsIn(R)
        <3>1. PICK r \in R : d \in Elems(files[r])
            BY <1>3, <2>2
        <3>2. r \in DOMAIN files /\ r \in due
            BY <1>1
        <3>3. \A f \in DOMAIN files \ (R \cup stuck') : r < f
            BY <1>1, <3>2
        <3> QED BY <3>1, <3>2, <3>3 DEF UplinkInv, OrderInv
    <2> QED BY <1>1, <2>1, <2>2
<1>5. \A f \in R : \A e \in Elems(files[f]) : e \in forgotten'
    BY <1>1 DEF EventsIn
<1>6. forgotten' \subseteq Events /\ stuck' \subseteq 1 .. persisted
    BY <1>1, <1>2 DEF UplinkInv, UplinkTypeOK
<1> QED BY <1>4, <1>5, <1>6

LEMMA PersistInv == UplinkInv /\ Persist => UplinkInv'
<1> SUFFICES ASSUME UplinkInv, Persist PROVE UplinkInv'
    OBVIOUS
<1> DEFINE batch == flusher.batch
           due == Victims(Len(batch))
           p == persisted + 1
<1>1. PICK R \in Removable(due) :
          files' = WithFile(Remaining(R), p, batch) /\ GiveUp(due, R)
    BY DEF Persist
<1>2. /\ UNCHANGED <<pending, drain, enqueued, received, refused, perished, unsettled>>
      /\ persisted' = p /\ FlushReturns
    BY DEF Persist
<1>3. Elems(flusher'.batch) = {} /\ flusher'.batch = <<>>
    BY <1>2, FlushReturnsFacts DEF UplinkInv
<1>4. batch \in Seq(Events) /\ Len(batch) \in Nat /\ p \in Nat \ {0} /\ p \notin DOMAIN files
    BY Ranges DEF UplinkInv, UplinkTypeOK
<1>5. R \subseteq due /\ due \subseteq DOMAIN files
    BY DEF Removable, Victims
<1>6. /\ DOMAIN files' = (DOMAIN files \ R) \cup {p}
      /\ files'[p] = batch
      /\ \A f \in DOMAIN files' : f # p => f \in DOMAIN files /\ files'[f] = files[f]
    <2> DEFINE d == Remaining(R)
    <2>1. DOMAIN d = DOMAIN files \ R /\ \A f \in DOMAIN d : d[f] = files[f]
        BY DEF Remaining
    <2> HIDE DEF d
    <2>2. /\ DOMAIN files' = DOMAIN d \cup {p} /\ files'[p] = batch
          /\ \A g \in DOMAIN d : g # p => files'[g] = d[g]
        BY <1>1 DEF d, WithFile
    <2> QED BY <2>1, <2>2
<1>7. \A f \in due, g \in DOMAIN files \ due : f < g
    BY <1>4, OldestAreVictims DEF UplinkInv
<1>8. /\ forgotten' \subseteq Events /\ stuck' \subseteq 1 .. persisted
      /\ \A d \in forgotten' :
            /\ d <= enqueued
            /\ \A e \in Elems(pending) \cup Elems(batch) : d < e
            /\ \A f \in DOMAIN files \ (R \cup stuck') :
                  \A e \in Elems(files[f]) : d < e
      /\ \A f \in R : \A e \in Elems(files[f]) : e \in forgotten'
    <2> HIDE DEF due
    <2> QED BY <1>1, <1>5, <1>7, OldestGo
<1> HIDE DEF Persist, due, p
<1>9. UplinkTypeOK'
    <2>1. p > persisted /\ persisted \in Nat /\ p \in Nat
        BY DEF p, UplinkInv, UplinkTypeOK
    <2>2. DOMAIN files' \subseteq 1 .. p
        BY <1>4, <1>6, <2>1 DEF UplinkInv, UplinkTypeOK
    <2>3. files' \in [DOMAIN files' -> Seq(Events)]
        <3>1. \A f \in DOMAIN files' : files'[f] \in Seq(Events)
            BY <1>4, <1>6 DEF UplinkInv, UplinkTypeOK
        <3>2. files' = [f \in DOMAIN files' |-> files'[f]]
            BY <1>1 DEF WithFile
        <3> QED BY <3>1, <3>2
    <2>4. drain' \in DrainType(p)
        BY <1>2, <2>1 DEF UplinkInv, UplinkTypeOK
    <2>5. stuck' \subseteq 1 .. p
        BY <1>8, <2>1
    <2> QED BY <1>2, <1>8, <2>1, <2>2, <2>3, <2>4, <2>5, FlushReturnsFacts
            DEF UplinkInv, UplinkTypeOK
<1>10. OrderInv'
    <2>1. \A f \in DOMAIN files : f < p
        BY Ranges DEF p, UplinkInv, UplinkTypeOK
    <2>2. p \in Nat /\ DOMAIN files \subseteq Nat
        BY <1>4, Ranges DEF UplinkInv
    <2>3. \A f, g \in DOMAIN files' : f < g =>
              \A e \in Elems(files'[f]), d \in Elems(files'[g]) : e < d
        BY <1>6, <2>1, <2>2 DEF UplinkInv, OrderInv
    <2>4. \A e \in Elems(batch) : e <= enqueued
        BY Ranges DEF UplinkInv, OrderInv
    <2>5. \A e \in Elems(drain.body) : e \notin Elems(batch)
        BY Ranges DEF UplinkInv, OrderInv
    <2> QED BY <1>2, <1>3, <1>6, <2>3, <2>4, <2>5 DEF UplinkInv, OrderInv
<1>11. GivenUpInv'
    <2>1. OldestGivenUp'
        <3> SUFFICES ASSUME NEW d \in forgotten', NEW f \in DOMAIN files' \ stuck',
                            NEW e \in Elems(files'[f])
                     PROVE  d < e
            BY DEF OldestGivenUp, EventsIn
        <3>1. CASE f = p
            BY <1>6, <1>8, <3>1
        <3>2. CASE f # p
            BY <1>6, <1>8, <3>2
        <3> QED BY <3>1, <3>2
    <2> QED BY <1>2, <1>3, <1>8, <2>1 DEF GivenUpInv
<1>12. WalkInv'
    <2>1. \A g \in drain.todo : g < p /\ g # p
        BY DEF p, UplinkInv, UplinkTypeOK
    <2>2. drain.at \in {"posting", "posted"} => drain.file # p
        BY <2>1 DEF UplinkInv, WalkInv
    <2> QED BY <1>2, <1>6, <2>1, <2>2 DEF UplinkInv, WalkInv, Answered
<1>13. SendInv'
    BY <1>2, <1>3, <1>6 DEF UplinkInv, SendInv, Unsent, RepeatsAreUnsettled
<1>14. EventsAccounted'
    <2>1. \A e \in EventsIn(DOMAIN files) : e \in EventsIn(DOMAIN files)' \/ e \in forgotten'
        <3> TAKE e \in EventsIn(DOMAIN files)
        <3>1. PICK f \in DOMAIN files : e \in Elems(files[f])
            BY DEF EventsIn
        <3>2. CASE f \in R
            BY <1>8, <3>1, <3>2
        <3>3. CASE f \notin R
            <4>1. f \in DOMAIN files' /\ files'[f] = files[f]
                BY <1>4, <1>6, <3>1, <3>3
            <4> QED BY <3>1, <4>1 DEF EventsIn
        <3> QED BY <3>2, <3>3
    <2>2. Elems(batch) \subseteq EventsIn(DOMAIN files)'
        BY <1>6 DEF EventsIn
    <2>3. forgotten \subseteq forgotten'
        BY <1>1 DEF GiveUp
    <2> QED BY <1>2, <2>1, <2>2, <2>3 DEF UplinkInv, EventsAccounted
<1>15. CapKept'
    <2>1. DOMAIN files' \ stuck' \subseteq (DOMAIN files \ due) \cup {p}
        BY <1>1, <1>6 DEF GiveUp
    <2> QED BY <1>4, <1>6, <2>1, RoomMade DEF due, UplinkInv
<1> QED BY <1>9, <1>10, <1>11, <1>12, <1>13, <1>14, <1>15 DEF UplinkInv

\* The oldest files go, and the batch in hand may be lost.
LEMMA FilesGoInv ==
    ASSUME UplinkInv, NEW due, NEW R, R \subseteq due, due \subseteq DOMAIN files,
           \A f \in due, g \in DOMAIN files \ due : f < g,
           GiveUp(due, R), files' = Remaining(R),
           UNCHANGED <<pending, drain, enqueued, persisted, received, refused, unsettled>>,
           perished' = perished \cup (Elems(flusher.batch) \ Elems(flusher'.batch)),
           flusher' = flusher \/ (/\ flusher' \in FlusherType
                                  /\ flusher'.at \in {"idle", "ended"}
                                  /\ flusher'.batch = <<>>)
    PROVE  UplinkInv'
<1>1. DOMAIN files' = DOMAIN files \ R /\ \A f \in DOMAIN files' : files'[f] = files[f]
    <2> DEFINE d == Remaining(R)
    <2>1. DOMAIN d = DOMAIN files \ R /\ \A f \in DOMAIN d : d[f] = files[f]
        BY DEF Remaining
    <2>2. files' = d
        OBVIOUS
    <2> HIDE DEF d
    <2> QED BY <2>1, <2>2
<1>2. /\ forgotten' \subseteq Events /\ stuck' \subseteq 1 .. persisted
      /\ \A d \in forgotten' :
            /\ d <= enqueued
            /\ \A e \in Elems(pending) \cup Elems(flusher.batch) : d < e
            /\ \A f \in DOMAIN files \ (R \cup stuck') :
                  \A e \in Elems(files[f]) : d < e
      /\ \A f \in R : \A e \in Elems(files[f]) : e \in forgotten'
    BY OldestGo
<1>3. Elems(flusher'.batch) \subseteq Elems(flusher.batch)
    BY ElemsOfEmpty
<1>4. UplinkTypeOK'
    <2>1. files' \in [DOMAIN files' -> Seq(Events)]
        <3>1. \A f \in DOMAIN files' : files'[f] \in Seq(Events)
            BY <1>1 DEF UplinkInv, UplinkTypeOK
        <3>2. files' = [f \in DOMAIN files' |-> files'[f]]
            BY DEF Remaining
        <3> QED BY <3>1, <3>2
    <2>2. perished' \subseteq Events
        BY Ranges DEF UplinkInv, UplinkTypeOK
    <2> QED BY <1>1, <1>2, <2>1, <2>2 DEF UplinkInv, UplinkTypeOK
<1>5. OrderInv'
    BY <1>1, <1>3 DEF UplinkInv, OrderInv
<1>6. GivenUpInv'
    <2>1. OldestGivenUp'
        BY <1>1, <1>2 DEF OldestGivenUp, EventsIn
    <2> QED BY <1>2, <1>3, <2>1 DEF GivenUpInv
<1>7. WalkInv'
    BY <1>1 DEF UplinkInv, WalkInv, Answered
<1>8. SendInv'
    BY <1>1, <1>3 DEF UplinkInv, SendInv, Unsent, RepeatsAreUnsettled
<1>9. EventsAccounted'
    <2>1. \A e \in EventsIn(DOMAIN files) : e \in EventsIn(DOMAIN files)' \/ e \in forgotten'
        <3> TAKE e \in EventsIn(DOMAIN files)
        <3>1. PICK f \in DOMAIN files : e \in Elems(files[f])
            BY DEF EventsIn
        <3>2. CASE f \in R
            BY <1>2, <3>1, <3>2
        <3>3. CASE f \notin R
            BY <1>1, <3>1, <3>3 DEF EventsIn
        <3> QED BY <3>2, <3>3
    <2>2. forgotten \subseteq forgotten'
        BY DEF GiveUp
    <2> QED BY <2>1, <2>2 DEF UplinkInv, EventsAccounted
<1>10. CapKept'
    BY <1>1, FewerFiles DEF UplinkInv, GiveUp
<1> QED BY <1>4, <1>5, <1>6, <1>7, <1>8, <1>9, <1>10 DEF UplinkInv

LEMMA PersistFailsInv == UplinkInv /\ PersistFails => UplinkInv'
<1> SUFFICES ASSUME UplinkInv, PersistFails PROVE UplinkInv'
    OBVIOUS
<1> DEFINE due == Victims(Len(flusher.batch))
<1>1. PICK R \in Removable(due) : files' = Remaining(R) /\ GiveUp(due, R)
    BY DEF PersistFails
<1>2. /\ UNCHANGED <<pending, drain, enqueued, persisted, received, refused, unsettled>>
      /\ perished' = perished \cup Elems(flusher.batch) /\ FlushReturns
    BY DEF PersistFails
<1>3. /\ flusher' \in FlusherType /\ flusher'.at \in {"idle", "ended"}
      /\ flusher'.batch = <<>> /\ Elems(flusher'.batch) = {}
    BY <1>2, FlushReturnsFacts DEF UplinkInv
<1>4. R \subseteq due /\ due \subseteq DOMAIN files
    BY DEF Removable, Victims
<1>5. \A f \in due, g \in DOMAIN files \ due : f < g
    <2>1. Len(flusher.batch) \in Nat
        BY DEF UplinkInv, UplinkTypeOK
    <2> QED BY <2>1, OldestAreVictims DEF UplinkInv
<1> HIDE DEF due
<1> QED BY <1>1, <1>2, <1>3, <1>4, <1>5, FilesGoInv

LEMMA BootInv == UplinkInv /\ Boot => UplinkInv'
<1> SUFFICES ASSUME UplinkInv, Boot PROVE UplinkInv'
    OBVIOUS
<1>1. PICK newest \in {0} \cup {f \in DOMAIN files : Fault("age")} :
          LET due == {f \in DOMAIN files : f <= newest} IN
          \E R \in Removable(due) : files' = Remaining(R) /\ GiveUp(due, R)
    BY DEF Boot
<1> DEFINE due == {f \in DOMAIN files : f <= newest}
<1>2. PICK R \in Removable(due) : files' = Remaining(R) /\ GiveUp(due, R)
    BY <1>1
<1>3. /\ UNCHANGED <<pending, drain, enqueued, persisted, received, refused, unsettled,
                     perished, flusher>>
    BY DEF Boot
<1>4. R \subseteq due /\ due \subseteq DOMAIN files
    BY DEF Removable
<1>5. \A f \in due, g \in DOMAIN files \ due : f < g
    <2>1. DOMAIN files \subseteq Nat /\ newest \in Nat
        BY Ranges DEF UplinkInv
    <2> QED BY <2>1
<1> HIDE DEF due
<1> QED BY <1>2, <1>3, <1>4, <1>5, FilesGoInv

-----------------------------------------------------------------------------
(* The drain *)

\* The drain takes names or a file in hand; nothing else moves.
LEMMA DrainMoves ==
    ASSUME UplinkInv,
           UNCHANGED <<pending, flusher, files, enqueued, persisted, received, refused,
                       forgotten, perished, unsettled, stuck>>,
           drain' \in DrainType(persisted),
           drain'.at \in {"idle", "walking"} => drain'.body = <<>>,
           drain'.at = "posting" =>
               drain'.file \in DOMAIN files /\ drain'.body = files[drain'.file],
           drain'.at # "posted", drain.at # "posted",
           WalkInv'
    PROVE  UplinkInv'
<1>1. UplinkTypeOK'
    BY DEF UplinkInv, UplinkTypeOK
<1>2. OrderInv'
    <2>1. CASE drain'.at = "posting"
        <3>1. \A f \in DOMAIN files : f # drain'.file =>
                  \A e \in Elems(drain'.body) : e \notin Elems(files[f])
            <4> SUFFICES ASSUME NEW f \in DOMAIN files, f # drain'.file,
                                NEW e \in Elems(drain'.body), e \in Elems(files[f])
                         PROVE  FALSE
                OBVIOUS
            <4>1. f \in Nat /\ drain'.file \in Nat /\ e \in Nat
                BY <2>1, Ranges DEF UplinkInv
            <4>2. f < drain'.file \/ drain'.file < f
                BY <4>1
            <4> QED BY <2>1, <4>1, <4>2 DEF UplinkInv, OrderInv
        <3> QED BY <2>1, <3>1 DEF UplinkInv, OrderInv
    <2>2. CASE drain'.at # "posting"
        BY <2>2, ElemsOfEmpty DEF UplinkInv, OrderInv
    <2> QED BY <2>1, <2>2
<1>3. GivenUpInv'
    BY DEF UplinkInv, GivenUpInv, OldestGivenUp, EventsIn
<1>4. SendInv'
    <2>1. \A e \in Elems(drain'.body) : Unsent(e)
        BY ElemsOfEmpty DEF UplinkInv, SendInv
    <2> QED BY <2>1 DEF UplinkInv, SendInv, Unsent, RepeatsAreUnsettled
<1>5. EventsAccounted'
    BY DEF UplinkInv, EventsAccounted, EventsIn
<1>6. CapKept'
    BY DEF UplinkInv, CapKept, SizeOf, EventsIn
<1> QED BY <1>1, <1>2, <1>3, <1>4, <1>5, <1>6 DEF UplinkInv

LEMMA DrainBeginsInv == UplinkInv /\ DrainBegins => UplinkInv'
<1> SUFFICES ASSUME UplinkInv, DrainBegins PROVE UplinkInv'
    OBVIOUS
<1>1. /\ UNCHANGED <<pending, flusher, files, historyVars>>
      /\ drain.at = "idle"
      /\ drain' = [at |-> "walking", todo |-> DOMAIN files, file |-> 0, body |-> <<>>,
                skipped |-> {}]
    BY DEF DrainBegins, DrainIdle
<1>2. DOMAIN files \in SUBSET (1 .. persisted) /\ 0 \in 0 .. persisted /\ <<>> \in Seq(Events)
    BY DEF UplinkInv, UplinkTypeOK
<1>3. WalkInv'
    BY <1>1 DEF WalkInv
<1> QED BY <1>1, <1>2, <1>3, DrainMoves DEF historyVars

LEMMA DrainReadsInv == UplinkInv /\ DrainReads => UplinkInv'
<1> SUFFICES ASSUME UplinkInv, DrainReads PROVE UplinkInv'
    OBVIOUS
<1>1. PICK f \in drain.todo :
          /\ \A g \in drain.todo : f <= g
          /\ drain' = IF OnDisk(f)
                      THEN [drain EXCEPT !.at = "posting", !.file = f, !.body = files[f]]
                      ELSE [drain EXCEPT !.todo = @ \ {f}]
    BY DEF DrainReads, DrainNext
<1>2. /\ UNCHANGED <<pending, flusher, files, historyVars>>
      /\ drain.at = "walking" /\ drain.body = <<>>
      /\ drain \in DrainType(persisted)
    BY DEF DrainReads, DrainNext, UplinkInv, UplinkTypeOK
<1>3. CASE OnDisk(f)
    <2>1. /\ drain' = [at |-> "posting", todo |-> drain.todo, file |-> f, body |-> files[f],
                       skipped |-> drain.skipped]
          /\ f \in DOMAIN files /\ f \in 1 .. persisted /\ files[f] \in Seq(Events)
        BY <1>1, <1>2, <1>3 DEF OnDisk, UplinkInv, UplinkTypeOK
    <2>2. WalkInv'
        BY <1>1, <1>2, <2>1 DEF UplinkInv, WalkInv, Answered, historyVars
    <2>3. drain' \in DrainType(persisted)
        BY <1>2, <2>1
    <2> QED BY <1>2, <2>1, <2>2, <2>3, DrainMoves DEF historyVars
<1>4. CASE ~OnDisk(f)
    <2>1. /\ drain' = [drain EXCEPT !.todo = drain.todo \ {f}]
          /\ drain'.at = "walking" /\ drain'.body = <<>>
          /\ drain'.todo = drain.todo \ {f} /\ f \notin DOMAIN files
          /\ drain'.skipped = drain.skipped
        BY <1>1, <1>2, <1>4 DEF OnDisk
    <2>2. WalkInv'
        BY <1>1, <1>2, <2>1 DEF UplinkInv, WalkInv, Answered, historyVars
    <2>3. drain' \in DrainType(persisted)
        BY <1>2, <2>1
    <2> QED BY <1>2, <2>1, <2>2, <2>3, DrainMoves DEF historyVars
<1> QED BY <1>3, <1>4

\* The file stays and is noted as skipped.
LEMMA DrainReadFailsInv == UplinkInv /\ DrainReadFails => UplinkInv'
<1> SUFFICES ASSUME UplinkInv, DrainReadFails PROVE UplinkInv'
    OBVIOUS
<1>1. PICK f \in drain.todo :
          drain' = [drain EXCEPT !.todo = @ \ {f}, !.skipped = @ \cup {f}]
    BY DEF DrainReadFails
<1>2. /\ UNCHANGED <<pending, flusher, files, historyVars>>
      /\ drain.at = "walking" /\ drain.body = <<>>
      /\ drain \in DrainType(persisted)
    BY DEF DrainReadFails, DrainNext, UplinkInv, UplinkTypeOK
<1>3. /\ drain'.at = "walking" /\ drain'.body = <<>>
      /\ drain'.todo = drain.todo \ {f} /\ drain'.skipped = drain.skipped \cup {f}
    BY <1>1, <1>2
<1>4. WalkInv'
    BY <1>2, <1>3 DEF UplinkInv, WalkInv, Answered, historyVars
<1>5. drain' \in DrainType(persisted)
    BY <1>1, <1>2
<1> QED BY <1>2, <1>3, <1>4, <1>5, DrainMoves DEF historyVars

LEMMA DrainEndsInv == UplinkInv /\ DrainEnds => UplinkInv'
<1> SUFFICES ASSUME UplinkInv, DrainEnds PROVE UplinkInv'
    OBVIOUS
<1>1. /\ UNCHANGED <<pending, flusher, files, historyVars>> /\ drain.at = "walking"
      /\ drain' = [at |-> "idle", todo |-> {}, file |-> 0, body |-> <<>>,
                skipped |-> {}]
    BY DEF DrainEnds, DrainIdle
<1>2. 0 \in 0 .. persisted /\ <<>> \in Seq(Events)
    BY DEF UplinkInv, UplinkTypeOK
<1>3. WalkInv'
    BY <1>1 DEF WalkInv
<1> QED BY <1>1, <1>2, <1>3, DrainMoves DEF historyVars

LEMMA DrainDeliveredInv == UplinkInv /\ DrainDelivered => UplinkInv'
<1> SUFFICES ASSUME UplinkInv, DrainDelivered PROVE UplinkInv'
    OBVIOUS
<1> DEFINE s == drain.body
<1>1. /\ UNCHANGED <<pending, flusher, files, enqueued, persisted, refused, forgotten,
                     perished, unsettled, stuck>>
      /\ s \in Seq(Events) /\ Received(s) /\ drain.at = "posting"
      /\ drain' = [drain EXCEPT !.at = "posted"]
      /\ drain'.at = "posted" /\ drain'.todo = drain.todo
      /\ drain'.file = drain.file /\ drain'.body = s /\ drain'.skipped = drain.skipped
    BY DEF DrainDelivered, UplinkInv, UplinkTypeOK
<1> HIDE DEF DrainDelivered
<1>2. UplinkTypeOK'
    BY <1>1, ReceivedFacts DEF UplinkInv, UplinkTypeOK
<1>3. OrderInv'
    BY <1>1 DEF UplinkInv, OrderInv
<1>4. GivenUpInv'
    BY <1>1 DEF UplinkInv, GivenUpInv, OldestGivenUp, EventsIn
<1>5. WalkInv'
    <2>1. \A e \in Elems(s) : Answered(e)'
        BY <1>1, ReceivedFacts DEF Answered
    <2> QED BY <1>1, <2>1, AnsweredGrows, Ranges DEF UplinkInv, WalkInv
<1>6. SendInv'
    <2>1. /\ \A e \in Elems(pending) \cup Elems(flusher.batch) : e \notin Elems(s)
          /\ \A f \in DOMAIN files : f # drain.file =>
                \A e \in Elems(files[f]) : e \notin Elems(s)
          /\ \A e \in Events : e > enqueued => e \notin Elems(s)
        BY Ranges DEF UplinkInv, OrderInv
    <2>2. \A e \in Events : e \notin Elems(s) => received'[e] = received[e]
        BY <1>1, ReceivedFacts
    <2>3. \A e \in Elems(s) : Unsent(e) /\ e \in Events
        BY <1>1, Ranges DEF UplinkInv, SendInv
    <2>4. RepeatsAreUnsettled'
        <3> SUFFICES ASSUME NEW e \in Events, received'[e] > 1 PROVE e \in unsettled
            BY <1>1 DEF RepeatsAreUnsettled
        <3>1. CASE e \in Elems(s)
            BY <1>1, <2>3, <3>1, ReceivedFacts DEF Unsent
        <3>2. CASE e \notin Elems(s)
            BY <2>2, <3>2 DEF UplinkInv, SendInv, RepeatsAreUnsettled
        <3> QED BY <3>1, <3>2
    <2> QED BY <1>1, <2>1, <2>2, <2>4, Ranges DEF UplinkInv, SendInv, Unsent
<1>7. EventsAccounted'
    <2>1. \A e \in 1 .. enqueued : e \in Events
        BY UplinkAssumption DEF UplinkInv, UplinkTypeOK, Events
    <2>2. \A e \in Events : received[e] > 0 => received'[e] > 0
        BY <1>1, ReceivedFacts DEF UplinkInv, UplinkTypeOK
    <2> QED BY <1>1, <2>1, <2>2 DEF UplinkInv, EventsAccounted, EventsIn
<1>8. CapKept'
    BY <1>1 DEF UplinkInv, CapKept, SizeOf, EventsIn
<1> QED BY <1>2, <1>3, <1>4, <1>5, <1>6, <1>7, <1>8 DEF UplinkInv

LEMMA DrainRefusedInv == UplinkInv /\ DrainRefused => UplinkInv'
<1> SUFFICES ASSUME UplinkInv, DrainRefused PROVE UplinkInv'
    OBVIOUS
<1>1. /\ UNCHANGED <<pending, flusher, files, enqueued, persisted, received, forgotten,
                     perished, unsettled, stuck>>
      /\ refused' = refused \cup Elems(drain.body) /\ drain.at = "posting"
      /\ drain' = [drain EXCEPT !.at = "posted"]
      /\ drain'.at = "posted" /\ drain'.todo = drain.todo
      /\ drain'.file = drain.file /\ drain'.body = drain.body
      /\ drain'.skipped = drain.skipped
    BY DEF DrainRefused, UplinkInv, UplinkTypeOK
<1> HIDE DEF DrainRefused
<1>2. UplinkTypeOK'
    BY <1>1, Ranges DEF UplinkInv, UplinkTypeOK
<1>3. OrderInv'
    BY <1>1 DEF UplinkInv, OrderInv
<1>4. GivenUpInv'
    BY <1>1 DEF UplinkInv, GivenUpInv, OldestGivenUp, EventsIn
<1>5. WalkInv'
    BY <1>1 DEF UplinkInv, WalkInv, Answered
<1>6. SendInv'
    BY <1>1 DEF UplinkInv, SendInv, Unsent, RepeatsAreUnsettled
<1>7. EventsAccounted'
    BY <1>1 DEF UplinkInv, EventsAccounted, EventsIn
<1>8. CapKept'
    BY <1>1 DEF UplinkInv, CapKept, SizeOf, EventsIn
<1> QED BY <1>2, <1>3, <1>4, <1>5, <1>6, <1>7, <1>8 DEF UplinkInv

\* The walk ends; what it has sent may have been taken all the same.
LEMMA DrainFailsInv == UplinkInv /\ DrainFails => UplinkInv'
<1> SUFFICES ASSUME UplinkInv, DrainFails PROVE UplinkInv'
    OBVIOUS
<1> DEFINE s == drain.body
<1>1. /\ UNCHANGED <<pending, flusher, files, enqueued, persisted, refused, forgotten,
                     perished, stuck>>
      /\ s \in Seq(Events) /\ drain.at = "posting"
      /\ drain' = [at |-> "idle", todo |-> {}, file |-> 0, body |-> <<>>,
                skipped |-> {}]
      /\ \/ UNCHANGED <<received, unsettled>>
         \/ Received(s) /\ unsettled' = unsettled \cup Elems(s)
    BY DEF DrainFails, AfterFailure, DrainIdle, UplinkInv, UplinkTypeOK
<1> HIDE DEF DrainFails
<1>2. drain'.at = "idle" /\ drain'.body = <<>> /\ Elems(drain'.body) = {}
    BY <1>1, ElemsOfEmpty
<1>3. /\ \A e \in Events : received'[e] \in 0 .. 2 /\ received'[e] >= received[e]
      /\ \A e \in Events : Unsent(e) => Unsent(e)'
      /\ \A e \in Events : received'[e] # received[e] => e \in Elems(s)
      /\ received' \in [Events -> 0 .. 2]
    <2>1. \A e \in Events : received[e] \in 0 .. 2
        BY DEF UplinkInv, UplinkTypeOK
    <2>2. CASE UNCHANGED <<received, unsettled>>
        BY <1>1, <2>1, <2>2 DEF Unsent, UplinkInv, UplinkTypeOK
    <2>3. CASE Received(s) /\ unsettled' = unsettled \cup Elems(s)
        <3>1. \A e \in Events : received'[e] \in 0 .. 2
            BY <1>1, <2>3, ReceivedFacts
        <3> QED BY <1>1, <2>1, <2>3, <3>1, ReceivedFacts DEF Unsent
    <2> QED BY <1>1, <2>2, <2>3
<1>4. UplinkTypeOK'
    <2>1. unsettled' \subseteq Events
        BY <1>1, Ranges DEF UplinkInv, UplinkTypeOK
    <2>2. drain' \in DrainType(persisted)
        BY <1>1 DEF UplinkInv, UplinkTypeOK
    <2> QED BY <1>1, <1>2, <1>3, <2>1, <2>2 DEF UplinkInv, UplinkTypeOK
<1>5. OrderInv'
    BY <1>1, <1>2 DEF UplinkInv, OrderInv
<1>6. GivenUpInv'
    BY <1>1 DEF UplinkInv, GivenUpInv, OldestGivenUp, EventsIn
<1>7. WalkInv'
    BY <1>2 DEF WalkInv
<1>8. SendInv'
    <2>1. RepeatsAreUnsettled'
        <3> SUFFICES ASSUME NEW e \in Events, received'[e] > 1 PROVE e \in unsettled'
            BY DEF RepeatsAreUnsettled
        <3>1. CASE UNCHANGED <<received, unsettled>>
            BY <3>1 DEF UplinkInv, SendInv, RepeatsAreUnsettled
        <3>2. CASE Received(s) /\ unsettled' = unsettled \cup Elems(s)
            BY <1>3, <3>2 DEF UplinkInv, SendInv, RepeatsAreUnsettled
        <3> QED BY <1>1, <3>1, <3>2
    <2>2. \A e \in Events : e > enqueued => received'[e] = 0
        BY <1>3, Ranges DEF UplinkInv, SendInv, OrderInv
    <2> QED BY <1>1, <1>2, <1>3, <2>1, <2>2, Ranges DEF UplinkInv, SendInv
<1>9. EventsAccounted'
    <2>1. \A e \in 1 .. enqueued : e \in Events /\ received[e] \in 0 .. 2
        BY UplinkAssumption DEF UplinkInv, UplinkTypeOK, Events
    <2> QED BY <1>1, <1>3, <2>1 DEF UplinkInv, EventsAccounted, EventsIn
<1>10. CapKept'
    BY <1>1 DEF UplinkInv, CapKept, SizeOf, EventsIn
<1> QED BY <1>4, <1>5, <1>6, <1>7, <1>8, <1>9, <1>10 DEF UplinkInv

\* What DrainGoesOn makes of the walk.
LEMMA DrainGoesOnFacts ==
    ASSUME UplinkTypeOK, DrainGoesOn
    PROVE  /\ drain' \in DrainType(persisted)
           /\ drain'.at = "walking" /\ drain'.todo = drain.todo \ {drain.file}
           /\ drain'.body = <<>> /\ Elems(drain'.body) = {}
           /\ drain'.skipped = drain.skipped
<1>1. drain' = [at |-> "walking", todo |-> drain.todo \ {drain.file}, file |-> 0,
                body |-> <<>>, skipped |-> drain.skipped]
    BY DEF DrainGoesOn, DrainIdle
<1>2. /\ drain.todo \ {drain.file} \in SUBSET (1 .. persisted)
      /\ drain.skipped \in SUBSET (1 .. persisted)
      /\ 0 \in 0 .. persisted /\ <<>> \in Seq(Events)
    BY DEF UplinkTypeOK
<1> QED BY <1>1, <1>2, ElemsOfEmpty

LEMMA DrainRemovesInv == UplinkInv /\ DrainRemoves => UplinkInv'
<1> SUFFICES ASSUME UplinkInv, DrainRemoves PROVE UplinkInv'
    OBVIOUS
<1>1. /\ UNCHANGED <<pending, flusher, enqueued, persisted, received, refused, forgotten,
                     perished, unsettled, stuck>>
      /\ drain.at = "posted" /\ DrainGoesOn /\ files' = Remaining({drain.file})
    BY DEF DrainRemoves, Without, historyVars
<1>2. /\ DOMAIN files' = DOMAIN files \ {drain.file}
      /\ \A f \in DOMAIN files' : files'[f] = files[f]
    BY <1>1 DEF Remaining
<1>3. /\ drain'.at = "walking" /\ drain'.todo = drain.todo \ {drain.file}
      /\ drain'.body = <<>> /\ Elems(drain'.body) = {} /\ drain'.skipped = drain.skipped
    BY <1>1, DrainGoesOnFacts DEF UplinkInv
<1>4. UplinkTypeOK'
    <2>1. files' \in [DOMAIN files' -> Seq(Events)]
        <3>1. \A f \in DOMAIN files' : files'[f] \in Seq(Events)
            BY <1>2 DEF UplinkInv, UplinkTypeOK
        <3>2. files' = [f \in DOMAIN files' |-> files'[f]]
            BY <1>1 DEF Remaining
        <3> QED BY <3>1, <3>2
    <2>2. DOMAIN files' \subseteq 1 .. persisted
        BY <1>2 DEF UplinkInv, UplinkTypeOK
    <2> QED BY <1>1, <1>3, <2>1, <2>2, DrainGoesOnFacts DEF UplinkInv, UplinkTypeOK
<1>5. OrderInv'
    BY <1>1, <1>2, <1>3 DEF UplinkInv, OrderInv
<1>6. GivenUpInv'
    <2>1. OldestGivenUp'
        <3>1. \A f \in DOMAIN files' \ stuck' : f \in DOMAIN files \ stuck
            BY <1>1, <1>2
        <3>2. EventsIn(DOMAIN files \ stuck)' \subseteq EventsIn(DOMAIN files \ stuck)
            BY <1>2, <3>1 DEF EventsIn
        <3> QED BY <1>1, <3>2 DEF UplinkInv, GivenUpInv, OldestGivenUp
    <2> QED BY <1>1, <2>1 DEF UplinkInv, GivenUpInv
<1>7. WalkInv'
    BY <1>1, <1>2, <1>3 DEF UplinkInv, WalkInv, Answered
<1>8. SendInv'
    BY <1>1, <1>2, <1>3 DEF UplinkInv, SendInv, Unsent, RepeatsAreUnsettled
<1>9. EventsAccounted'
    <2>1. \A e \in EventsIn(DOMAIN files) : e \in EventsIn(DOMAIN files)' \/ Answered(e)
        <3> TAKE e \in EventsIn(DOMAIN files)
        <3>1. PICK f \in DOMAIN files : e \in Elems(files[f])
            BY DEF EventsIn
        <3>2. CASE f = drain.file
            BY <1>1, <3>1, <3>2 DEF UplinkInv, WalkInv
        <3>3. CASE f # drain.file
            BY <1>2, <3>1, <3>3 DEF EventsIn
        <3> QED BY <3>2, <3>3
    <2> QED BY <1>1, <2>1 DEF UplinkInv, EventsAccounted, Answered
<1>10. CapKept'
    BY <1>1, <1>2, FewerFiles DEF UplinkInv
<1> QED BY <1>4, <1>5, <1>6, <1>7, <1>8, <1>9, <1>10 DEF UplinkInv

\* The file stays, and will be sent again: its events are unsettled.
LEMMA DrainRemoveFailsInv == UplinkInv /\ DrainRemoveFails => UplinkInv'
<1> SUFFICES ASSUME UplinkInv, DrainRemoveFails PROVE UplinkInv'
    OBVIOUS
<1>1. /\ UNCHANGED <<pending, flusher, files, enqueued, persisted, received, refused,
                     forgotten, perished, stuck>>
      /\ unsettled' = unsettled \cup Elems(drain.body)
      /\ drain.at = "posted" /\ DrainGoesOn
    BY DEF DrainRemoveFails
<1>2. /\ drain'.at = "walking" /\ drain'.todo = drain.todo \ {drain.file}
      /\ drain'.body = <<>> /\ Elems(drain'.body) = {} /\ drain'.skipped = drain.skipped
    BY <1>1, DrainGoesOnFacts DEF UplinkInv
<1>3. UplinkTypeOK'
    <2>1. unsettled' \subseteq Events
        BY <1>1, Ranges DEF UplinkInv, UplinkTypeOK
    <2> QED BY <1>1, <1>2, <2>1, DrainGoesOnFacts DEF UplinkInv, UplinkTypeOK
<1>4. OrderInv'
    BY <1>1, <1>2 DEF UplinkInv, OrderInv
<1>5. GivenUpInv'
    BY <1>1 DEF UplinkInv, GivenUpInv, OldestGivenUp, EventsIn
<1>6. WalkInv'
    BY <1>1, <1>2 DEF UplinkInv, WalkInv, Answered
<1>7. SendInv'
    <2>1. \A f \in DOMAIN files : \A e \in Elems(files[f]) : Unsent(e)'
        BY <1>1 DEF UplinkInv, SendInv, WalkInv, Unsent
    <2> QED BY <1>1, <1>2, <2>1 DEF UplinkInv, SendInv, Unsent, RepeatsAreUnsettled
<1>8. EventsAccounted'
    BY <1>1 DEF UplinkInv, EventsAccounted, EventsIn
<1>9. CapKept'
    BY <1>1 DEF UplinkInv, CapKept, SizeOf, EventsIn
<1> QED BY <1>3, <1>4, <1>5, <1>6, <1>7, <1>8, <1>9 DEF UplinkInv

-----------------------------------------------------------------------------
(* The process *)

\* What a process that dies has done to the directory, as a rule nothing.
LEMMA InterruptedPersist ==
    ASSUME UplinkInv, Dies
    PROVE  \E S \in SUBSET DOMAIN files : \E R \in SUBSET S :
              /\ \A f \in S, g \in DOMAIN files \ S : f < g
              /\ GiveUp(S, R) /\ files' = Remaining(R)
<1>1. CASE UNCHANGED <<files, leftover, forgotten, stuck>>
    <2>1. GiveUp({}, {})
        BY <1>1 DEF GiveUp, EventsIn
    <2>2. files' = Remaining({})
        <3>1. files = [f \in DOMAIN files |-> files[f]]
            BY DEF UplinkInv, UplinkTypeOK
        <3> QED BY <1>1, <3>1 DEF Remaining
    <2> QED BY <2>1, <2>2
<1>2. CASE ~UNCHANGED <<files, leftover, forgotten, stuck>>
    <2> DEFINE due == Victims(Len(flusher.batch))
    <2>0. PICK S \in Begun(due) :
              \E R \in Removable(S) : files' = Remaining(R) /\ GiveUp(S, R)
        BY <1>2 DEF Dies
    <2>1. PICK R \in Removable(S) : files' = Remaining(R) /\ GiveUp(S, R)
        BY <2>0
    <2>2. \A f \in due, g \in DOMAIN files \ due : f < g
        <3>1. Len(flusher.batch) \in Nat
            BY DEF UplinkInv, UplinkTypeOK
        <3> QED BY <3>1, OldestAreVictims DEF UplinkInv
    <2>3. /\ S \subseteq due /\ due \subseteq DOMAIN files /\ R \subseteq S
          /\ \A f \in S, g \in due : g < f => g \in S
        BY DEF Begun, Removable, Victims
    <2>4. DOMAIN files \subseteq Nat
        BY Ranges DEF UplinkInv
    <2> HIDE DEF due
    <2>5. \A f \in S, g \in DOMAIN files \ S : f < g
        <3> TAKE f \in S, g \in DOMAIN files \ S
        <3>1. CASE g \in due
            <4>1. ~(g < f) /\ f # g /\ f \in Nat /\ g \in Nat
                BY <2>3, <2>4, <3>1
            <4> QED BY <4>1
        <3>2. CASE g \notin due
            BY <2>2, <2>3, <3>2
        <3> QED BY <3>1, <3>2
    <2> QED BY <2>1, <2>3, <2>5
<1> QED BY <1>1, <1>2

\* What was pending or in hand perishes; the drain forgets what it has sent; a
\* persist under way has removed some of the oldest files.
LEMMA DiesInv == UplinkInv /\ Dies => UplinkInv'
<1> SUFFICES ASSUME UplinkInv, Dies PROVE UplinkInv'
    OBVIOUS
<1>1. /\ UNCHANGED <<enqueued, persisted, received, refused>>
      /\ perished' = perished \cup Elems(pending) \cup Elems(flusher.batch)
      /\ unsettled' = unsettled \cup Elems(drain.body)
      /\ pending' = <<>>
      /\ flusher' = [at |-> "idle", batch |-> <<>>, final |-> FALSE]
      /\ drain' = [at |-> "idle", todo |-> {}, file |-> 0, body |-> <<>>,
                   skipped |-> {}]
    BY DEF Dies, FlusherIdle, DrainIdle
<1>2. /\ Elems(pending') = {} /\ Elems(flusher'.batch) = {} /\ Elems(drain'.body) = {}
      /\ drain'.at = "idle"
    BY <1>1, ElemsOfEmpty
<1> PICK S \in SUBSET DOMAIN files : \E R \in SUBSET S :
          /\ \A f \in S, g \in DOMAIN files \ S : f < g
          /\ GiveUp(S, R) /\ files' = Remaining(R)
    BY InterruptedPersist
<1>3. PICK R \in SUBSET S :
          /\ \A f \in S, g \in DOMAIN files \ S : f < g
          /\ GiveUp(S, R) /\ files' = Remaining(R)
    OBVIOUS
<1>4. DOMAIN files' = DOMAIN files \ R /\ \A f \in DOMAIN files' : files'[f] = files[f]
    <2> DEFINE d == Remaining(R)
    <2>1. DOMAIN d = DOMAIN files \ R /\ \A f \in DOMAIN d : d[f] = files[f]
        BY DEF Remaining
    <2>2. files' = d
        BY <1>3
    <2> HIDE DEF d
    <2> QED BY <2>1, <2>2
<1>5. /\ forgotten' \subseteq Events /\ stuck' \subseteq 1 .. persisted
      /\ \A d \in forgotten' :
            /\ d <= enqueued
            /\ \A f \in DOMAIN files \ (R \cup stuck') :
                  \A e \in Elems(files[f]) : d < e
      /\ \A f \in R : \A e \in Elems(files[f]) : e \in forgotten'
    BY <1>3, OldestGo
<1>6. UplinkTypeOK'
    <2>1. unsettled' \subseteq Events /\ perished' \subseteq Events
        BY <1>1, Ranges DEF UplinkInv, UplinkTypeOK
    <2>2. files' \in [DOMAIN files' -> Seq(Events)]
        <3>1. \A f \in DOMAIN files' : files'[f] \in Seq(Events)
            BY <1>4 DEF UplinkInv, UplinkTypeOK
        <3>2. files' = [f \in DOMAIN files' |-> files'[f]]
            BY <1>3 DEF Remaining
        <3> QED BY <3>1, <3>2
    <2>3. /\ flusher' \in FlusherType /\ drain' \in DrainType(persisted)
          /\ pending' \in Seq(Events)
        BY <1>1 DEF UplinkInv, UplinkTypeOK
    <2>4. DOMAIN files' \subseteq 1 .. persisted'
        BY <1>1, <1>4 DEF UplinkInv, UplinkTypeOK
    <2> QED BY <1>1, <1>5, <2>1, <2>2, <2>3, <2>4 DEF UplinkInv, UplinkTypeOK
<1>7. OrderInv'
    BY <1>1, <1>2, <1>4 DEF UplinkInv, OrderInv
<1>8. GivenUpInv'
    <2>1. OldestGivenUp'
        BY <1>4, <1>5 DEF OldestGivenUp, EventsIn
    <2> QED BY <1>1, <1>2, <1>5, <2>1 DEF GivenUpInv
<1>9. WalkInv'
    BY <1>2 DEF WalkInv
<1>10. SendInv'
    <2>1. \A f \in DOMAIN files : \A e \in Elems(files[f]) : Unsent(e)'
        BY <1>1 DEF UplinkInv, SendInv, WalkInv, Unsent
    <2> QED BY <1>1, <1>2, <1>4, <2>1 DEF UplinkInv, SendInv, Unsent, RepeatsAreUnsettled
<1>11. EventsAccounted'
    <2>1. \A e \in EventsIn(DOMAIN files) : e \in EventsIn(DOMAIN files)' \/ e \in forgotten'
        <3> TAKE e \in EventsIn(DOMAIN files)
        <3>1. PICK f \in DOMAIN files : e \in Elems(files[f])
            BY DEF EventsIn
        <3>2. CASE f \in R
            BY <1>5, <3>1, <3>2
        <3>3. CASE f \notin R
            BY <1>4, <3>1, <3>3 DEF EventsIn
        <3> QED BY <3>2, <3>3
    <2>2. forgotten \subseteq forgotten'
        BY <1>3 DEF GiveUp
    <2> QED BY <1>1, <2>1, <2>2 DEF UplinkInv, EventsAccounted
<1>12. CapKept'
    BY <1>3, <1>4, FewerFiles DEF UplinkInv, GiveUp
<1> QED BY <1>6, <1>7, <1>8, <1>9, <1>10, <1>11, <1>12 DEF UplinkInv

\* A signal changes nothing the invariant speaks about.
LEMMA UplinkStutters ==
    UplinkInv /\ UNCHANGED <<pending, flusher, files, drain, historyVars>> => UplinkInv'
BY DEF historyVars, UplinkInv, UplinkTypeOK, OrderInv, GivenUpInv, OldestGivenUp, WalkInv,
       Answered, SendInv, Unsent, RepeatsAreUnsettled, EventsAccounted, CapKept, SizeOf,
       EventsIn

-----------------------------------------------------------------------------
(* The .tmp files *)

\* What is in them is given up, and older than what is still to be written.
LeftInv ==
    \A e \in leftover :
        /\ e \in perished
        /\ e <= enqueued
        /\ \A d \in Elems(pending) \cup Elems(flusher.batch) : e < d
        /\ \A f \in DOMAIN files : e \notin Elems(files[f])

\* Nothing new comes to the directory.
LEMMA LeftKept ==
    ASSUME UplinkInv, LeftInv, leftover' = leftover, perished \subseteq perished',
           enqueued' = enqueued,
           Elems(pending') \cup Elems(flusher'.batch)
               \subseteq Elems(pending) \cup Elems(flusher.batch),
           DOMAIN files' \subseteq DOMAIN files,
           \A f \in DOMAIN files' : files'[f] = files[f]
    PROVE  LeftInv'
BY DEF LeftInv

\* Files go, and the batch in hand may be left behind under a .tmp name.
LEMMA LeftBehind ==
    ASSUME UplinkInv, LeftInv, leftover' \subseteq leftover \cup Elems(flusher.batch),
           perished \cup Elems(flusher.batch) \subseteq perished',
           enqueued' = enqueued, Elems(pending') \subseteq Elems(pending),
           Elems(flusher'.batch) = {},
           NEW R, files' = Remaining(R)
    PROVE  LeftInv'
<1>1. DOMAIN files' \subseteq DOMAIN files /\ \A f \in DOMAIN files' : files'[f] = files[f]
    BY DEF Remaining
<1>2. /\ \A e \in Elems(flusher.batch) :
            /\ e <= enqueued /\ e \in Nat
            /\ \A d \in Elems(pending) : e < d
            /\ \A f \in DOMAIN files : e \notin Elems(files[f])
    <2>1. \A e \in Elems(flusher.batch) : e \in Nat /\ ~(e < e)
        BY Ranges DEF UplinkInv
    <2> QED BY <2>1, Ranges DEF UplinkInv, OrderInv
<1> QED BY <1>1, <1>2 DEF LeftInv

LEMMA LeftNextInv ==
    ASSUME UplinkInv, LeftInv, [UplinkNext]_uplinkVars
    PROVE  LeftInv'
<1> USE DEF historyVars
<1>1. CASE Enqueue
    <2>1. Elems(pending') = Elems(pending) \cup {enqueued + 1} /\ enqueued \in Nat
        BY <1>1, ElemsOfAppend, UplinkAssumption DEF Enqueue, UplinkInv, UplinkTypeOK, Events
    <2>2. \A e \in leftover : e \in Nat
        BY UplinkAssumption DEF LeftInv, UplinkInv, UplinkTypeOK, Events
    <2> QED BY <1>1, <2>1, <2>2 DEF Enqueue, LeftInv
<1>2. CASE \E final \in BOOLEAN : FlushBegins(final)
    <2>1. /\ Elems(pending') = {} /\ Elems(flusher'.batch) = Elems(pending)
          /\ UNCHANGED <<files, leftover, historyVars>>
        BY <1>2, ElemsOfEmpty DEF FlushBegins
    <2> QED BY <2>1, LeftKept
<1>3. CASE Delivered \/ Refused
    <2>1. /\ UNCHANGED <<pending, files, leftover, enqueued, perished>> /\ FlushReturns
        BY <1>3 DEF Delivered, Refused
    <2>2. Elems(flusher'.batch) = {}
        BY <2>1, FlushReturnsFacts DEF UplinkInv
    <2> QED BY <2>1, <2>2, LeftKept
<1>4. CASE DeliverFails
    <2>1. /\ UNCHANGED <<pending, files, leftover, enqueued, perished>>
          /\ flusher'.batch = flusher.batch
        BY <1>4 DEF DeliverFails, UplinkInv, UplinkTypeOK
    <2> QED BY <2>1, LeftKept
<1>5. CASE Persist
    <2>1. PICK R : files' = WithFile(Remaining(R), persisted + 1, flusher.batch)
        BY <1>5 DEF Persist
    <2>2. \A f \in DOMAIN files' :
              files'[f] = flusher.batch \/ (f \in DOMAIN files /\ files'[f] = files[f])
        BY <2>1 DEF WithFile, Remaining
    <2>3. UNCHANGED <<pending, leftover, enqueued, perished>> /\ FlushReturns
        BY <1>5 DEF Persist
    <2>4. Elems(flusher'.batch) = {}
        BY <2>3, FlushReturnsFacts DEF UplinkInv
    <2>5. \A e \in leftover : e \notin Elems(flusher.batch)
        BY Ranges DEF LeftInv, UplinkInv
    <2> QED BY <2>2, <2>3, <2>4, <2>5 DEF LeftInv
<1>6. CASE PersistFails
    <2>1. PICK R : files' = Remaining(R)
        BY <1>6 DEF PersistFails
    <2>2. /\ UNCHANGED <<pending, enqueued>> /\ FlushReturns
          /\ perished' = perished \cup Elems(flusher.batch)
          /\ leftover' \subseteq leftover \cup Elems(flusher.batch)
        BY <1>6 DEF PersistFails
    <2>3. Elems(flusher'.batch) = {}
        BY <2>2, FlushReturnsFacts DEF UplinkInv
    <2> QED BY <2>1, <2>2, <2>3, LeftBehind
<1>7. CASE MainReturns \/ Killed
    <2>1. Dies
        BY <1>7 DEF MainReturns, Killed
    <2>2. PICK R : files' = Remaining(R)
        BY <2>1, InterruptedPersist
    <2>3. /\ UNCHANGED enqueued /\ pending' = <<>> /\ flusher'.batch = <<>>
          /\ perished' = perished \cup Elems(pending) \cup Elems(flusher.batch)
          /\ leftover' \subseteq leftover \cup Elems(flusher.batch)
        BY <2>1 DEF Dies, FlusherIdle
    <2> QED BY <2>2, <2>3, ElemsOfEmpty, LeftBehind
<1>8. CASE Boot
    <2>1. PICK R : files' = Remaining(R)
        BY <1>8 DEF Boot
    <2>2. /\ UNCHANGED <<pending, flusher, leftover, enqueued, perished>>
          /\ DOMAIN files' \subseteq DOMAIN files
          /\ \A f \in DOMAIN files' : files'[f] = files[f]
        BY <1>8, <2>1 DEF Boot, Remaining
    <2> QED BY <2>2, LeftKept
<1>9. CASE DrainRemoves
    <2>1. /\ UNCHANGED <<pending, flusher, leftover, enqueued, perished>>
          /\ DOMAIN files' \subseteq DOMAIN files
          /\ \A f \in DOMAIN files' : files'[f] = files[f]
        BY <1>9 DEF DrainRemoves, Without, Remaining
    <2> QED BY <2>1, LeftKept
<1>10. CASE \/ DrainBegins \/ DrainReads \/ DrainReadFails \/ DrainEnds \/ DrainDelivered
            \/ DrainRefused \/ DrainFails \/ DrainRemoveFails \/ Signal
            \/ UNCHANGED uplinkVars
    <2>1. UNCHANGED <<pending, flusher, files, leftover, enqueued, perished>>
        BY <1>10 DEF DrainBegins, DrainReads, DrainReadFails, DrainEnds, DrainDelivered,
                     DrainRefused, DrainFails, DrainRemoveFails, Signal, uplinkVars
    <2> QED BY <2>1, LeftKept
<1> QED BY <1>1, <1>2, <1>3, <1>4, <1>5, <1>6, <1>7, <1>8, <1>9, <1>10 DEF UplinkNext

-----------------------------------------------------------------------------
(* The theorems *)

LEMMA UplinkInitInv == UplinkInit => UplinkInv
<1> SUFFICES ASSUME UplinkInit PROVE UplinkInv
    OBVIOUS
<1>1. /\ Elems(pending) = {} /\ Elems(flusher.batch) = {} /\ Elems(drain.body) = {}
      /\ DOMAIN files = {} /\ drain.at = "idle" /\ enqueued = 0
    BY ElemsOfEmpty DEF UplinkInit, FlusherIdle, DrainIdle
<1>2. UplinkTypeOK
    <2>1. /\ MaxEvents \in Nat /\ <<>> \in Seq(Events) /\ 0 \in 0 .. MaxEvents
          /\ files \in [DOMAIN files -> Seq(Events)]
        BY UplinkAssumption DEF UplinkInit
    <2> QED BY <1>1, <2>1 DEF UplinkInit, UplinkTypeOK, FlusherIdle, DrainIdle
<1>3. OrderInv /\ WalkInv
    BY <1>1 DEF OrderInv, WalkInv
<1>4. GivenUpInv
    BY <1>1 DEF UplinkInit, GivenUpInv, OldestGivenUp
<1>5. SendInv
    BY <1>1 DEF UplinkInit, SendInv, RepeatsAreUnsettled
<1>6. EventsAccounted
    BY <1>1 DEF EventsAccounted
<1>7. CapKept
    <2>1. DOMAIN files \ stuck = {} /\ Cardinality({}) = 0
        BY <1>1, FS_EmptySet
    <2> QED BY <2>1 DEF CapKept
<1> QED BY <1>2, <1>3, <1>4, <1>5, <1>6, <1>7 DEF UplinkInv

LEMMA UplinkNextInv == UplinkInv /\ [UplinkNext]_uplinkVars => UplinkInv'
<1> SUFFICES ASSUME UplinkInv, [UplinkNext]_uplinkVars PROVE UplinkInv'
    OBVIOUS
<1>1. CASE \E final \in BOOLEAN : FlushBegins(final)
    BY <1>1, FlushBeginsInv
<1>2. CASE Enqueue \/ Delivered \/ Refused \/ DeliverFails \/ Persist \/ PersistFails
    BY <1>2, EnqueueInv, DeliveredInv, RefusedInv, DeliverFailsInv, PersistInv,
       PersistFailsInv
<1>3. CASE DrainBegins \/ DrainReads \/ DrainReadFails \/ DrainEnds \/ DrainDelivered
         \/ DrainRefused
    BY <1>3, DrainBeginsInv, DrainReadsInv, DrainReadFailsInv, DrainEndsInv, DrainDeliveredInv,
       DrainRefusedInv
<1>4. CASE DrainFails \/ DrainRemoves \/ DrainRemoveFails
    BY <1>4, DrainFailsInv, DrainRemovesInv, DrainRemoveFailsInv
<1>5. CASE MainReturns \/ Killed
    BY <1>5, DiesInv DEF MainReturns, Killed
<1>6. CASE Boot
    BY <1>6, BootInv
<1>7. CASE Signal
    BY <1>7, UplinkStutters DEF Signal
<1>8. CASE UNCHANGED uplinkVars
    BY <1>8, UplinkStutters DEF uplinkVars
<1> QED BY <1>1, <1>2, <1>3, <1>4, <1>5, <1>6, <1>7, <1>8 DEF UplinkNext

\* The inductive invariant holds of every behaviour of the uplink, whatever
\* fails and however often the process dies.
THEOREM UplinkInvariance == UplinkSpec => []UplinkInv
<1> QED BY UplinkInitInv, UplinkNextInv, PTL DEF UplinkSpec

\* EventsAccounted: no event gets lost between Enqueue, flush, persist and
\* drainOnce without the service, an eviction, an expiry or a death of the
\* process to account for it.
THEOREM NoEventLost == UplinkSpec => []EventsAccounted
<1>1. UplinkInv => EventsAccounted
    BY DEF UplinkInv
<1> QED BY <1>1, UplinkInvariance, PTL

\* RepeatsAreUnsettled: the service gets an event twice only when the answer to
\* a POST was lost or a file that had been answered could not be removed.
THEOREM RepeatsHaveAReason == UplinkSpec => []RepeatsAreUnsettled
<1>1. UplinkInv => RepeatsAreUnsettled
    BY DEF UplinkInv, SendInv
<1> QED BY <1>1, UplinkInvariance, PTL

\* DiskBounded: persist keeps the queue's own files within the cap, for batches
\* and files of any size, and the .tmp files beside them hold nothing that is in
\* one of these, however often a write fails or the process dies in one.
THEOREM QueueWithinCap == UplinkSpec => []DiskBounded
<1>1. UplinkInit => LeftInv
    BY DEF UplinkInit, LeftInv
<1>2. UplinkInv /\ LeftInv /\ [UplinkNext]_uplinkVars => LeftInv'
    BY LeftNextInv
<1>3. UplinkInv /\ LeftInv => DiskBounded
    BY DEF UplinkInv, CapKept, LeftInv, DiskBounded, EventsIn
<1> QED BY <1>1, <1>2, <1>3, UplinkInvariance, PTL DEF UplinkSpec

\* OldestGivenUp: what eviction and expiry give up is older than what they keep.
THEOREM OldestGoesFirst == UplinkSpec => []OldestGivenUp
<1>1. UplinkInv => OldestGivenUp
    BY DEF UplinkInv, GivenUpInv
<1> QED BY <1>1, UplinkInvariance, PTL

\* ReplayedInOrder: when drainOnce has a file answered, every older file in the
\* directory has been answered before, unless it could not be read, also when
\* the flusher has written and evicted files during the walk.
THEOREM ReplayIsInOrder == UplinkSpec => ReplayedInOrder
<1> DEFINE InOrder ==
        drain.at = "posting" /\ drain'.at = "posted" =>
            \A f \in DOMAIN files \ drain.skipped : f < drain.file =>
                \A e \in Elems(files[f]) : received[e] > 0 \/ e \in refused
<1>1. UplinkInv => InOrder
    <2> SUFFICES ASSUME UplinkInv, drain.at = "posting",
                        NEW f \in DOMAIN files \ drain.skipped, f < drain.file
                 PROVE  \A e \in Elems(files[f]) : Answered(e)
        BY DEF Answered
    <2>1. /\ drain.file \in drain.todo /\ \A g \in drain.todo : drain.file <= g
          /\ f \in Nat /\ drain.file \in Nat
        BY Ranges DEF UplinkInv, WalkInv, UplinkTypeOK
    <2>2. f \notin drain.todo /\ ~(drain.file < f)
        BY <2>1
    <2> QED BY <2>1, <2>2 DEF UplinkInv, WalkInv
<1>2. UplinkInv /\ [UplinkNext]_uplinkVars => [InOrder]_uplinkVars
    BY <1>1
<1> QED BY <1>2, UplinkInvariance, PTL DEF UplinkSpec, ReplayedInOrder
=============================================================================
