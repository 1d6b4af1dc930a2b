------------------------------- MODULE Uplink -------------------------------
(***************************************************************************)
(* The uplink of the agent (apps/inferspect-agent/internal/uplink): the    *)
(* flusher goroutine that POSTs what Enqueue has collected (transport.go), *)
(* the disk queue that keeps a batch whose POST failed, and the drain      *)
(* goroutine that replays it (queue.go).  The goroutines share the queue's *)
(* directory; persist holds the mutex, but reading, POSTing and removing a *)
(* file do not.  The process can be killed, or asked to end by a signal    *)
(* (cmd/agent/main.go), and is started again on the same directory.        *)
(*                                                                         *)
(* An event is the number of its Enqueue, a file the number of its         *)
(* persist: names begin with a timestamp, so they sort in that order, and  *)
(* the directory is a function from the names to the contents.             *)
(* Sizes are counted in events.  flushCh is left out: it only hastens what *)
(* the ticker does at any time.                                            *)
(***************************************************************************)
EXTENDS Naturals, Sequences, FiniteSets

CONSTANTS
    Capacity,     (* maxBytes: what the files may hold together             *)
    ServerMax,    (* events the service takes in an envelope, else 413      *)
    Invalid,      (* events that make the service answer 422                *)
    UplinkFaults, (* which of the failures below may happen                 *)
    MaxEvents     (* bound of the model: events ever enqueued               *)

Events == 1 .. MaxEvents

ASSUME UplinkAssumption ==
    /\ Capacity \in Nat \ {0}
    /\ ServerMax \in Nat \ {0}
    /\ MaxEvents \in Nat
    /\ Invalid \subseteq Events
    /\ UplinkFaults \subseteq {"outage", "disk", "kill", "age"}

VARIABLES
    pending,    (* Transport.pending                                        *)
    flusher,    (* what Run is doing, and with which batch                  *)
    files,      (* the directory: the batch in each .batch file             *)
    leftover,   (* the directory: events in .tmp files nobody looks at      *)
    drain,      (* what drainOnce is doing                                  *)
    signalled,  (* ctx is cancelled                                         *)
    up,         (* the process runs                                         *)
    enqueued,   (* history: how many events there were                      *)
    persisted,  (* history: how many files there were                       *)
    received,   (* history: how often the service took an event: 0, 1, more *)
    refused,    (* history: events of a batch answered with 4xx             *)
    forgotten,  (* history: events evicted or expired on disk               *)
    perished,   (* history: events that died with the process or whose      *)
                (* persist failed                                           *)
    unsettled,  (* history: events of a POST whose success went unrecorded  *)
    stuck       (* history: files that were due to go and did not           *)

historyVars == <<enqueued, persisted, received, refused, forgotten, perished,
                 unsettled, stuck>>
uplinkVars == <<pending, flusher, files, leftover, drain, signalled, up, historyVars>>

FlusherIdle == [at |-> "idle", batch |-> <<>>, final |-> FALSE]

DrainIdle ==
    [at |-> "idle", todo |-> {}, file |-> 0, body |-> <<>>, skipped |-> {}]

UplinkInit ==
    /\ pending = <<>>
    /\ flusher = FlusherIdle
    /\ files = [f \in {} |-> <<>>]
    /\ leftover = {}
    /\ drain = DrainIdle
    /\ signalled = FALSE
    /\ up = TRUE
    /\ enqueued = 0
    /\ persisted = 0
    /\ received = [e \in Events |-> 0]
    /\ refused = {}
    /\ forgotten = {}
    /\ perished = {}
    /\ unsettled = {}
    /\ stuck = {}

-----------------------------------------------------------------------------
(* Helpers; the ones called Mut... are bugs the code could have had.          *)

Fault(kind) == kind \in UplinkFaults

Elems(s) == {s[i] : i \in 1 .. Len(s)}

\* The service's answers: 413 or 422 for the whole envelope, else it may be 2xx.
Refuses(s) == Len(s) > ServerMax \/ Elems(s) \cap Invalid # {}

\* The service has taken an envelope; an agent that counts would stop at two.
Received(s) ==
    received' = [e \in Events |->
                    IF e \in Elems(s) /\ received[e] < 2 THEN received[e] + 1
                    ELSE received[e]]

EventsIn(S) == UNION {Elems(files[f]) : f \in S}

\* What the files of S hold together; no event is in two of them.
SizeOf(S) == Cardinality(EventsIn(S))

\* Making room by removing the newest.
MutVictims(n) ==
    {f \in DOMAIN files : SizeOf({g \in DOMAIN files : g <= f}) + n > Capacity}

\* Forgetting the room the new file itself needs.
MutVictimsOnly(n) ==
    {f \in DOMAIN files : SizeOf({g \in DOMAIN files : g >= f}) > Capacity}

\* The files persist removes to make room for n events: the oldest one, as
\* long as it and those after it leave no room.
Victims(n) ==
    {f \in DOMAIN files : SizeOf({g \in DOMAIN files : g >= f}) + n > Capacity}

\* What of S gets removed: the directory cannot be read, which counts as empty,
\* or os.Remove fails, which is only logged, if that.
Removable(S) == {R \in SUBSET S : R = S \/ Fault("disk")}

\* The directory without the files R.
Remaining(R) == [f \in DOMAIN files \ R |-> files[f]]

\* The directory d with one more file.
WithFile(d, f, batch) == [g \in DOMAIN d \cup {f} |-> IF g = f THEN batch ELSE d[g]]

\* Of the files S, all of them due to go, those of R do.
GiveUp(S, R) ==
    /\ forgotten' = forgotten \cup EventsIn(R)
    /\ stuck' = stuck \cup (S \ R)

OnDisk(f) == f \in DOMAIN files

\* Removing the first file, as if no other had stayed before it.
MutWithoutFirst(f) ==
    Remaining({g \in DOMAIN files : \A h \in DOMAIN files : g <= h})

\* Removing nothing.
MutWithoutNone(f) == files

\* Removing the file of that name.
Without(f) == Remaining({f})

NothingPending == pending = <<>>

-----------------------------------------------------------------------------
(* The flusher: Enqueue, Run, flush and deliver *)

Enqueue ==
    /\ up
    /\ enqueued < MaxEvents
    /\ enqueued' = enqueued + 1
    /\ pending' = Append(pending, enqueued + 1)
    /\ UNCHANGED <<flusher, files, leftover, drain, signalled, up, persisted,
                   received, refused, forgotten, perished, unsettled, stuck>>

\* flush takes all that is pending, however much.  Once the context is
\* cancelled, Run may come round to its last flush.
FlushBegins(final) ==
    /\ up
    /\ flusher.at = "idle"
    /\ final => signalled
    /\ final \/ ~NothingPending
    /\ flusher' = [at |-> IF NothingPending THEN "ended" ELSE "posting",
                   batch |-> pending, final |-> final]
    /\ pending' = <<>>
    /\ UNCHANGED <<files, leftover, drain, signalled, up, historyVars>>

\* flush returns, the last one to the end of Run.
FlushReturns ==
    flusher' = IF flusher.final THEN [FlusherIdle EXCEPT !.at = "ended"]
               ELSE FlusherIdle

\* deliver is answered with 2xx.
Delivered ==
    /\ up
    /\ flusher.at = "posting"
    /\ ~Refuses(flusher.batch)
    /\ Received(flusher.batch)
    /\ FlushReturns
    /\ UNCHANGED <<pending, files, leftover, drain, signalled, up, enqueued,
                   persisted, refused, forgotten, perished, unsettled, stuck>>

\* With 4xx: "delivered", too.
Refused ==
    /\ up
    /\ flusher.at = "posting"
    /\ Refuses(flusher.batch)
    /\ refused' = refused \cup Elems(flusher.batch)
    /\ FlushReturns
    /\ UNCHANGED <<pending, files, leftover, drain, signalled, up, enqueued,
                   persisted, received, forgotten, perished, unsettled, stuck>>

\* With 5xx, or not at all: an outage, or the context was cancelled under the
\* POST.  The service may have taken the envelope.
DeliverFails ==
    /\ up
    /\ flusher.at = "posting"
    /\ Fault("outage") \/ (signalled /\ ~flusher.final)
    /\ flusher' = [flusher EXCEPT !.at = "failed"]
    /\ \/ UNCHANGED <<received, unsettled>>
       \/ /\ ~Refuses(flusher.batch)
          /\ Received(flusher.batch)
          /\ unsettled' = unsettled \cup Elems(flusher.batch)
    /\ UNCHANGED <<pending, files, leftover, drain, signalled, up, enqueued,
                   persisted, refused, forgotten, perished, stuck>>

\* A part of the files that are due, as persist comes to them: oldest first.
Begun(due) == {S \in SUBSET due : \A f \in S, g \in due : g < f => g \in S}

\* persist makes room and writes the file, under a .tmp name and then renamed.
Persist ==
    /\ up
    /\ flusher.at = "failed"
    /\ LET due == Victims(Len(flusher.batch)) IN
          \E R \in Removable(due) :
             /\ files' = WithFile(Remaining(R), persisted + 1, flusher.batch)
             /\ GiveUp(due, R)
    /\ persisted' = persisted + 1
    /\ FlushReturns
    /\ UNCHANGED <<pending, leftover, drain, signalled, up, enqueued, received,
                   refused, perished, unsettled>>

\* The write or the rename fails, when room has already been made.  What has
\* been written stays under the .tmp name.
PersistFails ==
    /\ up
    /\ Fault("disk")
    /\ flusher.at = "failed"
    /\ LET due == Victims(Len(flusher.batch)) IN
          \E R \in Removable(due) :
             /\ files' = Remaining(R)
             /\ GiveUp(due, R)
    /\ perished' = perished \cup Elems(flusher.batch)
    /\ leftover' \in {leftover, leftover \cup Elems(flusher.batch)}
    /\ FlushReturns
    /\ UNCHANGED <<pending, drain, signalled, up, enqueued, persisted, received,
                   refused, unsettled>>

-----------------------------------------------------------------------------
(* The drain goroutine: runDrain, drainOnce and post *)

\* A tick, and there are files: their names are taken under the mutex.
DrainBegins ==
    /\ up
    /\ ~signalled
    /\ drain.at = "idle"
    /\ DOMAIN files # {}
    /\ drain' = [DrainIdle EXCEPT !.at = "walking", !.todo = DOMAIN files]
    /\ UNCHANGED <<pending, flusher, files, leftover, signalled, up,
                   historyVars>>

\* The next of the files is up.
DrainNext(f) ==
    /\ up
    /\ ~signalled
    /\ drain.at = "walking"
    /\ f \in drain.todo
    /\ \A g \in drain.todo : f <= g

\* It is read and its POST begins; an evicted one is passed over.
DrainReads ==
    /\ \E f \in drain.todo :
          /\ DrainNext(f)
          /\ drain' = IF OnDisk(f)
                      THEN [drain EXCEPT !.at = "posting", !.file = f, !.body = files[f]]
                      ELSE [drain EXCEPT !.todo = @ \ {f}]
    /\ UNCHANGED <<pending, flusher, files, leftover, signalled, up,
                   historyVars>>

\* It is there and cannot be read: the next one is due.
DrainReadFails ==
    /\ Fault("disk")
    /\ \E f \in drain.todo :
          /\ DrainNext(f)
          /\ OnDisk(f)
          /\ drain' = [drain EXCEPT !.todo = @ \ {f}, !.skipped = @ \cup {f}]
    /\ UNCHANGED <<pending, flusher, files, leftover, signalled, up,
                   historyVars>>

DrainEnds ==
    /\ up
    /\ drain.at = "walking"
    /\ drain.todo = {} \/ signalled
    /\ drain' = DrainIdle
    /\ UNCHANGED <<pending, flusher, files, leftover, signalled, up,
                   historyVars>>

\* post is answered with 2xx.
DrainDelivered ==
    /\ up
    /\ drain.at = "posting"
    /\ ~Refuses(drain.body)
    /\ Received(drain.body)
    /\ drain' = [drain EXCEPT !.at = "posted"]
    /\ UNCHANGED <<pending, flusher, files, leftover, signalled, up, enqueued,
                   persisted, refused, forgotten, perished, unsettled, stuck>>

\* With 4xx: the file goes as well.
DrainRefused ==
    /\ up
    /\ drain.at = "posting"
    /\ Refuses(drain.body)
    /\ refused' = refused \cup Elems(drain.body)
    /\ drain' = [drain EXCEPT !.at = "posted"]
    /\ UNCHANGED <<pending, flusher, files, leftover, signalled, up, enqueued,
                   persisted, received, forgotten, perished, unsettled, stuck>>

\* Going on with the next file instead of ending the tick.
MutAfterFailure == [drain EXCEPT !.at = "walking", !.todo = @ \ {drain.file}]

\* Taking no answer for an answer.
MutAfterFailureRemove == [drain EXCEPT !.at = "posted"]

AfterFailure == DrainIdle

\* With 5xx or not at all: the tick is over.
DrainFails ==
    /\ up
    /\ drain.at = "posting"
    /\ Fault("outage") \/ signalled
    /\ drain' = AfterFailure
    /\ \/ UNCHANGED <<received, unsettled>>
       \/ /\ ~Refuses(drain.body)
          /\ Received(drain.body)
          /\ unsettled' = unsettled \cup Elems(drain.body)
    /\ UNCHANGED <<pending, flusher, files, leftover, signalled, up, enqueued,
                   persisted, refused, forgotten, perished, stuck>>

DrainGoesOn ==
    drain' = [DrainIdle EXCEPT !.at = "walking", !.todo = drain.todo \ {drain.file},
                               !.skipped = drain.skipped]

\* The file is removed, and the next one is due.
DrainRemoves ==
    /\ up
    /\ drain.at = "posted"
    /\ files' = Without(drain.file)
    /\ DrainGoesOn
    /\ UNCHANGED <<pending, leftover, flusher, signalled, up, historyVars>>

\* It cannot be removed: an error in the log, and the next one is due.
DrainRemoveFails ==
    /\ up
    /\ Fault("disk")
    /\ drain.at = "posted"
    /\ unsettled' = unsettled \cup Elems(drain.body)
    /\ DrainGoesOn
    /\ UNCHANGED <<pending, flusher, files, leftover, signalled, up, enqueued,
                   persisted, received, refused, forgotten, perished, stuck>>

-----------------------------------------------------------------------------
(* The process *)

\* SIGTERM or Ctrl+C: awaitShutdown cancels the context, nothing more.
Signal ==
    /\ up
    /\ ~signalled
    /\ signalled' = TRUE
    /\ UNCHANGED <<pending, flusher, files, leftover, drain, up, historyVars>>

\* The process is over: what is not on disk is lost, and a POST that has been
\* answered is not remembered.  A persist under way has made some of the room,
\* or all of it and written something under the .tmp name.
Dies ==
    /\ up' = FALSE
    /\ pending' = <<>>
    /\ flusher' = FlusherIdle
    /\ drain' = DrainIdle
    /\ perished' = perished \cup Elems(pending) \cup Elems(flusher.batch)
    /\ unsettled' = unsettled \cup Elems(drain.body)
    /\ \/ UNCHANGED <<files, leftover, forgotten, stuck>>
       \/ /\ flusher.at = "failed"
          /\ LET due == Victims(Len(flusher.batch)) IN
                \E S \in Begun(due) : \E R \in Removable(S) :
                   /\ files' = Remaining(R)
                   /\ GiveUp(S, R)
                   /\ \/ UNCHANGED leftover
                      \/ S = due /\ leftover' = leftover \cup Elems(flusher.batch)
    /\ UNCHANGED <<signalled, enqueued, persisted, received, refused>>

\* main returns from reader.Run with the next record after the signal.  It does
\* not wait for Run of the uplink.
MainReturns ==
    /\ up
    /\ signalled
    /\ Dies

Killed ==
    /\ Fault("kill")
    /\ up
    /\ Dies

\* The agent is started again; files that are too old are removed first.
Boot ==
    /\ ~up
    /\ up' = TRUE
    /\ signalled' = FALSE
    /\ \E newest \in {0} \cup {f \in DOMAIN files : Fault("age")} :
          LET due == {f \in DOMAIN files : f <= newest} IN
          \E R \in Removable(due) :
             /\ files' = Remaining(R)
             /\ GiveUp(due, R)
    /\ UNCHANGED <<pending, leftover, flusher, drain, enqueued, persisted,
                   received, refused, perished, unsettled>>

-----------------------------------------------------------------------------
(* The specification *)

UplinkNext ==
    \/ Enqueue
    \/ \E final \in BOOLEAN : FlushBegins(final)
    \/ Delivered
    \/ Refused
    \/ DeliverFails
    \/ Persist
    \/ PersistFails
    \/ DrainBegins
    \/ DrainReads
    \/ DrainReadFails
    \/ DrainEnds
    \/ DrainDelivered
    \/ DrainRefused
    \/ DrainFails
    \/ DrainRemoves
    \/ DrainRemoveFails
    \/ Signal
    \/ MainReturns
    \/ Killed
    \/ Boot

UplinkSpec == UplinkInit /\ [][UplinkNext]_uplinkVars

\* The goroutines run and the supervisor starts the agent again.  Outages,
\* failing reads and removes and deaths may happen again and again, but none of
\* them every single time: hence the strong fairness.  That main returns after a
\* signal is not assumed: it waits in the ring buffer's Read for a record.
UplinkFairSpec ==
    /\ UplinkSpec
    /\ WF_uplinkVars(Boot)
    /\ SF_uplinkVars(DrainBegins)
    /\ SF_uplinkVars(DrainReads)
    /\ WF_uplinkVars(DrainEnds)
    /\ SF_uplinkVars(DrainDelivered \/ DrainRefused)
    /\ SF_uplinkVars(DrainRemoves)

-----------------------------------------------------------------------------
(* Properties *)

\* No event gets lost between the goroutines, the directory and the service:
\* each is held somewhere, has been taken or refused by the service, was given
\* up with its file, or died with the process before it was on disk.
EventsAccounted ==
    \A e \in 1 .. enqueued :
        \/ e \in Elems(pending) \cup Elems(flusher.batch)
        \/ e \in EventsIn(DOMAIN files)
        \/ received[e] > 0
        \/ e \in refused \cup forgotten \cup perished

\* The service gets an event a second time only if the agent could not know of
\* the first: the flusher and the drain never both send a batch.
RepeatsAreUnsettled == \A e \in Events : received[e] > 1 => e \in unsettled

\* The queue's own files stay within the cap, unless one batch is larger than
\* that or a file was not removed when it was due.  Beyond the cap there may be
\* .tmp files, which the queue neither counts nor removes: they hold events it
\* has given up, none that is still in one of its files.
DiskBounded ==
    LET counted == DOMAIN files \ stuck IN
    /\ Cardinality(counted) > 1 => SizeOf(counted) <= Capacity
    /\ leftover \subseteq perished \ EventsIn(DOMAIN files)

\* What is given up on disk is always older than what is kept.
OldestGivenUp ==
    \A d \in forgotten : \A e \in EventsIn(DOMAIN files \ stuck) : d < e

\* The drain replays the files in the order they were written: when one is
\* taken, every older one on disk has been answered before, or could not be
\* read when it was its turn.
ReplayedInOrder ==
    [][drain.at = "posting" /\ drain'.at = "posted" =>
          \A f \in DOMAIN files \ drain.skipped : f < drain.file =>
              \A e \in Elems(files[f]) : received[e] > 0 \/ e \in refused]_uplinkVars

\* Every file leaves the directory sooner or later, through all outages,
\* restarts and errors, unless the agent hangs for ever after a signal: the
\* drain has ended then and main has not.
FilesLeave ==
    []<>(~signalled) => \A f \in 1 .. MaxEvents : []<>(~OnDisk(f))
=============================================================================
