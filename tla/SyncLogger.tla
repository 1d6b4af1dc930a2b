----------------------------- MODULE SyncLogger -----------------------------
(***************************************************************************)
(* The synchronous facade of the SDK (chatbot_sdk/sync.py): threads of the *)
(* application, a daemon thread that runs an asyncio loop, and the         *)
(* coroutines the former submit to the latter and wait for without a       *)
(* timeout.                                                                *)
(*                                                                         *)
(* run_coroutine_threadsafe() queues a callback on the loop; the callback  *)
(* makes a task, whose step is queued in its turn, and so is the callback  *)
(* that hands its result to the waiting thread.  An iteration of the loop  *)
(* runs what was queued when it began; loop.stop() ends the loop after the *)
(* iteration in which it runs.  The coroutines of this module run to their *)
(* end in one step, as they wait for nothing (closing the transport does,  *)
(* which is left out here: see SdkTransport).  close() does the same when  *)
(* its coroutine raises, which the transport's does after _closed is set;  *)
(* a KeyboardInterrupt in a thread that waits is left out.                 *)
(***************************************************************************)
EXTENDS InferenceSpan

CONSTANTS Threads,   (* threads of the application that log inferences     *)
          Owner,     (* the thread that starts and closes the logger       *)
          MaxLoops   (* bound of the model: times the logger is started    *)

ASSUME SyncAssumption ==
    /\ Threads \subseteq SpanIds
    /\ Owner \notin Threads
    /\ MaxLoops \in Nat \ {0}

VARIABLES
    current,   (* self._loop: which loop, or 0 for None                    *)
    loops,     (* loops that were made                                     *)
    ready,     (* ready[l]: what is queued on each loop                    *)
    batch,     (* what is left of the iteration of each loop               *)
    ending,    (* loops that stop after this iteration, or have stopped    *)
    over,      (* loops that have stopped                                  *)
    at,        (* what each thread does                                    *)
    waitsOn,   (* the loop on which the coroutine of a thread is queued    *)
    outcome,   (* how the body of each thread's span ended                 *)
    late       (* history: threads whose last call began after close() did *)

syncVars == <<current, loops, ready, batch, ending, over, at, waitsOn, outcome, late>>

Callers == Threads \cup {Owner}
LoopIds == 1 .. MaxLoops

SyncInit ==
    /\ current = 0 /\ loops = 0
    /\ ready = [l \in LoopIds |-> <<>>]
    /\ batch = [l \in LoopIds |-> 0]
    /\ ending = {} /\ over = {}
    /\ at = [t \in Callers |-> "idle"]
    /\ waitsOn = [t \in Callers |-> 0]
    /\ outcome = [t \in Threads |-> "none"]
    /\ late = {}

-----------------------------------------------------------------------------
(* The application's side *)

\* _submit_coro() by the thread t, which then waits in `waiting`.  Without a
\* loop the assertion fails, and on a closed loop call_soon_threadsafe()
\* raises: the thread goes on with an exception.
SubmitCoro(t, waiting) ==
    IF current = 0 \/ current \in over
    THEN /\ at' = [at EXCEPT ![t] = "raised"]
         /\ UNCHANGED <<ready, waitsOn, late>>
    ELSE /\ at' = [at EXCEPT ![t] = waiting]
         /\ waitsOn' = [waitsOn EXCEPT ![t] = current]
         /\ ready' = [ready EXCEPT ![current] = Append(@, <<"callback", t>>)]
         /\ late' = IF at[Owner] \in {"closing", "stopping", "joining"}
                    THEN late \cup {t} ELSE late \ {t}

\* start(): a new loop in a new thread, and the transport is started in it.
Start ==
    /\ at[Owner] = "idle" /\ current = 0
    /\ loops < MaxLoops
    /\ loops' = loops + 1 /\ current' = loops + 1
    /\ at' = [at EXCEPT ![Owner] = "starting"]
    /\ waitsOn' = [waitsOn EXCEPT ![Owner] = loops + 1]
    /\ ready' = [ready EXCEPT ![loops + 1] = <<<<"callback", Owner>>>>]
    /\ UNCHANGED <<batch, ending, over, outcome, late, reports, sdkClosed>>

MutClose ==
    /\ at[Owner] = "idle" /\ current # 0
    /\ at' = [at EXCEPT ![Owner] = "stopping"]
    /\ UNCHANGED <<current, loops, ready, batch, ending, over, waitsOn, outcome, late,
                   reports, sdkClosed>>

\* close(), first half: the transport is closed in the loop.
Close ==
    /\ at[Owner] = "idle" /\ current # 0
    /\ SubmitCoro(Owner, "closing")
    /\ UNCHANGED <<current, loops, batch, ending, over, outcome, reports, sdkClosed>>

\* inference() and tool_call(): the span is entered in the loop.
Enter(t) ==
    /\ at[t] = "idle"
    /\ SubmitCoro(t, "entering")
    /\ UNCHANGED <<current, loops, batch, ending, over, outcome, reports, sdkClosed>>

\* The body of the with statement ends, and the span is left in the loop with
\* the exception that came out of it, if any.
Body(t) ==
    /\ at[t] = "body"
    /\ \E e \in {"none", "error", "timeout"} : outcome' = [outcome EXCEPT ![t] = e]
    /\ SubmitCoro(t, "exiting")
    /\ UNCHANGED <<current, loops, batch, ending, over, reports, sdkClosed>>

-----------------------------------------------------------------------------
(* The daemon's side *)

\* What a thread does once its future has a result.
After == [entering |-> "body", exiting |-> "over", starting |-> "idle", closing |-> "stopping"]

Resume(t) == at' = [at EXCEPT ![t] = After[@]]

\* The coroutine of t runs: the span is left and reported, or the transport
\* is closed for good.
RunCoro(t) ==
    /\ sdkClosed' = (sdkClosed \/ at[t] = "closing")
    /\ IF at[t] = "exiting"
       THEN SubmitReport(t, InferenceLog(NewSpan, outcome[t]), 1)
       ELSE UNCHANGED reports

\* One callback of the iteration.
RunOne(l) ==
    /\ batch[l] > 0
    /\ batch' = [batch EXCEPT ![l] = @ - 1]
    /\ LET job == Head(ready[l])
           then(what) == ready' = [ready EXCEPT ![l] = Append(Tail(@), <<what, job[2]>>)]
       IN \/ /\ job[1] = "callback" /\ then("task")
             /\ UNCHANGED <<ending, at, reports, sdkClosed>>
          \/ /\ job[1] = "task" /\ then("result")
             /\ RunCoro(job[2])
             /\ UNCHANGED <<ending, at>>
          \/ /\ job[1] = "result"
             /\ Resume(job[2])
             /\ ready' = [ready EXCEPT ![l] = Tail(@)]
             /\ UNCHANGED <<ending, reports, sdkClosed>>
          \/ /\ job[1] = "stop"
             /\ ending' = ending \cup {l}
             /\ ready' = [ready EXCEPT ![l] = Tail(@)]
             /\ UNCHANGED <<at, reports, sdkClosed>>
    /\ UNCHANGED <<current, loops, over, waitsOn, outcome, late>>

\* The next iteration begins with everything that is queued by now.
Iterate(l) ==
    /\ batch[l] = 0 /\ l \notin ending /\ ready[l] # <<>>
    /\ batch' = [batch EXCEPT ![l] = Len(ready[l])]
    /\ UNCHANGED <<current, loops, ready, ending, over, at, waitsOn, outcome, late,
                   reports, sdkClosed>>

\* run_forever() returns, and loop.close() drops what is still queued.
EndLoop(l) ==
    /\ batch[l] = 0 /\ l \in ending \ over
    /\ over' = over \cup {l}
    /\ ready' = [ready EXCEPT ![l] = <<>>]
    /\ UNCHANGED <<current, loops, batch, ending, at, waitsOn, outcome, late,
                   reports, sdkClosed>>

\* close(), second half: call_soon_threadsafe(loop.stop).
AskToStop ==
    /\ at[Owner] = "stopping"
    /\ at' = [at EXCEPT ![Owner] = "joining"]
    /\ ready' = [ready EXCEPT ![current] = Append(@, <<"stop", Owner>>)]
    /\ UNCHANGED <<current, loops, batch, ending, over, waitsOn, outcome, late,
                   reports, sdkClosed>>

\* join(timeout=5.0) returns when the daemon has ended, or after the timeout while
\* the loop still runs.  The logger can be started again in either case.
Joined ==
    /\ at[Owner] = "joining"
    /\ at' = [at EXCEPT ![Owner] = "idle"]
    /\ current' = 0
    /\ UNCHANGED <<loops, ready, batch, ending, over, waitsOn, outcome, late,
                   reports, sdkClosed>>

DaemonStep == \E l \in LoopIds : RunOne(l) \/ Iterate(l) \/ EndLoop(l)

OwnerStep == Start \/ Close \/ AskToStop \/ Joined

SyncNext == DaemonStep \/ OwnerStep \/ \E t \in Threads : Enter(t) \/ Body(t)
=============================================================================
