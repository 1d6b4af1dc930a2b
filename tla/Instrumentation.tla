-------------------------- MODULE Instrumentation --------------------------
(***************************************************************************)
(* The instrumentation of the Python SDK as a whole: an application uses   *)
(* one of its integrations, and all of them end in events of the same      *)
(* InferenceLogger.                                                        *)
(***************************************************************************)
EXTENDS VendorCalls, SdkCallbacks, SyncLogger

\* The id of a span is a fresh uuid4(): no two of them are the same.
ASSUME IdsAssumption ==
    /\ Calls \cap Threads = {}
    /\ (Calls \cup Threads) \cap (LlmRuns \cup AllToolRuns) = {}

vars == <<integration, reports, sdkClosed, vendorVars, callbackVars, syncVars>>

Init == SpanInit /\ VendorInit /\ CallbackInit /\ SyncInit

WithVendor ==
    /\ integration = "vendor"
    /\ VendorNext
    /\ UNCHANGED <<integration, callbackVars, syncVars>>

WithCallbacks ==
    /\ integration \in {"langchain", "llamaindex", "llamaindex_sync"}
    /\ CallbackNext
    /\ UNCHANGED <<integration, vendorVars, syncVars>>

WithSyncLogger ==
    /\ integration = "sync"
    /\ SyncNext
    /\ UNCHANGED <<integration, vendorVars, callbackVars>>

\* The asynchronous logger is closed by the application when it likes.
LoggerCloses ==
    /\ integration # "sync"
    /\ CloseLogger
    /\ UNCHANGED <<integration, vendorVars, callbackVars, syncVars>>

Next == WithVendor \/ WithCallbacks \/ WithSyncLogger \/ LoggerCloses

Spec == Init /\ [][Next]_vars

-----------------------------------------------------------------------------
(* Properties *)

Runs == LlmRuns \cup AllToolRuns

\* Every call is reported once: never twice, however often its client was
\* instrumented, and at least once when it is over, unless the logger was
\* closed, the client was not instrumented when the call was made, or a
\* stream of google was never begun (client.py:448-450, _instrument.py:40-41).
OncePerCall ==
    /\ \A s \in SpanIds : Len(reports[s]) <= 1
    /\ \A c \in Calls :
         call[c].phase = "over" /\ call[c].sent /\ call[c].layers > 0
           => sdkClosed \/ Len(reports[c]) = 1
    /\ \A r \in Runs :
         run[r].phase = "over" /\ r \notin held => sdkClosed \/ Len(reports[r]) = 1
    /\ \A t \in Threads : at[t] = "over" => sdkClosed \/ Len(reports[t]) = 1

Reported(s, status) == \A i \in 1 .. Len(reports[s]) : reports[s][i].status = status

\* The status of an event is what became of the call, as far as the SDK is told:
\* an error, a timeout or a cancellation that reaches the wrapper, or that
\* LangChain calls the handler for, is reported as such, and no other call is
\* (client.py:432-450).  Not told are what comes after the opening of a stream of
\* anthropic, a customer who does not go on with a stream, and the cancellations
\* that LangChain keeps to itself.  The handler of LlamaIndex is told and may yet
\* report "ok": it does not look at an exception in the payload
\* (llamaindex.py:103-135).
FaithfulStatus ==
    /\ \A c \in Calls :
         Reported(c, IF call[c].fate \in {"error", "timeout", "cancelled"} /\ call[c].told
                     THEN call[c].fate ELSE "ok")
    /\ integration = "langchain" =>
         \A r \in Runs : Reported(r, IF run[r].told THEN run[r].fate ELSE "ok")
    /\ integration \in {"llamaindex", "llamaindex_sync"} =>
         \A r \in Runs : Reported(r, "ok") \/ Reported(r, run[r].fate)
    /\ \A t \in Threads : Reported(t, StatusOf(outcome[t]))

\* What an event may have for the output of a call.
OutputsOf(x) ==
    CASE x.kind = "anthropic_stream" -> {<<>>, Preview(x.got)}
      [] x.kind = "google_stream" /\ x.fate = "ok"
           -> {Preview(x.got), Preview(x.got \o GoogleResponse(x.last, x.n).text)}
      [] OTHER -> {Preview(x.got)}

\* What an event may have for the output of a run.
OutputsOfRun(x) ==
    CASE integration = "langchain" -> {Preview(x.got), Preview(x.got \o x.got)}
      [] integration = "llamaindex_sync" -> {<<>>, Preview(x.got)}
      [] OTHER -> {Preview(x.got)}

\* The output of an event is the preview of what the customer got: its pieces in
\* order, none missing, twice or of another call, cut and redacted (client.py:
\* 77-80, 203-210).  It is allowed to miss all of a stream of anthropic, which the
\* wrapper does not look at, and of an answer LlamaIndex's handler gets without a
\* loop, when it has reported already; the last message of a stream of google, which
\* is taken "for final token counts", and LangChain's answer behind its tokens
\* may come twice (google.py:96-103, langchain.py:139-158).
FaithfulOutput ==
    /\ \A c \in Calls : \A i \in 1 .. Len(reports[c]) :
         reports[c][i].output \in OutputsOf(call[c])
    /\ \A r \in LlmRuns : \A i \in 1 .. Len(reports[r]) :
         reports[r][i].output \in OutputsOfRun(run[r])

\* A tool's event names the inference that asked for the tool or, where another
\* request shares the handler, one of that request that ended after it: the event
\* is never linked to an earlier round, nor to an inference that had ended before
\* the tool was asked for (langchain.py:150-167, 184-191, llamaindex.py:103-131).
ToolsLinked ==
    \A t \in AllToolRuns : \A i \in 1 .. Len(reports[t]) :
        LET own == LlmRun(t[1], t[2])
            p == reports[t][i].parent
        IN p # own => /\ p \in LlmRuns /\ p[1] # t[1] /\ Handler(p) = Handler(t)
                      /\ own \in run[p].before

\* A call of the synchronous logger that began before close() did is never left
\* waiting for a loop that has stopped: close() first waits for a coroutine of
\* its own, which is behind it in the queue (sync.py:99-111, 183-186).
EarlyCallsReturn ==
    \A t \in Threads :
        at[t] \in {"entering", "exiting"} /\ waitsOn[t] \in over => t \in late
=============================================================================
