--------------------------- MODULE DropOldestQueue ---------------------------
(***************************************************************************)
(* What the SDK transport promises the application, without timers,        *)
(* retries, HTTP answers or counters: a bounded queue that takes           *)
(* everything put into it while it is open, forgets the oldest entry when  *)
(* it is full, hands entries over in order in batches of at most Batch,    *)
(* one batch at a time, and once drained after being shut stays empty.     *)
(***************************************************************************)
EXTENDS Integers, Sequences

CONSTANTS Batch, Capacity, Bound

VARIABLES queue,   (* entries not yet handed over, oldest first             *)
          flight,  (* the batch handed over and not yet settled             *)
          puts,    (* how many entries were ever put: the next is puts + 1  *)
          open     (* whether entries are still taken                       *)

queueVars == <<queue, flight, puts, open>>

Init == queue = <<>> /\ flight = <<>> /\ puts = 0 /\ open = TRUE

Put ==
    /\ open
    /\ puts < Bound
    /\ puts' = puts + 1
    /\ queue' = Append(IF Len(queue) = Capacity THEN Tail(queue) ELSE queue,
                       puts + 1)
    /\ UNCHANGED <<flight, open>>

\* A batch is as large as it can be, and none is in flight yet.
HandOver ==
    LET n == IF Len(queue) < Batch THEN Len(queue) ELSE Batch IN
    /\ flight = <<>>
    /\ queue # <<>>
    /\ flight' = SubSeq(queue, 1, n)
    /\ queue' = SubSeq(queue, n + 1, Len(queue))
    /\ UNCHANGED <<puts, open>>

\* The batch is delivered or given up, as a whole and for good.
Settle ==
    /\ flight # <<>>
    /\ flight' = <<>>
    /\ UNCHANGED <<queue, puts, open>>

Shut ==
    /\ open
    /\ open' = FALSE
    /\ UNCHANGED <<queue, flight, puts>>

Next == Put \/ HandOver \/ Settle \/ Shut

Spec == Init /\ [][Next]_queueVars
=============================================================================
