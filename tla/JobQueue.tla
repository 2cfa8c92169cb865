------------------------------- MODULE JobQueue -------------------------------
(***************************************************************************)
(* What a util_queue promises: submitted jobs are started first in, first  *)
(* out, each at most once per submission, and the fence of a job says it   *)
(* is over only when the job has been run to its end, was cancelled before *)
(* it started, or was given up when the queue closed.                      *)
(***************************************************************************)
EXTENDS Sequences

CONSTANTS Jobs, Null

VARIABLES pending,   \* jobs whose fence is not signalled
          queue,     \* jobs waiting to start, oldest first; Null: cancelled
          running,   \* jobs a thread is executing
          cancelled  \* jobs taken off the queue, fence not yet signalled

vars == <<pending, queue, running, cancelled>>

Init == pending = {} /\ queue = <<>> /\ running = {} /\ cancelled = {}

Queued == {j \in Jobs : \E i \in DOMAIN queue : queue[i] = j}

\* The fence is reset and the job is put at the end, at once or later.
Submit(j) ==
    /\ j \notin pending
    /\ pending' = pending \cup {j}
    /\ queue' \in {queue, Append(queue, j)}
    /\ UNCHANGED <<running, cancelled>>

Enqueue(j) ==
    /\ j \in pending \ (Queued \cup running \cup cancelled)
    /\ queue' = Append(queue, j)
    /\ UNCHANGED <<pending, running, cancelled>>

Start ==
    /\ queue # <<>>
    /\ queue' = Tail(queue)
    /\ running' = running \cup ({Head(queue)} \ {Null})
    /\ UNCHANGED <<pending, cancelled>>

Finish(j) ==
    /\ j \in running
    /\ running' = running \ {j}
    /\ pending' = pending \ {j}
    /\ UNCHANGED <<queue, cancelled>>

Cancel(i) ==
    /\ queue[i] # Null
    /\ queue' = [queue EXCEPT ![i] = Null]
    /\ cancelled' = cancelled \cup {queue[i]}
    /\ UNCHANGED <<pending, running>>

Cancelled(j) ==
    /\ j \in cancelled
    /\ cancelled' = cancelled \ {j}
    /\ pending' = pending \ {j}
    /\ UNCHANGED <<queue, running>>

\* The queue is closed and forgets its jobs.  Which of them are signalled is left
\* open here; NoJobLeftBehind of UtilQueue is about that.
Close ==
    /\ queue' = <<>>
    /\ \E S \in SUBSET Queued : pending' = pending \ S
    /\ UNCHANGED <<running, cancelled>>

Next == \/ Start \/ Close
        \/ \E j \in Jobs : Submit(j) \/ Enqueue(j) \/ Finish(j) \/ Cancelled(j)
        \/ \E i \in DOMAIN queue : Cancel(i)

Spec == Init /\ [][Next]_vars

=============================================================================
