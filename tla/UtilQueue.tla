------------------------------ MODULE UtilQueue ------------------------------
(***************************************************************************)
(* util_queue (src/util/u_queue.c): worker threads that execute jobs from  *)
(* a ring buffer, application threads that add, wait for, drop and finish  *)
(* jobs, and the shutdown of the queue.                                    *)
(*                                                                         *)
(* Everything but the fences and num_threads is only touched with          *)
(* queue->lock held, so a critical section is one step; cnd_wait ends one  *)
(* and begins another.  Fences are those of Fence.tla.  A job is named by  *)
(* the fence it embeds.                                                    *)
(***************************************************************************)
EXTENDS Integers, FiniteSets

CONSTANTS Workers,     \* the threads of util_queue_init
          Users,       \* the threads that use the queue
          Jobs,        \* jobs with their fences
          HasCleanup,  \* the jobs that come with a cleanup callback
          MaxJobs,     \* max_jobs of util_queue_init
          Flags,       \* whether init is given UTIL_QUEUE_INIT_RESIZE_IF_FULL
          Growth,      \* how many slots a full ring is enlarged by: 8 in the code
          Shutdown,    \* "never", "destroy" or "atexit": see Kill
          Null

NumThreads == Cardinality(Workers)

\* The jobs of util_queue_finish: one per worker, for the barrier of a user.
BarrierJobs == Users \X (0 .. NumThreads - 1)

AllJobs == Jobs \cup BarrierJobs

ASSUME UtilQueueAssumption ==
    /\ IsFiniteSet(Workers) /\ Workers # {} /\ IsFiniteSet(Users)
    /\ HasCleanup \subseteq Jobs
    /\ Jobs \cap BarrierJobs = {}
    /\ Null \notin AllJobs /\ Null \notin Users
    /\ MaxJobs \in Nat \ {0}
    /\ Flags \subseteq BOOLEAN
    /\ Growth \in Nat \ {0}
    /\ Shutdown \in {"never", "destroy", "atexit"}

VARIABLES
    jobs, read_idx, write_idx, num_queued, max_jobs,  \* the ring buffer
    kill_threads, num_threads,
    resize,      \* flags & UTIL_QUEUE_INIT_RESIZE_IF_FULL
    fence,       \* fence[j]: the fence of job j is signalled
    finish_lock, \* the user that holds queue->finish_lock, or Null
    wpc, wjob,   \* each worker's place in util_queue_thread_func, and its job
    upc, ujob,   \* each user's place in the functions it calls, and its job
    fi,          \* the loop counter of util_queue_finish
    barCount,    \* the count of the user's barrier
    closing,     \* progress of util_queue_killall_and_wait
    outcome,     \* history: what became of the last submission of a job
    cleaned,     \* history: its cleanup callback has been called
    before       \* history: jobs added before a user called finish, not over

ring == <<jobs, read_idx, write_idx, num_queued, max_jobs>>
shut == <<kill_threads, num_threads, closing, resize>>
wvars == <<wpc, wjob>>
uvars == <<upc, ujob, fi, barCount, finish_lock>>
hist == <<outcome, cleaned, before>>

vars == <<ring, shut, wvars, uvars, fence, hist>>

Slots == 0 .. max_jobs - 1

Inc(i) == (i + 1) % max_jobs

\* The k-th slot from read_idx on.
Nth(k) == IF read_idx + k < max_jobs THEN read_idx + k ELSE read_idx + k - max_jobs

\* The slots the loops of drop_job and of a dying thread visit:
\* for (i = read_idx; i != write_idx; i = (i + 1) % max_jobs).
Visited ==
    IF read_idx <= write_idx
    THEN read_idx .. write_idx - 1
    ELSE (read_idx .. max_jobs - 1) \cup (0 .. write_idx - 1)

\* Who has to see to it that the fence of job j is signalled: the ring holds
\* the job, a worker has taken it and has not signalled its fence, or a user is
\* blocked in add_job with it or has just taken it off the ring.
InRing(j) == \E i \in Slots : jobs[i] = j
Holds(w, j) == wjob[w] = j /\ wpc[w] \in {"exec", "barrier", "signal"}
Owes(u, j) == ujob[u] = j /\ upc[u] \in {"add_wait", "add_retry", "drop_signal"}

\* util_queue_init.
Init ==
    /\ jobs = [i \in 0 .. MaxJobs - 1 |-> Null]
    /\ read_idx = 0 /\ write_idx = 0 /\ num_queued = 0 /\ max_jobs = MaxJobs
    /\ kill_threads = FALSE /\ num_threads = NumThreads /\ closing = "no"
    /\ resize \in Flags
    /\ fence = [j \in AllJobs |-> TRUE]
    /\ finish_lock = Null
    /\ wpc = [w \in Workers |-> "loop"] /\ wjob = [w \in Workers |-> Null]
    /\ upc = [u \in Users |-> "idle"] /\ ujob = [u \in Users |-> Null]
    /\ fi = [u \in Users |-> 0] /\ barCount = [u \in Users |-> 0]
    /\ outcome = [j \in Jobs |-> "none"]
    /\ cleaned = [j \in Jobs |-> FALSE]
    /\ before = [u \in Users |-> {}]

\* The jobs of S are over.
Settle(S) == before' = [u \in Users |-> before[u] \ S]

\* Mutant: add_job forgets to signal has_queued_cond.
SignalHasQueuedForgotten == UNCHANGED wpc

\* cnd_signal(&queue->has_queued_cond): one sleeping worker, if any, wakes up.
SignalHasQueued ==
    \/ /\ \A w \in Workers : wpc[w] # "asleep"
       /\ UNCHANGED wpc
    \/ \E w \in Workers : wpc[w] = "asleep" /\ wpc' = [wpc EXCEPT ![w] = "loop"]

\* cnd_signal(&queue->has_space_cond): one user asleep in add_job.
SignalHasSpace ==
    \/ /\ \A u \in Users : upc[u] # "add_wait"
       /\ UNCHANGED upc
    \/ \E u \in Users : upc[u] = "add_wait" /\ upc' = [upc EXCEPT ![u] = "add_retry"]
-----------------------------------------------------------------------------
(* util_queue_thread_func                                                  *)

\* cnd_wait(&queue->has_queued_cond) on an empty queue.
WorkerSleep(w) ==
    /\ wpc[w] = "loop"
    /\ ~kill_threads /\ num_queued = 0
    /\ wpc' = [wpc EXCEPT ![w] = "asleep"]
    /\ UNCHANGED <<ring, shut, wjob, uvars, fence, hist>>

\* A condition variable may wake its waiter for no reason.
WorkerSpurious(w) ==
    /\ wpc[w] = "asleep"
    /\ wpc' = [wpc EXCEPT ![w] = "loop"]
    /\ UNCHANGED <<ring, shut, wjob, uvars, fence, hist>>

\* Mutant: the slot is not cleared.
WorkerTakeKeeps(w) ==
    /\ wpc[w] = "loop"
    /\ ~kill_threads /\ num_queued > 0
    /\ wjob' = [wjob EXCEPT ![w] = jobs[read_idx]]
    /\ wpc' = [wpc EXCEPT ![w] = IF jobs[read_idx] = Null THEN "loop" ELSE "exec"]
    /\ read_idx' = Inc(read_idx)
    /\ num_queued' = num_queued - 1
    /\ SignalHasSpace
    /\ UNCHANGED <<jobs, write_idx, max_jobs, shut, ujob, fi, barCount, finish_lock, fence, hist>>

\* Mutant: the fence is signalled before the job is executed.
WorkerTakeSignals(w) ==
    /\ wpc[w] = "loop"
    /\ ~kill_threads /\ num_queued > 0
    /\ wjob' = [wjob EXCEPT ![w] = jobs[read_idx]]
    /\ wpc' = [wpc EXCEPT ![w] = IF jobs[read_idx] = Null THEN "loop" ELSE "exec"]
    /\ jobs' = [jobs EXCEPT ![read_idx] = Null]
    /\ read_idx' = Inc(read_idx)
    /\ num_queued' = num_queued - 1
    /\ SignalHasSpace
    /\ fence' = [j \in AllJobs |-> fence[j] \/ j = jobs[read_idx]]
    /\ UNCHANGED <<write_idx, max_jobs, shut, ujob, fi, barCount, finish_lock, hist>>

\* Mutant: has_space_cond is only signalled when the ring was full.
WorkerTakeSignalsFull(w) ==
    /\ wpc[w] = "loop"
    /\ ~kill_threads /\ num_queued > 0
    /\ wjob' = [wjob EXCEPT ![w] = jobs[read_idx]]
    /\ wpc' = [wpc EXCEPT ![w] = IF jobs[read_idx] = Null THEN "loop" ELSE "exec"]
    /\ jobs' = [jobs EXCEPT ![read_idx] = Null]
    /\ read_idx' = Inc(read_idx)
    /\ num_queued' = num_queued - 1
    /\ IF num_queued = max_jobs THEN SignalHasSpace ELSE UNCHANGED upc
    /\ UNCHANGED <<write_idx, max_jobs, shut, ujob, fi, barCount, finish_lock, fence, hist>>

\* Take the oldest job; a cleared slot is a no-op job.
WorkerTake(w) ==
    /\ wpc[w] = "loop"
    /\ ~kill_threads /\ num_queued > 0
    /\ wjob' = [wjob EXCEPT ![w] = jobs[read_idx]]
    /\ wpc' = [wpc EXCEPT ![w] = IF jobs[read_idx] = Null THEN "loop" ELSE "exec"]
    /\ jobs' = [jobs EXCEPT ![read_idx] = Null]
    /\ read_idx' = Inc(read_idx)
    /\ num_queued' = num_queued - 1
    /\ SignalHasSpace
    /\ UNCHANGED <<write_idx, max_jobs, shut, ujob, fi, barCount, finish_lock, fence, hist>>

\* job.execute of a job of the application.
WorkerExec(w) ==
    /\ wpc[w] = "exec" /\ wjob[w] \in Jobs
    /\ outcome' = [outcome EXCEPT ![wjob[w]] = "executed"]
    /\ wpc' = [wpc EXCEPT ![w] = "signal"]
    /\ UNCHANGED <<ring, shut, wjob, uvars, fence, cleaned, before>>

\* The workers waiting at the barrier of u.
AtBarrier(u) == {w \in Workers : wpc[w] = "barrier" /\ wjob[w] \in {u} \X (0 .. NumThreads - 1)}

\* Mutant: the job of util_queue_finish does not wait for the other threads.
WorkerBarrierPasses(w) ==
    /\ wpc[w] = "exec" /\ wjob[w] \in BarrierJobs
    /\ wpc' = [wpc EXCEPT ![w] = "signal"]
    /\ UNCHANGED <<ring, shut, wjob, uvars, fence, hist>>

\* util_queue_finish_execute: util_barrier_wait, the last one to arrive lets
\* all of them go.
WorkerBarrier(w) ==
    /\ wpc[w] = "exec" /\ wjob[w] \in BarrierJobs
    /\ LET u == wjob[w][1]
           last == Cardinality(AtBarrier(u)) + 1 = barCount[u]
       IN  wpc' = [x \in Workers |->
                     IF x = w THEN IF last THEN "signal" ELSE "barrier"
                     ELSE IF last /\ x \in AtBarrier(u) THEN "signal" ELSE wpc[x]]
    /\ UNCHANGED <<ring, shut, wjob, uvars, fence, hist>>

\* util_queue_fence_signal(job.fence).
WorkerSignal(w) ==
    /\ wpc[w] = "signal"
    /\ fence' = [fence EXCEPT ![wjob[w]] = TRUE]
    /\ \/ /\ wjob[w] \in HasCleanup
          /\ wpc' = [wpc EXCEPT ![w] = "cleanup"]
          /\ UNCHANGED wjob
       \/ /\ wjob[w] \notin HasCleanup
          /\ wpc' = [wpc EXCEPT ![w] = "loop"]
          /\ wjob' = [wjob EXCEPT ![w] = Null]
    /\ Settle({wjob[w]})
    /\ UNCHANGED <<ring, shut, uvars, outcome, cleaned>>

WorkerCleanup(w) ==
    /\ wpc[w] = "cleanup"
    /\ cleaned' = [cleaned EXCEPT ![wjob[w]] = TRUE]
    /\ wpc' = [wpc EXCEPT ![w] = "loop"]
    /\ wjob' = [wjob EXCEPT ![w] = Null]
    /\ UNCHANGED <<ring, shut, uvars, fence, outcome, before>>

\* kill_threads: leave the loop, then signal the remaining jobs in a second
\* critical section.
WorkerBreak(w) ==
    /\ wpc[w] = "loop"
    /\ kill_threads
    /\ wpc' = [wpc EXCEPT ![w] = "drain"]
    /\ UNCHANGED <<ring, shut, wjob, uvars, fence, hist>>

WorkerDrain(w) ==
    /\ wpc[w] = "drain"
    /\ LET left == {j \in AllJobs : \E i \in Visited : jobs[i] = j}
       IN  /\ fence' = [j \in AllJobs |-> fence[j] \/ j \in left]
           /\ outcome' = [j \in Jobs |-> IF j \in left THEN "cancelled" ELSE outcome[j]]
           /\ Settle(left)
    /\ jobs' = [i \in Slots |-> IF i \in Visited THEN Null ELSE jobs[i]]
    /\ read_idx' = write_idx
    /\ num_queued' = 0
    /\ wpc' = [wpc EXCEPT ![w] = "exited"]
    /\ UNCHANGED <<write_idx, max_jobs, shut, wjob, uvars, cleaned>>
-----------------------------------------------------------------------------
(* The users.                                                              *)

\* The queue may be used: always, until it is being destroyed.
Usable == Shutdown = "atexit" \/ closing = "no"

\* The contract of util_queue_fence_reset, and of a job's memory: a job is
\* added when its last submission is over and no other thread uses it.
Free(j) ==
    /\ fence[j]
    /\ \A u \in Users : ujob[u] # j
    /\ \A w \in Workers : wjob[w] # j

\* Store the job into the ring and wake a worker (the end of add_job).
Push(j, slots, at, size) ==
    /\ jobs' = [slots EXCEPT ![at] = j]
    /\ write_idx' = (at + 1) % size
    /\ num_queued' = num_queued + 1
    /\ max_jobs' = size
    /\ SignalHasQueued

\* The ring made larger: the queued jobs are copied to its beginning.

\* Mutant: the jobs are copied from slot 0 on.
LargerUnrotated == [i \in 0 .. max_jobs + Growth - 1 |->
                      IF i < max_jobs THEN jobs[i] ELSE Null]

Larger == [i \in 0 .. max_jobs + Growth - 1 |->
              IF i < max_jobs THEN jobs[Nth(i)] ELSE Null]

\* Where util_queue_add_job returns to.
After(j) == IF j \in Jobs THEN "idle" ELSE "fin_add"

\* A new submission of job j begins.
Submitted(j) ==
    /\ outcome' = [k \in Jobs |-> IF k = j THEN "pending" ELSE outcome[k]]
    /\ cleaned' = [k \in Jobs |-> k # j /\ cleaned[k]]
    /\ UNCHANGED before

\* util_queue_add_job up to its return or to cnd_wait.
AddJob(u, j) ==
    \/ /\ kill_threads
       /\ upc' = [upc EXCEPT ![u] = After(j)]
       /\ UNCHANGED <<ring, wpc, ujob, fence, hist>>
    \/ /\ ~kill_threads
       /\ fence' = [fence EXCEPT ![j] = FALSE]
       /\ Submitted(j)
       /\ \/ /\ num_queued # max_jobs
             /\ Push(j, jobs, write_idx, max_jobs)
             /\ UNCHANGED <<read_idx, ujob>>
             /\ upc' = [upc EXCEPT ![u] = After(j)]
          \/ /\ num_queued = max_jobs /\ resize
             /\ Push(j, Larger, max_jobs, max_jobs + Growth)
             /\ read_idx' = 0
             /\ UNCHANGED ujob
             /\ upc' = [upc EXCEPT ![u] = After(j)]
          \/ /\ num_queued = max_jobs /\ ~resize
             /\ upc' = [upc EXCEPT ![u] = "add_wait"]
             /\ ujob' = [ujob EXCEPT ![u] = j]
             /\ UNCHANGED <<ring, wpc>>

Add(u, j) ==
    /\ upc[u] = "idle" /\ Usable
    /\ Free(j)
    /\ AddJob(u, j)
    /\ UNCHANGED <<shut, wjob, fi, barCount, finish_lock>>

AddSpurious(u) ==
    /\ upc[u] = "add_wait"
    /\ upc' = [upc EXCEPT ![u] = "add_retry"]
    /\ UNCHANGED <<ring, shut, wvars, ujob, fi, barCount, finish_lock, fence, hist>>

\* cnd_wait has returned: while (num_queued == max_jobs) cnd_wait(...).
\* kill_threads is not looked at again.
AddRetry(u) ==
    /\ upc[u] = "add_retry"
    /\ \/ /\ num_queued = max_jobs
          /\ upc' = [upc EXCEPT ![u] = "add_wait"]
          /\ UNCHANGED <<ring, wpc, ujob>>
       \/ /\ num_queued # max_jobs
          /\ Push(ujob[u], jobs, write_idx, max_jobs)
          /\ UNCHANGED read_idx
          /\ upc' = [upc EXCEPT ![u] = After(ujob[u])]
          /\ ujob' = [ujob EXCEPT ![u] = Null]
    /\ UNCHANGED <<shut, wjob, fi, barCount, finish_lock, fence, hist>>

\* util_queue_fence_wait on the fence of a job that is not over.
Wait(u, j) ==
    /\ upc[u] = "idle" /\ Usable
    /\ ~fence[j]
    /\ upc' = [upc EXCEPT ![u] = "wait"]
    /\ ujob' = [ujob EXCEPT ![u] = j]
    /\ UNCHANGED <<ring, shut, wvars, fi, barCount, finish_lock, fence, hist>>

\* The wait, or the wait at the end of drop_job, returns.
WaitReturn(u) ==
    /\ upc[u] \in {"wait", "drop_wait"}
    /\ fence[ujob[u]]
    /\ upc' = [upc EXCEPT ![u] = "idle"]
    /\ ujob' = [ujob EXCEPT ![u] = Null]
    /\ UNCHANGED <<ring, shut, wvars, fi, barCount, finish_lock, fence, hist>>

\* util_queue_drop_job finds the fence not signalled.
Drop(u, j) ==
    /\ upc[u] = "idle" /\ Usable
    /\ ~fence[j]
    /\ upc' = [upc EXCEPT ![u] = "drop_scan"]
    /\ ujob' = [ujob EXCEPT ![u] = j]
    /\ UNCHANGED <<ring, shut, wvars, fi, barCount, finish_lock, fence, hist>>

\* Mutant: the slot is not cleared.
DropScanKeeps(u) ==
    /\ upc[u] = "drop_scan"
    /\ \/ \E i \in Visited :
             /\ jobs[i] = ujob[u]
             /\ outcome' = [outcome EXCEPT ![ujob[u]] = "dropped"]
             /\ cleaned' = [cleaned EXCEPT ![ujob[u]] = ujob[u] \in HasCleanup]
             /\ Settle({ujob[u]})
             /\ upc' = [upc EXCEPT ![u] = "drop_signal"]
       \/ /\ \A i \in Visited : jobs[i] # ujob[u]
          /\ upc' = [upc EXCEPT ![u] = "drop_wait"]
          /\ UNCHANGED hist
    /\ UNCHANGED <<ring, shut, wvars, ujob, fi, barCount, finish_lock, fence>>

\* Mutant: a dropped job is no longer counted.
DropScanCounts(u) ==
    /\ upc[u] = "drop_scan"
    /\ \/ \E i \in Visited :
             /\ jobs[i] = ujob[u]
             /\ jobs' = [jobs EXCEPT ![i] = Null]
             /\ num_queued' = num_queued - 1
             /\ outcome' = [outcome EXCEPT ![ujob[u]] = "dropped"]
             /\ cleaned' = [cleaned EXCEPT ![ujob[u]] = ujob[u] \in HasCleanup]
             /\ Settle({ujob[u]})
             /\ upc' = [upc EXCEPT ![u] = "drop_signal"]
       \/ /\ \A i \in Visited : jobs[i] # ujob[u]
          /\ upc' = [upc EXCEPT ![u] = "drop_wait"]
          /\ UNCHANGED <<jobs, num_queued, hist>>
    /\ UNCHANGED <<read_idx, write_idx, max_jobs, shut, wvars,
                   ujob, fi, barCount, finish_lock, fence>>

\* The search under the lock: the job is cleaned up and its slot cleared, or
\* it is not found.
DropScan(u) ==
    /\ upc[u] = "drop_scan"
    /\ \/ \E i \in Visited :
             /\ jobs[i] = ujob[u]
             /\ jobs' = [jobs EXCEPT ![i] = Null]
             /\ outcome' = [outcome EXCEPT ![ujob[u]] = "dropped"]
             /\ cleaned' = [cleaned EXCEPT ![ujob[u]] = ujob[u] \in HasCleanup]
             /\ Settle({ujob[u]})
             /\ upc' = [upc EXCEPT ![u] = "drop_signal"]
       \/ /\ \A i \in Visited : jobs[i] # ujob[u]
          /\ upc' = [upc EXCEPT ![u] = "drop_wait"]
          /\ UNCHANGED <<jobs, hist>>
    /\ UNCHANGED <<read_idx, write_idx, num_queued, max_jobs, shut, wvars,
                   ujob, fi, barCount, finish_lock, fence>>

\* removed: util_queue_fence_signal, outside the lock.
DropSignal(u) ==
    /\ upc[u] = "drop_signal"
    /\ fence' = [fence EXCEPT ![ujob[u]] = TRUE]
    /\ upc' = [upc EXCEPT ![u] = "idle"]
    /\ ujob' = [ujob EXCEPT ![u] = Null]
    /\ UNCHANGED <<ring, shut, wvars, fi, barCount, finish_lock, hist>>

\* util_queue_finish: num_threads is read for the barrier, then the lock.
Finish(u) ==
    /\ upc[u] = "idle" /\ Usable
    /\ barCount' = [barCount EXCEPT ![u] = num_threads]
    /\ upc' = [upc EXCEPT ![u] = "fin_lock"]
    /\ before' = [before EXCEPT ![u] = {j \in Jobs : InRing(j) \/ \E w \in Workers : Holds(w, j)}]
    /\ UNCHANGED <<ring, shut, wvars, ujob, fi, finish_lock, fence, outcome, cleaned>>

\* Mutant: finish_lock is not taken.
FinishLockNot(u) ==
    /\ upc[u] = "fin_lock"
    /\ upc' = [upc EXCEPT ![u] = "fin_add"]
    /\ UNCHANGED <<ring, shut, wvars, ujob, fi, barCount, finish_lock, fence, hist>>

FinishLock(u) ==
    /\ upc[u] = "fin_lock"
    /\ finish_lock = Null
    /\ finish_lock' = u
    /\ upc' = [upc EXCEPT ![u] = "fin_add"]
    /\ UNCHANGED <<ring, shut, wvars, ujob, fi, barCount, fence, hist>>

\* One turn of the loop that adds the barrier jobs, or its end.
FinishAdd(u) ==
    /\ upc[u] = "fin_add"
    /\ \/ /\ fi[u] < num_threads
          /\ AddJob(u, <<u, fi[u]>>)
          /\ fi' = [fi EXCEPT ![u] = fi[u] + 1]
       \/ /\ fi[u] >= num_threads
          /\ fi' = [fi EXCEPT ![u] = 0]
          /\ upc' = [upc EXCEPT ![u] = "fin_wait"]
          /\ UNCHANGED <<ring, wpc, ujob, fence, hist>>
    /\ UNCHANGED <<shut, wjob, barCount, finish_lock>>

\* One turn of the loop that waits for them, or its end and mtx_unlock.
FinishWait(u) ==
    /\ upc[u] = "fin_wait"
    /\ \/ /\ fi[u] < num_threads
          /\ fence[<<u, fi[u]>>]
          /\ fi' = [fi EXCEPT ![u] = fi[u] + 1]
          /\ UNCHANGED <<upc, barCount, finish_lock>>
       \/ /\ fi[u] >= num_threads
          /\ fi' = [fi EXCEPT ![u] = 0]
          /\ barCount' = [barCount EXCEPT ![u] = 0]
          /\ finish_lock' = Null
          /\ upc' = [upc EXCEPT ![u] = "idle"]
    /\ UNCHANGED <<ring, shut, wvars, ujob, fence, hist>>
-----------------------------------------------------------------------------
(* util_queue_killall_and_wait                                             *)

\* Mutant: cnd_signal instead of cnd_broadcast.
KillSignalsOne ==
    /\ closing = "no"
    /\ \/ Shutdown = "destroy" /\ \A u \in Users : upc[u] = "idle"
       \/ Shutdown = "atexit"
    /\ kill_threads' = TRUE
    /\ SignalHasQueued
    /\ closing' = "joining"
    /\ UNCHANGED <<ring, num_threads, resize, wjob, uvars, fence, hist>>

\* From util_queue_destroy, which is called when no other thread uses the
\* queue ("destroy"), or from atexit_handler, while the other threads of the
\* process go on ("atexit").
Kill ==
    /\ closing = "no"
    /\ \/ Shutdown = "destroy" /\ \A u \in Users : upc[u] = "idle"
       \/ Shutdown = "atexit"
    /\ kill_threads' = TRUE
    /\ wpc' = [w \in Workers |-> IF wpc[w] = "asleep" THEN "loop" ELSE wpc[w]]
    /\ closing' = "joining"
    /\ UNCHANGED <<ring, num_threads, resize, wjob, uvars, fence, hist>>

\* thrd_join has returned for every thread.
Joined ==
    /\ closing = "joining"
    /\ \A w \in Workers : wpc[w] = "exited"
    /\ num_threads' = 0
    /\ closing' = "done"
    /\ UNCHANGED <<ring, kill_threads, resize, wvars, uvars, fence, hist>>
-----------------------------------------------------------------------------
WorkerStep(w) ==
    \/ WorkerSleep(w) \/ WorkerTake(w) \/ WorkerExec(w) \/ WorkerBarrier(w)
    \/ WorkerSignal(w) \/ WorkerCleanup(w) \/ WorkerBreak(w) \/ WorkerDrain(w)

UserStep(u) ==
    \/ AddRetry(u) \/ WaitReturn(u) \/ DropScan(u) \/ DropSignal(u)
    \/ FinishLock(u) \/ FinishAdd(u) \/ FinishWait(u)

UserCall(u) == Finish(u) \/ \E j \in Jobs : Add(u, j) \/ Wait(u, j) \/ Drop(u, j)

Next ==
    \/ \E w \in Workers : WorkerStep(w) \/ WorkerSpurious(w)
    \/ \E u \in Users : UserStep(u) \/ UserCall(u) \/ AddSpurious(u)
    \/ Kill \/ Joined

Spec == Init /\ [][Next]_vars

\* Workers and users inside a function are scheduled; execute and cleanup
\* callbacks return.  Nobody has to call anything, and no spurious wakeup has
\* to happen.
Fairness ==
    /\ \A w \in Workers : WF_vars(WorkerStep(w))
    /\ \A u \in Users : WF_vars(UserStep(u))
    /\ WF_vars(Joined)

FairSpec == Spec /\ Fairness
-----------------------------------------------------------------------------
TypeOK ==
    /\ max_jobs \in Nat \ {0}
    /\ jobs \in [Slots -> AllJobs \cup {Null}]
    /\ read_idx \in Slots /\ write_idx \in Slots
    /\ num_queued \in 0 .. max_jobs
    /\ kill_threads \in BOOLEAN
    /\ num_threads \in {0, NumThreads}
    /\ resize \in BOOLEAN
    /\ closing \in {"no", "joining", "done"}
    /\ fence \in [AllJobs -> BOOLEAN]
    /\ finish_lock \in Users \cup {Null}
    /\ wpc \in [Workers -> {"loop", "asleep", "exec", "barrier", "signal", "cleanup",
                            "drain", "exited"}]
    /\ wjob \in [Workers -> AllJobs \cup {Null}]
    /\ upc \in [Users -> {"idle", "add_wait", "add_retry", "wait", "drop_scan",
                          "drop_signal", "drop_wait", "fin_lock", "fin_add", "fin_wait"}]
    /\ ujob \in [Users -> AllJobs \cup {Null}]
    /\ fi \in [Users -> 0 .. NumThreads]
    /\ barCount \in [Users -> {0, NumThreads}]
    /\ outcome \in [Jobs -> {"none", "pending", "executed", "dropped", "cancelled"}]
    /\ cleaned \in [Jobs -> BOOLEAN]
    /\ before \in [Users -> SUBSET Jobs]

\* The slots that hold queued jobs.
Occupied == IF num_queued = max_jobs THEN Slots ELSE Visited

\* The indices and the counter of the ring agree: the queued jobs lie between
\* read_idx and write_idx, around the end of the array, through every resize,
\* and a free slot is empty (the assertions of add_job).  The last thread may
\* leave a full ring behind.
RingInv ==
    /\ num_queued = max_jobs => read_idx = write_idx
    /\ num_queued < max_jobs =>
          num_queued = IF read_idx <= write_idx THEN write_idx - read_idx
                       ELSE write_idx + max_jobs - read_idx
    /\ (\A w \in Workers : wpc[w] # "exited") =>
          \A i \in Slots \ Occupied : jobs[i] = Null

\* Every unsignalled fence has exactly one thread, or one slot of the ring, that
\* is responsible for signalling it, and a signalled fence has none, whatever
\* add_job, drop_job, finish and the workers do at the same time: no job is
\* forgotten between two of them, none is in two hands, and no fence is
\* signalled twice (assert(val != 0) in util_queue_fence_signal).  A slot that
\* the last thread leaves behind in a full ring still counts: see
\* NoJobLeftBehind.
OneOwner ==
    \A j \in AllJobs :
       /\ \A i, k \in Slots : jobs[i] = j /\ jobs[k] = j => i = k
       /\ \A v, w \in Workers : Holds(v, j) /\ Holds(w, j) => v = w
       /\ \A u, v \in Users : Owes(u, j) /\ Owes(v, j) => u = v
       /\ \A w \in Workers : Holds(w, j) => ~InRing(j)
       /\ \A u \in Users : Owes(u, j) => ~InRing(j)
       /\ \A u \in Users, w \in Workers : ~(Owes(u, j) /\ Holds(w, j))
       /\ fence[j] <=> /\ ~InRing(j)
                       /\ \A w \in Workers : ~Holds(w, j)
                       /\ \A u \in Users : ~Owes(u, j)

\* The fence tells the truth: when util_queue_fence_wait returns, the job has
\* been executed, or dropped, or given up by the dying threads.
FenceMeansOver == \A j \in Jobs : fence[j] => outcome[j] # "pending"

\* Whenever a worker executes a job, that submission of it is still pending: no
\* submission is executed twice, by two workers or from a slot that was not
\* cleared, and none after it was dropped or given up.
ExecutedOnce ==
    [][\A w \in Workers : (wpc[w] = "exec" /\ wpc'[w] = "signal" /\ wjob[w] \in Jobs)
                              => outcome[wjob[w]] = "pending"]_vars

\* "Wait until all previously added jobs have completed": when util_queue_finish
\* returns, every job that was in the queue or being executed at the call is
\* over.
FinishWaitsForAll ==
    [][\A u \in Users : (upc[u] = "fin_wait" /\ upc'[u] = "idle") => before[u] = {}]_vars

\* The cleanup callback is called exactly once for a submission: not before the
\* job has been executed or is dropped, not again by a worker that finds the job
\* in the ring or has it in its hands, and it has been called when no worker has
\* a job that was executed or dropped.
CleanupOnce ==
    \A j \in Jobs :
       /\ cleaned[j] => outcome[j] \in {"executed", "dropped"}
       /\ (InRing(j) \/ \E w \in Workers : wjob[w] = j) => ~cleaned[j]
       /\ (/\ j \in HasCleanup /\ outcome[j] \in {"executed", "dropped"}
           /\ \A w \in Workers : wjob[w] # j) => cleaned[j]

\* The users that have been woken up for a free slot and not looked yet.
Retrying == {u \in Users : upc[u] = "add_retry"}

\* has_space_cond is signalled once for each job that is taken, so no free slot
\* is overlooked: as long as a user sleeps in util_queue_add_job, there are no
\* more free slots than users that are awake to take them, although any other
\* user may take a slot in between.
NoSlotOverlooked ==
    (\E u \in Users : upc[u] = "add_wait")
        => max_jobs - num_queued <= Cardinality(Retrying)

\* assert(ptr->job == NULL): a user that comes back from the wait for a free slot
\* finds the slot at write_idx empty.  The theorem AddFindsSlot proves it as long as
\* exit() does not kill the threads.
AddFindsFreeSlot ==
    \A u \in Users :
       (upc[u] = "add_retry" /\ num_queued # max_jobs) => jobs[write_idx] = Null

\* "signal remaining jobs before terminating": when the threads are gone no fence
\* is left that only they could have signalled.
NoJobLeftBehind ==
    closing = "done" => \A j \in Jobs : fence[j] \/ \E u \in Users : Owes(u, j)

\* A job that has been queued is executed or dropped and its fence signalled,
\* unless the queue is shut down.
QueuedJobsComplete == \A j \in Jobs : InRing(j) ~> (fence[j] \/ kill_threads)

\* "If 2 threads were adding jobs for 2 different barries at the same time, a
\* deadlock would happen": with finish_lock, a util_queue_finish that has added
\* its barrier jobs returns, whatever other users add, drop or finish meanwhile.
FinishReturns == \A u \in Users : (upc[u] = "fin_wait") ~> (upc[u] = "idle")

\* "Wait for all queues to assert idle": the shutdown ends.
ShutdownCompletes == (closing = "joining") ~> (closing = "done")
-----------------------------------------------------------------------------
\* util_queue is a job queue: the ring, from read_idx on, is its sequence.
Pending == {j \in AllJobs : ~fence[j]}
Queue == [k \in 1 .. num_queued |-> jobs[Nth(k - 1)]]
Running == {j \in AllJobs : \E w \in Workers : Holds(w, j)}
Cancelled == {j \in AllJobs : \E u \in Users : upc[u] = "drop_signal" /\ ujob[u] = j}

Q == INSTANCE JobQueue WITH
        Jobs <- AllJobs, pending <- Pending, queue <- Queue, running <- Running,
        cancelled <- Cancelled

JobQueueSpec == Q!Spec
-----------------------------------------------------------------------------
(***************************************************************************)
(* The inductive invariant behind RingInv, OneOwner, FenceMeansOver and    *)
(* ExecutedOnce when the queue is shut down by util_queue_destroy, or not  *)
(* at all.                                                                 *)
(***************************************************************************)

\* What a thread's place in the code says about its job.
JobsOfThreads ==
    /\ \A w \in Workers :
          /\ wpc[w] \in {"loop", "asleep", "drain", "exited"} => wjob[w] = Null
          /\ wpc[w] \in {"exec", "signal"} => wjob[w] \in AllJobs
          /\ wpc[w] = "barrier" => wjob[w] \in BarrierJobs
          /\ wpc[w] = "cleanup" => wjob[w] \in HasCleanup
    /\ \A u \in Users :
          /\ upc[u] \in {"idle", "fin_lock", "fin_add", "fin_wait"} => ujob[u] = Null
          /\ upc[u] \in {"add_wait", "add_retry"} => ujob[u] \in AllJobs
          /\ upc[u] \in {"wait", "drop_scan", "drop_wait", "drop_signal"} => ujob[u] \in Jobs

\* User u is in the loop of util_queue_finish that adds the barrier jobs.
AddsBarriers(u) ==
    \/ upc[u] = "fin_add"
    \/ upc[u] \in {"add_wait", "add_retry"} /\ ujob[u] \in BarrierJobs

\* Only the barrier jobs that util_queue_finish has added and not yet waited for
\* can be pending.
BarrierFences ==
    \A u \in Users, i \in 0 .. NumThreads - 1 :
       \/ fence[<<u, i>>]
       \/ AddsBarriers(u) /\ i < fi[u]
       \/ upc[u] = "fin_wait" /\ i >= fi[u]

\* Nobody uses a queue that is being destroyed.
ShutdownAlone ==
    /\ closing = "no" => num_threads = NumThreads
    /\ closing # "no" => \A u \in Users : upc[u] = "idle"
    /\ kill_threads <=> closing # "no"
    /\ \A w \in Workers : wpc[w] \in {"drain", "exited"} => kill_threads

\* How far the submission of a job has got.
Outcomes ==
    /\ \A j \in Jobs : InRing(j) => outcome[j] = "pending"
    /\ \A w \in Workers : wjob[w] \in Jobs =>
          /\ wpc[w] = "exec" => outcome[wjob[w]] = "pending"
          /\ wpc[w] = "signal" => outcome[wjob[w]] = "executed"
    /\ \A u \in Users : ujob[u] \in Jobs =>
          /\ upc[u] \in {"add_wait", "add_retry"} => outcome[ujob[u]] = "pending"
          /\ upc[u] = "drop_signal" => outcome[ujob[u]] = "dropped"
    /\ FenceMeansOver

IInv ==
    /\ TypeOK /\ RingInv /\ OneOwner
    /\ JobsOfThreads /\ BarrierFences /\ ShutdownAlone /\ Outcomes

=============================================================================
