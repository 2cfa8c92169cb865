--------------------------- MODULE UtilQueueProofs ---------------------------
(***************************************************************************)
(* The ring, the fences and the callbacks of util_queue, its refinement of *)
(* JobQueue and what util_queue_finish waits for; for any number of        *)
(* threads, jobs and slots, when the queue is shut down by                 *)
(* util_queue_destroy or never.                                            *)
(***************************************************************************)
EXTENDS UtilQueue, FiniteSetTheorems, SequenceTheorems, TLAPS

\* There is at least one worker.
LEMMA NumThreadsFacts == NumThreads \in Nat \ {0}
  BY UtilQueueAssumption, FS_CardinalityType, FS_EmptySet DEF NumThreads

\* What (i + 1) % max_jobs is for an index of the ring.
LEMMA IncFacts ==
    ASSUME NEW m \in Nat \ {0}, NEW i \in 0 .. m - 1
    PROVE  (i + 1) % m = IF i + 1 = m THEN 0 ELSE i + 1
<1>1. CASE i + 1 = m
  BY <1>1
<1>2. CASE i + 1 < m
  BY <1>2
<1> QED
  BY <1>1, <1>2

\* Walking the ring from read_idx on meets every slot exactly once.
LEMMA NthFacts ==
    ASSUME max_jobs \in Nat \ {0}, read_idx \in Slots
    PROVE  /\ \A k \in Slots : Nth(k) \in Slots
           /\ \A k, l \in Slots : Nth(k) = Nth(l) => k = l
           /\ \A i \in Slots : \E k \in Slots : Nth(k) = i
<1>1. \A k \in Slots : Nth(k) \in Slots
  BY DEF Slots, Nth
<1>2. \A k, l \in Slots : Nth(k) = Nth(l) => k = l
  BY DEF Slots, Nth
<1>3. ASSUME NEW i \in Slots PROVE \E k \in Slots : Nth(k) = i
  <2>1. CASE i >= read_idx
    <3>1. i - read_idx \in Slots /\ Nth(i - read_idx) = i
      BY <2>1 DEF Slots, Nth
    <3> QED
      BY <3>1
  <2>2. CASE i < read_idx
    <3>1. i + max_jobs - read_idx \in Slots /\ Nth(i + max_jobs - read_idx) = i
      BY <2>2 DEF Slots, Nth
    <3> QED
      BY <3>1
  <2> QED
    BY <2>1, <2>2 DEF Slots
<1> QED
  BY <1>1, <1>2, <1>3

-----------------------------------------------------------------------------
\* What the signals of the condition variables do to the threads.
LEMMA SignalHasQueuedFacts ==
    ASSUME TypeOK, SignalHasQueued
    PROVE  /\ wpc' \in [Workers -> {"loop", "asleep", "exec", "barrier", "signal", "cleanup",
                                    "drain", "exited"}]
           /\ \A w \in Workers : \/ wpc'[w] = wpc[w]
                                 \/ wpc[w] = "asleep" /\ wpc'[w] = "loop"
  BY DEF SignalHasQueued, TypeOK

LEMMA SignalHasSpaceFacts ==
    ASSUME TypeOK, SignalHasSpace
    PROVE  /\ upc' \in [Users -> {"idle", "add_wait", "add_retry", "wait", "drop_scan",
                                  "drop_signal", "drop_wait", "fin_lock", "fin_add", "fin_wait"}]
           /\ \A u \in Users : \/ upc'[u] = upc[u]
                               \/ upc[u] = "add_wait" /\ upc'[u] = "add_retry"
  BY DEF SignalHasSpace, TypeOK

-----------------------------------------------------------------------------
(***************************************************************************)
(* The ring.                                                               *)
(***************************************************************************)
RingTyped ==
    /\ max_jobs \in Nat \ {0}
    /\ jobs \in [Slots -> AllJobs \cup {Null}]
    /\ read_idx \in Slots /\ write_idx \in Slots
    /\ num_queued \in 0 .. max_jobs

RingIndices ==
    /\ num_queued = max_jobs => read_idx = write_idx
    /\ num_queued < max_jobs =>
          num_queued = IF read_idx <= write_idx THEN write_idx - read_idx
                       ELSE write_idx + max_jobs - read_idx

EmptyOutside == \A i \in Slots \ Occupied : jobs[i] = Null

\* No job is in two slots.
Unique == \A j \in AllJobs : \A i, k \in Slots : jobs[i] = j /\ jobs[k] = j => i = k

RingFine == RingTyped /\ RingIndices /\ EmptyOutside /\ Unique

\* A worker takes the job at read_idx.
LEMMA TakeRing ==
    ASSUME RingFine, num_queued > 0,
           jobs' = [jobs EXCEPT ![read_idx] = Null],
           read_idx' = Inc(read_idx),
           num_queued' = num_queued - 1,
           UNCHANGED <<write_idx, max_jobs>>
    PROVE  /\ RingFine'
           /\ \A j \in AllJobs : InRing(j)' <=> InRing(j) /\ j # jobs[read_idx]
<1> USE UtilQueueAssumption
<1>1. read_idx' = IF read_idx + 1 = max_jobs THEN 0 ELSE read_idx + 1
  BY IncFacts DEF Inc, RingFine, RingTyped, Slots
<1>2. RingTyped'
  BY <1>1 DEF RingFine, RingTyped, Slots
<1>3. RingIndices'
  BY <1>1 DEF RingFine, RingTyped, RingIndices, Slots
<1>4. EmptyOutside'
  BY <1>1 DEF RingFine, RingTyped, RingIndices, EmptyOutside, Occupied, Visited, Slots
<1>5. Unique'
  BY DEF RingFine, RingTyped, Unique, Slots
<1>6. \A j \in AllJobs : InRing(j)' <=> InRing(j) /\ j # jobs[read_idx]
  BY DEF RingFine, RingTyped, Unique, InRing, Slots
<1> QED
  BY <1>2, <1>3, <1>4, <1>5, <1>6 DEF RingFine

\* A job is stored at write_idx.
LEMMA PushRing ==
    ASSUME RingFine, NEW j \in AllJobs, ~InRing(j), num_queued # max_jobs,
           Push(j, jobs, write_idx, max_jobs), read_idx' = read_idx
    PROVE  /\ RingFine'
           /\ \A k \in AllJobs : InRing(k)' <=> InRing(k) \/ k = j
<1> USE UtilQueueAssumption
<1>1. write_idx' = IF write_idx + 1 = max_jobs THEN 0 ELSE write_idx + 1
  BY IncFacts DEF Push, RingFine, RingTyped, Slots
<1>2. RingTyped'
  BY <1>1 DEF Push, RingFine, RingTyped, Slots
<1>3. RingIndices'
  BY <1>1 DEF Push, RingFine, RingTyped, RingIndices, Slots
<1>4. jobs[write_idx] = Null
  BY DEF RingFine, RingTyped, RingIndices, EmptyOutside, Occupied, Visited, Slots
<1>5. EmptyOutside'
  BY <1>1 DEF Push, RingFine, RingTyped, RingIndices, EmptyOutside, Occupied, Visited, Slots
<1>6. Unique'
  BY DEF Push, RingFine, RingTyped, Unique, InRing, Slots
<1>7. \A k \in AllJobs : InRing(k)' <=> InRing(k) \/ k = j
  BY <1>4 DEF Push, RingFine, RingTyped, InRing, Slots
<1> QED
  BY <1>2, <1>3, <1>5, <1>6, <1>7 DEF RingFine

\* The full ring is enlarged, the jobs are copied, and a job is added.
LEMMA GrowRing ==
    ASSUME RingFine, NEW j \in AllJobs, ~InRing(j), num_queued = max_jobs,
           Push(j, Larger, max_jobs, max_jobs + Growth), read_idx' = 0
    PROVE  /\ RingFine'
           /\ \A k \in AllJobs : InRing(k)' <=> InRing(k) \/ k = j
<1> USE UtilQueueAssumption
<1> DEFINE m == max_jobs
<1>1. m \in Nat \ {0} /\ read_idx \in Slots /\ jobs \in [Slots -> AllJobs \cup {Null}]
  BY DEF RingFine, RingTyped
<1>2. write_idx' = IF m + 1 = m + Growth THEN 0 ELSE m + 1
  <2>1. m \in 0 .. (m + Growth) - 1 /\ m + Growth \in Nat \ {0}
    BY <1>1
  <2> QED
    BY <1>1, <2>1, IncFacts DEF Push
<1>3. max_jobs' = m + Growth /\ Slots' = 0 .. m + Growth - 1 /\ num_queued' = m + 1
  BY <1>1 DEF Push, Slots
<1>4. \A k \in Slots : Nth(k) \in Slots
  BY <1>1, NthFacts
<1>5. /\ jobs' \in [Slots' -> AllJobs \cup {Null}]
      /\ \A i \in Slots : jobs'[i] = jobs[Nth(i)]
      /\ jobs'[m] = j
      /\ \A i \in Slots' : i > m => jobs'[i] = Null
  BY <1>1, <1>3, <1>4 DEF Push, Larger, Slots
<1>6. RingTyped'
  BY <1>1, <1>2, <1>3, <1>5 DEF RingTyped, Slots
<1>7. RingIndices'
  BY <1>1, <1>2, <1>3 DEF RingIndices, Slots
<1>8. EmptyOutside'
  BY <1>1, <1>2, <1>3, <1>5 DEF EmptyOutside, Occupied, Visited, Slots
<1>9. ASSUME NEW k \in AllJobs PROVE InRing(k)' <=> InRing(k) \/ k = j
  <2>1. InRing(k) => \E i \in Slots : jobs[Nth(i)] = k
    BY <1>1, NthFacts DEF InRing
  <2>2. Slots' = Slots \cup {m} \cup {i \in Slots' : i > m}
    BY <1>1, <1>3 DEF Slots
  <2> QED
    BY <1>4, <1>5, <2>1, <2>2 DEF InRing
<1>10. ASSUME NEW k \in AllJobs, NEW a \in Slots', NEW b \in Slots',
              jobs'[a] = k, jobs'[b] = k
       PROVE  a = b
  <2>1. a <= m /\ b <= m
    BY <1>1, <1>3, <1>5, <1>10 DEF Slots
  <2>2. CASE a = m \/ b = m
    <3>1. k = j
      BY <1>5, <1>10, <2>2
    <3>2. \A i \in Slots : jobs'[i] # j
      BY <1>4, <1>5 DEF InRing
    <3> QED
      BY <1>1, <1>3, <1>10, <2>1, <3>1, <3>2 DEF Slots
  <2>3. CASE a # m /\ b # m
    <3>1. a \in Slots /\ b \in Slots
      BY <1>1, <1>3, <2>1, <2>3 DEF Slots
    <3>2. jobs[Nth(a)] = k /\ jobs[Nth(b)] = k
      BY <1>5, <1>10, <3>1
    <3>3. Nth(a) = Nth(b)
      BY <1>4, <3>1, <3>2 DEF RingFine, Unique
    <3> QED
      BY <1>1, <3>1, <3>3, NthFacts
  <2> QED
    BY <2>2, <2>3
<1>11. Unique'
  BY <1>10 DEF Unique
<1> QED
  BY <1>6, <1>7, <1>8, <1>9, <1>11 DEF RingFine

\* A slot is cleared, nothing else.
LEMMA ClearRing ==
    ASSUME RingFine, NEW i \in Slots, jobs[i] # Null,
           jobs' = [jobs EXCEPT ![i] = Null],
           UNCHANGED <<read_idx, write_idx, num_queued, max_jobs>>
    PROVE  /\ RingFine'
           /\ \A j \in AllJobs : InRing(j)' <=> InRing(j) /\ j # jobs[i]
<1>1. RingTyped'
  BY DEF RingFine, RingTyped, Slots
<1>2. RingIndices'
  BY DEF RingFine, RingIndices
<1>3. EmptyOutside'
  BY DEF RingFine, RingTyped, EmptyOutside, Occupied, Visited, Slots
<1>4. Unique'
  BY UtilQueueAssumption DEF RingFine, RingTyped, Unique, Slots
<1>5. \A j \in AllJobs : InRing(j)' <=> InRing(j) /\ j # jobs[i]
  BY UtilQueueAssumption DEF RingFine, RingTyped, Unique, InRing, Slots
<1> QED
  BY <1>1, <1>2, <1>3, <1>4, <1>5 DEF RingFine

\* The ring of a queue that is not being shut down.
LEMMA LiveRing == IInv /\ ~kill_threads => RingFine
  BY DEF IInv, TypeOK, RingInv, OneOwner, ShutdownAlone, RingFine, RingTyped, RingIndices,
         EmptyOutside, Unique

-----------------------------------------------------------------------------
(***************************************************************************)
(* The steps.                                                              *)
(***************************************************************************)

\* The initial state.
LEMMA InitIInv == Init => IInv
<1> SUFFICES ASSUME Init PROVE IInv
  OBVIOUS
<1> USE UtilQueueAssumption, NumThreadsFacts
<1>1. TypeOK
  <2>1. jobs \in [Slots -> AllJobs \cup {Null}]
    BY DEF Init, Slots
  <2>2. fence \in [AllJobs -> BOOLEAN] /\ cleaned \in [Jobs -> BOOLEAN]
    BY DEF Init
  <2>3. before \in [Users -> SUBSET Jobs]
    BY DEF Init
  <2>4. fi \in [Users -> 0 .. NumThreads] /\ barCount \in [Users -> {0, NumThreads}]
    BY DEF Init
  <2>5. kill_threads \in BOOLEAN /\ resize \in BOOLEAN
    BY DEF Init
  <2>6. finish_lock \in Users \cup {Null}
    BY DEF Init
  <2>7. /\ wpc \in [Workers -> {"loop", "asleep", "exec", "barrier", "signal", "cleanup",
                               "drain", "exited"}]
        /\ upc \in [Users -> {"idle", "add_wait", "add_retry", "wait", "drop_scan",
                             "drop_signal", "drop_wait", "fin_lock", "fin_add", "fin_wait"}]
        /\ outcome \in [Jobs -> {"none", "pending", "executed", "dropped", "cancelled"}]
    BY DEF Init
  <2>8. wjob \in [Workers -> AllJobs \cup {Null}] /\ ujob \in [Users -> AllJobs \cup {Null}]
    BY DEF Init
  <2>9. /\ max_jobs \in Nat \ {0} /\ read_idx \in Slots /\ write_idx \in Slots
        /\ num_queued \in 0 .. max_jobs
        /\ num_threads \in {0, NumThreads} /\ closing \in {"no", "joining", "done"}
    BY DEF Init, Slots
  <2> QED
    BY <2>1, <2>2, <2>3, <2>4, <2>5, <2>6, <2>7, <2>8, <2>9 DEF TypeOK
<1>2. RingInv
  BY DEF Init, RingInv, Slots, Occupied, Visited
<1>3. \A j \in AllJobs : ~InRing(j)
  BY DEF Init, InRing, Slots
<1>4. OneOwner
  BY <1>3 DEF Init, OneOwner, InRing, Holds, Owes, Slots
<1>5. JobsOfThreads /\ ShutdownAlone
  BY DEF Init, JobsOfThreads, ShutdownAlone
<1>6. BarrierFences
  BY DEF Init, BarrierFences, AllJobs, BarrierJobs
<1>7. Outcomes
  BY <1>3 DEF Init, Outcomes, FenceMeansOver, AllJobs
<1> QED
  BY <1>1, <1>2, <1>4, <1>5, <1>6, <1>7 DEF IInv

\* The steps of a worker that has no job.
LEMMA WorkerIdleStep ==
    ASSUME IInv, NEW w \in Workers, WorkerSleep(w) \/ WorkerSpurious(w) \/ WorkerBreak(w)
    PROVE  IInv'
<1> USE UtilQueueAssumption DEF WorkerSleep, WorkerSpurious, WorkerBreak, ring, shut, wvars, uvars, hist
<1>1. TypeOK'
  BY ZenonT(60) DEF IInv, TypeOK, Slots
<1>2. RingInv'
  BY DEF IInv, TypeOK, RingInv, Occupied, Visited, Slots
<1>3. \A v \in Workers, j \in AllJobs : Holds(v, j)' <=> Holds(v, j)
  BY DEF IInv, TypeOK, Holds
<1>4. OneOwner'
  BY <1>3 DEF IInv, OneOwner, InRing, Owes, Slots
<1>5. JobsOfThreads' /\ ShutdownAlone'
  BY DEF IInv, TypeOK, JobsOfThreads, ShutdownAlone
<1>6. BarrierFences'
  BY DEF IInv, BarrierFences, AddsBarriers
<1>7. Outcomes'
  BY DEF IInv, TypeOK, Outcomes, FenceMeansOver, InRing, Slots
<1> QED
  BY <1>1, <1>2, <1>4, <1>5, <1>6, <1>7 DEF IInv

\* A worker takes a job off the ring.
LEMMA WorkerTakeStep == ASSUME IInv, NEW w \in Workers, WorkerTake(w) PROVE IInv'
<1> USE UtilQueueAssumption DEF WorkerTake, shut, hist
<1>1. RingFine' /\ \A j \in AllJobs : InRing(j)' <=> InRing(j) /\ j # jobs[read_idx]
  BY LiveRing, TakeRing
<1>2. RingTyped' /\ RingInv' /\ Unique'
  BY <1>1 DEF RingFine, RingIndices, EmptyOutside, RingInv
<1>3. /\ upc' \in [Users -> {"idle", "add_wait", "add_retry", "wait", "drop_scan",
                             "drop_signal", "drop_wait", "fin_lock", "fin_add", "fin_wait"}]
      /\ \A u \in Users : \/ upc'[u] = upc[u]
                          \/ upc[u] = "add_wait" /\ upc'[u] = "add_retry"
  BY SignalHasSpaceFacts DEF IInv
<1>4. TypeOK'
  BY <1>2, <1>3 DEF IInv, TypeOK, RingTyped, Slots
<1>5. jobs[read_idx] \in AllJobs \cup {Null}
  BY DEF IInv, TypeOK
<1>6. jobs[read_idx] # Null => InRing(jobs[read_idx])
  BY DEF IInv, TypeOK, InRing
<1>7. \A v \in Workers, j \in AllJobs :
         Holds(v, j)' <=> Holds(v, j) \/ (v = w /\ j = jobs[read_idx])
  BY DEF IInv, TypeOK, Holds
<1>8. \A u \in Users, j \in AllJobs : Owes(u, j)' <=> Owes(u, j)
  BY <1>3 DEF Owes
<1>9. OneOwner'
  BY <1>1, <1>2, <1>5, <1>6, <1>7, <1>8 DEF IInv, OneOwner, Unique
<1>10. JobsOfThreads' /\ ShutdownAlone'
  BY <1>3, <1>5 DEF IInv, TypeOK, JobsOfThreads, ShutdownAlone
<1>11. BarrierFences'
  BY <1>3 DEF IInv, BarrierFences, AddsBarriers
<1>12. Outcomes'
  BY <1>1, <1>3, <1>6 DEF IInv, TypeOK, Outcomes, FenceMeansOver, AllJobs
<1> QED
  BY <1>2, <1>4, <1>9, <1>10, <1>11, <1>12 DEF IInv

\* A worker executes a job, or a job of util_queue_finish waits at its barrier.
LEMMA WorkerExecStep ==
    ASSUME IInv, NEW w \in Workers, WorkerExec(w) \/ WorkerBarrier(w) PROVE IInv'
<1> USE UtilQueueAssumption DEF ring, shut, uvars, hist
<1>0. /\ UNCHANGED <<ring, shut, wjob, uvars, fence, cleaned, before>>
      /\ wpc[w] = "exec" /\ wjob[w] \in AllJobs
      /\ wpc' \in [Workers -> {"loop", "asleep", "exec", "barrier", "signal", "cleanup",
                               "drain", "exited"}]
      /\ wpc'[w] \in {"barrier", "signal"}
      /\ wpc'[w] = "barrier" => wjob[w] \in BarrierJobs
      /\ \A v \in Workers : v # w =>
            \/ wpc'[v] = wpc[v]
            \/ wpc[v] = "barrier" /\ wpc'[v] = "signal"
  <2>1. CASE WorkerExec(w)
    BY <2>1 DEF WorkerExec, IInv, TypeOK, AllJobs
  <2>2. CASE WorkerBarrier(w)
    BY <2>2 DEF WorkerBarrier, AtBarrier, IInv, TypeOK, AllJobs
  <2> QED
    BY <2>1, <2>2
<1>1. /\ outcome' \in [Jobs -> {"none", "pending", "executed", "dropped", "cancelled"}]
      /\ \A j \in Jobs : j # wjob[w] => outcome'[j] = outcome[j]
      /\ wjob[w] \in Jobs => outcome'[wjob[w]] = "executed"
  <2>1. CASE WorkerExec(w)
    BY <2>1 DEF WorkerExec, IInv, TypeOK
  <2>2. CASE WorkerBarrier(w)
    BY <2>2 DEF WorkerBarrier, IInv, TypeOK
  <2> QED
    BY <2>1, <2>2
<1>2. TypeOK'
  BY <1>0, <1>1 DEF IInv, TypeOK, Slots
<1>3. RingInv'
  BY <1>0 DEF IInv, TypeOK, RingInv, Occupied, Visited, Slots
<1>4. \A v \in Workers, j \in AllJobs : Holds(v, j)' <=> Holds(v, j)
  BY <1>0 DEF IInv, TypeOK, Holds
<1>5. OneOwner'
  BY <1>0, <1>4 DEF IInv, OneOwner, InRing, Owes, Slots
<1>6. JobsOfThreads' /\ ShutdownAlone'
  BY <1>0 DEF IInv, TypeOK, JobsOfThreads, ShutdownAlone, AllJobs
<1>7. BarrierFences'
  BY <1>0 DEF IInv, BarrierFences, AddsBarriers
<1>8. Outcomes'
  <2>1. \A j \in AllJobs : InRing(j)' <=> InRing(j)
    BY <1>0 DEF InRing, Slots
  <2>2. Holds(w, wjob[w])
    BY <1>0 DEF Holds
  <2>3. \A v \in Workers : wpc[v] \in {"exec", "signal"} /\ wjob[v] = wjob[w] => v = w
    BY <1>0, <2>2 DEF IInv, OneOwner, Holds
  <2>4. \A j \in Jobs : InRing(j) => j # wjob[w]
    BY <1>0, <2>2 DEF IInv, OneOwner, AllJobs
  <2>5. \A u \in Users : upc[u] \in {"add_wait", "add_retry", "drop_signal"} => ujob[u] # wjob[w]
    BY <1>0, <2>2 DEF IInv, OneOwner, Owes
  <2>6. ~fence[wjob[w]]
    BY <1>0, <2>2 DEF IInv, OneOwner
  <2> QED
    BY <1>0, <1>1, <2>1, <2>3, <2>4, <2>5, <2>6
       DEF IInv, TypeOK, Outcomes, FenceMeansOver, JobsOfThreads, AllJobs
<1> QED
  BY <1>2, <1>3, <1>5, <1>6, <1>7, <1>8 DEF IInv

\* A worker signals the fence of the job it has executed.
LEMMA WorkerSignalStep == ASSUME IInv, NEW w \in Workers, WorkerSignal(w) PROVE IInv'
<1> USE UtilQueueAssumption DEF WorkerSignal, ring, shut, uvars, hist, Settle
<1>0. wjob[w] \in AllJobs /\ Holds(w, wjob[w])
  BY DEF IInv, JobsOfThreads, Holds
<1>1. TypeOK'
  BY ZenonT(60) DEF IInv, TypeOK, Slots
<1>2. RingInv'
  BY DEF IInv, TypeOK, RingInv, Occupied, Visited, Slots
<1>3. \A v \in Workers, j \in AllJobs : Holds(v, j)' <=> Holds(v, j) /\ v # w
  BY DEF IInv, TypeOK, Holds
<1>4. \A j \in AllJobs : fence'[j] <=> fence[j] \/ j = wjob[w]
  BY DEF IInv, TypeOK
<1>5. \A j \in AllJobs : InRing(j)' <=> InRing(j)
  BY DEF InRing, Slots
<1>6. \A u \in Users, j \in AllJobs : Owes(u, j)' <=> Owes(u, j)
  BY DEF Owes
<1>7. OneOwner'
  BY <1>0, <1>3, <1>4, <1>5, <1>6 DEF IInv, OneOwner, Holds, Slots
<1>8. JobsOfThreads' /\ ShutdownAlone'
  BY DEF IInv, TypeOK, JobsOfThreads, ShutdownAlone
<1>9. BarrierFences'
  BY <1>4 DEF IInv, BarrierFences, AddsBarriers, AllJobs, BarrierJobs
<1>10. Outcomes'
  BY <1>0, <1>4, <1>5 DEF IInv, TypeOK, Outcomes, FenceMeansOver, AllJobs
<1> QED
  BY <1>1, <1>2, <1>7, <1>8, <1>9, <1>10 DEF IInv

\* A worker calls the cleanup callback.
LEMMA WorkerCleanupStep == ASSUME IInv, NEW w \in Workers, WorkerCleanup(w) PROVE IInv'
<1> USE UtilQueueAssumption DEF WorkerCleanup, ring, shut, uvars, hist
<1>1. TypeOK'
  BY DEF IInv, TypeOK, Slots
<1>2. RingInv'
  BY DEF IInv, TypeOK, RingInv, Occupied, Visited, Slots
<1>3. \A v \in Workers, j \in AllJobs : Holds(v, j)' <=> Holds(v, j)
  BY DEF IInv, TypeOK, Holds
<1>4. OneOwner'
  BY <1>3 DEF IInv, OneOwner, InRing, Owes, Slots
<1>5. JobsOfThreads' /\ ShutdownAlone'
  BY DEF IInv, TypeOK, JobsOfThreads, ShutdownAlone
<1>6. BarrierFences'
  BY DEF IInv, BarrierFences, AddsBarriers
<1>7. Outcomes'
  BY DEF IInv, TypeOK, Outcomes, FenceMeansOver, InRing, Slots
<1> QED
  BY <1>1, <1>2, <1>4, <1>5, <1>6, <1>7 DEF IInv

\* A dying worker signals what is left in the ring.  Only the first one finds
\* anything: afterwards read_idx = write_idx.
LEMMA WorkerDrainStep == ASSUME IInv, NEW w \in Workers, WorkerDrain(w) PROVE IInv'
<1> USE UtilQueueAssumption DEF WorkerDrain, shut, uvars, hist, Settle
<1> DEFINE left == {j \in AllJobs : \E i \in Visited : jobs[i] = j}
<1>1. Visited \subseteq Slots
  BY DEF IInv, TypeOK, Visited, Slots
<1>2. TypeOK'
  <2>1. jobs' \in [Slots' -> AllJobs \cup {Null}] /\ read_idx' \in Slots' /\ write_idx' \in Slots'
    BY DEF IInv, TypeOK, Slots
  <2>2. fence' \in [AllJobs -> BOOLEAN]
    BY DEF IInv, TypeOK
  <2>3. outcome' \in [Jobs -> {"none", "pending", "executed", "dropped", "cancelled"}]
    BY DEF IInv, TypeOK
  <2>4. before' \in [Users -> SUBSET Jobs]
    BY DEF IInv, TypeOK
  <2> QED
    BY <2>1, <2>2, <2>3, <2>4 DEF IInv, TypeOK
<1>3. RingInv'
  BY DEF IInv, TypeOK, RingInv, Occupied, Visited, Slots
<1>4. \A j \in AllJobs : InRing(j)' <=> InRing(j) /\ j \notin left
  BY <1>1 DEF IInv, OneOwner, InRing, Slots
<1>5. \A v \in Workers, j \in AllJobs : Holds(v, j)' <=> Holds(v, j)
  BY DEF IInv, TypeOK, Holds
<1>6. \A u \in Users, j \in AllJobs : Owes(u, j)' <=> Owes(u, j)
  BY DEF Owes
<1>7. \A j \in AllJobs : fence'[j] <=> fence[j] \/ j \in left
  OBVIOUS
<1>8. \A j \in left : InRing(j)
  BY <1>1 DEF InRing
<1>9. Unique'
  BY DEF IInv, OneOwner, Unique, Slots
<1>10. OneOwner'
  BY <1>4, <1>5, <1>6, <1>7, <1>8, <1>9 DEF IInv, OneOwner, Unique
<1>11. JobsOfThreads' /\ ShutdownAlone'
  BY DEF IInv, TypeOK, JobsOfThreads, ShutdownAlone
<1>12. BarrierFences'
  BY <1>7 DEF IInv, BarrierFences, AddsBarriers, AllJobs, BarrierJobs
<1>13. Outcomes'
  <2>1. \A v \in Workers : wpc[v] \in {"exec", "signal"} => wjob[v] \notin left
    BY <1>8 DEF IInv, OneOwner, Holds
  <2>2. \A u \in Users : upc[u] \in {"add_wait", "add_retry", "drop_signal"} => ujob[u] \notin left
    BY <1>8 DEF IInv, OneOwner, Owes
  <2> QED
    BY <1>4, <1>7, <2>1, <2>2 DEF IInv, TypeOK, Outcomes, FenceMeansOver, AllJobs
<1> QED
  BY <1>2, <1>3, <1>10, <1>11, <1>12, <1>13 DEF IInv

\* The steps of a user that do not touch the ring and no fence.
LEMMA UserLocalStep ==
    ASSUME IInv, Shutdown # "atexit", NEW u \in Users,
           \/ AddSpurious(u) \/ WaitReturn(u) \/ Finish(u) \/ FinishLock(u)
           \/ \E j \in Jobs : Wait(u, j) \/ Drop(u, j)
    PROVE  IInv'
<1> USE UtilQueueAssumption, NumThreadsFacts DEF ring, shut, wvars, uvars, hist
<1> DEFINE Moves(from, to) == upc[u] \in from /\ upc' = [upc EXCEPT ![u] = to]
<1>0. /\ UNCHANGED <<ring, shut, wvars, fi, fence, outcome, cleaned>>
      /\ \/ Moves({"add_wait"}, "add_retry") /\ UNCHANGED ujob
         \/ Moves({"wait", "drop_wait"}, "idle") /\ ujob' = [ujob EXCEPT ![u] = Null]
         \/ Moves({"idle"}, "fin_lock") /\ UNCHANGED ujob /\ closing = "no"
         \/ Moves({"fin_lock"}, "fin_add") /\ UNCHANGED ujob
         \/ \E j \in Jobs, to \in {"wait", "drop_scan"} :
               Moves({"idle"}, to) /\ ujob' = [ujob EXCEPT ![u] = j] /\ closing = "no"
      /\ finish_lock' \in Users \cup {Null}
      /\ barCount' \in [Users -> {0, NumThreads}]
      /\ before' \in [Users -> SUBSET Jobs]
  <2>1. CASE AddSpurious(u) \/ WaitReturn(u) \/ FinishLock(u)
    BY <2>1 DEF AddSpurious, WaitReturn, FinishLock, IInv, TypeOK
  <2>2. CASE Finish(u)
    BY <2>2 DEF Finish, Usable, IInv, TypeOK
  <2>3. CASE \E j \in Jobs : Wait(u, j) \/ Drop(u, j)
    BY <2>3 DEF Wait, Drop, Usable, IInv, TypeOK
  <2> QED
    BY <2>1, <2>2, <2>3
<1>1. TypeOK'
  <2>1. /\ upc' \in [Users -> {"idle", "add_wait", "add_retry", "wait", "drop_scan",
                               "drop_signal", "drop_wait", "fin_lock", "fin_add", "fin_wait"}]
        /\ ujob' \in [Users -> AllJobs \cup {Null}]
    BY <1>0 DEF IInv, TypeOK, AllJobs
  <2> QED
    BY <1>0, <2>1 DEF IInv, TypeOK, Slots
<1>2. RingInv'
  BY <1>0 DEF IInv, TypeOK, RingInv, Occupied, Visited, Slots
<1>3. \A v \in Users, j \in AllJobs : Owes(v, j)' <=> Owes(v, j)
  BY <1>0 DEF IInv, TypeOK, Owes
<1>4. OneOwner'
  BY <1>0, <1>3 DEF IInv, OneOwner, InRing, Holds, Slots
<1>5. JobsOfThreads'
  BY <1>0 DEF IInv, TypeOK, JobsOfThreads
<1>6. ShutdownAlone'
  BY <1>0 DEF IInv, TypeOK, ShutdownAlone
<1>7. BarrierFences'
  <2>1. ASSUME NEW v \in Users
        PROVE  /\ AddsBarriers(v) => AddsBarriers(v)'
               /\ upc[v] = "fin_wait" => upc'[v] = "fin_wait"
    BY <1>0 DEF IInv, TypeOK, AddsBarriers
  <2> QED
    BY <1>0, <2>1 DEF IInv, BarrierFences
<1>8. Outcomes'
  <2>1. \A j \in AllJobs : InRing(j)' <=> InRing(j)
    BY <1>0 DEF InRing, Slots
  <2> QED
    BY <1>0, <2>1 DEF IInv, TypeOK, JobsOfThreads, Outcomes, FenceMeansOver, AllJobs
<1> QED
  BY <1>1, <1>2, <1>4, <1>5, <1>6, <1>7, <1>8 DEF IInv

\* util_queue_finish waits for its next fence, or is done with all of them.
LEMMA FinishWaitStep == ASSUME IInv, NEW u \in Users, FinishWait(u) PROVE IInv'
<1> USE UtilQueueAssumption, NumThreadsFacts DEF ring, shut, wvars, uvars, hist
<1>0. /\ upc[u] = "fin_wait" /\ closing = "no" /\ num_threads = NumThreads
      /\ UNCHANGED <<ring, shut, wvars, ujob, fence, hist>>
      /\ \/ /\ fi[u] < NumThreads /\ fence[<<u, fi[u]>>]
            /\ fi' = [fi EXCEPT ![u] = fi[u] + 1]
            /\ UNCHANGED <<upc, barCount, finish_lock>>
         \/ /\ fi[u] >= NumThreads
            /\ fi' = [fi EXCEPT ![u] = 0]
            /\ upc' = [upc EXCEPT ![u] = "idle"]
            /\ barCount' = [barCount EXCEPT ![u] = 0] /\ finish_lock' = Null
  BY DEF FinishWait, IInv, TypeOK, ShutdownAlone
<1>1. TypeOK'
  <2>1. /\ upc' \in [Users -> {"idle", "add_wait", "add_retry", "wait", "drop_scan",
                               "drop_signal", "drop_wait", "fin_lock", "fin_add", "fin_wait"}]
        /\ fi' \in [Users -> 0 .. NumThreads]
        /\ barCount' \in [Users -> {0, NumThreads}]
        /\ finish_lock' \in Users \cup {Null}
    BY <1>0 DEF IInv, TypeOK
  <2> QED
    BY <1>0, <2>1 DEF IInv, TypeOK, Slots
<1>2. RingInv'
  BY <1>0 DEF IInv, TypeOK, RingInv, Occupied, Visited, Slots
<1>3. \A v \in Users, j \in AllJobs : Owes(v, j)' <=> Owes(v, j)
  BY <1>0 DEF IInv, TypeOK, Owes
<1>4. OneOwner'
  BY <1>0, <1>3 DEF IInv, OneOwner, InRing, Holds, Slots
<1>5. JobsOfThreads' /\ ShutdownAlone'
  BY <1>0 DEF IInv, TypeOK, JobsOfThreads, ShutdownAlone
<1>6. BarrierFences'
  <2>1. \A v \in Users : v # u => fi'[v] = fi[v] /\ upc'[v] = upc[v]
    BY <1>0 DEF IInv, TypeOK
  <2>2. \A i \in 0 .. NumThreads - 1 : fence[<<u, i>>] \/ i >= fi[u]
    BY <1>0 DEF IInv, BarrierFences, AddsBarriers
  <2>3. ASSUME NEW i \in 0 .. NumThreads - 1
        PROVE  fence'[<<u, i>>] \/ (upc'[u] = "fin_wait" /\ i >= fi'[u])
    BY <1>0, <2>2 DEF IInv, TypeOK
  <2> QED
    BY <1>0, <2>1, <2>3 DEF IInv, BarrierFences, AddsBarriers
<1>7. Outcomes'
  BY <1>0 DEF IInv, TypeOK, JobsOfThreads, Outcomes, FenceMeansOver, InRing, Slots
<1> QED
  BY <1>1, <1>2, <1>4, <1>5, <1>6, <1>7 DEF IInv

\* util_queue_drop_job searches the ring.
LEMMA DropScanStep == ASSUME IInv, NEW u \in Users, DropScan(u) PROVE IInv'
<1> USE UtilQueueAssumption DEF shut, wvars, hist
<1> DEFINE j0 == ujob[u]
<1>0. /\ upc[u] = "drop_scan" /\ j0 \in Jobs /\ ~kill_threads
      /\ UNCHANGED <<read_idx, write_idx, num_queued, max_jobs, shut, wvars, ujob, fi,
                     barCount, finish_lock, fence>>
  BY DEF DropScan, IInv, TypeOK, JobsOfThreads, ShutdownAlone
<1>1. CASE \A i \in Visited : jobs[i] # j0
  <2>1. UNCHANGED <<jobs, hist>> /\ upc' = [upc EXCEPT ![u] = "drop_wait"]
    BY <1>1 DEF DropScan
  <2>2. TypeOK'
    BY <1>0, <2>1 DEF IInv, TypeOK, Slots
  <2>3. RingInv'
    BY <1>0, <2>1 DEF IInv, TypeOK, RingInv, Occupied, Visited, Slots
  <2>4. \A v \in Users, j \in AllJobs : Owes(v, j)' <=> Owes(v, j)
    BY <1>0, <2>1 DEF IInv, TypeOK, Owes
  <2>5. OneOwner'
    BY <1>0, <2>1, <2>4 DEF IInv, OneOwner, InRing, Holds, Slots
  <2>6. JobsOfThreads' /\ ShutdownAlone'
    BY <1>0, <2>1 DEF IInv, TypeOK, JobsOfThreads, ShutdownAlone
  <2>7. BarrierFences'
    BY <1>0, <2>1 DEF IInv, TypeOK, BarrierFences, AddsBarriers
  <2>8. Outcomes'
    BY <1>0, <2>1 DEF IInv, TypeOK, Outcomes, FenceMeansOver, InRing, Slots
  <2> QED
    BY <2>2, <2>3, <2>5, <2>6, <2>7, <2>8 DEF IInv
<1>2. CASE \E i \in Visited : jobs[i] = j0
  <2>1. PICK i \in Visited :
           /\ jobs[i] = j0
           /\ jobs' = [jobs EXCEPT ![i] = Null]
           /\ outcome' = [outcome EXCEPT ![j0] = "dropped"]
           /\ cleaned' = [cleaned EXCEPT ![j0] = j0 \in HasCleanup]
           /\ Settle({j0})
           /\ upc' = [upc EXCEPT ![u] = "drop_signal"]
    BY <1>2 DEF DropScan
  <2>2. i \in Slots /\ jobs[i] # Null /\ InRing(j0)
    BY <1>0, <2>1 DEF IInv, TypeOK, Visited, Slots, InRing, AllJobs
  <2>3. RingFine' /\ \A j \in AllJobs : InRing(j)' <=> InRing(j) /\ j # j0
    BY <1>0, <2>1, <2>2, LiveRing, ClearRing
  <2>4. RingTyped' /\ RingInv' /\ Unique'
    BY <2>3 DEF RingFine, RingIndices, EmptyOutside, RingInv
  <2>5. TypeOK'
    <3>1. before' \in [Users -> SUBSET Jobs]
      BY <2>1 DEF Settle, IInv, TypeOK
    <3>2. cleaned' \in [Jobs -> BOOLEAN]
      <4>1. cleaned \in [Jobs -> BOOLEAN] /\ (j0 \in HasCleanup) \in BOOLEAN
        BY DEF IInv, TypeOK
      <4>2. \A b \in BOOLEAN : [cleaned EXCEPT ![j0] = b] \in [Jobs -> BOOLEAN]
        BY <4>1
      <4> QED
        BY <2>1, <4>1, <4>2, Zenon
    <3> QED
      BY <1>0, <2>1, <2>4, <3>1, <3>2 DEF IInv, TypeOK, RingTyped, Slots
  <2>6. \A v \in Users, j \in AllJobs : Owes(v, j)' <=> Owes(v, j) \/ (v = u /\ j = j0)
    BY <1>0, <2>1 DEF IInv, TypeOK, Owes
  <2>7. \A w \in Workers, j \in AllJobs : Holds(w, j)' <=> Holds(w, j)
    BY <1>0 DEF Holds
  <2>8. OneOwner'
    BY <1>0, <2>2, <2>3, <2>4, <2>6, <2>7 DEF IInv, OneOwner, Unique
  <2>9. JobsOfThreads' /\ ShutdownAlone'
    BY <1>0, <2>1 DEF IInv, TypeOK, JobsOfThreads, ShutdownAlone
  <2>10. BarrierFences'
    BY <1>0, <2>1 DEF IInv, TypeOK, BarrierFences, AddsBarriers
  <2>11. Outcomes'
    <3>1. \A w \in Workers : wpc[w] \in {"exec", "signal"} => wjob[w] # j0
      BY <1>0, <2>2 DEF IInv, OneOwner, Holds, AllJobs
    <3>2. \A v \in Users : upc[v] \in {"add_wait", "add_retry", "drop_signal"} => ujob[v] # j0
      BY <1>0, <2>2 DEF IInv, OneOwner, Owes, AllJobs
    <3> QED
      BY <1>0, <2>1, <2>3, <3>1, <3>2 DEF IInv, TypeOK, Outcomes, FenceMeansOver, AllJobs
  <2> QED
    BY <2>4, <2>5, <2>8, <2>9, <2>10, <2>11 DEF IInv
<1> QED
  BY <1>1, <1>2

\* util_queue_drop_job signals the fence of the job it has removed.
LEMMA DropSignalStep == ASSUME IInv, NEW u \in Users, DropSignal(u) PROVE IInv'
<1> USE UtilQueueAssumption DEF DropSignal, ring, shut, wvars, hist
<1>0. ujob[u] \in Jobs /\ ujob[u] \in AllJobs /\ Owes(u, ujob[u])
  BY DEF IInv, JobsOfThreads, Owes, AllJobs
<1>1. TypeOK'
  BY DEF IInv, TypeOK, Slots
<1>2. RingInv'
  BY DEF IInv, TypeOK, RingInv, Occupied, Visited, Slots
<1>3. \A v \in Users, j \in AllJobs : Owes(v, j)' <=> Owes(v, j) /\ v # u
  BY DEF IInv, TypeOK, Owes
<1>4. \A j \in AllJobs : fence'[j] <=> fence[j] \/ j = ujob[u]
  BY DEF IInv, TypeOK
<1>5. \A j \in AllJobs : InRing(j)' <=> InRing(j)
  BY DEF InRing, Slots
<1>6. \A w \in Workers, j \in AllJobs : Holds(w, j)' <=> Holds(w, j)
  BY DEF Holds
<1>7. OneOwner'
  BY <1>0, <1>3, <1>4, <1>5, <1>6 DEF IInv, OneOwner, Owes, Slots
<1>8. JobsOfThreads' /\ ShutdownAlone'
  BY DEF IInv, TypeOK, JobsOfThreads, ShutdownAlone
<1>9. BarrierFences'
  BY <1>4, ZenonT(60) DEF IInv, TypeOK, BarrierFences, AddsBarriers, AllJobs, BarrierJobs
<1>10. Outcomes'
  BY <1>0, <1>4, <1>5 DEF IInv, TypeOK, Outcomes, FenceMeansOver, AllJobs
<1> QED
  BY <1>1, <1>2, <1>7, <1>8, <1>9, <1>10 DEF IInv

\* util_queue_killall_and_wait.
LEMMA ShutdownStep == ASSUME IInv, Shutdown # "atexit", Kill \/ Joined PROVE IInv'
<1> USE UtilQueueAssumption DEF Kill, Joined, ring, wvars, uvars, hist
<1>1. TypeOK'
  <2>1. /\ kill_threads' \in BOOLEAN /\ num_threads' \in {0, NumThreads}
        /\ closing' \in {"no", "joining", "done"}
    BY DEF IInv, TypeOK
  <2>2. wpc' \in [Workers -> {"loop", "asleep", "exec", "barrier", "signal", "cleanup",
                              "drain", "exited"}]
    BY DEF IInv, TypeOK
  <2> QED
    BY <2>1, <2>2 DEF IInv, TypeOK, Slots
<1>2. RingInv'
  BY DEF IInv, TypeOK, RingInv, Occupied, Visited, Slots
<1>3. \A w \in Workers, j \in AllJobs : Holds(w, j)' <=> Holds(w, j)
  BY DEF IInv, TypeOK, Holds
<1>4. OneOwner'
  BY <1>3 DEF IInv, OneOwner, InRing, Owes, Slots
<1>5. JobsOfThreads'
  BY DEF IInv, TypeOK, JobsOfThreads
<1>5a. ShutdownAlone'
  BY DEF IInv, TypeOK, ShutdownAlone
<1>6. BarrierFences'
  BY DEF IInv, BarrierFences, AddsBarriers
<1>7. Outcomes'
  BY DEF IInv, TypeOK, Outcomes, FenceMeansOver, InRing, Slots
<1> QED
  BY <1>1, <1>2, <1>4, <1>5, <1>5a, <1>6, <1>7 DEF IInv

\* util_queue_add_job, called by the application or by util_queue_finish, for a
\* job whose fence is signalled.
LEMMA AddJobStep ==
    ASSUME IInv, NEW u \in Users, NEW j \in AllJobs,
           closing = "no", fence[j], AddJob(u, j),
           UNCHANGED <<shut, wjob, barCount, finish_lock>>,
           \/ upc[u] = "idle" /\ j \in Jobs /\ UNCHANGED fi
           \/ /\ upc[u] = "fin_add" /\ fi[u] < NumThreads /\ j = <<u, fi[u]>>
              /\ fi' = [fi EXCEPT ![u] = fi[u] + 1]
    PROVE  IInv'
<1> USE UtilQueueAssumption, NumThreadsFacts DEF shut
<1>1. ~kill_threads /\ num_threads = NumThreads
  BY DEF IInv, ShutdownAlone
<1>2. /\ ~InRing(j)
      /\ \A w \in Workers : ~Holds(w, j)
      /\ \A v \in Users : ~Owes(v, j)
  BY DEF IInv, OneOwner
<1>3. fence' = [fence EXCEPT ![j] = FALSE] /\ Submitted(j)
  BY <1>1 DEF AddJob
<1>4. /\ outcome' \in [Jobs -> {"none", "pending", "executed", "dropped", "cancelled"}]
      /\ cleaned' \in [Jobs -> BOOLEAN] /\ before' \in [Users -> SUBSET Jobs]
      /\ \A k \in Jobs : outcome'[k] = IF k = j THEN "pending" ELSE outcome[k]
  <2>1. cleaned' \in [Jobs -> BOOLEAN]
    <3>1. cleaned' = [k \in Jobs |-> k # j /\ cleaned[k]]
      BY <1>3 DEF Submitted
    <3>2. \A k \in Jobs : (k # j /\ cleaned[k]) \in BOOLEAN
      OBVIOUS
    <3> QED
      BY <3>1, <3>2, Zenon
  <2> QED
    BY <1>3, <2>1 DEF Submitted, IInv, TypeOK
<1>5. fi' \in [Users -> 0 .. NumThreads]
  BY DEF IInv, TypeOK
<1>6. \A k \in AllJobs : fence'[k] <=> fence[k] /\ k # j
  BY <1>3 DEF IInv, TypeOK
<1>7. fence' \in [AllJobs -> BOOLEAN]
  BY <1>3 DEF IInv, TypeOK
<1>8. After(j) = upc[u] /\ ujob[u] = Null
  BY DEF After, AllJobs, BarrierJobs, IInv, TypeOK, JobsOfThreads
<1> DEFINE PushedNow ==
       /\ RingFine' /\ \A k \in AllJobs : InRing(k)' <=> InRing(k) \/ k = j
       /\ upc' = upc /\ ujob' = ujob
       /\ wpc' \in [Workers -> {"loop", "asleep", "exec", "barrier", "signal", "cleanup",
                                "drain", "exited"}]
       /\ \A w \in Workers : \/ wpc'[w] = wpc[w]
                             \/ wpc[w] = "asleep" /\ wpc'[w] = "loop"
<1>9. CASE PushedNow
  <2>1. RingTyped' /\ RingInv' /\ Unique'
    BY <1>9 DEF RingFine, RingIndices, EmptyOutside, RingInv
  <2>2. TypeOK'
    BY <1>4, <1>5, <1>7, <1>9, <2>1 DEF IInv, TypeOK, RingTyped
  <2>3. \A w \in Workers, k \in AllJobs : Holds(w, k)' <=> Holds(w, k)
    BY <1>9 DEF Holds
  <2>4. \A v \in Users, k \in AllJobs : Owes(v, k)' <=> Owes(v, k)
    BY <1>9 DEF Owes
  <2>5. OneOwner'
    BY <1>2, <1>6, <1>9, <2>1, <2>3, <2>4 DEF IInv, OneOwner, Unique
  <2>6. JobsOfThreads' /\ ShutdownAlone'
    BY <1>1, <1>9 DEF IInv, TypeOK, JobsOfThreads, ShutdownAlone
  <2>7. BarrierFences'
    <3>1. ASSUME NEW v \in Users, v # u, NEW i \in 0 .. NumThreads - 1
          PROVE  \/ fence'[<<v, i>>]
                 \/ AddsBarriers(v)' /\ i < fi'[v]
                 \/ upc'[v] = "fin_wait" /\ i >= fi'[v]
      BY <1>6, <1>9, <3>1 DEF IInv, TypeOK, BarrierFences, AddsBarriers, AllJobs, BarrierJobs
    <3>2. ASSUME NEW i \in 0 .. NumThreads - 1
          PROVE  fence'[<<u, i>>] \/ (AddsBarriers(u)' /\ i < fi'[u])
      BY <1>6, <1>8, <1>9 DEF IInv, TypeOK, BarrierFences, AddsBarriers, AllJobs, BarrierJobs
    <3> QED
      BY <3>1, <3>2 DEF BarrierFences
  <2>8. Outcomes'
    BY <1>2, <1>4, <1>6, <1>9
       DEF IInv, TypeOK, Outcomes, FenceMeansOver, Holds, Owes, AllJobs
  <2> QED
    BY <2>1, <2>2, <2>5, <2>6, <2>7, <2>8 DEF IInv
<1>10. CASE /\ UNCHANGED <<ring, wpc>>
            /\ upc' = [upc EXCEPT ![u] = "add_wait"]
            /\ ujob' = [ujob EXCEPT ![u] = j]
  <2> USE <1>10 DEF ring
  <2>1. TypeOK'
    BY <1>4, <1>5, <1>7 DEF IInv, TypeOK, Slots
  <2>2. RingInv'
    BY DEF IInv, TypeOK, RingInv, Occupied, Visited, Slots
  <2>3. \A w \in Workers, k \in AllJobs : Holds(w, k)' <=> Holds(w, k)
    BY DEF Holds
  <2>4. \A v \in Users, k \in AllJobs : Owes(v, k)' <=> Owes(v, k) \/ (v = u /\ k = j)
    BY <1>8 DEF IInv, TypeOK, Owes
  <2>5. \A k \in AllJobs : InRing(k)' <=> InRing(k)
    BY DEF InRing, Slots
  <2>6. OneOwner'
    BY <1>2, <1>6, <2>3, <2>4, <2>5 DEF IInv, OneOwner, Slots
  <2>7. JobsOfThreads' /\ ShutdownAlone'
    BY <1>1 DEF IInv, TypeOK, JobsOfThreads, ShutdownAlone
  <2>8. BarrierFences'
    <3>1. ASSUME NEW v \in Users, v # u, NEW i \in 0 .. NumThreads - 1
          PROVE  \/ fence'[<<v, i>>]
                 \/ AddsBarriers(v)' /\ i < fi'[v]
                 \/ upc'[v] = "fin_wait" /\ i >= fi'[v]
      BY <1>6, <3>1 DEF IInv, TypeOK, BarrierFences, AddsBarriers, AllJobs, BarrierJobs
    <3>2. ASSUME NEW i \in 0 .. NumThreads - 1
          PROVE  fence'[<<u, i>>] \/ (AddsBarriers(u)' /\ i < fi'[u])
      BY <1>6, <1>8 DEF IInv, TypeOK, BarrierFences, AddsBarriers, AllJobs, BarrierJobs
    <3> QED
      BY <3>1, <3>2 DEF BarrierFences
  <2>9. Outcomes'
    BY <1>2, <1>4, <1>6, <2>5
       DEF IInv, TypeOK, Outcomes, FenceMeansOver, Holds, Owes, AllJobs
  <2> QED
    BY <2>1, <2>2, <2>6, <2>7, <2>8, <2>9 DEF IInv
<1>11. CASE /\ num_queued # max_jobs /\ Push(j, jobs, write_idx, max_jobs)
            /\ UNCHANGED <<read_idx, ujob>> /\ upc' = [upc EXCEPT ![u] = After(j)]
  <2>1. PushedNow
    <3>1. RingFine' /\ \A k \in AllJobs : InRing(k)' <=> InRing(k) \/ k = j
      BY <1>1, <1>2, <1>11, LiveRing, PushRing
    <3>2. SignalHasQueued /\ TypeOK
      BY <1>11 DEF Push, IInv
    <3>3. upc' = upc
      BY <1>8, <1>11 DEF IInv, TypeOK
    <3> QED
      BY <1>11, <3>1, <3>2, <3>3, SignalHasQueuedFacts
  <2> QED
    BY <1>9, <2>1
<1>12. CASE /\ num_queued = max_jobs /\ Push(j, Larger, max_jobs, max_jobs + Growth)
            /\ read_idx' = 0 /\ UNCHANGED ujob /\ upc' = [upc EXCEPT ![u] = After(j)]
  <2>1. PushedNow
    <3>1. RingFine' /\ \A k \in AllJobs : InRing(k)' <=> InRing(k) \/ k = j
      BY <1>1, <1>2, <1>12, LiveRing, GrowRing
    <3>2. SignalHasQueued /\ TypeOK
      BY <1>12 DEF Push, IInv
    <3>3. upc' = upc
      BY <1>8, <1>12 DEF IInv, TypeOK
    <3> QED
      BY <1>12, <3>1, <3>2, <3>3, SignalHasQueuedFacts
  <2> QED
    BY <1>9, <2>1
<1> QED
  BY <1>1, <1>10, <1>11, <1>12 DEF AddJob

\* util_queue_add_job returns from its wait for a free slot.
LEMMA AddRetryStep == ASSUME IInv, NEW u \in Users, AddRetry(u) PROVE IInv'
<1> USE UtilQueueAssumption, NumThreadsFacts DEF shut, hist
<1> DEFINE j == ujob[u]
<1>0. /\ upc[u] = "add_retry" /\ j \in AllJobs /\ Owes(u, j) /\ ~kill_threads
      /\ UNCHANGED <<shut, wjob, fi, barCount, finish_lock, fence, hist>>
  BY DEF AddRetry, Owes, IInv, TypeOK, JobsOfThreads, ShutdownAlone
<1>1. ~InRing(j) /\ (\A w \in Workers : ~Holds(w, j)) /\ ~fence[j]
  BY <1>0 DEF IInv, OneOwner
<1>2. CASE num_queued = max_jobs
  <2>0. UNCHANGED <<ring, wpc, ujob>> /\ upc' = [upc EXCEPT ![u] = "add_wait"]
    BY <1>2 DEF AddRetry
  <2> USE <1>0, <2>0 DEF ring
  <2>1. TypeOK'
    BY DEF IInv, TypeOK, Slots
  <2>2. RingInv'
    BY DEF IInv, TypeOK, RingInv, Occupied, Visited, Slots
  <2>3. \A v \in Users, k \in AllJobs : Owes(v, k)' <=> Owes(v, k)
    BY DEF IInv, TypeOK, Owes
  <2>4. OneOwner'
    BY <2>3 DEF IInv, OneOwner, InRing, Holds, Slots
  <2>5. JobsOfThreads' /\ ShutdownAlone'
    BY DEF IInv, TypeOK, JobsOfThreads, ShutdownAlone
  <2>6. BarrierFences'
    BY DEF IInv, TypeOK, BarrierFences, AddsBarriers
  <2>7. Outcomes'
    BY DEF IInv, TypeOK, Outcomes, FenceMeansOver, InRing, Slots
  <2> QED
    BY <2>1, <2>2, <2>4, <2>5, <2>6, <2>7 DEF IInv
<1>3. CASE num_queued # max_jobs
  <2>0. /\ Push(j, jobs, write_idx, max_jobs) /\ UNCHANGED read_idx
        /\ upc' = [upc EXCEPT ![u] = After(j)] /\ ujob' = [ujob EXCEPT ![u] = Null]
    BY <1>3 DEF AddRetry
  <2>1. RingFine' /\ \A k \in AllJobs : InRing(k)' <=> InRing(k) \/ k = j
    BY <1>0, <1>1, <1>3, <2>0, LiveRing, PushRing
  <2>2. RingTyped' /\ RingInv' /\ Unique'
    BY <2>1 DEF RingFine, RingIndices, EmptyOutside, RingInv
  <2>3. SignalHasQueued /\ TypeOK
    BY <2>0 DEF Push, IInv
  <2>4. /\ wpc' \in [Workers -> {"loop", "asleep", "exec", "barrier", "signal", "cleanup",
                                 "drain", "exited"}]
        /\ \A w \in Workers : \/ wpc'[w] = wpc[w]
                              \/ wpc[w] = "asleep" /\ wpc'[w] = "loop"
    BY <2>3, SignalHasQueuedFacts
  <2>5. After(j) \in {"idle", "fin_add"}
    BY DEF After
  <2>6. TypeOK'
    BY <1>0, <2>0, <2>2, <2>4, <2>5 DEF IInv, TypeOK, RingTyped
  <2>7. \A w \in Workers, k \in AllJobs : Holds(w, k)' <=> Holds(w, k)
    BY <1>0, <2>4 DEF Holds
  <2>8. \A v \in Users, k \in AllJobs : Owes(v, k)' <=> Owes(v, k) /\ v # u
    BY <1>0, <2>0, <2>5 DEF IInv, TypeOK, Owes
  <2>9. OneOwner'
    <3>1. \A v \in Users, k \in AllJobs : v # u /\ Owes(v, k) => k # j
      BY <1>0 DEF IInv, OneOwner
    <3>2. \A k \in AllJobs : Owes(u, k) => k = j
      BY DEF Owes
    <3> QED
      BY <1>0, <1>1, <2>1, <2>2, <2>7, <2>8, <3>1, <3>2 DEF IInv, OneOwner, Unique
  <2>10. JobsOfThreads' /\ ShutdownAlone'
    BY <1>0, <2>0, <2>4, <2>5 DEF IInv, TypeOK, JobsOfThreads, ShutdownAlone
  <2>11. BarrierFences'
    <3>1. AddsBarriers(u) => AddsBarriers(u)'
      BY <1>0, <2>0 DEF IInv, TypeOK, AddsBarriers, After
    <3>2. \A v \in Users : v # u => (AddsBarriers(v)' <=> AddsBarriers(v)) /\ upc'[v] = upc[v]
      BY <2>0 DEF IInv, TypeOK, AddsBarriers
    <3> QED
      BY <1>0, <3>1, <3>2 DEF IInv, BarrierFences
  <2>12. Outcomes'
    BY <1>0, <2>0, <2>1, <2>4, <2>5 DEF IInv, TypeOK, Outcomes, FenceMeansOver, AllJobs
  <2> QED
    BY <2>2, <2>6, <2>9, <2>10, <2>11, <2>12 DEF IInv
<1> QED
  BY <1>2, <1>3

\* util_queue_add_job called by the application.
LEMMA AddStep ==
    ASSUME IInv, Shutdown # "atexit", NEW u \in Users, NEW j \in Jobs, Add(u, j) PROVE IInv'
<1>1. closing = "no" /\ fence[j] /\ j \in AllJobs
  BY DEF Add, Usable, Free, AllJobs
<1> QED
  BY <1>1, AddJobStep DEF Add, shut

\* One turn of the loop of util_queue_finish that adds its jobs.
LEMMA FinishAddStep == ASSUME IInv, NEW u \in Users, FinishAdd(u) PROVE IInv'
<1> USE UtilQueueAssumption, NumThreadsFacts
<1>0. upc[u] = "fin_add" /\ closing = "no" /\ num_threads = NumThreads /\ fi[u] \in 0 .. NumThreads
  BY DEF FinishAdd, IInv, TypeOK, ShutdownAlone
<1>1. CASE fi[u] < num_threads
  <2>1. /\ AddJob(u, <<u, fi[u]>>) /\ fi' = [fi EXCEPT ![u] = fi[u] + 1]
        /\ UNCHANGED <<shut, wjob, barCount, finish_lock>>
    BY <1>0, <1>1 DEF FinishAdd
  <2>2. <<u, fi[u]>> \in AllJobs
    BY <1>0, <1>1 DEF AllJobs, BarrierJobs
  <2>3. fence[<<u, fi[u]>>]
    BY <1>0, <1>1 DEF IInv, BarrierFences
  <2> QED
    BY <1>0, <1>1, <2>1, <2>2, <2>3, AddJobStep
<1>2. CASE fi[u] >= num_threads
  <2>0. /\ fi' = [fi EXCEPT ![u] = 0] /\ upc' = [upc EXCEPT ![u] = "fin_wait"]
        /\ UNCHANGED <<ring, shut, wpc, wjob, ujob, barCount, finish_lock, fence, hist>>
    BY <1>0, <1>2 DEF FinishAdd
  <2> USE <1>0, <2>0 DEF ring, shut, hist
  <2>1. TypeOK'
    BY DEF IInv, TypeOK, Slots
  <2>2. RingInv'
    BY DEF IInv, TypeOK, RingInv, Occupied, Visited, Slots
  <2>3. \A v \in Users, k \in AllJobs : Owes(v, k)' <=> Owes(v, k)
    BY DEF IInv, TypeOK, Owes
  <2>4. OneOwner'
    BY <2>3 DEF IInv, OneOwner, InRing, Holds, Slots
  <2>5. JobsOfThreads' /\ ShutdownAlone'
    BY DEF IInv, TypeOK, JobsOfThreads, ShutdownAlone
  <2>6. BarrierFences'
    <3>1. \A v \in Users : v # u => fi'[v] = fi[v] /\ upc'[v] = upc[v]
      BY DEF IInv, TypeOK
    <3>2. upc'[u] = "fin_wait" /\ fi'[u] = 0
      BY DEF IInv, TypeOK
    <3>3. \A v \in Users : v # u => (AddsBarriers(v)' <=> AddsBarriers(v))
      BY <3>1 DEF AddsBarriers
    <3>4. \A i \in 0 .. NumThreads - 1 : i >= 0
      OBVIOUS
    <3> QED
      BY <3>1, <3>2, <3>3, <3>4 DEF IInv, BarrierFences
  <2>7. Outcomes'
    BY DEF IInv, TypeOK, JobsOfThreads, Outcomes, FenceMeansOver, InRing, Slots
  <2> QED
    BY <2>1, <2>2, <2>4, <2>5, <2>6, <2>7 DEF IInv
<1> QED
  BY <1>0, <1>1, <1>2

\* Every step preserves the invariant.
LEMMA NextIInv == ASSUME Shutdown # "atexit" PROVE IInv /\ [Next]_vars => IInv'
<1> SUFFICES ASSUME IInv, [Next]_vars PROVE IInv'
  OBVIOUS
<1>1. CASE \E w \in Workers : WorkerStep(w) \/ WorkerSpurious(w)
  BY <1>1, WorkerIdleStep, WorkerTakeStep, WorkerExecStep, WorkerSignalStep, WorkerCleanupStep,
     WorkerDrainStep DEF WorkerStep
<1>2. CASE \E u \in Users : UserStep(u) \/ UserCall(u) \/ AddSpurious(u)
  BY <1>2, AddStep, AddRetryStep, FinishAddStep, FinishWaitStep, DropScanStep, DropSignalStep,
     UserLocalStep DEF UserStep, UserCall
<1>3. CASE Kill \/ Joined
  BY <1>3, ShutdownStep
<1>4. CASE UNCHANGED vars
  <2> USE <1>4 DEF vars, ring, shut, wvars, uvars, hist
  <2>1. TypeOK' /\ RingInv' /\ OneOwner'
    BY DEF IInv, TypeOK, RingInv, OneOwner, InRing, Holds, Owes, Occupied, Visited, Slots
  <2>2. JobsOfThreads' /\ BarrierFences' /\ ShutdownAlone' /\ Outcomes'
    BY DEF IInv, JobsOfThreads, BarrierFences, AddsBarriers, ShutdownAlone, Outcomes,
           FenceMeansOver, InRing, Slots
  <2> QED
    BY <2>1, <2>2 DEF IInv
<1> QED
  BY <1>1, <1>2, <1>3, <1>4 DEF Next

\* The invariant holds throughout.
LEMMA SpecIInv == ASSUME Shutdown # "atexit" PROVE Spec => []IInv
<1>1. IInv /\ [Next]_vars => IInv'
  BY NextIInv
<1> QED
  BY <1>1, InitIInv, PTL DEF Spec
-----------------------------------------------------------------------------
\* The ring of util_queue stays consistent through adding, taking, dropping and
\* enlarging, for any number of workers, users, jobs and slots.
THEOREM RingConsistent == ASSUME Shutdown # "atexit" PROVE Spec => [](TypeOK /\ RingInv)
<1>1. IInv => TypeOK /\ RingInv
  BY DEF IInv
<1>2. Spec => []IInv
  BY SpecIInv
<1> QED
  BY <1>1, <1>2, PTL

\* Every fence that is not signalled has exactly one thread, or one slot of the
\* ring, that is responsible for signalling it, and a signalled fence has none.
THEOREM EveryJobHasOneOwner == ASSUME Shutdown # "atexit" PROVE Spec => []OneOwner
<1>1. IInv => OneOwner
  BY DEF IInv
<1>2. Spec => []IInv
  BY SpecIInv
<1> QED
  BY <1>1, <1>2, PTL

\* A signalled fence means that the job has been executed, dropped or given up.
THEOREM FencesTellTheTruth == ASSUME Shutdown # "atexit" PROVE Spec => []FenceMeansOver
<1>1. IInv => FenceMeansOver
  BY DEF IInv, Outcomes
<1>2. Spec => []IInv
  BY SpecIInv
<1> QED
  BY <1>1, <1>2, PTL

\* assert(ptr->job == NULL) of util_queue_add_job holds after the wait for a slot.
THEOREM AddFindsSlot == ASSUME Shutdown # "atexit" PROVE Spec => []AddFindsFreeSlot
<1>1. IInv => AddFindsFreeSlot
  <2> SUFFICES ASSUME IInv, NEW u \in Users, upc[u] = "add_retry", num_queued # max_jobs
               PROVE  jobs[write_idx] = Null
    BY DEF AddFindsFreeSlot
  <2>1. RingFine
    BY LiveRing DEF IInv, ShutdownAlone
  <2> QED
    BY <2>1 DEF RingFine, RingTyped, RingIndices, EmptyOutside, Occupied, Visited, Slots
<1>2. Spec => []IInv
  BY SpecIInv
<1> QED
  BY <1>1, <1>2, PTL

\* A worker that executes a job finds the submission pending, so that none is
\* executed twice, or after it was dropped or given up.
THEOREM JobsExecuteOnce == ASSUME Shutdown # "atexit" PROVE Spec => ExecutedOnce
<1>1. IInv /\ [Next]_vars
      => [\A w \in Workers : (wpc[w] = "exec" /\ wpc'[w] = "signal" /\ wjob[w] \in Jobs)
                              => outcome[wjob[w]] = "pending"]_vars
  BY DEF IInv, Outcomes
<1>2. Spec => []IInv
  BY SpecIInv
<1> QED
  BY <1>1, <1>2, PTL DEF Spec, ExecutedOnce
-----------------------------------------------------------------------------
(***************************************************************************)
(* Cleanup callbacks.                                                      *)
(***************************************************************************)

\* A submission that a worker still has is not cleaned up, and one that has been
\* executed or dropped is, unless a worker has it.  A worker that is about to call
\* the cleanup callback is the only one that has the job, and its fence is
\* signalled: nobody can add the job again before the worker has let go of it.
Cleaning ==
    /\ \A j \in Jobs : cleaned[j] => outcome[j] \in {"executed", "dropped"}
    /\ \A w \in Workers : wjob[w] \in Jobs => ~cleaned[wjob[w]]
    /\ \A j \in HasCleanup : outcome[j] \in {"executed", "dropped"}
                              => cleaned[j] \/ \E w \in Workers : wjob[w] = j
    /\ \A w \in Workers : wpc[w] = "cleanup" => fence[wjob[w]] /\ outcome[wjob[w]] = "executed"
    /\ \A v, w \in Workers :
          wpc[v] = "cleanup" /\ wpc[w] = "cleanup" /\ wjob[v] = wjob[w] => v = w

\* A step that leaves alone the histories, the fences that are set and the jobs
\* of the workers.
LEMMA CleaningFrame ==
    ASSUME IInv, Cleaning, UNCHANGED <<outcome, cleaned, wjob>>,
           \A w \in Workers : wpc'[w] = "cleanup" <=> wpc[w] = "cleanup",
           \A j \in AllJobs : fence[j] => fence'[j]
    PROVE  Cleaning'
  BY UtilQueueAssumption DEF IInv, JobsOfThreads, Cleaning, AllJobs

\* The steps of a worker.
LEMMA WorkerCleaning ==
    ASSUME IInv, Cleaning, NEW w \in Workers, WorkerStep(w) \/ WorkerSpurious(w)
    PROVE  Cleaning'
<1> USE UtilQueueAssumption
<1>1. CASE WorkerSleep(w) \/ WorkerSpurious(w) \/ WorkerBreak(w)
  <2>1. UNCHANGED <<outcome, cleaned, wjob, fence>>
    BY <1>1 DEF WorkerSleep, WorkerSpurious, WorkerBreak, hist
  <2>2. \A v \in Workers : wpc'[v] = "cleanup" <=> wpc[v] = "cleanup"
    BY <1>1 DEF WorkerSleep, WorkerSpurious, WorkerBreak, IInv, TypeOK
  <2> QED
    BY <2>1, <2>2, CleaningFrame
<1>2. CASE WorkerTake(w)
  <2>1. UNCHANGED <<outcome, cleaned, fence>>
    BY <1>2 DEF WorkerTake, hist
  <2>2. /\ \A v \in Workers : v # w => wjob'[v] = wjob[v] /\ wpc'[v] = wpc[v]
        /\ wjob'[w] = jobs[read_idx] /\ wpc'[w] # "cleanup"
    BY <1>2 DEF WorkerTake, IInv, TypeOK
  <2>3. jobs[read_idx] \in Jobs => ~cleaned[jobs[read_idx]]
    BY DEF IInv, TypeOK, Outcomes, InRing, Cleaning
  <2>4. wjob[w] = Null /\ Null \notin HasCleanup
    BY <1>2 DEF WorkerTake, IInv, JobsOfThreads, AllJobs
  <2>5. \A j \in HasCleanup : (\E v \in Workers : wjob[v] = j) => \E v \in Workers : wjob'[v] = j
    BY <2>2, <2>4
  <2> QED
    BY <2>1, <2>2, <2>3, <2>5 DEF Cleaning
<1>3. CASE WorkerExec(w) \/ WorkerBarrier(w)
  <2>1. UNCHANGED <<cleaned, fence, wjob>>
    BY <1>3 DEF WorkerExec, WorkerBarrier, hist
  <2>2. \A v \in Workers : wpc'[v] = "cleanup" <=> wpc[v] = "cleanup"
    <3>1. CASE WorkerExec(w)
      BY <3>1 DEF WorkerExec, IInv, TypeOK
    <3>2. CASE WorkerBarrier(w)
      BY <3>2 DEF WorkerBarrier, AtBarrier, IInv, TypeOK
    <3> QED
      BY <1>3, <3>1, <3>2
  <2>3. \A j \in Jobs : \/ outcome'[j] = outcome[j]
                        \/ outcome'[j] = "executed" /\ wjob[w] = j
    BY <1>3 DEF WorkerExec, WorkerBarrier, hist, IInv, TypeOK
  <2> QED
    BY <2>1, <2>2, <2>3 DEF Cleaning, IInv, JobsOfThreads
<1>4. CASE WorkerSignal(w)
  <2> USE DEF WorkerSignal
  <2>1. UNCHANGED <<outcome, cleaned>> /\ wpc[w] = "signal" /\ wjob[w] \in AllJobs
    BY <1>4 DEF IInv, JobsOfThreads
  <2>2. \A v \in Workers : v # w => wjob'[v] = wjob[v] /\ wpc'[v] = wpc[v]
    BY <1>4 DEF IInv, TypeOK
  <2>3. \/ wpc'[w] = "cleanup" /\ wjob'[w] = wjob[w] /\ wjob[w] \in HasCleanup
        \/ wpc'[w] = "loop" /\ wjob'[w] = Null
    BY <1>4 DEF IInv, TypeOK
  <2>4. fence'[wjob[w]] /\ \A j \in AllJobs : fence[j] => fence'[j]
    BY <1>4, <2>1 DEF IInv, TypeOK
  <2>5. ~fence[wjob[w]]
    BY <2>1 DEF IInv, OneOwner, Holds
  <2>6. wjob[w] \in Jobs => outcome[wjob[w]] = "executed"
    BY <2>1 DEF IInv, Outcomes
  <2>7. \A v \in Workers : wpc[v] = "cleanup" => wjob[v] \in Jobs /\ wjob[v] \in AllJobs
    BY DEF IInv, JobsOfThreads, AllJobs
  <2>8. Null \notin Jobs
    BY DEF AllJobs
  <2>9. \A v \in Workers : v # w /\ wpc[v] = "cleanup" => wjob[v] # wjob[w]
    BY <2>5 DEF Cleaning
  <2>10. \A j \in HasCleanup : (\E v \in Workers : wjob[v] = j) => \E v \in Workers : wjob'[v] = j
    BY <1>4, <2>2 DEF IInv, TypeOK
  <2> QED
    BY <2>1, <2>2, <2>3, <2>4, <2>6, <2>7, <2>8, <2>9, <2>10 DEF Cleaning
<1>5. CASE WorkerCleanup(w)
  <2> USE DEF WorkerCleanup
  <2>1. UNCHANGED <<outcome, fence>> /\ wpc[w] = "cleanup" /\ wjob[w] \in Jobs
    BY <1>5 DEF IInv, JobsOfThreads
  <2>2. \A v \in Workers : v # w => wjob'[v] = wjob[v] /\ wpc'[v] = wpc[v]
    BY <1>5 DEF IInv, TypeOK
  <2>3. wpc'[w] = "loop" /\ wjob'[w] = Null
    BY <1>5 DEF IInv, TypeOK
  <2>4. \A j \in Jobs : cleaned'[j] <=> cleaned[j] \/ j = wjob[w]
    BY <1>5 DEF IInv, TypeOK
  <2>5. ASSUME NEW v \in Workers, v # w, wjob[v] \in Jobs PROVE wjob[v] # wjob[w]
    <3>1. wpc[v] \in {"exec", "signal"} => ~fence[wjob[v]]
      BY <2>5 DEF IInv, OneOwner, Holds, AllJobs
    <3>2. wpc[v] \in {"exec", "signal", "cleanup"}
      BY <2>5 DEF IInv, TypeOK, JobsOfThreads, AllJobs
    <3> QED
      BY <2>1, <2>5, <3>1, <3>2 DEF Cleaning
  <2>6. Null \notin Jobs
    BY DEF AllJobs
  <2>7. \A j \in HasCleanup : (\E v \in Workers : wjob[v] = j)
                              => cleaned'[j] \/ \E v \in Workers : wjob'[v] = j
    BY <2>2, <2>4
  <2> QED
    BY <2>1, <2>2, <2>3, <2>4, <2>5, <2>6, <2>7 DEF Cleaning
<1>6. CASE WorkerDrain(w)
  <2>1. UNCHANGED <<cleaned, wjob>>
    BY <1>6 DEF WorkerDrain
  <2>2. \A v \in Workers : wpc'[v] = "cleanup" <=> wpc[v] = "cleanup"
    BY <1>6 DEF WorkerDrain, IInv, TypeOK
  <2>3. \A j \in AllJobs : fence[j] => fence'[j]
    BY <1>6 DEF WorkerDrain
  <2>4. Visited \subseteq Slots
    BY DEF IInv, TypeOK, Visited, Slots
  <2>5. \A j \in Jobs : \/ outcome'[j] = outcome[j]
                        \/ outcome[j] = "pending" /\ outcome'[j] = "cancelled"
    BY <1>6, <2>4 DEF WorkerDrain, IInv, Outcomes, InRing
  <2>6. \A v \in Workers : wpc[v] = "cleanup" => wjob[v] \in Jobs /\ wjob[v] \in AllJobs
    BY DEF IInv, JobsOfThreads, AllJobs
  <2> QED
    BY <2>1, <2>2, <2>3, <2>5, <2>6 DEF Cleaning
<1> QED
  BY <1>1, <1>2, <1>3, <1>4, <1>5, <1>6 DEF WorkerStep

\* util_queue_add_job: the job is free, so that no worker has it.
LEMMA AddCleaning ==
    ASSUME IInv, Cleaning, NEW u \in Users, NEW j \in AllJobs, AddJob(u, j), UNCHANGED wjob,
           j \in Jobs => Free(j)
    PROVE  Cleaning'
<1> USE UtilQueueAssumption
<1>1. \A w \in Workers : wpc'[w] = "cleanup" <=> wpc[w] = "cleanup"
  <2>1. UNCHANGED wpc \/ SignalHasQueued
    BY DEF AddJob, Push
  <2> QED
    BY <2>1, SignalHasQueuedFacts DEF IInv
<1>2. CASE kill_threads
  BY <1>1, <1>2, CleaningFrame DEF AddJob, hist
<1>3. CASE ~kill_threads
  <2>1. \A k \in AllJobs : k # j => fence'[k] = fence[k]
    BY <1>3 DEF AddJob, IInv, TypeOK
  <2>2. /\ \A k \in Jobs : k # j => outcome'[k] = outcome[k] /\ cleaned'[k] = cleaned[k]
        /\ j \in Jobs => ~cleaned'[j] /\ outcome'[j] = "pending"
    BY <1>3 DEF AddJob, Submitted, IInv, TypeOK
  <2>3. \A w \in Workers : wjob[w] \in Jobs => wjob[w] # j /\ wjob[w] \in AllJobs
    BY DEF Free, AllJobs
  <2>4. \A w \in Workers : wpc[w] = "cleanup" => wjob[w] \in Jobs
    BY DEF IInv, JobsOfThreads
  <2> QED
    BY <1>1, <2>1, <2>2, <2>3, <2>4 DEF Cleaning
<1> QED
  BY <1>2, <1>3

\* The steps of a user.
LEMMA UserCleaning ==
    ASSUME IInv, Cleaning, NEW u \in Users, UserStep(u) \/ UserCall(u) \/ AddSpurious(u)
    PROVE  Cleaning'
<1> USE UtilQueueAssumption
<1>1. ASSUME NEW j \in Jobs, Add(u, j) PROVE Cleaning'
  BY <1>1, AddCleaning DEF Add, AllJobs
<1>2. CASE FinishAdd(u)
  <2>1. CASE fi[u] < num_threads /\ AddJob(u, <<u, fi[u]>>)
    <3>1. <<u, fi[u]>> \in BarrierJobs
      BY <2>1, NumThreadsFacts DEF IInv, TypeOK, BarrierJobs
    <3> QED
      BY <1>2, <2>1, <3>1, AddCleaning DEF FinishAdd, AllJobs
  <2>2. CASE UNCHANGED <<wpc, fence, hist>>
    BY <1>2, <2>2, CleaningFrame DEF FinishAdd, hist
  <2> QED
    BY <1>2, <2>1, <2>2 DEF FinishAdd
<1>3. CASE AddRetry(u)
  <2>1. UNCHANGED wpc \/ SignalHasQueued
    BY <1>3 DEF AddRetry, Push
  <2>2. \A w \in Workers : wpc'[w] = "cleanup" <=> wpc[w] = "cleanup"
    BY <2>1, SignalHasQueuedFacts DEF IInv
  <2> QED
    BY <1>3, <2>2, CleaningFrame DEF AddRetry, hist
<1>4. CASE DropScan(u)
  <2>1. UNCHANGED <<wpc, wjob, fence>> /\ ujob[u] \in Jobs /\ ujob[u] \in AllJobs
    BY <1>4 DEF DropScan, wvars, IInv, JobsOfThreads, AllJobs
  <2>2. CASE UNCHANGED hist
    BY <2>1, <2>2, CleaningFrame DEF hist
  <2>3. CASE \E i \in Visited :
                /\ jobs[i] = ujob[u]
                /\ outcome' = [outcome EXCEPT ![ujob[u]] = "dropped"]
                /\ cleaned' = [cleaned EXCEPT ![ujob[u]] = ujob[u] \in HasCleanup]
    <3>1. InRing(ujob[u])
      BY <2>3 DEF InRing, Visited, IInv, TypeOK, Slots
    <3>2. ~fence[ujob[u]] /\ \A w \in Workers : ~Holds(w, ujob[u])
      BY <2>1, <3>1 DEF IInv, OneOwner
    <3>3. \A w \in Workers : wjob[w] # ujob[u]
      <4>1. \A w \in Workers : wpc[w] = "cleanup" => wjob[w] # ujob[u]
        BY <3>2 DEF Cleaning
      <4> QED
        BY <2>1, <3>2, <4>1 DEF Holds, IInv, TypeOK, JobsOfThreads, AllJobs
    <3>4. /\ \A j \in Jobs : j # ujob[u] => outcome'[j] = outcome[j] /\ cleaned'[j] = cleaned[j]
          /\ outcome'[ujob[u]] = "dropped" 
      BY <2>1, <2>3 DEF IInv, TypeOK
    <3>5. \A w \in Workers : wpc[w] = "cleanup" => wjob[w] \in Jobs
      BY DEF IInv, JobsOfThreads
    <3>6. ASSUME ujob[u] \in HasCleanup PROVE cleaned'[ujob[u]]
      <4>1. cleaned \in [Jobs -> BOOLEAN]
        BY DEF IInv, TypeOK
      <4> QED
        BY <2>1, <2>3, <3>6, <4>1, Zenon
    <3> QED
      BY <2>1, <3>3, <3>4, <3>5, <3>6 DEF Cleaning
  <2> QED
    BY <1>4, <2>2, <2>3 DEF DropScan
<1>5. CASE DropSignal(u)
  <2>1. UNCHANGED <<outcome, cleaned, wpc, wjob>> /\ \A j \in AllJobs : fence[j] => fence'[j]
    BY <1>5 DEF DropSignal, hist, wvars, IInv, TypeOK
  <2> QED
    BY <2>1, CleaningFrame
<1>6. CASE \/ WaitReturn(u) \/ FinishLock(u) \/ FinishWait(u) \/ AddSpurious(u) \/ Finish(u)
           \/ \E j \in Jobs : Wait(u, j) \/ Drop(u, j)
  <2>1. UNCHANGED <<outcome, cleaned, wpc, wjob, fence>>
    BY <1>6 DEF WaitReturn, FinishLock, FinishWait, AddSpurious, Finish, Wait, Drop, hist, wvars
  <2> QED
    BY <2>1, CleaningFrame
<1> QED
  BY <1>1, <1>2, <1>3, <1>4, <1>5, <1>6 DEF UserStep, UserCall

\* The cleanup callback of a job is called exactly once per submission: not before
\* the job was executed or is dropped, never while the job is in the ring or in the
\* hands of a worker, and by the time no worker has the job.
THEOREM CleanupRunsOnce == ASSUME Shutdown # "atexit" PROVE Spec => []CleanupOnce
<1> USE UtilQueueAssumption
<1>1. Init => Cleaning
  BY DEF Init, Cleaning, AllJobs
<1>2. ASSUME IInv, Cleaning, [Next]_vars PROVE Cleaning'
  <2>1. CASE \E w \in Workers : WorkerStep(w) \/ WorkerSpurious(w)
    BY <1>2, <2>1, WorkerCleaning
  <2>2. CASE \E u \in Users : UserStep(u) \/ UserCall(u) \/ AddSpurious(u)
    BY <1>2, <2>2, UserCleaning
  <2>3. CASE Kill \/ Joined
    <3>1. UNCHANGED <<outcome, cleaned, wjob, fence>>
      BY <2>3 DEF Kill, Joined, hist, wvars
    <3>2. \A w \in Workers : wpc'[w] = "cleanup" <=> wpc[w] = "cleanup"
      BY <1>2, <2>3 DEF Kill, Joined, wvars, IInv, TypeOK
    <3> QED
      BY <1>2, <3>1, <3>2, CleaningFrame
  <2>4. CASE UNCHANGED vars
    BY <1>2, <2>4, CleaningFrame DEF vars, hist, wvars
  <2> QED
    BY <1>2, <2>1, <2>2, <2>3, <2>4 DEF Next
<1>3. IInv /\ Cleaning => CleanupOnce
  BY DEF IInv, Outcomes, Cleaning, CleanupOnce, AllJobs
<1>4. Spec => []IInv
  BY SpecIInv
<1> QED
  BY <1>1, <1>2, <1>3, <1>4, PTL DEF Spec
-----------------------------------------------------------------------------
(***************************************************************************)
(* Free slots and the users that wait for one.                             *)
(***************************************************************************)

\* Nobody waits for a slot of a ring that is made larger instead.
Space ==
    /\ resize => \A u \in Users : upc[u] \notin {"add_wait", "add_retry"}
    /\ NoSlotOverlooked

LEMMA RetryingFacts ==
    /\ TypeOK => IsFiniteSet(Retrying) /\ Cardinality(Retrying) \in Nat
    /\ TypeOK' => IsFiniteSet(Retrying') /\ Cardinality(Retrying)' \in Nat
  BY UtilQueueAssumption, FS_Subset, FS_CardinalityType DEF Retrying

\* A step that frees no slot and puts nobody to sleep, nor back to sleep.
LEMMA SpaceFrame ==
    ASSUME IInv, IInv', Space, UNCHANGED resize,
           max_jobs' - num_queued' <= max_jobs - num_queued,
           \A u \in Users : upc'[u] = "add_wait" => upc[u] = "add_wait",
           \A u \in Users : upc[u] = "add_retry" => upc'[u] = "add_retry",
           resize => \A u \in Users : upc'[u] # "add_retry"
    PROVE  Space'
<1>1. Retrying \subseteq Retrying'
  BY DEF Retrying
<1>2. Cardinality(Retrying) <= Cardinality(Retrying)'
  BY <1>1, RetryingFacts, FS_Subset DEF IInv
<1>3. /\ Cardinality(Retrying) \in Nat /\ Cardinality(Retrying)' \in Nat
      /\ max_jobs \in Nat /\ num_queued \in Nat /\ max_jobs' \in Nat /\ num_queued' \in Nat
  BY RetryingFacts DEF IInv, TypeOK
<1>4. NoSlotOverlooked'
  BY <1>2, <1>3 DEF Space, NoSlotOverlooked
<1> QED
  BY <1>4 DEF Space

\* A step that leaves the ring full, or nobody asleep.
LEMMA SpaceNone ==
    ASSUME IInv',
           num_queued' = max_jobs' \/ \A u \in Users : upc'[u] # "add_wait",
           resize' => \A u \in Users : upc'[u] \notin {"add_wait", "add_retry"}
    PROVE  Space'
  BY RetryingFacts DEF Space, NoSlotOverlooked, IInv, TypeOK

\* A worker that takes a job wakes one of the users that sleep.
LEMMA TakeSpace ==
    ASSUME IInv, IInv', Space, NEW w \in Workers, WorkerTake(w)
    PROVE  Space'
<1> USE DEF WorkerTake
<1>1. max_jobs' = max_jobs /\ num_queued' = num_queued - 1 /\ resize' = resize
  BY DEF shut
<1>2. CASE \A u \in Users : upc[u] # "add_wait"
  <2>1. upc' = upc
    BY <1>2 DEF SignalHasSpace
  <2> QED
    BY <1>1, <1>2, <2>1, SpaceNone DEF Space
<1>3. CASE \E u \in Users : upc[u] = "add_wait"
  <2>1. PICK u \in Users : upc[u] = "add_wait" /\ upc' = [upc EXCEPT ![u] = "add_retry"]
    BY <1>3 DEF SignalHasSpace
  <2>2. Retrying' = Retrying \cup {u} /\ u \notin Retrying
    BY <2>1 DEF Retrying, IInv, TypeOK
  <2>3. Cardinality(Retrying)' = Cardinality(Retrying) + 1
    BY <2>2, RetryingFacts, FS_AddElement DEF IInv
  <2>4. Cardinality(Retrying) \in Nat /\ max_jobs \in Nat /\ num_queued \in Nat
    BY RetryingFacts DEF IInv, TypeOK
  <2>5. max_jobs - num_queued <= Cardinality(Retrying)
    BY <2>1 DEF Space, NoSlotOverlooked
  <2>6. ~resize
    BY <2>1 DEF Space
  <2> QED
    BY <1>1, <2>3, <2>4, <2>5, <2>6 DEF Space, NoSlotOverlooked
<1> QED
  BY <1>2, <1>3

LEMMA WorkerSpace ==
    ASSUME IInv, IInv', Space, NEW w \in Workers, WorkerStep(w) \/ WorkerSpurious(w)
    PROVE  Space'
<1>1. CASE WorkerTake(w)
  BY <1>1, TakeSpace
<1>2. CASE WorkerDrain(w)
  <2>1. upc' = upc /\ resize' = resize /\ \A u \in Users : upc[u] = "idle"
    BY <1>2 DEF WorkerDrain, uvars, shut, IInv, ShutdownAlone
  <2> QED
    BY <2>1, SpaceNone
<1>3. CASE ~WorkerTake(w) /\ ~WorkerDrain(w)
  <2>1. UNCHANGED <<upc, num_queued, max_jobs, resize>>
    BY <1>3 DEF WorkerStep, WorkerSleep, WorkerSpurious, WorkerExec, WorkerBarrier, WorkerSignal,
                WorkerCleanup, WorkerBreak, ring, shut, uvars
  <2> QED
    BY <2>1, SpaceFrame DEF Space, IInv, TypeOK
<1> QED
  BY <1>1, <1>2, <1>3

\* util_queue_add_job by a user that does not wait yet.
LEMMA AddSpace ==
    ASSUME IInv, IInv', Space, NEW u \in Users, NEW j \in AllJobs, AddJob(u, j),
           UNCHANGED resize, upc[u] \in {"idle", "fin_add"}
    PROVE  Space'
<1>1. After(j) \notin {"add_wait", "add_retry"}
  BY DEF After
<1>2. CASE upc' = [upc EXCEPT ![u] = After(j)] /\ max_jobs' - num_queued' <= max_jobs - num_queued
  BY <1>1, <1>2, SpaceFrame DEF IInv, TypeOK, Space
<1>3. CASE kill_threads
  <2>1. upc' = [upc EXCEPT ![u] = After(j)] /\ UNCHANGED <<num_queued, max_jobs>>
    BY <1>3 DEF AddJob, ring
  <2> QED
    BY <1>2, <2>1 DEF IInv, TypeOK
<1>4. CASE upc' = [upc EXCEPT ![u] = After(j)] /\ Push(j, jobs, write_idx, max_jobs)
  <2>1. max_jobs' - num_queued' <= max_jobs - num_queued
    BY <1>4 DEF Push, IInv, TypeOK
  <2> QED
    BY <1>2, <1>4, <2>1
<1>5. CASE upc' = [upc EXCEPT ![u] = After(j)] /\ resize
  BY <1>1, <1>5, SpaceNone DEF Space, IInv, TypeOK
<1>6. CASE /\ num_queued = max_jobs /\ ~resize
           /\ upc' = [upc EXCEPT ![u] = "add_wait"] /\ UNCHANGED ring
  BY <1>6, SpaceNone DEF ring
<1> QED
  BY <1>3, <1>4, <1>5, <1>6 DEF AddJob

\* A user that was woken looks at the ring: it takes a slot, or there is none.
LEMMA RetrySpace ==
    ASSUME IInv, IInv', Space, NEW u \in Users, AddRetry(u)
    PROVE  Space'
<1> USE DEF AddRetry
<1>1. upc[u] = "add_retry" /\ ~resize /\ resize' = resize
  BY DEF Space, shut
<1>2. CASE num_queued = max_jobs
  BY <1>1, <1>2, SpaceNone DEF ring
<1>3. CASE num_queued # max_jobs
  <2>1. /\ max_jobs' = max_jobs /\ num_queued' = num_queued + 1
        /\ upc' = [upc EXCEPT ![u] = After(ujob[u])]
    BY <1>3 DEF Push
  <2>2. After(ujob[u]) \notin {"add_wait", "add_retry"}
    BY DEF After
  <2>3. Retrying' = Retrying \ {u} /\ u \in Retrying
    BY <1>1, <2>1, <2>2 DEF Retrying, IInv, TypeOK
  <2>4. Cardinality(Retrying)' = Cardinality(Retrying) - 1
    BY <2>3, RetryingFacts, FS_RemoveElement DEF IInv
  <2>5. Cardinality(Retrying) \in Nat /\ max_jobs \in Nat /\ num_queued \in Nat
    BY RetryingFacts DEF IInv, TypeOK
  <2>6. \A v \in Users : upc'[v] = "add_wait" => upc[v] = "add_wait"
    BY <2>1, <2>2 DEF IInv, TypeOK
  <2>7. NoSlotOverlooked'
    BY <2>1, <2>4, <2>5, <2>6 DEF Space, NoSlotOverlooked
  <2> QED
    BY <1>1, <2>7 DEF Space
<1> QED
  BY <1>2, <1>3

LEMMA UserSpace ==
    ASSUME IInv, IInv', Space, NEW u \in Users, UserStep(u) \/ UserCall(u) \/ AddSpurious(u)
    PROVE  Space'
<1>1. ASSUME NEW j \in Jobs, Add(u, j) PROVE Space'
  BY <1>1, AddSpace DEF Add, AllJobs, shut
<1>2. CASE FinishAdd(u)
  <2>1. CASE fi[u] < num_threads /\ AddJob(u, <<u, fi[u]>>)
    <3>1. <<u, fi[u]>> \in AllJobs
      BY <2>1, NumThreadsFacts DEF IInv, TypeOK, BarrierJobs, AllJobs
    <3> QED
      BY <1>2, <2>1, <3>1, AddSpace DEF FinishAdd, shut
  <2>2. CASE upc' = [upc EXCEPT ![u] = "fin_wait"] /\ UNCHANGED ring
    BY <1>2, <2>2, SpaceFrame DEF FinishAdd, ring, shut, IInv, TypeOK, Space
  <2> QED
    BY <1>2, <2>1, <2>2 DEF FinishAdd
<1>3. CASE AddRetry(u)
  BY <1>3, RetrySpace
<1>4. CASE AddSpurious(u)
  <2>1. ~resize /\ UNCHANGED <<resize, num_queued, max_jobs>>
    BY <1>4 DEF AddSpurious, Space, shut, ring
  <2>2. upc' = [upc EXCEPT ![u] = "add_retry"] /\ upc[u] = "add_wait"
    BY <1>4 DEF AddSpurious
  <2> QED
    BY <2>1, <2>2, SpaceFrame DEF IInv, TypeOK
<1>5. CASE \/ WaitReturn(u) \/ DropScan(u) \/ DropSignal(u) \/ FinishLock(u) \/ FinishWait(u)
           \/ Finish(u) \/ \E j \in Jobs : Wait(u, j) \/ Drop(u, j)
  <2>1. UNCHANGED <<num_queued, max_jobs, resize>>
    BY <1>5 DEF WaitReturn, DropScan, DropSignal, FinishLock, FinishWait, Finish, Wait, Drop,
                ring, shut
  <2>2. /\ upc[u] \notin {"add_wait", "add_retry"} /\ upc'[u] \notin {"add_wait", "add_retry"}
        /\ \A v \in Users : v # u => upc'[v] = upc[v]
    BY <1>5 DEF WaitReturn, DropScan, DropSignal, FinishLock, FinishWait, Finish, Wait, Drop,
                IInv, TypeOK
  <2> QED
    BY <2>1, <2>2, SpaceFrame DEF IInv, TypeOK, Space
<1> QED
  BY <1>1, <1>2, <1>3, <1>4, <1>5 DEF UserStep, UserCall

\* As long as a user sleeps in util_queue_add_job, every free slot has a user that
\* is awake to take it: one signal of has_space_cond per taken job is enough,
\* however many users sleep and whoever takes the slots.
THEOREM SlotsNotOverlooked == ASSUME Shutdown # "atexit" PROVE Spec => []NoSlotOverlooked
<1>1. Init => Space
  BY DEF Init, Space, NoSlotOverlooked
<1>2. ASSUME IInv, IInv', Space, [Next]_vars PROVE Space'
  <2>1. CASE \E w \in Workers : WorkerStep(w) \/ WorkerSpurious(w)
    BY <1>2, <2>1, WorkerSpace
  <2>2. CASE \E u \in Users : UserStep(u) \/ UserCall(u) \/ AddSpurious(u)
    BY <1>2, <2>2, UserSpace
  <2>3. CASE Kill \/ Joined \/ UNCHANGED vars
    <3>1. UNCHANGED <<num_queued, max_jobs, resize, upc>>
      BY <2>3 DEF Kill, Joined, vars, ring, shut, uvars
    <3> QED
      BY <1>2, <3>1, SpaceFrame DEF Space, IInv, TypeOK
  <2> QED
    BY <1>2, <2>1, <2>2, <2>3 DEF Next
<1>3. Space => NoSlotOverlooked
  BY DEF Space
<1>4. Spec => []IInv
  BY SpecIInv
<1> QED
  BY <1>1, <1>2, <1>3, <1>4, PTL DEF Spec
-----------------------------------------------------------------------------
(***************************************************************************)
(* util_queue implements the job queue.                                    *)
(***************************************************************************)

Entries == AllJobs \cup {Null}

\* The ring as a sequence.
QueueShape ==
    /\ Queue \in Seq(Entries)
    /\ Len(Queue) = num_queued
    /\ \A k \in 1 .. num_queued : Queue[k] = jobs[Nth(k - 1)] /\ Nth(k - 1) \in Slots

LEMMA QueueFacts == RingTyped => QueueShape
<1> SUFFICES ASSUME RingTyped PROVE QueueShape
  OBVIOUS
<1>1. \A k \in 1 .. num_queued : k - 1 \in Slots
  BY DEF RingTyped, Slots
<1>2. \A k \in 1 .. num_queued : Nth(k - 1) \in Slots
  BY <1>1, NthFacts DEF RingTyped
<1>3. \A k \in 1 .. num_queued : jobs[Nth(k - 1)] \in Entries
  BY <1>2 DEF RingTyped, Entries
<1>4. num_queued \in Nat
  BY DEF RingTyped
<1>5. Queue \in [1 .. num_queued -> Entries]
  BY <1>3 DEF Queue
<1>6. Queue \in Seq(Entries) /\ Len(Queue) = num_queued
  BY <1>4, <1>5
<1> QED
  BY <1>2, <1>6 DEF Queue, QueueShape

\* The same after a step.
LEMMA QueueFactsNext == RingTyped' => QueueShape'
  BY QueueFacts, PTL

\* A slot that the loop over the ring visits holds one of the queued entries.
LEMMA VisitedQueued ==
    ASSUME RingTyped, RingIndices, NEW i \in Visited
    PROVE  i \in Slots /\ \E k \in 1 .. num_queued : Nth(k - 1) = i
<1>1. i \in Slots
  BY DEF RingTyped, Visited, Slots
<1>2. CASE i >= read_idx
  <2>1. i - read_idx + 1 \in 1 .. num_queued
    BY <1>1, <1>2 DEF RingTyped, RingIndices, Visited, Slots
  <2>2. Nth((i - read_idx + 1) - 1) = i
    BY <1>1, <1>2 DEF RingTyped, Nth, Slots
  <2> QED
    BY <1>1, <2>1, <2>2
<1>3. CASE i < read_idx
  <2>1. i + max_jobs - read_idx + 1 \in 1 .. num_queued
    BY <1>1, <1>3 DEF RingTyped, RingIndices, Visited, Slots
  <2>2. Nth((i + max_jobs - read_idx + 1) - 1) = i
    BY <1>1, <1>3 DEF RingTyped, Nth, Slots
  <2> QED
    BY <1>1, <2>1, <2>2
<1> QED
  BY <1>1, <1>2, <1>3 DEF RingTyped, Slots

\* A worker takes the head of the sequence.
LEMMA TakeQueue ==
    ASSUME RingFine, RingTyped', num_queued > 0,
           jobs' = [jobs EXCEPT ![read_idx] = Null],
           read_idx' = Inc(read_idx),
           num_queued' = num_queued - 1,
           UNCHANGED <<write_idx, max_jobs>>
    PROVE  Queue # <<>> /\ Queue' = Tail(Queue) /\ Head(Queue) = jobs[read_idx]
<1>0. RingTyped
  BY DEF RingFine
<1>1. read_idx' = IF read_idx + 1 = max_jobs THEN 0 ELSE read_idx + 1
  BY <1>0, IncFacts DEF Inc, RingTyped, Slots
<1>2. /\ Queue \in Seq(Entries) /\ Len(Queue) = num_queued
      /\ \A k \in 1 .. num_queued : Queue[k] = jobs[Nth(k - 1)] /\ Nth(k - 1) \in Slots
  BY <1>0, QueueFacts DEF QueueShape
<1>3. /\ Queue' \in Seq(Entries) /\ Len(Queue') = num_queued - 1
      /\ \A k \in 1 .. num_queued - 1 : Queue'[k] = jobs'[Nth(k - 1)']
  BY QueueFactsNext DEF Entries, QueueShape
<1>4. Queue # <<>> /\ num_queued \in Nat
  BY <1>0, <1>2 DEF RingTyped
<1>5. Head(Queue) = jobs[read_idx]
  <2>1. Nth(1 - 1) = read_idx /\ 1 \in 1 .. num_queued
    BY <1>0, <1>4 DEF RingTyped, Nth, Slots
  <2> QED
    BY <1>2, <1>4, <2>1
<1>6. ASSUME NEW k \in 1 .. num_queued - 1 PROVE Queue'[k] = Queue[k + 1]
  <2>1. Nth(k - 1)' = Nth((k + 1) - 1) /\ Nth((k + 1) - 1) # read_idx
    BY <1>0, <1>1 DEF RingTyped, Nth, Slots
  <2>2. k + 1 \in 1 .. num_queued
    BY <1>4
  <2>3. jobs'[Nth((k + 1) - 1)] = jobs[Nth((k + 1) - 1)]
    BY <1>0, <1>2, <2>1, <2>2 DEF RingTyped
  <2> QED
    BY <1>2, <1>3, <2>1, <2>2, <2>3
<1>7. /\ Tail(Queue) \in Seq(Entries) /\ Len(Tail(Queue)) = num_queued - 1
      /\ \A k \in 1 .. num_queued - 1 : Tail(Queue)[k] = Queue[k + 1]
  BY <1>2, <1>4, HeadTailProperties
<1>8. Queue' = Tail(Queue)
  BY <1>3, <1>6, <1>7, SeqEqual
<1> QED
  BY <1>4, <1>5, <1>8

\* A sequence that is one longer than another and ends with j.
LEMMA AppendFacts ==
    ASSUME NEW S, NEW s \in Seq(S), NEW t \in Seq(S), NEW j \in S,
           Len(t) = Len(s) + 1, t[Len(s) + 1] = j, \A k \in 1 .. Len(s) : t[k] = s[k]
    PROVE  t = Append(s, j)
<1>1. /\ Append(s, j) \in Seq(S) /\ Len(Append(s, j)) = Len(s) + 1
      /\ \A k \in 1 .. Len(s) : Append(s, j)[k] = s[k]
      /\ Append(s, j)[Len(s) + 1] = j
  BY AppendProperties
<1>2. \A k \in 1 .. Len(t) : k \in 1 .. Len(s) \/ k = Len(s) + 1
  BY LenProperties
<1>3. \A k \in 1 .. Len(t) : t[k] = Append(s, j)[k]
  BY <1>1, <1>2
<1> QED
  BY <1>1, <1>3, SeqEqual

\* A job stored at write_idx is the last one of the sequence.
LEMMA PushQueue ==
    ASSUME RingFine, RingTyped', NEW j \in AllJobs, num_queued # max_jobs,
           Push(j, jobs, write_idx, max_jobs), read_idx' = read_idx
    PROVE  Queue' = Append(Queue, j)
<1>0. RingTyped /\ RingIndices
  BY DEF RingFine
<1>1. /\ jobs' = [jobs EXCEPT ![write_idx] = j]
      /\ num_queued' = num_queued + 1 /\ max_jobs' = max_jobs
  BY DEF Push
<1>2. /\ Queue \in Seq(Entries) /\ Len(Queue) = num_queued
      /\ \A k \in 1 .. num_queued : Queue[k] = jobs[Nth(k - 1)] /\ Nth(k - 1) \in Slots
  BY <1>0, QueueFacts DEF QueueShape
<1>3. /\ Queue' \in Seq(Entries) /\ Len(Queue') = num_queued + 1
      /\ \A k \in 1 .. num_queued + 1 : Queue'[k] = jobs'[Nth(k - 1)]
  <2>1. \A k : Nth(k - 1)' = Nth(k - 1)
    BY <1>1 DEF Nth
  <2> QED
    BY <1>1, <2>1, QueueFactsNext DEF Entries, QueueShape
<1>4. Nth(num_queued) = write_idx /\ num_queued \in Nat /\ num_queued + 1 - 1 = num_queued
  BY <1>0 DEF RingTyped, RingIndices, Nth, Slots
<1>5. \A k \in 1 .. num_queued : Nth(k - 1) # write_idx
  BY <1>0, <1>4 DEF RingTyped, RingIndices, Nth, Slots
<1>6. Queue'[num_queued + 1] = j
  BY <1>0, <1>1, <1>3, <1>4 DEF RingTyped
<1>7. ASSUME NEW k \in 1 .. num_queued PROVE Queue'[k] = Queue[k]
  <2>1. k \in 1 .. num_queued + 1
    BY <1>4
  <2>2. jobs'[Nth(k - 1)] = jobs[Nth(k - 1)]
    BY <1>0, <1>1, <1>2, <1>5 DEF RingTyped
  <2> QED
    BY <1>2, <1>3, <2>1, <2>2
<1> QED
  BY <1>2, <1>3, <1>6, <1>7, AppendFacts DEF Entries

\* The enlarged ring holds the same sequence, and the new job behind it.
LEMMA GrowQueue ==
    ASSUME RingFine, RingTyped', NEW j \in AllJobs, num_queued = max_jobs,
           Push(j, Larger, max_jobs, max_jobs + Growth), read_idx' = 0
    PROVE  Queue' = Append(Queue, j)
<1> USE UtilQueueAssumption
<1>0. RingTyped
  BY DEF RingFine
<1>1. /\ jobs' = [Larger EXCEPT ![max_jobs] = j]
      /\ num_queued' = num_queued + 1 /\ max_jobs' = max_jobs + Growth
      /\ num_queued \in Nat
  BY <1>0 DEF Push, RingTyped
<1>2. /\ Queue \in Seq(Entries) /\ Len(Queue) = num_queued
      /\ \A k \in 1 .. num_queued : Queue[k] = jobs[Nth(k - 1)] /\ Nth(k - 1) \in Slots
  BY <1>0, QueueFacts DEF QueueShape
<1>3. /\ Queue' \in Seq(Entries) /\ Len(Queue') = num_queued + 1
      /\ \A k \in 1 .. num_queued + 1 : Queue'[k] = jobs'[k - 1]
  <2>1. \A k \in 1 .. num_queued + 1 : Nth(k - 1)' = k - 1
    BY <1>0, <1>1 DEF Nth, RingTyped
  <2> QED
    BY <1>1, <2>1, QueueFactsNext DEF Entries, QueueShape
<1>4. jobs'[max_jobs] = j /\ \A i \in 0 .. max_jobs - 1 : jobs'[i] = jobs[Nth(i)]
  BY <1>0, <1>1 DEF Larger, RingTyped
<1>5. Queue'[num_queued + 1] = j
  BY <1>1, <1>3, <1>4
<1>6. ASSUME NEW k \in 1 .. num_queued PROVE Queue'[k] = Queue[k]
  <2>1. k \in 1 .. num_queued + 1 /\ k - 1 \in 0 .. max_jobs - 1
    BY <1>1
  <2> QED
    BY <1>2, <1>3, <1>4, <2>1
<1> QED
  BY <1>2, <1>3, <1>5, <1>6, AppendFacts DEF Entries

\* A slot that is cleared is a cancelled entry.
LEMMA ClearQueue ==
    ASSUME RingTyped, RingTyped', RingIndices, NEW i \in Visited,
           jobs' = [jobs EXCEPT ![i] = Null],
           UNCHANGED <<read_idx, write_idx, num_queued, max_jobs>>
    PROVE  \E k \in DOMAIN Queue : Queue[k] = jobs[i] /\ Queue' = [Queue EXCEPT ![k] = Null]
<1>1. /\ Queue \in Seq(Entries) /\ Len(Queue) = num_queued
      /\ \A k \in 1 .. num_queued : Queue[k] = jobs[Nth(k - 1)] /\ Nth(k - 1) \in Slots
  BY QueueFacts DEF QueueShape
<1>2. /\ Queue' \in Seq(Entries) /\ Len(Queue') = num_queued
      /\ \A k \in 1 .. num_queued : Queue'[k] = jobs'[Nth(k - 1)]
  <2>1. \A k : Nth(k - 1)' = Nth(k - 1)
    BY DEF Nth
  <2> QED
    BY <2>1, QueueFactsNext DEF Entries, QueueShape
<1>3. PICK n \in 1 .. num_queued : Nth(n - 1) = i
  BY VisitedQueued
<1>4. \A k \in 1 .. num_queued : k # n => Nth(k - 1) # i
  BY <1>3 DEF RingTyped, Nth, Slots
<1>5. n \in DOMAIN Queue /\ Queue[n] = jobs[i]
  BY <1>1, <1>3, LenProperties
<1>6. Null \in Entries
  BY DEF Entries
<1>7. /\ [Queue EXCEPT ![n] = Null] \in Seq(Entries)
      /\ Len([Queue EXCEPT ![n] = Null]) = num_queued
      /\ \A k \in 1 .. num_queued : [Queue EXCEPT ![n] = Null][k] = IF k = n THEN Null ELSE Queue[k]
  BY <1>1, <1>5, <1>6, ExceptSeq, LenProperties
<1>8. \A k \in 1 .. num_queued : Queue'[k] = IF k = n THEN Null ELSE Queue[k]
  BY <1>1, <1>2, <1>3, <1>4 DEF RingTyped
<1>9. Queue' = [Queue EXCEPT ![n] = Null]
  BY <1>2, <1>7, <1>8, SeqEqual
<1> QED
  BY <1>5, <1>9

\* A queued job is in the ring.
LEMMA QueuedInRing == ASSUME RingTyped PROVE \A j \in Q!Queued : InRing(j)
<1>1. /\ Queue \in Seq(Entries) /\ Len(Queue) = num_queued
      /\ \A k \in 1 .. num_queued : Queue[k] = jobs[Nth(k - 1)] /\ Nth(k - 1) \in Slots
  BY QueueFacts DEF QueueShape
<1>2. DOMAIN Queue = 1 .. num_queued
  BY <1>1, LenProperties
<1> QED
  BY <1>1, <1>2 DEF Q!Queued, InRing

\* What the parts of the job queue depend on.
LEMMA QueueFrame ==
    /\ UNCHANGED ring => UNCHANGED Queue
    /\ UNCHANGED fence => UNCHANGED Pending
    /\ (\A w \in Workers, j \in AllJobs : Holds(w, j)' <=> Holds(w, j)) => UNCHANGED Running
    /\ (\A u \in Users : (upc'[u] = "drop_signal" <=> upc[u] = "drop_signal")
                         /\ (upc[u] = "drop_signal" => ujob'[u] = ujob[u]))
          => UNCHANGED Cancelled
<1>1. UNCHANGED ring => UNCHANGED Queue
  BY DEF ring, Queue, Nth
<1>2. UNCHANGED fence => UNCHANGED Pending
  BY DEF Pending
<1>3. (\A w \in Workers, j \in AllJobs : Holds(w, j)' <=> Holds(w, j)) => UNCHANGED Running
  BY DEF Running
<1>4. (\A u \in Users : (upc'[u] = "drop_signal" <=> upc[u] = "drop_signal")
                        /\ (upc[u] = "drop_signal" => ujob'[u] = ujob[u]))
         => UNCHANGED Cancelled
  BY DEF Cancelled
<1> QED
  BY <1>1, <1>2, <1>3, <1>4

\* The steps of a worker: a job is started or finished, or the queue is closed.
LEMMA WorkerImplements ==
    ASSUME IInv, NEW w \in Workers, WorkerStep(w) \/ WorkerSpurious(w)
    PROVE  [Q!Next]_(Q!vars)
<1> USE UtilQueueAssumption
<1>1. CASE \/ WorkerSleep(w) \/ WorkerSpurious(w) \/ WorkerBreak(w)
           \/ WorkerExec(w) \/ WorkerBarrier(w) \/ WorkerCleanup(w)
  <2>1. UNCHANGED <<ring, fence, upc, ujob>>
    BY <1>1 DEF WorkerSleep, WorkerSpurious, WorkerBreak, WorkerExec, WorkerBarrier, WorkerCleanup, uvars
  <2>2. \A v \in Workers, j \in AllJobs : Holds(v, j)' <=> Holds(v, j)
    <3>1. CASE WorkerSleep(w) \/ WorkerSpurious(w) \/ WorkerBreak(w)
      BY <3>1 DEF WorkerSleep, WorkerSpurious, WorkerBreak, Holds, IInv, TypeOK
    <3>2. CASE WorkerExec(w)
      BY <3>2 DEF WorkerExec, Holds, IInv, TypeOK
    <3>3. CASE WorkerBarrier(w)
      BY <3>3 DEF WorkerBarrier, AtBarrier, Holds, IInv, TypeOK
    <3>4. CASE WorkerCleanup(w)
      BY <3>4 DEF WorkerCleanup, Holds, IInv, TypeOK
    <3> QED
      BY <1>1, <3>1, <3>2, <3>3, <3>4
  <2>3. UNCHANGED <<Queue, Pending, Running, Cancelled>>
    BY <2>1, <2>2, QueueFrame
  <2> QED
    BY <2>3 DEF Q!vars
<1>2. CASE WorkerTake(w)
  <2> USE DEF WorkerTake
  <2>1. RingFine /\ RingTyped'
    BY <1>2, LiveRing, TakeRing DEF RingFine
  <2>2. Queue # <<>> /\ Queue' = Tail(Queue) /\ Head(Queue) = jobs[read_idx]
    BY <1>2, <2>1, TakeQueue
  <2>3. \A v \in Workers, j \in AllJobs :
           Holds(v, j)' <=> Holds(v, j) \/ (v = w /\ j = jobs[read_idx])
    BY <1>2 DEF IInv, TypeOK, Holds
  <2>4. jobs[read_idx] \in AllJobs \cup {Null}
    BY DEF IInv, TypeOK
  <2>5. Running' = Running \cup ({Head(Queue)} \ {Null})
    <3>1. \A j \in AllJobs : j \in Running' <=> j \in Running \/ j = jobs[read_idx]
      BY <2>3 DEF Running
    <3>2. Running \subseteq AllJobs /\ Running' \subseteq AllJobs
      BY DEF Running
    <3> QED
      BY <2>2, <2>4, <3>1, <3>2
  <2>6. UNCHANGED <<Pending, Cancelled>>
    <3>1. \A u \in Users : upc'[u] = "drop_signal" <=> upc[u] = "drop_signal"
      BY <1>2, SignalHasSpaceFacts DEF IInv
    <3> QED
      BY <1>2, <3>1, QueueFrame
  <2> QED
    BY <2>2, <2>5, <2>6 DEF Q!Next, Q!Start
<1>3. CASE WorkerSignal(w)
  <2> USE DEF WorkerSignal
  <2>1. wjob[w] \in AllJobs /\ Holds(w, wjob[w])
    BY <1>3 DEF IInv, JobsOfThreads, Holds
  <2>2. \A v \in Workers, j \in AllJobs : Holds(v, j)' <=> Holds(v, j) /\ v # w
    BY <1>3 DEF IInv, TypeOK, Holds
  <2>3. \A v \in Workers, j \in AllJobs : Holds(v, j) => (v = w <=> j = wjob[w])
    BY <2>1 DEF IInv, OneOwner, Holds
  <2>4. wjob[w] \in Running /\ Running' = Running \ {wjob[w]}
    BY <2>1, <2>2, <2>3 DEF Running
  <2>5. Pending' = Pending \ {wjob[w]}
    <3>1. \A j \in AllJobs : fence'[j] <=> fence[j] \/ j = wjob[w]
      BY <1>3, <2>1 DEF IInv, TypeOK
    <3> QED
      BY <3>1 DEF Pending
  <2>6. UNCHANGED <<Queue, Cancelled>>
    BY <1>3, QueueFrame DEF uvars
  <2> QED
    BY <2>1, <2>4, <2>5, <2>6 DEF Q!Next, Q!Finish
<1>4. CASE WorkerDrain(w)
  <2> DEFINE left == {j \in AllJobs : \E i \in Visited : jobs[i] = j}
  <2>1. RingTyped /\ RingIndices
    BY DEF IInv, TypeOK, RingInv, RingTyped, RingIndices
  <2>2. Queue' = <<>>
    <3>1. num_queued' = 0
      BY <1>4 DEF WorkerDrain
    <3>2. 1 .. 0 = {}
      OBVIOUS
    <3> QED
      BY <3>1, <3>2 DEF Queue
  <2>3. left \subseteq Q!Queued
    <3>1. /\ Queue \in Seq(Entries) /\ Len(Queue) = num_queued
          /\ \A k \in 1 .. num_queued : Queue[k] = jobs[Nth(k - 1)]
      BY <2>1, QueueFacts DEF QueueShape
    <3>2. DOMAIN Queue = 1 .. num_queued
      BY <3>1, LenProperties
    <3>3. ASSUME NEW j \in AllJobs, NEW i \in Visited, jobs[i] = j
          PROVE  \E k \in DOMAIN Queue : Queue[k] = j
      <4>1. PICK k \in 1 .. num_queued : Nth(k - 1) = i
        BY <2>1, VisitedQueued
      <4> QED
        BY <3>1, <3>2, <3>3, <4>1
    <3> QED
      BY <3>3 DEF Q!Queued
  <2>4. Pending' = Pending \ left
    <3>1. \A j \in AllJobs : fence'[j] <=> fence[j] \/ j \in left
      BY <1>4 DEF WorkerDrain
    <3> HIDE DEF left
    <3> QED
      BY <3>1 DEF Pending
  <2>5. UNCHANGED <<Running, Cancelled>>
    <3>1. \A v \in Workers, j \in AllJobs : Holds(v, j)' <=> Holds(v, j)
      BY <1>4 DEF WorkerDrain, Holds, IInv, TypeOK
    <3> QED
      BY <1>4, <3>1, QueueFrame DEF WorkerDrain, uvars
  <2> HIDE DEF left
  <2> QED
    BY <2>2, <2>3, <2>4, <2>5 DEF Q!Next, Q!Close
<1> QED
  BY <1>1, <1>2, <1>3, <1>4 DEF WorkerStep

\* util_queue_add_job: the job is submitted, and queued unless the ring is full.
LEMMA AddImplements ==
    ASSUME IInv, NEW u \in Users, NEW j \in AllJobs, closing = "no", fence[j], AddJob(u, j),
           UNCHANGED wjob, upc[u] \in {"idle", "fin_add"}
    PROVE  Q!Submit(j)
<1> USE UtilQueueAssumption
<1>1. ~kill_threads /\ fence' = [fence EXCEPT ![j] = FALSE]
  BY DEF AddJob, IInv, ShutdownAlone
<1>2. RingFine /\ ~InRing(j)
  BY <1>1, LiveRing DEF IInv, OneOwner
<1>3. j \notin Pending /\ Pending' = Pending \cup {j}
  BY <1>1 DEF Pending, IInv, TypeOK
<1>4. UNCHANGED Running
  <2>1. UNCHANGED wpc \/ SignalHasQueued
    BY <1>1 DEF AddJob, Push
  <2>2. \A w \in Workers : \/ wpc'[w] = wpc[w]
                           \/ wpc[w] = "asleep" /\ wpc'[w] = "loop"
    BY <2>1, SignalHasQueuedFacts DEF IInv
  <2>3. \A w \in Workers, k \in AllJobs : Holds(w, k)' <=> Holds(w, k)
    BY <2>2 DEF Holds
  <2> QED
    BY <2>3, QueueFrame
<1>5. UNCHANGED Cancelled
  <2>1. \A v \in Users : v # u => upc'[v] = upc[v] /\ ujob'[v] = ujob[v]
    BY <1>1 DEF AddJob, IInv, TypeOK
  <2>2. upc'[u] # "drop_signal"
    BY <1>1 DEF AddJob, After, IInv, TypeOK
  <2> QED
    BY <2>1, <2>2, QueueFrame
<1>6. Queue' \in {Queue, Append(Queue, j)}
  <2>1. CASE num_queued # max_jobs /\ Push(j, jobs, write_idx, max_jobs) /\ UNCHANGED read_idx
    BY <1>2, <2>1, PushRing, PushQueue DEF RingFine
  <2>2. CASE num_queued = max_jobs /\ Push(j, Larger, max_jobs, max_jobs + Growth) /\ read_idx' = 0
    BY <1>2, <2>2, GrowRing, GrowQueue DEF RingFine
  <2>3. CASE UNCHANGED ring
    BY <2>3, QueueFrame
  <2> QED
    BY <1>1, <2>1, <2>2, <2>3 DEF AddJob
<1> QED
  BY <1>3, <1>4, <1>5, <1>6 DEF Q!Submit

\* The steps of a user.
LEMMA UserImplements ==
    ASSUME IInv, Shutdown # "atexit", NEW u \in Users, UserStep(u) \/ UserCall(u) \/ AddSpurious(u)
    PROVE  [Q!Next]_(Q!vars)
<1> USE UtilQueueAssumption
<1>1. ASSUME NEW j \in Jobs, Add(u, j) PROVE [Q!Next]_(Q!vars)
  <2>1. closing = "no" /\ fence[j] /\ j \in AllJobs
    BY <1>1 DEF Add, Usable, Free, AllJobs
  <2>2. Q!Submit(j)
    BY <1>1, <2>1, AddImplements DEF Add
  <2> QED
    BY <2>1, <2>2 DEF Q!Next
<1>2. CASE FinishAdd(u)
  <2>1. upc[u] = "fin_add" /\ closing = "no" /\ num_threads = NumThreads /\ UNCHANGED wjob
    BY <1>2 DEF FinishAdd, IInv, ShutdownAlone
  <2>2. CASE fi[u] < num_threads /\ AddJob(u, <<u, fi[u]>>)
    <3>1. <<u, fi[u]>> \in AllJobs
      BY <2>1, <2>2, NumThreadsFacts DEF IInv, TypeOK, AllJobs, BarrierJobs
    <3>2. fence[<<u, fi[u]>>]
      BY <2>1, <2>2, NumThreadsFacts DEF IInv, TypeOK, BarrierFences
    <3>3. Q!Submit(<<u, fi[u]>>)
      BY <2>1, <2>2, <3>1, <3>2, AddImplements
    <3> QED
      BY <3>1, <3>3 DEF Q!Next
  <2>3. CASE upc' = [upc EXCEPT ![u] = "fin_wait"] /\ UNCHANGED <<ring, wpc, ujob, fence, hist>>
    <3>1. \A v \in Users : upc'[v] = "drop_signal" <=> upc[v] = "drop_signal"
      BY <2>1, <2>3 DEF IInv, TypeOK
    <3>2. UNCHANGED <<Queue, Pending, Running, Cancelled>>
      BY <2>1, <2>3, <3>1, QueueFrame DEF Holds
    <3> QED
      BY <3>2 DEF Q!vars
  <2> QED
    BY <1>2, <2>2, <2>3 DEF FinishAdd
<1>3. CASE AddRetry(u)
  <2> DEFINE j == ujob[u]
  <2>1. upc[u] = "add_retry" /\ UNCHANGED <<wjob, fence>> /\ j \in AllJobs /\ Owes(u, j) /\ ~kill_threads
    BY <1>3 DEF AddRetry, Owes, IInv, JobsOfThreads, ShutdownAlone
  <2>2. RingFine /\ ~InRing(j) /\ ~fence[j] /\ \A w \in Workers : ~Holds(w, j)
    BY <2>1, LiveRing DEF IInv, OneOwner
  <2>3. UNCHANGED wpc \/ SignalHasQueued
    BY <1>3 DEF AddRetry, Push
  <2>4. \A w \in Workers, k \in AllJobs : Holds(w, k)' <=> Holds(w, k)
    BY <2>1, <2>3, SignalHasQueuedFacts DEF IInv, Holds
  <2>5. \A v \in Users : /\ upc'[v] = "drop_signal" <=> upc[v] = "drop_signal"
                         /\ upc[v] = "drop_signal" => ujob'[v] = ujob[v]
    BY <1>3, <2>1 DEF AddRetry, After, IInv, TypeOK
  <2>6. UNCHANGED <<Pending, Running, Cancelled>>
    BY <2>1, <2>4, <2>5, QueueFrame
  <2>7. CASE UNCHANGED ring
    BY <2>6, <2>7, QueueFrame DEF Q!vars
  <2>8. CASE num_queued # max_jobs /\ Push(j, jobs, write_idx, max_jobs) /\ UNCHANGED read_idx
    <3>1. Queue' = Append(Queue, j)
      BY <2>1, <2>2, <2>8, PushRing, PushQueue DEF RingFine
    <3>2. j \in Pending /\ j \notin Running
      BY <2>1, <2>2 DEF Pending, Running
    <3>3. j \notin Q!Queued
      BY <2>2, QueuedInRing DEF RingFine
    <3>4. j \notin Cancelled
      <4>1. \A v \in Users : Owes(v, j) => v = u
        BY <2>1 DEF IInv, OneOwner
      <4> QED
        BY <2>1, <4>1 DEF Cancelled, Owes
    <3>5. Q!Enqueue(j)
      BY <2>6, <3>1, <3>2, <3>3, <3>4 DEF Q!Enqueue
    <3> QED
      BY <2>1, <3>5 DEF Q!Next
  <2> QED
    BY <1>3, <2>7, <2>8 DEF AddRetry
<1>4. CASE DropScan(u)
  <2>1. /\ upc[u] = "drop_scan" /\ ujob[u] \in AllJobs /\ ~kill_threads
        /\ UNCHANGED <<read_idx, write_idx, num_queued, max_jobs, wpc, wjob, ujob, fence>>
    BY <1>4 DEF DropScan, wvars, IInv, JobsOfThreads, AllJobs, ShutdownAlone
  <2>2. UNCHANGED <<Pending, Running>>
    BY <2>1, QueueFrame DEF Holds
  <2>3. ASSUME NEW i \in Visited, jobs[i] = ujob[u], jobs' = [jobs EXCEPT ![i] = Null],
               upc' = [upc EXCEPT ![u] = "drop_signal"]
        PROVE  [Q!Next]_(Q!vars)
    <3>1. RingFine /\ RingTyped /\ RingIndices /\ i \in Slots /\ jobs[i] # Null
      BY <2>1, <2>3, LiveRing, VisitedQueued DEF RingFine
    <3>2. RingTyped'
      BY <2>1, <2>3, <3>1, ClearRing DEF RingFine
    <3>3. PICK k \in DOMAIN Queue : Queue[k] = jobs[i] /\ Queue' = [Queue EXCEPT ![k] = Null]
      BY <2>1, <2>3, <3>1, <3>2, ClearQueue
    <3>4. Cancelled' = Cancelled \cup {ujob[u]}
      <4>1. \A v \in Users : upc'[v] = IF v = u THEN "drop_signal" ELSE upc[v]
        BY <2>3 DEF IInv, TypeOK
      <4> QED
        BY <2>1, <4>1 DEF Cancelled
    <3>5. Q!Cancel(k)
      BY <2>2, <2>3, <3>1, <3>3, <3>4 DEF Q!Cancel
    <3> QED
      BY <3>5 DEF Q!Next
  <2>4. CASE upc' = [upc EXCEPT ![u] = "drop_wait"] /\ UNCHANGED jobs
    <3>1. \A v \in Users : upc'[v] = "drop_signal" <=> upc[v] = "drop_signal"
      BY <2>1, <2>4 DEF IInv, TypeOK
    <3>2. UNCHANGED <<Queue, Cancelled>>
      BY <2>1, <2>4, <3>1, QueueFrame DEF ring
    <3> QED
      BY <2>2, <3>2 DEF Q!vars
  <2> QED
    BY <1>4, <2>3, <2>4 DEF DropScan
<1>5. CASE DropSignal(u)
  <2> USE DEF DropSignal
  <2>1. ujob[u] \in AllJobs /\ Owes(u, ujob[u])
    BY <1>5 DEF IInv, JobsOfThreads, Owes, AllJobs
  <2>2. \A v \in Users : v # u /\ upc[v] = "drop_signal" => ujob[v] # ujob[u]
    BY <2>1 DEF IInv, OneOwner, Owes
  <2>3. /\ upc'[u] = "idle"
        /\ \A v \in Users : v # u => upc'[v] = upc[v] /\ ujob'[v] = ujob[v]
    BY <1>5 DEF IInv, TypeOK
  <2>4. ujob[u] \in Cancelled /\ Cancelled' = Cancelled \ {ujob[u]}
    BY <1>5, <2>1, <2>2, <2>3 DEF Cancelled
  <2>5. Pending' = Pending \ {ujob[u]}
    <3>1. \A j \in AllJobs : fence'[j] <=> fence[j] \/ j = ujob[u]
      BY <1>5, <2>1 DEF IInv, TypeOK
    <3> QED
      BY <3>1 DEF Pending
  <2>6. UNCHANGED <<Queue, Running>>
    BY <1>5, QueueFrame DEF Holds, wvars
  <2>7. Q!Cancelled(ujob[u])
    BY <2>4, <2>5, <2>6 DEF Q!Cancelled
  <2> QED
    BY <2>1, <2>7 DEF Q!Next
<1>6. CASE \/ WaitReturn(u) \/ FinishLock(u) \/ FinishWait(u) \/ AddSpurious(u) \/ Finish(u)
           \/ \E j \in Jobs : Wait(u, j) \/ Drop(u, j)
  <2> USE DEF WaitReturn, FinishLock, FinishWait, AddSpurious, Finish, Wait, Drop
  <2>1. UNCHANGED <<ring, wpc, wjob, fence>>
    BY <1>6 DEF wvars
  <2>2. \A v \in Users : /\ upc'[v] = "drop_signal" <=> upc[v] = "drop_signal"
                         /\ upc[v] = "drop_signal" => ujob'[v] = ujob[v]
    BY <1>6 DEF IInv, TypeOK
  <2>3. UNCHANGED <<Queue, Pending, Running, Cancelled>>
    BY <2>1, <2>2, QueueFrame DEF Holds
  <2> QED
    BY <2>3 DEF Q!vars
<1> QED
  BY <1>1, <1>2, <1>3, <1>4, <1>5, <1>6 DEF UserStep, UserCall

\* util_queue implements the job queue of JobQueue.tla: whatever the threads do, jobs
\* are started in the order of their submission, each once, and a fence is
\* signalled only for a job that is over.
THEOREM ImplementsJobQueue == ASSUME Shutdown # "atexit" PROVE Spec => JobQueueSpec
<1> USE UtilQueueAssumption
<1>1. Init => Q!Init
  <2> SUFFICES ASSUME Init PROVE Q!Init
    OBVIOUS
  <2>1. Pending = {} /\ Running = {} /\ Cancelled = {}
    BY DEF Init, Pending, Running, Cancelled, Holds
  <2>2. Queue = <<>>
    <3>1. 1 .. 0 = {}
      OBVIOUS
    <3> QED
      BY <3>1 DEF Init, Queue
  <2> QED
    BY <2>1, <2>2 DEF Q!Init
<1>2. IInv /\ [Next]_vars => [Q!Next]_(Q!vars)
  <2> SUFFICES ASSUME IInv, [Next]_vars PROVE [Q!Next]_(Q!vars)
    OBVIOUS
  <2>1. CASE \E w \in Workers : WorkerStep(w) \/ WorkerSpurious(w)
    BY <2>1, WorkerImplements
  <2>2. CASE \E u \in Users : UserStep(u) \/ UserCall(u) \/ AddSpurious(u)
    BY <2>2, UserImplements
  <2>3. CASE Kill \/ Joined \/ UNCHANGED vars
    <3>1. UNCHANGED <<ring, wjob, fence, upc, ujob>>
      BY <2>3 DEF Kill, Joined, vars, wvars, uvars
    <3>2. \A w \in Workers, j \in AllJobs : Holds(w, j)' <=> Holds(w, j)
      BY <2>3 DEF Kill, Joined, vars, wvars, Holds, IInv, TypeOK
    <3>3. UNCHANGED <<Queue, Pending, Running, Cancelled>>
      BY <3>1, <3>2, QueueFrame
    <3> QED
      BY <3>3 DEF Q!vars
  <2> QED
    BY <2>1, <2>2, <2>3 DEF Next
<1>3. Spec => []IInv
  BY SpecIInv
<1> QED
  BY <1>1, <1>2, <1>3, PTL DEF Spec, JobQueueSpec, Q!Spec
-----------------------------------------------------------------------------
(***************************************************************************)
(* util_queue_finish waits for every job that was there when it was called *)
(* because its own jobs are behind them in the ring, and none of those gets *)
(* past the barrier before every worker has taken one of them.             *)
(***************************************************************************)

\* The jobs of the barrier of u.
BarOf(u) == {u} \X (0 .. NumThreads - 1)

\* User u has added the i-th job of its barrier, or is waiting to.
Added(u, i) == (AddsBarriers(u) /\ i < fi[u]) \/ upc[u] = "fin_wait"

\* The counters of util_queue_finish: its barrier is for all threads, and its loops
\* start at 0.
Counts(u) ==
    /\ upc[u] = "fin_lock" \/ AddsBarriers(u) \/ upc[u] = "fin_wait" => barCount[u] = NumThreads
    /\ ~(AddsBarriers(u) \/ upc[u] = "fin_wait") => fi[u] = 0

\* A job that finish waits for is queued or held by a worker.
Alive(u) == \A j \in before[u] : InRing(j) \/ \E w \in Workers : Holds(w, j)

\* It is in front of the jobs of the barrier,
InFront(u) == \A a, b \in 1 .. num_queued : Queue[a] \in before[u] /\ Queue[b] \in BarOf(u) => a < b

\* so that it has left the ring when a worker takes one of those,
Taken(u) ==
    \A w \in Workers, b \in BarOf(u) : Holds(w, b) => \A j \in before[u] : ~InRing(j)

\* and is over when a worker gets past the barrier
Passed(u) ==
    \A w \in Workers : wpc[w] = "signal" /\ wjob[w] \in BarOf(u) => before[u] = {}

\* or has signalled the fence of a job of the barrier.
Signalled(u) ==
    \A i \in 0 .. NumThreads - 1 : Added(u, i) /\ fence[<<u, i>>] => before[u] = {}

Waits(u) == Alive(u) /\ InFront(u) /\ Taken(u) /\ Passed(u) /\ Signalled(u)

FinishInv == \A u \in Users : Counts(u) /\ Waits(u)

\* Whose jobs the jobs of a barrier are.
LEMMA BarrierFacts ==
    /\ \A u \in Users, i \in 0 .. NumThreads - 1 : <<u, i>> \in BarOf(u) /\ <<u, i>> \in AllJobs
    /\ \A u \in Users : BarOf(u) \subseteq BarrierJobs /\ BarOf(u) \subseteq AllJobs
    /\ \A u \in Users : \A b \in BarOf(u) : \E i \in 0 .. NumThreads - 1 : b = <<u, i>>
    /\ Jobs \subseteq AllJobs
  BY DEF BarOf, BarrierJobs, AllJobs

\* A step that takes nothing from the ring and from the workers that finish waits
\* for, and signals no fence.
LEMMA WaitsFrame ==
    ASSUME IInv, NEW u \in Users, Waits(u),
           before'[u] \subseteq before[u],
           \A j \in before'[u] : InRing(j)' <=> InRing(j),
           \A w \in Workers, j \in AllJobs : Holds(w, j)' <=> Holds(w, j),
           InFront(u)', Passed(u)',
           \A i \in 0 .. NumThreads - 1 :
              Added(u, i)' /\ fence'[<<u, i>>] => Added(u, i) /\ fence[<<u, i>>]
    PROVE  Waits(u)'
<1>0. before[u] \subseteq AllJobs
  BY BarrierFacts DEF IInv, TypeOK
<1>1. Alive(u)'
  BY <1>0 DEF Waits, Alive
<1>2. Taken(u)'
  BY BarrierFacts DEF Waits, Taken
<1>3. Signalled(u)'
  BY DEF Waits, Signalled
<1> QED
  BY <1>1, <1>2, <1>3 DEF Waits

\* Nor does a step that leaves the ring alone.
LEMMA InFrontFrame ==
    ASSUME NEW u \in Users, InFront(u), before'[u] \subseteq before[u], UNCHANGED ring
    PROVE  InFront(u)' /\ \A j : InRing(j)' <=> InRing(j)
<1>1. UNCHANGED Queue
  BY QueueFrame
<1>2. InFront(u)'
  BY <1>1 DEF InFront, ring
<1>3. \A j : InRing(j)' <=> InRing(j)
  BY DEF InRing, Slots, ring
<1> QED
  BY <1>2, <1>3

\* Every job of a ring that is in order is in the sequence.
LEMMA RingInQueue ==
    ASSUME RingFine, NEW j \in AllJobs, InRing(j)
    PROVE  \E k \in 1 .. num_queued : Queue[k] = j
<1> USE UtilQueueAssumption
<1>0. RingTyped /\ RingIndices
  BY DEF RingFine
<1>1. PICK i \in Slots : jobs[i] = j
  BY DEF InRing
<1>2. i \in Occupied
  BY <1>1 DEF RingFine, EmptyOutside
<1>3. \E k \in 1 .. num_queued : Nth(k - 1) = i
  <2>1. CASE num_queued = max_jobs
    <3>1. PICK k \in Slots : Nth(k) = i
      BY <1>0, NthFacts DEF RingTyped
    <3>2. k + 1 \in 1 .. num_queued /\ Nth((k + 1) - 1) = i
      BY <1>0, <2>1, <3>1 DEF RingTyped, Slots
    <3> QED
      BY <3>2
  <2>2. CASE num_queued # max_jobs
    BY <1>0, <1>2, <2>2, VisitedQueued DEF Occupied
  <2> QED
    BY <2>1, <2>2
<1> QED
  BY <1>0, <1>1, <1>3, QueueFacts DEF QueueShape

\* A job is put at the end of the ring: finish waits for other jobs.
LEMMA WaitsPush ==
    ASSUME IInv, NEW u \in Users, Waits(u), before'[u] = before[u],
           NEW j \in AllJobs, ~InRing(j), \A w \in Workers : ~Holds(w, j),
           RingTyped', Queue' = Append(Queue, j), num_queued' = num_queued + 1,
           \A k \in AllJobs : InRing(k)' <=> InRing(k) \/ k = j
    PROVE  InFront(u)' /\ \A k \in before'[u] : InRing(k)' <=> InRing(k)
<1>0. before[u] \subseteq AllJobs
  BY BarrierFacts DEF IInv, TypeOK
<1>1. j \notin before[u]
  BY DEF Waits, Alive
<1>2. Queue \in Seq(Entries) /\ Len(Queue) = num_queued /\ num_queued \in Nat
  BY QueueFacts DEF IInv, TypeOK, RingTyped, QueueShape
<1>3. /\ \A k \in 1 .. num_queued : Append(Queue, j)[k] = Queue[k]
      /\ Append(Queue, j)[num_queued + 1] = j
  BY <1>2, AppendProperties DEF Entries
<1>4. InFront(u)'
  <2> SUFFICES ASSUME NEW a \in 1 .. num_queued + 1, NEW b \in 1 .. num_queued + 1,
                      Queue'[a] \in before[u], Queue'[b] \in BarOf(u)
               PROVE  a < b
    BY DEF InFront, BarOf
  <2>1. a \in 1 .. num_queued
    BY <1>1, <1>2, <1>3
  <2>2. CASE b \in 1 .. num_queued
    BY <1>3, <2>1, <2>2 DEF Waits, InFront
  <2>3. CASE b = num_queued + 1
    BY <1>2, <2>1, <2>3
  <2> QED
    BY <1>2, <2>2, <2>3
<1> QED
  BY <1>0, <1>1, <1>4

\* The steps of a worker.
LEMMA WorkerWaits ==
    ASSUME IInv, FinishInv, NEW w \in Workers, WorkerStep(w) \/ WorkerSpurious(w),
           NEW u \in Users
    PROVE  Waits(u)'
<1> USE UtilQueueAssumption
<1>0. Waits(u) /\ Counts(u) /\ before[u] \subseteq Jobs /\ before[u] \subseteq AllJobs
  BY BarrierFacts DEF FinishInv, IInv, TypeOK
<1>1. CASE \/ WorkerSleep(w) \/ WorkerSpurious(w) \/ WorkerBreak(w)
           \/ WorkerExec(w) \/ WorkerCleanup(w)
  <2>1. UNCHANGED <<ring, fence, upc, ujob, fi, before>>
    BY <1>1 DEF WorkerSleep, WorkerSpurious, WorkerBreak, WorkerExec, WorkerCleanup, uvars, hist
  <2>2. /\ \A v \in Workers, j \in AllJobs : Holds(v, j)' <=> Holds(v, j)
        /\ \A v \in Workers : wpc'[v] = "signal" /\ wjob'[v] \notin Jobs => wpc[v] = "signal" /\ wjob'[v] = wjob[v]
    <3>1. CASE WorkerSleep(w) \/ WorkerSpurious(w) \/ WorkerBreak(w)
      BY <3>1 DEF WorkerSleep, WorkerSpurious, WorkerBreak, Holds, IInv, TypeOK
    <3>2. CASE WorkerExec(w)
      BY <3>2 DEF WorkerExec, Holds, IInv, TypeOK
    <3>3. CASE WorkerCleanup(w)
      BY <3>3 DEF WorkerCleanup, Holds, IInv, TypeOK
    <3> QED
      BY <1>1, <3>1, <3>2, <3>3
  <2>3. InFront(u)' /\ \A j : InRing(j)' <=> InRing(j)
    BY <1>0, <2>1, InFrontFrame DEF Waits
  <2>4. Passed(u)'
    BY <1>0, <2>1, <2>2, BarrierFacts DEF Waits, Passed, BarOf
  <2>5. \A i : Added(u, i)' <=> Added(u, i)
    BY <2>1 DEF Added, AddsBarriers
  <2> QED
    BY <1>0, <2>1, <2>2, <2>3, <2>4, <2>5, WaitsFrame
<1>2. CASE WorkerTake(w)
  <2> USE DEF WorkerTake
  <2> DEFINE h == jobs[read_idx]
  <2>1. RingFine /\ RingTyped' /\ \A j \in AllJobs : InRing(j)' <=> InRing(j) /\ j # h
    BY <1>2, LiveRing, TakeRing DEF RingFine
  <2>2. Queue # <<>> /\ Queue' = Tail(Queue) /\ Head(Queue) = h
    BY <1>2, <2>1, TakeQueue
  <2>3. \A v \in Workers, j \in AllJobs : Holds(v, j)' <=> Holds(v, j) \/ (v = w /\ j = h)
    BY <1>2 DEF IInv, TypeOK, Holds
  <2>4. before'[u] = before[u] /\ UNCHANGED <<fence, ujob, fi>>
    BY <1>2 DEF hist
  <2>5. Queue \in Seq(Entries) /\ Len(Queue) = num_queued /\ num_queued \in Nat \ {0}
    BY <1>2, <2>1, QueueFacts DEF RingTyped, QueueShape, RingFine
  <2>6. \A k \in 1 .. num_queued - 1 : Queue'[k] = Queue[k + 1] /\ k + 1 \in 1 .. num_queued
    BY <2>2, <2>5, HeadTailProperties
  <2>7. 1 \in 1 .. num_queued /\ Queue[1] = h
    BY <2>2, <2>5
  <2>8. Alive(u)'
    BY <1>0, <2>1, <2>3, <2>4 DEF Waits, Alive
  <2>9. InFront(u)'
    <3> SUFFICES ASSUME NEW a \in 1 .. num_queued - 1, NEW b \in 1 .. num_queued - 1,
                        Queue'[a] \in before[u], Queue'[b] \in BarOf(u)
                 PROVE  a < b
      BY <1>2, <2>4 DEF InFront, BarOf
    <3>1. a + 1 < b + 1
      BY <1>0, <2>6 DEF Waits, InFront
    <3> QED
      BY <3>1
  <2>10. Taken(u)'
    <3>1. ASSUME h \in BarOf(u), NEW j \in before[u] PROVE ~InRing(j)
      <4> SUFFICES ASSUME InRing(j) PROVE FALSE
        OBVIOUS
      <4>1. PICK k \in 1 .. num_queued : Queue[k] = j
        BY <1>0, <2>1, RingInQueue
      <4>2. k < 1
        BY <1>0, <2>7, <3>1, <4>1 DEF Waits, InFront
      <4> QED
        BY <2>5, <4>2
    <3> HIDE DEF h
    <3> QED
      BY <1>0, <2>1, <2>3, <2>4, <3>1, BarrierFacts DEF Waits, Taken, BarOf
  <2>11. Passed(u)'
    <3>1. \A v \in Workers : wpc'[v] = "signal" => wpc[v] = "signal" /\ wjob'[v] = wjob[v]
      BY <1>2 DEF IInv, TypeOK
    <3> QED
      BY <1>0, <2>4, <3>1 DEF Waits, Passed, BarOf
  <2>12. Signalled(u)'
    <3>1. \A v \in Users : \/ upc'[v] = upc[v]
                           \/ upc[v] = "add_wait" /\ upc'[v] = "add_retry"
      BY <1>2, SignalHasSpaceFacts DEF IInv
    <3>2. \A i : Added(u, i)' => Added(u, i)
      BY <2>4, <3>1 DEF Added, AddsBarriers
    <3> QED
      BY <1>0, <2>4, <3>2 DEF Waits, Signalled
  <2> QED
    BY <2>8, <2>9, <2>10, <2>11, <2>12 DEF Waits
<1>3. CASE WorkerBarrier(w)
  <2>1. /\ UNCHANGED <<ring, fence, upc, ujob, fi, before, wjob>>
        /\ wpc[w] = "exec" /\ wjob[w] \in BarrierJobs
    BY <1>3 DEF WorkerBarrier, uvars, hist
  <2>2. \A v \in Workers, j \in AllJobs : Holds(v, j)' <=> Holds(v, j)
    BY <1>3 DEF WorkerBarrier, AtBarrier, Holds, IInv, TypeOK
  <2>3. InFront(u)' /\ \A j : InRing(j)' <=> InRing(j)
    BY <1>0, <2>1, InFrontFrame DEF Waits
  <2>4. \A i : Added(u, i)' <=> Added(u, i)
    BY <2>1 DEF Added, AddsBarriers
  <2>5. Passed(u)'
    <3> SUFFICES ASSUME NEW v \in Workers, wpc'[v] = "signal", wjob[v] \in BarOf(u)
                 PROVE  before[u] = {}
      BY <2>1 DEF Passed, BarOf
    <3>1. CASE wpc[v] = "signal"
      BY <1>0, <3>1 DEF Waits, Passed
    <3>2. CASE wpc[v] # "signal"
      <4>1. wjob[w] \in BarOf(u) /\ wjob[w][1] = u
        BY <1>3, <2>1, <3>2 DEF WorkerBarrier, AtBarrier, BarOf, BarrierJobs
      <4>2. Cardinality(AtBarrier(u)) + 1 = barCount[u]
        BY <1>3, <3>2, <4>1 DEF WorkerBarrier
      <4>3. barCount[u] = NumThreads
        <5>1. ~fence[wjob[w]]
          BY <2>1 DEF IInv, OneOwner, Holds, AllJobs
        <5>2. PICK i \in 0 .. NumThreads - 1 : wjob[w] = <<u, i>>
          BY <4>1, BarrierFacts
        <5>3. AddsBarriers(u) \/ upc[u] = "fin_wait"
          BY <5>1, <5>2 DEF IInv, BarrierFences
        <5> QED
          BY <1>0, <5>3 DEF Counts
      <4>4. AtBarrier(u) \cup {w} = Workers
        <5>1. AtBarrier(u) \subseteq Workers /\ w \notin AtBarrier(u)
          BY <2>1 DEF AtBarrier
        <5>2. IsFiniteSet(AtBarrier(u)) /\ IsFiniteSet(AtBarrier(u) \cup {w})
          BY <5>1, FS_Subset, FS_AddElement
        <5>3. Cardinality(AtBarrier(u) \cup {w}) = Cardinality(Workers)
          BY <4>2, <4>3, <5>1, <5>2, FS_AddElement DEF NumThreads
        <5> QED
          BY <5>1, <5>3, FS_Subset
      <4>5. \A x \in Workers : wjob[x] \in BarOf(u) /\ Holds(x, wjob[x])
        BY <2>1, <4>1, <4>4 DEF AtBarrier, BarOf, Holds
      <4>6. ASSUME NEW j \in before[u] PROVE FALSE
        <5>1. ~InRing(j)
          BY <1>0, <4>1, <4>5 DEF Waits, Taken
        <5>2. PICK x \in Workers : Holds(x, j)
          BY <1>0, <5>1 DEF Waits, Alive
        <5>3. j \in Jobs /\ j \in BarrierJobs
          BY <1>0, <4>5, <5>2, BarrierFacts DEF Holds
        <5> QED
          BY <5>3
      <4> QED
        BY <4>6
    <3> QED
      BY <3>1, <3>2
  <2> QED
    BY <1>0, <2>1, <2>2, <2>3, <2>4, <2>5, WaitsFrame
<1>4. CASE WorkerSignal(w)
  <2> USE DEF WorkerSignal
  <2>1. wpc[w] = "signal" /\ wjob[w] \in AllJobs /\ Holds(w, wjob[w])
    BY <1>4 DEF IInv, JobsOfThreads, Holds
  <2>2. UNCHANGED <<ring, upc, ujob, fi>> /\ before'[u] = before[u] \ {wjob[w]}
    BY <1>4 DEF uvars, Settle
  <2>3. \A v \in Workers, j \in AllJobs : Holds(v, j)' <=> Holds(v, j) /\ v # w
    BY <1>4 DEF IInv, TypeOK, Holds
  <2>4. InFront(u)' /\ \A j : InRing(j)' <=> InRing(j)
    BY <1>0, <2>2, InFrontFrame DEF Waits
  <2>5. Alive(u)'
    BY <1>0, <2>2, <2>3, <2>4 DEF Waits, Alive, Holds
  <2>6. Taken(u)'
    BY <1>0, <2>2, <2>3, <2>4, BarrierFacts DEF Waits, Taken, BarOf
  <2>7. Passed(u)'
    <3>1. \A v \in Workers : wpc'[v] = "signal" => wpc[v] = "signal" /\ wjob'[v] = wjob[v]
      BY <1>4 DEF IInv, TypeOK
    <3> QED
      BY <1>0, <2>2, <3>1 DEF Waits, Passed, BarOf
  <2>8. Signalled(u)'
    <3>1. \A j \in AllJobs : fence'[j] => fence[j] \/ j = wjob[w]
      BY <1>4, <2>1 DEF IInv, TypeOK
    <3>2. wjob[w] \in BarOf(u) => before[u] = {}
      BY <1>0, <2>1 DEF Waits, Passed
    <3>3. \A i : Added(u, i)' <=> Added(u, i)
      BY <2>2 DEF Added, AddsBarriers
    <3> QED
      BY <1>0, <2>2, <3>1, <3>2, <3>3, BarrierFacts DEF Waits, Signalled
  <2> QED
    BY <2>4, <2>5, <2>6, <2>7, <2>8 DEF Waits
<1>5. CASE WorkerDrain(w)
  <2> DEFINE left == {j \in AllJobs : \E i \in Visited : jobs[i] = j}
  <2>1. UNCHANGED <<upc, ujob, fi, wjob, max_jobs>> /\ before'[u] = before[u] \ left /\ num_queued' = 0
    BY <1>5 DEF WorkerDrain, uvars, Settle
  <2>2. /\ \A v \in Workers, j \in AllJobs : Holds(v, j)' <=> Holds(v, j)
        /\ \A v \in Workers : wpc'[v] = "signal" => wpc[v] = "signal"
    BY <1>5 DEF WorkerDrain, Holds, IInv, TypeOK
  <2>3. \A j \in AllJobs : j \notin left => (InRing(j)' <=> InRing(j))
    BY <1>5, <2>1 DEF WorkerDrain, InRing, Slots, AllJobs
  <2>4. upc[u] = "idle"
    BY <1>5 DEF WorkerDrain, IInv, ShutdownAlone
  <2> HIDE DEF left
  <2>5. Alive(u)'
    BY <1>0, <2>1, <2>2, <2>3 DEF Waits, Alive
  <2>6. InFront(u)'
    BY <2>1 DEF InFront
  <2>7. Taken(u)'
    BY <1>0, <2>1, <2>2, <2>3, BarrierFacts DEF Waits, Taken, BarOf
  <2>8. Passed(u)'
    BY <1>0, <2>1, <2>2 DEF Waits, Passed, BarOf
  <2>9. Signalled(u)'
    BY <2>1, <2>4 DEF Signalled, Added, AddsBarriers
  <2> QED
    BY <2>5, <2>6, <2>7, <2>8, <2>9 DEF Waits
<1> QED
  BY <1>1, <1>2, <1>3, <1>4, <1>5 DEF WorkerStep

\* util_queue_add_job: a job that was not pending is put at the end of the ring, or
\* nowhere yet.
LEMMA AddWaits ==
    ASSUME IInv, FinishInv, NEW u \in Users, NEW j \in AllJobs, closing = "no", fence[j],
           AddJob(u, j), UNCHANGED wjob, NEW v \in Users,
           \A i \in 0 .. NumThreads - 1 : Added(v, i)' => Added(v, i) \/ j = <<v, i>>
    PROVE  Waits(v)'
<1> USE UtilQueueAssumption
<1>0. Waits(v)
  BY DEF FinishInv
<1>1. /\ ~kill_threads /\ fence' = [fence EXCEPT ![j] = FALSE] /\ UNCHANGED before
      /\ UNCHANGED wpc \/ SignalHasQueued
  BY DEF AddJob, Submitted, Push, IInv, ShutdownAlone
<1>2. RingFine /\ ~InRing(j) /\ \A w \in Workers : ~Holds(w, j)
  BY <1>1, LiveRing DEF IInv, OneOwner
<1>3. \A w \in Workers : \/ wpc'[w] = wpc[w]
                         \/ wpc[w] = "asleep" /\ wpc'[w] = "loop"
  BY <1>1, SignalHasQueuedFacts DEF IInv
<1>4. \A w \in Workers, k \in AllJobs : Holds(w, k)' <=> Holds(w, k)
  BY <1>3 DEF Holds
<1>5. Passed(v)'
  BY <1>0, <1>1, <1>3 DEF Waits, Passed, BarOf
<1>6. \A k \in AllJobs : fence'[k] <=> fence[k] /\ k # j
  BY <1>1 DEF IInv, TypeOK
<1>7. \A i \in 0 .. NumThreads - 1 : Added(v, i)' /\ fence'[<<v, i>>] => Added(v, i) /\ fence[<<v, i>>]
  BY <1>6, BarrierFacts
<1>8. InFront(v)' /\ \A k \in before'[v] : InRing(k)' <=> InRing(k)
  <2>1. CASE num_queued # max_jobs /\ Push(j, jobs, write_idx, max_jobs) /\ UNCHANGED read_idx
    <3>1. RingFine' /\ \A k \in AllJobs : InRing(k)' <=> InRing(k) \/ k = j
      BY <1>2, <2>1, PushRing
    <3>2. Queue' = Append(Queue, j) /\ num_queued' = num_queued + 1
      BY <1>2, <2>1, <3>1, PushQueue DEF RingFine, Push
    <3> QED
      BY <1>0, <1>1, <1>2, <3>1, <3>2, WaitsPush DEF RingFine
  <2>2. CASE num_queued = max_jobs /\ Push(j, Larger, max_jobs, max_jobs + Growth) /\ read_idx' = 0
    <3>1. RingFine' /\ \A k \in AllJobs : InRing(k)' <=> InRing(k) \/ k = j
      BY <1>2, <2>2, GrowRing
    <3>2. Queue' = Append(Queue, j) /\ num_queued' = num_queued + 1
      BY <1>2, <2>2, <3>1, GrowQueue DEF RingFine, Push
    <3> QED
      BY <1>0, <1>1, <1>2, <3>1, <3>2, WaitsPush DEF RingFine
  <2>3. CASE UNCHANGED ring
    BY <1>0, <1>1, <2>3, InFrontFrame DEF Waits
  <2> QED
    BY <1>1, <2>1, <2>2, <2>3 DEF AddJob
<1> QED
  BY <1>0, <1>1, <1>4, <1>5, <1>7, <1>8, WaitsFrame

\* A step of user u that leaves the ring, the workers, the fences and the jobs that
\* finish waits for alone.
LEMMA LocalWaits ==
    ASSUME IInv, FinishInv, UNCHANGED <<ring, wpc, wjob, fence>>, NEW v \in Users,
           before'[v] = before[v],
           \A i \in 0 .. NumThreads - 1 : Added(v, i)' => Added(v, i)
    PROVE  Waits(v)'
<1>1. Waits(v)
  BY DEF FinishInv
<1>2. InFront(v)' /\ \A j : InRing(j)' <=> InRing(j)
  BY <1>1, InFrontFrame DEF Waits
<1>3. Passed(v)'
  BY <1>1 DEF Waits, Passed, BarOf
<1>4. \A w \in Workers, j \in AllJobs : Holds(w, j)' <=> Holds(w, j)
  BY DEF Holds
<1> QED
  BY <1>1, <1>2, <1>3, <1>4, WaitsFrame

\* Only its own steps change what a user has added.
LEMMA OtherAdded ==
    ASSUME NEW v \in Users, upc'[v] = upc[v], ujob'[v] = ujob[v], fi'[v] = fi[v]
    PROVE  \A i : Added(v, i)' <=> Added(v, i)
  BY DEF Added, AddsBarriers

\* The steps of a user.
LEMMA UserWaits ==
    ASSUME IInv, FinishInv, Shutdown # "atexit", NEW u \in Users,
           UserStep(u) \/ UserCall(u) \/ AddSpurious(u), NEW v \in Users
    PROVE  Waits(v)'
<1> USE UtilQueueAssumption
<1>0. Waits(v) /\ Counts(v) /\ before[v] \subseteq Jobs /\ before[v] \subseteq AllJobs
  BY BarrierFacts DEF FinishInv, IInv, TypeOK
<1>1. ASSUME NEW j \in Jobs, Add(u, j) PROVE Waits(v)'
  <2>1. /\ closing = "no" /\ fence[j] /\ j \in AllJobs /\ upc[u] = "idle" /\ AddJob(u, j)
        /\ UNCHANGED <<wjob, fi>>
    BY <1>1 DEF Add, Usable, Free, AllJobs
  <2>2. ~AddsBarriers(u)' /\ upc'[u] # "fin_wait"
    BY <2>1 DEF AddJob, After, AddsBarriers, IInv, TypeOK, JobsOfThreads
  <2>3. v # u => upc'[v] = upc[v] /\ ujob'[v] = ujob[v]
    BY <2>1 DEF AddJob, IInv, TypeOK
  <2>4. \A i \in 0 .. NumThreads - 1 : Added(v, i)' => Added(v, i)
    BY <2>1, <2>2, <2>3, OtherAdded DEF Added
  <2> QED
    BY <2>1, <2>4, AddWaits
<1>2. CASE FinishAdd(u)
  <2>1. upc[u] = "fin_add" /\ closing = "no" /\ num_threads = NumThreads /\ UNCHANGED wjob
    BY <1>2 DEF FinishAdd, IInv, ShutdownAlone
  <2>2. fi[u] \in 0 .. NumThreads /\ NumThreads \in Nat \ {0}
    BY NumThreadsFacts DEF IInv, TypeOK
  <2>3. CASE fi[u] < num_threads /\ AddJob(u, <<u, fi[u]>>) /\ fi' = [fi EXCEPT ![u] = fi[u] + 1]
    <3>1. fi[u] \in 0 .. NumThreads - 1 /\ <<u, fi[u]>> \in AllJobs
      BY <2>1, <2>2, <2>3, BarrierFacts
    <3>2. fence[<<u, fi[u]>>]
      BY <2>1, <3>1 DEF IInv, BarrierFences
    <3>3. upc'[u] # "fin_wait" /\ fi'[u] = fi[u] + 1
      BY <2>1, <2>3 DEF AddJob, After, IInv, TypeOK
    <3>4. v # u => upc'[v] = upc[v] /\ ujob'[v] = ujob[v] /\ fi'[v] = fi[v]
      BY <2>3 DEF AddJob, IInv, TypeOK
    <3>5. ASSUME NEW i \in 0 .. NumThreads - 1, Added(u, i)' PROVE Added(u, i) \/ i = fi[u]
      <4>1. i < fi[u] + 1
        BY <3>3, <3>5 DEF Added
      <4> QED
        BY <2>1, <2>2, <4>1 DEF Added, AddsBarriers
    <3>6. \A i \in 0 .. NumThreads - 1 : Added(v, i)' => Added(v, i) \/ <<u, fi[u]>> = <<v, i>>
      BY <3>4, <3>5, OtherAdded
    <3> QED
      BY <2>1, <2>3, <3>1, <3>2, <3>6, AddWaits
  <2>4. CASE /\ fi[u] >= num_threads /\ fi' = [fi EXCEPT ![u] = 0]
             /\ upc' = [upc EXCEPT ![u] = "fin_wait"] /\ UNCHANGED <<ring, wpc, ujob, fence, hist>>
    <3>1. \A i \in 0 .. NumThreads - 1 : Added(u, i)
      BY <2>1, <2>2, <2>4 DEF Added, AddsBarriers
    <3>2. v # u => upc'[v] = upc[v] /\ fi'[v] = fi[v]
      BY <2>4 DEF IInv, TypeOK
    <3>3. \A i \in 0 .. NumThreads - 1 : Added(v, i)' => Added(v, i)
      BY <2>4, <3>1, <3>2, OtherAdded
    <3> QED
      BY <2>1, <2>4, <3>3, LocalWaits DEF hist
  <2> QED
    BY <1>2, <2>3, <2>4 DEF FinishAdd
<1>3. CASE AddRetry(u)
  <2> DEFINE j == ujob[u]
  <2>1. /\ upc[u] = "add_retry" /\ UNCHANGED <<wjob, fence, fi, before>> /\ j \in AllJobs
        /\ Owes(u, j) /\ ~kill_threads
    BY <1>3 DEF AddRetry, Owes, IInv, JobsOfThreads, ShutdownAlone, hist
  <2>2. RingFine /\ ~InRing(j) /\ \A w \in Workers : ~Holds(w, j)
    BY <2>1, LiveRing DEF IInv, OneOwner
  <2>3. AddsBarriers(u)' => AddsBarriers(u)
    BY <1>3, <2>1 DEF AddRetry, After, AddsBarriers, IInv, TypeOK, AllJobs
  <2>4. upc'[u] # "fin_wait" /\ (v # u => upc'[v] = upc[v] /\ ujob'[v] = ujob[v])
    BY <1>3 DEF AddRetry, After, IInv, TypeOK
  <2>5. \A i \in 0 .. NumThreads - 1 : Added(v, i)' => Added(v, i)
    BY <2>1, <2>3, <2>4, OtherAdded DEF Added
  <2>6. CASE UNCHANGED <<ring, wpc, ujob>>
    BY <2>1, <2>5, <2>6, LocalWaits
  <2>7. CASE num_queued # max_jobs /\ Push(j, jobs, write_idx, max_jobs) /\ UNCHANGED read_idx
    <3>1. RingFine' /\ \A k \in AllJobs : InRing(k)' <=> InRing(k) \/ k = j
      BY <2>1, <2>2, <2>7, PushRing
    <3>2. Queue' = Append(Queue, j) /\ num_queued' = num_queued + 1
      BY <2>1, <2>2, <2>7, <3>1, PushQueue DEF RingFine, Push
    <3>3. InFront(v)' /\ \A k \in before'[v] : InRing(k)' <=> InRing(k)
      BY <1>0, <2>1, <2>2, <3>1, <3>2, WaitsPush DEF RingFine
    <3>4. \A w \in Workers : \/ wpc'[w] = wpc[w]
                             \/ wpc[w] = "asleep" /\ wpc'[w] = "loop"
      BY <2>7, SignalHasQueuedFacts DEF Push, IInv
    <3>5. \A w \in Workers, k \in AllJobs : Holds(w, k)' <=> Holds(w, k)
      BY <2>1, <3>4 DEF Holds
    <3>6. Passed(v)'
      BY <1>0, <2>1, <3>4 DEF Waits, Passed, BarOf
    <3> QED
      BY <1>0, <2>1, <2>5, <3>3, <3>5, <3>6, WaitsFrame
  <2> QED
    BY <1>3, <2>6, <2>7 DEF AddRetry
<1>4. CASE DropScan(u)
  <2>1. /\ upc[u] = "drop_scan" /\ ujob[u] \in AllJobs /\ ~kill_threads
        /\ UNCHANGED <<read_idx, write_idx, num_queued, max_jobs, wpc, wjob, ujob, fence, fi>>
    BY <1>4 DEF DropScan, wvars, IInv, JobsOfThreads, AllJobs, ShutdownAlone
  <2>2. \A i \in 0 .. NumThreads - 1 : Added(v, i)' => Added(v, i)
    <3>1. upc'[u] \in {"drop_signal", "drop_wait"} /\ (v # u => upc'[v] = upc[v])
      BY <1>4 DEF DropScan, IInv, TypeOK
    <3> QED
      BY <2>1, <3>1 DEF Added, AddsBarriers
  <2>3. ASSUME NEW i \in Visited, jobs[i] = ujob[u], jobs' = [jobs EXCEPT ![i] = Null],
               Settle({ujob[u]})
        PROVE  Waits(v)'
    <3>1. RingFine /\ RingTyped /\ RingIndices /\ i \in Slots /\ jobs[i] # Null
      BY <2>1, <2>3, LiveRing, VisitedQueued DEF RingFine
    <3>2. RingTyped' /\ \A k \in AllJobs : InRing(k)' <=> InRing(k) /\ k # jobs[i]
      BY <2>1, <2>3, <3>1, ClearRing DEF RingFine
    <3>3. PICK k \in DOMAIN Queue : Queue[k] = jobs[i] /\ Queue' = [Queue EXCEPT ![k] = Null]
      BY <2>1, <2>3, <3>1, <3>2, ClearQueue
    <3>4. before'[v] = before[v] \ {ujob[u]}
      BY <2>3 DEF Settle
    <3>5. \A a \in 1 .. num_queued : Queue'[a] = IF a = k THEN Null ELSE Queue[a]
      BY <3>1, <3>3, QueueFacts, LenProperties DEF QueueShape
    <3>6. Null \notin BarOf(v)
      BY BarrierFacts
    <3>7. InFront(v)'
      BY <1>0, <2>1, <3>4, <3>5, <3>6 DEF Waits, InFront, BarOf
    <3>8. \A j \in before'[v] : InRing(j)' <=> InRing(j)
      BY <1>0, <2>3, <3>2, <3>4
    <3>9. Passed(v)'
      BY <1>0, <2>1, <3>4 DEF Waits, Passed, BarOf
    <3>10. \A w \in Workers, j \in AllJobs : Holds(w, j)' <=> Holds(w, j)
      BY <2>1 DEF Holds
    <3> QED
      BY <1>0, <2>1, <2>2, <3>4, <3>7, <3>8, <3>9, <3>10, WaitsFrame
  <2>4. CASE UNCHANGED <<jobs, hist>>
    BY <2>1, <2>2, <2>4, LocalWaits DEF ring, hist
  <2> QED
    BY <1>4, <2>3, <2>4 DEF DropScan
<1>5. CASE DropSignal(u)
  <2> USE DEF DropSignal
  <2>1. ujob[u] \in Jobs /\ ujob[u] \in AllJobs
    BY <1>5 DEF IInv, JobsOfThreads, AllJobs
  <2>2. UNCHANGED <<ring, wpc, wjob, fi, before>>
    BY <1>5 DEF wvars, hist
  <2>3. \A i \in 0 .. NumThreads - 1 : Added(v, i)' => Added(v, i)
    <3>1. upc'[u] = "idle" /\ (v # u => upc'[v] = upc[v] /\ ujob'[v] = ujob[v])
      BY <1>5 DEF IInv, TypeOK
    <3> QED
      BY <2>2, <3>1 DEF Added, AddsBarriers
  <2>4. \A i \in 0 .. NumThreads - 1 : fence'[<<v, i>>] = fence[<<v, i>>]
    <3>1. \A i \in 0 .. NumThreads - 1 : <<v, i>> \in AllJobs /\ <<v, i>> # ujob[u]
      BY <2>1, BarrierFacts
    <3> QED
      BY <1>5, <3>1 DEF IInv, TypeOK
  <2>5. InFront(v)' /\ \A j : InRing(j)' <=> InRing(j)
    BY <1>0, <2>2, InFrontFrame DEF Waits
  <2>6. Passed(v)' /\ \A w \in Workers, j \in AllJobs : Holds(w, j)' <=> Holds(w, j)
    BY <1>0, <2>2 DEF Waits, Passed, Holds, BarOf
  <2> QED
    BY <1>0, <2>2, <2>3, <2>4, <2>5, <2>6, WaitsFrame
<1>6. CASE \/ WaitReturn(u) \/ FinishWait(u) \/ AddSpurious(u) \/ FinishLock(u)
           \/ \E j \in Jobs : Wait(u, j) \/ Drop(u, j)
  <2> USE DEF WaitReturn, FinishLock, FinishWait, AddSpurious, Wait, Drop
  <2>1. UNCHANGED <<ring, wpc, wjob, fence, before>>
    BY <1>6 DEF wvars, hist
  <2>2. v # u => upc'[v] = upc[v] /\ ujob'[v] = ujob[v] /\ fi'[v] = fi[v]
    BY <1>6 DEF IInv, TypeOK
  <2>3. ASSUME NEW i \in 0 .. NumThreads - 1, Added(u, i)' PROVE Added(u, i)
    <3>1. CASE FinishLock(u)
      <4>1. Counts(u) /\ upc[u] = "fin_lock" /\ fi' = fi /\ upc'[u] = "fin_add"
        BY <3>1 DEF FinishInv, IInv, TypeOK
      <4>2. fi[u] = 0
        BY <4>1 DEF Counts, AddsBarriers
      <4> QED
        BY <2>3, <4>1, <4>2 DEF Added
    <3>2. CASE FinishWait(u)
      <4>1. upc[u] = "fin_wait"
        BY <3>2
      <4> QED
        BY <4>1 DEF Added
    <3>3. CASE WaitReturn(u) \/ \E j \in Jobs : Wait(u, j) \/ Drop(u, j)
      <4>1. upc'[u] \in {"idle", "wait", "drop_scan"}
        BY <3>3 DEF IInv, TypeOK
      <4> QED
        BY <2>3, <4>1 DEF Added, AddsBarriers
    <3>4. CASE AddSpurious(u)
      BY <2>3, <3>4 DEF Added, AddsBarriers, IInv, TypeOK
    <3> QED
      BY <1>6, <3>1, <3>2, <3>3, <3>4
  <2>4. \A i \in 0 .. NumThreads - 1 : Added(v, i)' => Added(v, i)
    BY <2>2, <2>3, OtherAdded
  <2> QED
    BY <2>1, <2>4, LocalWaits
<1>7. CASE Finish(u)
  <2> USE DEF Finish
  <2>1. UNCHANGED <<ring, wpc, wjob, fence, ujob, fi>> /\ upc[u] = "idle"
    BY <1>7 DEF wvars
  <2>2. CASE v # u
    <3>1. before'[v] = before[v] /\ upc'[v] = upc[v]
      BY <1>7, <2>2 DEF IInv, TypeOK
    <3> QED
      BY <2>1, <3>1, LocalWaits, OtherAdded
  <2>3. CASE v = u
    <3>1. \A i \in 0 .. NumThreads - 1 : fence[<<u, i>>]
      BY <2>1 DEF IInv, BarrierFences, AddsBarriers
    <3>2. \A b \in BarOf(u) : ~InRing(b) /\ \A w \in Workers : ~Holds(w, b)
      BY <3>1, BarrierFacts DEF IInv, OneOwner
    <3>3. \A w \in Workers, j \in AllJobs : Holds(w, j)' <=> Holds(w, j)
      BY <2>1 DEF Holds
    <3>4. UNCHANGED Queue /\ \A j : InRing(j)' <=> InRing(j)
      BY <2>1, QueueFrame DEF InRing, Slots, ring
    <3>5. before'[u] = {j \in Jobs : InRing(j) \/ \E w \in Workers : Holds(w, j)}
      BY <1>7 DEF IInv, TypeOK
    <3>6. Alive(u)'
      BY <3>3, <3>4, <3>5, BarrierFacts DEF Alive
    <3>7. InFront(u)'
      <4>1. \A b \in 1 .. num_queued : Queue[b] \notin BarOf(u)
        <5>1. RingTyped
          BY DEF IInv, TypeOK, RingTyped
        <5> QED
          BY <3>2, <5>1, QueueFacts DEF QueueShape, InRing
      <4> QED
        BY <2>1, <3>4, <4>1 DEF InFront, BarOf, ring
    <3>8. Taken(u)'
      BY <3>2, <3>3, BarrierFacts DEF Taken, BarOf
    <3>9. Passed(u)'
      BY <2>1, <3>2 DEF Passed, Holds, BarOf
    <3>10. Signalled(u)'
      BY <1>7 DEF Signalled, Added, AddsBarriers, IInv, TypeOK
    <3> QED
      BY <2>3, <3>6, <3>7, <3>8, <3>9, <3>10 DEF Waits
  <2> QED
    BY <2>2, <2>3
<1> QED
  BY <1>1, <1>2, <1>3, <1>4, <1>5, <1>6, <1>7 DEF UserStep, UserCall

\* The counters of util_queue_finish.
LEMMA CountsStep ==
    ASSUME IInv, FinishInv, Shutdown # "atexit", [Next]_vars, NEW v \in Users PROVE Counts(v)'
<1> USE UtilQueueAssumption
<1>0. Counts(v)
  BY DEF FinishInv
<1>1. CASE \E w \in Workers : WorkerStep(w) \/ WorkerSpurious(w)
  <2>1. PICK w \in Workers : WorkerStep(w) \/ WorkerSpurious(w)
    BY <1>1
  <2>2. UNCHANGED <<ujob, fi, barCount>>
    BY <2>1 DEF WorkerStep, WorkerSleep, WorkerSpurious, WorkerTake, WorkerExec, WorkerBarrier,
                WorkerSignal, WorkerCleanup, WorkerBreak, WorkerDrain, uvars
  <2>3. UNCHANGED upc \/ SignalHasSpace
    BY <2>1 DEF WorkerStep, WorkerSleep, WorkerSpurious, WorkerTake, WorkerExec, WorkerBarrier,
                WorkerSignal, WorkerCleanup, WorkerBreak, WorkerDrain, uvars
  <2>4. upc'[v] = upc[v] \/ (upc[v] = "add_wait" /\ upc'[v] = "add_retry")
    BY <2>3, SignalHasSpaceFacts DEF IInv
  <2> QED
    BY <1>0, <2>2, <2>4 DEF Counts, AddsBarriers
<1>2. CASE \E u \in Users : UserStep(u) \/ UserCall(u) \/ AddSpurious(u)
  <2>1. PICK u \in Users : UserStep(u) \/ UserCall(u) \/ AddSpurious(u)
    BY <1>2
  <2> USE DEF UserStep, UserCall, AddSpurious, Add, AddRetry, Wait, WaitReturn, Drop, DropScan,
              DropSignal, Finish, FinishLock, FinishAdd, FinishWait
  <2>2. CASE v # u
    <3>0. \A j : AddJob(u, j) => upc'[v] = upc[v] /\ ujob'[v] = ujob[v]
      BY <2>2 DEF AddJob, IInv, TypeOK
    <3>1. upc'[v] = upc[v] /\ ujob'[v] = ujob[v] /\ fi'[v] = fi[v] /\ barCount'[v] = barCount[v]
      BY <2>1, <2>2, <3>0 DEF IInv, TypeOK
    <3> QED
      BY <1>0, <3>1 DEF Counts, AddsBarriers
  <2>3. CASE v = u
    <3>1. ASSUME NEW j \in Jobs, Add(u, j) PROVE Counts(u)'
      <4>1. upc[u] = "idle" /\ AddJob(u, j) /\ UNCHANGED <<fi, barCount>>
        BY <3>1
      <4>2. ~AddsBarriers(u)' /\ upc'[u] \notin {"fin_wait", "fin_lock"}
        BY <4>1 DEF AddJob, After, AddsBarriers, IInv, TypeOK, JobsOfThreads
      <4> QED
        BY <1>0, <2>3, <4>1, <4>2 DEF Counts, AddsBarriers
    <3>2. CASE FinishAdd(u)
      <4>1. upc[u] = "fin_add" /\ UNCHANGED barCount
        BY <3>2
      <4>2. AddsBarriers(u)' \/ upc'[u] = "fin_wait"
        <5>1. CASE upc' = [upc EXCEPT ![u] = "fin_wait"]
          BY <5>1 DEF IInv, TypeOK
        <5>2. CASE fi[u] < num_threads /\ AddJob(u, <<u, fi[u]>>)
          <6>1. <<u, fi[u]>> \in BarrierJobs /\ <<u, fi[u]>> \notin Jobs
            BY <5>2, NumThreadsFacts DEF IInv, TypeOK, BarrierJobs
          <6> QED
            BY <4>1, <5>2, <6>1 DEF AddJob, After, AddsBarriers, IInv, TypeOK
        <5> QED
          BY <3>2, <5>1, <5>2
      <4> QED
        BY <1>0, <2>3, <4>1, <4>2 DEF Counts, AddsBarriers
    <3>3. CASE AddRetry(u)
      <4>1. upc[u] = "add_retry" /\ UNCHANGED <<fi, barCount>> /\ ujob[u] \in AllJobs
        BY <3>3 DEF IInv, JobsOfThreads
      <4>2. AddsBarriers(u)' <=> AddsBarriers(u)
        BY <3>3, <4>1 DEF After, AddsBarriers, IInv, TypeOK, AllJobs
      <4>3. upc'[u] \notin {"fin_wait", "fin_lock"}
        BY <3>3 DEF After, IInv, TypeOK
      <4> QED
        BY <1>0, <2>3, <4>1, <4>2, <4>3 DEF Counts
    <3>4. CASE Finish(u)
      <4>1. num_threads = NumThreads /\ upc[u] = "idle" /\ UNCHANGED fi
        BY <3>4 DEF Usable, IInv, ShutdownAlone
      <4>2. barCount'[u] = NumThreads /\ upc'[u] = "fin_lock"
        BY <3>4, <4>1 DEF IInv, TypeOK
      <4> QED
        BY <1>0, <2>3, <4>1, <4>2 DEF Counts, AddsBarriers
    <3>5. CASE FinishLock(u) \/ FinishWait(u)
      BY <1>0, <2>3, <3>5 DEF Counts, AddsBarriers, IInv, TypeOK
    <3>6. CASE \/ AddSpurious(u) \/ WaitReturn(u) \/ DropScan(u) \/ DropSignal(u)
               \/ \E j \in Jobs : Wait(u, j) \/ Drop(u, j)
      BY <1>0, <2>3, <3>6 DEF Counts, AddsBarriers, IInv, TypeOK
    <3> QED
      BY <2>1, <2>3, <3>1, <3>2, <3>3, <3>4, <3>5, <3>6
  <2> QED
    BY <2>2, <2>3
<1>3. CASE Kill \/ Joined \/ UNCHANGED vars
  <2>1. UNCHANGED <<upc, ujob, fi, barCount>>
    BY <1>3 DEF Kill, Joined, vars, uvars
  <2> QED
    BY <1>0, <2>1 DEF Counts, AddsBarriers
<1> QED
  BY <1>1, <1>2, <1>3 DEF Next

\* Kill and Joined, when nobody is in util_queue_finish, and stuttering.
LEMMA ShutdownWaits ==
    ASSUME IInv, FinishInv, Kill \/ Joined \/ UNCHANGED vars, NEW v \in Users PROVE Waits(v)'
<1>0. Waits(v)
  BY DEF FinishInv
<1>1. UNCHANGED <<ring, wjob, fence, upc, ujob, fi, before>>
  BY DEF Kill, Joined, vars, wvars, uvars, hist
<1>2. /\ \A w \in Workers, j \in AllJobs : Holds(w, j)' <=> Holds(w, j)
      /\ \A w \in Workers : wpc'[w] = "signal" <=> wpc[w] = "signal"
  BY DEF Kill, Joined, vars, wvars, Holds, IInv, TypeOK
<1>3. InFront(v)' /\ \A j : InRing(j)' <=> InRing(j)
  BY <1>0, <1>1, InFrontFrame DEF Waits
<1>4. Passed(v)'
  BY <1>0, <1>1, <1>2 DEF Waits, Passed, BarOf
<1> QED
  BY <1>0, <1>1, <1>2, <1>3, <1>4, WaitsFrame, OtherAdded

\* When util_queue_finish returns, every job that was queued or being executed when
\* it was called is over.
THEOREM FinishWaits == ASSUME Shutdown # "atexit" PROVE Spec => FinishWaitsForAll
<1> USE UtilQueueAssumption
<1>1. Init => FinishInv
  <2> SUFFICES ASSUME Init, NEW u \in Users PROVE Counts(u) /\ Waits(u)
    BY DEF FinishInv
  <2>1. before[u] = {} /\ upc[u] = "idle" /\ fi[u] = 0
    BY DEF Init
  <2> QED
    BY <2>1 DEF Counts, AddsBarriers, Waits, Alive, InFront, Taken, Passed, Signalled
<1>2. IInv /\ FinishInv /\ [Next]_vars => FinishInv'
  <2> SUFFICES ASSUME IInv, FinishInv, [Next]_vars, NEW v \in Users PROVE Counts(v)' /\ Waits(v)'
    BY DEF FinishInv
  <2>1. Counts(v)'
    BY CountsStep
  <2>2. CASE \E w \in Workers : WorkerStep(w) \/ WorkerSpurious(w)
    BY <2>1, <2>2, WorkerWaits
  <2>3. CASE \E u \in Users : UserStep(u) \/ UserCall(u) \/ AddSpurious(u)
    BY <2>1, <2>3, UserWaits
  <2>4. CASE Kill \/ Joined \/ UNCHANGED vars
    BY <2>1, <2>4, ShutdownWaits
  <2> QED
    BY <2>2, <2>3, <2>4 DEF Next
<1>3. IInv /\ FinishInv /\ [Next]_vars
      => [\A u \in Users : (upc[u] = "fin_wait" /\ upc'[u] = "idle") => before[u] = {}]_vars
  <2> SUFFICES ASSUME IInv, FinishInv, Next, NEW u \in Users, upc[u] = "fin_wait", upc'[u] = "idle"
               PROVE  before[u] = {}
    OBVIOUS
  <2>1. fi[u] >= NumThreads
    <3>1. num_threads = NumThreads
      BY DEF IInv, ShutdownAlone
    <3>2. CASE \E w \in Workers : WorkerStep(w) \/ WorkerSpurious(w)
      <4>1. UNCHANGED upc \/ SignalHasSpace
        BY <3>2 DEF WorkerStep, WorkerSleep, WorkerSpurious, WorkerTake, WorkerExec, WorkerBarrier,
                    WorkerSignal, WorkerCleanup, WorkerBreak, WorkerDrain, uvars
      <4> QED
        BY <4>1, SignalHasSpaceFacts DEF IInv
    <3>3. CASE \E v \in Users : UserStep(v) \/ UserCall(v) \/ AddSpurious(v)
      <4>1. PICK v \in Users : UserStep(v) \/ UserCall(v) \/ AddSpurious(v)
        BY <3>3
      <4> USE DEF UserStep, UserCall, AddSpurious, Add, AddRetry, Wait, WaitReturn, Drop, DropScan,
                  DropSignal, Finish, FinishLock, FinishAdd, FinishWait
      <4>2. \A j : AddJob(v, j) => v = u \/ upc'[u] = upc[u]
        BY DEF AddJob, IInv, TypeOK
      <4>3. v = u
        BY <4>1, <4>2 DEF IInv, TypeOK
      <4>4. FinishWait(u) /\ upc' # upc
        BY <4>1, <4>3
      <4> QED
        BY <3>1, <4>4
    <3>4. CASE Kill \/ Joined
      BY <3>4 DEF Kill, Joined, uvars
    <3> QED
      BY <3>2, <3>3, <3>4 DEF Next
  <2>2. 0 \in 0 .. NumThreads - 1 /\ ~(0 >= fi[u])
    BY <2>1, NumThreadsFacts DEF IInv, TypeOK
  <2>3. fence[<<u, 0>>]
    BY <2>2 DEF IInv, BarrierFences, AddsBarriers
  <2> QED
    BY <2>2, <2>3 DEF FinishInv, Waits, Signalled, Added
<1>4. Spec => []IInv
  BY SpecIInv
<1> QED
  BY <1>1, <1>2, <1>3, <1>4, PTL DEF Spec, FinishWaitsForAll

=============================================================================
