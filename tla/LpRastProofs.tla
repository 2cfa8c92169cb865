----------------------------- MODULE LpRastProofs -----------------------------
(***************************************************************************)
(* First the barrier of u_thread.h: it keeps any number of threads in step *)
(* for any number of rounds.  The threads of the rasterizer use it as      *)
(* UtilBarrier allows it, so what is proved of the barrier holds of them.  *)
(* From its rounds follows where each thread can be: all are at work on    *)
(* one scene, its fence is complete when its bins are, and a flush returns *)
(* with it finished; for any number of threads, contexts, bins and scenes. *)
(***************************************************************************)
EXTENDS LpRast, FiniteSetTheorems, TLAPS
-----------------------------------------------------------------------------
(* The barrier.  *)

\* The number of threads is a positive natural number, and counting some of
\* them is at most that.
LEMMA CountFacts ==
    /\ count \in Nat \ {0}
    /\ \A S \in SUBSET Threads : /\ IsFiniteSet(S)
                                 /\ Cardinality(S) \in Nat
                                 /\ Cardinality(S) = count => S = Threads
<1>1. count \in Nat /\ count # 0
  BY UtilBarrierAssumption, FS_CardinalityType, FS_EmptySet DEF count
<1>2. ASSUME NEW S \in SUBSET Threads
      PROVE  /\ IsFiniteSet(S) /\ Cardinality(S) \in Nat
             /\ Cardinality(S) = count => S = Threads
  BY UtilBarrierAssumption, FS_Subset, FS_CardinalityType DEF count
<1> QED
  BY <1>1, <1>2

\* A fresh barrier satisfies the invariant.
LEMMA InitIInv == Init => IInv
<1> SUFFICES ASSUME Init PROVE IInv
  OBVIOUS
<1>1. Counted = {}
  BY DEF Init, Counted
<1>2. Cardinality(Counted) = 0
  BY <1>1, FS_EmptySet
<1> QED
  BY <1>2, CountFacts, UtilBarrierAssumption DEF Init, IInv, TypeOK, NoLostWakeup

\* The last thread to arrive finds all the others in this round.
LEMMA LastArrives ==
    ASSUME IInv, NEW t \in Threads, ArriveLast(t)
    PROVE  \A u \in Threads : u # t => pc[u] # "out" /\ seq[u] = sequence /\ passed[u] = sequence
<1>0. Counted \in SUBSET Threads /\ IsFiniteSet(Counted) /\ count \in Nat \ {0}
  BY CountFacts DEF Counted
<1>1. t \notin Counted
  BY DEF ArriveLast, Counted
<1>2. Cardinality(Counted \cup {t}) = waiters + 1
  BY <1>0, <1>1, FS_AddElement DEF IInv
<1>3. waiters + 1 = count
  BY <1>0 DEF ArriveLast, IInv, TypeOK
<1>4. Counted \cup {t} = Threads
  BY <1>2, <1>3, CountFacts DEF Counted
<1> QED
  BY <1>4 DEF Counted, IInv

\* Every step of util_barrier_wait preserves the invariant.
LEMMA NextIInv == IInv /\ [Next]_vars => IInv'
<1> SUFFICES ASSUME IInv, [Next]_vars PROVE IInv'
  OBVIOUS
<1> USE UtilBarrierAssumption
<1>0. Counted \in SUBSET Threads /\ IsFiniteSet(Counted) /\ count \in Nat \ {0}
  BY CountFacts DEF Counted
<1>1. ASSUME NEW t \in Threads, Arrive(t) PROVE IInv'
  <2>1. Counted' = Counted \cup {t} /\ t \notin Counted
    BY <1>1 DEF Arrive, Counted, IInv, TypeOK
  <2>2. waiters' = Cardinality(Counted')
    BY <1>0, <1>1, <2>1, FS_AddElement DEF Arrive, IInv
  <2> QED
    BY <1>0, <1>1, <2>2 DEF Arrive, IInv, TypeOK, NoLostWakeup, count
<1>2. ASSUME NEW t \in Threads, ArriveLast(t) PROVE IInv'
  <2>5. \A u \in Threads : u # t => pc[u] # "out" /\ seq[u] = sequence
    BY <1>2, LastArrives
  <2>6. \A u \in Threads : seq[u] # sequence + 1 \/ pc[u] = "out"
    BY <1>2, <2>5 DEF ArriveLast, IInv, TypeOK
  <2>7. Counted' = {}
    BY <1>2, <2>5, <2>6 DEF ArriveLast, Counted, IInv, TypeOK
  <2>8. waiters' = Cardinality(Counted')
    BY <1>2, <2>7, FS_EmptySet DEF ArriveLast
  <2>9. TypeOK'
    BY <1>0, <1>2 DEF ArriveLast, IInv, TypeOK, count
  <2>10. NoLostWakeup'
    BY <1>2 DEF ArriveLast, IInv, TypeOK, NoLostWakeup
  <2> QED
    BY <1>2, <2>5, <2>8, <2>9, <2>10 DEF ArriveLast, IInv, TypeOK
<1>3. ASSUME NEW t \in Threads, Leave(t) PROVE IInv'
  <2>1. Counted' = Counted
    BY <1>3 DEF Leave, Counted, IInv, TypeOK
  <2>2. waiters' = Cardinality(Counted')
    BY <1>3, <2>1 DEF Leave, IInv
  <2>3. passed[t] + 1 = sequence
    BY <1>3 DEF Leave, IInv, TypeOK
  <2>4. passed[t] < MaxRounds
    BY <1>3 DEF Leave, IInv
  <2> QED
    BY <1>3, <2>2, <2>3, <2>4 DEF Leave, IInv, TypeOK, NoLostWakeup, count
<1>4. ASSUME NEW t \in Threads, SleepAgain(t) \/ Spurious(t) PROVE IInv'
  <2>1. Counted' = Counted
    BY <1>4 DEF SleepAgain, Spurious, Counted, IInv, TypeOK
  <2>2. waiters' = Cardinality(Counted')
    BY <1>4, <2>1 DEF SleepAgain, Spurious, IInv
  <2> QED
    BY <1>4, <2>2 DEF SleepAgain, Spurious, IInv, TypeOK, NoLostWakeup, count
<1>5. ASSUME UNCHANGED vars PROVE IInv'
  <2>1. Counted' = Counted
    BY <1>5 DEF vars, Counted
  <2> QED
    BY <1>5, <2>1 DEF vars, IInv, TypeOK, NoLostWakeup, count
<1> QED
  BY <1>1, <1>2, <1>3, <1>4, <1>5 DEF Next, Step, Done

\* The invariant contains the properties of the barrier.
LEMMA IInvImplies == IInv => TypeOK /\ Lockstep /\ NoLostWakeup /\ IdleIsEmpty
<1> SUFFICES ASSUME IInv PROVE TypeOK /\ Lockstep /\ NoLostWakeup /\ IdleIsEmpty
  OBVIOUS
<1>1. Lockstep
  BY DEF IInv, TypeOK, Lockstep, Arrived
<1>2. ASSUME \A t \in Threads : pc[t] = "out" PROVE waiters = 0
  <2>1. Counted = {}
    BY <1>2 DEF Counted
  <2> QED
    BY <2>1, FS_EmptySet DEF IInv
<1> QED
  BY <1>1, <1>2 DEF IInv, IdleIsEmpty

\* The invariant holds throughout.
LEMMA SpecIInv == Spec => []IInv
  BY InitIInv, NextIInv, PTL DEF Spec

\* util_barrier_wait keeps any number of threads in step: nobody returns from a
\* round before everybody has arrived in it.
THEOREM BarrierLockstep == Spec => []Lockstep
  BY SpecIInv, IInvImplies, PTL

\* A thread asleep in cnd_wait waits for a broadcast that is still to come.
THEOREM BarrierLosesNoWakeup == Spec => []NoLostWakeup
  BY SpecIInv, IInvImplies, PTL

\* The assertions of util_barrier_wait (in TypeOK) and util_barrier_destroy hold.
THEOREM BarrierAssertions == Spec => [](TypeOK /\ IdleIsEmpty)
  BY SpecIInv, IInvImplies, PTL

-----------------------------------------------------------------------------
(* The rasterizer.  *)

\* A step of the rasterizer is a step of the barrier or leaves it alone.
LEMMA RastSteps == [RastNext]_rastvars => [Next]_vars
<1> SUFFICES ASSUME [RastNext]_rastvars PROVE [Next]_vars
  OBVIOUS
<1>1. ASSUME NEW t \in Threads, ThreadStep(t) PROVE [Next]_vars
  <2>1. CASE AtBarrier(t) \/ PassFirst(t) \/ PassSecond(t)
    BY <2>1 DEF AtBarrier, PassFirst, PassSecond, Next, Step
  <2>2. CASE WaitForWork(t) \/ NextBin(t) \/ RasterizeBin(t) \/ FenceSignal(t) \/ WorkDone(t)
             \/ Begin \/ End
    BY <2>2 DEF WaitForWork, NextBin, RasterizeBin, FenceSignal, WorkDone, Begin, End
  <2> QED
    BY <1>1, <2>1, <2>2 DEF ThreadStep
<1>2. ASSUME NEW t \in Threads, SpuriousWakeup(t) PROVE [Next]_vars
  BY <1>2 DEF SpuriousWakeup, Next
<1>3. ASSUME NEW c \in Contexts, Flush(c) \/ ContextStep(c) PROVE [Next]_vars
  BY <1>3 DEF Flush, ContextStep, QueueScene, SignalWork, Finish, Unlock
<1>4. CASE DestroyStart \/ DestroyStep \/ UNCHANGED rastvars
  BY <1>4 DEF DestroyStart, DestroyStep, DestroySignal, DestroyJoin, rastvars
<1> QED
  BY <1>1, <1>2, <1>3, <1>4 DEF RastNext

\* The two util_barrier_wait of thread_function keep any number of rasterizer
\* threads in step, scene after scene, whatever contexts do.
THEOREM RastLockstep == RastSpec => []Lockstep
<1>1. RastInit => IInv
  BY InitIInv DEF RastInit
<1>2. IInv /\ [RastNext]_rastvars => IInv'
  BY RastSteps, NextIInv
<1> QED
  BY <1>1, <1>2, IInvImplies, PTL DEF RastSpec

-----------------------------------------------------------------------------
RastTypeOK ==
    /\ tpc \in [Threads -> {"wait", "begin", "barrier1", "work", "fence", "barrier2",
                            "end", "done", "exited"}]
    /\ scene \in [Threads -> Contexts \cup {NULL}]
    /\ bin \in [Threads -> Bins \cup {-1}]
    /\ work_ready \in [Threads -> Int] /\ work_done \in [Threads -> Int]
    /\ full_scenes \in Seq(Contexts)
    /\ curr_scene \in Contexts \cup {NULL}
    /\ exit_flag \in BOOLEAN
    /\ rast_mutex \in Contexts \cup {NULL}
    /\ cpc \in [Contexts -> {"binning", "lock", "signal", "finish", "unlock"}]
    /\ ci \in [Contexts -> Threads]
    /\ flushed \in [Contexts -> Nat]
    /\ curr \in [Contexts -> Bins \cup {-1}]
    /\ discard \in [Contexts -> BOOLEAN] /\ fence \in [Contexts -> BOOLEAN]
    /\ last_fence \in [Contexts -> Nat \cup {NULL}]
    /\ rastered \in [Contexts -> SUBSET Bins]
    /\ dpc \in {"no", "signal", "join", "gone"} /\ di \in Threads

\* Thread t is not at work on a scene.
Away(t) == scene[t] = NULL /\ bin[t] = -1

\* All bins of the scene of c are rasterized, as far as anybody wants them.
Complete(c) == discard[c] \/ rastered[c] = Bins

\* Nobody has the rasterizer: the threads wait for work, or end.
IdleAt(t) ==
    /\ Away(t) /\ pc[t] = "out" /\ work_done[t] = 0
    /\ tpc[t] \in {"wait", "exited"}
    /\ dpc = "no" => tpc[t] = "wait" /\ work_ready[t] = 0

Idle ==
    /\ full_scenes = <<>> /\ curr_scene = NULL
    /\ \A c \in Contexts : cpc[c] \in {"binning", "lock"}
    /\ \A t \in Threads : IdleAt(t)

\* The scene of c is queued, and the threads come to the first barrier as they
\* are signalled.
QueuedAt(c, t) ==
    /\ Away(t) /\ passed[t] = sequence /\ work_done[t] = 0
    /\ tpc[t] # "barrier1" => pc[t] = "out"
    /\ IF cpc[c] = "signal" /\ t >= ci[c] THEN tpc[t] = "wait" /\ work_ready[t] = 0
       ELSE \/ tpc[t] = "wait" /\ work_ready[t] = 1
            \/ tpc[t] = "begin" /\ work_ready[t] = 0 /\ t = 0
            \/ tpc[t] = "barrier1" /\ work_ready[t] = 0

Queued(c) ==
    /\ cpc[c] \in {"signal", "finish"} /\ (cpc[c] = "finish" => ci[c] = 0)
    /\ fence[c] /\ last_fence[c] = 0 /\ rastered[c] = {}
    /\ \/ tpc[0] \in {"wait", "begin"} /\ full_scenes = <<c>> /\ curr_scene = NULL
       \/ tpc[0] = "barrier1" /\ full_scenes = <<>> /\ curr_scene = c /\ curr[c] = -1
    /\ \A t \in Threads : QueuedAt(c, t)

\* The threads are between the two barriers.
WorkingAt(c, t) ==
    /\ work_ready[t] = 0 /\ work_done[t] = 0
    /\ \/ tpc[t] = "barrier1" /\ Away(t) /\ pc[t] # "out" /\ passed[t] = sequence - 1
       \/ tpc[t] = "work" /\ scene[t] = c /\ pc[t] = "out"
       \/ tpc[t] = "fence" /\ scene[t] = c /\ bin[t] = -1 /\ pc[t] = "out"
       \/ tpc[t] = "barrier2" /\ Away(t) /\ passed[t] = sequence
    /\ tpc[t] \in {"fence", "barrier2"} => discard[c] \/ curr[c] + 1 >= NumBins

\* The threads that have signalled the fence of their scene.
Signalled == {t \in Threads : tpc[t] = "barrier2"}

Working(c) ==
    /\ cpc[c] = "finish" /\ ci[c] = 0
    /\ full_scenes = <<>> /\ curr_scene = c /\ fence[c]
    /\ \A b \in 0 .. curr[c] : b \in rastered[c] \/ \E t \in Threads : bin[t] = b
    /\ last_fence[c] = Cardinality(Signalled)
    /\ \A t \in Threads : WorkingAt(c, t)

\* The threads leave the second barrier, and c waits for each of them.
FinishingAt(c, t) ==
    /\ Away(t) /\ work_ready[t] = 0
    /\ \/ tpc[t] = "barrier2" /\ pc[t] # "out" /\ passed[t] = sequence - 1 /\ work_done[t] = 0
       \/ tpc[t] = "end" /\ t = 0 /\ pc[t] = "out" /\ work_done[t] = 0
       \/ tpc[t] = "done" /\ pc[t] = "out" /\ work_done[t] = 0
       \/ tpc[t] = "wait" /\ pc[t] = "out"
    /\ IF cpc[c] = "unlock" \/ t < ci[c] THEN tpc[t] = "wait" /\ work_done[t] = 0
       ELSE tpc[t] = "wait" => work_done[t] = 1

Finishing(c) ==
    /\ cpc[c] \in {"finish", "unlock"} /\ (cpc[c] = "unlock" => ci[c] = 0)
    /\ full_scenes = <<>> /\ last_fence[c] = count /\ Complete(c)
    /\ curr_scene = IF tpc[0] \in {"barrier2", "end"} THEN c ELSE NULL
    /\ \A t \in Threads : FinishingAt(c, t)

\* The context that holds rast_mutex is the only one inside the rasterizer, and
\* the threads are in one of the three phases of its scene.
Phase ==
    \/ rast_mutex = NULL /\ Idle
    \/ /\ rast_mutex \in Contexts /\ dpc = "no"
       /\ \A c \in Contexts : c # rast_mutex => cpc[c] \in {"binning", "lock"}
       /\ Queued(rast_mutex) \/ Working(rast_mutex) \/ Finishing(rast_mutex)

\* The fence of a scene that is not in the rasterizer: finished, or fresh.
Fences ==
    \A c \in Contexts :
       /\ cpc[c] = "binning" /\ last_fence[c] # NULL => last_fence[c] = count /\ Complete(c)
       /\ cpc[c] = "lock" => fence[c] /\ last_fence[c] = 0 /\ rastered[c] = {}

\* lp_rast_destroy is called when the contexts are gone.
Destroying ==
    /\ exit_flag <=> dpc # "no"
    /\ dpc # "no" => \A c \in Contexts : cpc[c] = "binning"

RastIInv == IInv /\ RastTypeOK /\ Phase /\ Fences /\ Destroying

-----------------------------------------------------------------------------
LEMMA ThreadFacts ==
    /\ count \in Nat \ {0} /\ 0 \in Threads
    /\ NULL \notin Contexts /\ NumBins \in Nat
    /\ count' = count /\ Bins' = Bins
<1>1. count \in Nat \ {0}
  BY CountFacts
<1>2. count' = count /\ Bins' = Bins
  BY DEF count, Bins
<1> QED
  BY <1>1, <1>2, LpRastAssumption

LEMMA InitRastIInv == RastInit => RastIInv
<1> SUFFICES ASSUME RastInit PROVE RastIInv
  OBVIOUS
<1> USE ThreadFacts DEF RastInit
<1>1. IInv
  BY InitIInv
<1>2. RastTypeOK
  BY DEF RastTypeOK
<1>3. Phase
  BY DEF Phase, Idle, IdleAt, Away, Init
<1> QED
  BY <1>1, <1>2, <1>3 DEF RastIInv, Fences, Destroying

\* What the step leaves alone of thread t, and of the scene of context c.
SameThread(t) ==
    /\ tpc'[t] = tpc[t] /\ scene'[t] = scene[t] /\ bin'[t] = bin[t]
    /\ work_ready'[t] = work_ready[t] /\ work_done'[t] = work_done[t]
    /\ passed'[t] = passed[t] /\ (pc'[t] = "out" <=> pc[t] = "out")

SameScene(c) ==
    /\ cpc'[c] = cpc[c] /\ ci'[c] = ci[c]
    /\ curr'[c] = curr[c] /\ discard'[c] = discard[c] /\ fence'[c] = fence[c]
    /\ last_fence'[c] = last_fence[c] /\ rastered'[c] = rastered[c]

\* A thread the step leaves alone stays in its phase.
LEMMA SameThreadPhase ==
    ASSUME NEW c \in Contexts, NEW t \in Threads, SameThread(t), sequence' = sequence,
           cpc'[c] = cpc[c], ci'[c] = ci[c]
    PROVE  /\ IdleAt(t) /\ dpc' = dpc => IdleAt(t)'
           /\ QueuedAt(c, t) => QueuedAt(c, t)'
           /\ (WorkingAt(c, t) /\ curr'[c] = curr[c] /\ discard'[c] = discard[c]) => WorkingAt(c, t)'
           /\ FinishingAt(c, t) => FinishingAt(c, t)'
<1>1. Away(t)' = Away(t)
  BY DEF Away, SameThread
<1>2. (IdleAt(t) /\ dpc' = dpc) => IdleAt(t)'
  BY <1>1 DEF IdleAt, SameThread
<1>3. QueuedAt(c, t) => QueuedAt(c, t)'
  BY <1>1 DEF QueuedAt, SameThread
<1>4. (WorkingAt(c, t) /\ curr'[c] = curr[c] /\ discard'[c] = discard[c]) => WorkingAt(c, t)'
  BY <1>1 DEF WorkingAt, SameThread
<1>5. FinishingAt(c, t) => FinishingAt(c, t)'
  BY <1>1 DEF FinishingAt, SameThread
<1> QED
  BY <1>2, <1>3, <1>4, <1>5

\* A step that changes no thread and nothing of the scene in the rasterizer stays
\* in its phase.
LEMMA SamePhase ==
    ASSUME RastIInv, RastTypeOK', \A t \in Threads : SameThread(t),
           sequence' = sequence, UNCHANGED <<full_scenes, curr_scene, rast_mutex, dpc>>,
           rast_mutex \in Contexts => SameScene(rast_mutex),
           \A c \in Contexts : cpc[c] \in {"binning", "lock"} => cpc'[c] \in {"binning", "lock"}
    PROVE  Phase'
<1> USE ThreadFacts
<1>0. tpc' = tpc /\ bin' = bin
  BY DEF RastIInv, RastTypeOK, SameThread
<1>1. CASE rast_mutex = NULL /\ Idle
  <2>1. \A t \in Threads : IdleAt(t)'
    BY <1>1 DEF Idle, IdleAt, Away, SameThread
  <2> QED
    BY <1>1, <2>1 DEF Idle, Phase
<1>2. CASE rast_mutex \in Contexts /\ Queued(rast_mutex)
  <2>1. \A t \in Threads : QueuedAt(rast_mutex, t)'
    BY <1>2, SameThreadPhase DEF Queued, SameScene
  <2> QED
    BY <1>0, <1>2, <2>1 DEF Queued, Phase, SameScene, RastIInv
<1>3. CASE rast_mutex \in Contexts /\ Working(rast_mutex)
  <2>1. \A t \in Threads : WorkingAt(rast_mutex, t)'
    BY <1>3, SameThreadPhase DEF Working, SameScene
  <2>2. Signalled' = Signalled
    BY <1>0 DEF Signalled
  <2>3. Working(rast_mutex)'
    BY <1>0, <1>3, <2>1, <2>2 DEF Working, SameScene
  <2> QED
    BY <1>3, <2>3 DEF Phase, RastIInv
<1>4. CASE rast_mutex \in Contexts /\ Finishing(rast_mutex)
  <2>1. \A t \in Threads : FinishingAt(rast_mutex, t)'
    BY <1>4, SameThreadPhase DEF Finishing, SameScene
  <2>2. Finishing(rast_mutex)'
    BY <1>0, <1>4, <2>1 DEF Finishing, SameScene, Complete
  <2> QED
    BY <1>4, <2>2 DEF Phase, RastIInv
<1> QED
  BY <1>1, <1>2, <1>3, <1>4 DEF RastIInv, Phase

\* A step after which the holder of rast_mutex is still in one of the phases.
LEMMA SameHolder ==
    ASSUME RastIInv, rast_mutex \in Contexts, UNCHANGED <<rast_mutex, dpc>>,
           \A c \in Contexts : (c # rast_mutex /\ cpc[c] \in {"binning", "lock"})
                                 => cpc'[c] \in {"binning", "lock"},
           Queued(rast_mutex)' \/ Working(rast_mutex)' \/ Finishing(rast_mutex)'
    PROVE  Phase'
  BY ThreadFacts DEF RastIInv, Phase

\* A thread gets work and goes to the barrier, or ends.
LEMMA WaitForWorkRast ==
    ASSUME RastIInv, NEW t \in Threads, WaitForWork(t)
    PROVE  RastTypeOK' /\ Phase' /\ Fences' /\ Destroying'
<1> USE ThreadFacts DEF WaitForWork, vars, tvars, sems, rvars, cvars, svars, dvars
<1>1. RastTypeOK'
  <2>1. tpc' \in [Threads -> {"wait", "begin", "barrier1", "work", "fence", "barrier2",
                              "end", "done", "exited"}]
    BY DEF RastIInv, RastTypeOK, Goto
  <2>2. work_ready' \in [Threads -> Int]
    BY SMTT(30) DEF RastIInv, RastTypeOK, SemWait
  <2> QED
    BY <2>1, <2>2 DEF RastIInv, RastTypeOK
<1>2. Fences' /\ Destroying'
  BY DEF RastIInv, Fences, Destroying, Complete
<1>3. /\ \A u \in Threads : u # t => SameThread(u)
      /\ work_ready'[t] = work_ready[t] - 1
      /\ tpc'[t] = IF exit_flag THEN "exited" ELSE IF t = 0 THEN "begin" ELSE "barrier1"
  BY DEF RastIInv, RastTypeOK, SameThread, Goto, SemWait
<1>4. Away(t)' = Away(t)
  BY DEF Away
<1>5. CASE rast_mutex = NULL /\ Idle
  <2>1. exit_flag /\ dpc # "no"
    <3>1. dpc # "no"
      BY <1>5 DEF Idle, IdleAt
    <3> QED
      BY <3>1 DEF RastIInv, Destroying
  <2>2. IdleAt(t)'
    BY <1>3, <1>4, <1>5, <2>1 DEF Idle, IdleAt
  <2>3. \A u \in Threads : IdleAt(u)'
    BY <1>3, <1>5, <2>2 DEF Idle, IdleAt, Away, SameThread
  <2> QED
    BY <1>1, <1>2, <1>5, <2>3 DEF Idle, Phase
<1>6. CASE rast_mutex \in Contexts /\ Queued(rast_mutex)
  <2>1. ~exit_flag
    BY <1>6 DEF RastIInv, Phase, Destroying
  <2>2. QueuedAt(rast_mutex, t)'
    BY <1>3, <1>4, <1>6, <2>1 DEF Queued, QueuedAt
  <2>3. \A u \in Threads : QueuedAt(rast_mutex, u)'
    BY <1>3, <1>6, <2>2, SameThreadPhase DEF Queued
  <2>4. tpc'[0] = tpc[0] \/ (tpc[0] = "wait" /\ tpc'[0] = "begin")
    BY <1>3, <2>1 DEF SameThread
  <2>5. Queued(rast_mutex)'
    BY <1>6, <2>3, <2>4 DEF Queued
  <2> QED
    BY <1>1, <1>2, <1>6, <2>5, SameHolder
<1>7. CASE rast_mutex \in Contexts /\ (Working(rast_mutex) \/ Finishing(rast_mutex))
  BY <1>7 DEF Working, WorkingAt, Finishing, FinishingAt
<1> QED
  BY <1>1, <1>2, <1>5, <1>6, <1>7 DEF RastIInv, Phase

\* Thread 0 takes the scene from the queue.
LEMMA BeginRast ==
    ASSUME RastIInv, Begin
    PROVE  RastTypeOK' /\ Phase' /\ Fences' /\ Destroying'
<1> USE ThreadFacts DEF Begin, vars, tvars, sems, rvars, cvars, svars, dvars
<1>1. rast_mutex \in Contexts /\ Queued(rast_mutex)
  BY DEF RastIInv, Phase, Idle, Working, Finishing
<1>2. full_scenes = <<rast_mutex>> /\ dpc = "no"
  BY <1>1 DEF Queued, RastIInv, Phase
<1>3. /\ full_scenes' = <<>> /\ curr_scene' = rast_mutex
      /\ curr' = [curr EXCEPT ![rast_mutex] = -1]
  BY <1>2
<1>4. RastTypeOK'
  <2>1. tpc' \in [Threads -> {"wait", "begin", "barrier1", "work", "fence", "barrier2",
                              "end", "done", "exited"}]
    BY DEF RastIInv, RastTypeOK, Goto
  <2> QED
    <3>1. full_scenes' \in Seq(Contexts) /\ curr_scene' \in Contexts \cup {NULL}
      <4> HIDE DEF Begin
      <4> QED
        BY <1>1, <1>3
    <3>2. curr' \in [Contexts -> Bins \cup {-1}]
      BY <1>1, <1>3 DEF RastIInv, RastTypeOK
    <3> QED
      BY <2>1, <3>1, <3>2 DEF RastIInv, RastTypeOK
<1>5. Fences' /\ Destroying'
  BY DEF RastIInv, Fences, Destroying, Complete
<1>6. /\ \A u \in Threads : u # 0 => SameThread(u)
      /\ tpc'[0] = "barrier1" /\ curr'[rast_mutex] = -1
  BY <1>1, <1>3 DEF RastIInv, RastTypeOK, SameThread, Goto
<1>7. QueuedAt(rast_mutex, 0)'
  BY <1>1, <1>6 DEF Queued, QueuedAt, Away
<1>8. \A u \in Threads : QueuedAt(rast_mutex, u)'
  BY <1>1, <1>6, <1>7, SameThreadPhase DEF Queued
<1>9. Queued(rast_mutex)'
  BY <1>1, <1>3, <1>6, <1>8 DEF Queued
<1> QED
  BY <1>1, <1>2, <1>4, <1>5, <1>9 DEF Phase, RastIInv

\* A spurious wakeup changes nothing that counts.
LEMMA SpuriousWakeupRast ==
    ASSUME RastIInv, NEW t \in Threads, SpuriousWakeup(t)
    PROVE  RastTypeOK' /\ Phase' /\ Fences' /\ Destroying'
<1> USE ThreadFacts DEF SpuriousWakeup, Spurious, tvars, sems, rvars, cvars, svars, dvars
<1>1. RastTypeOK'
  BY DEF RastIInv, RastTypeOK
<1>2. \A u \in Threads : SameThread(u)
  BY DEF RastIInv, IInv, TypeOK, SameThread
<1>3. Phase'
  BY <1>1, <1>2, SamePhase DEF SameScene
<1> QED
  BY <1>1, <1>3 DEF RastIInv, Fences, Destroying, Complete

\* A thread arrives at a barrier, or goes back to sleep in it.
LEMMA AtBarrierRast ==
    ASSUME RastIInv, NEW t \in Threads, AtBarrier(t)
    PROVE  RastTypeOK' /\ Phase' /\ Fences' /\ Destroying'
<1> USE ThreadFacts DEF AtBarrier, Arrive, SleepAgain, tvars, sems, rvars, cvars, svars, dvars
<1>1. RastTypeOK'
  BY DEF RastIInv, RastTypeOK
<1>2. Fences' /\ Destroying'
  BY DEF RastIInv, Fences, Destroying, Complete
<1>3. /\ \A u \in Threads : u # t => SameThread(u)
      /\ pc'[t] = "asleep" /\ sequence' = sequence /\ passed' = passed
  BY DEF RastIInv, IInv, TypeOK, SameThread
<1>4. CASE rast_mutex = NULL /\ Idle
  BY <1>4 DEF Idle, IdleAt
<1>5. CASE rast_mutex \in Contexts /\ Queued(rast_mutex)
  <2>1. QueuedAt(rast_mutex, t)'
    BY <1>3, <1>5 DEF Queued, QueuedAt, Away
  <2>2. \A u \in Threads : QueuedAt(rast_mutex, u)'
    BY <1>3, <1>5, <2>1, SameThreadPhase DEF Queued
  <2>3. Queued(rast_mutex)'
    BY <1>5, <2>2 DEF Queued
  <2> QED
    BY <1>1, <1>2, <1>5, <2>3, SameHolder
<1>6. CASE rast_mutex \in Contexts /\ Working(rast_mutex)
  <2>1. WorkingAt(rast_mutex, t)'
    BY <1>3, <1>6 DEF Working, WorkingAt, Away, RastIInv, IInv
  <2>2. \A u \in Threads : WorkingAt(rast_mutex, u)'
    BY <1>3, <1>6, <2>1, SameThreadPhase DEF Working
  <2>3. Working(rast_mutex)'
    BY <1>6, <2>2 DEF Working, Signalled
  <2> QED
    BY <1>1, <1>2, <1>6, <2>3, SameHolder
<1>7. CASE rast_mutex \in Contexts /\ Finishing(rast_mutex)
  <2>1. FinishingAt(rast_mutex, t)'
    BY <1>3, <1>7 DEF Finishing, FinishingAt, Away, RastIInv, IInv
  <2>2. \A u \in Threads : FinishingAt(rast_mutex, u)'
    BY <1>3, <1>7, <2>1, SameThreadPhase DEF Finishing
  <2>3. Finishing(rast_mutex)'
    BY <1>7, <2>2 DEF Finishing, Complete
  <2> QED
    BY <1>1, <1>2, <1>7, <2>3, SameHolder
<1> QED
  BY <1>1, <1>2, <1>4, <1>5, <1>6, <1>7 DEF RastIInv, Phase

\* A thread leaves the first barrier: the last one to arrive opens the scene for
\* all of them.
LEMMA PassFirstRast ==
    ASSUME RastIInv, NEW t \in Threads, PassFirst(t)
    PROVE  RastTypeOK' /\ Phase' /\ Fences' /\ Destroying'
<1> USE ThreadFacts DEF PassFirst, sems, rvars, cvars, svars, dvars
<1>1. RastTypeOK'
  <2>1. tpc' \in [Threads -> {"wait", "begin", "barrier1", "work", "fence", "barrier2",
                              "end", "done", "exited"}]
    BY DEF RastIInv, RastTypeOK, Goto
  <2>2. scene' \in [Threads -> Contexts \cup {NULL}]
    BY DEF RastIInv, RastTypeOK
  <2> QED
    BY <2>1, <2>2 DEF RastIInv, RastTypeOK
<1>2. Fences' /\ Destroying'
  BY DEF RastIInv, Fences, Destroying, Complete
<1>3. /\ tpc'[t] = "work" /\ scene'[t] = curr_scene
      /\ \A u \in Threads : u # t => tpc'[u] = tpc[u] /\ scene'[u] = scene[u]
  BY DEF RastIInv, RastTypeOK, Goto
<1>4. CASE rast_mutex = NULL /\ Idle
  BY <1>4 DEF Idle, IdleAt
<1>5. CASE rast_mutex \in Contexts /\ Queued(rast_mutex)
  <2>1. ArriveLast(t)
    BY <1>5 DEF Leave, Queued, QueuedAt, RastIInv, IInv
  <2>2. /\ \A u \in Threads : u # t => pc[u] # "out" /\ passed[u] = sequence
        /\ \A u \in Threads : pc[u] # "out" => pc'[u] # "out"
        /\ \A u \in Threads : u # t => passed'[u] = passed[u]
        /\ pc'[t] = "out" /\ sequence' = sequence + 1
    BY <2>1, LastArrives DEF ArriveLast, RastIInv, IInv, TypeOK
  <2>3. \A u \in Threads : tpc[u] = "barrier1"
    BY <1>5, <2>2 DEF Queued, QueuedAt
  <2>4. cpc[rast_mutex] = "finish" /\ ci[rast_mutex] = 0
    <3>1. ASSUME cpc[rast_mutex] = "signal" PROVE FALSE
      <4>1. ci[rast_mutex] \in Threads /\ ci[rast_mutex] >= ci[rast_mutex]
        BY <1>5, LpRastAssumption DEF RastIInv, RastTypeOK
      <4>2. tpc[ci[rast_mutex]] = "wait"
        BY <1>5, <3>1, <4>1 DEF Queued, QueuedAt
      <4> QED
        BY <2>3, <4>1, <4>2
    <3> QED
      BY <1>5, <3>1 DEF Queued
  <2>5. /\ full_scenes = <<>> /\ curr_scene = rast_mutex /\ curr[rast_mutex] = -1
        /\ fence[rast_mutex] /\ last_fence[rast_mutex] = 0
    BY <1>5, <2>3 DEF Queued
  <2>6. WorkingAt(rast_mutex, t)'
    BY <1>3, <1>5, <2>2, <2>3, <2>5 DEF Queued, QueuedAt, WorkingAt
  <2>7. ASSUME NEW u \in Threads, u # t PROVE WorkingAt(rast_mutex, u)'
    <3>1. Away(u)'
      BY <1>3, <1>5, <2>7 DEF Queued, QueuedAt, Away
    <3>2. passed'[u] = sequence' - 1
      BY <2>2, <2>7 DEF RastIInv, IInv, TypeOK
    <3> QED
      BY <1>3, <1>5, <2>2, <2>3, <2>7, <3>1, <3>2 DEF Queued, QueuedAt, WorkingAt
  <2>8. Cardinality(Signalled') = 0
    <3>1. Signalled' = {}
      BY <1>3, <2>3 DEF Signalled
    <3> QED
      BY <3>1, FS_EmptySet
  <2>9. Working(rast_mutex)'
    BY <1>5, <2>4, <2>5, <2>6, <2>7, <2>8 DEF Working
  <2> QED
    BY <1>1, <1>2, <1>5, <2>9, SameHolder
<1>6. CASE rast_mutex \in Contexts /\ Working(rast_mutex)
  <2>1. Leave(t)
    BY <1>6 DEF ArriveLast, Working, WorkingAt
  <2>2. /\ \A u \in Threads : u # t => SameThread(u)
        /\ pc'[t] = "out" /\ sequence' = sequence
    BY <1>3, <2>1 DEF Leave, RastIInv, RastTypeOK, IInv, TypeOK, SameThread
  <2>3. WorkingAt(rast_mutex, t)'
    BY <1>3, <1>6, <2>2 DEF Working, WorkingAt
  <2>4. \A u \in Threads : WorkingAt(rast_mutex, u)'
    BY <1>6, <2>2, <2>3, SameThreadPhase DEF Working
  <2>5. Signalled' = Signalled
    BY <1>3 DEF Signalled
  <2>6. Working(rast_mutex)'
    BY <1>6, <2>4, <2>5 DEF Working
  <2> QED
    BY <1>1, <1>2, <1>6, <2>6, SameHolder
<1>7. CASE rast_mutex \in Contexts /\ Finishing(rast_mutex)
  BY <1>7 DEF Finishing, FinishingAt
<1> QED
  BY <1>4, <1>5, <1>6, <1>7 DEF RastIInv, Phase

\* A thread between the barriers works on the scene of the holder of rast_mutex.
LEMMA AtWork ==
    ASSUME RastIInv, NEW t \in Threads, tpc[t] \in {"work", "fence"}
    PROVE  /\ rast_mutex \in Contexts /\ Working(rast_mutex) /\ dpc = "no"
           /\ scene[t] = rast_mutex /\ pc[t] = "out" /\ cpc[rast_mutex] = "finish"
  BY DEF RastIInv, Phase, Idle, IdleAt, Queued, QueuedAt, Working, WorkingAt, Finishing, FinishingAt

\* A thread takes the next bin, or there is none left.
LEMMA NextBinRast ==
    ASSUME RastIInv, NEW t \in Threads, NextBin(t)
    PROVE  RastTypeOK' /\ Phase' /\ Fences' /\ Destroying'
<1> USE ThreadFacts DEF vars, sems, rvars, cvars, dvars
<1> DEFINE c == rast_mutex
<1>0. c \in Contexts /\ Working(c) /\ dpc = "no" /\ scene[t] = c /\ pc[t] = "out" /\ cpc[c] = "finish"
  BY AtWork DEF NextBin
<1>1. Fences' /\ Destroying'
  BY DEF NextBin, RastIInv, Fences, Destroying, Complete
<1>2. curr[c] \in Bins \cup {-1} /\ \A u \in Threads : WorkingAt(c, u)
  BY <1>0 DEF RastIInv, RastTypeOK, Working
<1>3. CASE ~discard[c] /\ curr[c] + 1 < NumBins /\ bin' = [bin EXCEPT ![t] = curr[c] + 1]
           /\ curr' = [curr EXCEPT ![c] = @ + 1] /\ UNCHANGED tpc
  <2>1. RastTypeOK'
    <3>1. curr[c] + 1 \in Bins
      BY <1>2, <1>3 DEF Bins
    <3>2. bin' \in [Threads -> Bins \cup {-1}] /\ curr' \in [Contexts -> Bins \cup {-1}]
      BY <1>3, <3>1 DEF RastIInv, RastTypeOK
    <3> QED
      BY <1>3, <3>2 DEF NextBin, RastIInv, RastTypeOK
  <2>2. /\ bin'[t] = curr[c] + 1 /\ curr'[c] = curr[c] + 1
        /\ \A u \in Threads : u # t => bin'[u] = bin[u]
    BY <1>0, <1>3 DEF RastIInv, RastTypeOK
  <2>3. \A u \in Threads : WorkingAt(c, u)'
    BY <1>0, <1>2, <1>3, <2>2 DEF NextBin, WorkingAt, Away, Bins
  <2>4. \A b \in 0 .. curr'[c] : b \in rastered'[c] \/ \E u \in Threads : bin'[u] = b
    <3>1. SUFFICES ASSUME NEW b \in 0 .. curr'[c], b \notin rastered'[c]
                   PROVE  \E u \in Threads : bin'[u] = b
      OBVIOUS
    <3>2. CASE b = curr[c] + 1
      BY <2>2, <3>2
    <3>3. CASE b # curr[c] + 1
      <4>1. b \in 0 .. curr[c] /\ b \notin rastered[c] /\ b # -1
        BY <1>2, <2>2, <3>1, <3>3 DEF NextBin, Bins
      <4>2. PICK u \in Threads : bin[u] = b
        BY <1>0, <4>1 DEF Working
      <4>3. u # t
        BY <4>1, <4>2 DEF NextBin
      <4> QED
        BY <2>2, <4>2, <4>3
    <3> QED
      BY <3>2, <3>3
  <2>5. Signalled' = Signalled
    BY <1>3 DEF Signalled
  <2>6. Working(rast_mutex)'
    BY <1>0, <2>3, <2>4, <2>5 DEF NextBin, Working
  <2> QED
    BY <1>0, <1>1, <2>1, <2>6, SameHolder DEF NextBin
<1>4. CASE (discard[c] \/ curr[c] + 1 >= NumBins) /\ Goto(t, "fence") /\ UNCHANGED <<bin, curr>>
  <2>1. RastTypeOK'
    BY <1>4 DEF NextBin, RastIInv, RastTypeOK, Goto
  <2>2. tpc'[t] = "fence" /\ \A u \in Threads : u # t => SameThread(u)
    BY <1>4 DEF NextBin, RastIInv, RastTypeOK, Goto, SameThread
  <2>3. WorkingAt(c, t)'
    BY <1>0, <1>2, <1>4, <2>2 DEF NextBin, WorkingAt
  <2>4. \A u \in Threads : WorkingAt(c, u)'
    BY <1>0, <1>2, <1>4, <2>2, <2>3, SameThreadPhase DEF NextBin
  <2>5. Signalled' = Signalled
    BY <2>2 DEF NextBin, Signalled, SameThread
  <2>6. Working(rast_mutex)'
    BY <1>0, <1>4, <2>4, <2>5 DEF NextBin, Working
  <2> QED
    BY <1>0, <1>1, <2>1, <2>6, SameHolder DEF NextBin
<1> QED
  BY <1>0, <1>3, <1>4 DEF NextBin

\* A thread has rasterized its bin.
LEMMA RasterizeBinRast ==
    ASSUME RastIInv, NEW t \in Threads, RasterizeBin(t)
    PROVE  RastTypeOK' /\ Phase' /\ Fences' /\ Destroying'
<1> USE ThreadFacts DEF vars, sems, rvars, cvars, dvars
<1> DEFINE c == rast_mutex
<1>0. c \in Contexts /\ Working(c) /\ dpc = "no" /\ scene[t] = c /\ pc[t] = "out" /\ cpc[c] = "finish"
  BY AtWork DEF RasterizeBin
<1>1. RastTypeOK'
  <2>1. bin' \in [Threads -> Bins \cup {-1}] /\ rastered' \in [Contexts -> SUBSET Bins]
    BY <1>0 DEF RasterizeBin, RastIInv, RastTypeOK
  <2> QED
    BY <2>1 DEF RasterizeBin, RastIInv, RastTypeOK
<1>2. /\ bin'[t] = -1 /\ rastered'[c] = rastered[c] \cup {bin[t]}
      /\ \A u \in Threads : u # t => bin'[u] = bin[u] /\ SameThread(u)
      /\ \A d \in Contexts : d # c => rastered'[d] = rastered[d]
  BY <1>0 DEF RasterizeBin, RastIInv, RastTypeOK, SameThread
<1>3. Fences' /\ Destroying'
  BY <1>0, <1>2 DEF RasterizeBin, RastIInv, Fences, Destroying, Complete
<1>4. WorkingAt(c, t)'
  BY <1>0, <1>2 DEF RasterizeBin, Working, WorkingAt, Away
<1>5. \A u \in Threads : WorkingAt(c, u)'
  BY <1>0, <1>2, <1>4, SameThreadPhase DEF RasterizeBin, Working
<1>6. \A b \in 0 .. curr'[c] : b \in rastered'[c] \/ \E u \in Threads : bin'[u] = b
  <2>1. SUFFICES ASSUME NEW b \in 0 .. curr[c], b \notin rastered'[c]
                 PROVE  \E u \in Threads : bin'[u] = b
    BY DEF RasterizeBin
  <2>2. PICK u \in Threads : bin[u] = b
    BY <1>0, <1>2, <2>1 DEF Working
  <2>3. u # t
    BY <1>2, <2>1, <2>2
  <2> QED
    BY <1>2, <2>2, <2>3
<1>7. Signalled' = Signalled
  BY DEF RasterizeBin, Signalled
<1>8. Working(rast_mutex)'
  BY <1>0, <1>5, <1>6, <1>7 DEF RasterizeBin, Working
<1> QED
  BY <1>0, <1>1, <1>3, <1>8, SameHolder DEF RasterizeBin

\* A thread counts itself in the fence of the scene.
LEMMA FenceSignalRast ==
    ASSUME RastIInv, NEW t \in Threads, FenceSignal(t)
    PROVE  RastTypeOK' /\ Phase' /\ Fences' /\ Destroying'
<1> USE ThreadFacts DEF vars, sems, rvars, cvars, dvars
<1> DEFINE c == rast_mutex
<1>0. c \in Contexts /\ Working(c) /\ dpc = "no" /\ scene[t] = c /\ pc[t] = "out" /\ cpc[c] = "finish"
  BY AtWork DEF FenceSignal
<1>1. fence[c] /\ last_fence[c] = Cardinality(Signalled) /\ Cardinality(Signalled) \in Nat
      /\ IsFiniteSet(Signalled) /\ t \notin Signalled
  BY <1>0, CountFacts DEF Working, Signalled, FenceSignal
<1>2. last_fence' = [last_fence EXCEPT ![c] = last_fence[c] + 1]
  BY <1>0, <1>1 DEF FenceSignal
<1>3. RastTypeOK'
  <2>1. last_fence' \in [Contexts -> Nat \cup {NULL}]
    <3>1. last_fence[c] + 1 \in Nat \cup {NULL}
      BY <1>1
    <3> QED
      BY <1>2, <3>1 DEF RastIInv, RastTypeOK
  <2>2. tpc' \in [Threads -> {"wait", "begin", "barrier1", "work", "fence", "barrier2",
                              "end", "done", "exited"}]
    BY DEF FenceSignal, RastIInv, RastTypeOK, Goto
  <2>3. scene' \in [Threads -> Contexts \cup {NULL}]
    BY DEF FenceSignal, RastIInv, RastTypeOK
  <2> QED
    BY <2>1, <2>2, <2>3 DEF FenceSignal, RastIInv, RastTypeOK
<1>4. /\ tpc'[t] = "barrier2" /\ scene'[t] = NULL
      /\ \A u \in Threads : u # t => SameThread(u)
      /\ last_fence'[c] = last_fence[c] + 1
      /\ \A d \in Contexts : d # c => last_fence'[d] = last_fence[d]
  BY <1>0, <1>2 DEF FenceSignal, RastIInv, RastTypeOK, SameThread, Goto
<1>5. Fences' /\ Destroying'
  BY <1>0, <1>4 DEF FenceSignal, RastIInv, Fences, Destroying, Complete
<1>6. WorkingAt(c, t)'
  <2>1. passed[t] = sequence
    BY <1>0 DEF RastIInv, IInv
  <2>2. bin[t] = -1
    BY <1>0 DEF Working, WorkingAt, FenceSignal
  <2> QED
    BY <1>0, <1>4, <2>1, <2>2 DEF FenceSignal, Working, WorkingAt, Away
<1>7. \A u \in Threads : WorkingAt(c, u)'
  BY <1>0, <1>4, <1>6, SameThreadPhase DEF FenceSignal, Working
<1>8. last_fence'[c] = Cardinality(Signalled')
  <2>1. Signalled' = Signalled \cup {t}
    BY <1>4 DEF Signalled, SameThread
  <2> QED
    <3>1. Cardinality(Signalled \cup {t}) = Cardinality(Signalled) + 1
      BY <1>1, FS_AddElement
    <3> QED
      BY <1>1, <1>4, <2>1, <3>1
<1>9. Working(rast_mutex)'
  BY <1>0, <1>7, <1>8 DEF FenceSignal, Working
<1> QED
  BY <1>0, <1>3, <1>5, <1>9, SameHolder DEF FenceSignal

\* A thread leaves the second barrier: when the last one arrives, all have counted
\* themselves in the fence and all bins are done.
LEMMA PassSecondRast ==
    ASSUME RastIInv, NEW t \in Threads, PassSecond(t)
    PROVE  RastTypeOK' /\ Phase' /\ Fences' /\ Destroying'
<1> USE ThreadFacts DEF PassSecond, sems, rvars, cvars, svars, dvars
<1>1. RastTypeOK'
  <2>1. tpc' \in [Threads -> {"wait", "begin", "barrier1", "work", "fence", "barrier2",
                              "end", "done", "exited"}]
    BY DEF RastIInv, RastTypeOK, Goto
  <2> QED
    BY <2>1 DEF RastIInv, RastTypeOK
<1>2. Fences' /\ Destroying'
  BY DEF RastIInv, Fences, Destroying, Complete
<1>3. /\ tpc'[t] = IF t = 0 THEN "end" ELSE "done"
      /\ \A u \in Threads : u # t => tpc'[u] = tpc[u]
  BY DEF RastIInv, RastTypeOK, Goto
<1>4. CASE rast_mutex = NULL /\ Idle
  BY <1>4 DEF Idle, IdleAt
<1>5. CASE rast_mutex \in Contexts /\ Queued(rast_mutex)
  BY <1>5 DEF Queued, QueuedAt
<1>6. CASE rast_mutex \in Contexts /\ Working(rast_mutex)
  <2>1. ArriveLast(t)
    BY <1>6 DEF Leave, Working, WorkingAt, RastIInv, IInv
  <2>2. /\ \A u \in Threads : u # t => pc[u] # "out" /\ passed[u] = sequence
        /\ \A u \in Threads : pc[u] # "out" => pc'[u] # "out"
        /\ \A u \in Threads : u # t => passed'[u] = passed[u]
        /\ pc'[t] = "out" /\ sequence' = sequence + 1 /\ sequence \in Nat
    BY <2>1, LastArrives DEF ArriveLast, RastIInv, IInv, TypeOK
  <2>3. \A u \in Threads : tpc[u] = "barrier2" /\ Away(u)
    BY <1>6, <2>2 DEF Working, WorkingAt
  <2>4. last_fence[rast_mutex] = count
    <3>1. Signalled = Threads
      BY <2>3 DEF Signalled
    <3> QED
      BY <1>6, <3>1 DEF Working, count
  <2>5. Complete(rast_mutex)
    <3>1. SUFFICES ASSUME ~discard[rast_mutex] PROVE rastered[rast_mutex] = Bins
      BY DEF Complete
    <3>2. curr[rast_mutex] + 1 >= NumBins
      BY <1>6, <2>3, <3>1 DEF Working, WorkingAt
    <3>3. \A b \in Bins : b \in 0 .. curr[rast_mutex]
      <4>1. curr[rast_mutex] \in Int
        BY <1>6 DEF RastIInv, RastTypeOK, Bins
      <4> HIDE DEF PassSecond
      <4> QED
        BY <3>2, <4>1 DEF Bins
    <3>4. \A b \in Bins : b \in rastered[rast_mutex]
      BY <1>6, <2>3, <3>3 DEF Working, Away, Bins
    <3>5. rastered[rast_mutex] \in SUBSET Bins
      BY <1>6 DEF RastIInv, RastTypeOK
    <3> QED
      BY <3>4, <3>5
  <2>6. \A u \in Threads : Away(u)' /\ work_ready'[u] = 0 /\ work_done'[u] = 0
    BY <1>6, <2>3 DEF Working, WorkingAt, Away
  <2>7. ~(cpc'[rast_mutex] = "unlock") /\ \A u \in Threads : ~(u < ci'[rast_mutex])
    BY <1>6, LpRastAssumption DEF Working
  <2>8. \A u \in Threads : FinishingAt(rast_mutex, u)'
    <3>1. FinishingAt(rast_mutex, t)'
      BY <1>3, <1>6, <2>2, <2>6, <2>7 DEF FinishingAt
    <3>2. ASSUME NEW u \in Threads, u # t PROVE FinishingAt(rast_mutex, u)'
      BY <1>3, <1>6, <2>2, <2>3, <2>6, <2>7, <3>2 DEF FinishingAt
    <3> QED
      BY <3>1, <3>2
  <2>9. tpc'[0] \in {"barrier2", "end"}
    BY <1>3, <2>3
  <2>10. Finishing(rast_mutex)'
    BY <1>6, <2>4, <2>5, <2>8, <2>9 DEF Working, Finishing, Complete
  <2> QED
    BY <1>1, <1>2, <1>6, <2>10, SameHolder
<1>7. CASE rast_mutex \in Contexts /\ Finishing(rast_mutex)
  <2>1. Leave(t)
    BY <1>7 DEF ArriveLast, Finishing, FinishingAt
  <2>2. /\ \A u \in Threads : u # t => SameThread(u)
        /\ pc'[t] = "out" /\ sequence' = sequence
    BY <1>3, <2>1 DEF Leave, RastIInv, RastTypeOK, IInv, TypeOK, SameThread
  <2>3. FinishingAt(rast_mutex, t)'
    BY <1>3, <1>7, <2>2 DEF Finishing, FinishingAt, Away
  <2>4. \A u \in Threads : FinishingAt(rast_mutex, u)'
    BY <1>7, <2>2, <2>3, SameThreadPhase DEF Finishing
  <2>5. tpc'[0] \in {"barrier2", "end"} <=> tpc[0] \in {"barrier2", "end"}
    BY <1>3
  <2>6. Finishing(rast_mutex)'
    BY <1>7, <2>4, <2>5 DEF Finishing, Complete
  <2> QED
    BY <1>1, <1>2, <1>7, <2>6, SameHolder
<1> QED
  BY <1>4, <1>5, <1>6, <1>7 DEF RastIInv, Phase

\* Thread 0 lets go of the scene.
LEMMA EndRast ==
    ASSUME RastIInv, End
    PROVE  RastTypeOK' /\ Phase' /\ Fences' /\ Destroying'
<1> USE ThreadFacts DEF vars, sems, cvars, dvars
<1>1. rast_mutex \in Contexts /\ Finishing(rast_mutex)
  BY DEF End, RastIInv, Phase, Idle, IdleAt, Queued, QueuedAt, Working, WorkingAt
<1>2. curr_scene = rast_mutex /\ cpc[rast_mutex] \in {"finish", "unlock"}
  BY <1>1 DEF Finishing, End
<1>3. RastTypeOK'
  <2>1. tpc' \in [Threads -> {"wait", "begin", "barrier1", "work", "fence", "barrier2",
                              "end", "done", "exited"}]
    BY DEF End, RastIInv, RastTypeOK, Goto
  <2>2. fence' \in [Contexts -> BOOLEAN]
    BY DEF End, RastIInv, RastTypeOK
  <2> QED
    BY <2>1, <2>2 DEF End, RastIInv, RastTypeOK
<1>4. /\ tpc'[0] = "done" /\ \A u \in Threads : u # 0 => SameThread(u)
      /\ \A d \in Contexts : d # rast_mutex => fence'[d] = fence[d]
  BY <1>1, <1>2 DEF End, RastIInv, RastTypeOK, SameThread, Goto
<1>5. Fences' /\ Destroying'
  BY <1>1, <1>2, <1>4 DEF End, RastIInv, Fences, Destroying, Complete
<1>6. FinishingAt(rast_mutex, 0)'
  BY <1>1, <1>4 DEF End, Finishing, FinishingAt, Away
<1>7. \A u \in Threads : FinishingAt(rast_mutex, u)'
  BY <1>1, <1>4, <1>6, SameThreadPhase DEF End, Finishing
<1>8. Finishing(rast_mutex)'
  BY <1>1, <1>4, <1>7 DEF End, Finishing, Complete
<1> QED
  BY <1>1, <1>3, <1>5, <1>8, SameHolder DEF End

\* A thread reports that it is done.
LEMMA WorkDoneRast ==
    ASSUME RastIInv, NEW t \in Threads, WorkDone(t)
    PROVE  RastTypeOK' /\ Phase' /\ Fences' /\ Destroying'
<1> USE ThreadFacts DEF vars, rvars, cvars, svars, dvars
<1>1. rast_mutex \in Contexts /\ Finishing(rast_mutex)
  BY DEF WorkDone, RastIInv, Phase, Idle, IdleAt, Queued, QueuedAt, Working, WorkingAt
<1>2. RastTypeOK'
  <2>1. tpc' \in [Threads -> {"wait", "begin", "barrier1", "work", "fence", "barrier2",
                              "end", "done", "exited"}]
    BY DEF WorkDone, RastIInv, RastTypeOK, Goto
  <2>2. work_done' \in [Threads -> Int]
    BY DEF WorkDone, RastIInv, RastTypeOK, SemSignal
  <2> QED
    BY <2>1, <2>2 DEF WorkDone, RastIInv, RastTypeOK
<1>3. Fences' /\ Destroying'
  BY DEF WorkDone, RastIInv, Fences, Destroying, Complete
<1>4. /\ tpc'[t] = "wait" /\ work_done'[t] = work_done[t] + 1
      /\ \A u \in Threads : u # t => SameThread(u)
  BY DEF WorkDone, RastIInv, RastTypeOK, SameThread, Goto, SemSignal
<1>5. FinishingAt(rast_mutex, t)'
  BY <1>1, <1>4 DEF WorkDone, Finishing, FinishingAt, Away
<1>6. \A u \in Threads : FinishingAt(rast_mutex, u)'
  BY <1>1, <1>4, <1>5, SameThreadPhase DEF WorkDone, Finishing
<1>7. tpc'[0] \in {"barrier2", "end"} <=> tpc[0] \in {"barrier2", "end"}
  BY <1>4 DEF WorkDone, SameThread
<1>8. Finishing(rast_mutex)'
  BY <1>1, <1>6, <1>7 DEF WorkDone, Finishing, Complete
<1> QED
  BY <1>1, <1>2, <1>3, <1>8, SameHolder DEF WorkDone

\* A context flushes: its scene is not in the rasterizer.
LEMMA FlushRast ==
    ASSUME RastIInv, NEW c \in Contexts, Flush(c)
    PROVE  RastTypeOK' /\ Phase' /\ Fences' /\ Destroying'
<1> USE ThreadFacts DEF vars, tvars, sems, rvars, dvars
<1>0. c # rast_mutex
  BY DEF Flush, RastIInv, Phase, Queued, Working, Finishing
<1>1. RastTypeOK'
  <2>1. PICK d \in BOOLEAN : discard' = [discard EXCEPT ![c] = d]
    BY DEF Flush
  <2>2. discard' \in [Contexts -> BOOLEAN] /\ fence' \in [Contexts -> BOOLEAN]
    BY <2>1 DEF Flush, RastIInv, RastTypeOK
  <2>3. flushed' \in [Contexts -> Nat] /\ last_fence' \in [Contexts -> Nat \cup {NULL}]
    BY DEF Flush, RastIInv, RastTypeOK
  <2>4. /\ rastered' \in [Contexts -> SUBSET Bins]
        /\ cpc' \in [Contexts -> {"binning", "lock", "signal", "finish", "unlock"}]
    BY DEF Flush, RastIInv, RastTypeOK
  <2> QED
    BY <2>2, <2>3, <2>4 DEF Flush, RastIInv, RastTypeOK
<1>2. /\ cpc'[c] = "lock" /\ fence'[c] /\ last_fence'[c] = 0 /\ rastered'[c] = {}
      /\ \A d \in Contexts : d # c => SameScene(d)
  BY DEF Flush, RastIInv, RastTypeOK, SameScene
<1>3. Fences'
  BY <1>2 DEF RastIInv, Fences, Complete, SameScene
<1>4. Destroying'
  BY DEF Flush, RastIInv, Destroying
<1>5. \A t \in Threads : SameThread(t)
  BY DEF Flush, SameThread
<1>6. Phase'
  BY <1>0, <1>1, <1>2, <1>5, SamePhase DEF Flush, SameScene
<1> QED
  BY <1>1, <1>3, <1>4, <1>6

\* A context takes rast_mutex and queues its scene.
LEMMA QueueSceneRast ==
    ASSUME RastIInv, NEW c \in Contexts, QueueScene(c)
    PROVE  RastTypeOK' /\ Phase' /\ Fences' /\ Destroying'
<1> USE ThreadFacts DEF vars, tvars, sems, svars, dvars
<1>0. Idle /\ dpc = "no" /\ fence[c] /\ last_fence[c] = 0 /\ rastered[c] = {}
  BY DEF QueueScene, RastIInv, Phase, Destroying, Fences
<1>1. full_scenes' = <<c>>
  BY <1>0 DEF Idle, QueueScene
<1>2. RastTypeOK'
  <2>1. full_scenes' \in Seq(Contexts)
    BY <1>1
  <2>2. /\ cpc' \in [Contexts -> {"binning", "lock", "signal", "finish", "unlock"}]
        /\ ci' \in [Contexts -> Threads]
    BY DEF QueueScene, RastIInv, RastTypeOK
  <2> QED
    BY <2>1, <2>2 DEF QueueScene, RastIInv, RastTypeOK
<1>3. /\ rast_mutex' = c /\ cpc'[c] = "signal" /\ ci'[c] = 0
      /\ \A d \in Contexts : d # c => cpc'[d] = cpc[d]
  BY DEF QueueScene, RastIInv, RastTypeOK
<1>4. Fences' /\ Destroying'
  BY <1>0, <1>3 DEF QueueScene, RastIInv, Fences, Destroying, Complete
<1>5. ASSUME NEW t \in Threads PROVE QueuedAt(c, t)' /\ tpc'[t] = "wait"
  <2>1. t >= 0
    BY LpRastAssumption
  <2>2. /\ Away(t) /\ pc[t] = "out" /\ work_done[t] = 0 /\ tpc[t] = "wait" /\ work_ready[t] = 0
        /\ passed[t] = sequence
    BY <1>0 DEF Idle, IdleAt, RastIInv, IInv
  <2> QED
    BY <1>3, <2>1, <2>2 DEF QueueScene, QueuedAt, Away
<1>6. Queued(rast_mutex)'
  BY <1>0, <1>1, <1>3, <1>5 DEF QueueScene, Idle, Queued
<1>7. Phase'
  BY <1>0, <1>3, <1>6 DEF QueueScene, Idle, Phase
<1> QED
  BY <1>2, <1>4, <1>7

\* The context signals the next thread.
LEMMA SignalWorkRast ==
    ASSUME RastIInv, NEW c \in Contexts, SignalWork(c)
    PROVE  RastTypeOK' /\ Phase' /\ Fences' /\ Destroying'
<1> USE ThreadFacts DEF vars, tvars, rvars, svars, dvars
<1> DEFINE i == ci[c]
<1>0. c = rast_mutex /\ Queued(c) /\ i \in Threads /\ i \in 0 .. count - 1
  BY LpRastAssumption DEF SignalWork, RastIInv, RastTypeOK, Phase, Idle, Working, Finishing
<1>1. IF i + 1 = count THEN ci'[c] = 0 /\ cpc'[c] = "finish"
      ELSE ci'[c] = i + 1 /\ cpc'[c] = "signal"
  <2>1. (i + 1) % count = IF i + 1 = count THEN 0 ELSE i + 1
    BY <1>0
  <2>2. ci'[c] = (i + 1) % count
    BY DEF SignalWork, RastIInv, RastTypeOK
  <2>3. cpc'[c] = IF i + 1 = count THEN "finish" ELSE cpc[c]
    BY DEF SignalWork, RastIInv, RastTypeOK
  <2> QED
    BY <2>1, <2>2, <2>3 DEF SignalWork
<1>2. RastTypeOK'
  <2>1. work_ready' \in [Threads -> Int]
    BY <1>0, SMTT(30) DEF SignalWork, SemSignal, RastIInv, RastTypeOK
  <2>2. ci' \in [Contexts -> Threads]
    <3>1. (i + 1) % count \in Threads
      BY <1>0, LpRastAssumption
    <3> QED
      BY <3>1 DEF SignalWork, RastIInv, RastTypeOK
  <2>3. cpc' \in [Contexts -> {"binning", "lock", "signal", "finish", "unlock"}]
    BY DEF SignalWork, RastIInv, RastTypeOK
  <2> QED
    BY <2>1, <2>2, <2>3 DEF SignalWork, RastIInv, RastTypeOK
<1>3. \A d \in Contexts : d # c => cpc'[d] = cpc[d]
  BY DEF SignalWork, RastIInv, RastTypeOK
<1>4. Fences' /\ Destroying'
  BY <1>0, <1>1, <1>3 DEF SignalWork, RastIInv, Phase, Fences, Destroying, Complete
<1>5. /\ work_ready'[i] = work_ready[i] + 1
      /\ \A t \in Threads : t # i => work_ready'[t] = work_ready[t]
  BY <1>0 DEF SignalWork, SemSignal, RastIInv, RastTypeOK
<1>6. ASSUME NEW t \in Threads PROVE QueuedAt(c, t)'
  <2>0. t \in Int /\ t < count /\ QueuedAt(c, t)
    BY <1>0, LpRastAssumption DEF Queued
  <2>1. CASE t = i
    <3>1. tpc[t] = "wait" /\ work_ready'[t] = 1
      BY <1>0, <1>5, <2>0, <2>1 DEF SignalWork, QueuedAt
    <3>2. ~(cpc'[c] = "signal" /\ t >= ci'[c])
      BY <1>0, <1>1, <2>1
    <3> QED
      BY <2>0, <3>1, <3>2 DEF SignalWork, QueuedAt, Away
  <2>2. CASE t # i
    <3>1. (cpc'[c] = "signal" /\ t >= ci'[c]) <=> t >= i
      BY <1>0, <1>1, <2>0, <2>2
    <3> QED
      BY <1>5, <2>0, <2>2, <3>1 DEF SignalWork, QueuedAt, Away
  <2> QED
    BY <2>1, <2>2
<1>7. Queued(rast_mutex)'
  BY <1>0, <1>1, <1>6 DEF SignalWork, Queued
<1> QED
  BY <1>0, <1>2, <1>3, <1>4, <1>7, SameHolder DEF SignalWork

\* The context has waited for the next thread.
LEMMA FinishRast ==
    ASSUME RastIInv, NEW c \in Contexts, Finish(c)
    PROVE  RastTypeOK' /\ Phase' /\ Fences' /\ Destroying'
<1> USE ThreadFacts DEF vars, tvars, rvars, svars, dvars
<1> DEFINE i == ci[c]
<1>a. i \in Threads /\ i \in 0 .. count - 1
  BY LpRastAssumption DEF RastIInv, RastTypeOK
<1>0. c = rast_mutex /\ Finishing(c)
  BY <1>a DEF Finish, RastIInv, Phase, Idle, Queued, QueuedAt, Working, WorkingAt
<1>1. IF i + 1 = count THEN ci'[c] = 0 /\ cpc'[c] = "unlock"
      ELSE ci'[c] = i + 1 /\ cpc'[c] = "finish"
  <2>1. (i + 1) % count = IF i + 1 = count THEN 0 ELSE i + 1
    BY <1>a
  <2>2. ci'[c] = (i + 1) % count
    BY DEF Finish, RastIInv, RastTypeOK
  <2>3. cpc'[c] = IF i + 1 = count THEN "unlock" ELSE cpc[c]
    BY DEF Finish, RastIInv, RastTypeOK
  <2> QED
    BY <2>1, <2>2, <2>3 DEF Finish
<1>2. RastTypeOK'
  <2>1. work_done' \in [Threads -> Int]
    <3>1. work_done' = [work_done EXCEPT ![i] = work_done[i] - 1]
      BY DEF Finish, SemWait
    <3> QED
      BY <1>a, <3>1, SMTT(30) DEF RastIInv, RastTypeOK
  <2>2. ci' \in [Contexts -> Threads]
    <3>1. (i + 1) % count \in Threads
      BY <1>a, LpRastAssumption
    <3> QED
      BY <3>1 DEF Finish, RastIInv, RastTypeOK
  <2>3. cpc' \in [Contexts -> {"binning", "lock", "signal", "finish", "unlock"}]
    BY DEF Finish, RastIInv, RastTypeOK
  <2> QED
    BY <2>1, <2>2, <2>3 DEF Finish, RastIInv, RastTypeOK
<1>3. \A d \in Contexts : d # c => cpc'[d] = cpc[d]
  BY DEF Finish, RastIInv, RastTypeOK
<1>4. Fences' /\ Destroying'
  BY <1>0, <1>1, <1>3 DEF Finish, RastIInv, Phase, Fences, Destroying, Complete
<1>5. /\ work_done'[i] = work_done[i] - 1
      /\ \A t \in Threads : t # i => work_done'[t] = work_done[t]
  BY <1>a DEF Finish, SemWait, RastIInv, RastTypeOK
<1>6. ASSUME NEW t \in Threads PROVE FinishingAt(c, t)'
  <2>0. t \in Int /\ t < count /\ FinishingAt(c, t)
    BY <1>0, LpRastAssumption DEF Finishing
  <2>1. CASE t = i
    <3>1. tpc[t] = "wait" /\ work_done'[t] = 0
      BY <1>a, <1>5, <2>0, <2>1 DEF Finish, FinishingAt
    <3>2. cpc'[c] = "unlock" \/ t < ci'[c]
      BY <1>a, <1>1, <2>1
    <3> QED
      BY <2>0, <3>1, <3>2 DEF Finish, FinishingAt, Away
  <2>2. CASE t # i
    <3>1. (cpc'[c] = "unlock" \/ t < ci'[c]) <=> t < i
      BY <1>a, <1>1, <2>0, <2>2
    <3> QED
      BY <1>5, <2>0, <2>2, <3>1 DEF Finish, FinishingAt, Away
  <2> QED
    BY <2>1, <2>2
<1>7. Finishing(rast_mutex)'
  BY <1>0, <1>1, <1>6 DEF Finish, Finishing, Complete
<1> QED
  BY <1>0, <1>2, <1>3, <1>4, <1>7, SameHolder DEF Finish

\* The context gives the rasterizer back: all threads wait again.
LEMMA UnlockRast ==
    ASSUME RastIInv, NEW c \in Contexts, Unlock(c)
    PROVE  RastTypeOK' /\ Phase' /\ Fences' /\ Destroying'
<1> USE ThreadFacts DEF vars, tvars, sems, dvars
<1>0. c = rast_mutex /\ Finishing(c) /\ dpc = "no"
  BY DEF Unlock, RastIInv, Phase, Idle, Queued, Working
<1>1. RastTypeOK'
  <2>1. fence' \in [Contexts -> BOOLEAN]
    BY DEF Unlock, RastIInv, RastTypeOK
  <2>2. cpc' \in [Contexts -> {"binning", "lock", "signal", "finish", "unlock"}]
    BY DEF Unlock, RastIInv, RastTypeOK
  <2> QED
    BY <2>1, <2>2 DEF Unlock, RastIInv, RastTypeOK
<1>2. /\ cpc'[c] = "binning"
      /\ \A d \in Contexts : d # c => cpc'[d] = cpc[d] /\ fence'[d] = fence[d]
  BY DEF Unlock, RastIInv, RastTypeOK
<1>3. Fences' /\ Destroying'
  BY <1>0, <1>2 DEF Unlock, RastIInv, Finishing, Fences, Destroying, Complete
<1>4. \A t \in Threads : IdleAt(t)' /\ tpc[t] = "wait"
  BY <1>0 DEF Unlock, Finishing, FinishingAt, IdleAt, Away
<1>5. rast_mutex' = NULL /\ full_scenes' = <<>> /\ curr_scene' = NULL
  BY <1>0, <1>4 DEF Unlock, Finishing
<1>6. \A d \in Contexts : cpc'[d] \in {"binning", "lock"}
  BY <1>0, <1>2 DEF RastIInv, Phase
<1>7. Phase'
  BY <1>4, <1>5, <1>6 DEF Phase, Idle
<1> QED
  BY <1>1, <1>3, <1>7

\* lp_rast_destroy starts when no context has the rasterizer, and then none comes.
LEMMA DestroyRast ==
    ASSUME RastIInv, DestroyStart \/ DestroyStep
    PROVE  RastTypeOK' /\ Phase' /\ Fences' /\ Destroying'
<1> USE ThreadFacts DEF vars, tvars, rvars, cvars, svars
<1>0. /\ \A c \in Contexts : cpc[c] = "binning"
      /\ rast_mutex = NULL /\ Idle /\ dpc' # "no" /\ di \in Threads
      /\ UNCHANGED <<tpc, scene, bin, work_done, vars, cvars, svars, full_scenes, curr_scene, rast_mutex>>
  BY DEF DestroyStart, DestroyStep, DestroySignal, DestroyJoin, RastIInv, RastTypeOK, Destroying, Phase,
         Queued, Working, Finishing, sems
<1>1. RastTypeOK'
  <2>1. (di + 1) % count \in Threads
    BY <1>0, LpRastAssumption
  <2>2. work_ready' \in [Threads -> Int]
    BY <1>0 DEF DestroyStart, DestroyStep, DestroySignal, DestroyJoin, SemSignal, sems, RastIInv, RastTypeOK
  <2>3. di' \in Threads /\ exit_flag' \in BOOLEAN /\ dpc' \in {"no", "signal", "join", "gone"}
    BY <1>0, <2>1 DEF DestroyStart, DestroyStep, DestroySignal, DestroyJoin, RastIInv, RastTypeOK
  <2> QED
    BY <1>0, <2>2, <2>3 DEF RastIInv, RastTypeOK
<1>2. Fences'
  BY <1>0 DEF RastIInv, Fences, Complete
<1>3. Destroying'
  BY <1>0 DEF DestroyStart, DestroyStep, DestroySignal, DestroyJoin, RastIInv, Destroying
<1>4. Phase'
  BY <1>0 DEF Phase, Idle, IdleAt, Away
<1> QED
  BY <1>1, <1>2, <1>3, <1>4

\* Every step of the rasterizer preserves the invariant.
LEMMA NextRastIInv == RastIInv /\ [RastNext]_rastvars => RastIInv'
<1> SUFFICES ASSUME RastIInv, [RastNext]_rastvars PROVE RastIInv'
  OBVIOUS
<1>1. IInv'
  BY RastSteps, NextIInv DEF RastIInv
<1>2. ASSUME NEW t \in Threads, ThreadStep(t)
      PROVE  RastTypeOK' /\ Phase' /\ Fences' /\ Destroying'
  BY <1>2, WaitForWorkRast, AtBarrierRast, PassFirstRast, NextBinRast, RasterizeBinRast,
     FenceSignalRast, PassSecondRast, WorkDoneRast, BeginRast, EndRast DEF ThreadStep
<1>3. ASSUME NEW c \in Contexts, Flush(c) \/ ContextStep(c)
      PROVE  RastTypeOK' /\ Phase' /\ Fences' /\ Destroying'
  BY <1>3, FlushRast, QueueSceneRast, SignalWorkRast, FinishRast, UnlockRast DEF ContextStep
<1>4. CASE UNCHANGED rastvars
  <2> USE <1>4 DEF rastvars, vars, tvars, sems, rvars, cvars, svars, dvars
  <2>1. RastTypeOK' /\ Fences' /\ Destroying'
    BY DEF RastIInv, RastTypeOK, Fences, Complete, Destroying
  <2>2. Phase'
    BY <2>1, SamePhase DEF SameThread, SameScene
  <2> QED
    BY <1>1, <2>1, <2>2 DEF RastIInv
<1> QED
  BY <1>1, <1>2, <1>3, <1>4, SpuriousWakeupRast, DestroyRast DEF RastNext, RastIInv

LEMMA RastSpecIInv == RastSpec => []RastIInv
  BY InitRastIInv, NextRastIInv, PTL DEF RastSpec

\* However many threads rasterize and however many contexts flush, all threads
\* between the barriers work on the one current scene, which its context waits for.
THEOREM RastOneScene == RastSpec => []OneScene
<1>1. RastIInv => OneScene
  BY AtWork, ThreadFacts DEF OneScene, Working
<1> QED
  BY <1>1, RastSpecIInv, PTL

\* The fence of a scene never counts past its rank, and a fence that is finished
\* means that every bin has been rasterized.
THEOREM RastFenceMeansRastered == RastSpec => []FenceMeansRastered
<1>1. ASSUME RastIInv, NEW c \in Contexts, last_fence[c] # NULL
      PROVE  /\ last_fence[c] <= count
             /\ last_fence[c] = count => Complete(c)
  <2> USE ThreadFacts
  <2>1. CASE cpc[c] \in {"binning", "lock"}
    BY <1>1, <2>1 DEF RastIInv, Fences
  <2>2. CASE cpc[c] \notin {"binning", "lock"}
    <3>1. c = rast_mutex /\ (Queued(c) \/ Working(c) \/ Finishing(c))
      BY <1>1, <2>2 DEF RastIInv, Phase, Idle
    <3>2. CASE Queued(c)
      BY <3>2 DEF Queued
    <3>3. CASE Finishing(c)
      BY <3>3 DEF Finishing
    <3>4. CASE Working(c)
      <4>1. Signalled \in SUBSET Threads /\ last_fence[c] = Cardinality(Signalled)
        BY <3>4 DEF Working, Signalled
      <4>2. last_fence[c] <= count
        BY <4>1, UtilBarrierAssumption, FS_Subset DEF count
      <4>3. ASSUME last_fence[c] = count PROVE Complete(c)
        <5>1. Signalled = Threads
          BY <4>1, <4>3, CountFacts
        <5>2. \A t \in Threads : bin[t] = -1 /\ (discard[c] \/ curr[c] + 1 >= NumBins)
          BY <3>4, <5>1 DEF Signalled, Working, WorkingAt, Away
        <5>3. CASE discard[c]
          BY <5>3 DEF Complete
        <5>4. CASE curr[c] + 1 >= NumBins
          <6>1. curr[c] \in Int /\ rastered[c] \in SUBSET Bins
            BY <1>1, SMTT(30) DEF RastIInv, RastTypeOK, Bins
          <6>2. \A b \in Bins : b \in 0 .. curr[c] /\ b # -1
            BY <5>4, <6>1 DEF Bins
          <6>3. \A b \in Bins : b \in rastered[c]
            BY <3>4, <5>2, <6>2 DEF Working
          <6> QED
            BY <6>1, <6>3 DEF Complete
        <5> QED
          BY <5>2, <5>3, <5>4
      <4> QED
        BY <4>2, <4>3
    <3> QED
      BY <3>1, <3>2, <3>3, <3>4
  <2> QED
    BY <2>1, <2>2
<1>2. RastIInv => FenceMeansRastered
  BY <1>1 DEF FenceMeansRastered, Complete
<1> QED
  BY <1>2, RastSpecIInv, PTL

\* When a flush has returned its fence is finished, and no thread still has the
\* scene, whatever scenes of other contexts the threads are at work on.
THEOREM RastFlushedIsFinished == RastSpec => []FlushedIsFinished
<1>1. ASSUME RastIInv, NEW c \in Contexts, cpc[c] = "binning", last_fence[c] # NULL
      PROVE  last_fence[c] = count /\ curr_scene # c /\ \A t \in Threads : scene[t] # c
  <2> USE ThreadFacts
  <2>1. last_fence[c] = count
    BY <1>1 DEF RastIInv, Fences
  <2>2. c # rast_mutex
    BY <1>1 DEF RastIInv, Phase, Queued, Working, Finishing
  <2>3. curr_scene \in {NULL, rast_mutex}
    BY <1>1 DEF RastIInv, Phase, Idle, Queued, Working, Finishing
  <2>4. \A t \in Threads : scene[t] \in {NULL, rast_mutex}
    BY <1>1 DEF RastIInv, Phase, Idle, IdleAt, Queued, QueuedAt, Working, WorkingAt,
                Finishing, FinishingAt, Away
  <2> QED
    BY <2>1, <2>2, <2>3, <2>4
<1>2. RastIInv => FlushedIsFinished
  BY <1>1 DEF FlushedIsFinished
<1> QED
  BY <1>2, RastSpecIInv, PTL

=============================================================================
