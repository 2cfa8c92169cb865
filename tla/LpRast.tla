-------------------------------- MODULE LpRast --------------------------------
(***************************************************************************)
(* The rasterizer threads of llvmpipe (src/gallium/drivers/llvmpipe):      *)
(* contexts hand their scene to lp_rast_queue_scene, one at a time, and    *)
(* the threads of lp_rast.c rasterize its bins together, meeting twice per *)
(* scene at the barrier of UtilBarrier.  A context has one scene           *)
(* (MAX_SCENES), named after it.  Semaphores and the ring of               *)
(* lp_scene_queue are their values: every access is under their own mutex. *)
(***************************************************************************)
EXTENDS UtilBarrier, Sequences

CONSTANTS Contexts,   \* the setup contexts that share the rasterizer
          NumBins,    \* bins of a scene
          MaxScenes,  \* bound: how often each context flushes
          NULL

ASSUME LpRastAssumption ==
    /\ Threads = 0 .. count - 1  \* a thread is named by its thread_index
    /\ NULL \notin Contexts
    /\ NumBins \in Nat /\ MaxScenes \in Nat
    /\ MaxRounds = 2 * MaxScenes * Cardinality(Contexts)

VARIABLES
    tpc,                     \* where each thread is in thread_function
    scene,                   \* task->scene
    bin,                     \* the bin each thread rasterizes, or -1
    work_ready, work_done,   \* the semaphores of each task
    full_scenes, curr_scene, exit_flag,  \* the fields of lp_rasterizer
    rast_mutex,              \* the context that holds screen->rast_mutex, or NULL
    cpc, ci,                 \* each context's place, and its loop counter
    flushed,                 \* how often each context has flushed
    curr, discard, fence,    \* of each scene: bin iterator, flag, it has a fence
    last_fence,              \* the count of that fence, kept by the context, or NULL
    rastered,                \* history: the bins of the scene that are rasterized
    dpc, di                  \* lp_rast_destroy: its place and its loop counter

tvars == <<tpc, scene, bin>>
sems == <<work_ready, work_done>>
rvars == <<full_scenes, curr_scene, exit_flag, rast_mutex>>
cvars == <<cpc, ci, flushed>>
svars == <<curr, discard, fence, last_fence, rastered>>
dvars == <<dpc, di>>
rastvars == <<vars, tvars, sems, rvars, cvars, svars, dvars>>

Bins == 0 .. NumBins - 1

Goto(t, l) == tpc' = [tpc EXCEPT ![t] = l]

\* pipe_semaphore_signal and pipe_semaphore_wait on semaphore sema[i].
SemSignal(sema, i) == [sema EXCEPT ![i] = @ + 1]
SemWait(sema, i) == [sema EXCEPT ![i] = @ - 1]

\* lp_rast_create: the threads wait for work.
RastInit ==
    /\ Init
    /\ tpc = [t \in Threads |-> "wait"]
    /\ scene = [t \in Threads |-> NULL] /\ bin = [t \in Threads |-> -1]
    /\ work_ready = [t \in Threads |-> 0] /\ work_done = [t \in Threads |-> 0]
    /\ full_scenes = <<>> /\ curr_scene = NULL /\ exit_flag = FALSE
    /\ rast_mutex = NULL
    /\ cpc = [c \in Contexts |-> "binning"] /\ ci = [c \in Contexts |-> 0]
    /\ flushed = [c \in Contexts |-> 0]
    /\ curr = [c \in Contexts |-> -1] /\ discard = [c \in Contexts |-> FALSE]
    /\ fence = [c \in Contexts |-> FALSE] /\ last_fence = [c \in Contexts |-> NULL]
    /\ rastered = [c \in Contexts |-> {}]
    /\ dpc = "no" /\ di = 0
-----------------------------------------------------------------------------
(* thread_function                                                         *)

WaitForWork(t) ==
    /\ tpc[t] = "wait" /\ work_ready[t] > 0
    /\ work_ready' = SemWait(work_ready, t)
    /\ Goto(t, IF exit_flag THEN "exited" ELSE IF t = 0 THEN "begin" ELSE "barrier1")
    /\ UNCHANGED <<vars, scene, bin, work_done, rvars, cvars, svars, dvars>>

\* Thread 0: lp_rast_begin of the scene that lp_scene_dequeue waits for.
Begin ==
    /\ tpc[0] = "begin" /\ full_scenes # <<>>
    /\ full_scenes' = Tail(full_scenes)
    /\ curr_scene' = Head(full_scenes)
    /\ curr' = [curr EXCEPT ![Head(full_scenes)] = -1]
    /\ Goto(0, "barrier1")
    /\ UNCHANGED <<vars, scene, bin, sems, exit_flag, rast_mutex, cvars,
                   discard, fence, last_fence, rastered, dvars>>

\* Inside util_barrier_wait.
AtBarrier(t) ==
    /\ tpc[t] \in {"barrier1", "barrier2"}
    /\ Arrive(t) \/ SleepAgain(t)
    /\ UNCHANGED <<tvars, sems, rvars, cvars, svars, dvars>>

SpuriousWakeup(t) == Spurious(t) /\ UNCHANGED <<tvars, sems, rvars, cvars, svars, dvars>>

\* Mutant: the first barrier is not waited for.
PassFirstSkips(t) ==
    /\ tpc[t] = "barrier1"
    /\ scene' = [scene EXCEPT ![t] = curr_scene]
    /\ Goto(t, "work")
    /\ UNCHANGED <<vars, bin, sems, rvars, cvars, svars, dvars>>

\* The first util_barrier_wait returns: rasterize_scene(task, rast->curr_scene).
PassFirst(t) ==
    /\ tpc[t] = "barrier1"
    /\ ArriveLast(t) \/ Leave(t)
    /\ scene' = [scene EXCEPT ![t] = curr_scene]
    /\ Goto(t, "work")
    /\ UNCHANGED <<bin, sems, rvars, cvars, svars, dvars>>

\* Mutant: the iterator ends one bin too early.
NextBinShort(t) ==
    /\ tpc[t] = "work" /\ bin[t] = -1
    /\ \/ /\ ~discard[scene[t]] /\ curr[scene[t]] + 1 < NumBins - 1
          /\ bin' = [bin EXCEPT ![t] = curr[scene[t]] + 1]
          /\ curr' = [curr EXCEPT ![scene[t]] = @ + 1]
          /\ UNCHANGED tpc
       \/ /\ discard[scene[t]] \/ curr[scene[t]] + 1 >= NumBins - 1
          /\ Goto(t, "fence")
          /\ UNCHANGED <<bin, curr>>
    /\ UNCHANGED <<vars, scene, sems, rvars, cvars, discard, fence, last_fence,
                   rastered, dvars>>

\* lp_scene_bin_iter_next: curr_x and curr_y are the next bin's number.
NextBin(t) ==
    /\ tpc[t] = "work" /\ bin[t] = -1
    /\ \/ /\ ~discard[scene[t]] /\ curr[scene[t]] + 1 < NumBins
          /\ bin' = [bin EXCEPT ![t] = curr[scene[t]] + 1]
          /\ curr' = [curr EXCEPT ![scene[t]] = @ + 1]
          /\ UNCHANGED tpc
       \/ /\ discard[scene[t]] \/ curr[scene[t]] + 1 >= NumBins
          /\ Goto(t, "fence")
          /\ UNCHANGED <<bin, curr>>
    /\ UNCHANGED <<vars, scene, sems, rvars, cvars, discard, fence, last_fence,
                   rastered, dvars>>

\* rasterize_bin.
RasterizeBin(t) ==
    /\ tpc[t] = "work" /\ bin[t] # -1
    /\ rastered' = [rastered EXCEPT ![scene[t]] = @ \cup {bin[t]}]
    /\ bin' = [bin EXCEPT ![t] = -1]
    /\ UNCHANGED <<vars, tpc, scene, sems, rvars, cvars, curr, discard, fence,
                   last_fence, dvars>>

\* if (scene->fence) lp_fence_signal(scene->fence).
FenceSignal(t) ==
    /\ tpc[t] = "fence"
    /\ last_fence' = [last_fence EXCEPT ![scene[t]] = IF fence[scene[t]] THEN @ + 1 ELSE @]
    /\ scene' = [scene EXCEPT ![t] = NULL]
    /\ Goto(t, "barrier2")
    /\ UNCHANGED <<vars, bin, sems, rvars, cvars, curr, discard, fence, rastered, dvars>>

\* The second util_barrier_wait returns.
PassSecond(t) ==
    /\ tpc[t] = "barrier2"
    /\ ArriveLast(t) \/ Leave(t)
    /\ Goto(t, IF t = 0 THEN "end" ELSE "done")
    /\ UNCHANGED <<scene, bin, sems, rvars, cvars, svars, dvars>>

\* lp_rast_end: lp_scene_end_rasterization drops the scene's fence.
End ==
    /\ tpc[0] = "end"
    /\ fence' = [fence EXCEPT ![curr_scene] = FALSE]
    /\ curr_scene' = NULL
    /\ Goto(0, "done")
    /\ UNCHANGED <<vars, scene, bin, sems, full_scenes, exit_flag, rast_mutex,
                   cvars, curr, discard, last_fence, rastered, dvars>>

WorkDone(t) ==
    /\ tpc[t] = "done"
    /\ work_done' = SemSignal(work_done, t)
    /\ Goto(t, "wait")
    /\ UNCHANGED <<vars, scene, bin, work_ready, rvars, cvars, svars, dvars>>
-----------------------------------------------------------------------------
(* lp_setup_rasterize_scene                                                *)

\* A context has filled its scene: begin_binning has made a fence for it, which
\* becomes the last fence.
Flush(c) ==
    /\ cpc[c] = "binning" /\ flushed[c] < MaxScenes /\ dpc = "no"
    /\ flushed' = [flushed EXCEPT ![c] = @ + 1]
    /\ \E d \in BOOLEAN : discard' = [discard EXCEPT ![c] = d]
    /\ fence' = [fence EXCEPT ![c] = TRUE]
    /\ last_fence' = [last_fence EXCEPT ![c] = 0]
    /\ rastered' = [rastered EXCEPT ![c] = {}]
    /\ cpc' = [cpc EXCEPT ![c] = "lock"]
    /\ UNCHANGED <<vars, tvars, sems, rvars, ci, curr, dvars>>

\* mtx_lock(&screen->rast_mutex), then lp_scene_enqueue.
QueueScene(c) ==
    /\ cpc[c] = "lock" /\ rast_mutex = NULL
    /\ rast_mutex' = c
    /\ full_scenes' = Append(full_scenes, c)
    /\ cpc' = [cpc EXCEPT ![c] = "signal"]
    /\ ci' = [ci EXCEPT ![c] = 0]
    /\ UNCHANGED <<vars, tvars, sems, curr_scene, exit_flag, flushed, svars, dvars>>

\* The loop of lp_rast_queue_scene over the threads.
SignalWork(c) ==
    /\ cpc[c] = "signal"
    /\ work_ready' = SemSignal(work_ready, ci[c])
    /\ ci' = [ci EXCEPT ![c] = (@ + 1) % count]
    /\ cpc' = [cpc EXCEPT ![c] = IF ci[c] + 1 = count THEN "finish" ELSE "signal"]
    /\ UNCHANGED <<vars, tvars, work_done, rvars, flushed, svars, dvars>>

\* Mutant: lp_rast_finish waits for the last thread only.
FinishWaitsForOne(c) ==
    /\ cpc[c] = "finish" /\ work_done[count - 1] > 0
    /\ work_done' = SemWait(work_done, count - 1)
    /\ ci' = [ci EXCEPT ![c] = 0]
    /\ cpc' = [cpc EXCEPT ![c] = "unlock"]
    /\ UNCHANGED <<vars, tvars, work_ready, rvars, flushed, svars, dvars>>

\* The loop of lp_rast_finish.
Finish(c) ==
    /\ cpc[c] = "finish" /\ work_done[ci[c]] > 0
    /\ work_done' = SemWait(work_done, ci[c])
    /\ ci' = [ci EXCEPT ![c] = (@ + 1) % count]
    /\ cpc' = [cpc EXCEPT ![c] = IF ci[c] + 1 = count THEN "unlock" ELSE "finish"]
    /\ UNCHANGED <<vars, tvars, work_ready, rvars, flushed, svars, dvars>>

\* mtx_unlock; lp_scene_end_rasterization is called again for the scene, which
\* nobody else has any more.
Unlock(c) ==
    /\ cpc[c] = "unlock"
    /\ rast_mutex' = NULL
    /\ fence' = [fence EXCEPT ![c] = FALSE]
    /\ cpc' = [cpc EXCEPT ![c] = "binning"]
    /\ UNCHANGED <<vars, tvars, sems, full_scenes, curr_scene, exit_flag, ci,
                   flushed, curr, discard, last_fence, rastered, dvars>>
-----------------------------------------------------------------------------
(* lp_rast_destroy, when the contexts are gone                             *)

DestroyStart ==
    /\ dpc = "no" /\ \A c \in Contexts : cpc[c] = "binning"
    /\ exit_flag' = TRUE
    /\ dpc' = "signal"
    /\ UNCHANGED <<vars, tvars, sems, full_scenes, curr_scene, rast_mutex, cvars, svars, di>>

\* Mutant: the last thread is not signalled.
DestroySignalMisses ==
    /\ dpc = "signal"
    /\ work_ready' = IF di + 1 = count THEN work_ready ELSE SemSignal(work_ready, di)
    /\ di' = (di + 1) % count
    /\ dpc' = IF di + 1 = count THEN "join" ELSE "signal"
    /\ UNCHANGED <<vars, tvars, work_done, rvars, cvars, svars>>

DestroySignal ==
    /\ dpc = "signal"
    /\ work_ready' = SemSignal(work_ready, di)
    /\ di' = (di + 1) % count
    /\ dpc' = IF di + 1 = count THEN "join" ELSE "signal"
    /\ UNCHANGED <<vars, tvars, work_done, rvars, cvars, svars>>

DestroyJoin ==
    /\ dpc = "join" /\ tpc[di] = "exited"
    /\ di' = (di + 1) % count
    /\ dpc' = IF di + 1 = count THEN "gone" ELSE "join"
    /\ UNCHANGED <<vars, tvars, sems, rvars, cvars, svars>>

-----------------------------------------------------------------------------
ThreadStep(t) ==
    \/ WaitForWork(t) \/ AtBarrier(t) \/ PassFirst(t) \/ NextBin(t) \/ RasterizeBin(t)
    \/ FenceSignal(t) \/ PassSecond(t) \/ WorkDone(t)
    \/ t = 0 /\ (Begin \/ End)

ContextStep(c) == QueueScene(c) \/ SignalWork(c) \/ Finish(c) \/ Unlock(c)

DestroyStep == DestroySignal \/ DestroyJoin

RastNext ==
    \/ \E t \in Threads : ThreadStep(t) \/ SpuriousWakeup(t)
    \/ \E c \in Contexts : Flush(c) \/ ContextStep(c)
    \/ DestroyStart \/ DestroyStep

RastSpec == RastInit /\ [][RastNext]_rastvars

\* The threads run, and whoever has called a function of
\* the rasterizer goes on with it.  Nobody has to flush or to destroy.
RastFairness ==
    /\ \A t \in Threads : WF_rastvars(ThreadStep(t))
    /\ \A c \in Contexts : WF_rastvars(ContextStep(c))
    /\ WF_rastvars(DestroyStep)

FairRastSpec == RastSpec /\ RastFairness
-----------------------------------------------------------------------------
\* "Wait for all threads to get here so that threads[1+] don't get a null
\* rast->curr_scene pointer": all threads that rasterize work on the one current
\* scene, its context is waiting in lp_rast_finish and its fence exists.
OneScene ==
    \A t \in Threads : tpc[t] \in {"work", "fence"} =>
       /\ scene[t] # NULL /\ scene[t] = curr_scene
       /\ rast_mutex = curr_scene /\ cpc[curr_scene] \in {"signal", "finish"}
       /\ fence[curr_scene]

\* "When the counter == the rank, the fence is finished": a fence of lp_fence.c
\* never counts past its rank, and when it gets there every bin of the scene has
\* been rasterized.
FenceMeansRastered ==
    \A c \in Contexts :
       last_fence[c] # NULL =>
          /\ last_fence[c] <= count
          /\ last_fence[c] = count => discard[c] \/ rastered[c] = Bins

\* lp_setup_flush returns a fence that is finished already: the context has
\* waited for the threads, and none of them still has its scene.
FlushedIsFinished ==
    \A c \in Contexts :
       (cpc[c] = "binning" /\ last_fence[c] # NULL) =>
          /\ last_fence[c] = count
          /\ curr_scene # c
          /\ \A t \in Threads : scene[t] # c

\* A flush returns, with any number of contexts waiting for the rasterizer.
FlushReturns == \A c \in Contexts : (cpc[c] = "lock") ~> (cpc[c] = "binning")

\* "Each thread will be woken up, notice that the exit_flag is set and break out
\* of its main loop": lp_rast_destroy returns.
DestroyReturns == (dpc = "signal") ~> (dpc = "gone")
=============================================================================
