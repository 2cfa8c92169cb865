----------------------------- MODULE Primitives -----------------------------
(***************************************************************************)
(* The synchronisation primitives that a build of Mesa is made of:         *)
(* simple_mtx_t and the util_queue_fence of a build with futexes, and the  *)
(* util_queue_fence of a build without (HAVE_LINUX_FUTEX_H in              *)
(* src/util/simple_mtx.h and u_queue.h decides).  An object of             *)
(* one of the three kinds is chosen at the beginning and used until the    *)
(* end; the variables of the other two keep their initial values.          *)
(***************************************************************************)
EXTENDS SimpleMtx

CONSTANTS CondThreads,                        \* the threads of a standard fence
          NoThread, MaxTime, Timeouts, Epoch  \* see CondFence

ASSUME PrimitivesAssumption ==
    /\ NoThread \notin CondThreads
    /\ MaxTime \in Nat /\ Epoch \in Nat /\ Timeouts \subseteq Nat

VARIABLES kind,                                      \* which primitive is in use
          fval, fpc, ftimed, fasleep,                \* a futex fence
          signalled, owner, cond, alive, cpc, abs, ts, now  \* a standard fence

Futex == INSTANCE FutexFence WITH val <- fval, pc <- fpc, timed <- ftimed,
                                  asleep <- fasleep
Std == INSTANCE CondFence WITH Threads <- CondThreads, pc <- cpc

fvars == <<fval, fpc, ftimed, fasleep>>
cvars == <<signalled, owner, cond, alive, cpc, abs, ts, now>>
allvars == <<kind, vars, fvars, cvars>>

PInit ==
    /\ kind \in {"simple_mtx", "futex fence", "standard fence"}
    /\ Init /\ Futex!Init /\ Std!Init

MtxNext == kind = "simple_mtx" /\ Next /\ UNCHANGED <<kind, fvars, cvars>>

FutexNext == kind = "futex fence" /\ Futex!Next /\ UNCHANGED <<kind, vars, cvars>>

StdNext == kind = "standard fence" /\ Std!Next /\ UNCHANGED <<kind, vars, fvars>>

PNext == MtxNext \/ FutexNext \/ StdNext

PSpec == PInit /\ [][PNext]_allvars

\* The fairness of each primitive.  The clock goes on, which nobody looks at when
\* no standard fence is in use.
PFairness ==
    /\ Fairness
    /\ Futex!Fairness
    /\ WF_allvars(StdNext /\ Std!Tick)
    /\ \A t \in CondThreads : SF_cvars(Std!Step(t))

FairPSpec == PSpec /\ PFairness
-----------------------------------------------------------------------------
\* The util_queue_fence of a build with futexes implements Fence: a wait returns
\* only because the fence is signalled, or because it had a timeout.
FutexFenceSpec == Futex!FenceSpec

\* So does the one with a mutex and a condition variable, although its flag is read
\* without the mutex and its condition variable may wake a thread for no reason.
CondFenceSpec == Std!FenceSpec

\* util_queue_fence_signal wakes every waiter of a futex fence.
FutexWaitersReturn == Futex!WaitersReturn

\* util_queue_fence_wait_timeout on a futex fence returns, whoever signals.
FutexTimedWaitsReturn == Futex!TimedWaitsReturn

\* util_queue_fence_signal wakes every waiter of a standard fence.
CondWaitersReturn == Std!WaitersReturn

\* util_queue_fence_destroy of a standard fence waits for the signaller to leave.
NoUseAfterDestroy == Std!NoUseAfterDestroy
=============================================================================
