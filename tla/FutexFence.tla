----------------------------- MODULE FutexFence -----------------------------
(***************************************************************************)
(* util_queue_fence of the futex build (src/util/u_queue.h, u_queue.c):    *)
(*   val = 0  signalled                                                    *)
(*   val = 1  unsignalled                                                  *)
(*   val = 2  unsignalled, may have waiters                                *)
(* at the grain of its atomic accesses and system calls.                   *)
(***************************************************************************)
EXTENDS Integers

CONSTANT Threads

VARIABLES val,     \* fence->val
          pc,      \* where each thread is
          timed,   \* the threads whose wait has a timeout
          asleep   \* the threads the kernel has queued on &fence->val

vars == <<val, pc, timed, asleep>>

(***************************************************************************)
(* "out"    not using the fence       "load"   about to read val           *)
(* "cas"    about to write 2          "futex"  about to call futex_wait    *)
(* "sleep"  inside futex_wait         "wake"   about to call futex_wake    *)
(***************************************************************************)
PCs == {"out", "load", "cas", "futex", "sleep", "wake"}

Goto(t, l) == pc' = [pc EXCEPT ![t] = l]

\* The threads inside util_queue_fence_wait or _wait_timeout.
Waiting == {t \in Threads : pc[t] \in {"load", "cas", "futex", "sleep"}}

\* A waiter returns.
Leave(t) == Goto(t, "out") /\ timed' = timed \ {t}

\* util_queue_fence_init.
Init ==
    /\ val = 0
    /\ pc = [t \in Threads |-> "out"]
    /\ timed = {}
    /\ asleep = {}
-----------------------------------------------------------------------------
\* util_queue_fence_reset.  The caller must ensure that nobody waits or is
\* about to; a signaller of the previous round may still be about to wake.
Reset(t) ==
    /\ pc[t] = "out"
    /\ val = 0 /\ Waiting = {}
    /\ val' = 1
    /\ UNCHANGED <<pc, timed, asleep>>

\* Mutant: the test for waiters compares with the wrong state.
SignalForgets(t) ==
    /\ pc[t] = "out"
    /\ val # 0
    /\ val' = 0
    /\ Goto(t, IF val = 1 THEN "wake" ELSE "out")
    /\ UNCHANGED <<timed, asleep>>

\* val = p_atomic_xchg(&fence->val, 0): the fence is unsignalled, as the
\* assertion says; UtilQueue shows that its callers respect that.
Signal(t) ==
    /\ pc[t] = "out"
    /\ val # 0
    /\ val' = 0
    /\ Goto(t, IF val = 2 THEN "wake" ELSE "out")
    /\ UNCHANGED <<timed, asleep>>

\* Mutant: futex_wake is asked to wake one waiter.
SignalWakesOne(t) ==
    /\ pc[t] = "wake"
    /\ \/ asleep = {} /\ Goto(t, "out") /\ UNCHANGED asleep
       \/ \E u \in asleep : /\ pc' = [pc EXCEPT ![t] = "out", ![u] = "load"]
                            /\ asleep' = asleep \ {u}
    /\ UNCHANGED <<val, timed>>

\* futex_wake(&fence->val, INT_MAX).
SignalWake(t) ==
    /\ pc[t] = "wake"
    /\ pc' = [u \in Threads |-> IF u = t THEN "out"
                                ELSE IF u \in asleep THEN "load" ELSE pc[u]]
    /\ asleep' = {}
    /\ UNCHANGED <<val, timed>>

\* util_queue_fence_wait and _wait_timeout find the fence unsignalled.
Wait(t) ==
    /\ pc[t] = "out"
    /\ val # 0
    /\ Goto(t, "load")
    /\ timed' \in {timed, timed \cup {t}}
    /\ UNCHANGED <<val, asleep>>

\* v = fence->val, at the start of do_futex_fence_wait and after futex_wait.
WaitLoad(t) ==
    /\ pc[t] = "load"
    /\ \/ val = 0 /\ Leave(t)
       \/ val = 2 /\ Goto(t, "futex") /\ UNCHANGED timed
       \/ val = 1 /\ Goto(t, "cas") /\ UNCHANGED timed
    /\ UNCHANGED <<val, asleep>>

\* v = p_atomic_cmpxchg(&fence->val, 1, 2).
WaitCas(t) ==
    /\ pc[t] = "cas"
    /\ val' = IF val = 1 THEN 2 ELSE val
    /\ IF val = 0 THEN Leave(t) ELSE Goto(t, "futex") /\ UNCHANGED timed
    /\ UNCHANGED asleep

\* futex_wait(&fence->val, 2, ...): sleeps, or returns EAGAIN.
FutexWait(t) ==
    /\ pc[t] = "futex"
    /\ \/ val = 2 /\ Goto(t, "sleep") /\ asleep' = asleep \cup {t}
       \/ val # 2 /\ Goto(t, "load") /\ UNCHANGED asleep
    /\ UNCHANGED <<val, timed>>

\* A signal interrupts futex_wait: any error but ETIMEDOUT is ignored.
FutexIntr(t) ==
    /\ pc[t] = "sleep"
    /\ asleep' = asleep \ {t}
    /\ Goto(t, "load")
    /\ UNCHANGED <<val, timed>>

\* Mutant: a wait without timeout gives up as well.
FutexAnyTimeout(t) ==
    /\ pc[t] = "sleep"
    /\ asleep' = asleep \ {t}
    /\ Leave(t)
    /\ UNCHANGED val

\* Mutant: ETIMEDOUT is ignored like the other errors.
FutexTimeoutRetries(t) ==
    /\ pc[t] = "sleep" /\ t \in timed
    /\ asleep' = asleep \ {t}
    /\ Goto(t, "load")
    /\ UNCHANGED <<val, timed>>

\* ETIMEDOUT: a wait with a timeout returns false.
FutexTimeout(t) ==
    /\ pc[t] = "sleep" /\ t \in timed
    /\ asleep' = asleep \ {t}
    /\ Leave(t)
    /\ UNCHANGED val

Step(t) == SignalWake(t) \/ WaitLoad(t) \/ WaitCas(t) \/ FutexWait(t)

Next == \E t \in Threads : \/ Reset(t) \/ Signal(t) \/ Wait(t) \/ Step(t)
                           \/ FutexIntr(t) \/ FutexTimeout(t)

Spec == Init /\ [][Next]_vars

\* Threads inside the fence's functions are scheduled.  The timeout is absolute
\* (FUTEX_WAIT_BITSET), so once it is over every futex_wait ends with it, how
\* often signals interrupt the call before: strong fairness.  Nobody has to
\* signal the fence, and no signal has to arrive.
Fairness ==
    \A t \in Threads : WF_vars(Step(t)) /\ SF_vars(FutexTimeout(t))

FairSpec == Spec /\ Fairness
-----------------------------------------------------------------------------
TypeOK ==
    /\ val \in 0..2
    /\ pc \in [Threads -> PCs]
    /\ timed \in SUBSET Threads
    /\ asleep \in SUBSET Threads

\* util_queue_fence_signal and do_futex_fence_wait lose no wakeup: while a
\* waiter sleeps, the value tells the signaller so, or one is about to wake.
NoLostWakeup ==
    asleep # {} => val = 2 \/ \E t \in Threads : pc[t] = "wake"

\* The kernel's queue is the set of threads inside futex_wait, and only waiters
\* have timeouts.
Bookkeeping ==
    /\ asleep = {t \in Threads : pc[t] = "sleep"}
    /\ timed \subseteq Waiting

\* The strengthening that is inductive.
IInv == TypeOK /\ Bookkeeping /\ NoLostWakeup

\* Once the fence is signalled every waiter returns.
WaitersReturn ==
    \A t \in Threads : (t \in Waiting /\ val = 0) ~> (t \notin Waiting)

\* A wait with a timeout always returns.
TimedWaitsReturn == \A t \in Threads : (t \in timed) ~> (t \notin timed)
-----------------------------------------------------------------------------
\* The futex fence is a fence.
F == INSTANCE Fence WITH signalled <- (val = 0), waiting <- Waiting

FenceSpec == F!Spec

=============================================================================
