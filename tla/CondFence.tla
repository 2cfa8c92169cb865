------------------------------ MODULE CondFence ------------------------------
(***************************************************************************)
(* util_queue_fence of the builds without futexes (src/util/u_queue.c,     *)
(* UTIL_QUEUE_FENCE_STANDARD): a mutex, a condition variable and a flag    *)
(* that util_queue_fence_is_signalled reads without the mutex.  Time is    *)
(* the clock of os_time_get_nano; TIME_UTC runs Epoch ahead of it.         *)
(***************************************************************************)
EXTENDS Integers

CONSTANTS Threads,
          NoThread,   \* nobody
          MaxTime,    \* bound on the clock
          Timeouts,   \* absolute timeouts callers ask for
          Epoch       \* TIME_UTC minus os_time_get_nano

VARIABLES signalled,  \* fence->signalled
          owner,      \* who holds fence->mutex
          cond,       \* threads queued on fence->cond
          alive,      \* the mutex and the condition variable exist
          pc,         \* where each thread is
          abs,        \* abs_timeout of each thread, NoTimeout for a plain wait
          ts,         \* the time given to cnd_timedwait, on TIME_UTC
          now         \* os_time_get_nano()

vars == <<signalled, owner, cond, alive, pc, abs, ts, now>>

NoTimeout == -1

(***************************************************************************)
(* util_queue_fence_signal:  "s_lock" "s_set" "s_bcast" "s_unlock"         *)
(* _util_queue_fence_wait*:  "w_lock" "w_test" "w_sleep" "w_relock"        *)
(*                           "w_expired" (timed out) "w_unlock" "w_ret"    *)
(* util_queue_fence_destroy: "d_lock" "d_unlock"                           *)
(***************************************************************************)
Waiters == {t \in Threads : pc[t] \in {"w_lock", "w_test", "w_sleep", "w_relock",
                                       "w_expired", "w_unlock", "w_ret"}}

Signallers == {t \in Threads : pc[t] \in {"s_lock", "s_set", "s_bcast", "s_unlock"}}

Destroyers == {t \in Threads : pc[t] \in {"d_lock", "d_unlock"}}

Goto(t, l) == pc' = [pc EXCEPT ![t] = l]

\* util_queue_fence_init.
Init ==
    /\ signalled = TRUE
    /\ owner = NoThread
    /\ cond = {}
    /\ alive = TRUE
    /\ pc = [t \in Threads |-> "out"]
    /\ abs = [t \in Threads |-> NoTimeout]
    /\ ts = [t \in Threads |-> 0]
    /\ now = 0

\* mtx_lock and mtx_unlock of fence->mutex.
Lock(t, from, to) ==
    /\ pc[t] = from
    /\ owner = NoThread
    /\ owner' = t
    /\ Goto(t, to)

Unlock(t, from, to) ==
    /\ pc[t] = from
    /\ owner' = NoThread
    /\ Goto(t, to)
-----------------------------------------------------------------------------
\* util_queue_fence_reset: the caller ensures nobody waits or is about to.
Reset(t) ==
    /\ pc[t] = "out"
    /\ alive /\ Destroyers = {}
    /\ signalled /\ Waiters = {}
    /\ signalled' = FALSE
    /\ UNCHANGED <<owner, cond, alive, pc, abs, ts, now>>

\* A job ends: util_queue_fence_signal is called, once for every reset.
SignalCall(t) ==
    /\ pc[t] = "out"
    /\ ~signalled /\ \A u \in Threads : pc[u] \notin {"s_lock", "s_set"}
    /\ Goto(t, "s_lock")
    /\ UNCHANGED <<signalled, owner, cond, alive, abs, ts, now>>

SignalLock(t) ==
    /\ Lock(t, "s_lock", "s_set")
    /\ UNCHANGED <<signalled, cond, alive, abs, ts, now>>

SignalSet(t) ==
    /\ pc[t] = "s_set"
    /\ signalled' = TRUE
    /\ Goto(t, "s_bcast")
    /\ UNCHANGED <<owner, cond, alive, abs, ts, now>>

\* Mutant: cnd_signal in place of cnd_broadcast.
SignalOne(t) ==
    /\ pc[t] = "s_bcast"
    /\ \/ cond = {} /\ Goto(t, "s_unlock") /\ UNCHANGED cond
       \/ \E u \in cond : /\ pc' = [pc EXCEPT ![t] = "s_unlock", ![u] = "w_relock"]
                          /\ cond' = cond \ {u}
    /\ UNCHANGED <<signalled, owner, alive, abs, ts, now>>

\* cnd_broadcast(&fence->cond).
SignalBroadcast(t) ==
    /\ pc[t] = "s_bcast"
    /\ pc' = [u \in Threads |-> IF u = t THEN "s_unlock"
                                ELSE IF u \in cond THEN "w_relock" ELSE pc[u]]
    /\ cond' = {}
    /\ UNCHANGED <<signalled, owner, alive, abs, ts, now>>

SignalUnlock(t) ==
    /\ Unlock(t, "s_unlock", "out")
    /\ UNCHANGED <<signalled, cond, alive, abs, ts, now>>

\* util_queue_fence_wait finds the fence unsignalled.
Wait(t) ==
    /\ pc[t] = "out"
    /\ alive /\ Destroyers = {} /\ ~signalled
    /\ Goto(t, "w_lock")
    /\ UNCHANGED <<signalled, owner, cond, alive, abs, ts, now>>

\* _util_queue_fence_wait_timeout: the time for cnd_timedwait is TIME_UTC now
\* plus abs_timeout, and a timeout that is over is not waited for.
WaitTimeout(t) ==
    /\ pc[t] = "out"
    /\ alive /\ Destroyers = {} /\ ~signalled
    /\ \E a \in Timeouts :
          /\ abs' = [abs EXCEPT ![t] = a]
          /\ ts' = [ts EXCEPT ![t] = (now + Epoch) + a]
          /\ Goto(t, IF a - now > 0 THEN "w_lock" ELSE "w_ret")
    /\ UNCHANGED <<signalled, owner, cond, alive, now>>

\* Mutant: the flag is not tested again after cnd_wait.
WaitLockNoRetest(t) ==
    /\ Lock(t, "w_lock", "w_test") \/ Lock(t, "w_relock", "w_unlock")
    /\ UNCHANGED <<signalled, cond, alive, abs, ts, now>>

\* mtx_lock, and cnd_wait taking the mutex again.
WaitLock(t) ==
    /\ Lock(t, "w_lock", "w_test") \/ Lock(t, "w_relock", "w_test")
    /\ UNCHANGED <<signalled, cond, alive, abs, ts, now>>

\* while (!fence->signalled) cnd_wait(...), holding the mutex.
WaitTest(t) ==
    /\ pc[t] = "w_test"
    /\ \/ signalled /\ Goto(t, "w_unlock") /\ UNCHANGED <<owner, cond>>
       \/ /\ ~signalled
          /\ owner' = NoThread /\ cond' = cond \cup {t} /\ Goto(t, "w_sleep")
    /\ UNCHANGED <<signalled, alive, abs, ts, now>>

\* A condition variable may wake a thread for no reason.
WaitSpurious(t) ==
    /\ pc[t] = "w_sleep"
    /\ cond' = cond \ {t}
    /\ Goto(t, "w_relock")
    /\ UNCHANGED <<signalled, owner, alive, abs, ts, now>>

\* cnd_timedwait gives up once TIME_UTC has reached ts.
WaitExpired(t) ==
    /\ pc[t] = "w_sleep"
    /\ abs[t] # NoTimeout /\ now + Epoch >= ts[t]
    /\ cond' = cond \ {t}
    /\ Goto(t, "w_expired")
    /\ UNCHANGED <<signalled, owner, alive, abs, ts, now>>

\* cnd_timedwait != thrd_success: break, with the mutex held again.
WaitBreak(t) ==
    /\ Lock(t, "w_expired", "w_unlock")
    /\ UNCHANGED <<signalled, cond, alive, abs, ts, now>>

\* mtx_unlock at the end of either wait.
WaitUnlock(t) ==
    /\ Unlock(t, "w_unlock", IF abs[t] = NoTimeout THEN "out" ELSE "w_ret")
    /\ UNCHANGED <<signalled, cond, alive, abs, ts, now>>

\* return fence->signalled.
WaitReturn(t) ==
    /\ pc[t] = "w_ret"
    /\ Goto(t, "out")
    /\ abs' = [abs EXCEPT ![t] = NoTimeout]
    /\ ts' = [ts EXCEPT ![t] = 0]
    /\ UNCHANGED <<signalled, owner, cond, alive, now>>

\* util_queue_fence_destroy by a thread that knows the fence is signalled and
\* that nobody waits for it any more.  A signaller may still be inside.
DestroyCall(t) ==
    /\ pc[t] = "out"
    /\ alive /\ signalled /\ Waiters = {} /\ Destroyers = {}
    /\ Goto(t, "d_lock")
    /\ UNCHANGED <<signalled, owner, cond, alive, abs, ts, now>>

\* Mutant: the mutex is not taken before it is destroyed.
DestroyLockSkipped(t) ==
    /\ pc[t] = "d_lock"
    /\ owner' = owner
    /\ Goto(t, "d_unlock")
    /\ UNCHANGED <<signalled, cond, alive, abs, ts, now>>

DestroyLock(t) ==
    /\ Lock(t, "d_lock", "d_unlock")
    /\ UNCHANGED <<signalled, cond, alive, abs, ts, now>>

\* mtx_unlock, cnd_destroy, mtx_destroy.
Destroy(t) ==
    /\ Unlock(t, "d_unlock", "out")
    /\ alive' = FALSE
    /\ UNCHANGED <<signalled, cond, abs, ts, now>>

\* util_queue_fence_init of the next user of the memory.
Reinit(t) ==
    /\ pc[t] = "out"
    /\ ~alive
    /\ alive' = TRUE /\ signalled' = TRUE
    /\ UNCHANGED <<owner, cond, pc, abs, ts, now>>

Tick ==
    /\ now < MaxTime
    /\ now' = now + 1
    /\ UNCHANGED <<signalled, owner, cond, alive, pc, abs, ts>>

Step(t) == \/ SignalLock(t) \/ SignalSet(t) \/ SignalBroadcast(t) \/ SignalUnlock(t)
           \/ WaitLock(t) \/ WaitTest(t) \/ WaitBreak(t) \/ WaitUnlock(t)
           \/ WaitReturn(t) \/ WaitExpired(t) \/ DestroyLock(t) \/ Destroy(t)

Next == \/ Tick
        \/ \E t \in Threads :
              \/ Reset(t) \/ SignalCall(t) \/ Wait(t) \/ WaitTimeout(t)
              \/ DestroyCall(t) \/ Reinit(t) \/ WaitSpurious(t) \/ Step(t)

Spec == Init /\ [][Next]_vars

\* Threads inside the functions run, the mutex is handed over fairly, and time
\* goes on.  Nobody has to call anything, and no spurious wakeup has to happen.
Fairness == /\ WF_vars(Tick)
            /\ \A t \in Threads : SF_vars(Step(t))

FairSpec == Spec /\ Fairness
-----------------------------------------------------------------------------
\* "we must do so here": nobody is inside the fence's mutex or condition
\* variable once util_queue_fence_destroy has destroyed them, although the
\* destroyer may have learned of the signal without the mutex, in the middle
\* of util_queue_fence_signal.
NoUseAfterDestroy == ~alive => Signallers \cup Waiters = {}

\* Once the fence is signalled every waiter returns.
WaitersReturn ==
    \A t \in Threads : (t \in Waiters /\ signalled) ~> (t \notin Waiters)
-----------------------------------------------------------------------------
\* The standard fence is a fence.  A waiter that has seen the flag and only has
\* to unlock and return has returned for the abstract fence.
Blocked == {t \in Threads : pc[t] \in {"w_lock", "w_test", "w_sleep", "w_relock",
                                       "w_expired"}}

F == INSTANCE Fence WITH waiting <- Blocked,
                         timed <- {t \in Blocked : abs[t] # NoTimeout}

FenceSpec == F!Spec

=============================================================================
