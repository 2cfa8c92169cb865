-------------------------- MODULE PrimitivesProofs --------------------------
(***************************************************************************)
(* simple_mtx_t excludes, loses no wakeup and implements Mutex, and both   *)
(* builds of util_queue_fence implement Fence, for every set of threads.   *)
(* What FutexFenceProofs proves of the futex fence by itself holds of it   *)
(* among the primitives.                                                   *)
(***************************************************************************)
EXTENDS Primitives, TLAPS

LEMMA InitIInv == Init => IInv
  BY DEF Init, IInv, TypeOK, MutualExclusion, WordMatchesOwner, NoLostWakeup,
         Owners, PCs

\* Each instruction of simple_mtx_lock and simple_mtx_unlock, each outcome of
\* a futex call, preserves the inductive invariant.
LEMMA NextIInv == IInv /\ [Next]_vars => IInv'
  <1> USE DEF IInv, TypeOK, MutualExclusion, WordMatchesOwner, NoLostWakeup,
              Owners, PCs, Goto
  <1>1. SUFFICES ASSUME IInv, [Next]_vars PROVE IInv'
    OBVIOUS
  <1>2. CASE UNCHANGED vars
    BY <1>1, <1>2 DEF vars
  <1>3. ASSUME NEW t \in Threads, LockCas(t) PROVE IInv'
    BY <1>1, <1>3 DEF LockCas
  <1>4. ASSUME NEW t \in Threads, LockXchg(t) PROVE IInv'
    BY <1>1, <1>4 DEF LockXchg
  <1>5. ASSUME NEW t \in Threads, FutexWait(t) PROVE IInv'
    BY <1>1, <1>5 DEF FutexWait
  <1>6. ASSUME NEW t \in Threads, FutexIntr(t) PROVE IInv'
    BY <1>1, <1>6 DEF FutexIntr
  <1>7. ASSUME NEW t \in Threads, UnlockSub(t) PROVE IInv'
    BY <1>1, <1>7 DEF UnlockSub
  <1>8. ASSUME NEW t \in Threads, UnlockStore(t) PROVE IInv'
    BY <1>1, <1>8 DEF UnlockStore
  <1>9. ASSUME NEW t \in Threads, UnlockWake(t) PROVE IInv'
    BY <1>1, <1>9 DEF UnlockWake
  <1> QED
    BY <1>1, <1>2, <1>3, <1>4, <1>5, <1>6, <1>7, <1>8, <1>9 DEF Next, Step

LEMMA Invariance == Spec => []IInv
  BY InitIInv, NextIInv, PTL DEF Spec

\* The mutex excludes: simple_mtx_lock returns to one thread at a time.
THEOREM MutexExcludes == Spec => []MutualExclusion
  <1>1. IInv => MutualExclusion
    BY DEF IInv
  <1> QED
    BY <1>1, Invariance, PTL

\* Between simple_mtx_unlock and futex_wait no wakeup is lost.
THEOREM NoWakeupIsLost == Spec => []NoLostWakeup
  <1>1. IInv => NoLostWakeup
    BY DEF IInv
  <1> QED
    BY <1>1, Invariance, PTL

\* simple_mtx_t implements the abstract mutex.
THEOREM ImplementsMutex == Spec => MutexSpec
  <1> USE DEF Owners, Lockers
  <1>1. Init => M!Init
    BY DEF Init, M!Init
  <1>2. IInv /\ IInv' /\ [Next]_vars => [M!Next]_M!vars
    <2> USE DEF M!Next, M!vars, M!Request, M!Acquire, M!TryAcquire, M!Release,
                IInv, TypeOK, PCs, MutualExclusion, WordMatchesOwner, Goto
    <2>1. SUFFICES ASSUME IInv, IInv', [Next]_vars PROVE [M!Next]_M!vars
      OBVIOUS
    <2>2. CASE UNCHANGED vars
      BY <2>2 DEF vars
    <2>3. ASSUME NEW t \in Threads, LockCas(t) PROVE [M!Next]_M!vars
      BY <2>1, <2>3 DEF LockCas
    <2>4. ASSUME NEW t \in Threads, LockXchg(t) PROVE [M!Next]_M!vars
      BY <2>1, <2>4 DEF LockXchg
    <2>5. ASSUME NEW t \in Threads, FutexWait(t) PROVE [M!Next]_M!vars
      BY <2>1, <2>5 DEF FutexWait
    <2>6. ASSUME NEW t \in Threads, FutexIntr(t) PROVE [M!Next]_M!vars
      BY <2>1, <2>6 DEF FutexIntr
    <2>7. ASSUME NEW t \in Threads, UnlockSub(t) PROVE [M!Next]_M!vars
      BY <2>1, <2>7 DEF UnlockSub
    <2>8. ASSUME NEW t \in Threads, UnlockStore(t) PROVE [M!Next]_M!vars
      BY <2>1, <2>8 DEF UnlockStore
    <2>9. ASSUME NEW t \in Threads, UnlockWake(t) PROVE [M!Next]_M!vars
      BY <2>1, <2>9 DEF UnlockWake
    <2> QED
      BY <2>1, <2>2, <2>3, <2>4, <2>5, <2>6, <2>7, <2>8, <2>9 DEF Next, Step
  <1> QED
    BY <1>1, <1>2, Invariance, PTL DEF Spec, MutexSpec, M!Spec

\* simple_mtx_t implements the abstract mutex, for any set of threads.
THEOREM MutexImplements == PSpec => MutexSpec
<1>1. PInit => Init
  BY DEF PInit
<1>2. [PNext]_allvars => [Next]_vars
  BY DEF PNext, MtxNext, FutexNext, StdNext, allvars
<1> QED
  BY <1>1, <1>2, ImplementsMutex, PTL DEF PSpec, Spec

-----------------------------------------------------------------------------
(* The fence with a futex.                                                 *)

FP == INSTANCE FutexFenceProofs WITH val <- fval, pc <- fpc, timed <- ftimed,
                                     asleep <- fasleep

\* The util_queue_fence of a build with futexes implements the abstract fence, for
\* any set of threads: no util_queue_fence_wait returns before the signal.
THEOREM FutexFenceImplements == PSpec => FutexFenceSpec
<1>1. PInit => FP!Init
  BY DEF PInit, FP!Init, Futex!Init
<1>2. Futex!Next = FP!Next
  BY DEF Futex!Next, FP!Next, Futex!Reset, FP!Reset, Futex!Signal, FP!Signal,
         Futex!Wait, FP!Wait, Futex!Step, FP!Step, Futex!FutexIntr, FP!FutexIntr,
         Futex!FutexTimeout, FP!FutexTimeout, Futex!SignalWake, FP!SignalWake,
         Futex!WaitLoad, FP!WaitLoad, Futex!WaitCas, FP!WaitCas, Futex!FutexWait,
         FP!FutexWait, Futex!Goto, FP!Goto, Futex!Leave, FP!Leave, Futex!Waiting, FP!Waiting
<1>3. [PNext]_allvars => [FP!Next]_(FP!vars)
  BY <1>2 DEF PNext, MtxNext, FutexNext, StdNext, allvars, fvars, FP!vars
<1>4. FP!Spec => FP!FenceSpec
  BY FP!ImplementsFence
<1>5. FP!F!Init => Futex!F!Init
  BY DEF FP!F!Init, Futex!F!Init, FP!Waiting, Futex!Waiting
<1>6. [FP!F!Next]_(FP!F!vars) => [Futex!F!Next]_(Futex!F!vars)
  BY DEF FP!F!Next, Futex!F!Next, FP!Waiting, Futex!Waiting, FP!F!vars, Futex!F!vars,
         FP!F!Reset, Futex!F!Reset, FP!F!Signal, Futex!F!Signal, FP!F!Wait, Futex!F!Wait,
         FP!F!Return, Futex!F!Return
<1> QED
  BY <1>1, <1>3, <1>4, <1>5, <1>6, PTL
     DEF PSpec, FP!Spec, FutexFenceSpec, Futex!FenceSpec, FP!FenceSpec, FP!F!Spec, Futex!F!Spec
-----------------------------------------------------------------------------
(* The standard fence, with a mutex and a condition variable.              *)

\* Where a thread has fence->mutex, sleeps or is about to set the flag.
StdHolding == {"s_set", "s_bcast", "s_unlock", "w_test", "w_unlock", "d_unlock"}
StdSetting == {"s_lock", "s_set"}
StdPlaces == {"out", "s_lock", "w_lock", "w_sleep", "w_relock", "w_expired", "w_ret", "d_lock"} \cup StdHolding

StdTypeOK ==
    /\ signalled \in BOOLEAN /\ alive \in BOOLEAN
    /\ owner \in CondThreads \cup {NoThread} /\ cond \subseteq CondThreads
    /\ cpc \in [CondThreads -> StdPlaces] /\ abs \in [CondThreads -> Int]

\* The mutex and the condition variable agree with where the threads are, and only a
\* wait that has a timeout expires.
StdAt(t) ==
    /\ owner = t <=> cpc[t] \in StdHolding
    /\ t \in cond <=> cpc[t] = "w_sleep"
    /\ cpc[t] = "w_expired" => abs[t] # Std!NoTimeout

\* One thread is about to set the flag of an unsignalled fence.
StdSetter ==
    /\ \A t \in CondThreads : cpc[t] \in StdSetting => ~signalled /\ alive
    /\ \A t, u \in CondThreads : cpc[t] \in StdSetting /\ cpc[u] \in StdSetting => t = u

\* One thread destroys the fence, which is signalled and which nobody waits for.
StdDestroyer ==
    /\ Std!Destroyers # {} => signalled /\ alive /\ Std!Waiters = {}
    /\ \A t, u \in Std!Destroyers : t = u
    /\ ~alive => signalled

StdIInv == StdTypeOK /\ (\A t \in CondThreads : StdAt(t)) /\ StdSetter /\ StdDestroyer /\ NoUseAfterDestroy

LEMMA StdInit == Std!Init => StdIInv
  BY PrimitivesAssumption
     DEF Std!Init, StdIInv, StdTypeOK, StdPlaces, StdAt, StdHolding, StdSetter, StdSetting, StdDestroyer,
         Std!Destroyers, Std!NoTimeout, NoUseAfterDestroy, Std!NoUseAfterDestroy, Std!Waiters, Std!Signallers

\* Each step of util_queue_fence_signal, of the waits and of util_queue_fence_destroy
\* preserves the invariant.
LEMMA StdStep == StdIInv /\ [Std!Next]_cvars => StdIInv'
  <1> USE PrimitivesAssumption
      DEF StdIInv, StdTypeOK, StdPlaces, StdAt, StdHolding, StdSetter, StdSetting, StdDestroyer,
          Std!Destroyers, NoUseAfterDestroy, Std!NoUseAfterDestroy, Std!Waiters, Std!Signallers,
          Std!Goto, Std!Lock, Std!Unlock
  <1>1. SUFFICES ASSUME StdIInv, [Std!Next]_cvars PROVE StdIInv'
    OBVIOUS
  <1>2. CASE UNCHANGED cvars \/ Std!Tick
    BY <1>1, <1>2 DEF cvars, Std!Tick
  <1>3. ASSUME NEW t \in CondThreads, Std!Reset(t) PROVE StdIInv'
    BY <1>1, <1>3 DEF Std!Reset
  <1>4. ASSUME NEW t \in CondThreads, Std!SignalCall(t) PROVE StdIInv'
    BY <1>1, <1>4 DEF Std!SignalCall
  <1>5. ASSUME NEW t \in CondThreads, Std!Wait(t) PROVE StdIInv'
    BY <1>1, <1>5 DEF Std!Wait
  <1>6. ASSUME NEW t \in CondThreads, Std!WaitTimeout(t) PROVE StdIInv'
    BY <1>1, <1>6 DEF Std!WaitTimeout
  <1>7. ASSUME NEW t \in CondThreads, Std!DestroyCall(t) PROVE StdIInv'
    BY <1>1, <1>7 DEF Std!DestroyCall
  <1>8. ASSUME NEW t \in CondThreads, Std!Reinit(t) PROVE StdIInv'
    BY <1>1, <1>8 DEF Std!Reinit
  <1>9. ASSUME NEW t \in CondThreads, Std!WaitSpurious(t) PROVE StdIInv'
    BY <1>1, <1>9 DEF Std!WaitSpurious
  <1>10. ASSUME NEW t \in CondThreads, Std!SignalLock(t) PROVE StdIInv'
    BY <1>1, <1>10 DEF Std!SignalLock
  <1>11. ASSUME NEW t \in CondThreads, Std!SignalSet(t) PROVE StdIInv'
    BY <1>1, <1>11 DEF Std!SignalSet
  <1>12. ASSUME NEW t \in CondThreads, Std!SignalBroadcast(t) PROVE StdIInv'
    BY <1>1, <1>12 DEF Std!SignalBroadcast
  <1>13. ASSUME NEW t \in CondThreads, Std!SignalUnlock(t) PROVE StdIInv'
    BY <1>1, <1>13 DEF Std!SignalUnlock
  <1>14. ASSUME NEW t \in CondThreads, Std!WaitLock(t) PROVE StdIInv'
    BY <1>1, <1>14 DEF Std!WaitLock
  <1>15. ASSUME NEW t \in CondThreads, Std!WaitTest(t) PROVE StdIInv'
    BY <1>1, <1>15 DEF Std!WaitTest
  <1>16. ASSUME NEW t \in CondThreads, Std!WaitBreak(t) PROVE StdIInv'
    BY <1>1, <1>16 DEF Std!WaitBreak
  <1>17. ASSUME NEW t \in CondThreads, Std!WaitUnlock(t) PROVE StdIInv'
    BY <1>1, <1>17 DEF Std!WaitUnlock
  <1>18. ASSUME NEW t \in CondThreads, Std!WaitReturn(t) PROVE StdIInv'
    BY <1>1, <1>18 DEF Std!WaitReturn, Std!NoTimeout
  <1>19. ASSUME NEW t \in CondThreads, Std!WaitExpired(t) PROVE StdIInv'
    BY <1>1, <1>19 DEF Std!WaitExpired
  <1>20. ASSUME NEW t \in CondThreads, Std!DestroyLock(t) PROVE StdIInv'
    BY <1>1, <1>20 DEF Std!DestroyLock
  <1>21. ASSUME NEW t \in CondThreads, Std!Destroy(t) PROVE StdIInv'
    <2>1. signalled /\ owner = t /\ \A u \in CondThreads : u # t => cpc[u] \in {"out", "d_lock", "w_ret"}
      BY <1>1, <1>21 DEF Std!Destroy
    <2>2. \A u \in CondThreads : cpc'[u] = "out"
      BY <1>1, <1>21, <2>1 DEF Std!Destroy
    <2>3. StdTypeOK' /\ (\A u \in CondThreads : StdAt(u)')
      BY <1>1, <1>21, <2>2 DEF Std!Destroy
    <2>4. StdSetter' /\ StdDestroyer' /\ NoUseAfterDestroy'
      BY <1>1, <1>21, <2>1, <2>2 DEF Std!Destroy
    <2> QED
      BY <2>3, <2>4
  <1> QED
    BY <1>1, <1>2, <1>3, <1>4, <1>5, <1>6, <1>7, <1>8, <1>9, <1>10, <1>11, <1>12, <1>13, <1>14, <1>15, <1>16, <1>17, <1>18, <1>19, <1>20, <1>21
       DEF Std!Next, Std!Step

LEMMA StdInvariant == PSpec => []StdIInv
  <1>1. PInit => StdIInv
    BY StdInit DEF PInit
  <1>2. [PNext]_allvars => [Std!Next]_cvars
    BY DEF PNext, MtxNext, FutexNext, StdNext, allvars
  <1>3. StdIInv /\ [PNext]_allvars => StdIInv'
    BY <1>2, StdStep
  <1> QED
    BY <1>1, <1>3, PTL DEF PSpec

\* util_queue_fence_destroy of a standard fence takes the mutex to wait for the
\* signaller to leave, and that is enough for any number of threads: nobody is in
\* the mutex or the condition variable once they are destroyed.
THEOREM StdNoUseAfterDestroy == PSpec => []NoUseAfterDestroy
  <1>1. StdIInv => NoUseAfterDestroy
    BY DEF StdIInv
  <1> QED
    BY <1>1, StdInvariant, PTL

\* The util_queue_fence with a mutex and a condition variable implements the abstract
\* fence, for any set of threads: a wait returns only because the fence is signalled
\* or its time is over, whatever spurious wakeups there are.
THEOREM StdFenceImplements == PSpec => CondFenceSpec
  <1>1. PInit => Std!F!Init
    BY DEF PInit, Std!Init, Std!F!Init, Std!Blocked
  <1>2. StdIInv /\ [Std!Next]_cvars => [Std!F!Next]_(Std!F!vars)
    <2> USE PrimitivesAssumption
        DEF Std!F!Next, Std!F!vars, Std!F!Reset, Std!F!Signal, Std!F!Wait, Std!F!Return, Std!Blocked,
            StdIInv, StdTypeOK, StdPlaces, StdAt, StdHolding, StdSetter, StdSetting, StdDestroyer,
            Std!Waiters, Std!Goto, Std!Lock, Std!Unlock
    <2>1. SUFFICES ASSUME StdIInv, [Std!Next]_cvars PROVE [Std!F!Next]_(Std!F!vars)
      OBVIOUS
    <2>2. CASE UNCHANGED cvars \/ Std!Tick
      BY <2>2 DEF cvars, Std!Tick
    <2>3. ASSUME NEW t \in CondThreads, Std!Reset(t) PROVE [Std!F!Next]_(Std!F!vars)
      BY <2>1, <2>3 DEF Std!Reset
    <2>4. ASSUME NEW t \in CondThreads, Std!SignalCall(t) PROVE [Std!F!Next]_(Std!F!vars)
      BY <2>1, <2>4 DEF Std!SignalCall
    <2>5. ASSUME NEW t \in CondThreads, Std!Wait(t) PROVE [Std!F!Next]_(Std!F!vars)
      BY <2>1, <2>5 DEF Std!Wait
    <2>6. ASSUME NEW t \in CondThreads, Std!WaitTimeout(t) PROVE [Std!F!Next]_(Std!F!vars)
      BY <2>1, <2>6 DEF Std!WaitTimeout
    <2>7. ASSUME NEW t \in CondThreads, Std!DestroyCall(t) PROVE [Std!F!Next]_(Std!F!vars)
      BY <2>1, <2>7 DEF Std!DestroyCall
    <2>8. ASSUME NEW t \in CondThreads, Std!Reinit(t) PROVE [Std!F!Next]_(Std!F!vars)
      BY <2>1, <2>8 DEF Std!Reinit
    <2>9. ASSUME NEW t \in CondThreads, Std!WaitSpurious(t) PROVE [Std!F!Next]_(Std!F!vars)
      BY <2>1, <2>9 DEF Std!WaitSpurious
    <2>10. ASSUME NEW t \in CondThreads, Std!SignalLock(t) PROVE [Std!F!Next]_(Std!F!vars)
      BY <2>1, <2>10 DEF Std!SignalLock
    <2>11. ASSUME NEW t \in CondThreads, Std!SignalSet(t) PROVE [Std!F!Next]_(Std!F!vars)
      BY <2>1, <2>11 DEF Std!SignalSet
    <2>12. ASSUME NEW t \in CondThreads, Std!SignalBroadcast(t) PROVE [Std!F!Next]_(Std!F!vars)
      BY <2>1, <2>12 DEF Std!SignalBroadcast
    <2>13. ASSUME NEW t \in CondThreads, Std!SignalUnlock(t) PROVE [Std!F!Next]_(Std!F!vars)
      BY <2>1, <2>13 DEF Std!SignalUnlock
    <2>14. ASSUME NEW t \in CondThreads, Std!WaitLock(t) PROVE [Std!F!Next]_(Std!F!vars)
      BY <2>1, <2>14 DEF Std!WaitLock
    <2>15. ASSUME NEW t \in CondThreads, Std!WaitTest(t) PROVE [Std!F!Next]_(Std!F!vars)
      BY <2>1, <2>15 DEF Std!WaitTest
    <2>16. ASSUME NEW t \in CondThreads, Std!WaitBreak(t) PROVE [Std!F!Next]_(Std!F!vars)
      BY <2>1, <2>16 DEF Std!WaitBreak
    <2>17. ASSUME NEW t \in CondThreads, Std!WaitUnlock(t) PROVE [Std!F!Next]_(Std!F!vars)
      BY <2>1, <2>17 DEF Std!WaitUnlock
    <2>18. ASSUME NEW t \in CondThreads, Std!WaitReturn(t) PROVE [Std!F!Next]_(Std!F!vars)
      BY <2>1, <2>18 DEF Std!WaitReturn
    <2>19. ASSUME NEW t \in CondThreads, Std!WaitExpired(t) PROVE [Std!F!Next]_(Std!F!vars)
      BY <2>1, <2>19 DEF Std!WaitExpired
    <2>20. ASSUME NEW t \in CondThreads, Std!DestroyLock(t) PROVE [Std!F!Next]_(Std!F!vars)
      BY <2>1, <2>20 DEF Std!DestroyLock
    <2>21. ASSUME NEW t \in CondThreads, Std!Destroy(t) PROVE [Std!F!Next]_(Std!F!vars)
      BY <2>1, <2>21 DEF Std!Destroy
    <2> QED
      BY <2>1, <2>2, <2>3, <2>4, <2>5, <2>6, <2>7, <2>8, <2>9, <2>10, <2>11, <2>12, <2>13, <2>14, <2>15, <2>16, <2>17, <2>18, <2>19, <2>20, <2>21
         DEF Std!Next, Std!Step
  <1>3. [PNext]_allvars => [Std!Next]_cvars
    BY DEF PNext, MtxNext, FutexNext, StdNext, allvars
  <1> QED
    BY <1>1, <1>2, <1>3, StdInvariant, PTL DEF PSpec, CondFenceSpec, Std!FenceSpec, Std!F!Spec
=============================================================================
