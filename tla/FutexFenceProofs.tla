-------------------------- MODULE FutexFenceProofs --------------------------
(***************************************************************************)
(* The futex fence loses no wakeup and implements Fence, for every set of  *)
(* threads.                                                                *)
(***************************************************************************)
EXTENDS FutexFence, TLAPS

LEMMA InitIInv == Init => IInv
  BY DEF Init, IInv, TypeOK, Bookkeeping, NoLostWakeup, Waiting, PCs

\* Every access to fence->val and every futex call preserves the invariant.
LEMMA NextIInv == IInv /\ [Next]_vars => IInv'
  <1> USE DEF IInv, TypeOK, Bookkeeping, NoLostWakeup, Waiting, PCs, Goto, Leave
  <1>1. SUFFICES ASSUME IInv, [Next]_vars PROVE IInv'
    OBVIOUS
  <1>2. CASE UNCHANGED vars
    BY <1>1, <1>2 DEF vars
  <1>3. ASSUME NEW t \in Threads, Reset(t) PROVE IInv'
    BY <1>1, <1>3 DEF Reset
  <1>4. ASSUME NEW t \in Threads, Signal(t) PROVE IInv'
    BY <1>1, <1>4 DEF Signal
  <1>5. ASSUME NEW t \in Threads, SignalWake(t) PROVE IInv'
    BY <1>1, <1>5 DEF SignalWake
  <1>6. ASSUME NEW t \in Threads, Wait(t) PROVE IInv'
    BY <1>1, <1>6 DEF Wait
  <1>7. ASSUME NEW t \in Threads, WaitLoad(t) PROVE IInv'
    BY <1>1, <1>7 DEF WaitLoad
  <1>8. ASSUME NEW t \in Threads, WaitCas(t) PROVE IInv'
    BY <1>1, <1>8 DEF WaitCas
  <1>9. ASSUME NEW t \in Threads, FutexWait(t) PROVE IInv'
    BY <1>1, <1>9 DEF FutexWait
  <1>10. ASSUME NEW t \in Threads, FutexIntr(t) PROVE IInv'
    BY <1>1, <1>10 DEF FutexIntr
  <1>11. ASSUME NEW t \in Threads, FutexTimeout(t) PROVE IInv'
    BY <1>1, <1>11 DEF FutexTimeout
  <1> QED
    BY <1>1, <1>2, <1>3, <1>4, <1>5, <1>6, <1>7, <1>8, <1>9, <1>10, <1>11
       DEF Next, Step

LEMMA Invariance == Spec => []IInv
  BY InitIInv, NextIInv, PTL DEF Spec

\* No wakeup of util_queue_fence_signal is lost.
THEOREM FenceLosesNoWakeup == Spec => []NoLostWakeup
  <1>1. IInv => NoLostWakeup
    BY DEF IInv
  <1> QED
    BY <1>1, Invariance, PTL

\* The futex build of util_queue_fence implements the abstract fence: a wait
\* returns only because the fence is signalled or its time is over.
THEOREM ImplementsFence == Spec => FenceSpec
  <1>1. Init => F!Init
    BY DEF Init, F!Init, Waiting
  <1>2. IInv /\ [Next]_vars => [F!Next]_F!vars
    <2> USE DEF F!Next, F!vars, F!Reset, F!Signal, F!Wait, F!Return,
                IInv, TypeOK, Bookkeeping, Waiting, PCs, Goto, Leave
    <2>1. SUFFICES ASSUME IInv, [Next]_vars PROVE [F!Next]_F!vars
      OBVIOUS
    <2>2. CASE UNCHANGED vars
      BY <2>2 DEF vars
    <2>3. ASSUME NEW t \in Threads, Reset(t) PROVE [F!Next]_F!vars
      BY <2>1, <2>3 DEF Reset
    <2>4. ASSUME NEW t \in Threads, Signal(t) PROVE [F!Next]_F!vars
      BY <2>1, <2>4 DEF Signal
    <2>5. ASSUME NEW t \in Threads, SignalWake(t) PROVE [F!Next]_F!vars
      BY <2>1, <2>5 DEF SignalWake
    <2>6. ASSUME NEW t \in Threads, Wait(t) PROVE [F!Next]_F!vars
      BY <2>1, <2>6 DEF Wait
    <2>7. ASSUME NEW t \in Threads, WaitLoad(t) PROVE [F!Next]_F!vars
      BY <2>1, <2>7 DEF WaitLoad
    <2>8. ASSUME NEW t \in Threads, WaitCas(t) PROVE [F!Next]_F!vars
      BY <2>1, <2>8 DEF WaitCas
    <2>9. ASSUME NEW t \in Threads, FutexWait(t) PROVE [F!Next]_F!vars
      BY <2>1, <2>9 DEF FutexWait
    <2>10. ASSUME NEW t \in Threads, FutexIntr(t) PROVE [F!Next]_F!vars
      BY <2>1, <2>10 DEF FutexIntr
    <2>11. ASSUME NEW t \in Threads, FutexTimeout(t) PROVE [F!Next]_F!vars
      BY <2>1, <2>11 DEF FutexTimeout
    <2> QED
      BY <2>1, <2>2, <2>3, <2>4, <2>5, <2>6, <2>7, <2>8, <2>9, <2>10, <2>11
         DEF Next, Step
  <1> QED
    BY <1>1, <1>2, Invariance, PTL DEF Spec, FenceSpec, F!Spec

=============================================================================
