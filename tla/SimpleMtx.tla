------------------------------ MODULE SimpleMtx ------------------------------
(***************************************************************************)
(* simple_mtx_t (src/util/simple_mtx.h), Mesa's futex mutex, at the grain  *)
(* of its atomic instructions and system calls.  The word mtx->val is      *)
(*   0  unlocked                                                           *)
(*   1  locked, nobody sleeps on it                                        *)
(*   2  locked, somebody may sleep on it                                   *)
(* The kernel side of futex_wait and futex_wake (src/util/futex.h) is the  *)
(* set of threads asleep on the word.                                      *)
(***************************************************************************)
EXTENDS Integers

CONSTANT Threads   \* the threads that share the mutex

VARIABLES val,     \* mtx->val
          pc,      \* where each thread is in simple_mtx_lock / _unlock
          asleep   \* the threads the kernel has queued on &mtx->val

vars == <<val, pc, asleep>>

(***************************************************************************)
(* "out"    outside the mutex             "xchg"   about to write 2        *)
(* "wait"   about to call futex_wait      "sleep"  inside futex_wait       *)
(* "cs"     the caller owns the lock      "store"  about to write 0        *)
(* "wake"   about to call futex_wake                                       *)
(***************************************************************************)
PCs == {"out", "xchg", "wait", "sleep", "cs", "store", "wake"}

Goto(t, l) == pc' = [pc EXCEPT ![t] = l]

Init ==
    /\ val = 0
    /\ pc = [t \in Threads |-> "out"]
    /\ asleep = {}
-----------------------------------------------------------------------------
\* Mutant: a word of 1 is taken for a free mutex.
LockCasOnOne(t) ==
    /\ pc[t] = "out"
    /\ val' = IF val # 2 THEN 1 ELSE val
    /\ Goto(t, IF val # 2 THEN "cs" ELSE "wait")
    /\ UNCHANGED asleep

\* c = __sync_val_compare_and_swap(&mtx->val, 0, 1), and the branches on c.
LockCas(t) ==
    /\ pc[t] = "out"
    /\ val' = IF val = 0 THEN 1 ELSE val
    /\ \/ val = 0 /\ Goto(t, "cs")
       \/ val \notin {0, 2} /\ Goto(t, "xchg")
       \/ val = 2 /\ Goto(t, "wait")
    /\ UNCHANGED asleep

\* Mutant: a woken thread that finds the mutex free takes it with 1, as the
\* fast path does, and forgets the other sleepers.
LockXchgForgets(t) ==
    /\ pc[t] = "xchg"
    /\ val' = IF val = 0 THEN 1 ELSE 2
    /\ Goto(t, IF val = 0 THEN "cs" ELSE "wait")
    /\ UNCHANGED asleep

\* c = __sync_lock_test_and_set(&mtx->val, 2), before and inside the loop.
LockXchg(t) ==
    /\ pc[t] = "xchg"
    /\ val' = 2
    /\ Goto(t, IF val = 0 THEN "cs" ELSE "wait")
    /\ UNCHANGED asleep

\* futex_wait(&mtx->val, 2, NULL): the kernel compares and queues atomically,
\* or returns EAGAIN.
FutexWait(t) ==
    /\ pc[t] = "wait"
    /\ \/ val = 2 /\ Goto(t, "sleep") /\ asleep' = asleep \cup {t}
       \/ val # 2 /\ Goto(t, "xchg") /\ UNCHANGED asleep
    /\ UNCHANGED val

\* A signal interrupts futex_wait; its return value is not looked at.
FutexIntr(t) ==
    /\ pc[t] = "sleep"
    /\ asleep' = asleep \ {t}
    /\ Goto(t, "xchg")
    /\ UNCHANGED val

\* c = __sync_fetch_and_sub(&mtx->val, 1).
UnlockSub(t) ==
    /\ pc[t] = "cs"
    /\ val' = val - 1
    /\ Goto(t, IF val = 1 THEN "out" ELSE "store")
    /\ UNCHANGED asleep

\* mtx->val = 0.
UnlockStore(t) ==
    /\ pc[t] = "store"
    /\ val' = 0
    /\ Goto(t, "wake")
    /\ UNCHANGED asleep

\* Mutant: unlock does not call futex_wake.
UnlockWakesNobody(t) ==
    /\ pc[t] = "wake"
    /\ Goto(t, "out")
    /\ UNCHANGED <<val, asleep>>

\* futex_wake(&mtx->val, 1): one sleeper, if there is one, returns.
UnlockWake(t) ==
    /\ pc[t] = "wake"
    /\ \/ /\ asleep = {}
          /\ Goto(t, "out")
          /\ UNCHANGED asleep
       \/ \E u \in asleep :
             /\ pc' = [pc EXCEPT ![t] = "out", ![u] = "xchg"]
             /\ asleep' = asleep \ {u}
    /\ UNCHANGED val

Step(t) == \/ LockCas(t) \/ LockXchg(t) \/ FutexWait(t)
           \/ UnlockSub(t) \/ UnlockStore(t) \/ UnlockWake(t)

Next == \E t \in Threads : Step(t) \/ FutexIntr(t)

Spec == Init /\ [][Next]_vars

\* Threads are scheduled, the kernel completes the calls it is asked to make,
\* and the owner of the lock leaves its critical section.  A thread outside
\* need not lock again, and no signal ever has to arrive.
Fairness ==
    \A t \in Threads : WF_vars(pc[t] # "out" /\ Step(t))

FairSpec == Spec /\ Fairness
-----------------------------------------------------------------------------
TypeOK ==
    /\ val \in 0..2
    /\ pc \in [Threads -> PCs]
    /\ asleep \in SUBSET Threads

\* The threads that own the mutex: unlock has given it up only once the word
\* is 0, so the owner of the slow path still holds it at "store".
Owners == {t \in Threads : pc[t] \in {"cs", "store"}}

\* Threads inside simple_mtx_lock.
Lockers == {t \in Threads : pc[t] \in {"xchg", "wait", "sleep"}}

\* simple_mtx_lock excludes: two threads never own the mutex together,
\* although the slow path of simple_mtx_unlock takes the word through 1
\* before it writes 0.
MutualExclusion == \A t, u \in Owners : t = u

\* No wakeup is lost between simple_mtx_unlock and futex_wait: while a thread
\* sleeps, the word says so (2), or a thread is on its way that will write 2
\* or wake a sleeper.
NoLostWakeup ==
    asleep # {} => \/ val = 2
                   \/ \E t \in Threads : pc[t] \in {"xchg", "store", "wake"}

\* The word is free exactly when nobody owns the mutex, and the kernel's queue
\* is the set of threads inside futex_wait.
WordMatchesOwner ==
    /\ val = 0 <=> Owners = {}
    /\ asleep = {t \in Threads : pc[t] = "sleep"}

\* The strengthening that is inductive.
IInv == TypeOK /\ MutualExclusion /\ WordMatchesOwner /\ NoLostWakeup

\* simple_mtx_lock cannot hang everyone: whenever a thread is inside it, some
\* thread gets the mutex later (or has it).
LockProgress == (Lockers # {}) ~> (Owners # {})
-----------------------------------------------------------------------------
\* simple_mtx_t is a mutex: every step is a step of Mutex, or none.
M == INSTANCE Mutex WITH holders <- Owners, waiting <- Lockers

MutexSpec == M!Spec

=============================================================================
