----------------------------- MODULE UtilBarrier -----------------------------
(***************************************************************************)
(* util_barrier of the systems without pthread_barrier_t (src/util/        *)
(* u_thread.h): a mutex, a condition variable, the number of threads that  *)
(* have arrived and a sequence number that tells one round of the barrier  *)
(* from the next.  The barrier is used the way lp_rast.c and               *)
(* util_queue_finish do: by count threads, again and again.                *)
(*                                                                         *)
(* The whole of util_barrier_wait runs with the mutex held and cnd_wait    *)
(* gives it up, so a step goes from one cnd_wait to the next.              *)
(***************************************************************************)
EXTENDS Integers, FiniteSets

CONSTANTS Threads,
          MaxRounds  \* bound: how often a thread calls util_barrier_wait

ASSUME UtilBarrierAssumption ==
    /\ IsFiniteSet(Threads) /\ Threads # {}
    /\ MaxRounds \in Nat

VARIABLES waiters, sequence,  \* the fields of util_barrier
          pc,                 \* "out", "asleep" in cnd_wait, or "woken"
          seq,                \* the local variable sequence of each thread
          passed              \* history: how many waits of it have returned

vars == <<waiters, sequence, pc, seq, passed>>

\* barrier->count
count == Cardinality(Threads)

\* util_barrier_init.
Init ==
    /\ waiters = 0 /\ sequence = 0
    /\ pc = [t \in Threads |-> "out"]
    /\ seq = [t \in Threads |-> 0]
    /\ passed = [t \in Threads |-> 0]

\* A thread arrives and is not the last one.
Arrive(t) ==
    /\ pc[t] = "out" /\ passed[t] < MaxRounds
    /\ waiters + 1 < count
    /\ waiters' = waiters + 1
    /\ seq' = [seq EXCEPT ![t] = sequence]
    /\ pc' = [pc EXCEPT ![t] = "asleep"]
    /\ UNCHANGED <<sequence, passed>>

\* Mutant: cnd_signal in place of cnd_broadcast.
ArriveLastSignals(t) ==
    /\ pc[t] = "out" /\ passed[t] < MaxRounds
    /\ waiters + 1 >= count
    /\ waiters' = 0
    /\ sequence' = sequence + 1
    /\ passed' = [passed EXCEPT ![t] = passed[t] + 1]
    /\ \/ (\A u \in Threads : pc[u] # "asleep") /\ UNCHANGED pc
       \/ \E u \in Threads : pc[u] = "asleep" /\ pc' = [pc EXCEPT ![u] = "woken"]
    /\ UNCHANGED seq

\* The last one to arrive starts a new round and returns.
ArriveLast(t) ==
    /\ pc[t] = "out" /\ passed[t] < MaxRounds
    /\ waiters + 1 >= count
    /\ waiters' = 0
    /\ sequence' = sequence + 1
    /\ passed' = [passed EXCEPT ![t] = passed[t] + 1]
    /\ pc' = [u \in Threads |-> IF pc[u] = "asleep" THEN "woken" ELSE pc[u]]
    /\ UNCHANGED seq

\* A condition variable may wake a thread for no reason.
Spurious(t) ==
    /\ pc[t] = "asleep"
    /\ pc' = [pc EXCEPT ![t] = "woken"]
    /\ UNCHANGED <<waiters, sequence, seq, passed>>

\* Mutant: if in place of do ... while.
LeaveAnyway(t) ==
    /\ pc[t] = "woken"
    /\ pc' = [pc EXCEPT ![t] = "out"]
    /\ passed' = [passed EXCEPT ![t] = passed[t] + 1]
    /\ UNCHANGED <<waiters, sequence, seq>>

\* cnd_wait has returned with a new sequence number: so does util_barrier_wait.
Leave(t) ==
    /\ pc[t] = "woken"
    /\ seq[t] # sequence
    /\ pc' = [pc EXCEPT ![t] = "out"]
    /\ passed' = [passed EXCEPT ![t] = passed[t] + 1]
    /\ UNCHANGED <<waiters, sequence, seq>>

\* while (sequence == barrier->sequence): back into cnd_wait.
SleepAgain(t) ==
    /\ pc[t] = "woken"
    /\ seq[t] = sequence
    /\ pc' = [pc EXCEPT ![t] = "asleep"]
    /\ UNCHANGED <<waiters, sequence, seq, passed>>

\* Every thread has been through all its rounds.
Done ==
    /\ \A t \in Threads : pc[t] = "out" /\ passed[t] = MaxRounds
    /\ UNCHANGED vars

Step(t) == Arrive(t) \/ ArriveLast(t) \/ Leave(t) \/ SleepAgain(t)

Next == Done \/ \E t \in Threads : Step(t) \/ Spurious(t)

Spec == Init /\ [][Next]_vars

-----------------------------------------------------------------------------
TypeOK ==
    /\ waiters \in 0 .. count - 1  \* assert(barrier->waiters < barrier->count)
    /\ sequence \in Nat
    /\ pc \in [Threads -> {"out", "asleep", "woken"}]
    /\ seq \in [Threads -> Nat]
    /\ passed \in [Threads -> 0 .. MaxRounds]

\* How often a thread has called util_barrier_wait.
Arrived(t) == IF pc[t] = "out" THEN passed[t] ELSE passed[t] + 1

\* What a barrier is for: no thread returns from its k-th wait before every
\* thread has called util_barrier_wait k times, also when a fast thread is back
\* at the barrier before a slow one has woken up from the last round, and
\* whatever spurious wakeups there are.
Lockstep == \A t, u \in Threads : passed[t] <= Arrived(u)

\* A thread that sleeps has been counted into the round that is not over: the
\* wakeup of its round is still to come.
NoLostWakeup == \A t \in Threads : pc[t] = "asleep" => seq[t] = sequence

\* assert(barrier->waiters == 0) in util_barrier_destroy: when everybody has
\* left, nobody is counted.
IdleIsEmpty == (\A t \in Threads : pc[t] = "out") => waiters = 0

-----------------------------------------------------------------------------
\* The threads counted in the current round.
Counted == {t \in Threads : pc[t] # "out" /\ seq[t] = sequence}

(***************************************************************************)
(* The inductive invariant: waiters counts the threads of this round, a    *)
(* thread outside has finished every round so far, and a thread inside has *)
(* finished all the rounds before the one it waits for, which is this one  *)
(* or the last one.                                                        *)
(***************************************************************************)
IInv ==
    /\ TypeOK
    /\ waiters = Cardinality(Counted)
    /\ NoLostWakeup
    /\ \A t \in Threads :
          /\ pc[t] = "out" => passed[t] = sequence
          /\ pc[t] # "out" => /\ passed[t] = seq[t] /\ seq[t] \in {sequence, sequence - 1}
                              /\ passed[t] < MaxRounds
=============================================================================
