------------------------------ MODULE QueueExit ------------------------------
(***************************************************************************)
(* The life of the queues of a process (src/util/u_queue.c): each queue is *)
(* initialised and destroyed by the thread that owns it and is on          *)
(* queue_list in between, under exit_mutex; exit() runs atexit_handler,    *)
(* which kills and joins the threads of every queue on the list.           *)
(*                                                                         *)
(* What the threads of a queue do until kill_threads is set is the subject *)
(* of UtilQueue.  The owner of queue q is named q as well.                 *)
(***************************************************************************)
EXTENDS Integers, Sequences, SequencesExt

CONSTANTS Queues,
          Exit,      \* the thread that calls exit()
          Threads    \* num_threads of util_queue_init

ASSUME QueueExitAssumption ==
    /\ Exit \notin Queues
    /\ Threads \in Nat \ {0}

Actors == Queues \cup {Exit}

VARIABLES
    queue_list, exit_mutex,      \* exit_mutex: held by the exit handler
    kill_threads, num_threads,   \* the fields of each queue
    thread,      \* thread[q][i]: "none", "running", "exited" or "joined"
    pc,          \* where each actor is
    iter,        \* the queues the handler has not come to yet
    i            \* the loop counter of util_queue_killall_and_wait

qvars == <<kill_threads, num_threads, thread>>
vars == <<queue_list, exit_mutex, qvars, pc, iter, i>>

\* The queue actor a is killing.
Target(a) == IF a = Exit THEN Head(iter) ELSE a

Goto(a, l) == pc' = [pc EXCEPT ![a] = l]

Init ==
    /\ queue_list = <<>> /\ exit_mutex = FALSE
    /\ kill_threads = [q \in Queues |-> FALSE]
    /\ num_threads = [q \in Queues |-> 0]
    /\ thread = [q \in Queues |-> [k \in 0 .. Threads - 1 |-> "none"]]
    /\ pc = [a \in Actors |-> "out"]
    /\ iter = <<>>
    /\ i = [a \in Actors |-> 0]
-----------------------------------------------------------------------------
\* util_queue_init up to add_to_atexit_list: the threads run.
InitQueue(q) ==
    /\ pc[q] = "out"
    /\ kill_threads' = [kill_threads EXCEPT ![q] = FALSE]
    /\ num_threads' = [num_threads EXCEPT ![q] = Threads]
    /\ thread' = [thread EXCEPT ![q] = [k \in 0 .. Threads - 1 |-> "running"]]
    /\ Goto(q, "add")
    /\ UNCHANGED <<queue_list, exit_mutex, iter, i>>

\* add_to_atexit_list.
AddToList(q) ==
    /\ pc[q] = "add" /\ ~exit_mutex
    /\ queue_list' = <<q>> \o queue_list
    /\ Goto(q, "up")
    /\ UNCHANGED <<exit_mutex, qvars, iter, i>>

\* util_queue_destroy is called, at any time: also while exit() runs in another
\* thread.
Destroy(q) ==
    /\ pc[q] = "up"
    /\ Goto(q, "kill")
    /\ UNCHANGED <<queue_list, exit_mutex, qvars, iter, i>>

\* Mutant: exit_mutex is not taken.
RemoveFromListUnlocked(q) ==
    /\ pc[q] = "remove"
    /\ queue_list' = RemoveFirst(queue_list, q)
    /\ thread' = [thread EXCEPT ![q] = [k \in DOMAIN @ |-> IF @[k] = "joined" THEN "none" ELSE @[k]]]
    /\ Goto(q, "out")
    /\ UNCHANGED <<exit_mutex, kill_threads, num_threads, iter, i>>

\* remove_from_atexit_list, and the memory of the queue is freed.
RemoveFromList(q) ==
    /\ pc[q] = "remove" /\ ~exit_mutex
    /\ queue_list' = RemoveFirst(queue_list, q)
    /\ thread' = [thread EXCEPT ![q] = [k \in DOMAIN @ |-> IF @[k] = "joined" THEN "none" ELSE @[k]]]
    /\ Goto(q, "out")
    /\ UNCHANGED <<exit_mutex, kill_threads, num_threads, iter, i>>

\* A thread of queue q sees kill_threads and ends.  It may never do so, when a job
\* it executes does not return.
ThreadExits(q, k) ==
    /\ thread[q][k] = "running" /\ kill_threads[q]
    /\ thread' = [thread EXCEPT ![q][k] = "exited"]
    /\ UNCHANGED <<queue_list, exit_mutex, kill_threads, num_threads, pc, iter, i>>
-----------------------------------------------------------------------------
(* util_queue_killall_and_wait, by the owner or by the exit handler        *)

\* kill_threads = 1 for the queue, under its lock.
Kill(a) ==
    /\ pc[a] = "kill"
    /\ kill_threads' = [kill_threads EXCEPT ![Target(a)] = TRUE]
    /\ i' = [i EXCEPT ![a] = 0]
    /\ Goto(a, "join")
    /\ UNCHANGED <<queue_list, exit_mutex, num_threads, thread, iter>>

\* The actors inside pthread_join of thread k of queue q.
Joining(q, k) == {a \in Actors : pc[a] = "joining" /\ Target(a) = q /\ i[a] = k}

\* thrd_join is called.  It fails at once when another thread is joining the same
\* thread or has done so; the result is not looked at.
Join(a) ==
    /\ pc[a] = "join" /\ i[a] < num_threads[Target(a)]
    /\ \/ /\ Joining(Target(a), i[a]) = {} /\ thread[Target(a)][i[a]] \in {"running", "exited"}
          /\ Goto(a, "joining")
          /\ UNCHANGED i
       \/ /\ Joining(Target(a), i[a]) # {} \/ thread[Target(a)][i[a]] = "joined"
          /\ i' = [i EXCEPT ![a] = i[a] + 1]
          /\ UNCHANGED pc
    /\ UNCHANGED <<queue_list, exit_mutex, qvars, iter>>

\* thrd_join returns.
Joined(a) ==
    /\ pc[a] = "joining"
    /\ thread[Target(a)][i[a]] = "exited"
    /\ thread' = [thread EXCEPT ![Target(a)][i[a]] = "joined"]
    /\ i' = [i EXCEPT ![a] = i[a] + 1]
    /\ Goto(a, "join")
    /\ UNCHANGED <<queue_list, exit_mutex, kill_threads, num_threads, iter>>

\* Mutant: the handler does not move on to the next queue.
JoinedAllStays(a) ==
    /\ pc[a] = "join" /\ i[a] >= num_threads[Target(a)]
    /\ num_threads' = [num_threads EXCEPT ![Target(a)] = 0]
    /\ i' = [i EXCEPT ![a] = 0]
    /\ Goto(a, IF a = Exit THEN "next" ELSE "remove")
    /\ UNCHANGED <<queue_list, exit_mutex, kill_threads, thread, iter>>

\* The loop over the threads ends.
JoinedAll(a) ==
    /\ pc[a] = "join" /\ i[a] >= num_threads[Target(a)]
    /\ num_threads' = [num_threads EXCEPT ![Target(a)] = 0]
    /\ i' = [i EXCEPT ![a] = 0]
    /\ \/ a # Exit /\ Goto(a, "remove") /\ UNCHANGED iter
       \/ a = Exit /\ Goto(a, "next") /\ iter' = Tail(iter)
    /\ UNCHANGED <<queue_list, exit_mutex, kill_threads, thread>>
-----------------------------------------------------------------------------
(* atexit_handler                                                          *)

\* mtx_lock(&exit_mutex).
ExitLock ==
    /\ pc[Exit] = "out" /\ ~exit_mutex
    /\ exit_mutex' = TRUE
    /\ iter' = queue_list
    /\ Goto(Exit, "next")
    /\ UNCHANGED <<queue_list, qvars, i>>

\* Mutant: the handler stops at the first queue.
ExitNextOnce ==
    /\ pc[Exit] = "next"
    /\ IF iter = queue_list /\ iter # <<>> THEN Goto(Exit, "kill") /\ UNCHANGED <<exit_mutex, iter>>
       ELSE Goto(Exit, "done") /\ exit_mutex' = FALSE /\ iter' = <<>>
    /\ UNCHANGED <<queue_list, qvars, i>>

\* LIST_FOR_EACH_ENTRY goes on to the next queue, or ends with mtx_unlock.
ExitNext ==
    /\ pc[Exit] = "next"
    /\ \/ iter # <<>> /\ Goto(Exit, "kill") /\ UNCHANGED exit_mutex
       \/ iter = <<>> /\ Goto(Exit, "done") /\ exit_mutex' = FALSE
    /\ UNCHANGED <<queue_list, qvars, iter, i>>

KillStep(a) == Kill(a) \/ Join(a) \/ Joined(a) \/ JoinedAll(a)

Next ==
    \/ ExitLock \/ ExitNext
    \/ \E a \in Actors : KillStep(a)
    \/ \E q \in Queues :
          \/ InitQueue(q) \/ AddToList(q) \/ Destroy(q) \/ RemoveFromList(q)
          \/ \E k \in 0 .. Threads - 1 : ThreadExits(q, k)

Spec == Init /\ [][Next]_vars

\* Whoever kills a queue goes on, and so does the handler.  That a worker ends when
\* it is told to is not assumed: it may be at the barrier of a util_queue_finish
\* (util_queue_finish_execute) that never fills up.
Fairness ==
    /\ \A a \in Actors : WF_vars(KillStep(a))
    /\ WF_vars(ExitNext)

FairSpec == Spec /\ Fairness
-----------------------------------------------------------------------------
\* "protected by exit_mutex": a queue the exit handler is working on, or will
\* come to, has not been freed by its owner's util_queue_destroy.
HandlerUsesLiveQueues ==
    \A q \in Range(iter) : pc[q] \in {"up", "kill", "join", "joining", "remove"}

\* "Wait for all queues to assert idle when exit() is called": when the handler
\* returns, no queue on the list has a thread that still runs, unless its owner is
\* in util_queue_destroy at the same time: then the handler may find its
\* threads being joined, does not wait for them, and both give up too early.
ExitWaitsForAll ==
    [][(pc[Exit] = "next" /\ pc'[Exit] = "done") =>
          \A q \in Range(queue_list), k \in 0 .. Threads - 1 :
             pc[q] = "up" => thread[q][k] # "running"]_vars

\* The handler is inside thrd_join of a worker that was told to end and has not.
WaitsForWorker ==
    /\ pc[Exit] = "joining"
    /\ kill_threads[Target(Exit)]
    /\ thread[Target(Exit)][i[Exit]] = "running"

\* exit() hangs only behind a worker that never ends: whoever creates and destroys
\* queues meanwhile, and joins the same threads, the handler returns or stays in
\* thrd_join of one such worker.
ExitReturns == (pc[Exit] = "next") ~> (pc[Exit] = "done" \/ []WaitsForWorker)
=============================================================================
