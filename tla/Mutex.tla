-------------------------------- MODULE Mutex --------------------------------
(***************************************************************************)
(* What a mutex promises to the code that uses it: a thread asks for the   *)
(* lock, holds it alone, and gives it back.  simple_mtx_t (SimpleMtx.tla)  *)
(* implements this module, and every other module of the project relies on *)
(* it when it treats a critical section as one step.                       *)
(***************************************************************************)

CONSTANT Threads

VARIABLES holders,  \* the threads inside the critical section
          waiting   \* the threads between the call of lock and its return

vars == <<holders, waiting>>

Init == holders = {} /\ waiting = {}

Request(t) ==
    /\ t \notin holders \cup waiting
    /\ waiting' = waiting \cup {t}
    /\ UNCHANGED holders

Acquire(t) ==
    /\ t \in waiting
    /\ holders = {}
    /\ holders' = {t}
    /\ waiting' = waiting \ {t}

\* The uncontended path: lock returns at once.
TryAcquire(t) ==
    /\ t \notin waiting
    /\ holders = {}
    /\ holders' = {t}
    /\ UNCHANGED waiting

Release(t) ==
    /\ holders = {t}
    /\ holders' = {}
    /\ UNCHANGED waiting

Next == \E t \in Threads : Request(t) \/ Acquire(t) \/ TryAcquire(t) \/ Release(t)

Spec == Init /\ [][Next]_vars

=============================================================================
