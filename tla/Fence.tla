-------------------------------- MODULE Fence --------------------------------
(***************************************************************************)
(* What a util_queue_fence promises: a wait returns only when the fence is *)
(* signalled, or, for a wait with a timeout, because the time is over.     *)
(* Both builds of the fence (FutexFence and CondFence) implement it.       *)
(***************************************************************************)

CONSTANT Threads

VARIABLES signalled,  \* util_queue_fence_is_signalled
          waiting,    \* threads inside util_queue_fence_wait[_timeout]
          timed       \* those of them that have a timeout

vars == <<signalled, waiting, timed>>

Init == signalled = TRUE /\ waiting = {} /\ timed = {}

\* Only a signalled fence nobody waits for may be reset.
Reset ==
    /\ signalled /\ waiting = {}
    /\ signalled' = FALSE
    /\ UNCHANGED <<waiting, timed>>

Signal ==
    /\ ~signalled
    /\ signalled' = TRUE
    /\ UNCHANGED <<waiting, timed>>

\* A wait that finds the fence signalled returns at once and is no step.
Wait(t) ==
    /\ t \notin waiting
    /\ ~signalled
    /\ waiting' = waiting \cup {t}
    /\ timed' \in {timed, timed \cup {t}}
    /\ UNCHANGED signalled

Return(t) ==
    /\ t \in waiting
    /\ signalled \/ t \in timed
    /\ waiting' = waiting \ {t}
    /\ timed' = timed \ {t}
    /\ UNCHANGED signalled

Next == Reset \/ Signal \/ \E t \in Threads : Wait(t) \/ Return(t)

Spec == Init /\ [][Next]_vars

=============================================================================
