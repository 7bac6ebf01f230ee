----------------------------- MODULE Completion -----------------------------
(***************************************************************************)
(* What a struct completion promises: as many calls of                     *)
(* wait_for_completion return as there are calls of complete, whoever      *)
(* comes first.  Who is woken and in which order is left open.             *)
(***************************************************************************)
EXTENDS Naturals

CONSTANTS Task, MaxDone
VARIABLES done, waiting

vars == <<done, waiting>>

Init == done = 0 /\ waiting = {}

Complete ==
    /\ done < MaxDone
    /\ done' = done + 1
    /\ UNCHANGED waiting

\* A call that need not wait.
Pass == done > 0 /\ done' = done - 1 /\ UNCHANGED waiting

Wait(t) ==
    /\ done = 0 /\ t \notin waiting
    /\ waiting' = waiting \cup {t}
    /\ UNCHANGED done

Return(t) ==
    /\ done > 0 /\ t \in waiting
    /\ done' = done - 1
    /\ waiting' = waiting \ {t}

Next == Complete \/ Pass \/ \E t \in Task : Wait(t) \/ Return(t)

\* No completion is left for ever while there is somebody who waits for it.
Spec ==
    /\ Init /\ [][Next]_vars
    /\ WF_vars(\E t \in Task : Return(t))
=============================================================================
