---------------------------- MODULE SchedPolicy ----------------------------
(***************************************************************************)
(* What the scheduler promises, without arrays, priorities or slices: four *)
(* classes of tasks, a set of tasks that can run, and a CPU that is only   *)
(* ever given to a task of the best class that can run.                    *)
(*                                                                         *)
(* A task enters the SHORT class by a request while it is regular or by    *)
(* being born of a SHORT task; it leaves it only by running: first to the  *)
(* overdue class, from there to the regular one.  Source: the order stated *)
(* in schedule() (sched.c:945) and the life of a SHORT task that           *)
(* setscheduler and scheduler_tick allow (sched.c:1318-1323, 841-860).     *)
(***************************************************************************)
EXTENDS Naturals

CONSTANTS Task, Idle

Class == {"none", "realtime", "short", "other", "overdue"}
Rank == [c \in Class |-> CASE c = "realtime" -> 1
                           [] c = "short"    -> 2
                           [] c = "other"    -> 3
                           [] c = "overdue"  -> 4
                           [] c = "none"     -> 5]
Regular == {"realtime", "other"}

VARIABLES
    class,      \* class[p] is "none" when there is no task p
    ready,      \* the tasks that can run
    cpu         \* the task that has the CPU, or Idle

pvars == <<class, ready, cpu>>

PolicyInit ==
    /\ class \in [Task -> {"none", "other"}]
    /\ ready = {p \in Task : class[p] # "none"}
    /\ cpu \in ready

Best(set) == {p \in set : \A q \in set : Rank[class[p]] <= Rank[class[q]]}

\* The CPU changes hands; the task that had it may stop being able to run.
Switch ==
    /\ ready' \in {ready, ready \ {cpu}}
    /\ IF ready' = {} THEN cpu' = Idle ELSE cpu' \in Best(ready')
    /\ UNCHANGED class

Wake(p) ==
    /\ class[p] # "none"
    /\ ready' = ready \cup {p}
    /\ UNCHANGED <<class, cpu>>

Become(p, c) ==
    /\ class' = [class EXCEPT ![p] = c]
    /\ UNCHANGED <<ready, cpu>>

\* Requests on the policy of a task.
Request(p) == class[p] = "other" /\ Become(p, "short")
ChangeRegular(p, c) == class[p] \in Regular /\ Become(p, c)

\* Only the task that has the CPU uses up its time.
UseUp(p) ==
    /\ cpu = p
    /\ \/ class[p] = "short" /\ Become(p, "overdue")
       \/ class[p] = "overdue" /\ Become(p, "other")

\* A child of a SHORT task is SHORT, nobody else has SHORT children.  A parent
\* whose overdue period ends inside do_fork has an overdue child.
Born(c, as) ==
    /\ class[c] = "none" /\ cpu \in Task
    /\ as = "short" <=> class[cpu] = "short"
    /\ as \in Regular => class[cpu] \in Regular
    /\ Become(c, as)

Vanish(p) ==
    /\ p \notin ready
    /\ Become(p, "none")

PolicyNext ==
    \/ Switch
    \/ \E p \in Task :
        \/ Wake(p) \/ Request(p) \/ UseUp(p) \/ Vanish(p)
        \/ \E c \in Regular : ChangeRegular(p, c)
        \/ \E c \in Class \ {"none"} : Born(p, c)

PolicySpec == PolicyInit /\ [][PolicyNext]_pvars
=============================================================================
