---------------------------- MODULE MCShortSched ----------------------------
(***************************************************************************)
(* ShortSched on small instances, and what comments of the code say of the *)
(* scheduler that does not hold of it: each of the properties of this      *)
(* module is checked by a run that ends with a counterexample.             *)
(***************************************************************************)
EXTENDS ShortSched, TLC

CONSTANTS t1, t2, t3

\* Every task but init is like any other.
Sym == Permutations({t2, t3})

\* sched.c:946, where short_active.nr_active is tested: "there is short
\* processes".  A process that is not SHORT never waits in the SHORT array.
OnlyShortInShortActive ==
    \A p \in Members(arrays, "short_active") : task[p].policy = "SHORT"

\* sched.c:851: "all overdue proccess need to be in the same prio".  Two
\* processes in the overdue array have the same priority.
OverdueShareOnePrio ==
    \A p, q \in Members(arrays, "overdue") : task[p].prio = task[q].prio

\* sched.c:945: "policy order :  short > other > overdue_short".  An OTHER
\* process is not in user mode while a SHORT process is ready.
ShortBeforeOther ==
    \A t \in Task :
        curr = t /\ pc[t] = "user" /\ task[t].policy = "OTHER"
            => \A p \in Task : Queued(p) => ~IsShort(task[p])

\* fork.c:723: "Share the timeslice between parent and child, thus the total
\* amount of pending timeslices in the system doesnt change".  do_fork, when it
\* goes on without the extra tick, keeps the sum of the two slices.
ForkKeepsTotal ==
    [][\A t \in Task : pc[t] = "copy" /\ pc'[t] = "linked" =>
           task'[t].time_slice + task'[child[t]].time_slice = task[t].time_slice]_vars

\* sched.c:473: child timeslices are retrieved at exit so that "the parent does
\* not get penalized for creating too many processes".  Reaping a child never
\* shortens the slice of the parent.
ReapNeverShortens ==
    [][\A t, c \in Task : release_task(t, c) =>
           task'[t].time_slice >= task[t].time_slice]_vars

\* A SHORT task that is not overdue has at most the slice of its whole request,
\* an overdue one at most the slice of the overdue period.
WithinTerm(tp) ==
    /\ IsShort(tp) => tp.time_slice <= ShortSlice(tp.requested_time)
    /\ IsOverdue(tp) => tp.time_slice <= OverdueSlice(tp.requested_time)

\* sched.c:478: what sched_exit gives back "cannot be used to 'generate'
\* timeslices artificially, because any timeslice recovered here was given away
\* by the parent".  Two overdue processes, one the parent of the other: reaping
\* the child never gives the parent more time than an overdue period has.
ReapGeneratesNothing ==
    [][\A t, c \in Task :
           /\ release_task(t, c) /\ task[t].is_short = -1 /\ task[c].is_short = -1
           /\ IsOverdue(task[c]) /\ WithinTerm(task[t])
           => WithinTerm(task'[t])]_vars

\* sched.c:1334: a SHORT process that changes its request gets "new time less
\* time that already used", never more than the new request is worth.
ResizeStaysWithinTerm ==
    [][\A t, p \in Task, request \in Requests :
           ResizeShort(t, p, request) /\ WithinTerm(task[p]) => WithinTerm(task'[p])]_vars
=============================================================================
