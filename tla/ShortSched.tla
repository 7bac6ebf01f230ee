---------------------------- MODULE ShortSched ----------------------------
(***************************************************************************)
(* The uniprocessor O(1) scheduler of OS/kernel with the SCHED_SHORT       *)
(* policy: one run queue, four priority arrays, the system calls that      *)
(* change them, do_fork, exit and reaping, and the interrupts (timer tick  *)
(* and wake-up) that come between their steps.                             *)
(*                                                                         *)
(* There is no kernel preemption: a task in kernel mode gives up the CPU   *)
(* only where it calls schedule(), but an interrupt can come at any step   *)
(* at which interrupts are enabled.  pc[t] says where task t is:           *)
(*    user     in user mode                                                *)
(*    entry    in a system call, before its work is done                   *)
(*    exit     on the way back to user mode (ret_from_sys_call)            *)
(*    yield    in sys_sched_yield, interrupts off, about to schedule()     *)
(*    copy     in do_fork, copying the process; it may sleep there         *)
(*    share    in do_fork, interrupts off, about to call scheduler_tick    *)
(*    linked   in do_fork, the child is linked and about to be woken       *)
(*    wakeshort, wakeplain   in do_fork, the wake-up function is chosen    *)
(*    dead     past exit_notify                                            *)
(*    new      a child not linked yet;  born: linked but not woken yet     *)
(*    none     a free task_struct                                          *)
(*                                                                         *)
(* sleep_avg, sleep_timestamp and expired_timestamp are abstracted: the    *)
(* bonus of effective_prio and the verdict of TASK_INTERACTIVE are any     *)
(* value that they can take.                                               *)
(***************************************************************************)
EXTENDS ShortTime, PrioArray

CONSTANTS
    Init1,          \* the init process (child_reaper)
    Idle,           \* the idle task of the run queue
    WILD,           \* what list_entry returns for an empty list
    BONUS,          \* the bonus of effective_prio is in -BONUS .. BONUS
    NICE_RANGE,     \* 39 in TASK_TIMESLICE: the distance of nice -20 to nice 19
    Requests,       \* values of requested_time that the system calls try
    Nices,          \* static priorities that sys_nice and setpriority try
    Policies,       \* policies that setscheduler tries
    RtPriorities,   \* values of sched_priority tried with SCHED_FIFO, SCHED_RR
    SleepStates,    \* the states in which a system call may sleep
    RacyFork        \* may a task turn SHORT while it sleeps inside do_fork?

Policy == {"OTHER", "FIFO", "RR", "SHORT"}
UserPrio == MAX_RT_PRIO .. MAX_PRIO - 1
TaskState == {"RUNNING", "INTERRUPTIBLE", "UNINTERRUPTIBLE", "ZOMBIE"}

ASSUME InitAssumption == Init1 \in Task /\ Idle \notin Task /\ WILD \notin Task \cup {Idle}
ASSUME BonusAssumption == BONUS \in Nat /\ NICE_RANGE \in Nat \ {0}
ASSUME InputAssumption ==
    /\ Requests \subseteq Nat
    /\ Nices \subseteq UserPrio
    /\ Policies \subseteq Policy
    /\ RtPriorities \subseteq 1 .. MAX_RT_PRIO - 1
    /\ SleepStates \subseteq {"INTERRUPTIBLE", "UNINTERRUPTIBLE"}
    /\ RacyFork \in BOOLEAN

VARIABLES
    task,               \* the task_structs
    need_resched,       \* of the tasks and of Idle
    pc, child,          \* where a task is in the kernel; the child do_fork makes
    arrays,             \* the four prio_array_t of the run queue
    active,             \* which of arrays[0] and arrays[1] is rq->active
    nr_running, nr_uninterruptible, curr

queues == <<arrays, active, nr_running, nr_uninterruptible>>
vars == <<task, need_resched, pc, child, queues, curr>>

Pc == {"none", "new", "born", "user", "entry", "exit", "yield", "copy", "share",
       "linked", "wakeshort", "wakeplain", "dead"}
NULL == "NULL"

TaskRecord ==
    [policy : Policy, is_short : {-1, 0, 1}, requested_time : Nat,
     time_slice : Nat, first_time_slice : BOOLEAN, static_prio : UserPrio,
     prio : Prio, state : TaskState, array : ArrayId \cup {NULL}, parent : Task]

Expired == IF active = "array0" THEN "array1" ELSE "array0"

\* The tasks that find_task_by_pid and for_each_task find.
Linked(p) == pc[p] \notin {"none", "new"}

IsRt(tp) == tp.prio < MAX_RT_PRIO
\* Variant with a defect: the idle task has the last priority of a real task.
IdleHasTaskPrio == IF curr = Idle THEN MAX_PRIO - 1 ELSE task[curr].prio
CurrPrio == IF curr = Idle THEN MAX_PRIO ELSE task[curr].prio

TASK_TIMESLICE(static_prio) ==
    MIN_TIMESLICE +
    ((MAX_TIMESLICE - MIN_TIMESLICE) * (MAX_PRIO - 1 - static_prio)) \div NICE_RANGE

Clamped(prio) ==
    IF prio < MAX_RT_PRIO THEN MAX_RT_PRIO
    ELSE IF prio > MAX_PRIO - 1 THEN MAX_PRIO - 1 ELSE prio

\* effective_prio(p) for every sleep average.
EffectivePrios(tp) == {Clamped(tp.static_prio - bonus) : bonus \in -BONUS .. BONUS}

FreeTask ==
    [policy |-> "OTHER", is_short |-> 0, requested_time |-> 0, time_slice |-> 1,
     first_time_slice |-> FALSE, static_prio |-> MAX_RT_PRIO,
     prio |-> MAX_RT_PRIO, state |-> "UNINTERRUPTIBLE", array |-> NULL,
     parent |-> Init1]

\* The first state: init runs alone, in user mode, under SCHED_OTHER.
Init ==
    /\ task = [p \in Task |->
                IF p = Init1
                THEN [FreeTask EXCEPT !.time_slice = TASK_TIMESLICE(MAX_RT_PRIO),
                                      !.state = "RUNNING", !.array = "array0"]
                ELSE FreeTask]
    /\ need_resched = [p \in Task \cup {Idle} |-> FALSE]
    /\ pc = [p \in Task |-> IF p = Init1 THEN "user" ELSE "none"]
    /\ child = [p \in Task |-> p]
    /\ arrays = Enqueue([a \in ArrayId |-> EmptyArray], "array0", MAX_RT_PRIO, Init1)
    /\ active = "array0"
    /\ nr_running = 1
    /\ nr_uninterruptible = 0
    /\ curr = Init1
-----------------------------------------------------------------------------
(* Moving a task between the arrays                                        *)

\* Variant with a defect: an overdue task is activated among the SHORT ones.
ActivateForgetsOverdue(tp) == IF tp.policy = "SHORT" THEN "short_active" ELSE active

\* The array that activate_task chooses.
ActivateArray(tp) ==
    IF tp.policy = "SHORT"
    THEN IF tp.is_short = 1 THEN "short_active" ELSE "overdue"
    ELSE active

\* activate_task: the priority of a task that slept is computed again.
ActivatePrios(tp) ==
    IF IsRt(tp) \/ tp.policy = "SHORT" THEN {tp.prio}
    ELSE {tp.prio} \cup EffectivePrios(tp)

\* activate_task(p, rq), p's fields being tp; the lists before it are "from".
Activate(p, tp, from) ==
    \E prio \in ActivatePrios(tp) :
        /\ task' = [task EXCEPT ![p] = [tp EXCEPT !.prio = prio,
                                                  !.array = ActivateArray(tp)]]
        /\ arrays' = Enqueue(from, ActivateArray(tp), prio, p)

\* Variant with a defect: the priority changes before the task is dequeued.
RequeueByNewPrio(p, from, to, tp) ==
    /\ task' = [task EXCEPT ![p] = [tp EXCEPT !.array = to]]
    /\ arrays' = Enqueue(Dequeue(arrays, from, tp.prio, p), to, tp.prio, p)

\* dequeue_task(p, from) followed by enqueue_task(p, to), p's fields becoming tp.
Requeue(p, from, to, tp) ==
    /\ task' = [task EXCEPT ![p] = [tp EXCEPT !.array = to]]
    /\ arrays' = Enqueue(Dequeue(arrays, from, task[p].prio, p), to, tp.prio, p)

SetNeedResched == need_resched' = [need_resched EXCEPT ![curr] = TRUE]
-----------------------------------------------------------------------------
(* The timer interrupt                                                     *)

InterruptsOn ==
    /\ curr # WILD
    /\ curr \in Task => pc[curr] \notin {"yield", "share"}

\* An interrupt from user mode returns through ret_from_sys_call.
ReturnFromInterrupt ==
    pc' = IF curr \in Task /\ pc[curr] = "user" THEN [pc EXCEPT ![curr] = "exit"] ELSE pc

OnTickingArray(p) == task[p].array \in {active, "short_active", "overdue"}
SliceEnds(p) == Decremented(task[p].time_slice) = 0
TickedDown(p) == [task[p] EXCEPT !.time_slice = Decremented(@)]
Refilled(p) ==
    [task[p] EXCEPT !.time_slice = TASK_TIMESLICE(task[p].static_prio),
                    !.first_time_slice = FALSE]

TickExpired(p) ==
    /\ ~OnTickingArray(p)
    /\ SetNeedResched
    /\ UNCHANGED <<task, arrays>>

TickRealTime(p) ==
    /\ OnTickingArray(p) /\ IsRt(task[p])
    /\ IF task[p].policy # "RR"
       THEN UNCHANGED <<task, arrays, need_resched>>
       ELSE IF SliceEnds(p)
       THEN Requeue(p, active, active, Refilled(p)) /\ SetNeedResched
       ELSE /\ task' = [task EXCEPT ![p] = TickedDown(p)]
            /\ UNCHANGED <<arrays, need_resched>>

TickRunning(p) ==
    /\ OnTickingArray(p) /\ ~IsRt(task[p]) /\ ~SliceEnds(p)
    /\ task' = [task EXCEPT ![p] = TickedDown(p)]
    /\ UNCHANGED <<arrays, need_resched>>

\* An interactive task goes back to the active array, another one expires.
TickEndsRegular(p) ==
    /\ OnTickingArray(p) /\ ~IsRt(task[p]) /\ SliceEnds(p)
    /\ task[p].policy # "SHORT"
    /\ \E prio \in EffectivePrios(task[p]), to \in {active, Expired} :
           Requeue(p, active, to, [Refilled(p) EXCEPT !.prio = prio])
    /\ SetNeedResched

TickEndsShort(p) ==
    /\ OnTickingArray(p) /\ ~IsRt(task[p]) /\ SliceEnds(p)
    /\ task[p].policy = "SHORT" /\ task[p].is_short = 1
    /\ Requeue(p, task[p].array, "overdue",
               [task[p] EXCEPT !.prio = MAX_PRIO - 1, !.is_short = -1,
                               !.time_slice = OverdueSlice(task[p].requested_time),
                               !.first_time_slice = FALSE])
    /\ SetNeedResched

TickEndsOverdue(p) ==
    /\ OnTickingArray(p) /\ ~IsRt(task[p]) /\ SliceEnds(p)
    /\ task[p].policy = "SHORT" /\ task[p].is_short # 1
    /\ \E prio \in EffectivePrios(task[p]) :
           Requeue(p, task[p].array, active,
                   [Refilled(p) EXCEPT !.policy = "OTHER", !.prio = prio])
    /\ SetNeedResched

scheduler_tick(p) ==
    /\ \/ TickExpired(p)
       \/ TickRealTime(p)
       \/ TickRunning(p)
       \/ TickEndsRegular(p)
       \/ TickEndsShort(p)
       \/ TickEndsOverdue(p)
    /\ UNCHANGED <<active, nr_running, nr_uninterruptible, curr>>

\* On an idle CPU scheduler_tick only counts time.
Tick ==
    /\ InterruptsOn /\ curr \in Task
    /\ scheduler_tick(curr)
    /\ ReturnFromInterrupt
    /\ UNCHANGED child
-----------------------------------------------------------------------------
(* schedule()                                                              *)

\* Where the kernel calls schedule(): the task blocks, died or yields, or the
\* flag is found set on the way to user mode (or in schedule's own loop).
MustSchedule ==
    IF curr = Idle THEN need_resched[Idle]
    ELSE /\ curr \in Task
         /\ \/ task[curr].state # "RUNNING"
            \/ pc[curr] = "yield"
            \/ need_resched[curr] /\ pc[curr] \in {"entry", "copy", "exit"}

\* Does schedule() deactivate the previous task?  A pending signal cancels an
\* interruptible sleep.
MayLeave ==
    IF curr = Idle \/ task[curr].state = "RUNNING" THEN {FALSE}
    ELSE IF task[curr].state = "INTERRUPTIBLE" THEN BOOLEAN ELSE {TRUE}

\* Variants with a defect: the order that the code had first (OTHER before
\* SHORT), and the right order without the look at the real-time priorities.
PickOtherFirst(lists, act, bit) ==
    IF lists[act].nr_active # 0 THEN act
    ELSE IF lists["short_active"].nr_active # 0 THEN "short_active" ELSE "overdue"
PickForgetsRealTime(lists, act, bit) ==
    IF lists["short_active"].nr_active # 0 THEN "short_active"
    ELSE IF lists[act].nr_active = 0 THEN "overdue" ELSE act

PickedArray(lists, act, bit) ==
    IF bit > MAX_RT_PRIO - 1 /\ lists["short_active"].nr_active # 0
    THEN "short_active"
    ELSE IF lists[act].nr_active = 0 THEN "overdue" ELSE act

\* The first task of the best list of the array that is picked.
Picks(lists, act, next) ==
    \E bit, idx \in 0 .. MAX_PRIO :
        LET picked == lists[PickedArray(lists, act, bit)] IN
        /\ IsFirstBit(lists[act].bitmap, bit)
        /\ IsFirstBit(picked.bitmap, idx)
        /\ next = IF idx = MAX_PRIO \/ picked.queue[idx] = << >>
                  THEN WILD ELSE Head(picked.queue[idx])

\* lists and running: the run queue once prev is off it.  An empty active array
\* is swapped with the expired one.
PickNext(lists, running) ==
    IF running = 0
    THEN curr' = Idle /\ UNCHANGED active
    ELSE LET act == IF lists[active].nr_active = 0 THEN Expired ELSE active IN
         /\ active' = act
         /\ \E next \in Task \cup {WILD} : Picks(lists, act, next) /\ curr' = next

\* Variant with a defect: deactivate_task does not count the sleeper.
LeaveCpuUncounted ==
    /\ arrays' = Dequeue(arrays, task[curr].array, task[curr].prio, curr)
    /\ nr_running' = nr_running - 1
    /\ task' = [task EXCEPT ![curr].array = NULL]
    /\ UNCHANGED nr_uninterruptible

LeaveCpu ==
    /\ arrays' = Dequeue(arrays, task[curr].array, task[curr].prio, curr)
    /\ nr_running' = nr_running - 1
    /\ nr_uninterruptible' =
           nr_uninterruptible + (IF task[curr].state = "UNINTERRUPTIBLE" THEN 1 ELSE 0)
    /\ task' = [task EXCEPT ![curr].array = NULL]

StayRunnable ==
    /\ task' = IF curr = Idle THEN task ELSE [task EXCEPT ![curr].state = "RUNNING"]
    /\ UNCHANGED <<arrays, nr_running, nr_uninterruptible>>

schedule ==
    /\ MustSchedule
    /\ \/ TRUE \in MayLeave /\ LeaveCpu
       \/ FALSE \in MayLeave /\ StayRunnable
    /\ PickNext(arrays', nr_running')
    /\ need_resched' = [need_resched EXCEPT ![curr] = FALSE]
    /\ pc' = IF curr \in Task /\ pc[curr] = "yield" THEN [pc EXCEPT ![curr] = "exit"] ELSE pc
    /\ UNCHANGED child
-----------------------------------------------------------------------------
(* Sleeping, waking and the way in and out of the kernel                   *)

\* The current task, in kernel mode at "at" and not about to sleep.
Runs(t, at) == curr = t /\ pc[t] = at /\ task[t].state = "RUNNING"

Goto(t, to) == pc' = [pc EXCEPT ![t] = to]

SystemCall(t) ==
    /\ Runs(t, "user")
    /\ Goto(t, "entry")
    /\ UNCHANGED <<task, need_resched, child, queues, curr>>

\* A system call that changes nothing here, or whose checks fail.
NoEffect(t) ==
    /\ Runs(t, "entry")
    /\ Goto(t, "exit")
    /\ UNCHANGED <<task, need_resched, child, queues, curr>>

ReturnToUser(t) ==
    /\ Runs(t, "exit")
    /\ ~need_resched[t]
    /\ Goto(t, "user")
    /\ UNCHANGED <<task, need_resched, child, queues, curr>>

\* A system call sets its state before it calls schedule().
SetState(t, state) ==
    /\ Runs(t, "entry") \/ Runs(t, "copy")
    /\ task' = [task EXCEPT ![t].state = state]
    /\ UNCHANGED <<need_resched, pc, child, queues, curr>>

\* try_to_wake_up, by an interrupt or by the current task.
try_to_wake_up(p) ==
    /\ InterruptsOn
    /\ Linked(p) /\ pc[p] # "born"
    /\ task[p].state \in {"INTERRUPTIBLE", "UNINTERRUPTIBLE"}
    /\ IF task[p].array = NULL
       THEN /\ nr_uninterruptible' =
                  nr_uninterruptible - (IF task[p].state = "UNINTERRUPTIBLE" THEN 1 ELSE 0)
            /\ Activate(p, [task[p] EXCEPT !.state = "RUNNING"], arrays)
            /\ nr_running' = nr_running + 1
            /\ IF task'[p].prio < CurrPrio THEN SetNeedResched ELSE UNCHANGED need_resched
       ELSE /\ task' = [task EXCEPT ![p].state = "RUNNING"]
            /\ UNCHANGED <<arrays, nr_running, nr_uninterruptible, need_resched>>
    /\ ReturnFromInterrupt
    /\ UNCHANGED <<child, active, curr>>
-----------------------------------------------------------------------------
(* System calls on the policy and the priority of a task                   *)

\* Variant with a defect: a task is put on the run queue even if it was not on it.
ReactivateAlways(p, tp) ==
    /\ Activate(p, tp, IF task[p].array = NULL THEN arrays
                        ELSE Dequeue(arrays, task[p].array, task[p].prio, p))
    /\ nr_running' = nr_running + (IF task[p].array = NULL THEN 1 ELSE 0)
    /\ UNCHANGED <<active, nr_uninterruptible, child, curr>>

\* setscheduler's last part: a queued task is taken off and put back with its
\* new fields tp, any other one only changes.
Reactivate(p, tp) ==
    /\ IF task[p].array = NULL
       THEN task' = [task EXCEPT ![p] = tp] /\ UNCHANGED <<arrays, nr_uninterruptible>>
       ELSE /\ Activate(p, tp, Dequeue(arrays, task[p].array, task[p].prio, p))
            /\ nr_uninterruptible' =
                 nr_uninterruptible + (IF task[p].state = "UNINTERRUPTIBLE" THEN 1 ELSE 0)
    /\ UNCHANGED <<active, nr_running, child, curr>>

\* Variant with a defect: the policy that p has now is not looked at.
BecomeShortUnchecked(t, p, request) ==
    /\ Runs(t, "entry") /\ Linked(p) /\ "SHORT" \in Policies
    /\ RequestInRange(request)
    /\ Reactivate(p, [task[p] EXCEPT !.policy = "SHORT", !.is_short = 1,
                                     !.requested_time = AtLeastOne(request),
                                     !.time_slice = ShortSlice(request),
                                     !.prio = task[p].static_prio])
    /\ SetNeedResched
    /\ Goto(t, "exit")

\* An OTHER task becomes SHORT.  With RacyFork FALSE not while it is in do_fork.
BecomeShort(t, p, request) ==
    /\ Runs(t, "entry") /\ Linked(p) /\ "SHORT" \in Policies
    /\ RequestInRange(request)
    /\ task[p].policy = "OTHER"
    /\ RacyFork \/ pc[p] # "copy"
    /\ Reactivate(p, [task[p] EXCEPT !.policy = "SHORT", !.is_short = 1,
                                     !.requested_time = AtLeastOne(request),
                                     !.time_slice = ShortSlice(request),
                                     !.prio = task[p].static_prio])
    /\ SetNeedResched
    /\ Goto(t, "exit")

\* A SHORT task that is not overdue changes its request.
ResizeShort(t, p, request) ==
    /\ Runs(t, "entry") /\ Linked(p)
    /\ RequestInRange(request)
    /\ task[p].policy = "SHORT" /\ task[p].is_short # -1
    /\ ResizeAccepted(request, task[p].requested_time, task[p].time_slice)
    /\ Reactivate(p, [task[p] EXCEPT
            !.requested_time = AtLeastOne(request),
            !.time_slice = ResizedSlice(request, task[p].requested_time, @),
            !.prio = task[p].static_prio])
    /\ Goto(t, "exit")
    /\ UNCHANGED need_resched

\* A task that is not SHORT gets a policy that is not SHORT.
SetOther(t, p) ==
    /\ Runs(t, "entry") /\ Linked(p) /\ "OTHER" \in Policies
    /\ task[p].policy # "SHORT"
    /\ Reactivate(p, [task[p] EXCEPT !.policy = "OTHER", !.prio = task[p].static_prio])
    /\ Goto(t, "exit")
    /\ UNCHANGED need_resched

SetRealTime(t, p, policy, sched_priority) ==
    /\ Runs(t, "entry") /\ Linked(p) /\ policy \in Policies
    /\ task[p].policy # "SHORT"
    /\ Reactivate(p, [task[p] EXCEPT !.policy = policy,
                                     !.prio = MAX_RT_PRIO - 1 - sched_priority])
    /\ Goto(t, "exit")
    /\ UNCHANGED need_resched

\* set_user_nice: an overdue task keeps its priority, a real-time one too.
set_user_nice(t, p, nice) ==
    LET old == task[p]
        new == [old EXCEPT !.static_prio = nice,
                           !.prio = IF old.is_short = -1 /\ old.policy = "SHORT"
                                    THEN @ ELSE nice]
    IN  /\ Runs(t, "entry") /\ Linked(p) /\ old.static_prio # nice
        /\ IF IsRt(old) \/ old.array = NULL
           THEN /\ task' = [task EXCEPT ![p] =
                       IF IsRt(old) THEN [old EXCEPT !.static_prio = nice] ELSE new]
                /\ UNCHANGED <<arrays, need_resched>>
           ELSE /\ Requeue(p, old.array, old.array, new)
                /\ IF nice < old.static_prio \/ p = curr
                   THEN SetNeedResched ELSE UNCHANGED need_resched
        /\ Goto(t, "exit")
        /\ UNCHANGED <<child, active, nr_running, nr_uninterruptible, curr>>
-----------------------------------------------------------------------------
(* sys_sched_yield                                                         *)

\* list_add(p, the first element): p becomes the second, or the only one.
AfterFirst(s, p) == IF s = << >> THEN <<p>> ELSE <<Head(s), p>> \o Tail(s)

\* Alone on its list, an OTHER task drops to the next priority in use.
YieldDown(t, unlinked) ==
    LET a == task[t].array
        bits == arrays[a].bitmap \ {task[t].prio}
    IN  \E i \in 0 .. MAX_PRIO :
            /\ IsFirstBit(bits, i)
            /\ LET prio == IF i = MAX_PRIO \/ i <= task[t].prio THEN task[t].prio ELSE i IN
               /\ task' = [task EXCEPT ![t].prio = prio]
               /\ arrays' = SetBitmap(SetList(unlinked, a, prio,
                                              AfterFirst(unlinked[a].queue[prio], t)),
                                      a, bits \cup {prio})

sys_sched_yield(t) ==
    LET a == task[t].array
        prio == task[t].prio
        unlinked == Unlinked(arrays, t)
    IN  /\ Runs(t, "entry")
        /\ IF task[t].policy = "SHORT"
           THEN Activate(t, task[t], Dequeue(arrays, a, prio, t))
           ELSE IF IsRt(task[t])
           THEN /\ arrays' = SetList(unlinked, a, prio, Append(unlinked[a].queue[prio], t))
                /\ UNCHANGED task
           ELSE IF unlinked[a].queue[prio] # << >>
           THEN /\ arrays' = SetList(unlinked, a, prio, AfterFirst(unlinked[a].queue[prio], t))
                /\ UNCHANGED task
           ELSE YieldDown(t, unlinked)
        /\ Goto(t, "yield")
        /\ UNCHANGED <<need_resched, child, active, nr_running, nr_uninterruptible, curr>>
-----------------------------------------------------------------------------
(* do_fork                                                                 *)

\* *p = *current, then the fields that are reset before the first sleep.
ForkCopy(t, c) ==
    /\ Runs(t, "entry")
    /\ pc[c] = "none"
    /\ task' = [task EXCEPT ![c] = [task[t] EXCEPT !.state = "UNINTERRUPTIBLE",
                                                   !.requested_time = 0,
                                                   !.is_short = 0, !.array = NULL]]
    /\ need_resched' = [need_resched EXCEPT ![c] = need_resched[t]]
    /\ pc' = [pc EXCEPT ![t] = "copy", ![c] = "new"]
    /\ child' = [child EXCEPT ![t] = c]
    /\ UNCHANGED <<queues, curr>>

\* A resource is missing: everything is undone, the task_struct is freed.
ForkFail(t) ==
    /\ Runs(t, "copy")
    /\ task' = [task EXCEPT ![child[t]] = FreeTask]
    /\ need_resched' = [need_resched EXCEPT ![child[t]] = FALSE]
    /\ pc' = [pc EXCEPT ![t] = "exit", ![child[t]] = "none"]
    /\ child' = [child EXCEPT ![t] = t]
    /\ UNCHANGED <<queues, curr>>

\* The slice is shared: an overdue parent gives its child a copy of the whole
\* slice, any other one the larger half, and a parent left with nothing gets
\* one jiffy that a tick takes away at once.
SharesWhole(tp) == tp.policy = "SHORT" /\ tp.is_short = -1
SliceLeft(tp) ==
    IF SharesWhole(tp) THEN tp.time_slice ELSE ForkParentSlice(tp.time_slice)

ParentFields(tp) == [tp EXCEPT !.time_slice = AtLeastOne(SliceLeft(tp))]

ChildFields(tc, parent) ==
    LET tp == task[parent] IN
    [tc EXCEPT !.prio = IF tp.policy = "SHORT" THEN tp.prio ELSE @,
               !.requested_time = tp.requested_time,
               !.is_short = IF tp.policy # "SHORT" /\ tp.is_short = -1 THEN 0 ELSE tp.is_short,
               !.time_slice = IF SharesWhole(tp) THEN tp.time_slice
                              ELSE ForkChildSlice(tp.time_slice),
               !.first_time_slice = TRUE,
               !.parent = parent]

\* The child is linked in the same step: nothing comes between but the tick.
ForkShare(t) ==
    LET c == child[t] IN
    /\ Runs(t, "copy")
    /\ task[t].time_slice # 0       \* else BUG()
    /\ task' = [task EXCEPT ![t] = ParentFields(task[t]), ![c] = ChildFields(task[c], t)]
    /\ pc' = [pc EXCEPT ![t] = IF SliceLeft(task[t]) = 0 THEN "share" ELSE "linked",
                        ![c] = "born"]
    /\ UNCHANGED <<need_resched, child, queues, curr>>

\* scheduler_tick(0, 0), still with interrupts off.
ForkTick(t) ==
    /\ Runs(t, "share")
    /\ scheduler_tick(t)
    /\ Goto(t, "linked")
    /\ UNCHANGED child

\* The parent's is_short is read before the run queue is locked.
ForkChoose(t) ==
    /\ Runs(t, "linked")
    /\ Goto(t, IF task[t].is_short = 1 THEN "wakeshort" ELSE "wakeplain")
    /\ UNCHANGED <<task, need_resched, child, queues, curr>>

ForkDone(t) ==
    /\ SetNeedResched
    /\ pc' = [pc EXCEPT ![t] = "exit", ![child[t]] = "exit"]
    /\ child' = [child EXCEPT ![t] = t]
    /\ UNCHANGED <<active, nr_uninterruptible, curr>>

ForkedPrios(tp) ==
    IF IsRt(tp) \/ tp.policy = "SHORT" THEN {tp.prio} ELSE EffectivePrios(tp)

wake_up_forked_process(t) ==
    LET c == child[t] IN
    /\ Runs(t, "wakeplain")
    /\ \E prio \in ForkedPrios(task[c]) :
           Activate(c, [task[c] EXCEPT !.state = "RUNNING", !.prio = prio], arrays)
    /\ nr_running' = nr_running + 1
    /\ ForkDone(t)

\* The child goes to the head of its short list, the father to the tail of his.
wake_up_short_forked_process(t) ==
    LET c == child[t]
        father == task[t]
        to == ActivateArray(father)
    IN  /\ Runs(t, "wakeshort")
        /\ IF task[c].is_short # 1
           THEN UNCHANGED <<task, arrays, nr_running>>
           ELSE \E prio \in ForkedPrios(task[c]), fprio \in ActivatePrios(father) :
                /\ task' = [task EXCEPT
                       ![c] = [task[c] EXCEPT !.state = "RUNNING", !.prio = prio,
                                              !.array = "short_active"],
                       ![t] = [father EXCEPT !.prio = fprio, !.array = to]]
                /\ arrays' = Enqueue(Dequeue(EnqueueHead(arrays, "short_active", prio, c),
                                             father.array, father.prio, t),
                                     to, fprio, t)
                /\ nr_running' = nr_running + 1
        /\ ForkDone(t)
-----------------------------------------------------------------------------
(* Exit and reaping                                                        *)

\* exit_notify: the children go to init and their slices are not given back.
do_exit(t) ==
    /\ Runs(t, "entry") /\ t # Init1
    /\ task' = [p \in Task |->
          IF p = t THEN [task[p] EXCEPT !.state = "ZOMBIE"]
          ELSE IF Linked(p) /\ task[p].parent = t
          THEN [task[p] EXCEPT !.parent = Init1, !.first_time_slice = FALSE]
          ELSE task[p]]
    /\ Goto(t, "dead")
    /\ UNCHANGED <<need_resched, child, queues, curr>>

\* sys_wait4 finds a zombie child: release_task, with sched_exit.
release_task(t, c) ==
    /\ Runs(t, "entry")
    /\ Linked(c) /\ task[c].state = "ZOMBIE" /\ task[c].parent = t
    /\ task' = [task EXCEPT
          ![c] = FreeTask,
          ![t] = [task[t] EXCEPT !.time_slice =
                      IF task[c].first_time_slice
                      THEN ReturnedSlice(@, task[c].time_slice) ELSE @]]
    /\ need_resched' = [need_resched EXCEPT ![c] = FALSE]
    /\ pc' = [pc EXCEPT ![t] = "exit", ![c] = "none"]
    /\ UNCHANGED <<child, queues, curr>>
-----------------------------------------------------------------------------
SchedulerCall(t) ==
    \/ sys_sched_yield(t)
    \/ \E p \in Task :
        \/ \E request \in Requests : BecomeShort(t, p, request) \/ ResizeShort(t, p, request)
        \/ SetOther(t, p)
        \/ \E policy \in {"FIFO", "RR"}, sched_priority \in RtPriorities :
               SetRealTime(t, p, policy, sched_priority)
        \/ \E nice \in Nices : set_user_nice(t, p, nice)

Fork(t) ==
    \/ \E c \in Task : ForkCopy(t, c)
    \/ ForkFail(t) \/ ForkShare(t) \/ ForkTick(t) \/ ForkChoose(t)
    \/ wake_up_forked_process(t) \/ wake_up_short_forked_process(t)

TaskStep(t) ==
    \/ SystemCall(t) \/ NoEffect(t) \/ ReturnToUser(t)
    \/ \E state \in SleepStates : SetState(t, state)
    \/ SchedulerCall(t)
    \/ Fork(t)
    \/ do_exit(t)
    \/ \E c \in Task : release_task(t, c)

Next ==
    \/ Tick
    \/ schedule
    \/ \E p \in Task : try_to_wake_up(p)
    \/ \E t \in Task : TaskStep(t)

Spec == Init /\ [][Next]_vars
-----------------------------------------------------------------------------
(* Properties                                                              *)

\* Every variable has its type.
TypeOK ==
    /\ task \in [Task -> TaskRecord]
    /\ need_resched \in [Task \cup {Idle} -> BOOLEAN]
    /\ pc \in [Task -> Pc]
    /\ child \in [Task -> Task]
    /\ arrays \in PrioArrays
    /\ active \in {"array0", "array1"}
    /\ nr_running \in Int
    /\ nr_uninterruptible \in Int
    /\ curr \in Task \cup {Idle, WILD}

Queued(p) == task[p].array # NULL

\* The run queue is in order after every step: a queued task is on the one list
\* that its array and its priority name, the bitmaps and the counters say what
\* the lists hold.  Every path that changes a priority or a policy has to take
\* the task off its list first (dequeue_task uses p->prio for the bitmap).
QueuesInOrder ==
    /\ RedundancyExact(arrays)
    /\ NoTaskTwice(arrays)
    /\ \A p \in Task :
        IF Queued(p)
        THEN OnList(arrays[task[p].array].queue[task[p].prio], p)
        ELSE ~OnAnyList(arrays, p)
    /\ nr_running = Cardinality({p \in Task : Queued(p)})

\* schedule() never takes a task from an empty list, the current task is on the
\* run queue, and so is every task that can run; a task that cannot run is on
\* it only while it is still the current one.
RunnableIsQueued ==
    /\ curr # WILD
    /\ curr \in Task => Queued(curr)
    /\ \A p \in Task : task[p].state = "RUNNING" => Queued(p)
    /\ \A p \in Task : Queued(p) => task[p].state = "RUNNING" \/ p = curr

IsShort(tp) == tp.policy = "SHORT" /\ tp.is_short = 1
IsOverdue(tp) == tp.policy = "SHORT" /\ tp.is_short # 1

\* The array a task waits in and the fields that the code tests to find it
\* agree: short_active holds the SHORT tasks in their first slice, overdue the
\* SHORT tasks past it, the two regular arrays the others; real-time priorities
\* belong to the real-time policies, which never wait in the expired array; a
\* task that turned overdue has the last priority.
ClassMatchesArray ==
    \A p \in Task :
        LET tp == task[p] IN
        /\ tp.array = "short_active" => IsShort(tp)
        /\ tp.array = "overdue" => IsOverdue(tp)
        /\ tp.array \in {"array0", "array1"} => tp.policy # "SHORT"
        /\ IsRt(tp) <=> tp.policy \in {"FIFO", "RR"}
        /\ tp.array = Expired => tp.policy = "OTHER"
        /\ tp.is_short = 1 => pc[p] = "none" \/ tp.policy = "SHORT"
        /\ tp.policy = "SHORT" /\ tp.is_short = -1 => tp.prio = MAX_PRIO - 1

\* do_fork's BUG() is out of reach and --time_slice never wraps: no task ever
\* holds an empty slice, whatever was shared, resized, rounded or given back.
SlicePositive == \A p \in Task : task[p].time_slice > 0

\* nr_uninterruptible counts the sleepers it should, and a forked child is
\* never left behind unqueued.
UninterruptibleExact ==
    nr_uninterruptible =
        Cardinality({p \in Task : /\ Linked(p) /\ pc[p] # "born"
                                  /\ task[p].state = "UNINTERRUPTIBLE"
                                  /\ ~Queued(p)})

\* The idle task does not sleep through a wake-up.
IdleSeesWork == curr = Idle /\ nr_running > 0 => need_resched[Idle]

\* The scheduler implements SchedPolicy: the class comes from the fields that
\* the system calls test, the set of ready tasks from the lists of the arrays.
ClassOf(p) ==
    IF ~Linked(p) THEN "none"
    ELSE IF IsShort(task[p]) THEN "short"
    ELSE IF IsOverdue(task[p]) THEN "overdue"
    ELSE IF task[p].policy = "OTHER" THEN "other" ELSE "realtime"

Promise == INSTANCE SchedPolicy WITH
    class <- [p \in Task |-> ClassOf(p)],
    ready <- {p \in Task : OnAnyList(arrays, p)},
    cpu <- curr

\* Every step of the scheduler is one that SchedPolicy allows: the CPU always
\* goes to a task of the best class (real-time, SHORT, OTHER, overdue), and a
\* SHORT task leaves its class only by using up its time on the CPU.
ImplementsPolicy == Promise!PolicySpec
=============================================================================
