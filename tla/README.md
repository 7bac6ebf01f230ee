# A verification development for the SHORT scheduler kernel (234123-os)

The repository holds two exercises on a 2.4 Linux kernel.  `OS/` adds a
scheduling policy, `SCHED_SHORT`, to the O(1) scheduler; `HW1/` adds a system
call that lets a process adopt another one.  This directory holds TLA+ models of
the parts that carry their logic, and of the parts of the kernel they are built
into (run queues of several CPUs, wait queues, what `do_fork` acquires, process
numbers), the TLC configurations that check them, and proofs for TLAPS.

## 1. Inventory

| Component | State | Operations | Interacts through |
| --- | --- | --- | --- |
| Time arithmetic (`sched.c`, `fork.c`, `hw2_syscalls.c`) | none | conversions between ms and jiffies; the first, resized, shared, overdue, returned slice; the unsigned decrement | called by all that write `time_slice` |
| Priority arrays (`prio_array_t`) | list per priority, bitmap, `nr_active`; four per run queue: `arrays[2]`, `short_active`, `overdue` | `enqueue_task`, `dequeue_task`, `list_add/del`, `sched_find_first_bit` | used by every scheduler function; redundancy between list, bitmap, counter, `p->array`, `p->prio` |
| Scheduler core (`sched.c`) | `rq->active`, `nr_running`, `nr_uninterruptible`, `curr`, per task `policy, is_short, requested_time, time_slice, first_time_slice, static_prio, prio, state, array, need_resched` | `schedule`, `scheduler_tick`, `try_to_wake_up`, `wake_up_forked_process`, `wake_up_short_forked_process`, `setscheduler`, `set_user_nice`, `sys_sched_yield`, `sched_exit` | the timer interrupt, wake-ups from interrupts, system calls of any task on any other |
| `do_fork` (`fork.c`) | the new `task_struct` before it is linked | copy, sleep, share the slice, link, wake; unwinding on errors | reads `current` before and after it sleeps; calls `scheduler_tick` |
| Exit and `wait4` (`HW1/kernel/exit.c`) | zombies, parent links | `exit_notify`, `forget_original_parent`, `release_task` | gives slices back through `sched_exit` |
| Kernel entry and exit (`entry.S`) | `need_resched` | `ret_from_sys_call`, `ret_from_intr`, `reschedule` | decides when `schedule()` runs |
| Queries (`hw2_syscalls.c`) | none | `sys_is_short`, `sys_was_short`, `sys_short_remaining_time` | read the fields of a task without a lock |
| Several CPUs (`load_balance`, `set_cpus_allowed`, `setscheduler`, `migration_thread`, `try_to_wake_up`) | a run queue and a lock per CPU, `cpu`, `cpus_allowed`, `migration_queue` | pulling, pushing, waking, moving tasks | lock order, `task_rq_lock`'s retry, lengths read without a lock |
| Wait queues, completions, `sleep_on` | the lists, `done`, task states | `complete`, `wait_for_completion`, `__wake_up`, `wait_event`, `sleep_on` | `schedule` and `try_to_wake_up` |
| `setscheduler`'s checks | none | return codes for policy, priority, request, permissions | |
| `get_pid`, pid hash | `last_pid`, `next_safe`, `pidhash`, the list of tasks | taking a number, hashing, unhashing, `setsid` | a number is taken long before its owner is in the list |
| Resources of `do_fork` (`HW1/kernel/fork.c`, `exit.c`) | counters of files, fs, signal handlers, namespace; `mm_users`, `mm_count`; `vfork_done`; `processes`, `nr_threads` | six copies and their cleanup, the releases of `do_exit`, `daemonize`, lazy switching, vfork | the scheduler switches between any two copies |
| Process families (`HW1`: `pattach.c`, `exit.c`, `fork.c`) | `p_pptr, p_opptr, p_cptr, p_osptr, p_ysptr`, `wait_busy` | `sys_attach_proc`, `sys_get_child_processes`, fork, exit, `sys_wait4` | the task list lock |
| User wrappers, tests, build files, editor metadata | none | | |

What is hard here: there is no kernel preemption, but a tick or a wake-up can
come between any two steps with interrupts on; `do_fork` reads fields of the
current task before and after it slept; five fields of a task (`policy`,
`is_short`, `prio`, `array`, `time_slice`) and two redundant structures (bitmap
and counter) have to agree and are written by eleven functions; every conversion
of time truncates, some subtractions are unsigned.

In HW1 every handler runs to its end unless it sleeps, and the sleeps are the
problem: `sys_wait4` sleeps between finding a zombie and releasing it,
`sys_get_child_processes` between counting and walking, and `sys_attach_proc`
rearranges the tree for others while they do.

On several CPUs `load_balance` drops its own lock to take another one while
`schedule()` is choosing, `try_to_wake_up` and the migration threads work with a
`cpu` field they have read without the lock it selects, and a migration is a
message that is served later.  A sleeper can be woken before it is off the run
queue.  `do_fork` can fail at each of six copies and sleep in all of them, keeps
the completion of a vfork on its stack, and its child has a number that the list
of tasks does not show yet.

What makes the scheduler correct: (1) the run queue redundancy is exact after every step;
(2) the array a task waits in is the one of its class; (3) a slice is never
empty and never negative; (4) nobody is lost: what can run is queued, what
sleeps is counted; (5) the CPU goes to the best class, real-time, then SHORT,
then OTHER, then overdue SHORT, and a SHORT task changes class only by running.
What makes the families correct: (1) the parents form a tree under init; (2)
every process is on its parent's list, once, and the lists link both ways; (3) a
process asleep in `sys_wait4` has something to wait for and nothing to collect;
(4) a zombie is released once, by its parent; (5) an exit ends.
What makes the run queues correct: (1) locks are taken in ascending order; (2) a
task is queued where its `cpu` field says, runs on one CPU, and only on CPUs it
is allowed on; (3) who waits for a migration is let go, and an idle CPU learns of
work.  Of waiting: no wake-up is lost, and as many waiters return as there are
completions.  Of `do_fork`: every counter is the number of its users, whichever
copy fails; nobody points to a completion that is gone; a number is given to one
process at a time.

## 2. Modules

```
ShortTime      PrioArray                arithmetic; the array operations
      \         /
      ShortSched  ---- INSTANCE ----->  SchedPolicy   (what it promises)
      /         \
MCShortSched   ShortSched_proofs
                   |
               ShortQueues_proofs
```

**ShortTime** translates every expression on time slices: `setscheduler`
(1288-1342), `scheduler_tick` (832, 853), `do_fork` (747-748), `sched_exit`
(482-490), `sys_short_remaining_time`.  Division truncates as in C;
`ResizeAccepted` states when the unsigned comparison of line 1290 lets a request
through (a slice longer than the request wraps, and everything is refused).

**PrioArray** is `prio_array_t` with `enqueue_task` and `dequeue_task`.  A list
node is intrusive: `list_del` takes the task off whatever list it is on, while
the counter and the bitmap change in the array the caller names.  The model
keeps this difference, so that a caller that names the wrong array or a changed
priority corrupts the model exactly as it would corrupt the kernel.

**ShortSched** is the scheduler of one CPU.  The record `task[p]` is the part of
the `task_struct` that it reads; `pc[p]` says where a task is in the kernel; one
action per handler or per stretch of a handler that nothing can interrupt:

| Action | Code |
| --- | --- |
| `Tick`, `scheduler_tick` and its six cases | `scheduler_tick`, 779-872 |
| `schedule` (`LeaveCpu` / `StayRunnable`, `PickNext`) | `schedule`, 879-976 |
| `try_to_wake_up` | 366-403 |
| `BecomeShort`, `ResizeShort`, `SetOther`, `SetRealTime` | the four outcomes of `setscheduler`, 1231-1364 |
| `set_user_nice`, `sys_sched_yield` | 1130-1166, 1526-1567 |
| `ForkCopy` ... `wake_up_short_forked_process` | `do_fork`, cut where it may sleep and where interrupts are on |
| `do_exit`, `release_task` | `exit_notify` with `forget_original_parent`; `release_task` with `sched_exit` |
| `SystemCall`, `NoEffect`, `ReturnToUser`, `SetState` | entry.S; any other system call, which may sleep |

A system call that fails is `NoEffect`.  Where `schedule()` can be called with
`need_resched` set (`MustSchedule`): on the way to user mode, at once inside
`schedule`, and in long copies inside the kernel (`conditional_schedule`,
`sched.c:2054`), hence also at `entry` and `copy`.

Abstractions: `sleep_avg`, `sleep_timestamp` and `expired_timestamp` are not
kept; the bonus of `effective_prio` and the verdict of `TASK_INTERACTIVE` are
any value.  `rt_priority` is only an input.  Permissions are not modelled: a
call that they refuse is `NoEffect`.  `CLONE_*` flags, ptrace and signals are
left out, except that a signal may cancel an interruptible sleep.

`RacyFork` separates what holds from what does not: with `FALSE` no task is
turned SHORT by another one while it sleeps inside `do_fork`.  With `TRUE` the
class invariant fails, which is the finding of run `racy`.

**SchedPolicy** is the abstract specification: a class per task, the set of
ready tasks and the holder of the CPU.  `ImplementsPolicy` maps the class to the
fields that the system calls test, and the ready tasks to *what the lists of the
arrays hold*, not to `p->array`.

**MCShortSched** fixes the constants and states what comments of the code say
and the code does not do.

```
FamilyLinks
     |
ProcFamily  ---- INSTANCE ----->  FamilyTree   (lists instead of pointers)
     |       \
MCProcFamily  ProcFamily_proofs
```

**FamilyLinks** is the pointer surgery: `REMOVE_LINKS` and `SET_LINKS` assign the
same pointers under the same tests as the macros of `sched.h`, and `ChildList`
is the walk along `p_osptr`.  `IsAncestor` says what the walk of `sys_attach_proc`
along `p_opptr` finds without counting its steps: `q` is in every set that
contains `p` and that the walk cannot leave.

**ProcFamily** has one action per handler, or per stretch of one that does not
sleep; `at[p]` says between which two stretches `p` is:

| Action | Code |
| --- | --- |
| `do_fork` | `HW1/kernel/fork.c`, 600-776: the part under the lock, with `CLONE_PARENT` |
| `forget_original_parent`, `exit_notify`, `inherit_child`, `exit_done` | `exit.c` 205-240 and 394-486, one step per round of the loop |
| `sys_wait4`, `repeat`, `wait_fault`, `return_zombie`, `release_task` | `exit.c` 562-662, 29-47; one search of the list, then the copy to user memory, which may sleep or fail |
| `attach_check`, `attach_link` | `pattach.c` 21-45 and 49-54 |
| `sys_get_child_processes`, `collect_pids` | `pattach.c` 81-95 and 99-111: before and after `kmalloc` |
| `reparent_to_init` | `exit.c` 138-164 |
| `signal`, `ptrace_attach`, `setuid` | external |

A process at `attach`, `orphan` or `mourn` holds a CPU.  With `NCpu = 1` nobody
else moves until it is done, as on a kernel without preemption; with `NCpu = 2`
another process runs beside it, and `tasklist_lock` stops those that take it:
all but the system calls of `pattach.c`.  The loop of `exit_notify` drops the lock
in a round whose child is in another process group; groups are not modelled, so
here it does not.  A process is identified with its pid; a free one may be reused.
`WNOHANG` and a pending signal are one nondeterministic way out of `sys_wait4`.

`Tracing`, `GroupWaits` and `Attachers` separate what goes together from what does
not.  `sys_attach_proc` looks only at `wait_busy` of the *original* parent, and a
wait for the process group leaves `wait_busy` at 0: a tracer or a group waiter can
lose the very zombie it is about to release.  Runs with adoption therefore have
neither; runs `traced` and `exits` have tracing, `exits` group waits too, and no adoption.

**FamilyTree** is the abstract specification: a father per process and, per
process, the sequence of children it lists.  Being born, adopted, traced and
handed back all put a child first; an adoption needs a set of processes that
contains the new father and all its ancestors but not the child.

```
RunQueues ---- RunQueues_proofs
WaitQueues  ---- INSTANCE ----->  Completion
     |      \--- WaitQueues_proofs
MCWaitQueues
ForkResources ---- ForkResources_proofs
     |
MCForkResources                   Pids ---- Pids_proofs
```

**RunQueues** has one run queue per CPU and only what matters between them: its
lock, its length, the sleepers it counts, the task that runs, its requests for
migration, and per task `cpu`, `cpus_allowed`, the queue it is on.  A spin lock is
a state: `want[c]` is the lock that CPU `c` spins on, `after[c]` the one it takes
next, `op[c]` what it does when it has them.  A step is what a CPU does between
two points where another one can make a difference:

| Action | Code |
| --- | --- |
| `schedule`, `leave_running`, `leave_sleeping` | `schedule`, 879-976, from its start to `pick_next_task` |
| `scheduler_tick`, `balance_none`, `double_lock_balance`, `pull`, `pull_none` | the timer's and `schedule`'s `load_balance`, 566-736 |
| `wake_up`, `wake_retry`, `wake_running`, `try_to_wake_up` | 366-403 with `task_rq_lock`'s loop, 174-187 |
| `set_cpus_allowed`, `lock_retry`, `affine_*`, `down` | 1864-1901; `down` and `up` of the request's semaphore |
| `setscheduler`, `lock_retry`, `policy_refused`, `change_policy` | `setscheduler`, 1231-1364: the lock of the task's queue, then `deactivate_task` and `activate_task` |
| `migration_loop`, `no_request`, `next_request`, `read_dest`, `move_retry`, `migrate` | `migration_thread`, 1903-1976 |

Of the priorities only two facts are kept: a migration thread comes first, and
`load_balance` looks at the active and the expired array alone, so it never takes a
SHORT or an overdue task (the comment above its search, "take what can be taken", is
older than these arrays, `sched.c:622`).  So of a change of policy it keeps whether the
task becomes SHORT (`short`; a tick puts it back under OTHER), what `deactivate_task`
counts and whom the code reschedules, the CPU of the caller; the class itself is
ShortSched's subject.  `set_user_nice` is left out: it requeues a task on its own queue
without the counters, and at most sets `need_resched` of that CPU.  The lengths that
`load_balance` compares are read without locks and may be older ones.  Interrupts
between `next_request` and `read_dest` are left out, since nothing they do depends on
these two.

**WaitQueues** has one completion and one wait queue.  A waker holds the lock of a
queue while it goes through the list, one entry a step (`wake_next` is
`__wake_up_common`, 987-1002); a task sets its own state, tests and calls
`schedule` without it.  `wait_event`, `set_current_state`, `test`, `leave` are the
macros of `sched.h` 866-922; `sleep_on` the family of 1065-1126;
`wait_for_completion`, `completion_again`, `complete` are 1035-1063.  `signal`,
`timeout`, `make_true` stand for code outside.  **Completion** is what a completion
promises: who returns is open, how many is not, and while somebody waits no
completion is left for ever.

**ForkResources** is `do_fork` of `HW1/kernel/fork.c` from `p->user` to the wait of a
vfork, with the copies in their order (`stage`), the labels `bad_fork_cleanup_*`
that undo them from the one that failed, the five releases of `do_exit` and
`daemonize`.  A counted structure is a name that may be used again.  `mm_users`,
`mm_count` and `active_mm` follow `mmput`, `copy_mm` and `context_switch` with its
lazy borrowing.  One CPU, but every copy and every release may sleep, so
`context_switch` may come between any two steps.  `exec` is not modelled: a vfork
child lets its parent go by exiting.  The passing run has no failure after
`copy_mm`, because the code goes wrong there (section 5).

**Pids** is `get_pid` with its cache `next_safe`, the hash chains, the list of tasks,
and the time between taking a number and entering the list (`making`):

| Action | Code |
| --- | --- |
| `do_fork` | `fork.c` 614-650 and 97-106: the next number without a look, or the start of the loop |
| `try_next`, `pass_task`, `found` | 107-136: one task of the loop; `repeat:` with the next number; the end of the list |
| `link`, `copy_fails` | 770-792: `p->tgid`, `SET_LINKS`, `hash_pid`; 818-837 |
| `unhash_process`, `setsid` | `release_task`; `kernel/sys.c`, external |

`search` holds the loop's position and `beginpid`.  It has `lastpid_lock`, and
`tasklist_lock` for reading: nobody else takes a number, the list does not change, but
copies fail and `setsid` changes groups between two of its steps.  `x % PIDHASH_SZ`
stands for the hash function: numbers share chains.

`StartsAgain` and `RunsOut` separate what holds from what does not: with `FALSE`
the numbers start again at 300 only while no child is being copied, and never run
out (when a search begins, a number that it will try is free).

`ListLemmas` has what the proofs about lists need: elements put first, put last, taken
out; a walk along the list; the least of a set of numbers; functions that are defined
by recursion over the first numbers exist.

## 3. Runs

All runs are breadth-first over the whole state space of a small instance.
Deadlock is checked in all of them (an idle CPU still has its tick and
wake-ups; init never exits; a waker can always come).

| Run | Instance | Shows |
| --- | --- | --- |
| `core` | 2 tasks, all policies, requests 1 and 4 ms, two nice values, a real-time priority, slices of one jiffy, no bonus, uninterruptible sleeps | the seven invariants of the scheduler, refinement of `SchedPolicy` |
| `family` | 5 processes, 1 CPU, everyone adopts, symmetry of all but init | six invariants of the families |
| `traced` | 4 processes, tracing, nobody adopts | refinement of `FamilyTree` when the two parents differ |
| `exits` | 3 processes, 2 users, tracing, group waits, kernel threads, lists of children | type, no lost wait, the loop of `exit_notify` ends |
| `queues` | 2 CPUs, 2 tasks and 2 migration threads; `a` calls `set_cpus_allowed` for `b`, which sleeps uninterruptibly and sets its policy | the eight properties of the run queues |
| `waits` | 3 tasks: one waits for completions, one for those or for the condition, one exclusively or with a timeout | the six properties of waiting, refinement of `Completion` |
| `forks` | init's kernel thread and 3 processes, fork, vfork and thread flags, four copies that fail (up to and including `copy_mm`), limits of 3 | the six properties of `do_fork`'s resources |
| `pids` | 4 tasks, six numbers (five when they start again), two chains, one session leader, one that makes threads | the two properties of process numbers |
| `racy`, `group`, `vfork`, `strands` | small instances of the same modules | counterexamples, section 5 |

Two more instances of the scheduler are kept beside the runs, for the invariants:
`MCShortSched_three.cfg` has three tasks, one of them preempted in `do_fork` while the
others run; `MCShortSched_bonus.cfg` has a bonus of -1..1 and slices of one or two
jiffies, for OTHER and SHORT.

Bounds.  HZ is 512: 1 ms is less than a jiffy (the rounding case), 4 ms are two. A
request of 4 ms has an overdue period of four jiffies, one of 1 ms of one jiffy.  A task
under OTHER has a slice of one jiffy, a SHORT one of one or two: halving, refilling and
expiry happen in every possible place.  Two nice values give two user priorities without
the bonus.  Two user priorities suffice for the bitmap, the wake-up and yield to see a
better, an equal and a worse one; one real-time priority under FIFO and RR, which share
its list.  Two tasks are a parent and a child, each of which may call, sleep, be woken,
exit and be reaped; tasks are reused, so behaviours are unbounded. WORD is 64, larger
than any slice reached: a decrement of zero would still wrap to 63.

Five processes give a chain of four below init, the smallest in which a process
can adopt its grandfather beside a bystander, and a family of four brothers, in
which the one that is removed has both neighbours.  Two users suffice for equal,
different and root.  `max_length` 9 is more than there can be children.

Two CPUs are the fewest with a lock order, a balance and a migration; `NoLockCycle` is
also proved for any number.  Two tasks: one asks for the migration of the other, which
is asleep, queued, running or being woken when the request is served. Both `b`,
anywhere, and `a`, in `down()`, sleep uninterruptibly; `b` is moved while it sleeps, by
a synchronous wake-up or by `set_cpus_allowed`, and so is counted on one queue and
discounted on the other, whose counter goes below zero.  `WORD` 3 is the least modulus
that tells zero, one and two sleepers apart, and the counters wrap.  The masks {0} and
{1} move `b` either way; until the first request it may be on both CPUs and is pulled
and taken along by wake-ups.  `a` is cache-hot and stays on CPU 0, which halves the
instance; with all three masks and `a` moving too, the safety properties hold as well
(`RunQueues_masks.cfg`, a million states), but the liveness property takes too long.
Three waiters make a list with a head, a middle and a tail, of which the exclusive one
may be asleep, awake and still listed, or gone; `MaxDone` 2 is one completion more than
a waiter takes.  With four tasks a fork is undone while another one is between two of
its copies and a vfork child is alive; both limits (3) are met.  `PIDHASH_SZ` 2 makes
chains, `PID_MAX` 7 makes the numbers start again all the time.

Properties of the scheduler:

* `TypeOK`: in particular no slice is negative; the unsigned subtraction of
  line 1335 relies on the test of line 1290.
* `QueuesInOrder`: every queued task is on the one list that `array` and `prio`
  name, bitmaps and counters agree with the lists.
* `RunnableIsQueued`: `schedule` never takes a task from an empty list; the
  current task and all that can run are queued, nothing else is.
* `ClassMatchesArray`: the array fits `policy` and `is_short`.
* `SlicePositive`: `do_fork`'s `BUG()` and the wrap of `--time_slice` are out of
  reach.
* `UninterruptibleExact`: `nr_uninterruptible` is the number of such sleepers,
  and no forked child is forgotten unqueued.
* `IdleSeesWork`: an idle CPU with something to run has `need_resched` set.
* `ImplementsPolicy`: refinement of `SchedPolicy!PolicySpec`.

Properties of the families:

* `TypeOK`; `get_child_processes` never asks for more room than it has children.
* `SiblingLinks`, `ListsComplete`: both directions of the sibling list agree, and
  the walk meets every child once.
* `ParentsAlive`, `AllDescendFromInit`: original parents are alive and form a tree.
* `SleeperHasNoZombie`, `SleeperHasChild`: no lost and no endless wait.
* `ReapsOwnZombie`: the zombie found before `put_user` is released after it, once.
* `ImplementsTree`: refinement of `FamilyTree!TreeSpec`.
* `ExitEnds`: under weak fairness of `KernelStep`, a process that began to leave is
  dead in the end.  `KernelStep` is the code of `exit_notify` and `sys_attach_proc`
  that cannot sleep and on one CPU is not preempted; nothing else is assumed fair.

Properties of the run queues:

* `TypeOK`; `NoLockCycle`: no group of CPUs waits for locks only its members hold.
* `QueuedWhereCpuSays`, `OneCpuEach`, `AffinityKept`: queued where `cpu` says, running
  once and there, on an allowed CPU unless a migration is on its way.
* `UninterruptibleSum`: a sleeper is counted on one queue and may be discounted on
  another, so only the sum of the counters means anything, and it is exact - as long
  as nobody sets the policy of another task that is about to sleep uninterruptibly
  (`RunQueues_twice`, section 5).
* `OnlyMigrationStrands`: an idle CPU that gets a task is told of it, except in the
  step in which the migration thread of another CPU moves a task there: that one does
  not call `resched_task`.  The exception is a defect and not a delay: no tick of the
  idle CPU looks at its own run queue.  `IdleCpuStarts`, which says that an idle CPU with
  work does not stay idle, is violated (run `strands`).
* `RequestServed`: whoever calls `set_cpus_allowed` and waits in `down()` is let go by
  `up()`.  When it returns to user mode is up to the scheduler.

Properties of waiting: `EntriesOnStack` (a wait queue entry, a local variable, is
listed exactly as long as the call lasts), `NoLostWakeUp`, `StopsAtSleeper` (a waker
stops only at an exclusive task it got out of its sleep), `WaitEnds`,
`ImplementsCompletion`.

Properties of `do_fork`'s resources: `SharesExact`, `MmCountsExact` (every counter is the
number of its users), `ProcessesExact`, `VforkFrameLives` (whoever points to a vfork's
completion points into a call that has not returned), `VforkHolds` (the parent
sleeps as long as the child has its mm).

Properties of numbers: `HashFinds`, `FreshPid`.

Fairness.  None of the scheduler of one CPU: what is checked there is safety.
`RunQueues!FairSpec`: strong fairness of `Locked(c)`, because a spinning CPU gets a lock
that is free again and again (the chance that it never does is what spinlocks
accept), and of `Executes(c)`, because the current task gets on between
interrupts.  Timer ticks, wake-ups and system calls are not assumed to happen.
`TickSpec`, for run `strands`, adds strong fairness of `scheduler_tick(c)`: the timer
interrupts every CPU again and again, idle or not.  The counterexample is one in spite
of it: the ticks do come, and find nothing.
`WaitQueues!FairSpec`: strong fairness of a task in the kernel, for the same lock, with
its timer; weak fairness of a waker that holds the lock; strong fairness of
`make_true \/ wake_up`, which is the assumption that the condition does become true
and is announced - the code cannot promise it.
`ImplementsCompletion` includes the fairness of `Completion`.

## 4. Proofs

`ShortSched_proofs`: the theorems about the scheduler hold for any
number of tasks, any range of priorities, any HZ and any inputs.

* `ResizeNeverNegative`: if `setscheduler` accepts a new request from a SHORT
  task, `J(new) - (J(old) - slice)` is not negative, where `J` truncates.  From
  the test one gets `new + Millis(slice) >= old`; multiplying by HZ and using
  what truncation loses on each side leaves a gap of less than one jiffy, which
  integrality closes.
* `TypeCorrect`: `Spec => []TypeOK`.  `TypeOK` is inductive; the only step that
  is not bookkeeping is the slice of `ResizeShort`, by the theorem above.
* `SlicesPositive`: `Spec => []SlicePositive` if `HZ >= 500`.  `SlicePositive`
  is not inductive: the slice of an overdue period is computed from the request.
  The invariant `SliceInv` adds that a task with `is_short = 1` has a request
  that is not empty; `do_fork` is where this needs care, because the child takes
  request and `is_short` from the parent at one point.  The assumption on HZ is
  needed: with 499 ticks per second twice a millisecond is no whole jiffy, the
  overdue slice of a request of 1 ms is empty, the next fork of that task hits
  `BUG()`.  (HZ is defined in `asm/param.h`, outside this tree; `sched.h:399`
  shows that it need not be 100.)

`ShortQueues_proofs`: the order of the run queue and what it is
for, for any number of tasks and any range of priorities, under `RacyFork = FALSE`.
The assumption is the one that run `racy` shows to be needed: once a task is made
SHORT while it sleeps in `do_fork`, its child is queued in an array that its policy
does not name.

* `QueuesStayInOrder`, `RunnableStaysQueued`, `ClassStaysWithArray`,
  `UninterruptibleStaysExact`, `IdleAlwaysSeesWork`.  None is inductive alone, and they
  need each other: a tick requeues a task by the array that its class should have put
  it in (`ClassMatchesArray` for `QueuesInOrder`), `schedule` finds the head of a list
  only if the bitmaps are right (`QueuesInOrder` for `RunnableIsQueued`).  The
  inductive invariant is `QueueInv /\ ForkInv`.  `QueueInv` states the order of the
  queue list by list (`InOrder` of `ShortSched_proofs`: a list holds each of its tasks
  once and exactly those whose fields name it; the bit is set iff the list is not
  empty; `nr_active` is the number of tasks whose `array` field names the array) and
  adds that a child that is not awake yet is not queued, and the two counters.
  `ForkInv` is about the window of `do_fork`: no two parents share a child; while a
  SHORT parent copies, its child is SHORT; from the sharing of the slice until the
  wake-up the parent keeps the CPU, and `is_short` of the child is still what the
  choice of the wake-up function relies on.  TLC checked it before the proof.
  `ShortSched_proofs` has what enqueue, dequeue and the moves of `sched_yield` do to
  `InOrder`.
* `PolicyIsImplemented`: `Spec => ImplementsPolicy`, the refinement of SchedPolicy.
  `ReadyMeans` turns the lists into fields; each action then maps to a change of
  class, a wake-up or a stutter, and `schedule` to `Switch`: the first bit of the
  active array tells whether a real-time task waits, `PickedBest` says which array the
  code looks in, and `ArraysTell` that the array tells the class.

`ProcFamily_proofs`: the theorems about the families hold for any number of processes
and users, under `Uniprocessor`: `NCpu = 1`, no tracing, no group waits.  Each of the
three is needed: `MCProcFamily_smp` and `MCProcFamily_group` show what happens on two
CPUs and with `waitpid(0)`, and an adoption does not look at a tracer's `wait_busy` at
all.

* `ListsStayInOrder`: `Spec => []SiblingLinks`.  The first section shows, for the
  pointers alone, that the lists are in order (`InOrder`) after `REMOVE_LINKS`
  without the one removed, after `SET_LINKS` with the one added, and after
  `exit_notify` took a youngest child off with one assignment, provided that the
  stale `p_ysptr` this leaves behind is excused as long as the parent is in that
  loop.  "No ring" is stated without a walk: every set of children has a member
  that is the youngest or whose younger sibling is outside the set.  A removal is
  then the old statement for a set with the removed process added.
* `ParentsStayAlive`, `FamilyStaysTree`, `ZombieStaysReapable`, `SleeperKeepsChild`.
  None is inductive alone.  `Inv` adds that one process at most is between two
  kernel steps (`Alone`), that init stays, that the two parents differ only if the
  one is in `exit_notify` (`SameParents`), that whoever reaps or sleeps in
  `sys_wait4` shows it in `wait_busy` (`Reaping`, `Sleeping`), and what the checks
  of `sys_attach_proc` have established when it links (`Attaching`).
  For `FamilyStaysTree`: if an adoption closed a ring, the ring's part inside the
  set of the new father's ancestors would have been one before.
  `ZombieStaysReapable` uses `FatherBusy` on the reaper, `SleeperKeepsChild` on the
  sleeper; the latter assumes that no kernel thread calls `reparent_to_init`, which
  may leave a parent that waits for it.
* `WalksMeetAllChildren`: `Spec => []ListsComplete`.  `ChildList` is a function defined
  by recursion over the number of steps; `RoundByRound` shows that the function exists
  and gives its equations, from there on the walk is reasoned about as a sequence.  A
  walk that is not over has one process per step, all of them different because there
  is no ring, so it is over after as many steps as there are tasks (`ListIsWhole`); a
  child that it does not meet would be the older sibling of nobody on it, and the
  child's younger sibling is one it does not meet either: a ring again (`WholeFacts`).
* `TypeCorrect`: `Spec => []TypeOK`.  The one part that needs more than `Inv` is `size`,
  the number of children that `sys_get_child_processes` makes its buffer for: a list
  without repetition that does not hold its owner (`CountFits`).
* `NobodySleepsOverZombie`: `Spec => []SleeperHasNoZombie`.  The search meets every zombie
  that its caller could take, since it walks along the whole list
  (`SearchMeetsZombies`); afterwards a child can only become a zombie in `exit_notify`,
  which wakes its parent, or come to the sleeper as one by `inherit_child`, which wakes
  the new parent; the new parent of an adoption is awake, and a process that goes to init
  by `reparent_to_init` or is born is no zombie.
* `PointersImplementTree`: `Spec => ImplementsTree`.  The list that `p_cptr` and `p_osptr`
  describe is unique (`WholeIsUnique`), so it is enough to show a list that they describe
  after the step: the old one without an element (`RemoveLists`, `HeadLists`), then with
  one in front (`GivenLists`).  `do_fork` maps to `Born`, `forget_original_parent` to
  `Leave`, `inherit_child` to `Handed`, `release_task` to `Buried`, `attach_link` and
  `reparent_to_init` to `Adopt`, everything else stutters (`TreeStep`).  `NoFather` is
  added to `Inv`: who is not linked has no original parent.

`RunQueues_proofs`, for any number of CPUs and tasks, any masks and sleepers:

* `LocksNeverCycle`: `Spec => []NoLockCycle`.  `LockInv` says that what a CPU holds lies
  below what it spins on, and that below what it takes next (`Ascends`); that it
  holds nothing while it executes, and its own lock alone in `schedule` and in
  `load_balance` before the second one (`Places`); and that its local variables name
  run queues (`Locals`, which needs the types of the request lists and masks).  A
  step of one CPU leaves the others' part alone (`Frame`), so each action is
  checked on the part of the CPU that takes it.  In a group that waits only for
  itself the CPU that spins on the highest lock waits for a member that holds
  that lock and so spins on a higher one; that a finite set of numbers has a
  greatest member comes from the well-foundedness of `<`.
* `TypeCorrect`, `QueueKnowsItsTasks`, `TaskRunsOnce`: one invariant, `TaskInv`, that
  contains `LockInv`.  It adds the types of the fields that `LockInv` does not need
  (`Values`), that the current task is on its CPU's queue unless `schedule` has just
  taken it off (`Executing`), and which task takes the steps of a request
  (`Serving`: without it a CPU in `migration_thread`'s loop might execute somebody
  else).  The counters are exact because every step moves a task between two lists
  whose CPU it holds locked, and `Waiting` loses or gains that task alone.
* `OnlyMigrationLeavesIdle`: the action property, from `TaskInv` before and after the
  step: whoever queues a task on an idle CPU sets its `need_resched`, or is the
  migration thread of another CPU in the step that moves its task there
  (`MigrationStrands`: `Stranded(c)` can begin only if the lists of `c` grew, and of a
  CPU's steps `migrate` alone does that without a word).
* `MasksAreKept`: `AffinityKept` for a single caller of `set_cpus_allowed`
  (`OneCaller`; `RunQueues_affinity` shows that two break it).  `MaskInv` says that one
  migration thread at most has a request, that the caller sleeps until it is
  served, so that the mask is still the one asked for, and that a task outside its
  mask is the target of that request.
* `SumStaysExact`: `Spec => []UninterruptibleSum`, under `SetsOnlyAwake`: a call of
  `setscheduler` is for the caller itself or for a task that never sleeps
  uninterruptibly.  The assumption is needed (`RunQueues_twice`).  `AwakeInSetscheduler`
  says that a caller that sets its own policy is running, so that `deactivate_task`
  does not count it (`PolicyCountsNone`).  `SleepInv` says who may sleep
  uninterruptibly (the sleepers of `Sleepers` and, in `down()`, the callers of
  `set_cpus_allowed`: fewer than `WORD`); that a queued task in that state is one
  that executes outside of the switch (`DozesAwake`); and that the sum of the counters is
  the number of sleepers plus a multiple of `WORD`.  `DozesAwake` is why `migrate` counts
  nobody: it would have to move the task that executes on its own CPU, which is the
  migration thread.  `Total` is a recursive function; `CpuByCpu` goes from one CPU to the
  next, `TotalIsSum` shows that the function exists, `SumChanges` what one changed counter
  does to the sum, `WrapsOnce` and `RemainderIs` what the remainders do.

`Task` is assumed finite (`ThreadAssumption`): `nr_running` is a cardinality.

`ForkResources_proofs`, for any tasks, flags and failing copies:

* `VforkFramesLive`: `Spec => []VforkFrameLives`.  `FrameInv` adds that a child in the
  making is nobody else's, that only a call with `CLONE_VFORK` has a pointer to its
  completion out, and that after `complete` there is none.
* `ProcessesStayExact`: `Spec => []ProcessesExact`, by counting the tasks that are in
  use or being made, step by step.
* `SharesStayExact`: `Spec => []SharesExact`.  The argument is about who owns a pointer
  (`Owner`): the child of a call that has not ended owns what the position of its
  parent in `Copies` says, everybody else who exists owns his.  `Owner` changes by the
  child in `copy` and `cleanup` and by the zombie in `release_task`, and in no other
  step; and a holder that changes its pointer is one element that moves between two
  sets (`OneChanged`).  `GivenBack` says that a zombie holds nothing.  That a free
  structure exists when a child needs one is counted too (`Pigeons`): there are as
  many structures as tasks, and the child has none yet.
* `MmStaysExact`, `VforkStaysHeld`, `TypeCorrect`: `MmCountsExact`, `VforkHolds` and
  `TypeOK` under `NoLateFailure`: `copy_namespace` and `copy_thread` are not in `Fails`.
  `copy_thread` never fails in the code; if `copy_namespace` does, the cleanup calls
  `exit_mm` for a child that never ran, the first two do not hold (run `vfork`,
  `MCForkResources_leak`) and TypeOK may not, because the model's address spaces may run
  out.  `Loaded` makes the counting easy: only the current task can have borrowed an
  address space, so `mm_count` is one for the users and one for it.  `Waits` says that
  a completion on the stack of a waiting parent is complete only if the child has no
  address space any more.

`WaitQueues_proofs`, for any finite set of tasks, any calls and any `MaxDone`:

* `NobodyMissesIt`: `Spec => []NoLostWakeUp`.  The property is silent while the lock is
  held, so it is not inductive.  `Told` says what holds then: once the condition is
  announced, whoever sleeps in `wait_event`, or will in its next step, is in the part
  of the list that the waker has not seen, and the waker wakes both kinds of sleepers.
  A waker that stops early leaves nobody behind, because the exclusive entries come last
  (`Sorted`, in `InOrder`) and a task that waits for the condition is not exclusive
  (`InCall`).
* `EntryPerCall`: from `InOrder`: the tasks on a list are those whose call `Belongs` to
  it, none of them twice.
* `StopsWhereItShould`: `Scanned` says that a waker has the end of the list before
  it (the list does not change under its lock), so what is behind an exclusive entry is
  exclusive.
* `TypeCorrect`: what a waker has counted is at most what it has passed (`Scanned`), and
  a list is no longer than there are tasks (`ListFits`).  `TaskAssumption`, that there
  are finitely many, gives the bound a meaning.
* `CompletionIsKept`: `Spec => C!Init /\ [][C!Next]_(C!vars)`, the refinement of
  `Completion` but for its fairness.

`Pids_proofs`, for any tasks and numbers, any leaders and threads, any size of the hash
table, under `Undisturbed`: neither `StartsAgain` nor `RunsOut`.  Both are needed
(`Pids_inflight`, `Pids_exhausted`).

* `NumberIsFresh`: `Spec => FreshPid`.  `get_pid` mostly looks at no task, so the
  invariant has to say what it knows: no number between `last_pid` and `next_safe` is in
  use (`Window`); a child that is being copied is in the groups of its parent and its
  number is behind `last_pid` (`Copying`, `Behind`), so it needs no look.  In the loop
  `Window` is silent, and `Search` takes its place: the tasks passed so far use neither
  `last_pid` nor a number from there to `next_safe` (`Clear`), which a failed copy or a
  `setsid` of another task leaves true.
* `SearchIsNotGivenUp`: a number that was free when the loop began stays free, and
  `last_pid` comes to it before it comes back to `beginpid` (`Ahead`).
* `NumbersAreFound`: `Spec => []HashFinds`.  A task is in the chain of its number once and
  in no other (`Hashed`), and no two tasks, in the list or being copied, have the same
  number (`Distinct`, kept by the freshness).  TLC checked this invariant on two instances
  before the proof.

Only model-checked: the fairness of Completion; `WaitEnds`, `ExitEnds`, `RequestServed`, which
are liveness.
Outside the prover's reach: liveness under fairness, and ENABLED.  Induction cannot be
cited as a rule; where it is needed (`ChildList`, `Total`) the proof goes by the first number
for which a statement would fail.

## 5. Where comments and code differ

| Run | Comment | What happens |
| --- | --- | --- |
| `racy` | `sched.c:946` "there is short processes" | a task made SHORT while it sleeps in `do_fork` has a child with policy OTHER and `is_short` 1, queued in `short_active` |
| `group` | `exit.c:658` "0 (not waiting)", `pattach.c:43` "The father is waiting for PID" | `waitpid(0)` stores 0 in `wait_busy`: the child a sleeping father waits for can be taken away |
| `strands` | `sched.c:744` "idle-rebalance every 1 msec", `sched.c:1846` "we wake up and the migration is done" | `migration_thread` puts a task on the queue of an idle CPU without `resched_task` (1964-1970); `idle_tick` calls `load_balance`, which only looks at other queues and sets `need_resched` for what it pulls: the CPU idles on, tick after tick, while the task waits |
| `vfork` | `HW1/kernel/fork.c:302` "mm_release is called after a mm_struct has been removed from the current process" | when a copy after `copy_mm` fails, `exit_mm(p)` calls `mm_release` for `current`: if that is a vfork child, its parent goes on while the child still runs in its memory |

More of what the code says does not hold.  Each line has a configuration that is
not among the runs (`tlc -config <file> <module>` shows the counterexample):

| Configuration | Comment | What happens |
| --- | --- | --- |
| `MCShortSched_overdueprio` | `sched.c:851` "all overdue proccess need to be in the same prio" | a parent that runs out of its term and of its overdue period inside `do_fork` leaves a child in `overdue` with the parent's old priority |
| `MCShortSched_generate` | `sched.c:478` "this cannot be used to 'generate' timeslices artificially" | an overdue parent gains the copy it gave its child |
| `MCProcFamily_collect` | `pattach.h:57` "stopping at max_length or the oldest child, whichever comes first" | a child is adopted by another process while `kmalloc` sleeps; the walk goes past the oldest child |
| `MCProcFamily_smp` | `fork.c:756` "Need tasklist lock for parent etc handling!" | without the lock two processes adopt each other |
| `RunQueues_affinity` | `sched.c:1856` "Migrate the process to a proper CPU" | of two callers the first request moves the task to the CPU of a mask that has changed since, the second one finds it on another CPU and does nothing |
| `RunQueues_twice` | none (`setscheduler`, 1319 and 1355) | a task has set TASK_UNINTERRUPTIBLE and is still queued; another CPU sets its policy: `deactivate_task` counts it, `activate_task` does not discount it, and `schedule` counts it again |
| `MCForkResources_leak` | none | `exit_mm(p)` for a child that never ran counts `active_mm`, which nobody drops: the `mm_struct` is never freed |
| `MCForkResources_threads` | `fork.c:633` "nr_threads can't increase under us" | `nr_threads` is tested, then the copies sleep, then it goes up: two forks pass the test together |
| `Pids_inflight` | none (`get_pid`, `fork.c:105`) | the numbers start again at 300 while a child is being copied: it is not in the list, and its number is given again |
| `Pids_exhausted` | none (`nomorepids`, `fork.c:138`) | `next_safe` is left at `PID_MAX` after a search that found nothing; the next number is given without a look |
| `MCShortSched_order` | `sched.c:945` "policy order :  short > other > overdue_short" | a woken SHORT task does not preempt an OTHER task with a better priority number |
| `MCShortSched_forktotal` | `fork.c:724` "the total amount of pending timeslices in the system doesnt change" | an overdue parent's slice is duplicated |
| `MCShortSched_reap` | `sched.c:475` "the parent does not get penalized for creating too many processes" | a SHORT parent with more than `MAX_TIMESLICE` is cut down to it |
| `MCShortSched_resize` | `sched.c:1334` "new time less time that already used" | a slice that was rounded up to a jiffy gives one jiffy too many after the next request |

## 6. Plan

Done: the scheduler of one CPU (ShortTime, PrioArray, ShortSched, SchedPolicy), the
families (FamilyLinks, ProcFamily, FamilyTree), the run queues of several CPUs
(RunQueues), waiting (WaitQueues, Completion), the resources of `do_fork`
(ForkResources), numbers (Pids).  Of the forty properties of the passing runs all thirty-six
that are not liveness are proved.  Next:

1. Assumptions that could be weaker: `ProcFamily_proofs` without `~Tracing` for what does not
   speak of the original parent; `MasksAreKept` for callers that never ask for the same
   task.
2. The conversions of `ShortTime` that `setscheduler` and the queries share: what a
   round trip from milliseconds to ticks and back loses.
3. Freedom from deadlock of the run queue locks as a statement about `Next`, short of
   ENABLED: a CPU outside every cycle has a step it can take.

## 7. Not modelled

* `setscheduler`'s and the other system calls' permissions and error codes, the
  queries of `hw2_syscalls.c` other than their arithmetic: straight-line tests of
  arguments and fields, which no interleaving reaches.
* `wait_task_inactive` and `kick_if_running`, which poll; `init_idle` and the start of
  the migration threads, which run once, at boot.
* `setpgid` in Pids (`kernel/sys.c`, not among the sources; like `setsid` it changes
  groups, under the lock that `get_pid` holds for reading); `set_user_nice` with several
  CPUs.
* Thread groups, process groups and stopped children in ProcFamily; signals other
  than as a reason to wake.  Signal delivery and `ptrace` are outside the tree.
* `dup_mmap`, the copy of open files, `exec`: what is copied, not who counts it.
* The wrappers in user mode, tests, build files, editor metadata.
