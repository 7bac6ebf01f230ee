----------------------------- MODULE RunQueues -----------------------------
(***************************************************************************)
(* The run queues of several CPUs (CONFIG_SMP): who locks which of them,   *)
(* how tasks move between them, and when a CPU goes idle.  schedule(),     *)
(* scheduler_tick, load_balance, try_to_wake_up, set_cpus_allowed,         *)
(* setscheduler and the migration threads, one step between two points     *)
(* where another CPU can make a difference.                                *)
(*                                                                         *)
(* &runqueue ascends with the number of the CPU.  A CPU that asked for     *)
(* locks spins until it has them; interrupts are off meanwhile.  op[c] is  *)
(* what CPU c does with the locks it asked for:                            *)
(*    run       nothing: curr[c] executes, interrupts are on               *)
(*    leave     in schedule(), before the switch                           *)
(*    balance, pull    in load_balance, called by schedule or the timer    *)
(*    wake      in try_to_wake_up                                          *)
(*    affine    in set_cpus_allowed                                        *)
(*    policy    in setscheduler                                            *)
(*    serve, read, move      in the migration thread's loop                *)
(*                                                                         *)
(* Of the order among tasks only two facts are kept: a migration thread    *)
(* (SCHED_FIFO, the highest priority) comes first, and load_balance looks  *)
(* at the active and the expired array alone, so it never sees a SHORT or  *)
(* an overdue task.                                                        *)
(***************************************************************************)
EXTENDS Integers, Sequences, FiniteSets

CONSTANTS
    NR_CPUS,
    Task,           \* the tasks that are not migration threads
    Idle,           \* the idle task of every CPU
    ShortTasks,     \* the tasks under SCHED_SHORT at first
    CacheHot,       \* the tasks that load_balance finds cache-hot
    Callers,        \* the tasks that call set_cpus_allowed
    Targets, Masks, \* for which tasks, and with which masks
    PolicyCallers, PolicyTargets,   \* who calls setscheduler, and for which tasks
    Sleepers, Sleeps,   \* the tasks that sleep, and in which states
    WORD,           \* nr_uninterruptible of a run queue is a number modulo WORD
    InitMask        \* cpus_allowed of the tasks at first

Cpu == 0 .. NR_CPUS - 1
migration_thread(c) == <<"migration", c>>
Migrators == {migration_thread(c) : c \in Cpu}
Thread == Task \cup Migrators

ASSUME CpuAssumption == NR_CPUS \in Nat \ {0}
ASSUME ThreadAssumption ==
    IsFiniteSet(Task) /\ Task \cap Migrators = {} /\ Idle \notin Thread
ASSUME ClassAssumption == ShortTasks \subseteq Task /\ CacheHot \subseteq Task
ASSUME CallAssumption ==
    /\ Sleepers \subseteq Task /\ Callers \subseteq Task /\ Targets \subseteq Task
    /\ PolicyCallers \subseteq Task /\ PolicyTargets \subseteq Task
    /\ Masks \subseteq (SUBSET Cpu) \ {{}}
    /\ Sleeps \subseteq {"INTERRUPTIBLE", "UNINTERRUPTIBLE"}
    /\ WORD \in Nat
    /\ WORD > Cardinality(Callers \cup (IF "UNINTERRUPTIBLE" \in Sleeps THEN Sleepers ELSE {}))
    /\ InitMask \subseteq Cpu /\ 0 \in InitMask

NONE == -1          \* no CPU, no lock

VARIABLES
    lock,               \* the CPU that holds the lock of each run queue
    want, after,        \* the lock a CPU spins on, and the one it takes next
    op, arg,            \* what a CPU does, and its local variables
    curr, need_resched, nr_running, nr_uninterruptible, migration_queue,
    cpu, cpus_allowed, state,
    short,              \* the tasks under SCHED_SHORT
    on,                 \* the run queue whose lists hold the task
    at                  \* where a task is: see set_cpus_allowed, migration_thread

locks == <<lock, want, after>>
steps == <<op, arg>>
queues == <<curr, need_resched, nr_running, nr_uninterruptible, migration_queue>>
fields == <<cpu, cpus_allowed, state, short, on, at>>
vars == <<locks, steps, queues, fields>>

Op == {"run", "leave", "balance", "pull", "wake", "affine", "policy", "serve", "read", "move"}
State == {"RUNNING", "INTERRUPTIBLE", "UNINTERRUPTIBLE"}
NoArg == [op |-> "none"]

\* Every task but one sleeps; the idle tasks and the first task run.
Init ==
    \E first \in Task :
        /\ lock = [r \in Cpu |-> NONE]
        /\ want = [c \in Cpu |-> NONE] /\ after = [c \in Cpu |-> NONE]
        /\ op = [c \in Cpu |-> "run"] /\ arg = [c \in Cpu |-> NoArg]
        /\ curr = [c \in Cpu |-> IF c = 0 THEN first ELSE Idle]
        /\ need_resched = [c \in Cpu |-> FALSE]
        /\ nr_running = [c \in Cpu |-> IF c = 0 THEN Cardinality(Task) ELSE 0]
        /\ nr_uninterruptible = [c \in Cpu |-> 0]
        /\ migration_queue = [c \in Cpu |-> << >>]
        /\ cpu = [t \in Thread |-> IF t \in Task THEN 0 ELSE t[2]]
        /\ cpus_allowed = [t \in Thread |-> IF t \in Task THEN InitMask ELSE {t[2]}]
        /\ state = [t \in Thread |-> IF t \in Task THEN "RUNNING" ELSE "INTERRUPTIBLE"]
        /\ short = ShortTasks
        /\ on = [t \in Thread |-> IF t \in Task THEN 0 ELSE NONE]
        /\ at = [t \in Thread |-> IF t \in Task THEN "user" ELSE "loop"]
-----------------------------------------------------------------------------
(* Locks                                                                   *)

\* CPU c, in "run" or holding what it needs so far, asks for r1 and then r2.
Ask(c, r1, r2) ==
    /\ want' = [want EXCEPT ![c] = r1]
    /\ after' = [after EXCEPT ![c] = r2]

\* One turn of spin_lock that gets the lock.
spin_lock(c) ==
    /\ want[c] # NONE /\ lock[want[c]] = NONE
    /\ lock' = [lock EXCEPT ![want[c]] = c]
    /\ Ask(c, after[c], NONE)
    /\ UNCHANGED <<steps, queues, fields>>

\* c holds the locks it asked for and is at "step".
At(c, step) == op[c] = step /\ want[c] = NONE

Held(c) == {r \in Cpu : lock[r] = c}
UnlockAll(c) == lock' = [r \in Cpu |-> IF lock[r] = c THEN NONE ELSE lock[r]]

Goto(c, step, local) ==
    /\ op' = [op EXCEPT ![c] = step]
    /\ arg' = [arg EXCEPT ![c] = local]

Return(c) == UnlockAll(c) /\ Goto(c, "run", NoArg) /\ UNCHANGED <<want, after>>

\* From "run" to a step that needs the lock of r.
Begin(c, step, local, r) == Goto(c, step, local) /\ Ask(c, r, NONE) /\ UNCHANGED lock

\* task_rq_lock found that the task has left the queue meanwhile: try again.
Retry(c, r) == UnlockAll(c) /\ Ask(c, r, NONE) /\ UNCHANGED steps

\* Variant with a defect: in the order of the arguments.
UnorderedLocks(r1, r2) == IF r1 = r2 THEN <<r1, NONE>> ELSE <<r1, r2>>

\* double_rq_lock takes the lower run queue first.
InOrder(r1, r2) ==
    IF r1 = r2 THEN <<r1, NONE>> ELSE IF r1 < r2 THEN <<r1, r2>> ELSE <<r2, r1>>
double_rq_lock(c, r1, r2) == Ask(c, InOrder(r1, r2)[1], InOrder(r1, r2)[2])
-----------------------------------------------------------------------------
(* schedule()                                                              *)

\* Where the code calls schedule(): a task blocks or is preempted on its way to
\* user mode, the idle loop sees its flag, a migration thread has nothing to do.
MustSchedule(c) ==
    LET t == curr[c] IN
    IF t = Idle THEN need_resched[c]
    ELSE IF t \in Task THEN state[t] # "RUNNING" \/ (need_resched[c] /\ at[t] = "user")
    ELSE at[t] = "sleep"

schedule(c) ==
    /\ op[c] = "run" /\ MustSchedule(c)
    /\ Begin(c, "leave", NoArg, c)
    /\ UNCHANGED <<queues, fields>>

Waiting(c) == {t \in Thread : on[t] = c}

\* switch_tasks with the best of the tasks that remain, or with the idle task: the
\* lock is held until the switch is over.
switch_tasks(c) ==
    LET queued == {t \in Thread : on'[t] = c}
        best == queued \cap {migration_thread(c)}
    IN  /\ \E next \in IF nr_running'[c] = 0 THEN {Idle}
                       ELSE IF best # {} THEN best ELSE queued :
               curr' = [curr EXCEPT ![c] = next]
        /\ need_resched' = [need_resched EXCEPT ![c] = FALSE]
        /\ Return(c)

\* The other outcome of pick_next_task: nothing is left on this queue.
pick_next_task(c) ==
    IF nr_running'[c] > 0 THEN switch_tasks(c)
    ELSE /\ Goto(c, "balance", [from |-> "schedule"])
         /\ UNCHANGED <<locks, curr, need_resched>>

Resumed(t) == IF t \in Migrators THEN [at EXCEPT ![t] = "loop"] ELSE at

\* A signal cancels the interruptible sleep of a task; a migration thread blocks
\* all signals.
leave_running(c) ==
    LET prev == curr[c] IN
    /\ At(c, "leave")
    /\ prev # Idle => \/ state[prev] = "RUNNING"
                      \/ prev \in Task /\ state[prev] = "INTERRUPTIBLE"
    /\ state' = [t \in Thread |-> IF t = prev THEN "RUNNING" ELSE state[t]]
    /\ at' = Resumed(prev)
    /\ UNCHANGED <<nr_running, nr_uninterruptible, migration_queue, cpu, cpus_allowed, on, short>>
    /\ pick_next_task(c)

\* Variant with a defect: a sleeper that wakes is not discounted.
SleepsOnly(r, t, n) ==
    IF state[t] = "UNINTERRUPTIBLE" /\ n > 0
    THEN [nr_uninterruptible EXCEPT ![r] = (@ + n) % WORD] ELSE nr_uninterruptible

\* One more or less sleeper among those run queue r counts, if t sleeps
\* uninterruptibly.
Uninterruptible(r, t, n) ==
    IF state[t] = "UNINTERRUPTIBLE"
    THEN [nr_uninterruptible EXCEPT ![r] = (@ + n) % WORD] ELSE nr_uninterruptible

\* deactivate_task
leave_sleeping(c) ==
    LET prev == curr[c] IN
    /\ At(c, "leave")
    /\ prev # Idle => state[prev] # "RUNNING"
    /\ prev # Idle
    /\ nr_running' = [nr_running EXCEPT ![c] = @ - 1]
    /\ nr_uninterruptible' = Uninterruptible(c, prev, 1)
    /\ on' = [on EXCEPT ![prev] = NONE]
    /\ at' = Resumed(prev)
    /\ UNCHANGED <<migration_queue, cpu, cpus_allowed, state, short>>
    /\ pick_next_task(c)
-----------------------------------------------------------------------------
(* The timer interrupt and load_balance                                    *)

\* The timer interrupt: scheduler_tick, or idle_tick.
scheduler_tick(c) ==
    /\ op[c] = "run"
    /\ Begin(c, "balance", [from |-> IF curr[c] = Idle THEN "idle_tick" ELSE "tick"], c)
    /\ UNCHANGED <<queues, fields>>

\* load_balance(this_rq, idle): is the CPU idle, or about to be?
IdleBalance(c) == arg[c].from # "tick"

\* nr_running of this CPU as load_balance takes it: a busy one uses the longer of
\* this length and an earlier one.
OwnLengths(c) ==
    IF IdleBalance(c) THEN {nr_running[c]} ELSE nr_running[c] .. Cardinality(Thread)

\* The load of another CPU: the shorter of its length and an earlier one.
Loads(c, r) == IF IdleBalance(c) THEN {nr_running[r]} ELSE 0 .. nr_running[r]

\* load_balance picks b: the others' run queues are read without their locks.
MayFind(c, b, load, length) ==
    /\ b # c /\ load \in Loads(c, b) /\ load > 1
    /\ length \in OwnLengths(c)
    /\ IF IdleBalance(c)
       THEN \A r \in Cpu \ {c} : nr_running[r] < load \/ (nr_running[r] = load /\ b <= r)
       ELSE load > length /\ (load - length) \div 2 >= (load + 3) \div 4

\* After load_balance: schedule() picks a task or idles, an interrupt returns.
Finish(c) ==
    IF arg[c].from = "schedule" THEN switch_tasks(c) ELSE Return(c) /\ UNCHANGED curr

\* A tick of a busy CPU looks at the time slice of its current task: after an overdue
\* period the task is back under SCHED_OTHER.
EndsSlice(c) ==
    /\ need_resched' = [need_resched EXCEPT ![c] = TRUE]
    /\ short' \in {short, short \ {curr[c]}}

\* No run queue is busy enough, or it is a tick on which a busy CPU only looks at
\* the time slice.
balance_none(c) ==
    /\ At(c, "balance")
    /\ IdleBalance(c) => \A r \in Cpu \ {c} : nr_running[r] <= 1
    /\ UNCHANGED <<nr_running, nr_uninterruptible, migration_queue,
                   cpu, cpus_allowed, state, on, at>>
    /\ Finish(c)
    /\ arg[c].from = "schedule" => UNCHANGED short
    /\ arg[c].from = "idle_tick" => UNCHANGED <<need_resched, short>>
    /\ arg[c].from = "tick" => EndsSlice(c) \/ UNCHANGED <<need_resched, short>>

Found(c, b, load, length) ==
    [from |-> arg[c].from, busiest |-> b, length |-> length,
     imbalance |-> (load - length) \div 2]

\* double_lock_balance: trylock, or wait for a higher lock, or drop the own lock
\* and take both in order; then nr_running is read again.
double_lock_balance(c) ==
    \E b \in Cpu, load, length \in 0 .. Cardinality(Thread) :
        /\ At(c, "balance") /\ MayFind(c, b, load, length)
        /\ \/ /\ lock[b] = NONE
              /\ lock' = [lock EXCEPT ![b] = c]
              /\ Goto(c, "pull", Found(c, b, load, length))
              /\ UNCHANGED <<want, after>>
           \/ /\ lock[b] # NONE /\ b > c
              /\ Ask(c, b, NONE)
              /\ Goto(c, "pull", Found(c, b, load, length))
              /\ UNCHANGED lock
           \/ /\ lock[b] # NONE /\ b < c
              /\ lock' = [lock EXCEPT ![c] = NONE]
              /\ Ask(c, b, c)
              /\ Goto(c, "pull", [Found(c, b, load, length) EXCEPT !.length = NONE])
        /\ UNCHANGED <<queues, fields>>

\* Variant with a defect: the task that runs is taken as well.
MigratesCurrent(t, b, c) == on[t] = b /\ t \notin short \cup CacheHot /\ c \in cpus_allowed[t]

\* Variant with a defect: cpus_allowed is ignored.
MigratesAnywhere(t, b, c) == on[t] = b /\ t \notin short \cup CacheHot /\ t # curr[b]

\* CAN_MIGRATE_TASK, for a task on the active or the expired array.
CanMigrate(t, b, c) ==
    /\ on[t] = b /\ t \notin short \cup CacheHot
    /\ t # curr[b]
    /\ c \in cpus_allowed[t]

Movable(c) == {t \in Thread : CanMigrate(t, arg[c].busiest, c)}

\* An idle CPU takes one task, a busy one as many as the imbalance says, and
\* fewer if there are not as many.
PullSize(c) ==
    LET most == IF IdleBalance(c) THEN 1 ELSE arg[c].imbalance
        n == Cardinality(Movable(c))
    IN  IF n < most THEN n ELSE most

Lengths(c) == IF arg[c].length = NONE THEN OwnLengths(c) ELSE {arg[c].length}

\* With both locks held: make sure nothing changed, then take tasks over.
pull(c) ==
    LET b == arg[c].busiest IN
    /\ At(c, "pull")
    /\ \E length \in Lengths(c) : nr_running[b] > length + 1
    /\ \E S \in SUBSET Movable(c), higher \in BOOLEAN :
        /\ Cardinality(S) = PullSize(c)
        /\ cpu' = [t \in Thread |-> IF t \in S THEN c ELSE cpu[t]]
        /\ on' = [t \in Thread |-> IF t \in S THEN c ELSE on[t]]
        /\ nr_running' = [nr_running EXCEPT ![b] = @ - Cardinality(S),
                                            ![c] = @ + Cardinality(S)]
        /\ S = {} => ~higher
        /\ S # {} /\ curr[c] = Idle => higher
        /\ Finish(c)
        /\ arg[c].from # "schedule" => need_resched' = [need_resched EXCEPT ![c] = @ \/ higher]
    /\ UNCHANGED <<nr_uninterruptible, migration_queue, cpus_allowed, state, at, short>>

pull_none(c) ==
    /\ At(c, "pull")
    /\ \E length \in Lengths(c) : nr_running[arg[c].busiest] <= length + 1
    /\ UNCHANGED <<nr_running, nr_uninterruptible, migration_queue, fields>>
    /\ Finish(c)
    /\ arg[c].from # "schedule" => UNCHANGED need_resched
-----------------------------------------------------------------------------
(* Sleeping and waking                                                     *)

\* A system call of the current task is about to block.
sleep(c) ==
    /\ op[c] = "run" /\ curr[c] \in Sleepers
    /\ at[curr[c]] = "user" /\ state[curr[c]] = "RUNNING"
    /\ \E s \in Sleeps : state' = [state EXCEPT ![curr[c]] = s]
    /\ UNCHANGED <<locks, steps, queues, cpu, cpus_allowed, on, at, short>>

\* wake_up_process or __wake_up_sync, called by anybody on CPU c.
wake_up(c) ==
    /\ op[c] = "run"
    /\ \E p \in Task, sync \in BOOLEAN :
        /\ state[p] # "RUNNING" /\ at[p] = "user"
        /\ Begin(c, "wake", [p |-> p, sync |-> sync], cpu[p])
    /\ UNCHANGED <<queues, fields>>

\* Variant with a defect: the current task of another CPU can be moved.
MovesCurrent(c, p) == arg[c].sync /\ cpu[p] # c /\ c \in cpus_allowed[p]

\* The waker may take the sleeper over to its own CPU.
FastMigrates(c, p) ==
    arg[c].sync /\ curr[cpu[p]] # p /\ cpu[p] # c /\ c \in cpus_allowed[p]

wake_retry(c) ==
    LET p == arg[c].p IN
    /\ At(c, "wake")
    /\ \/ cpu[p] \notin Held(c) /\ Retry(c, cpu[p]) /\ UNCHANGED cpu
       \/ /\ cpu[p] \in Held(c) /\ on[p] = NONE /\ FastMigrates(c, p)
          /\ cpu' = [cpu EXCEPT ![p] = c]
          /\ Retry(c, c)
    /\ UNCHANGED <<queues, cpus_allowed, state, on, at, short>>

\* Already on a run queue: only its state changes.
wake_running(c) ==
    LET p == arg[c].p IN
    /\ At(c, "wake") /\ cpu[p] \in Held(c) /\ on[p] # NONE
    /\ state' = [state EXCEPT ![p] = "RUNNING"]
    /\ Return(c)
    /\ UNCHANGED <<queues, cpu, cpus_allowed, on, at, short>>

\* Variant with a defect: an idle CPU is not told either.
NeedNotPreempt(r, p) == BOOLEAN

\* p->prio < rq->curr->prio, as far as the model tells priorities apart.
MayPreempt(r, p) == IF curr[r] = Idle \/ p \in Migrators THEN {TRUE} ELSE BOOLEAN

\* activate_task, and resched_task if p has the higher priority.
try_to_wake_up(c) ==
    LET p == arg[c].p
        r == cpu[p]
    IN  /\ At(c, "wake") /\ r \in Held(c) /\ on[p] = NONE /\ ~FastMigrates(c, p)
        /\ nr_uninterruptible' = Uninterruptible(r, p, -1)
        /\ on' = [on EXCEPT ![p] = r]
        /\ nr_running' = [nr_running EXCEPT ![r] = @ + 1]
        /\ state' = [state EXCEPT ![p] = "RUNNING"]
        /\ \E higher \in MayPreempt(r, p) :
               need_resched' = [need_resched EXCEPT ![r] = @ \/ higher]
        /\ Return(c)
        /\ UNCHANGED <<curr, migration_queue, cpu, cpus_allowed, at, short>>
-----------------------------------------------------------------------------
(* set_cpus_allowed and the migration threads                              *)
(*                                                                         *)
(* A task is in user mode, or in set_cpus_allowed's down(): "down" until   *)
(* the migration thread has called up(), then "upped".                     *)
(* A migration thread is at the head of its "loop", or found no request    *)
(* and is about to "sleep".                                                *)

set_cpus_allowed(c) ==
    /\ op[c] = "run" /\ curr[c] \in Callers
    /\ at[curr[c]] = "user" /\ state[curr[c]] = "RUNNING"
    /\ \E p \in Targets, mask \in Masks :
           Begin(c, "affine", [p |-> p, mask |-> mask], cpu[p])
    /\ UNCHANGED <<queues, fields>>

\* task_rq_lock, of set_cpus_allowed and of setscheduler.
lock_retry(c) ==
    /\ op[c] \in {"affine", "policy"} /\ want[c] = NONE
    /\ cpu[arg[c].p] \notin Held(c)
    /\ Retry(c, cpu[arg[c].p])
    /\ UNCHANGED <<queues, fields>>

\* Variant with a defect: ffs, which counts from one.
LowestFromOne(mask) == 1 + CHOOSE r \in mask : \A s \in mask : r <= s

\* __ffs
Lowest(mask) == CHOOSE r \in mask : \A s \in mask : r <= s

\* Where p is allowed to be, or off the run queues and not running: no migration.
affine_simple(c) ==
    LET p == arg[c].p
        mask == arg[c].mask
    IN  /\ At(c, "affine") /\ cpu[p] \in Held(c)
        /\ \/ cpu[p] \in mask /\ UNCHANGED cpu
           \/ /\ cpu[p] \notin mask /\ on[p] = NONE /\ curr[cpu[p]] # p
              /\ cpu' = [cpu EXCEPT ![p] = Lowest(mask)]
        /\ cpus_allowed' = [cpus_allowed EXCEPT ![p] = mask]
        /\ Return(c)
        /\ UNCHANGED <<queues, state, on, at, short>>

\* list_add: the last request is served first.  Then the migration thread is
\* woken, and down() waits for it.
affine_request(c) ==
    LET p == arg[c].p
        mask == arg[c].mask
        r == cpu[p]
        m == migration_thread(r)
    IN  /\ At(c, "affine") /\ r \in Held(c)
        /\ r \notin mask /\ (on[p] # NONE \/ curr[r] = p)
        /\ cpus_allowed' = [cpus_allowed EXCEPT ![p] = mask]
        /\ migration_queue' = [migration_queue EXCEPT ![r] =
                                   <<[p |-> p, caller |-> curr[c]]>> \o @]
        /\ at' = [at EXCEPT ![curr[c]] = "down"]
        /\ UnlockAll(c)
        /\ Goto(c, "wake", [p |-> m, sync |-> FALSE])
        /\ Ask(c, cpu[m], NONE)
        /\ UNCHANGED <<curr, need_resched, nr_running, nr_uninterruptible, cpu, state, on, short>>

down(c) ==
    LET t == curr[c] IN
    /\ op[c] = "run" /\ t \in Task /\ state[t] = "RUNNING"
    /\ \/ /\ at[t] = "down"
          /\ state' = [state EXCEPT ![t] = "UNINTERRUPTIBLE"]
          /\ UNCHANGED at
       \/ /\ at[t] = "upped"
          /\ at' = [at EXCEPT ![t] = "user"]
          /\ UNCHANGED state
    /\ UNCHANGED <<locks, steps, queues, cpu, cpus_allowed, on, short>>

\* setscheduler, on whatever CPU its task is.
setscheduler(c) ==
    /\ op[c] = "run" /\ curr[c] \in PolicyCallers
    /\ at[curr[c]] = "user" /\ state[curr[c]] = "RUNNING"
    /\ \E p \in PolicyTargets : Begin(c, "policy", [p |-> p], cpu[p])
    /\ UNCHANGED <<queues, fields>>

policy_refused(c) ==
    /\ At(c, "policy") /\ cpu[arg[c].p] \in Held(c)
    /\ Return(c)
    /\ UNCHANGED <<queues, fields>>

\* deactivate_task and activate_task if the task is queued: it stays where it is, but
\* only the first of the two looks at its state.  A task that becomes SHORT reschedules
\* the CPU of the caller.
change_policy(c) ==
    LET p == arg[c].p IN
    /\ At(c, "policy") /\ cpu[p] \in Held(c)
    /\ nr_uninterruptible' =
           IF on[p] # NONE THEN Uninterruptible(cpu[p], p, 1) ELSE nr_uninterruptible
    /\ \/ UNCHANGED <<need_resched, short>>
       \/ /\ p \notin short
          /\ short' = short \cup {p}
          /\ need_resched' = [need_resched EXCEPT ![c] = TRUE]
    /\ Return(c)
    /\ UNCHANGED <<curr, nr_running, migration_queue, cpu, cpus_allowed, state, on, at>>

\* The head of the migration thread's loop.
migration_loop(c) ==
    /\ op[c] = "run" /\ curr[c] = migration_thread(c) /\ at[curr[c]] = "loop"
    /\ Begin(c, "serve", NoArg, c)
    /\ UNCHANGED <<queues, fields>>

no_request(c) ==
    /\ At(c, "serve") /\ migration_queue[c] = << >>
    /\ state' = [state EXCEPT ![curr[c]] = "INTERRUPTIBLE"]
    /\ at' = [at EXCEPT ![curr[c]] = "sleep"]
    /\ Return(c)
    /\ UNCHANGED <<queues, cpu, cpus_allowed, on, short>>

next_request(c) ==
    /\ At(c, "serve") /\ migration_queue[c] # << >>
    /\ state' = [state EXCEPT ![curr[c]] = "INTERRUPTIBLE"]
    /\ migration_queue' = [migration_queue EXCEPT ![c] = Tail(@)]
    /\ UnlockAll(c)
    /\ Goto(c, "read", Head(migration_queue[c]))
    /\ UNCHANGED <<want, after, curr, need_resched, nr_running, nr_uninterruptible,
                   cpu, cpus_allowed, on, at, short>>

\* cpu_dest is computed once, cpu_src before every attempt to lock both.
read_dest(c) ==
    LET p == arg[c].p
        dest == Lowest(cpus_allowed[p])
    IN  /\ At(c, "read")
        /\ Goto(c, "move", [p |-> p, caller |-> arg[c].caller, dest |-> dest, src |-> cpu[p]])
        /\ double_rq_lock(c, cpu[p], dest)
        /\ UNCHANGED <<lock, queues, fields>>

move_retry(c) ==
    LET p == arg[c].p IN
    /\ At(c, "move") /\ cpu[p] # arg[c].src
    /\ UnlockAll(c)
    /\ Goto(c, "move", [arg[c] EXCEPT !.src = cpu[p]])
    /\ double_rq_lock(c, cpu[p], arg[c].dest)
    /\ UNCHANGED <<queues, fields>>

\* Variant with a defect: the lists of the two queues are left alone.
MovedOnlyCpu(c, p, dest) == on

\* deactivate_task and activate_task
MovedLists(c, p, dest) == IF on[p] = NONE THEN on ELSE [on EXCEPT ![p] = dest]

\* The task is moved if it is still on this CPU; the destination is not told.
\* up(): the caller can go on, and is woken.
migrate(c) ==
    LET p == arg[c].p
        dest == arg[c].dest
        caller == arg[c].caller
    IN  /\ At(c, "move") /\ cpu[p] = arg[c].src
        /\ IF cpu[p] = c
           THEN /\ cpu' = [cpu EXCEPT ![p] = dest]
                /\ on' = MovedLists(c, p, dest)
                /\ nr_running' = [r \in Cpu |->
                      nr_running[r] + (IF on[p] # NONE /\ r = dest THEN 1 ELSE 0)
                                    - (IF on[p] # NONE /\ r = c THEN 1 ELSE 0)]
                /\ nr_uninterruptible' =
                      IF on[p] # NONE THEN Uninterruptible(c, p, 1) ELSE nr_uninterruptible
           ELSE UNCHANGED <<cpu, on, nr_running, nr_uninterruptible>>
        /\ at' = [at EXCEPT ![caller] = "upped"]
        /\ UnlockAll(c)
        /\ Goto(c, "wake", [p |-> caller, sync |-> FALSE])
        /\ Ask(c, cpu'[caller], NONE)
        /\ UNCHANGED <<curr, need_resched, migration_queue, cpus_allowed, state, short>>
-----------------------------------------------------------------------------
Switch(c) == leave_running(c) \/ leave_sleeping(c)
Balance(c) ==
    balance_none(c) \/ double_lock_balance(c) \/ pull(c) \/ pull_none(c)
Wake(c) == wake_retry(c) \/ wake_running(c) \/ try_to_wake_up(c)
Affine(c) == lock_retry(c) \/ affine_simple(c) \/ affine_request(c)
Policy(c) == policy_refused(c) \/ change_policy(c)
Migration(c) ==
    no_request(c) \/ next_request(c) \/ read_dest(c) \/ move_retry(c) \/ migrate(c)

\* With interrupts off: the CPU spins, or holds the locks it needs.
Locked(c) ==
    \/ spin_lock(c) \/ Switch(c) \/ Balance(c) \/ Wake(c)
    \/ Affine(c) \/ Policy(c) \/ Migration(c)

\* What the current task does next, whatever the outside does.
Executes(c) == schedule(c) \/ down(c) \/ migration_loop(c)

Outside(c) ==
    \/ scheduler_tick(c) \/ sleep(c) \/ wake_up(c)
    \/ set_cpus_allowed(c) \/ setscheduler(c)

Next == \E c \in Cpu : Locked(c) \/ Executes(c) \/ Outside(c)

Spec == Init /\ [][Next]_vars

\* A spinlock that is free again and again is had, and the current task gets on
\* between the interrupts.
FairSpec == Spec /\ \A c \in Cpu : SF_vars(Locked(c)) /\ SF_vars(Executes(c))

\* The timer also interrupts every CPU, again and again.
TickSpec == FairSpec /\ \A c \in Cpu : SF_vars(scheduler_tick(c))
-----------------------------------------------------------------------------
(* Properties                                                              *)

Requests == [p : Thread, caller : Thread]

\* Every variable has its type.
TypeOK ==
    /\ lock \in [Cpu -> Cpu \cup {NONE}]
    /\ want \in [Cpu -> Cpu \cup {NONE}] /\ after \in [Cpu -> Cpu \cup {NONE}]
    /\ op \in [Cpu -> Op]
    /\ curr \in [Cpu -> Thread \cup {Idle}]
    /\ need_resched \in [Cpu -> BOOLEAN]
    /\ nr_running \in [Cpu -> Nat]
    /\ nr_uninterruptible \in [Cpu -> 0 .. WORD - 1]
    /\ \A c \in Cpu : \A i \in DOMAIN migration_queue[c] : migration_queue[c][i] \in Requests
    /\ cpu \in [Thread -> Cpu]
    /\ cpus_allowed \in [Thread -> (SUBSET Cpu) \ {{}}]
    /\ state \in [Thread -> State]
    /\ short \subseteq Task
    /\ on \in [Thread -> Cpu \cup {NONE}]
    /\ at \in [Thread -> {"user", "down", "upped", "loop", "sleep"}]

\* sched.c:134: "lock acquire operations must be ordered by ascending &runqueue":
\* no group of CPUs ever waits for locks that only CPUs of the group hold.
NoLockCycle ==
    \A S \in SUBSET Cpu : S # {} =>
        \E c \in S : want[c] = NONE \/ lock[want[c]] \notin S

\* A queued task is on the lists of the run queue its cpu field names, whose lock
\* task_rq_lock takes, and the counter says how many tasks those lists hold.
QueuedWhereCpuSays ==
    /\ \A t \in Thread : on[t] # NONE => on[t] = cpu[t]
    /\ \A c \in Cpu : nr_running[c] = Cardinality(Waiting(c))

\* No task runs on two CPUs, and the one that runs is on the CPU its cpu field
\* names: neither a waker, nor load_balance, nor a migration takes a task away
\* from the CPU that executes it.
OneCpuEach ==
    \A c \in Cpu : curr[c] # Idle =>
        /\ cpu[curr[c]] = c
        /\ \A d \in Cpu \ {c} : curr[d] # curr[c]

\* A migration of p is on its way.
Moving(p) ==
    \/ \E c \in Cpu : \E i \in DOMAIN migration_queue[c] : migration_queue[c][i].p = p
    \/ \E c \in Cpu : op[c] \in {"read", "move"} /\ arg[c].p = p

\* Unless its migration is on its way, a task is on a CPU of its mask: no wake-up
\* and no balancing takes it elsewhere, and set_cpus_allowed does not end before.
AffinityKept == \A p \in Thread : Moving(p) \/ cpu[p] \in cpus_allowed[p]

Sleeper(t) == on[t] = NONE /\ state[t] = "UNINTERRUPTIBLE"

\* nr_uninterruptible() adds up the counters of the run queues: a task may be
\* counted on one queue and discounted on another, the sum is exact.
Total[c \in -1 .. NR_CPUS - 1] == IF c = -1 THEN 0 ELSE Total[c - 1] + nr_uninterruptible[c]
UninterruptibleSum == Total[NR_CPUS - 1] % WORD = Cardinality({t \in Thread : Sleeper(t)})

Stranded(c) == curr[c] = Idle /\ nr_running[c] > 0 /\ ~need_resched[c]

\* The migration thread of d puts the task of its request on the lists of c.
MovesTo(d, c) == At(d, "move") /\ on[arg[d].p] = d /\ on'[arg[d].p] = c

\* An idle CPU whose run queue gets a task is told, whichever CPU puts it there and
\* however (schedule, a wake-up, load_balance): it is left alone only by the step in
\* which another CPU's migration thread moves a task to it, without resched_task.
OnlyMigrationStrands ==
    [][\A c \in Cpu : ~Stranded(c) /\ Stranded(c)' =>
           \E d \in Cpu \ {c} : MovesTo(d, c)]_vars

\* sched.c:743: "busy-rebalance every 250 msecs. idle-rebalance every 1 msec": an idle
\* CPU looks for work at every tick.  So one with a task on its own run queue does not
\* stay idle, whoever put the task there.
IdleCpuStarts == \A c \in Cpu : Stranded(c) ~> ~Stranded(c)

\* Whoever calls set_cpus_allowed is let go: its request is served, however the
\* task is moved meanwhile.
RequestServed == \A t \in Callers : at[t] = "down" ~> at[t] = "upped"
=============================================================================
