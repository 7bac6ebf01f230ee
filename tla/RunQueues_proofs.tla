-------------------------- MODULE RunQueues_proofs --------------------------
(***************************************************************************)
(* Proofs about RunQueues, for any number of CPUs and of tasks, any masks  *)
(* and any sleepers.                                                       *)
(*                                                                         *)
(* Locks: no group of CPUs waits for locks of the group alone.  A CPU that *)
(* spins holds only locks below the one it spins on (LockInv), so that the *)
(* one that spins on the highest lock waits for somebody who is not in the *)
(* group.  That this is so whenever a lock is asked for depends on what a  *)
(* step of schedule() or of the timer holds already, and on what a step    *)
(* that takes two locks has ordered.                                       *)
(*                                                                         *)
(* Tasks: a task that executes is on the run queue of its CPU, except in   *)
(* schedule() once it has been taken off, and whoever moves a task acts    *)
(* for one that is not executing (TaskInv, which includes LockInv).        *)
(*                                                                         *)
(* Masks: with one caller of set_cpus_allowed, at most one migration is on *)
(* its way, and its destination is in the mask (MaskInv).                  *)
(*                                                                         *)
(* Sleepers: the counters of the run queues sum up to the number of tasks  *)
(* asleep, modulo WORD.  Whoever is about to sleep uninterruptibly is the  *)
(* one that executes (SleepInv), so no migration counts it; setscheduler   *)
(* would, if another task called it for this one (SetsOnlyAwake).          *)
(***************************************************************************)
EXTENDS RunQueues, SequenceTheorems, FiniteSetTheorems, WellFoundedInduction, TLAPS

Lock == Cpu \cup {NONE}

Typed ==
    /\ lock \in [Cpu -> Lock] /\ want \in [Cpu -> Lock] /\ after \in [Cpu -> Lock]
    /\ op \in [Cpu -> Op]
    /\ arg = [c \in Cpu |-> arg[c]] /\ curr = [c \in Cpu |-> curr[c]]
    /\ migration_queue \in [Cpu -> Seq(Requests)]
    /\ cpu \in [Thread -> Cpu]
    /\ cpus_allowed \in [Thread -> (SUBSET Cpu) \ {{}}]

\* The local variables of CPU c name tasks and run queues.
Locals(c) ==
    /\ op[c] = "wake" => arg[c].p \in Thread
    /\ op[c] = "affine" =>
           arg[c].p \in Thread /\ arg[c].mask \in Masks /\ curr[c] \in Thread
    /\ op[c] = "policy" => arg[c].p \in Thread
    /\ op[c] \in {"read", "move"} => arg[c].p \in Thread /\ arg[c].caller \in Thread
    /\ op[c] = "move" => arg[c].dest \in Cpu

\* What CPU c holds and asks for ascends.
Ascends(c) ==
    /\ want[c] # NONE => \A r \in Held(c) : r < want[c]
    /\ after[c] # NONE => want[c] # NONE /\ want[c] < after[c]

\* In these places CPU c has no lock, or its own, or it waits for that.
Places(c) ==
    /\ op[c] \in {"run", "read"} => want[c] = NONE /\ Held(c) = {}
    /\ op[c] \in {"leave", "balance"} =>
           /\ after[c] = NONE
           /\ \/ want[c] = c /\ Held(c) = {}
              \/ want[c] = NONE /\ Held(c) = {c}

OnCpu(c) == Locals(c) /\ Ascends(c) /\ Places(c)

LockInv == Typed /\ \A c \in Cpu : OnCpu(c)

\* The step of CPU c leaves the others' locks and local variables alone.
Local(c) ==
    \A d \in Cpu \ {c} :
        /\ want'[d] = want[d] /\ after'[d] = after[d]
        /\ op'[d] = op[d] /\ arg'[d] = arg[d] /\ curr'[d] = curr[d]
        /\ Held(d)' = Held(d)
-----------------------------------------------------------------------------
(* Numbers                                                                 *)

LEMMA LessThanWellFounded == IsWellFoundedOn({ss \in Nat \X Nat : ss[1] < ss[2]}, Nat)
BY NatLessThanWellFounded DEF OpToRel

LEMMA LeastNatural ==
    ASSUME NEW T \in SUBSET Nat, T # {}
    PROVE  \E n \in T : \A m \in T : n <= m
<1> DEFINE Less == {ss \in Nat \X Nat : ss[1] < ss[2]}
<1>1. PICK n \in T : \A m \in T : <<m, n>> \notin Less
    <2>1. IsWellFoundedOn(Less, Nat)
        BY LessThanWellFounded
    <2> QED
        BY <2>1, WFMin
<1>2. \A m \in T : ~(m < n)
    BY <1>1
<1>3. n \in Nat /\ \A m \in T : m \in Nat
    OBVIOUS
<1> QED
    BY <1>2, <1>3

LEMMA CpuNumbers == Cpu \subseteq Nat /\ NONE \notin Cpu /\ \A c \in Cpu : c < NR_CPUS
BY CpuAssumption DEF Cpu, NONE

\* __ffs of a mask that is not empty.
LEMMA LowestIn ==
    ASSUME NEW mask \in SUBSET Cpu, mask # {}
    PROVE  Lowest(mask) \in mask
<1>1. \E r \in mask : \A s \in mask : r <= s
    BY CpuNumbers, LeastNatural
<1> QED
    BY <1>1 DEF Lowest

LEMMA InOrderAscends ==
    ASSUME NEW r1 \in Cpu, NEW r2 \in Cpu
    PROVE  /\ InOrder(r1, r2)[1] \in Cpu /\ InOrder(r1, r2)[2] \in Lock
           /\ InOrder(r1, r2)[2] # NONE => InOrder(r1, r2)[1] < InOrder(r1, r2)[2]
BY CpuNumbers DEF InOrder, Lock
-----------------------------------------------------------------------------
(* Steps of one CPU                                                        *)

\* The invariant follows from what CPU c does to its own part.
LEMMA Frame ==
    ASSUME LockInv, NEW c \in Cpu, Typed', Local(c), OnCpu(c)'
    PROVE  LockInv'
<1> SUFFICES ASSUME NEW d \in Cpu, d # c
             PROVE  OnCpu(d)'
    BY DEF LockInv
<1>1. OnCpu(d)
    BY DEF LockInv
<1>2. /\ want'[d] = want[d] /\ after'[d] = after[d]
      /\ op'[d] = op[d] /\ arg'[d] = arg[d] /\ curr'[d] = curr[d]
      /\ Held(d)' = Held(d)
    BY DEF Local
<1>3. Locals(d)'
    BY <1>1, <1>2 DEF OnCpu, Locals
<1>4. Ascends(d)'
    BY <1>1, <1>2 DEF OnCpu, Ascends
<1>5. Places(d)'
    BY <1>1, <1>2 DEF OnCpu, Places
<1> QED
    BY <1>3, <1>4, <1>5 DEF OnCpu

\* All locks of c are free, nobody else's.
LEMMA Unlocked ==
    ASSUME Typed, NEW c \in Cpu, UnlockAll(c)
    PROVE  /\ lock' \in [Cpu -> Lock] /\ Held(c)' = {}
           /\ \A d \in Cpu \ {c} : Held(d)' = Held(d)
<1>1. lock' \in [Cpu -> Lock]
    BY DEF Typed, UnlockAll, Lock
<1>2. \A r \in Cpu : lock'[r] = IF lock[r] = c THEN NONE ELSE lock[r]
    BY DEF UnlockAll
<1> QED
    BY <1>1, <1>2, CpuNumbers DEF Held

LEMMA Asked ==
    ASSUME Typed, NEW c \in Cpu, NEW r1 \in Lock, NEW r2 \in Lock, Ask(c, r1, r2)
    PROVE  /\ want' \in [Cpu -> Lock] /\ after' \in [Cpu -> Lock]
           /\ want'[c] = r1 /\ after'[c] = r2
           /\ \A d \in Cpu \ {c} : want'[d] = want[d] /\ after'[d] = after[d]
BY DEF Typed, Ask

LEMMA Gone ==
    ASSUME Typed, NEW c \in Cpu, NEW step \in Op, NEW local, Goto(c, step, local)
    PROVE  /\ op' \in [Cpu -> Op] /\ arg' = [d \in Cpu |-> arg'[d]]
           /\ op'[c] = step /\ arg'[c] = local
           /\ \A d \in Cpu \ {c} : op'[d] = op[d] /\ arg'[d] = arg[d]
<1>1. op' \in [Cpu -> Op] /\ op'[c] = step /\ \A d \in Cpu \ {c} : op'[d] = op[d]
    BY DEF Typed, Goto
<1>2. /\ arg' = [d \in Cpu |-> arg'[d]] /\ arg'[c] = local
      /\ \A d \in Cpu \ {c} : arg'[d] = arg[d]
    <2>1. arg = [d \in Cpu |-> arg[d]] /\ arg' = [arg EXCEPT ![c] = local]
        BY DEF Typed, Goto
    <2> QED
        BY <2>1
<1> QED
    BY <1>1, <1>2

\* c has no more to do with locks.
LEMMA Returns ==
    ASSUME LockInv, NEW c \in Cpu, Return(c), want[c] = NONE,
           migration_queue' \in [Cpu -> Seq(Requests)], cpu' \in [Thread -> Cpu],
           cpus_allowed' \in [Thread -> (SUBSET Cpu) \ {{}}],
           curr' = [d \in Cpu |-> curr'[d]], \A d \in Cpu \ {c} : curr'[d] = curr[d]
    PROVE  LockInv'
<1>1. Typed /\ OnCpu(c) /\ UnlockAll(c) /\ Goto(c, "run", NoArg) /\ UNCHANGED <<want, after>>
    BY DEF LockInv, Return
<1>2. "run" \in Op
    BY DEF Op
<1>3. Typed'
    BY <1>1, <1>2, Unlocked, Gone DEF Typed
<1>4. Local(c)
    BY <1>1, <1>2, Unlocked, Gone DEF Local
<1>5. op'[c] = "run" /\ want'[c] = NONE /\ after'[c] = after[c] /\ Held(c)' = {}
    BY <1>1, <1>2, Unlocked, Gone
<1>6. OnCpu(c)'
    BY <1>1, <1>5 DEF OnCpu, Locals, Ascends, Places
<1> QED
    BY <1>3, <1>4, <1>6, Frame

\* Nothing is held, and then at most two locks are asked for, in ascending order.
LEMMA Asks ==
    ASSUME LockInv, NEW c \in Cpu, NEW step \in {"wake", "affine", "policy", "serve", "move"},
           NEW local,
           NEW r1 \in Cpu, NEW r2 \in Lock, r2 # NONE => r1 < r2,
           Goto(c, step, local), Ask(c, r1, r2),
           UnlockAll(c) \/ (UNCHANGED lock /\ Held(c) = {}),
           migration_queue' \in [Cpu -> Seq(Requests)], cpu' \in [Thread -> Cpu],
           cpus_allowed' \in [Thread -> (SUBSET Cpu) \ {{}}],
           UNCHANGED curr,
           step # "serve" => local.p \in Thread,
           step = "affine" => local.mask \in Masks /\ curr[c] \in Thread,
           step = "move" => local.caller \in Thread /\ local.dest \in Cpu
    PROVE  LockInv'
<1>1. Typed /\ OnCpu(c)
    BY DEF LockInv
<1>2. step \in Op /\ r1 \in Lock
    BY DEF Op, Lock
<1>3. /\ lock' \in [Cpu -> Lock] /\ Held(c)' = {}
      /\ \A d \in Cpu \ {c} : Held(d)' = Held(d)
    <2>1. CASE UnlockAll(c)
        BY <1>1, <2>1, Unlocked
    <2>2. CASE UNCHANGED lock /\ Held(c) = {}
        BY <1>1, <2>2 DEF Typed, Held
    <2> QED
        BY <2>1, <2>2
<1>4. Typed'
    BY <1>1, <1>2, <1>3, Gone, Asked DEF Typed
<1>5. Local(c)
    BY <1>1, <1>2, <1>3, Gone, Asked DEF Local
<1>6. /\ op'[c] = step /\ arg'[c] = local /\ want'[c] = r1 /\ after'[c] = r2
      /\ curr'[c] = curr[c]
    BY <1>1, <1>2, Gone, Asked
<1>7. Locals(c)'
    BY <1>6 DEF Locals
<1>8. Ascends(c)'
    BY <1>3, <1>6, CpuNumbers DEF Ascends
<1>9. Places(c)'
    BY <1>6 DEF Places
<1> QED
    BY <1>4, <1>5, <1>7, <1>8, <1>9, Frame DEF OnCpu

\* task_rq_lock lets go and tries another run queue; what the CPU does remains.
LEMMA Retries ==
    ASSUME LockInv, NEW c \in Cpu, NEW r \in Cpu, Retry(c, r),
           op[c] \in {"wake", "affine", "policy"},
           UNCHANGED <<curr, migration_queue, cpus_allowed>>, cpu' \in [Thread -> Cpu]
    PROVE  LockInv'
<1>1. Typed /\ OnCpu(c) /\ UnlockAll(c) /\ Ask(c, r, NONE) /\ UNCHANGED <<op, arg>>
    BY DEF LockInv, Retry, steps
<1>2. r \in Lock /\ NONE \in Lock
    BY DEF Lock
<1>3. Typed'
    BY <1>1, <1>2, Unlocked, Asked DEF Typed
<1>4. Local(c)
    BY <1>1, <1>2, Unlocked, Asked DEF Local
<1>5. /\ op'[c] = op[c] /\ arg'[c] = arg[c] /\ want'[c] = r /\ after'[c] = NONE
      /\ curr'[c] = curr[c] /\ Held(c)' = {}
    BY <1>1, <1>2, Unlocked, Asked
<1>6. OnCpu(c)'
    BY <1>1, <1>5 DEF OnCpu, Locals, Ascends, Places
<1> QED
    BY <1>3, <1>4, <1>6, Frame
-----------------------------------------------------------------------------
(* The actions                                                             *)

LEMMA LockInit == Init => LockInv
<1> SUFFICES ASSUME Init PROVE LockInv
    OBVIOUS
<1>1. Typed
    <2>1. 0 \in Cpu
        BY CpuAssumption DEF Cpu
    <2>2. cpu \in [Thread -> Cpu]
        BY <2>1 DEF Init, Thread, Migrators, migration_thread
    <2>3. cpus_allowed \in [Thread -> (SUBSET Cpu) \ {{}}]
        <3>1. InitMask \in (SUBSET Cpu) \ {{}}
            BY CallAssumption
        <3>2. \A t \in Thread \ Task : {t[2]} \in (SUBSET Cpu) \ {{}}
            BY DEF Thread, Migrators, migration_thread
        <3>3. cpus_allowed = [t \in Thread |-> IF t \in Task THEN InitMask ELSE {t[2]}]
            BY DEF Init
        <3> QED
            BY <3>1, <3>2, <3>3
    <2>4. migration_queue \in [Cpu -> Seq(Requests)]
        <3>1. << >> \in Seq(Requests)
            BY EmptySeq
        <3> QED
            BY <3>1 DEF Init
    <2>5. arg = [c \in Cpu |-> arg[c]] /\ curr = [c \in Cpu |-> curr[c]]
        BY DEF Init
    <2>6. /\ lock \in [Cpu -> Lock] /\ want \in [Cpu -> Lock] /\ after \in [Cpu -> Lock]
          /\ op \in [Cpu -> Op]
        BY DEF Init, Lock, Op
    <2> QED
        BY <2>2, <2>3, <2>4, <2>5, <2>6 DEF Typed
<1>2. \A c \in Cpu : OnCpu(c)
    BY CpuNumbers DEF Init, OnCpu, Locals, Ascends, Places, Held
<1> QED
    BY <1>1, <1>2 DEF LockInv

\* spin_lock takes the lock that the CPU asked for: it is above all it holds.
LEMMA SpinLocks ==
    ASSUME LockInv, NEW c \in Cpu, spin_lock(c)
    PROVE  LockInv'
<1> DEFINE w == want[c]
<1>1. Typed /\ OnCpu(c) /\ w \in Cpu /\ lock[w] = NONE
    BY DEF LockInv, Typed, Lock, spin_lock
<1>2. /\ lock' = [lock EXCEPT ![w] = c] /\ Ask(c, after[c], NONE)
      /\ UNCHANGED <<op, arg, curr, migration_queue, cpu, cpus_allowed>>
    BY DEF spin_lock, steps, queues, fields
<1>3. after[c] \in Lock /\ NONE \in Lock /\ c \in Lock
    BY <1>1 DEF Typed, Lock
<1>4. lock' \in [Cpu -> Lock] /\ \A r \in Cpu : lock'[r] = IF r = w THEN c ELSE lock[r]
    BY <1>1, <1>2, <1>3 DEF Typed
<1>5. Held(c)' = Held(c) \cup {w} /\ \A d \in Cpu \ {c} : Held(d)' = Held(d)
    BY <1>1, <1>4, CpuNumbers DEF Held
<1> HIDE DEF w
<1>6. Typed'
    BY <1>1, <1>2, <1>3, <1>4, Asked DEF Typed
<1>7. Local(c)
    BY <1>1, <1>2, <1>3, <1>5, Asked DEF Local
<1>8. /\ op'[c] = op[c] /\ arg'[c] = arg[c] /\ curr'[c] = curr[c]
      /\ want'[c] = after[c] /\ after'[c] = NONE
    BY <1>1, <1>2, <1>3, Asked
<1>9. Locals(c)'
    BY <1>1, <1>8 DEF OnCpu, Locals
<1>10. Ascends(c)'
    <2>1. after[c] # NONE => after[c] \in Cpu /\ w < after[c] /\ \A r \in Held(c) : r < w
        BY <1>1, <1>3, CpuNumbers DEF OnCpu, Ascends, Lock, w
    <2>2. \A r \in Held(c) : r \in Nat
        BY CpuNumbers DEF Held
    <2>3. SUFFICES ASSUME after[c] # NONE, NEW r \in Held(c)'
                   PROVE  r < after[c]
        BY <1>8 DEF Ascends
    <2>4. /\ r \in Nat /\ w \in Nat /\ after[c] \in Nat /\ w < after[c]
          /\ r = w \/ r < w
        BY <1>1, <1>5, <2>1, <2>2, <2>3, CpuNumbers
    <2> QED
        BY <2>4
<1>11. Places(c)'
    BY <1>1, <1>5, <1>8, CpuNumbers DEF OnCpu, Places, w
<1> QED
    BY <1>6, <1>7, <1>9, <1>10, <1>11, Frame DEF OnCpu

\* switch_tasks ends with finish_arch_switch, which unlocks.
LEMMA Switches ==
    ASSUME LockInv, NEW c \in Cpu, switch_tasks(c), want[c] = NONE,
           UNCHANGED <<migration_queue, cpus_allowed>>, cpu' \in [Thread -> Cpu]
    PROVE  LockInv'
<1>1. PICK next : curr' = [curr EXCEPT ![c] = next]
    BY DEF switch_tasks
<1>2. curr = [d \in Cpu |-> curr[d]]
    BY DEF LockInv, Typed
<1>3. curr' = [d \in Cpu |-> curr'[d]] /\ \A d \in Cpu \ {c} : curr'[d] = curr[d]
    BY <1>1, <1>2
<1>4. Return(c)
    BY DEF switch_tasks
<1>5. /\ migration_queue' \in [Cpu -> Seq(Requests)]
      /\ cpus_allowed' \in [Thread -> (SUBSET Cpu) \ {{}}]
    BY DEF LockInv, Typed
<1> QED
    BY <1>3, <1>4, <1>5, Returns

\* schedule() after the previous task has left.
LEMMA Picks ==
    ASSUME LockInv, NEW c \in Cpu, pick_next_task(c), At(c, "leave"),
           UNCHANGED <<migration_queue, cpus_allowed, cpu>>
    PROVE  LockInv'
<1>1. Typed /\ OnCpu(c) /\ op[c] = "leave" /\ want[c] = NONE
    BY DEF LockInv, At
<1>2. CASE switch_tasks(c)
    <2>1. cpu' \in [Thread -> Cpu]
        BY <1>1 DEF Typed
    <2> QED
        BY <1>1, <1>2, <2>1, Switches
<1>3. CASE Goto(c, "balance", [from |-> "schedule"]) /\ UNCHANGED <<locks, curr, need_resched>>
    <2>1. "balance" \in Op /\ UNCHANGED <<lock, want, after, curr>>
        BY <1>3 DEF Op, locks
    <2>2. \A d \in Cpu : Held(d)' = Held(d)
        BY <2>1 DEF Held
    <2>3. Typed'
        BY <1>1, <1>3, <2>1, Gone DEF Typed
    <2>4. Local(c)
        BY <1>1, <1>3, <2>1, <2>2, Gone DEF Local
    <2>5. op'[c] = "balance"
        BY <1>1, <1>3, <2>1, Gone
    <2>6. OnCpu(c)'
        BY <1>1, <2>1, <2>2, <2>5 DEF OnCpu, Locals, Ascends, Places
    <2> QED
        BY <2>3, <2>4, <2>6, Frame
<1> QED
    BY <1>2, <1>3 DEF pick_next_task

\* From "run", a CPU asks for one lock.
LEMMA Begins ==
    ASSUME LockInv, NEW c \in Cpu, op[c] = "run",
           NEW step \in {"leave", "balance", "wake", "affine", "policy", "serve"},
           NEW local, NEW r \in Cpu,
           Begin(c, step, local, r), UNCHANGED <<curr, migration_queue, cpu, cpus_allowed>>,
           step \in {"leave", "balance"} => r = c,
           step \in {"wake", "affine", "policy"} => local.p \in Thread,
           step = "affine" => local.mask \in Masks /\ curr[c] \in Thread
    PROVE  LockInv'
<1>1. /\ Typed /\ OnCpu(c) /\ Goto(c, step, local) /\ Ask(c, r, NONE) /\ UNCHANGED lock
      /\ Held(c) = {}
    BY DEF LockInv, Begin, OnCpu, Places
<1>2. step \in Op /\ r \in Lock /\ NONE \in Lock
    BY DEF Op, Lock
<1>3. \A d \in Cpu : Held(d)' = Held(d)
    BY <1>1 DEF Held
<1>4. Typed'
    BY <1>1, <1>2, Gone, Asked DEF Typed
<1>5. Local(c)
    BY <1>1, <1>2, <1>3, Gone, Asked DEF Local
<1>6. /\ op'[c] = step /\ arg'[c] = local /\ want'[c] = r /\ after'[c] = NONE
      /\ curr'[c] = curr[c] /\ Held(c)' = {}
    BY <1>1, <1>2, <1>3, Gone, Asked
<1>7. Locals(c)'
    BY <1>6 DEF Locals
<1>8. Ascends(c)'
    BY <1>6 DEF Ascends
<1>9. Places(c)'
    BY <1>6 DEF Places
<1> QED
    BY <1>4, <1>5, <1>7, <1>8, <1>9, Frame DEF OnCpu

\* load_balance returns to schedule() or to the interrupted task.
LEMMA Finishes ==
    ASSUME LockInv, NEW c \in Cpu, Finish(c), want[c] = NONE,
           UNCHANGED <<migration_queue, cpus_allowed>>, cpu' \in [Thread -> Cpu]
    PROVE  LockInv'
<1>1. CASE switch_tasks(c)
    BY <1>1, Switches
<1>2. CASE Return(c) /\ UNCHANGED curr
    <2>1. /\ migration_queue' \in [Cpu -> Seq(Requests)]
          /\ cpus_allowed' \in [Thread -> (SUBSET Cpu) \ {{}}]
          /\ curr' = [d \in Cpu |-> curr'[d]] /\ \A d \in Cpu \ {c} : curr'[d] = curr[d]
        BY <1>2 DEF LockInv, Typed
    <2> QED
        BY <1>2, <2>1, Returns
<1> QED
    BY <1>1, <1>2 DEF Finish

\* double_lock_balance: with its own lock alone, the CPU takes a free one at
\* once, waits for a higher one, or lets go of its own and asks for both.
LEMMA DoubleLocks ==
    ASSUME LockInv, NEW c \in Cpu, double_lock_balance(c)
    PROVE  LockInv'
<1>1. PICK b \in Cpu, load \in 0 .. Cardinality(Thread), length \in 0 .. Cardinality(Thread) :
          /\ At(c, "balance") /\ b # c
          /\ \/ /\ lock[b] = NONE
                /\ lock' = [lock EXCEPT ![b] = c]
                /\ Goto(c, "pull", Found(c, b, load, length))
                /\ UNCHANGED <<want, after>>
             \/ /\ lock[b] # NONE /\ b > c
                /\ Ask(c, b, NONE)
                /\ Goto(c, "pull", Found(c, b, load, length))
                /\ UNCHANGED lock
             \/ /\ lock[b] # NONE /\ b < c
                /\ lock' = [lock EXCEPT ![c] = NONE]
                /\ Ask(c, b, c)
                /\ Goto(c, "pull", [Found(c, b, load, length) EXCEPT !.length = NONE])
          /\ UNCHANGED <<queues, fields>>
    BY DEF double_lock_balance, MayFind
<1>2. PICK local : Goto(c, "pull", local)
    BY <1>1
<1>3. Typed /\ OnCpu(c) /\ "pull" \in Op /\ b \in Lock /\ c \in Lock /\ NONE \in Lock
    BY DEF LockInv, Op, Lock
<1>4. /\ op[c] = "balance" /\ want[c] = NONE /\ after[c] = NONE /\ Held(c) = {c}
      /\ UNCHANGED <<curr, migration_queue, cpu, cpus_allowed>>
    BY <1>1, <1>3, CpuNumbers DEF At, OnCpu, Places, queues, fields
<1>5. SUFFICES /\ lock' \in [Cpu -> Lock] /\ \A d \in Cpu \ {c} : Held(d)' = Held(d)
               /\ want' \in [Cpu -> Lock] /\ after' \in [Cpu -> Lock]
               /\ \A d \in Cpu \ {c} : want'[d] = want[d] /\ after'[d] = after[d]
               /\ Ascends(c)'
    <2>1. Typed'
        BY <1>2, <1>3, <1>4, <1>5, Gone DEF Typed
    <2>2. Local(c)
        BY <1>2, <1>3, <1>4, <1>5, Gone DEF Local
    <2>3. op'[c] = "pull"
        BY <1>2, <1>3, Gone
    <2> QED
        BY <1>5, <2>1, <2>2, <2>3, Frame DEF OnCpu, Locals, Places
<1>6. CASE lock[b] = NONE /\ lock' = [lock EXCEPT ![b] = c] /\ UNCHANGED <<want, after>>
    <2>1. \A r \in Cpu : lock'[r] = IF r = b THEN c ELSE lock[r]
        BY <1>3, <1>6 DEF Typed
    <2>2. lock' \in [Cpu -> Lock] /\ \A d \in Cpu \ {c} : Held(d)' = Held(d)
        BY <1>3, <1>6, <2>1, CpuNumbers DEF Typed, Held
    <2> QED
        BY <1>3, <1>4, <1>6, <2>2 DEF Typed, Ascends
<1>7. CASE b > c /\ Ask(c, b, NONE) /\ UNCHANGED lock
    <2>1. \A d \in Cpu : Held(d)' = Held(d)
        BY <1>7 DEF Held
    <2>2. want'[c] = b /\ after'[c] = NONE
        BY <1>3, <1>7, Asked
    <2>3. Ascends(c)'
        BY <1>4, <1>7, <2>1, <2>2, CpuNumbers DEF Ascends
    <2> QED
        BY <1>3, <1>7, <2>1, <2>3, Asked DEF Typed
<1>8. CASE b < c /\ lock' = [lock EXCEPT ![c] = NONE] /\ Ask(c, b, c)
    <2>1. \A r \in Cpu : lock'[r] = IF r = c THEN NONE ELSE lock[r]
        BY <1>3, <1>8 DEF Typed
    <2>2. lock' \in [Cpu -> Lock] /\ Held(c)' = {}
        BY <1>3, <1>4, <1>8, <2>1, CpuNumbers DEF Typed, Held
    <2>3. \A d \in Cpu \ {c} : Held(d)' = Held(d)
        <3>1. lock[c] = c
            BY <1>4 DEF Held
        <3> QED
            BY <2>1, <3>1, CpuNumbers DEF Held
    <2>4. want'[c] = b /\ after'[c] = c
        BY <1>3, <1>8, Asked
    <2>5. Ascends(c)'
        BY <1>8, <2>2, <2>4, CpuNumbers DEF Ascends
    <2> QED
        BY <1>3, <1>8, <2>2, <2>3, <2>5, Asked
<1> QED
    BY <1>1, <1>6, <1>7, <1>8

LEMMA SwitchSteps ==
    ASSUME LockInv, NEW c \in Cpu, Switch(c)
    PROVE  LockInv'
<1>1. /\ At(c, "leave") /\ pick_next_task(c)
      /\ UNCHANGED <<migration_queue, cpus_allowed, cpu>>
    BY DEF Switch, leave_running, leave_sleeping
<1> QED
    BY <1>1, Picks

LEMMA BalanceSteps ==
    ASSUME LockInv, NEW c \in Cpu, Balance(c)
    PROVE  LockInv'
<1>1. Typed
    BY DEF LockInv
<1>2. CASE double_lock_balance(c)
    BY <1>2, DoubleLocks
<1>3. CASE balance_none(c)
    <2>1. Finish(c) /\ want[c] = NONE /\ UNCHANGED <<migration_queue, cpus_allowed, cpu>>
        BY <1>3 DEF balance_none, At, fields
    <2> QED
        BY <1>1, <2>1, Finishes DEF Typed
<1>4. CASE pull_none(c)
    <2>1. Finish(c) /\ want[c] = NONE /\ UNCHANGED <<migration_queue, cpus_allowed, cpu>>
        BY <1>4 DEF pull_none, At, fields
    <2> QED
        BY <1>1, <2>1, Finishes DEF Typed
<1>5. CASE pull(c)
    <2>1. PICK S : cpu' = [t \in Thread |-> IF t \in S THEN c ELSE cpu[t]]
        BY <1>5 DEF pull
    <2>2. Finish(c) /\ want[c] = NONE /\ UNCHANGED <<migration_queue, cpus_allowed>>
        BY <1>5 DEF pull, At
    <2>3. cpu' \in [Thread -> Cpu]
        BY <1>1, <2>1 DEF Typed
    <2> QED
        BY <2>2, <2>3, Finishes
<1> QED
    BY <1>2, <1>3, <1>4, <1>5 DEF Balance

LEMMA WakeSteps ==
    ASSUME LockInv, NEW c \in Cpu, Wake(c)
    PROVE  LockInv'
<1> DEFINE p == arg[c].p
<1>1. op[c] = "wake" /\ want[c] = NONE
    BY DEF Wake, wake_retry, wake_running, try_to_wake_up, At
<1>2. Typed /\ p \in Thread /\ cpu[p] \in Cpu
    BY <1>1 DEF LockInv, OnCpu, Locals, Typed
<1>3. CASE wake_retry(c)
    <2>1. UNCHANGED <<curr, migration_queue, cpus_allowed>>
        BY <1>3 DEF wake_retry, queues
    <2>2. CASE Retry(c, cpu[p]) /\ UNCHANGED cpu
        BY <1>1, <1>2, <2>1, <2>2, Retries DEF Typed
    <2>3. CASE cpu' = [cpu EXCEPT ![p] = c] /\ Retry(c, c)
        <3>1. cpu' \in [Thread -> Cpu]
            BY <1>2, <2>3 DEF Typed
        <3> QED
            BY <1>1, <2>1, <2>3, <3>1, Retries
    <2> QED
        BY <1>3, <2>2, <2>3 DEF wake_retry
<1>4. CASE wake_running(c) \/ try_to_wake_up(c)
    <2>1. Return(c) /\ UNCHANGED <<curr, migration_queue, cpu, cpus_allowed>>
        BY <1>4 DEF wake_running, try_to_wake_up, queues
    <2> QED
        BY <1>1, <1>2, <2>1, Returns DEF Typed
<1> QED
    BY <1>3, <1>4 DEF Wake

LEMMA AffineSteps ==
    ASSUME LockInv, NEW c \in Cpu, Affine(c)
    PROVE  LockInv'
<1> DEFINE p == arg[c].p
           mask == arg[c].mask
<1>1. /\ Typed /\ op[c] \in {"affine", "policy"}
      /\ op[c] = "policy" => lock_retry(c)
    BY DEF Affine, lock_retry, affine_simple, affine_request, At, LockInv
<1>2. /\ p \in Thread /\ cpu[p] \in Cpu
      /\ op[c] = "affine" => curr[c] \in Thread /\ mask \in (SUBSET Cpu) \ {{}}
    BY <1>1, CallAssumption DEF LockInv, OnCpu, Locals, Typed
<1>3. CASE lock_retry(c)
    <2>1. Retry(c, cpu[p]) /\ UNCHANGED <<curr, migration_queue, cpus_allowed, cpu>>
        BY <1>3 DEF lock_retry, queues, fields
    <2> QED
        BY <1>1, <1>2, <2>1, Retries DEF Typed
<1>4. CASE affine_simple(c)
    <2>0. op[c] = "affine"
        BY <1>4 DEF affine_simple, At
    <2>1. /\ Return(c) /\ want[c] = NONE /\ UNCHANGED <<curr, migration_queue>>
          /\ cpu' = cpu \/ cpu' = [cpu EXCEPT ![p] = Lowest(mask)]
          /\ cpus_allowed' = [cpus_allowed EXCEPT ![p] = mask]
        BY <1>4 DEF affine_simple, At, queues
    <2>2. Lowest(mask) \in Cpu
        BY <1>2, <2>0, LowestIn
    <2>3. cpu' \in [Thread -> Cpu] /\ cpus_allowed' \in [Thread -> (SUBSET Cpu) \ {{}}]
        BY <1>1, <1>2, <2>0, <2>1, <2>2 DEF Typed
    <2> QED
        BY <1>1, <2>1, <2>3, Returns DEF Typed
<1>5. CASE affine_request(c)
    <2> DEFINE r == cpu[p]
               m == migration_thread(r)
               request == [p |-> p, caller |-> curr[c]]
    <2>0. op[c] = "affine"
        BY <1>5 DEF affine_request, At
    <2>1. /\ cpus_allowed' = [cpus_allowed EXCEPT ![p] = mask]
          /\ migration_queue' = [migration_queue EXCEPT ![r] = <<request>> \o @]
          /\ UnlockAll(c) /\ Goto(c, "wake", [p |-> m, sync |-> FALSE])
          /\ Ask(c, cpu[m], NONE) /\ UNCHANGED <<curr, cpu>>
        BY <1>5 DEF affine_request
    <2>2. m \in Thread /\ cpu[m] \in Cpu
        BY <1>1, <1>2 DEF Thread, Migrators, Typed
    <2>3. <<request>> \o migration_queue[r] \in Seq(Requests)
        <3>1. request \in Requests
            BY <1>2, <2>0 DEF Requests
        <3>2. <<request>> \in Seq(Requests) /\ migration_queue[r] \in Seq(Requests)
            BY <1>1, <1>2, <3>1 DEF Typed
        <3> HIDE DEF request
        <3> QED
            BY <3>2, ConcatProperties
    <2>4. migration_queue' \in [Cpu -> Seq(Requests)]
        BY <1>1, <1>2, <2>1, <2>3 DEF Typed
    <2>5. cpus_allowed' \in [Thread -> (SUBSET Cpu) \ {{}}] /\ cpu' \in [Thread -> Cpu]
        BY <1>1, <1>2, <2>0, <2>1 DEF Typed
    <2>6. [p |-> m, sync |-> FALSE].p \in Thread /\ NONE \in Lock
        BY <2>2 DEF Lock
    <2> HIDE DEF m
    <2> QED
        BY <2>1, <2>2, <2>4, <2>5, <2>6, Asks
<1> QED
    BY <1>3, <1>4, <1>5 DEF Affine

LEMMA PolicySteps ==
    ASSUME LockInv, NEW c \in Cpu, Policy(c)
    PROVE  LockInv'
<1>1. /\ Return(c) /\ want[c] = NONE
      /\ UNCHANGED <<curr, migration_queue, cpu, cpus_allowed>>
    BY DEF Policy, policy_refused, change_policy, At, queues, fields
<1> QED
    BY <1>1, Returns DEF LockInv, Typed

LEMMA MigrationSteps ==
    ASSUME LockInv, NEW c \in Cpu, Migration(c)
    PROVE  LockInv'
<1>1. Typed /\ OnCpu(c) /\ NONE \in Lock
    BY DEF LockInv, Lock
<1>2. CASE no_request(c)
    <2>1. Return(c) /\ want[c] = NONE /\ UNCHANGED <<curr, migration_queue, cpu, cpus_allowed>>
        BY <1>2 DEF no_request, At, queues
    <2> QED
        BY <1>1, <2>1, Returns DEF Typed
<1>3. CASE next_request(c)
    <2> DEFINE request == Head(migration_queue[c])
    <2>1. /\ migration_queue[c] # << >> /\ want[c] = NONE
          /\ migration_queue' = [migration_queue EXCEPT ![c] = Tail(@)]
          /\ UnlockAll(c) /\ Goto(c, "read", request)
          /\ UNCHANGED <<want, after, curr, cpu, cpus_allowed>>
        BY <1>3 DEF next_request, At
    <2>2. request \in Requests /\ Tail(migration_queue[c]) \in Seq(Requests) /\ "read" \in Op
        BY <1>1, <2>1, HeadTailProperties DEF Typed, Op
    <2> HIDE DEF request
    <2>3. migration_queue' \in [Cpu -> Seq(Requests)]
        BY <1>1, <2>1, <2>2 DEF Typed
    <2>4. Typed'
        BY <1>1, <2>1, <2>2, <2>3, Unlocked, Gone DEF Typed
    <2>5. Local(c)
        BY <1>1, <2>1, <2>2, Unlocked, Gone DEF Local
    <2>6. /\ op'[c] = "read" /\ arg'[c] = request /\ Held(c)' = {}
          /\ want'[c] = NONE /\ after'[c] = after[c]
        BY <1>1, <2>1, <2>2, Unlocked, Gone
    <2>7. request.p \in Thread /\ request.caller \in Thread
        BY <2>2 DEF Requests
    <2>8. OnCpu(c)'
        BY <1>1, <2>1, <2>6, <2>7 DEF OnCpu, Locals, Ascends, Places
    <2> QED
        BY <2>4, <2>5, <2>8, Frame
<1>4. CASE read_dest(c)
    <2> DEFINE p == arg[c].p
               dest == Lowest(cpus_allowed[p])
               local == [p |-> p, caller |-> arg[c].caller, dest |-> dest, src |-> cpu[p]]
    <2>1. /\ op[c] = "read" /\ Goto(c, "move", local) /\ double_rq_lock(c, cpu[p], dest)
          /\ UNCHANGED <<lock, curr, migration_queue, cpu, cpus_allowed>>
        BY <1>4 DEF read_dest, At, queues, fields
    <2>2. p \in Thread /\ arg[c].caller \in Thread /\ Held(c) = {}
        BY <1>1, <2>1 DEF OnCpu, Locals, Places
    <2>3. cpu[p] \in Cpu /\ dest \in Cpu
        BY <1>1, <2>2, LowestIn DEF Typed
    <2>4. local.p \in Thread /\ local.caller \in Thread /\ local.dest \in Cpu
        BY <2>2, <2>3
    <2> HIDE DEF dest, local
    <2> QED
        BY <1>1, <2>1, <2>2, <2>3, <2>4, InOrderAscends, Asks DEF Typed, double_rq_lock
<1>5. CASE move_retry(c)
    <2> DEFINE p == arg[c].p
               dest == arg[c].dest
               local == [arg[c] EXCEPT !.src = cpu[p]]
    <2>1. /\ op[c] = "move" /\ UnlockAll(c) /\ Goto(c, "move", local)
          /\ double_rq_lock(c, cpu[p], dest)
          /\ UNCHANGED <<curr, migration_queue, cpu, cpus_allowed>>
        BY <1>5 DEF move_retry, At, queues, fields
    <2>2. p \in Thread /\ arg[c].caller \in Thread /\ dest \in Cpu /\ cpu[p] \in Cpu
        BY <1>1, <2>1 DEF OnCpu, Locals, Typed
    <2>3. local.p = p /\ local.caller = arg[c].caller /\ local.dest = dest
        OBVIOUS
    <2> HIDE DEF p, dest, local
    <2> QED
        BY <1>1, <2>1, <2>2, <2>3, InOrderAscends, Asks DEF Typed, double_rq_lock
<1>6. CASE migrate(c)
    <2> DEFINE p == arg[c].p
               caller == arg[c].caller
               local == [p |-> caller, sync |-> FALSE]
    <2>1. /\ op[c] = "move" /\ UnlockAll(c) /\ Goto(c, "wake", local)
          /\ Ask(c, cpu'[caller], NONE)
          /\ cpu' = cpu \/ cpu' = [cpu EXCEPT ![p] = arg[c].dest]
          /\ UNCHANGED <<curr, migration_queue, cpus_allowed>>
        BY <1>6 DEF migrate, At
    <2>2. p \in Thread /\ caller \in Thread /\ arg[c].dest \in Cpu
        BY <1>1, <2>1 DEF OnCpu, Locals
    <2>3. cpu' \in [Thread -> Cpu] /\ cpu'[caller] \in Cpu
        BY <1>1, <2>1, <2>2 DEF Typed
    <2>4. local.p \in Thread
        BY <2>2
    <2> HIDE DEF caller, local
    <2> QED
        BY <1>1, <2>1, <2>3, <2>4, Asks DEF Typed
<1> QED
    BY <1>2, <1>3, <1>4, <1>5, <1>6 DEF Migration

\* What begins while the CPU executes: nothing is held.
LEMMA RunSteps ==
    ASSUME LockInv, NEW c \in Cpu, Executes(c) \/ Outside(c)
    PROVE  LockInv'
<1>1. Typed
    BY DEF LockInv
<1>2. CASE down(c) \/ sleep(c)
    <2>1. UNCHANGED <<lock, want, after, op, arg, curr, migration_queue, cpu, cpus_allowed>>
        BY <1>2 DEF down, sleep, locks, steps, queues
    <2> QED
        BY <2>1 DEF LockInv, Typed, OnCpu, Locals, Ascends, Places, Held
<1>3. CASE schedule(c)
    <2>1. /\ op[c] = "run" /\ Begin(c, "leave", NoArg, c)
          /\ UNCHANGED <<curr, migration_queue, cpu, cpus_allowed>>
        BY <1>3 DEF schedule, queues, fields
    <2> QED
        BY <2>1, Begins
<1>4. CASE scheduler_tick(c)
    <2>1. PICK local : Begin(c, "balance", local, c)
        BY <1>4 DEF scheduler_tick
    <2>2. op[c] = "run" /\ UNCHANGED <<curr, migration_queue, cpu, cpus_allowed>>
        BY <1>4 DEF scheduler_tick, queues, fields
    <2> QED
        BY <2>1, <2>2, Begins
<1>5. CASE wake_up(c)
    <2>1. PICK p \in Task, sync \in BOOLEAN : Begin(c, "wake", [p |-> p, sync |-> sync], cpu[p])
        BY <1>5 DEF wake_up
    <2>2. op[c] = "run" /\ UNCHANGED <<curr, migration_queue, cpu, cpus_allowed>>
        BY <1>5 DEF wake_up, queues, fields
    <2> DEFINE local == [p |-> p, sync |-> sync]
    <2>3. local.p \in Thread /\ cpu[p] \in Cpu /\ Begin(c, "wake", local, cpu[p])
        BY <1>1, <2>1 DEF Typed, Thread
    <2> HIDE DEF local
    <2> QED
        BY <2>2, <2>3, Begins
<1>6. CASE set_cpus_allowed(c)
    <2>1. PICK p \in Targets, mask \in Masks :
              Begin(c, "affine", [p |-> p, mask |-> mask], cpu[p])
        BY <1>6 DEF set_cpus_allowed
    <2>2. op[c] = "run" /\ curr[c] \in Callers /\ UNCHANGED <<curr, migration_queue, cpu, cpus_allowed>>
        BY <1>6 DEF set_cpus_allowed, queues, fields
    <2> DEFINE local == [p |-> p, mask |-> mask]
    <2>3. p \in Thread /\ curr[c] \in Thread
        BY <2>2, CallAssumption DEF Thread
    <2>4. local.p \in Thread /\ local.mask \in Masks /\ cpu[p] \in Cpu
          /\ Begin(c, "affine", local, cpu[p])
        BY <1>1, <2>1, <2>3 DEF Typed
    <2> HIDE DEF local
    <2> QED
        BY <2>2, <2>3, <2>4, Begins
<1>7. CASE setscheduler(c)
    <2>1. PICK p \in PolicyTargets : Begin(c, "policy", [p |-> p], cpu[p])
        BY <1>7 DEF setscheduler
    <2>2. op[c] = "run" /\ UNCHANGED <<curr, migration_queue, cpu, cpus_allowed>>
        BY <1>7 DEF setscheduler, queues, fields
    <2> DEFINE local == [p |-> p]
    <2>3. local.p \in Thread /\ cpu[p] \in Cpu /\ Begin(c, "policy", local, cpu[p])
        BY <1>1, <2>1, CallAssumption DEF Typed, Thread
    <2> HIDE DEF local
    <2> QED
        BY <2>2, <2>3, Begins
<1>8. CASE migration_loop(c)
    <2>1. /\ op[c] = "run" /\ Begin(c, "serve", NoArg, c)
          /\ UNCHANGED <<curr, migration_queue, cpu, cpus_allowed>>
        BY <1>8 DEF migration_loop, queues, fields
    <2> QED
        BY <2>1, Begins
<1> QED
    BY <1>2, <1>3, <1>4, <1>5, <1>6, <1>7, <1>8 DEF Executes, Outside

LEMMA LockNext == LockInv /\ [Next]_vars => LockInv'
<1> SUFFICES ASSUME LockInv, [Next]_vars
             PROVE  LockInv'
    OBVIOUS
<1>1. CASE UNCHANGED vars
    BY <1>1 DEF vars, locks, steps, queues, fields, LockInv, Typed, OnCpu, Locals, Ascends,
                Places, Held
<1>2. CASE Next
    <2>1. PICK c \in Cpu : Locked(c) \/ Executes(c) \/ Outside(c)
        BY <1>2 DEF Next
    <2>2. CASE Executes(c) \/ Outside(c)
        BY <2>2, RunSteps
    <2>3. CASE Locked(c)
        BY <2>3, SpinLocks, SwitchSteps, BalanceSteps, WakeSteps, AffineSteps, PolicySteps,
           MigrationSteps DEF Locked
    <2> QED
        BY <2>1, <2>2, <2>3
<1> QED
    BY <1>1, <1>2

\* The CPU of a group that spins on the highest lock waits for one outside.
LEMMA AscentHasNoCycle == LockInv => NoLockCycle
<1> SUFFICES ASSUME LockInv, NEW S \in SUBSET Cpu, S # {},
                    \A c \in S : want[c] # NONE /\ lock[want[c]] \in S
             PROVE  FALSE
    BY DEF NoLockCycle
<1> DEFINE Below(c) == NR_CPUS - want[c]
           T == {Below(c) : c \in S}
<1>1. \A c \in S : want[c] \in Cpu
    BY DEF LockInv, Typed, Lock
<1>2. T \in SUBSET Nat /\ T # {}
    <2>1. \A c \in S : Below(c) \in Nat
        BY <1>1, CpuAssumption DEF Cpu
    <2> HIDE DEF Below
    <2> QED
        BY <2>1
<1>3. PICK n \in T : \A m \in T : n <= m
    <2> HIDE DEF T
    <2> QED
        BY <1>2, LeastNatural
<1>4. PICK c \in S : n = Below(c)
    OBVIOUS
<1>5. PICK d \in S : lock[want[c]] = d
    OBVIOUS
<1>6. want[c] \in Held(d) /\ want[d] # NONE /\ OnCpu(d)
    BY <1>1, <1>5 DEF Held, LockInv
<1>7. want[c] < want[d]
    BY <1>6 DEF OnCpu, Ascends
<1>8. Below(c) <= Below(d)
    BY <1>3, <1>4
<1> QED
    BY <1>1, <1>7, <1>8, CpuAssumption DEF Cpu

\* "lock acquire operations must be ordered by ascending &runqueue" (sched.c:134):
\* double_rq_lock, double_lock_balance and the retries of task_rq_lock keep that
\* order, and so no group of CPUs ever waits for locks of its own members alone.
THEOREM LocksNeverCycle == Spec => []NoLockCycle
BY LockInit, LockNext, AscentHasNoCycle, PTL DEF Spec
-----------------------------------------------------------------------------
(* Tasks and run queues                                                    *)

Stations == {"user", "down", "upped", "loop", "sleep"}

Values ==
    /\ curr \in [Cpu -> Thread \cup {Idle}]
    /\ need_resched \in [Cpu -> BOOLEAN]
    /\ nr_running \in [Cpu -> Nat]
    /\ nr_uninterruptible \in [Cpu -> 0 .. WORD - 1]
    /\ migration_queue \in [Cpu -> Seq([p : Targets, caller : Callers])]
    /\ state \in [Thread -> State]
    /\ on \in [Thread -> Lock]
    /\ at \in [Thread -> Stations]

\* CPU c is in schedule(), which has taken the previous task off the run queue if
\* it sleeps.
Scheduling(c) == op[c] \in {"balance", "pull"} /\ arg[c].from = "schedule"

\* The task that CPU c executes is on the run queue of c.
Executing(c) ==
    curr[c] # Idle => cpu[curr[c]] = c /\ (Scheduling(c) \/ on[curr[c]] = c)

\* Who executes a step that is not anybody's, and for whom.
Serving(c) ==
    /\ op[c] \in {"serve", "read", "move"} => curr[c] = migration_thread(c)
    /\ op[c] = "affine" => arg[c].p \in Targets /\ curr[c] \in Callers
    /\ op[c] = "policy" => arg[c].p \in PolicyTargets /\ curr[c] \in PolicyCallers
    /\ op[c] \in {"read", "move"} => arg[c].p \in Targets /\ arg[c].caller \in Callers
    /\ op[c] = "pull" => arg[c].busiest \in Cpu \ {c}
    /\ op[c] \in {"balance", "pull"} => arg[c].from \in {"schedule", "tick", "idle_tick"}

TaskInv == LockInv /\ Values /\ QueuedWhereCpuSays /\ \A c \in Cpu : Executing(c) /\ Serving(c)

LEMMA Finite == IsFiniteSet(Thread) /\ WORD \in Nat \ {0}
<1>1. IsFiniteSet(Cpu)
    BY CpuAssumption, FS_Interval DEF Cpu
<1>2. IsFiniteSet(Migrators)
    <2> DEFINE f == [c \in Cpu |-> migration_thread(c)]
    <2>1. f \in Surjection(Cpu, Migrators)
        BY DEF Surjection, Migrators
    <2> QED
        BY <1>1, <2>1, FS_Surjection
<1>3. IsFiniteSet(Thread)
    BY <1>2, ThreadAssumption, FS_Union DEF Thread
<1>4. WORD \in Nat \ {0}
    <2> DEFINE S == Callers \cup (IF "UNINTERRUPTIBLE" \in Sleeps THEN Sleepers ELSE {})
    <2>1. S \in SUBSET Task
        BY CallAssumption
    <2>2. Cardinality(S) \in Nat
        BY <2>1, ThreadAssumption, FS_Subset, FS_CardinalityType
    <2>3. WORD \in Nat /\ WORD > Cardinality(S)
        BY CallAssumption
    <2> QED
        BY <2>2, <2>3
<1> QED
    BY <1>3, <1>4

LEMMA Counts == ASSUME NEW c PROVE IsFiniteSet(Waiting(c)) /\ Cardinality(Waiting(c)) \in Nat
BY Finite, FS_Subset, FS_CardinalityType DEF Waiting

\* A step of CPU c is nothing to what the others do.
LEMMA OthersGoOn ==
    ASSUME Typed, NEW c \in Cpu, Locked(c) \/ Executes(c) \/ Outside(c)
    PROVE  \A d \in Cpu \ {c} : op'[d] = op[d] /\ arg'[d] = arg[d] /\ curr'[d] = curr[d]
<1>1. UNCHANGED <<op, arg>> \/ \E step, local : Goto(c, step, local)
    <2>1. CASE Executes(c) \/ Outside(c) \/ spin_lock(c)
        <3>1. CASE Executes(c)
            BY <3>1 DEF Executes, schedule, down, migration_loop, Begin, steps
        <3>2. CASE Outside(c)
            BY <3>2 DEF Outside, scheduler_tick, sleep, wake_up, set_cpus_allowed, setscheduler,
                        Begin, steps
        <3> QED
            BY <2>1, <3>1, <3>2 DEF spin_lock, steps
    <2>2. CASE Switch(c) \/ Balance(c)
        BY <2>2 DEF Switch, leave_running, leave_sleeping, pick_next_task, switch_tasks, Return,
                    Balance, balance_none, double_lock_balance, pull, pull_none, Finish
    <2>3. CASE Wake(c) \/ Affine(c) \/ Policy(c) \/ Migration(c)
        BY <2>3 DEF Wake, wake_retry, wake_running, try_to_wake_up, Return, Retry, steps,
                    Affine, lock_retry, affine_simple, affine_request,
                    Policy, policy_refused, change_policy,
                    Migration, no_request, next_request, read_dest, move_retry, migrate
    <2> QED
        BY <2>1, <2>2, <2>3 DEF Locked
<1>2. UNCHANGED curr \/ \E next : curr' = [curr EXCEPT ![c] = next]
    <2>1. CASE Executes(c) \/ Outside(c) \/ spin_lock(c)
        <3>1. CASE Executes(c)
            BY <3>1 DEF Executes, schedule, down, migration_loop, queues
        <3>2. CASE Outside(c)
            BY <3>2 DEF Outside, scheduler_tick, sleep, wake_up, set_cpus_allowed, setscheduler,
                        queues
        <3> QED
            BY <2>1, <3>1, <3>2 DEF spin_lock, queues
    <2>2. CASE Switch(c) \/ Balance(c)
        BY <2>2 DEF Switch, leave_running, leave_sleeping, pick_next_task, switch_tasks, queues,
                    Balance, balance_none, double_lock_balance, pull, pull_none, Finish
    <2>3. CASE Wake(c) \/ Affine(c) \/ Policy(c) \/ Migration(c)
        BY <2>3 DEF Wake, wake_retry, wake_running, try_to_wake_up, queues,
                    Affine, lock_retry, affine_simple, affine_request,
                    Policy, policy_refused, change_policy,
                    Migration, no_request, next_request, read_dest, move_retry, migrate
    <2> QED
        BY <2>1, <2>2, <2>3 DEF Locked
<1>3. \A d \in Cpu \ {c} : op'[d] = op[d] /\ arg'[d] = arg[d]
    <2>1. CASE UNCHANGED <<op, arg>>
        BY <2>1
    <2>2. CASE \E step, local : Goto(c, step, local)
        BY <2>2 DEF Goto, Typed
    <2> QED
        BY <1>1, <2>1, <2>2
<1>4. \A d \in Cpu \ {c} : curr'[d] = curr[d]
    BY <1>2 DEF Typed
<1> QED
    BY <1>3, <1>4

Step(c) == Locked(c) \/ Executes(c) \/ Outside(c)

\* The invariant follows from what the step does to its own CPU, if it takes no
\* other CPU's task away.
LEMMA TaskFrame ==
    ASSUME TaskInv, NEW c \in Cpu, Step(c), LockInv', Values', QueuedWhereCpuSays',
           Executing(c)', Serving(c)',
           \A d \in Cpu \ {c} : curr[d] # Idle =>
               cpu'[curr[d]] = cpu[curr[d]] /\ (on[curr[d]] = d => on'[curr[d]] = d)
    PROVE  TaskInv'
<1> SUFFICES ASSUME NEW d \in Cpu \ {c}
             PROVE  Executing(d)' /\ Serving(d)'
    BY DEF TaskInv
<1>1. op'[d] = op[d] /\ arg'[d] = arg[d] /\ curr'[d] = curr[d]
    BY OthersGoOn DEF TaskInv, LockInv, Step
<1>2. Executing(d) /\ Serving(d)
    BY DEF TaskInv
<1>3. Executing(d)'
    BY <1>1, <1>2 DEF Executing, Scheduling
<1>4. Serving(d)'
    BY <1>1, <1>2 DEF Serving
<1> QED
    BY <1>3, <1>4

\* No task moves.
LEMMA NobodyMoves ==
    ASSUME TaskInv, NEW c \in Cpu, Step(c), LockInv', Values', Serving(c)',
           UNCHANGED <<curr, cpu, on, nr_running>>, Scheduling(c) => Scheduling(c)'
    PROVE  TaskInv'
<1>1. QueuedWhereCpuSays'
    BY DEF TaskInv, QueuedWhereCpuSays, Waiting
<1>2. Executing(c)'
    BY DEF TaskInv, Executing
<1> QED
    BY <1>1, <1>2, TaskFrame

\* Only locks and local variables change.
LEMMA NothingChanges ==
    ASSUME TaskInv, NEW c \in Cpu, Step(c), LockInv', Serving(c)',
           UNCHANGED <<queues, fields>>, Scheduling(c) => Scheduling(c)'
    PROVE  TaskInv'
<1>1. Values'
    BY DEF TaskInv, Values, queues, fields
<1> QED
    BY <1>1, NobodyMoves DEF queues, fields

\* From "run", or with a local variable that says for whom.
LEMMA GoesOn ==
    ASSUME TaskInv, NEW c \in Cpu, Step(c), LockInv', NEW step \in Op, NEW local,
           Goto(c, step, local), UNCHANGED <<queues, fields>>,
           Scheduling(c) => step \in {"balance", "pull"} /\ local.from = "schedule",
           step \in {"serve", "read", "move"} => curr[c] = migration_thread(c),
           step = "affine" => local.p \in Targets /\ curr[c] \in Callers,
           step = "policy" => local.p \in PolicyTargets /\ curr[c] \in PolicyCallers,
           step \in {"read", "move"} => local.p \in Targets /\ local.caller \in Callers,
           step = "pull" => local.busiest \in Cpu \ {c},
           step \in {"balance", "pull"} => local.from \in {"schedule", "tick", "idle_tick"}
    PROVE  TaskInv'
<1>1. op'[c] = step /\ arg'[c] = local /\ curr'[c] = curr[c]
    BY Gone DEF TaskInv, LockInv, queues
<1>2. Serving(c)'
    BY <1>1 DEF Serving
<1>3. Scheduling(c) => Scheduling(c)'
    BY <1>1 DEF Scheduling
<1> QED
    BY <1>2, <1>3, NothingChanges

LEMMA QuietSteps ==
    ASSUME TaskInv, NEW c \in Cpu, LockInv',
           \/ spin_lock(c) \/ schedule(c) \/ scheduler_tick(c) \/ double_lock_balance(c)
           \/ wake_up(c) \/ set_cpus_allowed(c) \/ setscheduler(c) \/ lock_retry(c)
           \/ policy_refused(c) \/ migration_loop(c) \/ read_dest(c) \/ move_retry(c)
    PROVE  TaskInv'
<1>1. Step(c)
    BY DEF Step, Locked, Executes, Outside, Balance, Affine, Policy, Migration
<1>2. UNCHANGED <<queues, fields>>
    BY DEF spin_lock, schedule, scheduler_tick, double_lock_balance, wake_up, set_cpus_allowed,
           setscheduler, lock_retry, policy_refused, migration_loop, read_dest, move_retry
<1>3. Serving(c) /\ Executing(c)
    BY DEF TaskInv
<1>4. CASE spin_lock(c) \/ lock_retry(c)
    <2>1. op' = op /\ arg' = arg /\ curr' = curr
        BY <1>2, <1>4 DEF spin_lock, lock_retry, Retry, steps, queues
    <2>2. Serving(c)' /\ (Scheduling(c) => Scheduling(c)')
        BY <1>3, <2>1 DEF Serving, Scheduling
    <2> QED
        BY <1>1, <1>2, <2>2, NothingChanges
<1>5. CASE schedule(c) \/ scheduler_tick(c) \/ wake_up(c)
    <2>1. PICK step \in {"leave", "balance", "wake"} : \E local :
              /\ op[c] = "run" /\ Goto(c, step, local)
              /\ step = "balance" => local.from \in {"tick", "idle_tick"}
        <3>1. CASE schedule(c)
            BY <3>1 DEF schedule, Begin
        <3>2. CASE scheduler_tick(c)
            <4> DEFINE l == [from |-> IF curr[c] = Idle THEN "idle_tick" ELSE "tick"]
            <4>1. op[c] = "run" /\ Goto(c, "balance", l)
                BY <3>2 DEF scheduler_tick, Begin
            <4>2. l.from \in {"tick", "idle_tick"}
                OBVIOUS
            <4> HIDE DEF l
            <4> QED
                BY <4>1, <4>2
        <3>3. CASE wake_up(c)
            BY <3>3 DEF wake_up, Begin
        <3> QED
            BY <1>5, <3>1, <3>2, <3>3
    <2>2. PICK local : /\ op[c] = "run" /\ Goto(c, step, local)
                       /\ step = "balance" => local.from \in {"tick", "idle_tick"}
        BY <2>1
    <2>3. step \in Op /\ ~Scheduling(c)
        BY <2>2 DEF Op, Scheduling
    <2> QED
        BY <1>1, <1>2, <2>2, <2>3, GoesOn
<1>6. CASE migration_loop(c)
    <2>1. op[c] = "run" /\ Goto(c, "serve", NoArg) /\ curr[c] = migration_thread(c)
        BY <1>6 DEF migration_loop, Begin
    <2>2. "serve" \in Op /\ ~Scheduling(c)
        BY <2>1 DEF Op, Scheduling
    <2> QED
        BY <1>1, <1>2, <2>1, <2>2, GoesOn
<1>7. CASE set_cpus_allowed(c)
    <2>1. PICK p \in Targets, mask \in Masks :
              /\ op[c] = "run" /\ curr[c] \in Callers
              /\ Goto(c, "affine", [p |-> p, mask |-> mask])
        BY <1>7 DEF set_cpus_allowed, Begin
    <2> DEFINE local == [p |-> p, mask |-> mask]
    <2>2. "affine" \in Op /\ ~Scheduling(c) /\ local.p \in Targets
        BY <2>1 DEF Op, Scheduling
    <2> HIDE DEF local
    <2>3. Goto(c, "affine", local)
        BY <2>1 DEF local
    <2> QED
        BY <1>1, <1>2, <2>1, <2>2, <2>3, GoesOn
<1>8. CASE read_dest(c)
    <2> DEFINE local == [p |-> arg[c].p, caller |-> arg[c].caller,
                         dest |-> Lowest(cpus_allowed[arg[c].p]), src |-> cpu[arg[c].p]]
    <2>1. op[c] = "read" /\ Goto(c, "move", local)
        BY <1>8 DEF read_dest, At
    <2>2. local.p = arg[c].p /\ local.caller = arg[c].caller
        OBVIOUS
    <2> HIDE DEF local
    <2>3. "move" \in Op /\ ~Scheduling(c)
        BY <2>1 DEF Op, Scheduling
    <2> QED
        BY <1>1, <1>2, <1>3, <2>1, <2>2, <2>3, GoesOn DEF Serving
<1>9. CASE move_retry(c)
    <2> DEFINE local == [arg[c] EXCEPT !.src = cpu[arg[c].p]]
    <2>1. op[c] = "move" /\ Goto(c, "move", local)
        BY <1>9 DEF move_retry, At
    <2>2. local.p = arg[c].p /\ local.caller = arg[c].caller
        OBVIOUS
    <2> HIDE DEF local
    <2>3. "move" \in Op /\ ~Scheduling(c)
        BY <2>1 DEF Op, Scheduling
    <2> QED
        BY <1>1, <1>2, <1>3, <2>1, <2>2, <2>3, GoesOn DEF Serving
<1>10. CASE double_lock_balance(c)
    <2>1. PICK b \in Cpu, load \in 0 .. Cardinality(Thread), length \in 0 .. Cardinality(Thread) :
              /\ op[c] = "balance" /\ b # c
              /\ \/ Goto(c, "pull", Found(c, b, load, length))
                 \/ Goto(c, "pull", [Found(c, b, load, length) EXCEPT !.length = NONE])
        BY <1>10 DEF double_lock_balance, MayFind, At
    <2>2. PICK local : Goto(c, "pull", local) /\ local.from = arg[c].from /\ local.busiest = b
        BY <2>1 DEF Found
    <2>3. "pull" \in Op
        BY DEF Op
    <2> QED
        BY <1>1, <1>2, <1>3, <2>1, <2>2, <2>3, GoesOn DEF Scheduling, Serving
<1>11. CASE setscheduler(c)
    <2>1. PICK p \in PolicyTargets :
              /\ op[c] = "run" /\ curr[c] \in PolicyCallers
              /\ Goto(c, "policy", [p |-> p])
        BY <1>11 DEF setscheduler, Begin
    <2> DEFINE local == [p |-> p]
    <2>2. "policy" \in Op /\ ~Scheduling(c) /\ local.p \in PolicyTargets
        BY <2>1 DEF Op, Scheduling
    <2> HIDE DEF local
    <2>3. Goto(c, "policy", local)
        BY <2>1 DEF local
    <2> QED
        BY <1>1, <1>2, <2>1, <2>2, <2>3, GoesOn
<1>12. CASE policy_refused(c)
    <2>1. op[c] = "policy" /\ Goto(c, "run", NoArg) /\ "run" \in Op
        BY <1>12 DEF policy_refused, At, Return, Op
    <2>2. ~Scheduling(c)
        BY <2>1 DEF Scheduling
    <2> QED
        BY <1>1, <1>2, <2>1, <2>2, GoesOn
<1> QED
    BY <1>4, <1>5, <1>6, <1>7, <1>8, <1>9, <1>10, <1>11, <1>12

\* What happens to a task that stays where it is.
LEMMA StateSteps ==
    ASSUME TaskInv, NEW c \in Cpu, LockInv',
           sleep(c) \/ down(c) \/ wake_running(c) \/ no_request(c)
    PROVE  TaskInv'
<1>1. Step(c)
    BY DEF Step, Locked, Executes, Outside, Wake, Migration
<1>2. UNCHANGED <<queues, cpu, cpus_allowed, on>>
    BY DEF sleep, down, wake_running, no_request
<1>3. Serving(c) /\ Values
    BY DEF TaskInv
<1>4. state' \in [Thread -> State]
    <2>1. \E t : \E s \in State : state' = [state EXCEPT ![t] = s] \/ state' = state
        <3>1. CASE sleep(c)
            BY <3>1, CallAssumption DEF sleep, State
        <3>2. CASE down(c) \/ wake_running(c) \/ no_request(c)
            BY <3>2 DEF down, wake_running, no_request, State
        <3> QED
            BY <3>1, <3>2
    <2> QED
        BY <1>3, <2>1 DEF Values
<1>5. at' \in [Thread -> Stations]
    <2>1. \E t : \E a \in Stations : at' = [at EXCEPT ![t] = a] \/ at' = at
        BY DEF sleep, down, wake_running, no_request, Stations
    <2> QED
        BY <1>3, <2>1 DEF Values
<1>6. Values'
    BY <1>2, <1>3, <1>4, <1>5 DEF Values, queues
<1>7. Serving(c)' /\ (Scheduling(c) => Scheduling(c)')
    <2>1. CASE sleep(c) \/ down(c)
        <3>1. op' = op /\ arg' = arg /\ curr' = curr
            BY <1>2, <2>1 DEF sleep, down, steps, queues
        <3> QED
            BY <1>3, <3>1 DEF Serving, Scheduling
    <2>2. CASE wake_running(c) \/ no_request(c)
        <3>1. op[c] \in {"wake", "serve"} /\ Goto(c, "run", NoArg) /\ "run" \in Op
            BY <2>2 DEF wake_running, no_request, At, Return, Op
        <3>2. op'[c] = "run"
            BY <3>1, Gone DEF TaskInv, LockInv
        <3> QED
            BY <3>1, <3>2 DEF Serving, Scheduling
    <2> QED
        BY <2>1, <2>2
<1> QED
    BY <1>1, <1>2, <1>6, <1>7, NobodyMoves DEF queues

\* The migration thread takes a request from its queue.
LEMMA TakesRequest ==
    ASSUME TaskInv, NEW c \in Cpu, LockInv', next_request(c)
    PROVE  TaskInv'
<1> DEFINE Pair == [p : Targets, caller : Callers]
           request == Head(migration_queue[c])
<1>1. Step(c)
    BY DEF Step, Locked, Migration
<1>2. /\ op[c] = "serve" /\ migration_queue[c] # << >> /\ Goto(c, "read", request)
      /\ migration_queue' = [migration_queue EXCEPT ![c] = Tail(@)]
      /\ state' = [state EXCEPT ![curr[c]] = "INTERRUPTIBLE"]
      /\ UNCHANGED <<curr, need_resched, nr_running, nr_uninterruptible, cpu, on, at>>
    BY DEF next_request, At
<1>3. Serving(c) /\ Values
    BY DEF TaskInv
<1>4. request \in Pair /\ Tail(migration_queue[c]) \in Seq(Pair)
    BY <1>2, <1>3, HeadTailProperties DEF Values
<1>5. request.p \in Targets /\ request.caller \in Callers
    BY <1>4
<1> HIDE DEF Pair, request
<1>6. migration_queue' \in [Cpu -> Seq(Pair)]
    BY <1>2, <1>3, <1>4 DEF Values, Pair
<1>7. state' \in [Thread -> State]
    BY <1>2, <1>3 DEF Values, State
<1>8. Values'
    BY <1>2, <1>3, <1>6, <1>7 DEF Values, Pair
<1>9. "read" \in Op
    BY DEF Op
<1>10. op'[c] = "read" /\ arg'[c] = request /\ curr'[c] = curr[c]
    BY <1>2, <1>9, Gone DEF TaskInv, LockInv
<1>11. Serving(c)' /\ ~Scheduling(c)
    BY <1>2, <1>3, <1>5, <1>10 DEF Serving, Scheduling
<1> QED
    BY <1>1, <1>2, <1>8, <1>11, NobodyMoves

\* set_cpus_allowed hands the task over to the migration thread of its CPU.
LEMMA MakesRequest ==
    ASSUME TaskInv, NEW c \in Cpu, LockInv', affine_request(c)
    PROVE  TaskInv'
<1> DEFINE Pair == [p : Targets, caller : Callers]
           p == arg[c].p
           r == cpu[p]
           request == [p |-> p, caller |-> curr[c]]
<1>1. Step(c)
    BY DEF Step, Locked, Affine
<1>2. /\ op[c] = "affine" /\ \E local : Goto(c, "wake", local)
      /\ migration_queue' = [migration_queue EXCEPT ![r] = <<request>> \o @]
      /\ at' = [at EXCEPT ![curr[c]] = "down"]
      /\ UNCHANGED <<curr, need_resched, nr_running, nr_uninterruptible, cpu, state, on>>
    BY DEF affine_request, At
<1>3. Serving(c) /\ Values
    BY DEF TaskInv
<1>4. <<request>> \o migration_queue[r] \in Seq(Pair)
    <2>1. request \in Pair
        BY <1>2, <1>3 DEF Serving
    <2>2. r \in Cpu
        BY <1>2, <1>3, CallAssumption DEF Serving, TaskInv, LockInv, Typed, Thread
    <2>3. migration_queue[r] \in Seq(Pair)
        BY <1>3, <2>2 DEF Values
    <2> HIDE DEF request, Pair
    <2>4. <<request>> \in Seq(Pair)
        BY <2>1
    <2> QED
        BY <2>3, <2>4, ConcatProperties
<1> HIDE DEF Pair, request
<1>5. migration_queue' \in [Cpu -> Seq(Pair)]
    BY <1>2, <1>3, <1>4 DEF Values, Pair
<1>6. at' \in [Thread -> Stations]
    BY <1>2, <1>3 DEF Values, Stations
<1>7. Values'
    BY <1>2, <1>3, <1>5, <1>6 DEF Values, Pair
<1>8. op'[c] = "wake"
    BY <1>2, Gone DEF TaskInv, LockInv, Op
<1>9. Serving(c)' /\ ~Scheduling(c)
    BY <1>2, <1>8 DEF Serving, Scheduling
<1> QED
    BY <1>1, <1>2, <1>7, <1>9, NobodyMoves

\* What switch_tasks finds on the run queue is the next task; then the CPU is done.
LEMMA SwitchTasks ==
    ASSUME TaskInv, NEW c \in Cpu, Step(c), LockInv', switch_tasks(c), QueuedWhereCpuSays',
           nr_running' \in [Cpu -> Nat], on' \in [Thread -> Lock]
    PROVE  /\ curr' \in [Cpu -> Thread \cup {Idle}] /\ need_resched' \in [Cpu -> BOOLEAN]
           /\ Executing(c)' /\ Serving(c)'
           /\ nr_running'[c] > 0 => curr'[c] # Idle
<1>1. PICK next : /\ curr' = [curr EXCEPT ![c] = next]
                  /\ \/ next = Idle /\ nr_running'[c] = 0
                     \/ next \in Thread /\ on'[next] = c
    BY DEF switch_tasks
<1>2. curr' \in [Cpu -> Thread \cup {Idle}] /\ need_resched' \in [Cpu -> BOOLEAN]
    BY <1>1 DEF TaskInv, Values, switch_tasks
<1>3. curr'[c] = next
    BY <1>1 DEF TaskInv, Values
<1>4. op'[c] = "run"
    BY Gone DEF TaskInv, LockInv, switch_tasks, Return, Op
<1>5. Executing(c)'
    <2>1. SUFFICES ASSUME next # Idle
                   PROVE  cpu'[next] = c /\ on'[next] = c
        BY <1>3 DEF Executing
    <2> QED
        BY <1>1, <2>1, CpuNumbers DEF QueuedWhereCpuSays
<1>6. Serving(c)'
    BY <1>4 DEF Serving
<1>7. nr_running'[c] > 0 => curr'[c] # Idle
    BY <1>1, <1>3, ThreadAssumption
<1> QED
    BY <1>2, <1>5, <1>6, <1>7

\* The counters of the run queues follow a task that goes from one to another, or
\* on to one, or off one.
LEMMA OneMoves ==
    ASSUME Values, QueuedWhereCpuSays, NEW t \in Thread, NEW r \in Lock, r # on[t],
           on' = [on EXCEPT ![t] = r], nr_running' = [d \in Cpu |-> nr_running'[d]],
           \A d \in Cpu : nr_running'[d] = nr_running[d] + (IF d = r THEN 1 ELSE 0)
                                                         - (IF d = on[t] THEN 1 ELSE 0)
    PROVE  /\ \A d \in Cpu : nr_running'[d] = Cardinality(Waiting(d))'
           /\ nr_running' \in [Cpu -> Nat] /\ on' \in [Thread -> Lock]
<1>1. on' \in [Thread -> Lock] /\ \A s \in Thread : on'[s] = IF s = t THEN r ELSE on[s]
    BY DEF Values
<1>2. \A d \in Cpu : nr_running'[d] = Cardinality(Waiting(d))' /\ nr_running'[d] \in Nat
    <2> TAKE d \in Cpu
    <2> DEFINE W == Waiting(d)
               n == nr_running[d]
    <2>1. IsFiniteSet(W) /\ n = Cardinality(W) /\ n \in Nat
        BY Counts DEF QueuedWhereCpuSays
    <2>2. CASE d = r
        <3>1. Waiting(d)' = W \cup {t} /\ t \notin W
            BY <1>1, <2>2 DEF Waiting
        <3>2. nr_running'[d] = n + 1
            BY <2>1, <2>2
        <3> HIDE DEF W, n
        <3>3. Cardinality(W \cup {t}) = n + 1
            BY <2>1, <3>1, FS_AddElement
        <3> QED
            BY <2>1, <3>1, <3>2, <3>3
    <2>3. CASE d = on[t]
        <3>1. Waiting(d)' = W \ {t} /\ t \in W
            BY <1>1, <2>3 DEF Waiting
        <3>2. nr_running'[d] = n - 1
            BY <2>1, <2>3
        <3> HIDE DEF W, n
        <3>3. Cardinality(W \ {t}) = n - 1 /\ IsFiniteSet(W \ {t})
            BY <2>1, <3>1, FS_RemoveElement
        <3>4. Cardinality(W \ {t}) \in Nat
            BY <3>3, FS_CardinalityType
        <3> QED
            BY <3>1, <3>2, <3>3, <3>4
    <2>4. CASE d # r /\ d # on[t]
        <3>1. Waiting(d)' = W
            BY <1>1, <2>4 DEF Waiting
        <3>2. nr_running'[d] = n
            BY <2>1, <2>4
        <3> QED
            BY <2>1, <3>1, <3>2
    <2> QED
        BY <2>2, <2>3, <2>4
<1> QED
    BY <1>1, <1>2

LEMMA CountsModulo ==
    ASSUME Values, NEW r, NEW t, NEW n \in Int
    PROVE  Uninterruptible(r, t, n) \in [Cpu -> 0 .. WORD - 1]
<1>1. CASE r \in Cpu
    <2>1. nr_uninterruptible[r] + n \in Int
        BY <1>1 DEF Values
    <2>2. (nr_uninterruptible[r] + n) % WORD \in 0 .. WORD - 1
        BY <2>1, Finite
    <2> QED
        BY <2>2 DEF Values, Uninterruptible
<1>2. CASE r \notin Cpu
    BY <1>2 DEF Values, Uninterruptible
<1> QED
    BY <1>1, <1>2

\* setscheduler takes a queued task off the lists and puts it back: it stays there.
LEMMA ChangesPolicy ==
    ASSUME TaskInv, NEW c \in Cpu, LockInv', change_policy(c)
    PROVE  TaskInv'
<1> DEFINE p == arg[c].p
<1>1. Step(c)
    BY DEF Step, Locked, Policy
<1>2. /\ op[c] = "policy" /\ Goto(c, "run", NoArg)
      /\ nr_uninterruptible' = Uninterruptible(cpu[p], p, 1)
            \/ nr_uninterruptible' = nr_uninterruptible
      /\ need_resched' = need_resched \/ need_resched' = [need_resched EXCEPT ![c] = TRUE]
      /\ UNCHANGED <<curr, nr_running, migration_queue, cpu, state, on, at>>
    BY DEF change_policy, At, Return
<1>3. Values
    BY DEF TaskInv
<1>4. nr_uninterruptible' \in [Cpu -> 0 .. WORD - 1]
    <2>1. Uninterruptible(cpu[p], p, 1) \in [Cpu -> 0 .. WORD - 1]
        BY <1>3, CountsModulo
    <2> QED
        BY <1>2, <1>3, <2>1 DEF Values
<1>5. need_resched' \in [Cpu -> BOOLEAN]
    BY <1>2, <1>3 DEF Values
<1>6. Values'
    BY <1>2, <1>3, <1>4, <1>5 DEF Values
<1>7. op'[c] = "run"
    BY <1>2, Gone DEF TaskInv, LockInv, Op
<1>8. Serving(c)' /\ ~Scheduling(c)
    BY <1>2, <1>7 DEF Serving, Scheduling
<1> QED
    BY <1>1, <1>2, <1>6, <1>8, NobodyMoves

\* After the previous task has left, schedule() switches or balances first.
LEMMA PickNext ==
    ASSUME TaskInv, NEW c \in Cpu, Step(c), LockInv', pick_next_task(c), op[c] = "leave",
           QueuedWhereCpuSays', nr_running' \in [Cpu -> Nat], on' \in [Thread -> Lock],
           UNCHANGED cpu
    PROVE  /\ curr' \in [Cpu -> Thread \cup {Idle}] /\ need_resched' \in [Cpu -> BOOLEAN]
           /\ Executing(c)' /\ Serving(c)'
<1>1. CASE switch_tasks(c)
    BY <1>1, SwitchTasks
<1>2. CASE Goto(c, "balance", [from |-> "schedule"]) /\ UNCHANGED <<curr, need_resched>>
    <2>1. op'[c] = "balance" /\ arg'[c] = [from |-> "schedule"] /\ "balance" \in Op
        BY <1>2, Gone DEF TaskInv, LockInv, Op
    <2>2. Executing(c)'
        BY <1>2, <2>1 DEF TaskInv, Executing, Scheduling
    <2>3. Serving(c)'
        BY <2>1 DEF Serving
    <2> QED
        BY <1>2, <2>2, <2>3 DEF TaskInv, Values
<1> QED
    BY <1>1, <1>2 DEF pick_next_task

LEMMA LeavesRunning ==
    ASSUME TaskInv, NEW c \in Cpu, LockInv', leave_running(c)
    PROVE  TaskInv'
<1> DEFINE prev == curr[c]
<1>1. Step(c)
    BY DEF Step, Locked, Switch
<1>2. /\ op[c] = "leave" /\ pick_next_task(c)
      /\ state' = [t \in Thread |-> IF t = prev THEN "RUNNING" ELSE state[t]]
      /\ at' = Resumed(prev)
      /\ UNCHANGED <<nr_running, nr_uninterruptible, migration_queue, cpu, on>>
    BY DEF leave_running, At
<1>3. Values /\ QueuedWhereCpuSays
    BY DEF TaskInv
<1>4. QueuedWhereCpuSays'
    BY <1>2, <1>3 DEF QueuedWhereCpuSays, Waiting
<1>5. nr_running' \in [Cpu -> Nat] /\ on' \in [Thread -> Lock]
    BY <1>2, <1>3 DEF Values
<1>6. /\ curr' \in [Cpu -> Thread \cup {Idle}] /\ need_resched' \in [Cpu -> BOOLEAN]
      /\ Executing(c)' /\ Serving(c)'
    BY <1>1, <1>2, <1>4, <1>5, PickNext
<1>7. state' \in [Thread -> State] /\ at' \in [Thread -> Stations]
    BY <1>2, <1>3 DEF Values, State, Stations, Resumed
<1>8. Values'
    BY <1>2, <1>3, <1>5, <1>6, <1>7 DEF Values
<1> QED
    BY <1>1, <1>2, <1>4, <1>6, <1>8, TaskFrame

\* deactivate_task takes the task off the run queue of its CPU.
LEMMA LeavesSleeping ==
    ASSUME TaskInv, NEW c \in Cpu, LockInv', leave_sleeping(c)
    PROVE  TaskInv'
<1> DEFINE prev == curr[c]
<1>1. Step(c)
    BY DEF Step, Locked, Switch
<1>2. /\ op[c] = "leave" /\ prev # Idle /\ pick_next_task(c)
      /\ nr_running' = [nr_running EXCEPT ![c] = @ - 1]
      /\ nr_uninterruptible' = Uninterruptible(c, prev, 1)
      /\ on' = [on EXCEPT ![prev] = NONE]
      /\ at' = Resumed(prev)
      /\ UNCHANGED <<migration_queue, cpu, state>>
    BY DEF leave_sleeping, At
<1>3. Values /\ QueuedWhereCpuSays /\ Typed
    BY DEF TaskInv, LockInv
<1>4. prev \in Thread /\ on[prev] = c /\ cpu[prev] = c
    BY <1>2, <1>3 DEF TaskInv, Values, Executing, Scheduling
<1>5. /\ \A d \in Cpu : nr_running'[d] = Cardinality(Waiting(d))'
      /\ nr_running' \in [Cpu -> Nat] /\ on' \in [Thread -> Lock]
    <2>1. nr_running' = [d \in Cpu |-> nr_running'[d]]
        BY <1>2, <1>3 DEF Values
    <2>2. NONE \in Lock /\ NONE # on[prev] /\ NONE \notin Cpu
        BY <1>4, CpuNumbers DEF Lock
    <2>3. \A d \in Cpu : nr_running'[d] = nr_running[d] + (IF d = NONE THEN 1 ELSE 0)
                                                         - (IF d = on[prev] THEN 1 ELSE 0)
        BY <1>2, <1>3, <1>4, <2>2 DEF Values
    <2>4. on' = [on EXCEPT ![prev] = NONE] /\ prev \in Thread
        BY <1>2, <1>4
    <2> HIDE DEF prev
    <2> QED
        BY <1>3, <2>1, <2>2, <2>3, <2>4, OneMoves
<1>6. QueuedWhereCpuSays'
    BY <1>2, <1>3, <1>4, <1>5, CpuNumbers DEF Values, QueuedWhereCpuSays
<1>7. /\ curr' \in [Cpu -> Thread \cup {Idle}] /\ need_resched' \in [Cpu -> BOOLEAN]
      /\ Executing(c)' /\ Serving(c)'
    BY <1>1, <1>2, <1>5, <1>6, PickNext
<1>8. at' \in [Thread -> Stations] /\ nr_uninterruptible' \in [Cpu -> 0 .. WORD - 1]
    <2>1. Uninterruptible(c, prev, 1) \in [Cpu -> 0 .. WORD - 1]
        BY <1>3, CountsModulo
    <2> QED
        BY <1>2, <1>3, <2>1 DEF Values, Stations, Resumed
<1>9. Values'
    BY <1>2, <1>3, <1>5, <1>7, <1>8 DEF Values
<1>10. \A d \in Cpu \ {c} : curr[d] # Idle =>
           cpu'[curr[d]] = cpu[curr[d]] /\ (on[curr[d]] = d => on'[curr[d]] = d)
    BY <1>2, <1>3, <1>4 DEF Values
<1> QED
    BY <1>1, <1>6, <1>7, <1>9, <1>10, TaskFrame

\* load_balance took no task that runs: schedule() switches to a task of its own
\* run queue, an interrupt returns to the task it interrupted.
LEMMA FinishTasks ==
    ASSUME TaskInv, NEW c \in Cpu, Step(c), LockInv', Finish(c), op[c] \in {"balance", "pull"},
           QueuedWhereCpuSays', nr_running' \in [Cpu -> Nat], on' \in [Thread -> Lock],
           curr[c] # Idle => cpu'[curr[c]] = cpu[curr[c]] /\ on'[curr[c]] = on[curr[c]]
    PROVE  /\ curr' \in [Cpu -> Thread \cup {Idle}] /\ Executing(c)' /\ Serving(c)'
           /\ arg[c].from = "schedule" => need_resched' \in [Cpu -> BOOLEAN]
<1>1. CASE arg[c].from = "schedule"
    <2>1. switch_tasks(c)
        BY <1>1 DEF Finish
    <2> QED
        BY <2>1, SwitchTasks
<1>2. CASE arg[c].from # "schedule"
    <2>1. Goto(c, "run", NoArg) /\ UNCHANGED curr /\ ~Scheduling(c)
        BY <1>2 DEF Finish, Return, Scheduling
    <2>2. op'[c] = "run"
        BY <2>1, Gone DEF TaskInv, LockInv, Op
    <2>3. Executing(c)'
        BY <2>1 DEF TaskInv, Executing
    <2>4. Serving(c)'
        BY <2>2 DEF Serving
    <2> QED
        BY <1>2, <2>1, <2>3, <2>4 DEF TaskInv, Values
<1> QED
    BY <1>1, <1>2

LEMMA FindsNone ==
    ASSUME TaskInv, NEW c \in Cpu, LockInv', balance_none(c) \/ pull_none(c)
    PROVE  TaskInv'
<1>1. Step(c)
    BY DEF Step, Locked, Balance
<1>2. /\ op[c] \in {"balance", "pull"} /\ Finish(c)
      /\ UNCHANGED <<nr_running, nr_uninterruptible, migration_queue, cpu, state, on, at>>
    BY DEF balance_none, pull_none, At, fields
<1>3. Values /\ QueuedWhereCpuSays
    BY DEF TaskInv
<1>4. QueuedWhereCpuSays'
    BY <1>2, <1>3 DEF QueuedWhereCpuSays, Waiting
<1>5. nr_running' \in [Cpu -> Nat] /\ on' \in [Thread -> Lock]
    BY <1>2, <1>3 DEF Values
<1>6. /\ curr' \in [Cpu -> Thread \cup {Idle}] /\ Executing(c)' /\ Serving(c)'
      /\ arg[c].from = "schedule" => need_resched' \in [Cpu -> BOOLEAN]
    BY <1>1, <1>2, <1>4, <1>5, FinishTasks
<1>7. arg[c].from # "schedule" => need_resched' \in [Cpu -> BOOLEAN]
    <2>1. CASE balance_none(c) /\ arg[c].from = "tick"
        <3>1. \/ need_resched' = [need_resched EXCEPT ![c] = TRUE]
              \/ need_resched' = need_resched
            BY <2>1 DEF balance_none, EndsSlice
        <3> QED
            BY <1>3, <3>1 DEF Values
    <2>2. CASE balance_none(c) /\ arg[c].from = "idle_tick"
        BY <1>3, <2>2 DEF balance_none, Values
    <2>3. CASE pull_none(c)
        BY <1>3, <2>3 DEF pull_none, Values
    <2>4. arg[c].from \in {"schedule", "tick", "idle_tick"}
        BY <1>2 DEF TaskInv, Serving
    <2> QED
        BY <2>1, <2>2, <2>3, <2>4
<1>8. Values'
    BY <1>2, <1>3, <1>5, <1>6, <1>7 DEF Values
<1> QED
    BY <1>1, <1>2, <1>4, <1>6, <1>8, TaskFrame

\* A task that is on no run queue and does not run is said to be elsewhere.
LEMMA SaidElsewhere ==
    ASSUME TaskInv, NEW c \in Cpu, Step(c), LockInv', NEW p \in Thread, NEW r \in Cpu,
           on[p] = NONE, curr[cpu[p]] # p, cpu' = [cpu EXCEPT ![p] = r],
           UNCHANGED <<queues, state, on, at>>, Serving(c)', Scheduling(c) => Scheduling(c)'
    PROVE  TaskInv'
<1>1. Values /\ QueuedWhereCpuSays /\ Typed
    BY DEF TaskInv, LockInv
<1>2. Values'
    BY <1>1 DEF Values, queues
<1>3. \A t \in Thread : t # p => cpu'[t] = cpu[t]
    BY <1>1 DEF Typed
<1>4. QueuedWhereCpuSays'
    BY <1>1, <1>3 DEF QueuedWhereCpuSays, Waiting, queues
<1>5. \A d \in Cpu : curr'[d] = curr[d] /\ (curr[d] # Idle => cpu'[curr[d]] = cpu[curr[d]])
    BY <1>1, <1>3 DEF TaskInv, Executing, Values, queues
<1>6. Executing(c)'
    BY <1>5 DEF TaskInv, Executing
<1> QED
    BY <1>2, <1>4, <1>5, <1>6, TaskFrame

LEMMA WakeRetries ==
    ASSUME TaskInv, NEW c \in Cpu, LockInv', wake_retry(c)
    PROVE  TaskInv'
<1> DEFINE p == arg[c].p
<1>1. Step(c)
    BY DEF Step, Locked, Wake
<1>2. /\ op[c] = "wake" /\ UNCHANGED <<op, arg, queues, cpus_allowed, state, short, on, at>>
      /\ cpu' = cpu \/ (on[p] = NONE /\ curr[cpu[p]] # p /\ cpu' = [cpu EXCEPT ![p] = c])
    BY DEF wake_retry, At, Retry, steps, FastMigrates
<1>3. p \in Thread /\ ~Scheduling(c)
    BY <1>2 DEF TaskInv, LockInv, OnCpu, Locals, Scheduling
<1>4. Serving(c)'
    BY <1>2 DEF Serving
<1> HIDE DEF p
<1>5. CASE cpu' = cpu
    <2>1. UNCHANGED <<queues, fields>>
        BY <1>2, <1>5 DEF fields
    <2> QED
        BY <1>1, <1>3, <1>4, <2>1, NothingChanges
<1>6. CASE on[p] = NONE /\ curr[cpu[p]] # p /\ cpu' = [cpu EXCEPT ![p] = c]
    BY <1>1, <1>2, <1>3, <1>4, <1>6, SaidElsewhere
<1> QED
    BY <1>2, <1>5, <1>6

LEMMA AffineSimple ==
    ASSUME TaskInv, NEW c \in Cpu, LockInv', affine_simple(c)
    PROVE  TaskInv'
<1> DEFINE p == arg[c].p
           mask == arg[c].mask
<1>1. Step(c)
    BY DEF Step, Locked, Affine
<1>2. /\ op[c] = "affine" /\ Goto(c, "run", NoArg) /\ UNCHANGED <<queues, state, on, at>>
      /\ cpu' = cpu \/ (on[p] = NONE /\ curr[cpu[p]] # p /\ cpu' = [cpu EXCEPT ![p] = Lowest(mask)])
    BY DEF affine_simple, At, Return
<1>3. p \in Thread /\ mask \in Masks /\ ~Scheduling(c)
    BY <1>2 DEF TaskInv, LockInv, OnCpu, Locals, Scheduling
<1>4. op'[c] = "run"
    BY <1>2, Gone DEF TaskInv, LockInv, Op
<1>5. Serving(c)'
    BY <1>4 DEF Serving
<1> HIDE DEF p, mask
<1>6. CASE cpu' = cpu
    <2>1. Values'
        BY <1>2 DEF TaskInv, Values, queues
    <2> QED
        BY <1>1, <1>2, <1>3, <1>5, <1>6, <2>1, NobodyMoves DEF queues
<1>7. CASE on[p] = NONE /\ curr[cpu[p]] # p /\ cpu' = [cpu EXCEPT ![p] = Lowest(mask)]
    <2>1. Lowest(mask) \in Cpu
        BY <1>3, LowestIn, CallAssumption
    <2> QED
        BY <1>1, <1>2, <1>3, <1>5, <1>7, <2>1, SaidElsewhere
<1> QED
    BY <1>2, <1>6, <1>7

\* activate_task puts the task on the run queue that its cpu field names.
LEMMA Wakes ==
    ASSUME TaskInv, NEW c \in Cpu, LockInv', try_to_wake_up(c)
    PROVE  TaskInv'
<1> DEFINE p == arg[c].p
           r == cpu[p]
<1>1. Step(c)
    BY DEF Step, Locked, Wake
<1>2. /\ op[c] = "wake" /\ on[p] = NONE /\ Goto(c, "run", NoArg)
      /\ nr_uninterruptible' = Uninterruptible(r, p, -1)
      /\ on' = [on EXCEPT ![p] = r]
      /\ nr_running' = [nr_running EXCEPT ![r] = @ + 1]
      /\ state' = [state EXCEPT ![p] = "RUNNING"]
      /\ UNCHANGED <<curr, migration_queue, cpu, cpus_allowed, at>>
    BY DEF try_to_wake_up, At, Return
<1>3. PICK higher \in BOOLEAN : need_resched' = [need_resched EXCEPT ![r] = @ \/ higher]
    BY DEF try_to_wake_up, MayPreempt
<1>4. Values /\ QueuedWhereCpuSays /\ Typed
    BY DEF TaskInv, LockInv
<1>5. p \in Thread /\ ~Scheduling(c)
    BY <1>2 DEF TaskInv, LockInv, OnCpu, Locals, Scheduling
<1>6. r \in Cpu /\ r # NONE /\ r \in Lock
    BY <1>4, <1>5, CpuNumbers DEF Typed, Lock
<1>7. op'[c] = "run"
    BY <1>2, Gone DEF TaskInv, LockInv, Op
<1>8. Serving(c)'
    BY <1>7 DEF Serving
<1>9. cpu[p] = r
    OBVIOUS
<1> HIDE DEF p, r
<1>10. /\ nr_running' = [d \in Cpu |-> nr_running'[d]]
       /\ \A d \in Cpu : nr_running'[d] = nr_running[d] + (IF d = r THEN 1 ELSE 0)
                                                      - (IF d = on[p] THEN 1 ELSE 0)
    <2>1. nr_running' = [nr_running EXCEPT ![r] = @ + 1] /\ nr_running \in [Cpu -> Nat]
        BY <1>2, <1>4 DEF Values
    <2>2. ASSUME NEW d \in Cpu
          PROVE  nr_running'[d] = nr_running[d] + (IF d = r THEN 1 ELSE 0)
                                                - (IF d = on[p] THEN 1 ELSE 0)
        <3>1. d # on[p] /\ nr_running[d] \in Nat
            BY <1>2, <2>1, CpuNumbers
        <3>2. nr_running'[d] = IF d = r THEN nr_running[d] + 1 ELSE nr_running[d]
            BY <1>6, <2>1
        <3> QED
            BY <3>1, <3>2
    <2>3. nr_running' = [d \in Cpu |-> nr_running'[d]]
        BY <2>1
    <2> QED
        BY <2>2, <2>3
<1>11. /\ \A d \in Cpu : nr_running'[d] = Cardinality(Waiting(d))'
       /\ nr_running' \in [Cpu -> Nat] /\ on' \in [Thread -> Lock]
    <2>1. on' = [on EXCEPT ![p] = r] /\ r # on[p]
        BY <1>2, <1>6
    <2> QED
        BY <1>4, <1>5, <1>6, <1>10, <2>1, OneMoves
<1>12. QueuedWhereCpuSays'
    BY <1>2, <1>4, <1>5, <1>9, <1>11 DEF Values, QueuedWhereCpuSays
<1>13. need_resched' \in [Cpu -> BOOLEAN] /\ state' \in [Thread -> State]
    BY <1>2, <1>3, <1>4 DEF Values, State
<1>14. nr_uninterruptible' \in [Cpu -> 0 .. WORD - 1]
    BY <1>2, <1>4, CountsModulo
<1>15. Values'
    BY <1>2, <1>4, <1>11, <1>13, <1>14 DEF Values
<1>16. \A d \in Cpu : on[curr[d]] = d => on'[curr[d]] = d
    BY <1>2, <1>4, CpuNumbers DEF Values
<1>17. Executing(c)'
    BY <1>2, <1>5, <1>16 DEF TaskInv, Executing
<1> QED
    BY <1>1, <1>2, <1>8, <1>12, <1>15, <1>16, <1>17, TaskFrame

\* pull_task, as often as the imbalance says: never the task that runs.
LEMMA Pulls ==
    ASSUME TaskInv, NEW c \in Cpu, LockInv', pull(c)
    PROVE  TaskInv'
<1> DEFINE b == arg[c].busiest
<1>1. Step(c)
    BY DEF Step, Locked, Balance
<1>2. PICK S \in SUBSET Movable(c), higher \in BOOLEAN :
          /\ cpu' = [t \in Thread |-> IF t \in S THEN c ELSE cpu[t]]
          /\ on' = [t \in Thread |-> IF t \in S THEN c ELSE on[t]]
          /\ nr_running' = [nr_running EXCEPT ![b] = @ - Cardinality(S),
                                              ![c] = @ + Cardinality(S)]
          /\ Finish(c)
          /\ arg[c].from # "schedule" => need_resched' = [need_resched EXCEPT ![c] = @ \/ higher]
    BY DEF pull
<1>3. op[c] = "pull" /\ UNCHANGED <<nr_uninterruptible, migration_queue, state, at>>
    BY DEF pull, At
<1>4. Values /\ QueuedWhereCpuSays /\ Typed
    BY DEF TaskInv, LockInv
<1>5. b \in Cpu /\ b # c
    BY <1>3 DEF TaskInv, Serving
<1>6. S \subseteq Waiting(b) /\ \A d \in Cpu : curr[d] \notin S
    <2>1. \A t \in S : t \in Thread /\ on[t] = b /\ t # curr[b]
        BY <1>2 DEF Movable, CanMigrate
    <2>2. \A t \in S : cpu[t] = b
        BY <1>4, <1>5, <2>1, CpuNumbers DEF QueuedWhereCpuSays
    <2>3. \A d \in Cpu : curr[d] \in S => d = b
        BY <2>1, <2>2, ThreadAssumption DEF TaskInv, Executing
    <2> QED
        BY <2>1, <2>3 DEF Waiting
<1> HIDE DEF b
<1>7. /\ on' \in [Thread -> Lock]
      /\ \A t \in Thread : on'[t] # NONE => on'[t] = cpu'[t]
    BY <1>2, <1>4 DEF Values, QueuedWhereCpuSays, Lock
<1>8. IsFiniteSet(S) /\ Cardinality(S) \in Nat
    BY <1>6, Counts, FS_Subset, FS_CardinalityType
<1>9. \A d \in Cpu : nr_running'[d] = Cardinality(Waiting(d))' /\ nr_running'[d] \in Nat
    <2> TAKE d \in Cpu
    <2> DEFINE W == Waiting(d)
               n == nr_running[d]
               k == Cardinality(S)
    <2>1. /\ IsFiniteSet(W) /\ n = Cardinality(W) /\ n \in Nat /\ k \in Nat
          /\ nr_running \in [Cpu -> Nat]
        BY <1>4, <1>8, Counts DEF QueuedWhereCpuSays, Values
    <2>2. CASE d = b
        <3>1. Waiting(d)' = W \ S /\ W \cap S = S
            BY <1>2, <1>5, <1>6, <2>2 DEF Waiting
        <3>2. nr_running'[d] = n - k
            BY <1>2, <1>5, <2>1, <2>2
        <3>3. Cardinality(W \ S) = Cardinality(W) - Cardinality(W \cap S) /\ IsFiniteSet(W \ S)
            <4> HIDE DEF W
            <4> QED
                BY <2>1, FS_Difference
        <3>4. Cardinality(W \ S) \in Nat
            BY <3>3, FS_CardinalityType
        <3> HIDE DEF W, n, k
        <3>5. Cardinality(W \ S) = n - k
            BY <2>1, <3>1, <3>3 DEF k
        <3> QED
            BY <3>1, <3>2, <3>4, <3>5
    <2>3. CASE d = c
        <3>1. Waiting(d)' = W \cup S /\ W \cap S = {}
            BY <1>2, <1>5, <1>6, <2>3 DEF Waiting
        <3>2. nr_running'[d] = n + k
            BY <1>2, <1>5, <2>1, <2>3
        <3>3. /\ Cardinality(W \cup S) = Cardinality(W) + Cardinality(S) - Cardinality(W \cap S)
              /\ Cardinality(W \cap S) = 0
            <4> HIDE DEF W
            <4> QED
                BY <1>8, <2>1, <3>1, FS_Union, FS_EmptySet
        <3> HIDE DEF W, n
        <3>4. Cardinality(W \cup S) = n + k
            BY <2>1, <3>3
        <3> HIDE DEF k
        <3> QED
            BY <2>1, <3>1, <3>2, <3>4
    <2>4. CASE d # b /\ d # c
        <3>1. Waiting(d)' = W
            BY <1>2, <1>6, <2>4 DEF Waiting
        <3>2. nr_running'[d] = n
            BY <1>2, <2>1, <2>4
        <3> QED
            BY <2>1, <3>1, <3>2
    <2> QED
        BY <2>2, <2>3, <2>4
<1>10. nr_running' \in [Cpu -> Nat] /\ QueuedWhereCpuSays'
    <2>1. nr_running' = [d \in Cpu |-> nr_running'[d]]
        BY <1>2, <1>4 DEF Values
    <2>2. nr_running' \in [Cpu -> Nat]
        BY <1>9, <2>1
    <2> QED
        BY <1>7, <1>9, <2>2 DEF QueuedWhereCpuSays
<1>11. \A d \in Cpu : curr[d] # Idle => cpu'[curr[d]] = cpu[curr[d]] /\ on'[curr[d]] = on[curr[d]]
    BY <1>2, <1>4, <1>6 DEF Values
<1>12. /\ curr' \in [Cpu -> Thread \cup {Idle}] /\ Executing(c)' /\ Serving(c)'
       /\ arg[c].from = "schedule" => need_resched' \in [Cpu -> BOOLEAN]
    BY <1>1, <1>2, <1>3, <1>7, <1>10, <1>11, FinishTasks
<1>13. need_resched' \in [Cpu -> BOOLEAN]
    BY <1>2, <1>4, <1>12 DEF Values
<1>14. Values'
    BY <1>3, <1>4, <1>7, <1>10, <1>12, <1>13 DEF Values
<1> QED
    BY <1>1, <1>10, <1>11, <1>12, <1>14, TaskFrame

\* The migration thread takes the task away from its own CPU: while it executes
\* there, the task does not.
LEMMA Migrates ==
    ASSUME TaskInv, NEW c \in Cpu, LockInv', migrate(c)
    PROVE  TaskInv'
<1> DEFINE p == arg[c].p
           dest == arg[c].dest
           caller == arg[c].caller
<1>1. Step(c)
    BY DEF Step, Locked, Migration
<1>2. /\ op[c] = "move" /\ \E local : Goto(c, "wake", local)
      /\ at' = [at EXCEPT ![caller] = "upped"]
      /\ UNCHANGED <<curr, need_resched, migration_queue, cpus_allowed, state>>
    BY DEF migrate, At
<1>3. \/ UNCHANGED <<cpu, on, nr_running, nr_uninterruptible>>
      \/ /\ cpu[p] = c
         /\ cpu' = [cpu EXCEPT ![p] = dest]
         /\ on' = MovedLists(c, p, dest)
         /\ nr_running' = [r \in Cpu |->
               nr_running[r] + (IF on[p] # NONE /\ r = dest THEN 1 ELSE 0)
                             - (IF on[p] # NONE /\ r = c THEN 1 ELSE 0)]
         /\ nr_uninterruptible' =
               IF on[p] # NONE THEN Uninterruptible(c, p, 1) ELSE nr_uninterruptible
    BY DEF migrate
<1>4. Values /\ QueuedWhereCpuSays /\ Typed /\ Serving(c)
    BY DEF TaskInv, LockInv
<1>5. p \in Task /\ p \in Thread /\ dest \in Cpu /\ caller \in Thread
    BY <1>2, <1>4, CallAssumption DEF TaskInv, LockInv, OnCpu, Locals, Serving, Thread
<1>6. at' \in [Thread -> Stations]
    BY <1>2, <1>4 DEF Values, Stations
<1>7. Serving(c)' /\ ~Scheduling(c)
    <2>1. op'[c] = "wake"
        BY <1>2, Gone DEF TaskInv, LockInv, Op
    <2> QED
        BY <1>2, <2>1 DEF Serving, Scheduling
<1>8. CASE UNCHANGED <<cpu, on, nr_running, nr_uninterruptible>>
    <2>1. Values'
        BY <1>2, <1>4, <1>6, <1>8 DEF Values
    <2> QED
        BY <1>1, <1>2, <1>7, <1>8, <2>1, NobodyMoves
<1>9. CASE ~ UNCHANGED <<cpu, on, nr_running, nr_uninterruptible>>
    <2>1. \A d \in Cpu : curr[d] # p
        <3>1. curr[c] = migration_thread(c)
            BY <1>2, <1>4 DEF Serving
        <3>2. curr[c] # p
            BY <1>5, <3>1, ThreadAssumption DEF Migrators
        <3> QED
            BY <1>3, <1>5, <1>9, <3>2, ThreadAssumption DEF TaskInv, Executing
    <2> HIDE DEF p, dest
    <2>2. cpu' = [cpu EXCEPT ![p] = dest] /\ cpu[p] = c
        BY <1>3, <1>9
    <2>3. /\ \A d \in Cpu : nr_running'[d] = Cardinality(Waiting(d))'
          /\ nr_running' \in [Cpu -> Nat] /\ on' \in [Thread -> Lock]
          /\ \A t \in Thread : on'[t] = IF t = p /\ on[p] # NONE THEN dest ELSE on[t]
        <3>1. CASE on[p] = NONE \/ dest = c
            <4>1. on' = on
                BY <1>3, <1>4, <1>5, <1>9, <2>2, <3>1 DEF MovedLists, Values, QueuedWhereCpuSays
            <4>2. \A r \in Cpu : nr_running[r] \in Nat
                BY <1>4 DEF Values
            <4>3. \A r \in Cpu : nr_running'[r] = nr_running[r]
                BY <1>3, <1>9, <3>1, <4>2
            <4>4. nr_running' = nr_running
                BY <1>3, <1>4, <1>9, <4>3 DEF Values
            <4> QED
                BY <1>4, <1>5, <2>2, <3>1, <4>1, <4>4 DEF Values, QueuedWhereCpuSays, Waiting
        <3>2. CASE on[p] # NONE /\ dest # c
            <4>1. on[p] = c /\ on' = [on EXCEPT ![p] = dest]
                BY <1>3, <1>4, <1>5, <1>9, <2>2, <3>2 DEF MovedLists, QueuedWhereCpuSays
            <4>2. nr_running' = [d \in Cpu |-> nr_running'[d]]
                BY <1>3, <1>9
            <4>3. \A d \in Cpu : nr_running'[d] = nr_running[d] + (IF d = dest THEN 1 ELSE 0)
                                                                 - (IF d = on[p] THEN 1 ELSE 0)
                BY <1>3, <1>9, <3>2, <4>1
            <4>4. dest \in Lock
                BY <1>5 DEF Lock
            <4> QED
                BY <1>4, <1>5, <3>2, <4>1, <4>2, <4>3, <4>4, OneMoves DEF Values
        <3> QED
            BY <3>1, <3>2
    <2>4. QueuedWhereCpuSays'
        BY <1>4, <1>5, <2>2, <2>3 DEF Typed, QueuedWhereCpuSays
    <2>5. nr_uninterruptible' \in [Cpu -> 0 .. WORD - 1]
        <3>1. Uninterruptible(c, p, 1) \in [Cpu -> 0 .. WORD - 1]
            BY <1>4, CountsModulo
        <3> QED
            BY <1>3, <1>4, <1>9, <3>1 DEF Values
    <2>6. Values'
        BY <1>2, <1>4, <1>6, <2>3, <2>5 DEF Values
    <2>7. \A d \in Cpu : curr[d] # Idle =>
              cpu'[curr[d]] = cpu[curr[d]] /\ on'[curr[d]] = on[curr[d]]
        BY <1>4, <2>1, <2>2, <2>3 DEF Values, Typed
    <2>8. Executing(c)'
        BY <1>2, <1>7, <2>7 DEF TaskInv, Executing
    <2> QED
        BY <1>1, <1>7, <2>4, <2>6, <2>7, <2>8, TaskFrame
<1> QED
    BY <1>8, <1>9

LEMMA TaskInit == Init => TaskInv
<1> SUFFICES ASSUME Init PROVE TaskInv
    OBVIOUS
<1>1. PICK first \in Task :
          /\ op = [c \in Cpu |-> "run"]
          /\ curr = [c \in Cpu |-> IF c = 0 THEN first ELSE Idle]
          /\ need_resched = [c \in Cpu |-> FALSE]
          /\ nr_running = [c \in Cpu |-> IF c = 0 THEN Cardinality(Task) ELSE 0]
          /\ nr_uninterruptible = [c \in Cpu |-> 0]
          /\ migration_queue = [c \in Cpu |-> << >>]
          /\ cpu = [t \in Thread |-> IF t \in Task THEN 0 ELSE t[2]]
          /\ state = [t \in Thread |-> IF t \in Task THEN "RUNNING" ELSE "INTERRUPTIBLE"]
          /\ on = [t \in Thread |-> IF t \in Task THEN 0 ELSE NONE]
          /\ at = [t \in Thread |-> IF t \in Task THEN "user" ELSE "loop"]
    BY DEF Init
<1>2. 0 \in Cpu /\ 0 # NONE /\ \A c \in Cpu : c # NONE
    BY CpuAssumption DEF Cpu, NONE
<1>3. Cardinality(Task) \in Nat /\ Cardinality({}) = 0 /\ Task \subseteq Thread
    BY ThreadAssumption, FS_CardinalityType, FS_EmptySet DEF Thread
<1>4. Values
    <2>1. curr \in [Cpu -> Thread \cup {Idle}] /\ need_resched \in [Cpu -> BOOLEAN]
        BY <1>1, <1>3
    <2>2. nr_running \in [Cpu -> Nat] /\ nr_uninterruptible \in [Cpu -> 0 .. WORD - 1]
        BY <1>1, <1>3, Finite
    <2>3. migration_queue \in [Cpu -> Seq([p : Targets, caller : Callers])]
        BY <1>1, EmptySeq
    <2>4. /\ state \in [Thread -> State] /\ on \in [Thread -> Lock]
          /\ at \in [Thread -> Stations]
        BY <1>1, <1>2 DEF State, Lock, Stations
    <2> QED
        BY <2>1, <2>2, <2>3, <2>4 DEF Values
<1>5. QueuedWhereCpuSays
    <2>1. \A c \in Cpu : Waiting(c) = IF c = 0 THEN Task ELSE {}
        BY <1>1, <1>2, <1>3 DEF Waiting
    <2>2. \A c \in Cpu : nr_running[c] = Cardinality(Waiting(c))
        BY <1>1, <1>3, <2>1
    <2> QED
        BY <1>1, <1>2, <2>2 DEF QueuedWhereCpuSays
<1>6. \A c \in Cpu : Executing(c) /\ Serving(c)
    BY <1>1, <1>3 DEF Executing, Serving
<1> QED
    BY <1>4, <1>5, <1>6, LockInit DEF TaskInv

LEMMA TaskNext == TaskInv /\ [Next]_vars => TaskInv'
<1> SUFFICES ASSUME TaskInv, [Next]_vars
             PROVE  TaskInv'
    OBVIOUS
<1>1. LockInv'
    BY LockNext DEF TaskInv
<1>2. CASE UNCHANGED vars
    <2>1. /\ UNCHANGED <<op, arg, curr, need_resched, nr_running, nr_uninterruptible>>
          /\ UNCHANGED <<migration_queue, cpu, state, on, at>>
        BY <1>2 DEF vars, locks, steps, queues, fields
    <2>2. Values'
        BY <2>1 DEF TaskInv, Values
    <2>3. QueuedWhereCpuSays'
        BY <2>1 DEF TaskInv, QueuedWhereCpuSays, Waiting
    <2>4. \A c \in Cpu : Executing(c)' /\ Serving(c)'
        BY <2>1 DEF TaskInv, Executing, Scheduling, Serving
    <2> QED
        BY <1>1, <2>2, <2>3, <2>4 DEF TaskInv
<1>3. CASE Next
    <2>1. PICK c \in Cpu : Locked(c) \/ Executes(c) \/ Outside(c)
        BY <1>3 DEF Next
    <2>2. CASE Executes(c) \/ Outside(c)
        <3>1. CASE schedule(c) \/ migration_loop(c) \/ scheduler_tick(c) \/ wake_up(c)
                   \/ set_cpus_allowed(c) \/ setscheduler(c)
            BY <1>1, <3>1, QuietSteps
        <3>2. CASE down(c) \/ sleep(c)
            BY <1>1, <3>2, StateSteps
        <3> QED
            BY <2>2, <3>1, <3>2 DEF Executes, Outside
    <2>3. CASE spin_lock(c) \/ Switch(c) \/ Balance(c)
        BY <1>1, <2>3, QuietSteps, LeavesRunning, LeavesSleeping, FindsNone, Pulls
           DEF Switch, Balance
    <2>4. CASE Wake(c) \/ Affine(c)
        BY <1>1, <2>4, QuietSteps, WakeRetries, StateSteps, Wakes, AffineSimple, MakesRequest
           DEF Wake, Affine
    <2>5. CASE Migration(c)
        BY <1>1, <2>5, QuietSteps, StateSteps, TakesRequest, Migrates DEF Migration
    <2>6. CASE Policy(c)
        BY <1>1, <2>6, QuietSteps, ChangesPolicy DEF Policy
    <2> QED
        BY <2>1, <2>2, <2>3, <2>4, <2>5, <2>6 DEF Locked
<1> QED
    BY <1>2, <1>3

LEMMA TasksAlways == Spec => []TaskInv
BY TaskInit, TaskNext, PTL DEF Spec

\* Only setscheduler makes a task SHORT, one of those it may be called for.
ShortInv == TaskInv /\ short \subseteq Task

LEMMA ShortNext == ShortInv /\ [Next]_vars => ShortInv'
<1> SUFFICES ASSUME ShortInv, [Next]_vars
             PROVE  short' \subseteq Task
    BY TaskNext DEF ShortInv
<1>1. CASE short' \subseteq short
    BY <1>1 DEF ShortInv
<1>2. CASE \E c \in Cpu : change_policy(c)
    <2>1. PICK c \in Cpu : change_policy(c)
        BY <1>2
    <2>2. op[c] = "policy" /\ (short' = short \/ short' = short \cup {arg[c].p})
        BY <2>1 DEF change_policy, At
    <2>3. arg[c].p \in Task
        BY <2>2, CallAssumption DEF ShortInv, TaskInv, Serving
    <2> QED
        BY <2>2, <2>3 DEF ShortInv
<1>3. short' \subseteq short \/ \E c \in Cpu : change_policy(c)
    <2>1. CASE UNCHANGED vars
        BY <2>1 DEF vars, fields
    <2>2. CASE Next
        <3>1. PICK c \in Cpu : Step(c)
            BY <2>2 DEF Next, Step
        <3>2. CASE Executes(c) \/ Outside(c) \/ spin_lock(c) \/ Switch(c)
            BY <3>2 DEF Executes, schedule, down, migration_loop, Outside, scheduler_tick, sleep,
                        wake_up, set_cpus_allowed, setscheduler, spin_lock, Switch,
                        leave_running, leave_sleeping, fields
        <3>3. CASE Balance(c)
            <4>1. CASE balance_none(c)
                <5>1. arg[c].from \in {"schedule", "tick", "idle_tick"}
                    BY <4>1 DEF balance_none, At, ShortInv, TaskInv, Serving
                <5> QED
                    BY <4>1, <5>1 DEF balance_none, EndsSlice
            <4>2. CASE ~balance_none(c)
                BY <3>3, <4>2 DEF Balance, double_lock_balance, pull, pull_none, fields
            <4> QED
                BY <4>1, <4>2
        <3>4. CASE Wake(c)
            BY <3>4 DEF Wake, wake_retry, wake_running, try_to_wake_up, fields
        <3>5. CASE Affine(c) \/ policy_refused(c) \/ Migration(c)
            BY <3>5 DEF Affine, lock_retry, affine_simple, affine_request, policy_refused,
                        Migration, no_request, next_request, read_dest, move_retry, migrate, fields
        <3> QED
            BY <3>1, <3>2, <3>3, <3>4, <3>5 DEF Step, Locked, Policy
    <2> QED
        BY <2>1, <2>2
<1> QED
    BY <1>1, <1>2, <1>3

LEMMA ShortAlways == Spec => []ShortInv
<1>1. Init => ShortInv
    BY TaskInit, ClassAssumption DEF Init, ShortInv
<1> QED
    BY <1>1, ShortNext, PTL DEF Spec

LEMMA TaskInvTyped == ShortInv => TypeOK
<1> SUFFICES ASSUME ShortInv PROVE TypeOK
    OBVIOUS
<1>0. TaskInv /\ short \subseteq Task
    BY DEF ShortInv
<1>1. \A c \in Cpu : \A i \in DOMAIN migration_queue[c] : migration_queue[c][i] \in Requests
    <2> TAKE c \in Cpu
    <2>1. migration_queue[c] \in Seq(Requests)
        BY <1>0 DEF TaskInv, LockInv, Typed
    <2> QED
        BY <2>1
<1> QED
    BY <1>0, <1>1 DEF TaskInv, LockInv, Typed, Values, Lock, Stations, TypeOK

LEMMA TaskInvOneCpu == TaskInv => OneCpuEach
BY DEF TaskInv, Executing, OneCpuEach

\* Every variable of the run queues has its type, the counters stay below WORD and
\* no mask becomes empty.
THEOREM TypeCorrect == Spec => []TypeOK
BY ShortAlways, TaskInvTyped, PTL

\* A task that is on the lists of a run queue is found under that queue's lock by
\* task_rq_lock, and nr_running says how many tasks the lists hold: activate_task,
\* deactivate_task, pull_task and the migration threads move a task, its cpu field
\* and the two counters together, on any number of CPUs.
THEOREM QueueKnowsItsTasks == Spec => []QueuedWhereCpuSays
<1>1. TaskInv => QueuedWhereCpuSays
    BY DEF TaskInv
<1> QED
    BY <1>1, TasksAlways, PTL

\* A task runs on one CPU at a time, the one its cpu field names: try_to_wake_up,
\* load_balance, set_cpus_allowed and the migration threads leave a task that
\* executes where it is, also in the middle of schedule() when its CPU has let go
\* of the run queue to lock two.
THEOREM TaskRunsOnce == Spec => []OneCpuEach
BY TasksAlways, TaskInvOneCpu, PTL

-----------------------------------------------------------------------------
(* Idle CPUs                                                               *)

\* A step of CPU c that strands none.
LEMMA StrandsNone ==
    ASSUME TaskInv, TaskInv', NEW c \in Cpu, Step(c), ~migrate(c), NEW d \in Cpu, ~Stranded(d)
    PROVE  ~Stranded(d)'
<1>1. SUFFICES ASSUME Stranded(d)'
               PROVE  FALSE
    OBVIOUS
<1>2. curr'[d] = Idle /\ nr_running'[d] > 0 /\ ~need_resched'[d]
    BY <1>1 DEF Stranded
<1>3. Values /\ Values'
    BY DEF TaskInv
<1>4. QueuedWhereCpuSays'
    BY DEF TaskInv
<1>5. d = c => ~switch_tasks(c)
    <2>1. LockInv' /\ nr_running' \in [Cpu -> Nat] /\ on' \in [Thread -> Lock]
        BY <1>3 DEF TaskInv, Values
    <2> QED
        BY <1>2, <1>4, <2>1, SwitchTasks
<1>6. curr[d] = Idle
    <2>1. CASE d # c
        BY <1>2, <2>1, OthersGoOn DEF TaskInv, LockInv, Step
    <2>2. CASE d = c
        <3>1. CASE Executes(c) \/ Outside(c) \/ spin_lock(c)
            <4>1. CASE Executes(c)
                BY <1>2, <4>1 DEF Executes, schedule, down, migration_loop, queues
            <4>2. CASE Outside(c)
                BY <1>2, <4>2 DEF Outside, scheduler_tick, sleep, wake_up, set_cpus_allowed,
                                  setscheduler, queues
            <4> QED
                BY <1>2, <3>1, <4>1, <4>2 DEF spin_lock, queues
        <3>2. CASE Switch(c) \/ Balance(c)
            <4>1. ~switch_tasks(c)
                BY <1>5, <2>2
            <4>2. UNCHANGED curr
                <5>1. CASE Switch(c)
                    BY <4>1, <5>1 DEF Switch, leave_running, leave_sleeping, pick_next_task
                <5>2. CASE balance_none(c) \/ pull(c) \/ pull_none(c)
                    BY <4>1, <5>2 DEF balance_none, pull, pull_none, Finish
                <5>3. CASE double_lock_balance(c)
                    BY <5>3 DEF double_lock_balance, queues
                <5> QED
                    BY <3>2, <5>1, <5>2, <5>3 DEF Balance
            <4> QED
                BY <1>2, <4>2
        <3>3. CASE Wake(c) \/ Affine(c) \/ Policy(c) \/ Migration(c)
            <4>1. UNCHANGED curr
                <5>1. CASE Wake(c)
                    BY <5>1 DEF Wake, wake_retry, wake_running, try_to_wake_up, queues
                <5>2. CASE Affine(c) \/ Policy(c)
                    BY <5>2 DEF Affine, lock_retry, affine_simple, affine_request,
                                Policy, policy_refused, change_policy, queues
                <5>3. CASE no_request(c) \/ next_request(c) \/ read_dest(c) \/ move_retry(c)
                    BY <5>3 DEF no_request, next_request, read_dest, move_retry, queues
                <5> QED
                    BY <3>3, <5>1, <5>2, <5>3 DEF Migration
            <4> QED
                BY <1>2, <4>1
        <3> QED
            BY <3>1, <3>2, <3>3 DEF Step, Locked
    <2> QED
        BY <2>1, <2>2
<1>7. SUFFICES nr_running'[d] <= nr_running[d] /\ (need_resched[d] => need_resched'[d])
    <2>1. nr_running[d] \in Nat /\ nr_running'[d] \in Nat
        BY <1>3 DEF Values
    <2>2. nr_running[d] > 0 /\ ~need_resched[d]
        BY <1>2, <1>7, <2>1
    <2> QED
        BY <1>6, <2>2 DEF Stranded
<1>8. nr_running[d] \in Nat /\ nr_running \in [Cpu -> Nat] /\ need_resched \in [Cpu -> BOOLEAN]
    BY <1>3 DEF Values
<1>9. CASE Executes(c) \/ Outside(c) \/ spin_lock(c) \/ double_lock_balance(c)
    <2>1. UNCHANGED <<nr_running, need_resched>>
        <3>1. CASE Executes(c)
            BY <3>1 DEF Executes, schedule, down, migration_loop, queues
        <3>2. CASE Outside(c)
            BY <3>2 DEF Outside, scheduler_tick, sleep, wake_up, set_cpus_allowed, setscheduler,
                        queues
        <3> QED
            BY <1>9, <3>1, <3>2 DEF spin_lock, double_lock_balance, queues
    <2> QED
        BY <1>8, <2>1
<1>10. CASE wake_retry(c) \/ wake_running(c) \/ Affine(c) \/ policy_refused(c) \/ Migration(c)
    <2>1. UNCHANGED <<nr_running, need_resched>>
        BY <1>10 DEF wake_retry, wake_running, policy_refused, queues,
                    Affine, lock_retry, affine_simple, affine_request,
                    Migration, no_request, next_request, read_dest, move_retry
    <2> QED
        BY <1>8, <2>1
<1>11. CASE Switch(c)
    <2>1. /\ nr_running' = nr_running \/ nr_running' = [nr_running EXCEPT ![c] = @ - 1]
          /\ need_resched' = need_resched \/ need_resched' = [need_resched EXCEPT ![c] = FALSE]
          /\ d # c
        BY <1>2, <1>5, <1>11 DEF Switch, leave_running, leave_sleeping, pick_next_task, switch_tasks
    <2> QED
        BY <1>8, <2>1
<1>12. CASE balance_none(c) \/ pull_none(c)
    <2>1. nr_running' = nr_running /\ Finish(c) /\ op[c] \in {"balance", "pull"}
        BY <1>12 DEF balance_none, pull_none, At
    <2>2. CASE arg[c].from = "schedule"
        BY <1>5, <1>8, <2>1, <2>2 DEF Finish, switch_tasks
    <2>3. CASE arg[c].from # "schedule"
        <3>1. arg[c].from \in {"tick", "idle_tick"}
            BY <2>1, <2>3 DEF TaskInv, Serving
        <3>2. \/ need_resched' = need_resched
              \/ need_resched' = [need_resched EXCEPT ![c] = TRUE]
            BY <1>12, <3>1 DEF balance_none, pull_none, EndsSlice
        <3> QED
            BY <1>8, <2>1, <3>2
    <2> QED
        BY <2>2, <2>3
<1>13. CASE pull(c)
    <2> DEFINE b == arg[c].busiest
    <2>1. PICK S \in SUBSET Movable(c), higher \in BOOLEAN :
              /\ nr_running' = [nr_running EXCEPT ![b] = @ - Cardinality(S),
                                                  ![c] = @ + Cardinality(S)]
              /\ S # {} /\ curr[c] = Idle => higher
              /\ Finish(c)
              /\ arg[c].from # "schedule" => need_resched' = [need_resched EXCEPT ![c] = @ \/ higher]
        BY <1>13 DEF pull
    <2>2. Cardinality(S) \in Nat /\ (S = {} => Cardinality(S) = 0)
        <3>1. S \in SUBSET Thread
            BY <2>1 DEF Movable, CanMigrate
        <3> QED
            BY <3>1, Finite, FS_Subset, FS_CardinalityType, FS_EmptySet
    <2>3. arg[c].busiest \in Cpu \ {c}
        BY <1>13 DEF pull, At, TaskInv, Serving
    <2> DEFINE k == Cardinality(S)
    <2>4. nr_running' = [nr_running EXCEPT ![b] = @ - k, ![c] = @ + k] /\ k \in Nat
        BY <2>1, <2>2
    <2> HIDE DEF b, k
    <2>5. d # c => nr_running'[d] <= nr_running[d]
        BY <1>8, <2>4
    <2>6. d = c => arg[c].from # "schedule"
        BY <1>5, <2>1 DEF Finish
    <2>7. d # c => need_resched'[d] = need_resched[d]
        BY <1>8, <2>1 DEF Finish, switch_tasks
    <2>8. d = c => need_resched'[d] = (need_resched[d] \/ higher)
        BY <1>8, <2>1, <2>6
    <2>9. d = c => S = {}
        BY <1>2, <1>6, <2>1, <2>8
    <2>10. d = c => nr_running'[d] <= nr_running[d]
        BY <1>8, <2>2, <2>3, <2>4, <2>9 DEF b, k
    <2> QED
        BY <2>5, <2>7, <2>8, <2>10
<1>14. CASE try_to_wake_up(c)
    <2> DEFINE r == cpu[arg[c].p]
    <2>1. PICK higher \in MayPreempt(r, arg[c].p) :
              /\ nr_running' = [nr_running EXCEPT ![r] = @ + 1]
              /\ need_resched' = [need_resched EXCEPT ![r] = @ \/ higher]
        BY <1>14 DEF try_to_wake_up
    <2>2. curr[r] = Idle => higher = TRUE
        BY <2>1 DEF MayPreempt
    <2> HIDE DEF r
    <2>3. d # r
        BY <1>2, <1>6, <1>8, <2>1, <2>2
    <2> QED
        BY <1>8, <2>1, <2>3
<1>15. CASE change_policy(c)
    <2>1. /\ nr_running' = nr_running
          /\ need_resched' = need_resched \/ need_resched' = [need_resched EXCEPT ![c] = TRUE]
        BY <1>15 DEF change_policy
    <2> QED
        BY <1>8, <2>1
<1> QED
    BY <1>9, <1>10, <1>11, <1>12, <1>13, <1>14, <1>15 DEF Step, Locked, Balance, Wake, Policy

\* A migration that strands a CPU has moved the task there.
LEMMA MigrationStrands ==
    ASSUME TaskInv, NEW c \in Cpu, migrate(c), NEW d \in Cpu, ~Stranded(d), Stranded(d)'
    PROVE  c # d /\ MovesTo(c, d)
<1> DEFINE p == arg[c].p
           dest == arg[c].dest
<1>1. /\ At(c, "move") /\ UNCHANGED <<curr, need_resched>>
      /\ \/ /\ cpu[p] = c /\ on' = MovedLists(c, p, dest)
            /\ nr_running' = [r \in Cpu |->
                   nr_running[r] + (IF on[p] # NONE /\ r = dest THEN 1 ELSE 0)
                                 - (IF on[p] # NONE /\ r = c THEN 1 ELSE 0)]
         \/ UNCHANGED nr_running
    BY DEF migrate
<1>2. nr_running[d] \in Nat /\ on \in [Thread -> Lock]
    BY DEF TaskInv, Values
<1>3. p \in Thread
    BY <1>1 DEF At, TaskInv, LockInv, OnCpu, Locals
<1>4. ~(nr_running[d] > 0) /\ nr_running'[d] > 0
    BY <1>1 DEF Stranded
<1>5. /\ cpu[p] = c /\ on' = MovedLists(c, p, dest)
      /\ nr_running'[d] = nr_running[d] + (IF on[p] # NONE /\ d = dest THEN 1 ELSE 0)
                                        - (IF on[p] # NONE /\ d = c THEN 1 ELSE 0)
    BY <1>1, <1>4
<1>6. on[p] # NONE /\ d = dest /\ d # c
    BY <1>2, <1>4, <1>5
<1>7. on[p] = c
    BY <1>3, <1>5, <1>6 DEF TaskInv, QueuedWhereCpuSays
<1>8. on'[p] = d
    BY <1>2, <1>3, <1>5, <1>6 DEF MovedLists
<1> QED
    BY <1>1, <1>6, <1>7, <1>8 DEF MovesTo

\* A CPU that idles and whose run queue gets a task has been told to reschedule,
\* whoever put the task there and whichever lock was dropped meanwhile (a waker,
\* load_balance, schedule()).  The one step that leaves an idle CPU with a task and
\* untold is that of another CPU's migration thread which puts the task there.
THEOREM OnlyMigrationLeavesIdle == Spec => OnlyMigrationStrands
<1>1. TaskInv /\ TaskInv' /\ [Next]_vars =>
          [\A c \in Cpu : ~Stranded(c) /\ Stranded(c)' =>
               \E d \in Cpu \ {c} : MovesTo(d, c)]_vars
    <2> SUFFICES ASSUME TaskInv, TaskInv', Next, NEW d \in Cpu, ~Stranded(d), Stranded(d)'
                 PROVE  \E c \in Cpu \ {d} : MovesTo(c, d)
        OBVIOUS
    <2>1. PICK c \in Cpu : Step(c)
        BY DEF Next, Step
    <2>2. migrate(c)
        BY <2>1, StrandsNone
    <2> QED
        BY <2>2, MigrationStrands
<1> QED
    BY <1>1, TasksAlways, PTL DEF Spec, OnlyMigrationStrands

-----------------------------------------------------------------------------
(* Masks                                                                   *)
(*                                                                         *)
(* With a single caller of set_cpus_allowed there is one request at most,  *)
(* and nobody changes the mask while the migration is on its way.  (With   *)
(* two callers the destination may be out of date: see the run affinity.)  *)

\* The migration thread of CPU c has a request: on its queue or in its hands.
Has(c) == migration_queue[c] # << >> \/ op[c] \in {"read", "move"}
Target(c) == IF op[c] \in {"read", "move"} THEN arg[c].p ELSE migration_queue[c][1].p
Caller(c) == IF op[c] \in {"read", "move"} THEN arg[c].caller ELSE migration_queue[c][1].caller

Kept(p) == cpu[p] \in cpus_allowed[p]

Asking(c) ==
    /\ op[c] = "affine" => at[curr[c]] = "user"
    /\ Has(c) => at[Caller(c)] = "down" /\ (cpu[Target(c)] = c \/ Kept(Target(c)))
    /\ migration_queue[c] # << >> => Len(migration_queue[c]) = 1 /\ op[c] \notin {"read", "move"}
    /\ op[c] = "move" => arg[c].dest \in cpus_allowed[arg[c].p]

MaskInv ==
    /\ \A c \in Cpu : Asking(c)
    /\ \A c, d \in Cpu : Has(c) /\ Has(d) => c = d
    /\ \A p \in Thread : Kept(p) \/ \E c \in Cpu : Has(c) /\ Target(c) = p

OneCaller == \A s, t \in Callers : s = t

LEMMA Asks1 ==
    ASSUME TaskInv, NEW c \in Cpu, Has(c)
    PROVE  Target(c) \in Targets /\ Caller(c) \in Callers /\ Target(c) \in Thread
<1>1. Target(c) \in Targets /\ Caller(c) \in Callers
    <2>1. CASE op[c] \in {"read", "move"}
        BY <2>1 DEF TaskInv, Serving, Target, Caller
    <2>2. CASE op[c] \notin {"read", "move"}
        <3>1. migration_queue[c] # << >> /\ migration_queue[c] \in Seq([p : Targets, caller : Callers])
            BY <2>2 DEF Has, TaskInv, Values
        <3> DEFINE Pair == [p : Targets, caller : Callers]
                   queue == migration_queue[c]
        <3> HIDE DEF Pair, queue
        <3>2. queue # << >> /\ queue \in Seq(Pair)
            BY <3>1 DEF Pair, queue
        <3>3. queue[1] \in Pair
            BY <3>2, EmptySeq, LenProperties, ElementOfSeq
        <3>4. migration_queue[c][1] \in [p : Targets, caller : Callers]
            BY <3>3 DEF Pair, queue
        <3> QED
            BY <2>2, <3>4 DEF Target, Caller
    <2> QED
        BY <2>1, <2>2
<1> QED
    BY <1>1, CallAssumption DEF Thread

LEMMA MaskKept == TaskInv /\ MaskInv => AffinityKept
<1> SUFFICES ASSUME TaskInv, MaskInv, NEW p \in Thread, ~Kept(p)
             PROVE  Moving(p)
    BY DEF AffinityKept, Kept
<1>1. PICK c \in Cpu : Has(c) /\ Target(c) = p
    BY DEF MaskInv
<1>2. CASE op[c] \in {"read", "move"}
    BY <1>1, <1>2 DEF Target, Moving
<1>3. CASE op[c] \notin {"read", "move"}
    <2>1. migration_queue[c] # << >> /\ migration_queue[c] \in Seq([p : Targets, caller : Callers])
        BY <1>1, <1>3 DEF Has, TaskInv, Values
    <2>2. 1 \in DOMAIN migration_queue[c]
        BY <2>1
    <2> QED
        BY <1>1, <1>3, <2>2 DEF Target, Moving
<1> QED
    BY <1>2, <1>3

\* Nobody changes a mask while a migration is on its way, and nobody else changes
\* one meanwhile.
LEMMA NobodyElseAsks ==
    ASSUME OneCaller, TaskInv, MaskInv, NEW c \in Cpu, op[c] = "affine"
    PROVE  \A d \in Cpu : ~Has(d) /\ (op[d] = "affine" => d = c)
<1>1. curr[c] \in Callers /\ at[curr[c]] = "user" /\ curr[c] # Idle
    BY CallAssumption, ThreadAssumption DEF TaskInv, Serving, MaskInv, Asking, Thread
<1>2. ASSUME NEW d \in Cpu, Has(d)
      PROVE  FALSE
    BY <1>1, <1>2, Asks1 DEF MaskInv, Asking, OneCaller
<1>3. ASSUME NEW d \in Cpu, op[d] = "affine"
      PROVE  d = c
    <2>1. curr[d] = curr[c]
        BY <1>1, <1>3 DEF TaskInv, Serving, OneCaller
    <2> QED
        BY <1>1, <2>1, TaskInvOneCpu DEF OneCpuEach
<1> QED
    BY <1>2, <1>3

\* The step leaves masks and requests alone, moves tasks only to where their masks
\* say, and lets no caller go.
LEMMA KeepsRequests ==
    ASSUME TaskInv, MaskInv, NEW c \in Cpu, Step(c), UNCHANGED <<cpus_allowed, migration_queue>>,
           \A p \in Thread : cpu'[p] = cpu[p] \/ cpu'[p] \in cpus_allowed[p],
           \A t \in Task : at[t] \in {"down", "user"} => at'[t] = at[t],
           op'[c] \in {"read", "move"} <=> op[c] \in {"read", "move"},
           op'[c] \in {"read", "move"} => arg'[c].p = arg[c].p /\ arg'[c].caller = arg[c].caller,
           op'[c] = "move" => arg'[c].dest \in cpus_allowed[arg[c].p],
           op'[c] = "affine" => at'[curr'[c]] = "user"
    PROVE  MaskInv'
<1>1. \A d \in Cpu \ {c} : op'[d] = op[d] /\ arg'[d] = arg[d] /\ curr'[d] = curr[d]
    BY OthersGoOn DEF TaskInv, LockInv, Step
<1>2. \A d \in Cpu : Has(d)' <=> Has(d)
    BY <1>1 DEF Has
<1>3. \A d \in Cpu : Has(d) => Target(d)' = Target(d) /\ Caller(d)' = Caller(d)
    BY <1>1 DEF Target, Caller
<1>4. \A p \in Thread : Kept(p) => Kept(p)'
    BY DEF Kept
<1>5. \A p \in Thread : cpu'[p] = cpu[p] \/ Kept(p)'
    BY DEF Kept
<1>6. ASSUME NEW d \in Cpu
      PROVE  Asking(d)'
    <2>1. Asking(d)
        BY DEF MaskInv
    <2>2. op'[d] = "affine" => at'[curr'[d]] = "user"
        <3>1. CASE d # c /\ op[d] = "affine"
            <4>1. curr[d] \in Task /\ at[curr[d]] = "user"
                BY <2>1, <3>1, CallAssumption DEF TaskInv, Serving, Asking
            <4> QED
                BY <1>1, <3>1, <4>1
        <3> QED
            BY <1>1, <3>1
    <2>3. (Has(d) => at[Caller(d)] = "down" /\ (cpu[Target(d)] = d \/ Kept(Target(d))))'
        <3>1. SUFFICES ASSUME Has(d)
                       PROVE  /\ at'[Caller(d)] = "down"
                              /\ \/ cpu'[Target(d)] = d
                                 \/ cpu'[Target(d)] \in cpus_allowed'[Target(d)]
            BY <1>2, <1>3 DEF Kept
        <3>2. Target(d) \in Thread /\ Caller(d) \in Task
            BY <3>1, Asks1, CallAssumption
        <3>3. at[Caller(d)] = "down" /\ (cpu[Target(d)] = d \/ Kept(Target(d)))
            BY <2>1, <3>1 DEF Asking
        <3> QED
            BY <3>2, <3>3 DEF Kept
    <2>4. op'[d] = "move" => arg'[d].dest \in cpus_allowed'[arg'[d].p]
        BY <1>1, <2>1 DEF Asking
    <2>5. migration_queue'[d] # << >> =>
              Len(migration_queue'[d]) = 1 /\ op'[d] \notin {"read", "move"}
        BY <1>1, <2>1 DEF Asking
    <2> QED
        BY <2>2, <2>3, <2>4, <2>5 DEF Asking
<1>7. \A d, e \in Cpu : Has(d)' /\ Has(e)' => d = e
    BY <1>2 DEF MaskInv
<1>8. \A p \in Thread : Kept(p)' \/ \E d \in Cpu : Has(d)' /\ Target(d)' = p
    BY <1>2, <1>3, <1>4 DEF MaskInv
<1> QED
    BY <1>6, <1>7, <1>8 DEF MaskInv

\* The CPU goes to a step that is not about a request.
LEMMA GoesAside ==
    ASSUME TaskInv, MaskInv, NEW c \in Cpu, Step(c), NEW step \in Op, NEW local,
           Goto(c, step, local), step \notin {"read", "move", "affine"},
           op[c] \notin {"read", "move"}, UNCHANGED <<cpus_allowed, migration_queue>>,
           \A p \in Thread : cpu'[p] = cpu[p] \/ cpu'[p] \in cpus_allowed[p],
           \A t \in Task : at[t] \in {"down", "user"} => at'[t] = at[t]
    PROVE  MaskInv'
<1>1. op'[c] = step
    BY Gone DEF TaskInv, LockInv
<1> QED
    BY <1>1, KeepsRequests

\* The CPU stays at its step.
LEMMA StaysThere ==
    ASSUME TaskInv, MaskInv, NEW c \in Cpu, Step(c), UNCHANGED <<op, arg, curr>>,
           UNCHANGED <<cpus_allowed, migration_queue>>,
           \A p \in Thread : cpu'[p] = cpu[p] \/ cpu'[p] \in cpus_allowed[p],
           \A t \in Task : at[t] \in {"down", "user"} => at'[t] = at[t]
    PROVE  MaskInv'
<1>1. Asking(c)
    BY DEF MaskInv
<1>2. op[c] = "affine" => curr[c] \in Task
    BY CallAssumption DEF TaskInv, Serving
<1> QED
    BY <1>1, <1>2, KeepsRequests DEF Asking

LEMMA SchedulingKeepsMasks ==
    ASSUME TaskInv, MaskInv, NEW c \in Cpu,
           \/ schedule(c) \/ scheduler_tick(c) \/ wake_up(c) \/ migration_loop(c)
           \/ setscheduler(c) \/ Policy(c) \/ Switch(c) \/ Balance(c)
    PROVE  MaskInv'
<1>1. Step(c)
    BY DEF Step, Locked, Executes, Outside
<1>2. op[c] \notin {"read", "move"} /\ UNCHANGED <<cpus_allowed, migration_queue>>
    BY DEF schedule, scheduler_tick, wake_up, migration_loop, Switch, leave_running, leave_sleeping,
           Balance, balance_none, double_lock_balance, pull, pull_none, setscheduler, Policy,
           policy_refused, change_policy, At, queues, fields
<1>3. \A p \in Thread : cpu'[p] = cpu[p] \/ cpu'[p] \in cpus_allowed[p]
    <2>1. CASE pull(c)
        <3>1. PICK S \in SUBSET Movable(c) : cpu' = [t \in Thread |-> IF t \in S THEN c ELSE cpu[t]]
            BY <2>1 DEF pull
        <3> QED
            BY <3>1 DEF Movable, CanMigrate
    <2>2. CASE ~pull(c)
        BY <2>2 DEF schedule, scheduler_tick, wake_up, migration_loop, Switch, leave_running,
                leave_sleeping, Balance, balance_none, double_lock_balance, pull_none,
                setscheduler, Policy, policy_refused, change_policy, fields
    <2> QED
        BY <2>1, <2>2
<1>4. \A t \in Task : at'[t] = at[t]
    <2>1. CASE Switch(c)
        <3>1. at' = Resumed(curr[c])
            BY <2>1 DEF Switch, leave_running, leave_sleeping
        <3>2. \A t \in Task : t \notin Migrators /\ t \in Thread
            BY ThreadAssumption DEF Thread
        <3> QED
            BY <3>1, <3>2 DEF Resumed, TaskInv, Values
    <2>2. CASE ~Switch(c)
        BY <2>2 DEF schedule, scheduler_tick, wake_up, migration_loop, Balance, balance_none,
                    double_lock_balance, pull, pull_none, setscheduler, Policy, policy_refused,
                    change_policy, fields
    <2> QED
        BY <2>1, <2>2
<1>5. \E step \in {"run", "leave", "balance", "pull", "wake", "policy", "serve"} :
          \E local : Goto(c, step, local)
    <2>1. CASE schedule(c) \/ scheduler_tick(c) \/ wake_up(c) \/ migration_loop(c)
        <3>1. CASE schedule(c)
            BY <3>1 DEF schedule, Begin
        <3>2. CASE scheduler_tick(c)
            BY <3>2 DEF scheduler_tick, Begin
        <3>3. CASE wake_up(c)
            BY <3>3 DEF wake_up, Begin
        <3>4. CASE migration_loop(c)
            BY <3>4 DEF migration_loop, Begin
        <3> QED
            BY <2>1, <3>1, <3>2, <3>3, <3>4
    <2>2. CASE Switch(c)
        BY <2>2 DEF Switch, leave_running, leave_sleeping, pick_next_task, switch_tasks, Return
    <2>3. CASE double_lock_balance(c)
        BY <2>3 DEF double_lock_balance
    <2>4. CASE balance_none(c) \/ pull(c) \/ pull_none(c)
        BY <2>4 DEF balance_none, pull, pull_none, Finish, switch_tasks, Return
    <2>5. CASE setscheduler(c)
        BY <2>5 DEF setscheduler, Begin
    <2>6. CASE Policy(c)
        BY <2>6 DEF Policy, policy_refused, change_policy, Return
    <2> QED
        BY <2>1, <2>2, <2>3, <2>4, <2>5, <2>6 DEF Balance
<1>6. PICK step \in {"run", "leave", "balance", "pull", "wake", "policy", "serve"} :
          \E local : Goto(c, step, local)
    BY <1>5
<1>7. PICK local : Goto(c, step, local)
    BY <1>6
<1>8. step \in Op /\ step \notin {"read", "move", "affine"}
    BY DEF Op
<1> QED
    BY <1>1, <1>2, <1>3, <1>4, <1>7, <1>8, GoesAside

LEMMA WakingKeepsMasks ==
    ASSUME TaskInv, MaskInv, NEW c \in Cpu,
           spin_lock(c) \/ down(c) \/ sleep(c) \/ lock_retry(c) \/ Wake(c) \/ no_request(c)
    PROVE  MaskInv'
<1>1. Step(c)
    BY DEF Step, Locked, Executes, Outside, Affine, Migration
<1>2. UNCHANGED <<cpus_allowed, migration_queue>>
    BY DEF spin_lock, down, sleep, lock_retry, Wake, wake_retry, wake_running, try_to_wake_up,
           no_request, queues, fields
<1>3. \A p \in Thread : cpu'[p] = cpu[p] \/ cpu'[p] \in cpus_allowed[p]
    <2>1. CASE wake_retry(c)
        <3> DEFINE p == arg[c].p
        <3>1. \/ cpu' = cpu
              \/ c \in cpus_allowed[p] /\ cpu' = [cpu EXCEPT ![p] = c]
            BY <2>1 DEF wake_retry, FastMigrates
        <3> HIDE DEF p
        <3> QED
            BY <3>1 DEF TaskInv, LockInv, Typed
    <2>2. CASE ~wake_retry(c)
        BY <2>2 DEF spin_lock, down, sleep, lock_retry, Wake, wake_running, try_to_wake_up,
           no_request, fields
    <2> QED
        BY <2>1, <2>2
<1>4. \A t \in Task : at[t] \in {"down", "user"} => at'[t] = at[t]
    <2>1. CASE down(c)
        <3>1. at' = at \/ (at[curr[c]] = "upped" /\ at' = [at EXCEPT ![curr[c]] = "user"])
            BY <2>1 DEF down
        <3> QED
            BY <3>1 DEF TaskInv, Values, Thread
    <2>2. CASE no_request(c)
        <3>1. at' = [at EXCEPT ![curr[c]] = "sleep"] /\ curr[c] = migration_thread(c)
            BY <2>2 DEF no_request, At, TaskInv, Serving
        <3>2. \A t \in Task : t # curr[c] /\ t \in Thread
            BY <3>1, ThreadAssumption DEF Migrators, Thread
        <3> QED
            BY <3>1, <3>2 DEF TaskInv, Values
    <2>3. CASE ~down(c) /\ ~no_request(c)
        BY <2>3 DEF spin_lock, sleep, lock_retry, Wake, wake_retry, wake_running, try_to_wake_up,
                    fields
    <2> QED
        BY <2>1, <2>2, <2>3
<1>5. CASE spin_lock(c) \/ down(c) \/ sleep(c) \/ lock_retry(c) \/ wake_retry(c)
    <2>1. UNCHANGED <<op, arg, curr>>
        BY <1>5 DEF spin_lock, down, sleep, lock_retry, wake_retry, Retry, steps, queues
    <2> QED
        BY <1>1, <1>2, <1>3, <1>4, <2>1, StaysThere
<1>6. CASE wake_running(c) \/ try_to_wake_up(c) \/ no_request(c)
    <2>1. Goto(c, "run", NoArg) /\ op[c] \notin {"read", "move"}
        BY <1>6 DEF wake_running, try_to_wake_up, no_request, Return, At
    <2>2. "run" \in Op
        BY DEF Op
    <2> QED
        BY <1>1, <1>2, <1>3, <1>4, <2>1, <2>2, GoesAside
<1> QED
    BY <1>5, <1>6 DEF Wake

LEMMA CallKeepsMasks ==
    ASSUME TaskInv, MaskInv, NEW c \in Cpu, set_cpus_allowed(c)
    PROVE  MaskInv'
<1>1. Step(c)
    BY DEF Step, Outside
<1>2. op[c] = "run" /\ at[curr[c]] = "user" /\ \E local : Goto(c, "affine", local)
    BY DEF set_cpus_allowed, Begin
<1>3. UNCHANGED <<curr, migration_queue, cpu, cpus_allowed, at>>
    BY DEF set_cpus_allowed, queues, fields
<1>4. op'[c] = "affine"
    BY <1>2, Gone DEF TaskInv, LockInv, Op
<1> QED
    BY <1>1, <1>2, <1>3, <1>4, KeepsRequests

\* The destination is the lowest CPU of the mask as it is now; retries keep it.
LEMMA MovingKeepsMasks ==
    ASSUME TaskInv, MaskInv, NEW c \in Cpu, read_dest(c) \/ move_retry(c)
    PROVE  MaskInv'
<1> DEFINE p == arg[c].p
           dest == Lowest(cpus_allowed[p])
           first == [p |-> p, caller |-> arg[c].caller, dest |-> dest, src |-> cpu[p]]
           again == [arg[c] EXCEPT !.src = cpu[p]]
<1>1. Step(c)
    BY DEF Step, Locked, Migration
<1>2. UNCHANGED <<curr, migration_queue, cpu, cpus_allowed, at>> /\ op[c] \in {"read", "move"}
    BY DEF read_dest, move_retry, queues, fields, At
<1>3. p \in Thread /\ cpus_allowed[p] \in (SUBSET Cpu) \ {{}}
    BY <1>2 DEF TaskInv, LockInv, OnCpu, Locals, Typed
<1>4. dest \in cpus_allowed[p]
    BY <1>3, LowestIn
<1>5. first.p = p /\ first.caller = arg[c].caller /\ first.dest = dest
    OBVIOUS
<1>6. again.p = p /\ again.caller = arg[c].caller /\ again.dest = arg[c].dest
    OBVIOUS
<1>7. \/ Goto(c, "move", first)
      \/ op[c] = "move" /\ Goto(c, "move", again)
    BY DEF read_dest, move_retry, At
<1>8. op[c] = "move" => arg[c].dest \in cpus_allowed[p]
    BY DEF MaskInv, Asking
<1> HIDE DEF p, dest, first, again
<1>9. op'[c] = "move" /\ (arg'[c] = first \/ (op[c] = "move" /\ arg'[c] = again))
    BY <1>7, Gone DEF TaskInv, LockInv, Op
<1>10. /\ arg'[c].p = arg[c].p /\ arg'[c].caller = arg[c].caller
       /\ arg'[c].dest \in cpus_allowed[arg[c].p]
    BY <1>4, <1>5, <1>6, <1>8, <1>9 DEF p
<1> QED
    BY <1>1, <1>2, <1>9, <1>10, KeepsRequests

\* set_cpus_allowed gives the task the new mask, and moves it or asks for it to be
\* moved if it is elsewhere.
LEMMA AffineKeepsMasks ==
    ASSUME OneCaller, TaskInv, MaskInv, NEW c \in Cpu, affine_simple(c) \/ affine_request(c)
    PROVE  MaskInv'
<1> DEFINE p == arg[c].p
           mask == arg[c].mask
           request == [p |-> p, caller |-> curr[c]]
<1>1. Step(c)
    BY DEF Step, Locked, Affine
<1>2. op[c] = "affine" /\ cpus_allowed' = [cpus_allowed EXCEPT ![p] = mask] /\ UNCHANGED curr
    BY DEF affine_simple, affine_request, At, queues
<1>3. /\ p \in Thread /\ mask \in (SUBSET Cpu) \ {{}} /\ curr[c] \in Task
      /\ curr[c] \in Thread /\ cpu[p] \in Cpu /\ Typed /\ Values
    BY <1>2, CallAssumption DEF TaskInv, LockInv, OnCpu, Locals, Serving, Typed, Thread
<1>4. \A d \in Cpu : ~Has(d) /\ (op[d] = "affine" => d = c)
    BY <1>2, NobodyElseAsks
<1>5. \A d \in Cpu \ {c} : op'[d] = op[d] /\ arg'[d] = arg[d] /\ curr'[d] = curr[d]
    BY <1>1, OthersGoOn DEF TaskInv, LockInv, Step
<1>6. op'[c] \in {"run", "wake"}
    <2>1. \E step \in {"run", "wake"} : \E local : Goto(c, step, local)
        BY DEF affine_simple, affine_request, Return
    <2> QED
        BY <2>1, Gone DEF TaskInv, LockInv, Op
<1>7. \A d \in Cpu : op'[d] \notin {"read", "move", "affine"}
    BY <1>4, <1>5, <1>6 DEF Has
<1>8. \A t \in Thread : t # p => (Kept(t) /\ (cpu'[t] = cpu[t] => Kept(t)'))
    BY <1>2, <1>3, <1>4 DEF MaskInv, Kept, Typed
<1>9. \A d \in Cpu : migration_queue[d] = << >>
    BY <1>4 DEF Has
<1>10. CASE affine_simple(c)
    <2>1. UNCHANGED migration_queue
        BY <1>10 DEF affine_simple, queues
    <2>2. \A d \in Cpu : ~Has(d)'
        BY <1>7, <1>9, <2>1 DEF Has
    <2>3. \A d \in Cpu : Asking(d)'
        BY <1>7, <1>9, <2>1, <2>2 DEF Asking
    <2>4. \/ cpu[p] \in mask /\ UNCHANGED cpu
          \/ cpu' = [cpu EXCEPT ![p] = Lowest(mask)]
        BY <1>10 DEF affine_simple
    <2>5. Lowest(mask) \in mask
        BY <1>3, LowestIn
    <2> HIDE DEF p, mask
    <2>6. \A t \in Thread : Kept(t)'
        BY <1>2, <1>3, <1>8, <2>4, <2>5 DEF Typed, Kept
    <2> QED
        BY <2>2, <2>3, <2>6 DEF MaskInv
<1>11. CASE affine_request(c)
    <2>0. PICK r \in Cpu : r = cpu[p]
        BY <1>3
    <2>1. /\ migration_queue' = [migration_queue EXCEPT ![r] = <<request>> \o @]
          /\ at' = [at EXCEPT ![curr[c]] = "down"] /\ UNCHANGED cpu
        BY <1>11, <2>0 DEF affine_request
    <2>2. request.p = p /\ request.caller = curr[c]
        OBVIOUS
    <2>3. r \in Cpu /\ cpu'[p] = r
        BY <1>3, <2>0, <2>1
    <2> HIDE DEF p, mask, request
    <2>4. migration_queue'[r] = <<request>>
        <3>1. migration_queue'[r] = <<request>> \o << >>
            BY <1>3, <1>9, <2>1, <2>3 DEF Values
        <3> QED
            BY <3>1
    <2>5. \A d \in Cpu \ {r} : migration_queue'[d] = << >>
        BY <1>3, <1>9, <2>1 DEF Values
    <2>6. \A d \in Cpu : Has(d)' <=> d = r
        <3>1. <<request>> # << >>
            OBVIOUS
        <3> QED
            BY <1>7, <2>3, <2>4, <2>5, <3>1 DEF Has
    <2>7. Target(r)' = p /\ Caller(r)' = curr[c]
        BY <1>7, <2>2, <2>3, <2>4 DEF Target, Caller
    <2>8. \A d \in Cpu : Asking(d)'
        <3> SUFFICES ASSUME NEW d \in Cpu PROVE Asking(d)'
            OBVIOUS
        <3>1. CASE d = r
            <4>1. at'[curr[c]] = "down"
                BY <1>3, <2>1 DEF Values
            <4>2. Len(migration_queue'[r]) = 1
                BY <2>4
            <4> QED
                BY <1>7, <2>3, <2>7, <3>1, <4>1, <4>2 DEF Asking
        <3>2. CASE d # r
            BY <1>7, <2>5, <2>6, <3>2 DEF Asking
        <3> QED
            BY <3>1, <3>2
    <2>9. \A t \in Thread : Kept(t)' \/ (Has(r)' /\ Target(r)' = t)
        BY <1>8, <2>1, <2>3, <2>6, <2>7
    <2> QED
        BY <2>3, <2>6, <2>8, <2>9 DEF MaskInv
<1> QED
    BY <1>10, <1>11

LEMMA TakingKeepsMasks ==
    ASSUME TaskInv, MaskInv, NEW c \in Cpu, next_request(c)
    PROVE  MaskInv'
<1> DEFINE queue == migration_queue[c]
<1>1. /\ op[c] = "serve" /\ queue # << >> /\ Goto(c, "read", Head(queue))
      /\ migration_queue' = [migration_queue EXCEPT ![c] = Tail(queue)]
      /\ UNCHANGED <<cpu, cpus_allowed, at, curr>>
    BY DEF next_request, At
<1>2. op'[c] = "read" /\ arg'[c] = Head(queue)
    BY <1>1, Gone DEF TaskInv, LockInv, Op
<1>3. \A d \in Cpu \ {c} : op'[d] = op[d] /\ arg'[d] = arg[d] /\ curr'[d] = curr[d]
    BY OthersGoOn DEF TaskInv, LockInv, Step, Locked, Migration
<1>4. /\ migration_queue'[c] = Tail(queue)
      /\ \A d \in Cpu \ {c} : migration_queue'[d] = migration_queue[d]
    BY <1>1 DEF TaskInv, Values
<1>5. migration_queue'[c] = << >> /\ Head(queue) = queue[1]
    <2> DEFINE Pair == [p : Targets, caller : Callers]
    <2>1. queue \in Seq(Pair) /\ Len(queue) = 1
        BY <1>1 DEF TaskInv, Values, MaskInv, Asking
    <2> HIDE DEF queue, Pair
    <2> QED
        BY <1>4, <2>1, HeadTailProperties, EmptySeq
<1>6. Has(c) /\ Target(c) = queue[1].p /\ Caller(c) = queue[1].caller
    BY <1>1 DEF Has, Target, Caller
<1> HIDE DEF queue
<1>7. \A d \in Cpu : Has(d)' <=> Has(d)
    BY <1>2, <1>3, <1>4, <1>6 DEF Has
<1>8. \A d \in Cpu : Has(d) => Target(d)' = Target(d) /\ Caller(d)' = Caller(d)
    <2> TAKE d \in Cpu
    <2>1. CASE d = c
        BY <1>2, <1>5, <1>6, <2>1 DEF Target, Caller
    <2>2. CASE d # c
        BY <1>3, <1>4, <2>2 DEF Target, Caller
    <2> QED
        BY <2>1, <2>2
<1>9. \A d \in Cpu : Asking(d)'
    <2> SUFFICES ASSUME NEW d \in Cpu PROVE Asking(d)'
        OBVIOUS
    <2>1. Asking(d)
        BY DEF MaskInv
    <2>2. Has(d)' => /\ at'[Caller(d)'] = "down"
                     /\ \/ cpu'[Target(d)'] = d
                        \/ cpu'[Target(d)'] \in cpus_allowed'[Target(d)']
        BY <1>1, <1>7, <1>8, <2>1 DEF Asking, Kept
    <2>3. op'[d] = "affine" => at'[curr'[d]] = "user"
        BY <1>1, <1>2, <1>3, <2>1 DEF Asking
    <2>4. migration_queue'[d] # << >> =>
              Len(migration_queue'[d]) = 1 /\ op'[d] \notin {"read", "move"}
        BY <1>3, <1>4, <1>5, <2>1 DEF Asking
    <2>5. op'[d] = "move" => arg'[d].dest \in cpus_allowed'[arg'[d].p]
        BY <1>1, <1>2, <1>3, <2>1 DEF Asking
    <2> QED
        BY <2>2, <2>3, <2>4, <2>5 DEF Asking, Kept
<1>10. \A d, e \in Cpu : Has(d)' /\ Has(e)' => d = e
    BY <1>7 DEF MaskInv
<1>11. \A p \in Thread : Kept(p)' \/ \E d \in Cpu : Has(d)' /\ Target(d)' = p
    BY <1>1, <1>7, <1>8 DEF MaskInv, Kept
<1> QED
    BY <1>9, <1>10, <1>11 DEF MaskInv

\* The last request is served: the task is where its mask says.
LEMMA MigrationKeepsMasks ==
    ASSUME OneCaller, TaskInv, MaskInv, NEW c \in Cpu, migrate(c)
    PROVE  MaskInv'
<1>1. PICK p : p = arg[c].p
    OBVIOUS
<1>2. /\ op[c] = "move" /\ \E local : Goto(c, "wake", local)
      /\ UNCHANGED <<curr, migration_queue, cpus_allowed>>
      /\ \/ cpu[p] # c /\ UNCHANGED cpu
         \/ cpu' = [cpu EXCEPT ![p] = arg[c].dest]
    BY <1>1 DEF migrate, At
<1>3. op'[c] = "wake"
    BY <1>2, Gone DEF TaskInv, LockInv, Op
<1>4. \A d \in Cpu \ {c} : op'[d] = op[d] /\ arg'[d] = arg[d] /\ curr'[d] = curr[d]
    BY OthersGoOn DEF TaskInv, LockInv, Step, Locked, Migration
<1>5. Has(c) /\ Target(c) = p /\ Asking(c) /\ p \in Thread
    BY <1>1, <1>2 DEF Has, Target, MaskInv, TaskInv, LockInv, OnCpu, Locals
<1>6. \A d \in Cpu : (Has(d) <=> d = c) /\ op[d] # "affine"
    BY <1>5, NobodyElseAsks DEF MaskInv
<1>7. \A d \in Cpu : op'[d] \notin {"read", "move", "affine"} /\ migration_queue'[d] = << >>
    BY <1>2, <1>3, <1>4, <1>5, <1>6 DEF Has, Asking
<1>8. \A d \in Cpu : ~Has(d)' /\ Asking(d)'
    BY <1>7 DEF Has, Asking
<1>9. \A t \in Thread : t # p => Kept(t)
    BY <1>5, <1>6 DEF MaskInv
<1>10. arg[c].dest \in cpus_allowed[p] /\ (cpu[p] = c \/ cpu[p] \in cpus_allowed[p])
    BY <1>1, <1>2, <1>5 DEF Asking, Kept
<1>11. \A t \in Thread : Kept(t)'
    BY <1>2, <1>5, <1>9, <1>10 DEF Kept, TaskInv, LockInv, Typed
<1> QED
    BY <1>8, <1>11 DEF MaskInv

LEMMA MaskInit == Init => MaskInv
<1> SUFFICES ASSUME Init PROVE MaskInv
    OBVIOUS
<1>1. /\ op = [c \in Cpu |-> "run"] /\ migration_queue = [c \in Cpu |-> << >>]
      /\ cpu = [t \in Thread |-> IF t \in Task THEN 0 ELSE t[2]]
      /\ cpus_allowed = [t \in Thread |-> IF t \in Task THEN InitMask ELSE {t[2]}]
    BY DEF Init
<1>2. \A c \in Cpu : ~Has(c) /\ Asking(c)
    BY <1>1 DEF Has, Asking
<1>3. \A t \in Thread : Kept(t)
    BY <1>1, CallAssumption DEF Kept
<1> QED
    BY <1>2, <1>3 DEF MaskInv

LEMMA MaskNext == OneCaller /\ TaskInv /\ MaskInv /\ [Next]_vars => MaskInv'
<1> SUFFICES ASSUME OneCaller, TaskInv, MaskInv, [Next]_vars
             PROVE  MaskInv'
    OBVIOUS
<1>1. CASE UNCHANGED vars
    <2>1. UNCHANGED <<op, arg, curr, migration_queue, cpu, cpus_allowed, at>>
        BY <1>1 DEF vars, steps, queues, fields
    <2>2. \A c \in Cpu : /\ Has(c)' <=> Has(c)
                         /\ Target(c)' = Target(c) /\ Caller(c)' = Caller(c)
        BY <2>1 DEF Has, Target, Caller
    <2>3. \A c \in Cpu : Asking(c)'
        BY <2>1, <2>2 DEF MaskInv, Asking, Kept
    <2>4. \A p \in Thread : Kept(p)' <=> Kept(p)
        BY <2>1 DEF Kept
    <2> QED
        BY <2>2, <2>3, <2>4 DEF MaskInv
<1>2. CASE Next
    <2>1. PICK c \in Cpu : Locked(c) \/ Executes(c) \/ Outside(c)
        BY <1>2 DEF Next
    <2>2. CASE Executes(c) \/ Outside(c)
        <3>1. CASE schedule(c) \/ migration_loop(c) \/ scheduler_tick(c) \/ wake_up(c)
                   \/ setscheduler(c)
            BY <3>1, SchedulingKeepsMasks
        <3>2. CASE down(c) \/ sleep(c)
            BY <3>2, WakingKeepsMasks
        <3>3. CASE set_cpus_allowed(c)
            BY <3>3, CallKeepsMasks
        <3> QED
            BY <2>2, <3>1, <3>2, <3>3 DEF Executes, Outside
    <2>3. CASE spin_lock(c) \/ Wake(c) \/ lock_retry(c) \/ no_request(c)
        BY <2>3, WakingKeepsMasks
    <2>4. CASE Switch(c) \/ Balance(c) \/ Policy(c)
        BY <2>4, SchedulingKeepsMasks
    <2>5. CASE Affine(c) /\ ~lock_retry(c)
        BY <2>5, AffineKeepsMasks DEF Affine
    <2>6. CASE Migration(c) /\ ~no_request(c)
        BY <2>6, TakingKeepsMasks, MovingKeepsMasks, MigrationKeepsMasks DEF Migration
    <2> QED
        BY <2>1, <2>2, <2>3, <2>4, <2>5, <2>6 DEF Locked
<1> QED
    BY <1>1, <1>2

\* One task at a time calls set_cpus_allowed: whenever its migration is not on its
\* way, a task is on a CPU of its mask, however wakers and load_balance move it
\* between the request and the moment when the migration thread has both locks.
\* With a second caller this is not so: the run affinity shows the destination
\* that was chosen for the mask of the first.
THEOREM MasksAreKept == ASSUME OneCaller PROVE Spec => []AffinityKept
<1>1. OneCaller
    OBVIOUS
<1>2. TaskInv /\ MaskInv /\ [Next]_vars => MaskInv'
    BY <1>1, MaskNext
<1> QED
    BY <1>2, MaskInit, TasksAlways, MaskKept, PTL DEF Spec

-----------------------------------------------------------------------------
(* The sum of the counters                                                *)

\* The remainder of a sum of a small number and a multiple.
LEMMA RemainderIs ==
    ASSUME NEW w \in Nat, w # 0, NEW r \in 0 .. w - 1, NEW k \in Int
    PROVE  (r + k * w) % w = r
<1> DEFINE x == r + k * w
           q == x \div w
           s == x % w
<1>1. x \in Int /\ q \in Int /\ s \in 0 .. w - 1 /\ x = w * q + s
  OBVIOUS
<1>2. w * (q - k) = r - s
  BY <1>1
<1> HIDE DEF x, q, s
<1>3. CASE q - k >= 1
  <2>1. w * (q - k) >= w * 1
    BY <1>1, <1>3
  <2> QED BY <1>1, <1>2, <2>1
<1>4. CASE q - k <= -1
  <2>1. w * (q - k) <= w * (-1)
    BY <1>1, <1>4
  <2> QED BY <1>1, <1>2, <2>1
<1>5. CASE q = k
  BY <1>1, <1>2, <1>5
<1> QED BY <1>1, <1>3, <1>4, <1>5 DEF s, x

\* One more or less, modulo w: the counter may wrap once.
LEMMA WrapsOnce ==
    ASSUME NEW w \in Nat, w # 0, NEW x \in 0 .. w - 1, NEW n \in {1, -1}
    PROVE  \E k \in {-1, 0, 1} : (x + n) % w = x + n + k * w
<1>1. CASE x + n \in 0 .. w - 1
  <2>1. (x + n + 0 * w) % w = x + n
    BY <1>1, RemainderIs
  <2> QED BY <2>1
<1>2. CASE x + n = w
  <2>1. (0 + 1 * w) % w = 0
    BY RemainderIs
  <2> QED BY <1>2, <2>1
<1>3. CASE x + n = -1
  <2>1. ((w - 1) + (-1) * w) % w = w - 1
    BY RemainderIs
  <2> QED BY <1>3, <2>1
<1> QED BY <1>1, <1>2, <1>3

\* The sums of the first counters.
IsSum(T, f) ==
    /\ T \in [-1 .. NR_CPUS - 1 -> Int] /\ T[-1] = 0
    /\ \A c \in Cpu : T[c] = T[c - 1] + f[c]

\* The numbers of the CPUs, one after the other.
LEMMA CpuSteps ==
    /\ NR_CPUS \in Nat /\ -1 \in -1 .. NR_CPUS - 1 /\ NR_CPUS - 1 \in -1 .. NR_CPUS - 1
    /\ \A c \in Cpu : c \in Int /\ c \in -1 .. NR_CPUS - 1 /\ c - 1 \in -1 .. NR_CPUS - 1 /\ c # -1
    /\ \A c \in -1 .. NR_CPUS - 1 : c \in Int /\ (c = -1 \/ c \in Cpu)
BY CpuAssumption DEF Cpu

\* What holds for no CPU and goes on from one CPU to the next holds for all.
LEMMA CpuByCpu ==
    ASSUME NEW P \in SUBSET (-1 .. NR_CPUS - 1), -1 \in P, \A c \in Cpu : c - 1 \in P => c \in P
    PROVE  P = -1 .. NR_CPUS - 1
<1> DEFINE S == {c \in Cpu : c \notin P}
<1>1. S \subseteq Nat
  BY CpuNumbers
<1>2. CASE S = {}
  BY <1>2, CpuSteps
<1>3. CASE S # {}
  <2>1. PICK n \in S : \A m \in S : n <= m
    BY <1>1, <1>3, LeastNatural
  <2>2. n \in Cpu /\ n \notin P /\ n - 1 \notin P
    BY <2>1
  <2>3. n - 1 \in -1 .. NR_CPUS - 1 /\ n - 1 # -1
    BY <2>2, CpuSteps
  <2>4. n - 1 \in Cpu /\ n - 1 \in S
    BY <2>2, <2>3, CpuSteps
  <2> QED
    BY <2>1, <2>2, <2>4, CpuNumbers
<1> QED
  BY <1>2, <1>3

LEMMA SumExists == ASSUME NEW f \in [Cpu -> Int] PROVE \E T : IsSum(T, f)
<1> DEFINE Up(n) == -1 .. n
           Is(T, n) == /\ T \in [Up(n) -> Int] /\ T[-1] = 0
                       /\ \A c \in Cpu : c <= n => T[c] = T[c - 1] + f[c]
           P == {n \in -1 .. NR_CPUS - 1 : \E T : Is(T, n)}
<1>1. -1 \in P
  <2>1. Is([c \in Up(-1) |-> 0], -1)
    BY CpuNumbers
  <2> QED
    BY <2>1, CpuSteps
<1>2. ASSUME NEW n \in Cpu, NEW T, Is(T, n - 1) PROVE \E U : Is(U, n)
  <2> DEFINE U == [c \in Up(n) |-> IF c = n THEN T[n - 1] + f[n] ELSE T[c]]
  <2>1. n \in Nat /\ n - 1 \in Up(n - 1) /\ f[n] \in Int
    BY CpuNumbers
  <2>2. T[n - 1] \in Int
    BY <1>2, <2>1
  <2>3. \A c \in Up(n) : c # n => c \in Up(n - 1) /\ T[c] \in Int
    BY <1>2, <2>1
  <2>4. U \in [Up(n) -> Int]
    BY <2>1, <2>2, <2>3
  <2>5. U[-1] = 0
    BY <1>2, <2>1
  <2>6. ASSUME NEW c \in Cpu, c <= n PROVE U[c] = U[c - 1] + f[c]
    <3>1. c \in Nat /\ c \in Up(n) /\ c - 1 \in Up(n) /\ c - 1 # n
      BY <2>1, <2>6, CpuNumbers
    <3>2. U[c - 1] = T[c - 1]
      BY <3>1
    <3>3. CASE c = n
      BY <3>1, <3>2, <3>3
    <3>4. CASE c # n
      BY <1>2, <2>1, <3>1, <3>2, <3>4
    <3> QED
      BY <3>3, <3>4
  <2>7. Is(U, n)
    BY <2>4, <2>5, <2>6
  <2> QED
    BY <2>7
<1> HIDE DEF Is
<1>3. \A c \in Cpu : c - 1 \in P => c \in P
  BY <1>2, CpuSteps
<1>4. NR_CPUS - 1 \in P
  BY <1>1, <1>3, CpuByCpu, CpuSteps
<1>5. PICK T : Is(T, NR_CPUS - 1)
  BY <1>4
<1>6. \A c \in Cpu : c <= NR_CPUS - 1
  BY DEF Cpu
<1> QED
  BY <1>5, <1>6 DEF Is, IsSum

\* The recursion of Total, for any counters.
TotalOf(f) == CHOOSE T :
    T = [c \in -1 .. NR_CPUS - 1 |-> IF c = -1 THEN 0 ELSE T[c - 1] + f[c]]

LEMMA TotalIsSum == ASSUME NEW f \in [Cpu -> Int] PROVE IsSum(TotalOf(f), f)
<1> DEFINE More(T) == [c \in -1 .. NR_CPUS - 1 |-> IF c = -1 THEN 0 ELSE T[c - 1] + f[c]]
           U == TotalOf(f)
<1>1. PICK T : IsSum(T, f)
  BY SumExists
<1>2. T = More(T)
  BY <1>1, CpuSteps DEF IsSum
<1>3. U = CHOOSE T1 : T1 = More(T1)
  BY DEF TotalOf
<1>4. U = More(U)
  BY <1>2, <1>3
<1> HIDE DEF U
<1> DEFINE P == {c \in -1 .. NR_CPUS - 1 : U[c] \in Int}
<1>5. U[-1] = 0 /\ -1 \in P
  BY <1>4, CpuSteps
<1>6. \A c \in Cpu : U[c] = U[c - 1] + f[c]
  BY <1>4, CpuSteps
<1>7. \A c \in Cpu : c - 1 \in P => c \in P
  BY <1>6, CpuSteps
<1>8. P = -1 .. NR_CPUS - 1
  BY <1>5, <1>7, CpuByCpu
<1>9. U \in [-1 .. NR_CPUS - 1 -> Int]
  BY <1>4, <1>8
<1>10. IsSum(U, f)
  BY <1>5, <1>6, <1>9 DEF IsSum
<1> QED
  BY <1>10 DEF U

LEMMA TotalIs == Total = TotalOf(nr_uninterruptible) /\ Total' = TotalOf(nr_uninterruptible')
BY DEF Total, TotalOf

\* The counter of r changes by n.
Changed(f, g, r, n) == \A c \in Cpu : g[c] = IF c = r THEN f[c] + n ELSE f[c]

\* One counter changes, and the sum as much.
LEMMA SumChanges ==
    ASSUME NEW f \in [Cpu -> Int], NEW r \in Cpu, NEW n \in Int,
           NEW g,
           Changed(f, g, r, n),
           NEW T, IsSum(T, f), NEW U, IsSum(U, g)
    PROVE  U[NR_CPUS - 1] = T[NR_CPUS - 1] + n
<1> DEFINE P == {c \in -1 .. NR_CPUS - 1 : U[c] = T[c] + (IF r <= c THEN n ELSE 0)}
<1>1. -1 \in P
  BY CpuSteps, CpuNumbers DEF IsSum
<1>2. ASSUME NEW c \in Cpu, c - 1 \in P PROVE c \in P
  <2>1. /\ c \in Int /\ r \in Int /\ f[c] \in Int /\ c \in -1 .. NR_CPUS - 1
        /\ c - 1 \in -1 .. NR_CPUS - 1 /\ T[c - 1] \in Int /\ T[c] \in Int /\ U[c] \in Int
    BY CpuSteps DEF IsSum
  <2>2. U[c - 1] = T[c - 1] + (IF r <= c - 1 THEN n ELSE 0)
    BY <1>2
  <2>3. T[c] = T[c - 1] + f[c] /\ U[c] = U[c - 1] + (IF c = r THEN f[c] + n ELSE f[c])
    BY DEF IsSum, Changed
  <2>4. U[c] = T[c] + (IF r <= c THEN n ELSE 0)
    BY <2>1, <2>2, <2>3
  <2> QED
    BY <2>1, <2>4
<1>3. NR_CPUS - 1 \in P
  BY <1>1, <1>2, CpuByCpu, CpuSteps
<1>4. r <= NR_CPUS - 1
  BY DEF Cpu
<1> QED
  BY <1>3, <1>4
-----------------------------------------------------------------------------
(* Uninterruptible sleepers                                                *)

DeepSleepers == Callers \cup (IF "UNINTERRUPTIBLE" \in Sleeps THEN Sleepers ELSE {})

Deep == \A t \in Thread :
    /\ state[t] = "UNINTERRUPTIBLE" => t \in DeepSleepers
    /\ at[t] = "down" => t \in Callers

\* A task that is about to sleep executes: schedule() has not taken it off yet.
Dozes(t) == state[t] = "UNINTERRUPTIBLE" /\ on[t] # NONE
Runs(c, t) == curr[c] = t /\ ~Scheduling(c)
DozesAwake == \A t \in Thread : Dozes(t) => \E c \in Cpu : Runs(c, t)

Asleep == {t \in Thread : Sleeper(t)}
Exact == \E k \in Int : Total[NR_CPUS - 1] = Cardinality(Asleep) + k * WORD

SleepInv == Deep /\ DozesAwake /\ Exact

LEMMA AsleepCounts == IsFiniteSet(Asleep) /\ Cardinality(Asleep) \in Nat
BY Finite, FS_Subset, FS_CardinalityType DEF Asleep

LEMMA TotalIsInt == ASSUME Values PROVE Total[NR_CPUS - 1] \in Int
<1>1. nr_uninterruptible \in [Cpu -> Int]
  BY Finite DEF Values
<1>2. IsSum(Total, nr_uninterruptible)
  BY <1>1, TotalIs, TotalIsSum
<1> QED
  BY <1>2, CpuSteps DEF IsSum

\* A counter that changes by one, modulo WORD.
LEMMA TotalChanges ==
    ASSUME Values, NEW r \in Cpu, NEW n \in {1, -1},
           nr_uninterruptible' = [nr_uninterruptible EXCEPT ![r] = (@ + n) % WORD]
    PROVE  \E k \in Int : Total'[NR_CPUS - 1] = Total[NR_CPUS - 1] + n + k * WORD
<1> DEFINE f == nr_uninterruptible
           g == nr_uninterruptible'
<1>1. f \in [Cpu -> 0 .. WORD - 1] /\ WORD \in Nat \ {0}
  BY Finite DEF Values
<1>2. f \in [Cpu -> Int] /\ f[r] \in 0 .. WORD - 1
  BY <1>1
<1>3. PICK k \in {-1, 0, 1} : (f[r] + n) % WORD = f[r] + n + k * WORD
  BY <1>1, <1>2, WrapsOnce
<1> DEFINE m == n + k * WORD
<1>4. m \in Int /\ k \in Int /\ f[r] \in Int /\ k * WORD \in Int
  BY <1>1, <1>2
<1>5. f[r] + n + k * WORD = f[r] + m
  BY <1>4
<1>6. g = [f EXCEPT ![r] = (f[r] + n) % WORD]
  OBVIOUS
<1> HIDE DEF f, g, m
<1>7. g \in [Cpu -> Int] /\ Changed(f, g, r, m)
  BY <1>2, <1>3, <1>4, <1>5, <1>6 DEF Changed
<1>8. IsSum(TotalOf(f), f) /\ IsSum(TotalOf(g), g)
  BY <1>2, <1>7, TotalIsSum
<1> DEFINE T == TotalOf(f)
           U == TotalOf(g)
<1>9. IsSum(T, f) /\ IsSum(U, g)
  BY <1>8
<1> HIDE DEF T, U
<1>10. U[NR_CPUS - 1] = T[NR_CPUS - 1] + m
  BY <1>2, <1>4, <1>7, <1>9, SumChanges
<1>11. Total'[NR_CPUS - 1] = Total[NR_CPUS - 1] + m
  BY <1>10, TotalIs DEF f, g, T, U
<1>12. Total[NR_CPUS - 1] \in Int
  BY TotalIsInt
<1>13. Total'[NR_CPUS - 1] = Total[NR_CPUS - 1] + n + k * WORD
  BY <1>4, <1>11, <1>12 DEF m
<1> QED
  BY <1>4, <1>13

\* One task falls asleep, or wakes up, and is counted on any run queue.
LEMMA OneSleepsOrWakes ==
    ASSUME Values, Exact, NEW t \in Thread, NEW r \in Cpu, NEW n \in {1, -1},
           nr_uninterruptible' = [nr_uninterruptible EXCEPT ![r] = (@ + n) % WORD],
           n = 1 => t \notin Asleep /\ Asleep' = Asleep \cup {t},
           n = -1 => t \in Asleep /\ Asleep' = Asleep \ {t}
    PROVE  Exact'
<1>1. PICK j \in Int : Total'[NR_CPUS - 1] = Total[NR_CPUS - 1] + n + j * WORD
  BY TotalChanges
<1>2. PICK k \in Int : Total[NR_CPUS - 1] = Cardinality(Asleep) + k * WORD
  BY DEF Exact
<1>3. Cardinality(Asleep) \in Nat /\ IsFiniteSet(Asleep) /\ WORD \in Nat
  BY AsleepCounts, Finite
<1>4. Cardinality(Asleep') = Cardinality(Asleep) + n
  <2>1. CASE n = 1
    BY <1>3, <2>1, FS_AddElement
  <2>2. CASE n = -1
    BY <1>3, <2>2, FS_RemoveElement
  <2> QED
    BY <2>1, <2>2
<1>5. Total'[NR_CPUS - 1] = Cardinality(Asleep') + (j + k) * WORD
  BY <1>1, <1>2, <1>3, <1>4
<1>6. j + k \in Int
  OBVIOUS
<1> QED
  BY <1>5, <1>6 DEF Exact

\* Nobody falls asleep or wakes up.
LEMMA SameSleepers ==
    ASSUME Exact, nr_uninterruptible' = nr_uninterruptible,
           \A t \in Thread : Sleeper(t)' <=> Sleeper(t)
    PROVE  Exact'
<1>1. Asleep' = Asleep
  BY DEF Asleep
<1>2. Total' = Total
  BY DEF Total
<1> QED
  BY <1>1, <1>2 DEF Exact

\* A step of CPU c is nothing to those that doze on other CPUs.
LEMMA DozesFrame ==
    ASSUME Typed, DozesAwake, NEW c \in Cpu, Step(c),
           \A t \in Thread : Dozes(t)' => Runs(c, t)' \/ (Dozes(t) /\ ~Runs(c, t))
    PROVE  DozesAwake'
<1> SUFFICES ASSUME NEW t \in Thread, Dozes(t)', ~Runs(c, t)'
             PROVE  \E d \in Cpu : Runs(d, t)'
  BY DEF DozesAwake
<1>1. Dozes(t) /\ ~Runs(c, t)
  OBVIOUS
<1>2. PICK d \in Cpu : Runs(d, t)
  BY <1>1 DEF DozesAwake
<1>3. d # c
  BY <1>1, <1>2
<1>4. op'[d] = op[d] /\ arg'[d] = arg[d] /\ curr'[d] = curr[d]
  BY <1>3, OthersGoOn DEF Step
<1>5. Runs(d, t)'
  BY <1>2, <1>4 DEF Runs, Scheduling
<1> QED
  BY <1>5

\* Nobody's state changes, and whoever executes on c goes on.
LEMMA Undisturbed ==
    ASSUME TaskInv, SleepInv, NEW c \in Cpu, Step(c), UNCHANGED <<nr_uninterruptible, state>>,
           \A t \in Thread : (on'[t] = NONE) <=> (on[t] = NONE),
           \A t \in Thread : at'[t] = "down" => at[t] = "down" \/ t \in Callers,
           \A t \in Thread : Runs(c, t) => Runs(c, t)'
    PROVE  SleepInv'
<1>1. Deep'
  BY DEF SleepInv, Deep
<1>2. \A t \in Thread : Sleeper(t)' <=> Sleeper(t)
  BY DEF Sleeper
<1>3. Exact'
  BY <1>2, SameSleepers DEF SleepInv
<1>4. \A t \in Thread : Dozes(t)' => Dozes(t)
  BY DEF Dozes
<1>5. DozesAwake'
  BY <1>4, DozesFrame DEF SleepInv, TaskInv, LockInv
<1> QED
  BY <1>1, <1>3, <1>5 DEF SleepInv

\* The end of load_balance: schedule() switches tasks, or the interrupt returns.
LEMMA FinishGoesOn ==
    ASSUME Typed, NEW c \in Cpu, Finish(c), op[c] \in {"balance", "pull"}
    PROVE  \A t \in Thread : Runs(c, t) => Runs(c, t)'
<1>1. CASE arg[c].from = "schedule"
  BY <1>1 DEF Runs, Scheduling
<1>2. CASE arg[c].from # "schedule"
  <2>1. Goto(c, "run", NoArg) /\ curr' = curr
    BY <1>2 DEF Finish, Return
  <2>2. op'[c] = "run"
    BY <2>1, Gone DEF Op
  <2> QED
    BY <2>1, <2>2 DEF Runs, Scheduling
<1> QED
  BY <1>1, <1>2

\* The steps that change locks and local variables only.
LEMMA LocksOnly ==
    ASSUME TaskInv, SleepInv, NEW c \in Cpu,
           \/ schedule(c) \/ migration_loop(c) \/ scheduler_tick(c) \/ wake_up(c)
           \/ set_cpus_allowed(c) \/ setscheduler(c) \/ spin_lock(c)
           \/ double_lock_balance(c) \/ lock_retry(c) \/ policy_refused(c)
           \/ read_dest(c) \/ move_retry(c)
    PROVE  SleepInv'
<1>1. Step(c)
  BY DEF Step, Executes, Outside, Locked, Balance, Affine, Policy, Migration
<1>2. UNCHANGED <<queues, fields>>
  <2>1. CASE schedule(c) \/ migration_loop(c) \/ scheduler_tick(c) \/ wake_up(c)
             \/ set_cpus_allowed(c) \/ setscheduler(c)
    BY <2>1 DEF schedule, migration_loop, scheduler_tick, wake_up, set_cpus_allowed, setscheduler
  <2>2. CASE spin_lock(c) \/ double_lock_balance(c)
    BY <2>2 DEF spin_lock, double_lock_balance
  <2>3. CASE lock_retry(c) \/ policy_refused(c) \/ read_dest(c) \/ move_retry(c)
    BY <2>3 DEF lock_retry, policy_refused, read_dest, move_retry
  <2> QED
    BY <2>1, <2>2, <2>3
<1>3. ~Scheduling(c) => ~Scheduling(c)'
  <2> USE DEF Typed, TaskInv, LockInv
  <2>1. CASE schedule(c) \/ migration_loop(c) \/ scheduler_tick(c) \/ wake_up(c)
             \/ set_cpus_allowed(c) \/ setscheduler(c)
    <3>1. PICK step \in Op : \E local :
              /\ Goto(c, step, local) /\ step # "pull"
              /\ step = "balance" => local.from # "schedule"
      <4>1. CASE schedule(c) \/ migration_loop(c)
        <5>1. Goto(c, "leave", NoArg) \/ Goto(c, "serve", NoArg)
          BY <4>1 DEF schedule, migration_loop, Begin
        <5> QED
          BY <5>1 DEF Op
      <4>2. CASE scheduler_tick(c)
        <5>1. \E from \in {"idle_tick", "tick"} : Goto(c, "balance", [from |-> from])
          BY <4>2 DEF scheduler_tick, Begin
        <5> QED
          BY <5>1 DEF Op
      <4>3. CASE wake_up(c) \/ set_cpus_allowed(c) \/ setscheduler(c)
        <5>1. \E step \in {"wake", "affine", "policy"} : \E local : Goto(c, step, local)
          <6>1. CASE wake_up(c)
            BY <6>1 DEF wake_up, Begin
          <6>2. CASE set_cpus_allowed(c)
            BY <6>2 DEF set_cpus_allowed, Begin
          <6>3. CASE setscheduler(c)
            BY <6>3 DEF setscheduler, Begin
          <6> QED
            BY <4>3, <6>1, <6>2, <6>3
        <5> QED
          BY <5>1 DEF Op
      <4> QED
        BY <2>1, <4>1, <4>2, <4>3
    <3>2. PICK local : Goto(c, step, local) /\ (step = "balance" => local.from # "schedule")
      BY <3>1
    <3>3. op'[c] = step /\ arg'[c] = local
      BY <3>2, Gone
    <3> QED
      BY <3>1, <3>2, <3>3 DEF Scheduling
  <2>2. CASE spin_lock(c) \/ lock_retry(c)
    BY <2>2 DEF spin_lock, lock_retry, Retry, steps, Scheduling
  <2>3. CASE double_lock_balance(c)
    <3>1. PICK b, load, length : \/ Goto(c, "pull", Found(c, b, load, length))
              \/ Goto(c, "pull", [Found(c, b, load, length) EXCEPT !.length = NONE])
      BY <2>3 DEF double_lock_balance
    <3>2. op[c] = "balance"
      BY <2>3 DEF double_lock_balance, At
    <3>3. arg'[c].from = arg[c].from
      BY <3>1, Gone DEF Found, Op
    <3> QED
      BY <3>2, <3>3 DEF Scheduling
  <2>4. CASE read_dest(c) \/ move_retry(c)
    <3>1. op'[c] = "move"
      BY <2>4, Gone DEF read_dest, move_retry, Op
    <3> QED
      BY <3>1 DEF Scheduling
  <2>5. CASE policy_refused(c)
    <3>1. op'[c] = "run"
      BY <2>5, Gone DEF policy_refused, Return, Op
    <3> QED
      BY <3>1 DEF Scheduling
  <2> QED
    BY <2>1, <2>2, <2>3, <2>4, <2>5
<1>4. curr' = curr
  BY <1>2 DEF queues
<1>5. \A t \in Thread : Runs(c, t) => Runs(c, t)'
  BY <1>3, <1>4 DEF Runs
<1>6. /\ UNCHANGED <<nr_uninterruptible, state>>
      /\ \A t \in Thread : (on'[t] = NONE) <=> (on[t] = NONE)
      /\ \A t \in Thread : at'[t] = "down" => at[t] = "down" \/ t \in Callers
  BY <1>2 DEF queues, fields
<1> QED
  BY <1>1, <1>5, <1>6, Undisturbed

\* The steps of load_balance that end it: a task that is pulled stays queued.
LEMMA BalanceKeepsSleepers ==
    ASSUME TaskInv, SleepInv, NEW c \in Cpu, balance_none(c) \/ pull(c) \/ pull_none(c)
    PROVE  SleepInv'
<1>1. Step(c)
  BY DEF Step, Locked, Balance
<1>2. Finish(c) /\ op[c] \in {"balance", "pull"}
  BY DEF balance_none, pull, pull_none, At
<1>3. \A t \in Thread : Runs(c, t) => Runs(c, t)'
  BY <1>2, FinishGoesOn DEF TaskInv, LockInv
<1>4. UNCHANGED <<nr_uninterruptible, state, at>>
  BY DEF balance_none, pull, pull_none, fields
<1>5. \A t \in Thread : (on'[t] = NONE) <=> (on[t] = NONE)
  <2>1. CASE balance_none(c) \/ pull_none(c)
    BY <2>1 DEF balance_none, pull_none, fields
  <2>2. CASE pull(c)
    <3>1. PICK S \in SUBSET Movable(c) : on' = [t \in Thread |-> IF t \in S THEN c ELSE on[t]]
      BY <2>2 DEF pull
    <3>2. \A t \in S : on[t] = arg[c].busiest
      BY <3>1 DEF Movable, CanMigrate
    <3>3. arg[c].busiest \in Cpu
      BY <2>2 DEF pull, At, TaskInv, Serving
    <3> QED
      BY <3>1, <3>2, <3>3, CpuNumbers
  <2> QED
    BY <2>1, <2>2
<1> QED
  BY <1>1, <1>3, <1>4, <1>5, Undisturbed

\* The steps that change the place of a task, its request or its mask, and not its
\* state.
LEMMA PlacesOnly ==
    ASSUME TaskInv, SleepInv, NEW c \in Cpu,
           wake_retry(c) \/ affine_simple(c) \/ affine_request(c)
    PROVE  SleepInv'
<1>1. Step(c)
  BY DEF Step, Locked, Wake, Affine
<1>2. UNCHANGED <<nr_uninterruptible, state, on, curr>> /\ op[c] \in {"wake", "affine"}
  BY DEF wake_retry, affine_simple, affine_request, At, queues
<1>3. op'[c] \in {"wake", "run"}
  BY <1>2, Gone DEF wake_retry, affine_simple, affine_request, At, Retry, Return, steps, Op,
                    TaskInv, LockInv
<1>4. \A t \in Thread : Runs(c, t) => Runs(c, t)'
  BY <1>2, <1>3 DEF Runs, Scheduling
<1>5. \A t \in Thread : at'[t] = "down" => at[t] = "down" \/ t \in Callers
  <2>1. CASE wake_retry(c) \/ affine_simple(c)
    BY <2>1 DEF wake_retry, affine_simple
  <2>2. CASE affine_request(c)
    BY <2>2 DEF affine_request, At, TaskInv, Serving, Values
  <2> QED
    BY <2>1, <2>2
<1> QED
  BY <1>1, <1>2, <1>4, <1>5, Undisturbed

\* A queued task's state changes: the one that is about to sleep executes on c.
LEMMA WhileQueued ==
    ASSUME TaskInv, SleepInv, NEW c \in Cpu, Step(c), UNCHANGED <<nr_uninterruptible, on>>,
           NEW p \in Thread, on[p] # NONE, \A t \in Thread \ {p} : state'[t] = state[t],
           state'[p] = "UNINTERRUPTIBLE" => p \in DeepSleepers /\ Runs(c, p)',
           \A t \in Thread : at'[t] = "down" => at[t] = "down" \/ t \in Callers,
           \A t \in Thread : Runs(c, t) => Runs(c, t)'
    PROVE  SleepInv'
<1>1. Deep'
  BY DEF SleepInv, Deep
<1>2. \A t \in Thread : Sleeper(t)' <=> Sleeper(t)
  BY DEF Sleeper
<1>3. Exact'
  BY <1>2, SameSleepers DEF SleepInv
<1>4. \A t \in Thread : Dozes(t)' => Dozes(t) \/ Runs(c, t)'
  BY DEF Dozes
<1>5. DozesAwake'
  BY <1>4, DozesFrame DEF SleepInv, TaskInv, LockInv
<1> QED
  BY <1>1, <1>3, <1>5 DEF SleepInv

\* Whoever executes, outside of schedule(), is queued.
LEMMA ExecutingIsQueued ==
    ASSUME TaskInv, NEW c \in Cpu, curr[c] # Idle, ~Scheduling(c)
    PROVE  curr[c] \in Thread /\ on[curr[c]] # NONE /\ on[curr[c]] = c
BY CpuNumbers DEF TaskInv, Values, Executing

LEMMA NobodyIsIdle == Idle \notin Thread /\ Task \subseteq Thread
BY ThreadAssumption DEF Thread

\* A system call that blocks, and down().
LEMMA BlocksAwake ==
    ASSUME TaskInv, SleepInv, NEW c \in Cpu, sleep(c) \/ down(c)
    PROVE  SleepInv'
<1>1. Step(c)
  BY DEF Step, Executes, Outside
<1>2. PICK t \in Task : t = curr[c] /\ op[c] = "run" /\ UNCHANGED <<op, arg, queues, on>>
  <2>1. Sleepers \subseteq Task
    BY CallAssumption
  <2> QED
    BY <2>1 DEF sleep, down, steps
<1>3. t \in Thread /\ t # Idle /\ ~Scheduling(c)
  BY <1>2, NobodyIsIdle DEF Scheduling
<1>4. on[t] # NONE
  BY <1>2, <1>3, ExecutingIsQueued
<1>5. Runs(c, t)' /\ \A s \in Thread : Runs(c, s) => Runs(c, s)'
  BY <1>2, <1>3 DEF Runs, Scheduling, queues
<1>6. /\ \A s \in Thread \ {t} : state'[s] = state[s]
      /\ \A s \in Thread : at'[s] = "down" => at[s] = "down"
      /\ state'[t] = "UNINTERRUPTIBLE" => t \in DeepSleepers
  <2>1. state \in [Thread -> State] /\ at \in [Thread -> Stations]
    BY DEF TaskInv, Values
  <2>2. CASE sleep(c)
    <3>1. PICK s \in Sleeps : state' = [state EXCEPT ![t] = s]
      BY <1>2, <2>2 DEF sleep
    <3>2. t \in Sleepers /\ state'[t] = s /\ at' = at
      BY <1>2, <1>3, <2>1, <2>2, <3>1 DEF sleep
    <3> QED
      BY <2>1, <3>1, <3>2 DEF DeepSleepers
  <2>3. CASE down(c)
    <3>1. at[t] = "down" \/ state'[t] = "RUNNING"
      BY <1>2, <2>3 DEF down
    <3>2. at[t] = "down" => t \in DeepSleepers
      BY <1>3 DEF DeepSleepers, SleepInv, Deep
    <3> QED
      BY <1>2, <2>1, <2>3, <3>1, <3>2 DEF down
  <2> QED
    BY <2>2, <2>3
<1>7. UNCHANGED <<nr_uninterruptible, on>>
  BY <1>2 DEF queues
<1> QED
  BY <1>1, <1>3, <1>4, <1>5, <1>6, <1>7, WhileQueued

\* A wake-up of a task that is queued, and the migration thread that is about to look
\* for a request or to sleep.
LEMMA WakesQueued ==
    ASSUME TaskInv, SleepInv, NEW c \in Cpu, wake_running(c) \/ no_request(c) \/ next_request(c)
    PROVE  SleepInv'
<1> DEFINE p == IF op[c] = "wake" THEN arg[c].p ELSE curr[c]
<1>1. Step(c)
  BY DEF Step, Locked, Wake, Migration
<1>2. op[c] \in {"wake", "serve"} /\ UNCHANGED <<nr_uninterruptible, on, curr>>
  BY DEF wake_running, no_request, next_request, At, queues
<1>3. ~Scheduling(c) /\ ~Scheduling(c)'
  <2>1. op'[c] \in {"run", "read"}
    BY Gone DEF wake_running, no_request, next_request, Return, Op, TaskInv, LockInv
  <2> QED
    BY <1>2, <2>1 DEF Scheduling
<1>4. p \in Thread /\ on[p] # NONE
  <2>1. CASE op[c] = "wake"
    <3>1. wake_running(c)
      BY <2>1 DEF no_request, next_request, At
    <3>2. arg[c].p \in Thread
      BY <2>1 DEF TaskInv, LockInv, OnCpu, Locals
    <3> QED
      BY <2>1, <3>1, <3>2 DEF wake_running
  <2>2. CASE op[c] = "serve"
    <3>1. curr[c] = migration_thread(c) /\ migration_thread(c) \in Thread
      BY <2>2 DEF TaskInv, Serving, Thread, Migrators
    <3> QED
      BY <1>3, <2>2, <3>1, NobodyIsIdle, ExecutingIsQueued
  <2> QED
    BY <1>2, <2>1, <2>2
<1>5. /\ state'[p] # "UNINTERRUPTIBLE" /\ \A t \in Thread \ {p} : state'[t] = state[t]
      /\ \A t \in Thread : at'[t] = "down" => at[t] = "down"
  <2>1. state \in [Thread -> State] /\ at \in [Thread -> Stations]
    BY DEF TaskInv, Values
  <2>2. CASE wake_running(c)
    BY <1>4, <2>1, <2>2 DEF wake_running, At
  <2>3. CASE no_request(c) \/ next_request(c)
    BY <1>4, <2>1, <2>3 DEF no_request, next_request, At
  <2> QED
    BY <2>2, <2>3
<1>6. \A t \in Thread : Runs(c, t) => Runs(c, t)'
  BY <1>2, <1>3 DEF Runs
<1> HIDE DEF p
<1> QED
  BY <1>1, <1>2, <1>4, <1>5, <1>6, WhileQueued

\* schedule() takes the previous task off, or lets it run on: it does not doze any more,
\* and no other task does on this CPU.
LEMMA LeavesAsleep ==
    ASSUME TaskInv, SleepInv, NEW c \in Cpu, leave_running(c) \/ leave_sleeping(c)
    PROVE  SleepInv'
<1> DEFINE prev == curr[c]
<1>1. Step(c) /\ op[c] = "leave"
  BY DEF Step, Locked, Switch, leave_running, leave_sleeping, At
<1>2. Values
  BY DEF TaskInv
<1>3. \A t \in Thread : Dozes(t)' => Dozes(t) /\ t # prev
  <2>1. CASE leave_running(c)
    BY <1>2, <2>1 DEF leave_running, Dozes
  <2>2. CASE leave_sleeping(c)
    BY <1>2, <2>2 DEF leave_sleeping, Dozes, Values
  <2> QED
    BY <2>1, <2>2
<1>4. DozesAwake'
  BY <1>1, <1>3, DozesFrame DEF SleepInv, TaskInv, LockInv, Runs
<1>5. Deep'
  <2>1. \A t \in Thread : at'[t] = "down" => at[t] = "down"
    BY <1>2 DEF leave_running, leave_sleeping, Resumed, Values
  <2>2. \A t \in Thread : state'[t] = "UNINTERRUPTIBLE" => state[t] = "UNINTERRUPTIBLE"
    BY <1>2 DEF leave_running, leave_sleeping, Values
  <2> QED
    BY <2>1, <2>2 DEF SleepInv, Deep
<1>6. prev # Idle => prev \in Thread /\ on[prev] # NONE
  BY <1>1, ExecutingIsQueued DEF Scheduling
<1>7. CASE leave_running(c)
  <2>1. prev # Idle => state[prev] # "UNINTERRUPTIBLE"
    BY <1>7 DEF leave_running
  <2>2. /\ UNCHANGED <<nr_uninterruptible, on>>
        /\ \A t \in Thread : state'[t] = IF t = prev THEN "RUNNING" ELSE state[t]
    BY <1>7 DEF leave_running
  <2>3. \A t \in Thread : Sleeper(t)' <=> Sleeper(t)
    BY <1>6, <2>1, <2>2, NobodyIsIdle DEF Sleeper
  <2>4. Exact'
    BY <2>2, <2>3, SameSleepers DEF SleepInv
  <2> QED
    BY <1>4, <1>5, <2>4 DEF SleepInv
<1>8. CASE leave_sleeping(c)
  <2>1. /\ prev # Idle /\ nr_uninterruptible' = Uninterruptible(c, prev, 1)
        /\ on' = [on EXCEPT ![prev] = NONE] /\ state' = state
    BY <1>8 DEF leave_sleeping
  <2>2. \A t \in Thread : on'[t] = IF t = prev THEN NONE ELSE on[t]
    BY <1>2, <1>6, <2>1 DEF Values
  <2>3. CASE state[prev] = "UNINTERRUPTIBLE"
    <3>1. prev \notin Asleep /\ Asleep' = Asleep \cup {prev}
      BY <1>6, <2>1, <2>2, <2>3 DEF Asleep, Sleeper
    <3>2. nr_uninterruptible' = [nr_uninterruptible EXCEPT ![c] = (@ + 1) % WORD]
      BY <2>1, <2>3 DEF Uninterruptible
    <3>3. prev \in Thread /\ 1 \in {1, -1} /\ 1 # -1
      BY <1>6, <2>1
    <3>4. Exact
      BY DEF SleepInv
    <3> HIDE DEF prev
    <3>5. Exact'
      BY <1>2, <3>1, <3>2, <3>3, <3>4, OneSleepsOrWakes
    <3> QED
      BY <1>4, <1>5, <3>5 DEF SleepInv
  <2>4. CASE state[prev] # "UNINTERRUPTIBLE"
    <3>1. nr_uninterruptible' = nr_uninterruptible
      BY <2>1, <2>4 DEF Uninterruptible
    <3>2. \A t \in Thread : Sleeper(t)' <=> Sleeper(t)
      BY <2>1, <2>2, <2>4 DEF Sleeper
    <3>3. Exact'
      BY <3>1, <3>2, SameSleepers DEF SleepInv
    <3> QED
      BY <1>4, <1>5, <3>3 DEF SleepInv
  <2> QED
    BY <2>3, <2>4
<1> QED
  BY <1>7, <1>8

\* Whoever is woken was asleep: one sleeper less.
LEMMA WakesAsleep ==
    ASSUME TaskInv, SleepInv, NEW c \in Cpu, try_to_wake_up(c)
    PROVE  SleepInv'
<1> DEFINE p == arg[c].p
           r == cpu[p]
<1>1. Step(c) /\ op[c] = "wake"
  BY DEF Step, Locked, Wake, try_to_wake_up, At
<1>2. Values /\ Typed
  BY DEF TaskInv, LockInv
<1>3. p \in Thread /\ r \in Cpu
  <2>1. p \in Thread
    BY <1>1 DEF TaskInv, LockInv, OnCpu, Locals
  <2> QED
    BY <1>2, <2>1 DEF Typed
<1>4. /\ on[p] = NONE /\ nr_uninterruptible' = Uninterruptible(r, p, -1)
      /\ on' = [on EXCEPT ![p] = r] /\ state' = [state EXCEPT ![p] = "RUNNING"]
      /\ UNCHANGED <<curr, at>> /\ Goto(c, "run", NoArg)
  BY DEF try_to_wake_up, Return
<1>5. \A t \in Thread : /\ on'[t] = (IF t = p THEN r ELSE on[t])
                        /\ state'[t] = (IF t = p THEN "RUNNING" ELSE state[t])
  BY <1>2, <1>3, <1>4 DEF Values
<1>6. op'[c] = "run"
  BY <1>2, <1>4, Gone DEF Op
<1> HIDE DEF r
<1>7. Deep'
  BY <1>4, <1>5 DEF SleepInv, Deep
<1>8. DozesAwake'
  <2>1. \A t \in Thread : Runs(c, t) => Runs(c, t)'
    BY <1>4, <1>6 DEF Runs, Scheduling
  <2>2. \A t \in Thread : Dozes(t)' => Dozes(t)
    BY <1>5 DEF Dozes
  <2> QED
    BY <1>1, <1>2, <2>1, <2>2, DozesFrame DEF SleepInv
<1>9. CASE state[p] = "UNINTERRUPTIBLE"
  <2>1. p \in Asleep /\ Asleep' = Asleep \ {p}
    BY <1>3, <1>4, <1>5, <1>9, CpuNumbers DEF Asleep, Sleeper
  <2>2. nr_uninterruptible' = [nr_uninterruptible EXCEPT ![r] = (@ + (-1)) % WORD]
    BY <1>4, <1>9 DEF Uninterruptible
  <2>3. -1 \in {1, -1} /\ -1 # 1 /\ Exact
    BY DEF SleepInv
  <2> HIDE DEF p
  <2>4. Exact'
    BY <1>2, <1>3, <2>1, <2>2, <2>3, OneSleepsOrWakes
  <2> QED
    BY <1>7, <1>8, <2>4 DEF SleepInv
<1>10. CASE state[p] # "UNINTERRUPTIBLE"
  <2>1. nr_uninterruptible' = nr_uninterruptible
    BY <1>4, <1>10 DEF Uninterruptible
  <2>2. \A t \in Thread : Sleeper(t)' <=> Sleeper(t)
    BY <1>3, <1>5, <1>10, CpuNumbers DEF Sleeper
  <2>3. Exact'
    BY <2>1, <2>2, SameSleepers DEF SleepInv
  <2> QED
    BY <1>7, <1>8, <2>3 DEF SleepInv
<1> QED
  BY <1>9, <1>10

\* A task that is moved does not doze: it would be the one that executes on this CPU,
\* but that is the migration thread.
LEMMA MovesNoSleeper ==
    ASSUME TaskInv, SleepInv, NEW c \in Cpu, migrate(c)
    PROVE  SleepInv'
<1> DEFINE p == arg[c].p
<1>1. Step(c) /\ op[c] = "move"
  BY DEF Step, Locked, Migration, migrate, At
<1>2. p \in Task /\ p \in Thread /\ curr[c] = migration_thread(c) /\ arg[c].dest \in Cpu
  BY <1>1, CallAssumption, NobodyIsIdle DEF TaskInv, LockInv, OnCpu, Locals, Serving
<1>3. curr[c] # p
  BY <1>2, ThreadAssumption DEF Migrators
<1>4. cpu[p] = c => ~Dozes(p)
  <2> SUFFICES ASSUME cpu[p] = c, Dozes(p) PROVE FALSE
    OBVIOUS
  <2>1. PICK d \in Cpu : Runs(d, p)
    BY <1>2 DEF SleepInv, DozesAwake
  <2>2. cpu[p] = d
    BY <1>2, <2>1, NobodyIsIdle DEF TaskInv, Executing, Runs
  <2> QED
    BY <1>3, <2>1, <2>2 DEF Runs
<1>5. nr_uninterruptible' = nr_uninterruptible
  <2>1. CASE cpu[p] = c /\ on[p] # NONE
    <3>1. nr_uninterruptible' = Uninterruptible(c, p, 1)
      BY <2>1 DEF migrate
    <3>2. state[p] # "UNINTERRUPTIBLE"
      BY <1>4, <2>1 DEF Dozes
    <3> QED
      BY <3>1, <3>2 DEF Uninterruptible
  <2>2. CASE ~(cpu[p] = c /\ on[p] # NONE)
    BY <2>2 DEF migrate
  <2> QED
    BY <2>1, <2>2
<1>6. \A t \in Thread : (on'[t] = NONE) <=> (on[t] = NONE)
  <2>1. CASE cpu[p] = c /\ on[p] # NONE
    <3>1. on' = [on EXCEPT ![p] = arg[c].dest]
      BY <2>1 DEF migrate, MovedLists
    <3> QED
      BY <1>2, <2>1, <3>1, CpuNumbers DEF TaskInv, Values
  <2>2. CASE ~(cpu[p] = c /\ on[p] # NONE)
    BY <2>2 DEF migrate, MovedLists
  <2> QED
    BY <2>1, <2>2
<1>7. state' = state /\ curr' = curr /\ \A t \in Thread : at'[t] = "down" => at[t] = "down"
  <2>1. at \in [Thread -> Stations]
    BY DEF TaskInv, Values
  <2>2. state' = state /\ curr' = curr /\ at' = [at EXCEPT ![arg[c].caller] = "upped"]
    BY DEF migrate
  <2> QED
    BY <2>1, <2>2
<1>8. op'[c] = "wake"
  BY Gone DEF migrate, Op, TaskInv, LockInv
<1>9. \A t \in Thread : Runs(c, t) => Runs(c, t)'
  BY <1>7, <1>8 DEF Runs, Scheduling
<1> QED
  BY <1>1, <1>5, <1>6, <1>7, <1>9, Undisturbed

\* Whoever is in setscheduler is not about to sleep: that is its own doing.
CallsAwake == \A c \in Cpu : op[c] = "policy" => state[curr[c]] # "UNINTERRUPTIBLE"

LEMMA AwakeInSetscheduler == TaskInv /\ CallsAwake /\ [Next]_vars => CallsAwake'
<1> SUFFICES ASSUME TaskInv, CallsAwake, [Next]_vars PROVE CallsAwake'
  OBVIOUS
<1>1. CASE UNCHANGED vars
  BY <1>1 DEF vars, steps, queues, fields, CallsAwake
<1>2. CASE Next
  <2>1. PICK c \in Cpu : Step(c)
    BY <1>2 DEF Next, Step
  <2>2. Values /\ Typed
    BY DEF TaskInv, LockInv
  <2>3. \A t \in Thread : \/ state'[t] = state[t] \/ state'[t] = "RUNNING"
                         \/ (t = curr[c] /\ op[c] # "policy")
    <3>1. CASE Executes(c) \/ Outside(c)
      <4>1. CASE down(c) \/ sleep(c)
        BY <2>2, <4>1 DEF down, sleep, Values
      <4>2. CASE ~down(c) /\ ~sleep(c)
        BY <3>1, <4>2 DEF Executes, schedule, migration_loop, Outside, scheduler_tick, wake_up,
                          set_cpus_allowed, setscheduler, fields
      <4> QED
        BY <4>1, <4>2
    <3>2. CASE spin_lock(c) \/ Switch(c) \/ Balance(c)
      BY <3>2 DEF spin_lock, Switch, leave_running, leave_sleeping, Balance, balance_none,
                  double_lock_balance, pull, pull_none, fields
    <3>3. CASE Wake(c)
      BY <2>2, <3>3 DEF Wake, wake_retry, wake_running, try_to_wake_up, fields, Values
    <3>4. CASE Affine(c) \/ Policy(c)
      BY <3>4 DEF Affine, lock_retry, affine_simple, affine_request, Policy, policy_refused,
                  change_policy, fields
    <3>5. CASE Migration(c)
      BY <2>2, <3>5 DEF Migration, no_request, next_request, read_dest, move_retry, migrate, At,
                        fields, Values
    <3> QED
      BY <2>1, <3>1, <3>2, <3>3, <3>4, <3>5 DEF Step, Locked
  <2>4. SUFFICES ASSUME NEW d \in Cpu, op'[d] = "policy"
                 PROVE  state'[curr'[d]] # "UNINTERRUPTIBLE"
    BY DEF CallsAwake
  <2>5. CASE d # c
    <3>1. op[d] = "policy" /\ curr'[d] = curr[d]
      BY <2>1, <2>2, <2>4, <2>5, OthersGoOn DEF Step
    <3>2. curr[d] \in Thread /\ curr[d] # Idle
      BY <3>1, CallAssumption, NobodyIsIdle DEF TaskInv, Serving
    <3>3. curr[d] # curr[c]
      BY <2>5, <3>2, TaskInvOneCpu DEF OneCpuEach
    <3>4. state[curr[d]] # "UNINTERRUPTIBLE"
      BY <3>1 DEF CallsAwake
    <3> QED
      BY <2>3, <3>1, <3>2, <3>3, <3>4
  <2>6. CASE d = c /\ setscheduler(c)
    BY <2>6 DEF setscheduler, queues, fields
  <2>7. CASE d = c /\ ~setscheduler(c)
    <3>1. UNCHANGED <<op, curr, state>>
      <4>1. spin_lock(c) \/ lock_retry(c) \/ down(c) \/ sleep(c) \/ wake_retry(c)
            \/ \E step \in Op \ {"policy"} : \E local : Goto(c, step, local)
        <5>1. CASE Executes(c) \/ Outside(c)
          <6>1. CASE Executes(c)
            BY <6>1 DEF Executes, schedule, migration_loop, Begin, Op
          <6>2. CASE Outside(c)
            BY <2>7, <6>2 DEF Outside, scheduler_tick, wake_up, set_cpus_allowed, Begin, Op
          <6> QED
            BY <5>1, <6>1, <6>2
        <5>2. CASE Switch(c) \/ Balance(c)
          BY <5>2 DEF Switch, leave_running, leave_sleeping, pick_next_task, switch_tasks, Return,
                      Balance, balance_none, double_lock_balance, pull, pull_none, Finish, Op
        <5>3. CASE Wake(c) \/ Affine(c) \/ Policy(c)
          BY <5>3 DEF Wake, wake_running, try_to_wake_up, Affine, affine_simple, affine_request,
                      Policy, policy_refused, change_policy, Return, Op
        <5>4. CASE Migration(c)
          BY <5>4 DEF Migration, no_request, next_request, read_dest, move_retry, migrate, Return,
                      Op
        <5> QED
          BY <2>1, <5>1, <5>2, <5>3, <5>4 DEF Step, Locked
      <4>2. ~\E step \in Op \ {"policy"} : \E local : Goto(c, step, local)
        BY <2>2, <2>4, <2>7, Gone
      <4>3. op' = op
        BY <4>1, <4>2 DEF spin_lock, lock_retry, down, sleep, wake_retry, Retry, steps
      <4>4. op[c] = "policy"
        BY <2>4, <2>7, <4>3
      <4> QED
        BY <4>1, <4>2, <4>3, <4>4 DEF spin_lock, lock_retry, down, sleep, wake_retry, At, queues,
                                      fields
    <3> QED
      BY <2>4, <2>7, <3>1 DEF CallsAwake
  <2> QED
    BY <2>5, <2>6, <2>7
<1> QED
  BY <1>1, <1>2

\* setscheduler is called by a task for itself, or for one that never sleeps
\* uninterruptibly.
SetsOnlyAwake == \A s \in PolicyCallers, t \in PolicyTargets : s = t \/ t \notin DeepSleepers

\* So the task that setscheduler finds queued does not doze, and deactivate_task does
\* not count it.
LEMMA PolicyCountsNone ==
    ASSUME SetsOnlyAwake, TaskInv, SleepInv, CallsAwake, NEW c \in Cpu, change_policy(c)
    PROVE  SleepInv'
<1> DEFINE p == arg[c].p
<1>1. Step(c) /\ op[c] = "policy" /\ Goto(c, "run", NoArg) /\ UNCHANGED <<curr, state, on, at>>
  BY DEF Step, Locked, Policy, change_policy, At, Return
<1>2. p \in PolicyTargets /\ p \in Thread /\ curr[c] \in PolicyCallers
  BY <1>1, CallAssumption, NobodyIsIdle DEF TaskInv, Serving
<1>3. ~Dozes(p)
  <2> SUFFICES ASSUME Dozes(p) PROVE FALSE
    OBVIOUS
  <2>1. state[p] = "UNINTERRUPTIBLE" /\ p \in DeepSleepers
    BY <1>2 DEF Dozes, SleepInv, Deep
  <2>2. curr[c] = p
    BY <1>2, <2>1 DEF SetsOnlyAwake
  <2> QED
    BY <1>1, <2>1, <2>2 DEF CallsAwake
<1>4. nr_uninterruptible' = nr_uninterruptible
  <2>1. CASE on[p] # NONE
    <3>1. nr_uninterruptible' = Uninterruptible(cpu[p], p, 1)
      BY <2>1 DEF change_policy
    <3>2. state[p] # "UNINTERRUPTIBLE"
      BY <1>3, <2>1 DEF Dozes
    <3> QED
      BY <3>1, <3>2 DEF Uninterruptible
  <2>2. CASE on[p] = NONE
    BY <2>2 DEF change_policy
  <2> QED
    BY <2>1, <2>2
<1>5. op'[c] = "run"
  BY <1>1, Gone DEF Op, TaskInv, LockInv
<1>6. \A t \in Thread : Runs(c, t) => Runs(c, t)'
  BY <1>1, <1>5 DEF Runs, Scheduling
<1> QED
  BY <1>1, <1>4, <1>6, Undisturbed

LEMMA SleepInit == Init => SleepInv
<1> SUFFICES ASSUME Init PROVE SleepInv
  OBVIOUS
<1>1. /\ nr_uninterruptible = [c \in Cpu |-> 0]
      /\ \A t \in Thread : state[t] # "UNINTERRUPTIBLE" /\ at[t] # "down"
  BY DEF Init
<1>2. Deep /\ DozesAwake /\ Asleep = {}
  BY <1>1 DEF Deep, DozesAwake, Dozes, Asleep, Sleeper
<1>3. Total[NR_CPUS - 1] = 0
  <2> DEFINE f == nr_uninterruptible
             T == TotalOf(f)
  <2>1. f \in [Cpu -> Int] /\ \A c \in Cpu : f[c] = 0
    BY <1>1
  <2>2. IsSum(T, f)
    BY <2>1, TotalIsSum
  <2>3. Total = T
    BY TotalIs
  <2> HIDE DEF T, f
  <2> DEFINE P == {c \in -1 .. NR_CPUS - 1 : T[c] = 0}
  <2>4. -1 \in P /\ \A c \in Cpu : c - 1 \in P => c \in P
    BY <2>1, <2>2, CpuSteps DEF IsSum
  <2>5. P = -1 .. NR_CPUS - 1
    BY <2>4, CpuByCpu
  <2>6. T[NR_CPUS - 1] = 0
    BY <2>5, CpuSteps
  <2> QED
    BY <2>3, <2>6
<1>4. Total[NR_CPUS - 1] = Cardinality(Asleep) + 0 * WORD
  BY <1>2, <1>3, Finite, FS_EmptySet
<1> QED
  BY <1>2, <1>4 DEF SleepInv, Exact

LEMMA SleepNext == SetsOnlyAwake /\ TaskInv /\ SleepInv /\ CallsAwake /\ [Next]_vars => SleepInv'
<1> SUFFICES ASSUME SetsOnlyAwake, TaskInv, SleepInv, CallsAwake, [Next]_vars PROVE SleepInv'
  OBVIOUS
<1>1. CASE UNCHANGED vars
  <2>1. UNCHANGED <<op, arg, curr, nr_uninterruptible, state, on, at>>
    BY <1>1 DEF vars, steps, queues, fields
  <2>2. Deep' /\ DozesAwake'
    BY <2>1 DEF SleepInv, Deep, DozesAwake, Dozes, Runs, Scheduling
  <2>3. \A t \in Thread : Sleeper(t)' <=> Sleeper(t)
    BY <2>1 DEF Sleeper
  <2> QED
    BY <2>1, <2>2, <2>3, SameSleepers DEF SleepInv
<1>2. CASE Next
  <2>1. PICK c \in Cpu : Locked(c) \/ Executes(c) \/ Outside(c)
    BY <1>2 DEF Next
  <2>2. CASE Executes(c) \/ Outside(c)
    BY <2>2, LocksOnly, BlocksAwake DEF Executes, Outside
  <2>3. CASE spin_lock(c) \/ Switch(c) \/ Balance(c)
    BY <2>3, LocksOnly, LeavesAsleep, BalanceKeepsSleepers DEF Switch, Balance
  <2>4. CASE Wake(c) \/ Affine(c)
    BY <2>4, LocksOnly, PlacesOnly, WakesQueued, WakesAsleep DEF Wake, Affine
  <2>5. CASE Migration(c)
    BY <2>5, LocksOnly, WakesQueued, MovesNoSleeper DEF Migration
  <2>6. CASE Policy(c)
    BY <2>6, LocksOnly, PolicyCountsNone DEF Policy
  <2> QED
    BY <2>1, <2>2, <2>3, <2>4, <2>5, <2>6 DEF Locked
<1> QED
  BY <1>1, <1>2

\* There are fewer sleepers than WORD, so that the remainder is their number.
LEMMA SumIsExact == SleepInv => UninterruptibleSum
<1> SUFFICES ASSUME SleepInv PROVE UninterruptibleSum
  OBVIOUS
<1>1. PICK k \in Int : Total[NR_CPUS - 1] = Cardinality(Asleep) + k * WORD
  BY DEF SleepInv, Exact
<1>2. Asleep \subseteq DeepSleepers
  BY DEF SleepInv, Deep, Asleep, Sleeper
<1>3. IsFiniteSet(DeepSleepers)
  <2>1. DeepSleepers \subseteq Task
    BY CallAssumption DEF DeepSleepers
  <2> QED
    BY <2>1, ThreadAssumption, FS_Subset
<1>4. Cardinality(Asleep) <= Cardinality(DeepSleepers)
  BY <1>2, <1>3, FS_Subset
<1>5. Cardinality(DeepSleepers) \in Nat /\ WORD > Cardinality(DeepSleepers) /\ WORD \in Nat
  BY <1>3, FS_CardinalityType, CallAssumption DEF DeepSleepers
<1>6. Cardinality(Asleep) \in 0 .. WORD - 1 /\ WORD # 0
  BY <1>4, <1>5, AsleepCounts
<1>7. (Cardinality(Asleep) + k * WORD) % WORD = Cardinality(Asleep)
  BY <1>5, <1>6, RemainderIs
<1> QED
  BY <1>1, <1>7 DEF UninterruptibleSum, Asleep

\* The sum of the counters modulo WORD is the number of tasks that sleep
\* uninterruptibly, although a task is counted on the run queue that it leaves and
\* discounted on the one it wakes up on: only a task that really sleeps is counted,
\* once, and a migration never moves one that schedule() is about to count.  This is
\* so if no task calls setscheduler for another that may be about to sleep
\* uninterruptibly: its deactivate_task would count that one (RunQueues_twice.cfg).
THEOREM SumStaysExact == ASSUME SetsOnlyAwake PROVE Spec => []UninterruptibleSum
<1>1. SetsOnlyAwake
  OBVIOUS
<1>2. TaskInv /\ SleepInv /\ CallsAwake /\ [Next]_vars => SleepInv'
  BY <1>1, SleepNext
<1>3. Init => CallsAwake
  BY DEF Init, CallsAwake
<1> QED
  BY <1>2, <1>3, AwakeInSetscheduler, SleepInit, TasksAlways, SumIsExact, PTL DEF Spec
=============================================================================
