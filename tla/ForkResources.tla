--------------------------- MODULE ForkResources ---------------------------
(***************************************************************************)
(* What do_fork acquires for a child, one copy after the other, and gives  *)
(* back when a later copy fails; what do_exit and daemonize give back; and *)
(* vfork, whose parent waits until its child has given back the mm.        *)
(*                                                                         *)
(* One CPU: curr executes, and as every copy and every release may block,  *)
(* any task that can run may be switched to between two of them.  A        *)
(* structure is known by a name that is used again when it is free.        *)
(***************************************************************************)
EXTENDS Integers, Sequences, FiniteSets

CONSTANTS
    Task,               \* the task structures there is memory for
    init_task, First,   \* the kernel thread and the process at first
    NULL,
    FlagSets,           \* with which flags clone is called; a kind: it is shared
    Fails,              \* the copies that may fail
    RLIMIT_NPROC, max_threads

ASSUME TaskAssumption ==
    /\ {init_task, First} \subseteq Task /\ init_task # First /\ NULL \notin Task
    /\ IsFiniteSet(Task)
ASSUME LimitAssumption ==
    RLIMIT_NPROC \in Nat /\ max_threads \in Nat

\* The structures that have one counter.
Kind == {"files", "fs", "sighand", "namespace"}

\* do_fork copies in this order, do_exit releases in the other.
Copies == <<"files", "fs", "sighand", "mm", "namespace", "thread">>
Releases == <<"mm", "files", "fs", "namespace", "sighand">>

VARIABLES
    at, stage,          \* where a task is, and in which copy or release
    child, flags,       \* the locals p and clone_flags of do_fork
    ref, count,         \* p->files, .. and the counters of those structures
    mm, active_mm, mm_users, mm_count,
    vfork_done, done,   \* whose local vfork a child completes; its done
    processes, nr_threads,
    curr

place == <<at, stage, child, flags>>
shares == <<ref, count>>
memory == <<mm, active_mm, mm_users, mm_count>>
vfork == <<vfork_done, done>>
limits == <<processes, nr_threads>>
vars == <<place, shares, memory, vfork, limits, curr>>

Init ==
    /\ at = [t \in Task |-> CASE t = init_task -> "idle" [] t = First -> "user"
                             [] OTHER -> "free"]
    /\ stage = [t \in Task |-> 0]
    /\ child = [t \in Task |-> NULL] /\ flags = [t \in Task |-> {}]
    /\ ref = [k \in Kind |-> [t \in Task |-> IF at[t] # "free" THEN t ELSE NULL]]
    /\ count = [k \in Kind |-> [o \in Task |-> IF at[o] # "free" THEN 1 ELSE 0]]
    /\ mm = [t \in Task |-> IF t = First THEN First ELSE NULL]
    /\ active_mm = mm
    /\ mm_users = [o \in Task |-> IF o = First THEN 1 ELSE 0]
    /\ mm_count = mm_users
    /\ vfork_done = [t \in Task |-> NULL] /\ done = [t \in Task |-> 0]
    /\ processes = 1 /\ nr_threads = 1
    /\ curr = First
-----------------------------------------------------------------------------
(* The counters                                                            *)

Free(k) == {o \in Task : count[k][o] = 0}

\* atomic_dec_and_test, and the structure is freed
Put(k, o) == [count EXCEPT ![k][o] = @ - 1]

\* __exit_files and its like leave a NULL pointer.
Release(k, t) ==
    /\ ref' = [ref EXCEPT ![k][t] = NULL]
    /\ count' = IF ref[k][t] = NULL THEN count ELSE Put(k, ref[k][t])

\* Which free structure the allocator returns makes no difference.
AnyOf(S) == CHOOSE o \in S : TRUE

\* Whoever calls it, mm_release is about the current process.
mm_release ==
    /\ vfork_done' = [vfork_done EXCEPT ![curr] = NULL]
    /\ done' = [t \in Task |-> done[t] + IF t = vfork_done[curr] THEN 1 ELSE 0]

\* Variant with a defect: active_mm is not counted.
LazyUncounted(o) == [mm_count EXCEPT ![o] = @ - IF mm_users[o] = 1 THEN 1 ELSE 0]

\* mm_count goes up for active_mm, which stays, and down when mmput meets the last user.
LazyCounted(o) == [mm_count EXCEPT ![o] = @ + IF mm_users[o] = 1 THEN 0 ELSE 1]

\* __exit_mm
exit_mm(t) ==
    /\ mm_release
    /\ IF mm[t] = NULL THEN UNCHANGED memory
       ELSE LET o == mm[t] IN
            /\ mm' = [mm EXCEPT ![t] = NULL]
            /\ mm_users' = [mm_users EXCEPT ![o] = @ - 1]
            /\ mm_count' = LazyCounted(o)
            /\ UNCHANGED active_mm

Runs(t) == at[t] \notin {"free", "new", "zombie"} /\ (at[t] = "vfork" => done[t] > 0)

\* A task without mm borrows the one that is loaded, and drops it when it is
\* switched away from.
context_switch(next) ==
    /\ next # curr /\ Runs(next)
    /\ LET oldmm == active_mm[curr]
           borrows == mm[next] = NULL /\ oldmm # NULL
           drops == mm[curr] = NULL /\ oldmm # NULL
       IN  /\ active_mm' = [t \in Task |->
                  IF t = next /\ mm[next] = NULL THEN oldmm
                  ELSE IF t = curr /\ mm[curr] = NULL THEN NULL
                  ELSE active_mm[t]]
           /\ mm_count' = [o \in Task |->
                  mm_count[o] + (IF borrows /\ o = oldmm THEN 1 ELSE 0)
                              - (IF drops /\ o = oldmm THEN 1 ELSE 0)]
    /\ curr' = next
    /\ UNCHANGED <<place, shares, mm, mm_users, vfork, limits>>
-----------------------------------------------------------------------------
(* do_fork                                                                 *)

\* Variant with a defect: the pointer copied from the parent stays.
KeepsVforkDone(t, p, f) ==
    [vfork_done EXCEPT ![p] = IF "VFORK" \in f THEN t ELSE vfork_done[t]]

NewVforkDone(t, p, f) == [vfork_done EXCEPT ![p] = IF "VFORK" \in f THEN t ELSE NULL]

\* *p = *current; the limits; the completion on the parent's stack.
do_fork(t) ==
    /\ t = curr /\ at[t] = "user"
    /\ processes < RLIMIT_NPROC /\ nr_threads < max_threads
    /\ \E u \in Task : at[u] = "free"
    /\ \E f \in FlagSets :
        LET p == AnyOf({u \in Task : at[u] = "free"}) IN
        /\ at' = [at EXCEPT ![t] = "fork", ![p] = "new"]
        /\ stage' = [stage EXCEPT ![t] = 1]
        /\ child' = [child EXCEPT ![t] = p] /\ flags' = [flags EXCEPT ![t] = f]
        /\ ref' = [k \in Kind |-> [ref[k] EXCEPT ![p] = ref[k][t]]]
        /\ mm' = [mm EXCEPT ![p] = mm[t]]
        /\ active_mm' = [active_mm EXCEPT ![p] = active_mm[t]]
        /\ vfork_done' = NewVforkDone(t, p, f)
        /\ done' = [done EXCEPT ![t] = 0]
    /\ processes' = processes + 1
    /\ UNCHANGED <<count, mm_users, mm_count, nr_threads, curr>>

Goes(t, step, n) == at' = [at EXCEPT ![t] = step] /\ stage' = [stage EXCEPT ![t] = n]

InCopy(t, k) ==
    t = curr /\ at[t] = "fork" /\ stage[t] <= Len(Copies) /\ Copies[stage[t]] = k

Copied(t) ==
    Goes(t, "fork", stage[t] + 1) /\ UNCHANGED <<child, flags, vfork, limits, curr>>

\* copy_files, copy_fs, copy_sighand, copy_namespace
copy(t) ==
    \E k \in Kind :
        /\ InCopy(t, k)
        /\ LET o == IF k \in flags[t] THEN ref[k][t] ELSE AnyOf(Free(k)) IN
            /\ ref' = [ref EXCEPT ![k][child[t]] = o]
            /\ count' = [count EXCEPT ![k][o] = @ + 1]
        /\ UNCHANGED memory
        /\ Copied(t)

\* A kernel thread's child has no mm either, until it is switched to.
copy_mm(t) ==
    /\ InCopy(t, "mm")
    /\ LET o == IF mm[t] = NULL \/ "VM" \in flags[t] THEN mm[t]
                ELSE AnyOf({u \in Task : mm_count[u] = 0})
       IN  /\ mm' = [mm EXCEPT ![child[t]] = o]
           /\ active_mm' = [active_mm EXCEPT ![child[t]] = o]
           /\ mm_users' = [u \in Task |-> mm_users[u] + IF u = o THEN 1 ELSE 0]
           /\ mm_count' = [u \in Task |-> IF u = o /\ o # mm[t] THEN 1 ELSE mm_count[u]]
    /\ UNCHANGED shares
    /\ Copied(t)

\* copy_thread keeps nothing that has to be given back.
copy_thread(t) == InCopy(t, "thread") /\ UNCHANGED <<shares, memory>> /\ Copied(t)

MayFail(t, k) ==
    k \in Fails /\ k \notin flags[t] /\ (k = "mm" => mm[t] # NULL /\ "VM" \notin flags[t])

\* No memory, or no privilege: the pointer is reset; what was copied before is undone.
fails(t) ==
    /\ \E k \in Fails :
        /\ InCopy(t, k) /\ MayFail(t, k)
        /\ ref' = IF k \in Kind THEN [ref EXCEPT ![k][child[t]] = NULL] ELSE ref
    /\ mm' = IF Copies[stage[t]] = "mm" THEN [mm EXCEPT ![child[t]] = NULL] ELSE mm
    /\ active_mm' = IF Copies[stage[t]] = "mm" THEN [active_mm EXCEPT ![child[t]] = NULL]
                    ELSE active_mm
    /\ Goes(t, "unwind", stage[t] - 1)
    /\ UNCHANGED <<child, flags, count, mm_users, mm_count, vfork, limits, curr>>

\* Variant with a defect: the jump goes to the label of the copy that failed.
UndoneFirst(t) == stage[t] + 1

\* bad_fork_cleanup_*: one label falls through to the next.
Undone(t) == stage[t]

cleanup(t) ==
    /\ t = curr /\ at[t] = "unwind" /\ stage[t] > 0
    /\ LET k == Copies[Undone(t)] IN
        IF k \in Kind
        THEN Release(k, child[t]) /\ UNCHANGED <<memory, vfork>>
        ELSE exit_mm(child[t]) /\ UNCHANGED shares
    /\ Goes(t, "unwind", stage[t] - 1)
    /\ UNCHANGED <<child, flags, limits, curr>>

\* Nothing of a free task structure is looked at: its fields are given one value.
Reset(f, p) == [f EXCEPT ![p] = NULL]

FreeTask(p) ==
    /\ ref' = [k \in Kind |-> Reset(ref[k], p)]
    /\ mm' = Reset(mm, p) /\ active_mm' = Reset(active_mm, p)

\* Variant with a defect: bad_fork_free instead of bad_fork_cleanup_count.
FailedUncounted(n) == n

FailedCounted(n) == n - 1

\* bad_fork_cleanup and the labels after it
fork_fails(t) ==
    /\ t = curr /\ at[t] = "unwind" /\ stage[t] = 0
    /\ at' = [at EXCEPT ![t] = "user", ![child[t]] = "free"]
    /\ FreeTask(child[t]) /\ vfork_done' = Reset(vfork_done, child[t])
    /\ child' = Reset(child, t) /\ flags' = [flags EXCEPT ![t] = {}]
    /\ processes' = FailedCounted(processes)
    /\ UNCHANGED <<stage, count, mm_users, mm_count, done, nr_threads, curr>>

\* SET_LINKS .. wake_up_forked_process, and wait_for_completion(&vfork)
fork_done(t) ==
    /\ t = curr /\ at[t] = "fork" /\ stage[t] > Len(Copies)
    /\ nr_threads' = nr_threads + 1
    /\ at' = [at EXCEPT ![t] = IF "VFORK" \in flags[t] THEN "vfork" ELSE "user",
                       ![child[t]] = "user"]
    /\ stage' = [stage EXCEPT ![t] = 0]
    /\ child' = IF "VFORK" \in flags[t] THEN child ELSE Reset(child, t)
    /\ flags' = [flags EXCEPT ![t] = {}]
    /\ UNCHANGED <<shares, memory, vfork, processes, curr>>

vfork_returns(t) ==
    /\ t = curr /\ at[t] = "vfork" /\ done[t] > 0
    /\ done' = [done EXCEPT ![t] = @ - 1]
    /\ at' = [at EXCEPT ![t] = "user"] /\ child' = Reset(child, t)
    /\ UNCHANGED <<stage, flags, shares, memory, vfork_done, limits, curr>>
-----------------------------------------------------------------------------
(* The end of a process, and of its user space                             *)

do_exit(t) ==
    /\ t = curr /\ at[t] = "user" /\ t # First
    /\ Goes(t, "exit", 1)
    /\ UNCHANGED <<child, flags, shares, memory, vfork, limits, curr>>

\* __exit_mm, __exit_files, __exit_fs, exit_namespace, exit_sighand
releases(t) ==
    /\ t = curr /\ at[t] = "exit" /\ stage[t] <= Len(Releases)
    /\ LET k == Releases[stage[t]] IN
        IF k = "mm" THEN exit_mm(t) /\ UNCHANGED shares
        ELSE Release(k, t) /\ UNCHANGED <<memory, vfork>>
    /\ Goes(t, "exit", stage[t] + 1)
    /\ UNCHANGED <<child, flags, limits, curr>>

\* exit_notify, and the last schedule() of t
exit_notify(t) ==
    /\ t = curr /\ at[t] = "exit" /\ stage[t] > Len(Releases)
    /\ Goes(t, "zombie", 0)
    /\ UNCHANGED <<child, flags, shares, memory, vfork, limits, curr>>

\* Its parent collects it, which cannot be in vfork, and not while it is on the CPU.
release_task(t) ==
    /\ at[t] = "zombie" /\ t # curr /\ at[curr] = "user"
    /\ \A u \in Task : at[u] = "vfork" => child[u] # t
    /\ at' = [at EXCEPT ![t] = "free"]
    /\ FreeTask(t)
    /\ processes' = processes - 1 /\ nr_threads' = nr_threads - 1
    /\ UNCHANGED <<stage, child, flags, count, mm_users, mm_count, vfork, curr>>

\* A process becomes a kernel thread: exit_mm, ..
daemonize(t) ==
    /\ t = curr /\ at[t] = "user" /\ t # First /\ mm[t] # NULL
    /\ exit_mm(t)
    /\ Goes(t, "daemonize", 1)
    /\ UNCHANGED <<child, flags, shares, limits, curr>>

\* Variant with a defect: init_task's structure is used without being counted.
BecomesUncounted(k, t) ==
    [count EXCEPT ![k] = [o \in Task |-> count[k][o] - IF o = ref[k][t] THEN 1 ELSE 0]]

Becomes(k, t) ==
    [count EXCEPT ![k] = [o \in Task |-> count[k][o] - (IF o = ref[k][t] THEN 1 ELSE 0)
                                         + (IF o = ref[k][init_task] THEN 1 ELSE 0)]]

\* .. and then exit_fs and exit_files, each followed by init_task's.
as_init_task(t) ==
    /\ t = curr /\ at[t] = "daemonize"
    /\ LET k == IF stage[t] = 1 THEN "fs" ELSE "files" IN
        /\ ref' = [ref EXCEPT ![k][t] = ref[k][init_task]]
        /\ count' = Becomes(k, t)
    /\ IF stage[t] = 1 THEN Goes(t, "daemonize", 2) ELSE Goes(t, "user", 0)
    /\ UNCHANGED <<child, flags, memory, vfork, limits, curr>>

Step(t) ==
    \/ do_fork(t) \/ copy(t) \/ copy_mm(t) \/ copy_thread(t) \/ fails(t)
    \/ cleanup(t) \/ fork_fails(t) \/ fork_done(t) \/ vfork_returns(t)
    \/ do_exit(t) \/ releases(t) \/ exit_notify(t) \/ release_task(t)
    \/ daemonize(t) \/ as_init_task(t) \/ context_switch(t)

Next == \E t \in Task : Step(t)

Spec == Init /\ [][Next]_vars
-----------------------------------------------------------------------------
Places == {"idle", "user", "fork", "unwind", "vfork", "exit", "daemonize", "zombie",
           "new", "free"}

\* Every field has its type, and no counter is ever negative: nothing is put twice.
TypeOK ==
    /\ at \in [Task -> Places] /\ stage \in [Task -> 0 .. Len(Copies) + 1]
    /\ child \in [Task -> Task \cup {NULL}] /\ flags \in [Task -> {{}} \cup FlagSets]
    /\ ref \in [Kind -> [Task -> Task \cup {NULL}]] /\ count \in [Kind -> [Task -> Nat]]
    /\ mm \in [Task -> Task \cup {NULL}] /\ active_mm \in [Task -> Task \cup {NULL}]
    /\ mm_users \in [Task -> Nat] /\ mm_count \in [Task -> Nat]
    /\ vfork_done \in [Task -> Task \cup {NULL}] /\ done \in [Task -> Nat]
    /\ processes \in Nat /\ nr_threads \in Nat /\ curr \in Task

\* t forks p: is the pointer that p has for k its own already, and still?
Copying(p) == {t \in Task : child[t] = p /\ at[t] \in {"fork", "unwind"}}

Owns(p, k) ==
    at[p] = "new" => \A t \in Copying(p) : \E i \in 1 .. Len(Copies) :
        Copies[i] = k /\ (IF at[t] = "fork" THEN i < stage[t] ELSE i <= stage[t])

Holders(k, o) == {t \in Task : at[t] # "free" /\ ref[k][t] = o /\ Owns(t, k)}

\* Each of the counters of files, fs, signal handlers and namespaces is the number of
\* processes that use the structure: it is neither freed under a user nor kept for
\* nobody, wherever a fork failed and whoever exits meanwhile.
SharesExact == \A k \in Kind, o \in Task : count[k][o] = Cardinality(Holders(k, o))

Users(o) == {t \in Task : at[t] # "free" /\ mm[t] = o /\ Owns(t, "mm")}

Borrowers(o) ==
    {t \in Task : at[t] # "free" /\ mm[t] = NULL /\ active_mm[t] = o /\ Owns(t, "mm")}

\* mm_users counts the processes in an address space and mm_count all of these as one
\* and every task that has borrowed it; the loaded one is never freed.
MmCountsExact ==
    /\ \A o \in Task :
        /\ mm_users[o] = Cardinality(Users(o))
        /\ mm_count[o] = Cardinality(Borrowers(o)) + IF mm_users[o] > 0 THEN 1 ELSE 0
    /\ active_mm[curr] # NULL /\ (mm[curr] # NULL => active_mm[curr] = mm[curr])

\* user->processes is the number of the user's processes, zombies and half-made
\* children included: a fork that fails is not counted for ever.
ProcessesExact ==
    processes = Cardinality({t \in Task : at[t] \notin {"free", "idle"}})

\* A child completes the vfork of a do_fork that has not returned: the completion is a
\* local of that call, and its stack frame is still there.
VforkFrameLives ==
    \A p, t \in Task : vfork_done[p] = t =>
        at[t] \in {"fork", "unwind", "vfork"} /\ child[t] = p

\* The parent of a vfork is not let go while its child still runs in the parent's
\* address space.
VforkHolds ==
    \A t \in Task : at[t] = "vfork" /\ done[t] > 0 /\ mm[t] # NULL =>
        mm[child[t]] # mm[t]

\* do_fork tests nr_threads and counts up much later.
ThreadLimit == nr_threads <= max_threads
=============================================================================
