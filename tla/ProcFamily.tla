---------------------------- MODULE ProcFamily ----------------------------
(***************************************************************************)
(* Process families of the HW1 kernel: do_fork, exit_notify and sys_wait4, *)
(* which keep the tree of processes, and the three system calls of         *)
(* pattach.c, which rearrange and read it while the others run.            *)
(*                                                                         *)
(* A process gives up the CPU only where the code sleeps, so most handlers *)
(* are one step.  at[p] says where p is between two steps:                 *)
(*    user      in user mode, or anywhere else outside these functions     *)
(*    asleep    in sys_wait4, asleep;  woken: about to repeat the search   *)
(*    reap      in sys_wait4, zombie arg[p] found, copying to user memory  *)
(*    collect   in sys_get_child_processes, in kmalloc; it counted size[p] *)
(*    attach    in sys_attach_proc, arg[p] has passed the checks           *)
(*    orphan    in exit_notify, between forget_original_parent and the     *)
(*              write lock;  mourn: in the loop over its children          *)
(*    dead      a zombie                                                   *)
(*    free      no process                                                 *)
(* The processes at attach, orphan or mourn hold a CPU: NCpu of them at    *)
(* most, and with one CPU nothing else happens meanwhile.                  *)
(*                                                                         *)
(* Thread groups, clone children, stopped children and process groups are  *)
(* left out: every child reports with SIGCHLD, all are in one group.       *)
(***************************************************************************)
EXTENDS FamilyLinks

CONSTANTS
    Init1,          \* the process with pid 1, child_reaper
    NCpu,           \* number of CPUs
    Euids,          \* effective user ids; 0 is root
    Tracing,        \* may processes ptrace each other?
    GroupWaits,     \* do processes wait for their process group (pid 0)?
    KernelThreads,  \* processes that may call reparent_to_init
    Attachers,      \* processes that call sys_attach_proc
    Lengths         \* values of max_length tried with get_child_processes

ASSUME FamilyAssumption ==
    /\ Init1 \in Task
    /\ NCpu \in Nat \ {0}
    /\ Euids \subseteq Nat /\ 0 \in Euids
    /\ Tracing \in BOOLEAN /\ GroupWaits \in BOOLEAN
    /\ KernelThreads \subseteq Task \ {Init1} /\ Attachers \subseteq Task
    /\ Lengths \subseteq Nat

ANY == "ANY"        \* the pid -1 of wait()
GROUP == "GROUP"    \* the pid 0 of waitpid
ASSUME WaitAssumption == {ANY, GROUP} \cap Task = {}

VARIABLES
    kin,            \* the pointers of the task_structs
    at, arg, size,
    request,        \* the pid argument of sys_wait4
    wait_busy,
    euid

vars == <<kin, at, arg, size, request, wait_busy, euid>>
waiting == <<request, wait_busy>>

Places == {"free", "user", "asleep", "woken", "reap", "collect", "attach",
           "orphan", "mourn", "dead"}

\* On the list of all tasks, from SET_LINKS in do_fork to unhash_process.
Linked(p) == at[p] # "free"
Zombie(p) == at[p] \in {"mourn", "dead"}

NoKin == [q \in Task |-> NULL]

Init ==
    /\ kin = [p_opptr |-> NoKin, p_pptr |-> NoKin, p_cptr |-> NoKin,
              p_ysptr |-> NoKin, p_osptr |-> NoKin]
    /\ at = [q \in Task |-> IF q = Init1 THEN "user" ELSE "free"]
    /\ arg = NoKin /\ size = [q \in Task |-> 0]
    /\ request = NoKin /\ wait_busy = NoKin
    /\ euid = [q \in Task |-> 0]
-----------------------------------------------------------------------------
\* Somebody executes in the kernel without sleeping; with NCpu of them no other
\* process makes a step.  "mourn" is inside write_lock_irq(&tasklist_lock).
OnCpu == {p \in Task : at[p] \in {"attach", "orphan", "mourn"}}
CpuFree == Cardinality(OnCpu) < NCpu
tasklist_lock == \A p \in Task : at[p] # "mourn"

\* Everything that takes a CPU and the lock for one step.
Runs(p, place) == at[p] = place /\ CpuFree /\ tasklist_lock

\* Variant with a defect: nobody is told.
NotNotified(a, parent) == a

\* do_notify_parent's wake-up of whoever sleeps on parent->wait_chldexit.
Notified(a, parent) ==
    IF a[parent] = "asleep" THEN [a EXCEPT ![parent] = "woken"] ELSE a
-----------------------------------------------------------------------------
(* do_fork                                                                 *)

\* do_fork: c is linked as a child of p or, with CLONE_PARENT, of p's parent.
\* Without CLONE_PARENT a traced child keeps p's tracer only if CLONE_PTRACE
\* asked for it, which is left out.
ForkParents(p, clone_parent) ==
    IF clone_parent THEN <<kin.p_opptr[p], kin.p_pptr[p]>> ELSE <<p, p>>

do_fork(p, c, clone_parent) ==
    /\ Runs(p, "user") /\ at[c] = "free"
    /\ clone_parent => p # Init1
    /\ LET parents == ForkParents(p, clone_parent)
       IN  kin' = Given(SetCptr(kin, c, NULL), c, parents[1], parents[2])
    /\ at' = [at EXCEPT ![c] = "user"]
    /\ wait_busy' = [wait_busy EXCEPT ![c] = NULL]
    /\ euid' = [euid EXCEPT ![c] = euid[p]]
    /\ UNCHANGED <<arg, size, request>>
-----------------------------------------------------------------------------
(* exit                                                                    *)

\* Variant with a defect: the children still name their father.
ForgottenNot(k, father) == k

\* forget_original_parent
Forgotten(k, father) ==
    [k EXCEPT !.p_opptr = [q \in DOMAIN @ |-> IF @[q] = father THEN Init1 ELSE @[q]]]

forget_original_parent(p) ==
    /\ Runs(p, "user") /\ p # Init1
    /\ kin' = Forgotten(kin, p)
    /\ at' = [at EXCEPT ![p] = "orphan"]
    /\ UNCHANGED <<arg, size, waiting, euid>>

\* exit_notify takes the lock and tells the parent.
exit_notify(p) ==
    /\ at[p] = "orphan" /\ tasklist_lock
    /\ at' = Notified([at EXCEPT ![p] = "mourn"], kin.p_pptr[p])
    /\ UNCHANGED <<kin, arg, size, waiting, euid>>

\* Variant with a defect: the pointer to the next child is read too late.
InheritedLate(k, p, c) ==
    LET given == Given(k, c, k.p_opptr[c], k.p_opptr[c])
    IN  SetCptr(given, p, given.p_osptr[c])

\* exit_notify's loop gives the youngest child c back to its original parent;
\* the sibling that is now the youngest keeps a stale p_ysptr until its turn.
Inherited(k, p, c) ==
    Given(SetCptr(k, p, k.p_osptr[c]), c, k.p_opptr[c], k.p_opptr[c])

\* Variant with a defect: it tells nobody.
MournedSilently(a, c, parent) == a

\* What the loop tells the parent of a child that is a zombie already.
Mourned(a, c, parent) == IF Zombie(c) THEN Notified(a, parent) ELSE a

inherit_child(p) ==
    LET c == kin.p_cptr[p] IN
    /\ at[p] = "mourn" /\ c # NULL
    /\ kin' = Inherited(kin, p, c)
    /\ at' = Mourned(at, c, kin.p_opptr[c])
    /\ UNCHANGED <<arg, size, waiting, euid>>

\* The loop ends, the lock is dropped, schedule() never returns.
exit_done(p) ==
    /\ at[p] = "mourn" /\ kin.p_cptr[p] = NULL
    /\ at' = [at EXCEPT ![p] = "dead"]
    /\ UNCHANGED <<kin, arg, size, waiting, euid>>
-----------------------------------------------------------------------------
(* sys_wait4                                                               *)

\* What wait_busy holds while p waits for r: the pid argument, and the pid 0 of
\* a wait for the process group is the value that means "not waiting".
Busy(r) == IF r = GROUP THEN NULL ELSE r

\* The children that a wait for r considers.
Eligible(p, r) ==
    {c \in Task : Linked(c) /\ kin.p_pptr[c] = p /\ (r \in Task => c = r)}

\* c is the first zombie child that the loop over the list finds.
FirstZombie(p, r, c) ==
    LET list == ChildList(kin, p)
        Found(d) == d \in Eligible(p, r) /\ Zombie(d)
    IN  Found(c) /\ \E i \in DOMAIN list :
            list[i] = c /\ \A j \in 1 .. i - 1 : ~Found(list[j])

KeepWaiting(p, r) ==
    /\ wait_busy' = [wait_busy EXCEPT ![p] = Busy(r)]
    /\ request' = [request EXCEPT ![p] = r]

EndWait(p) ==
    /\ wait_busy' = [wait_busy EXCEPT ![p] = NULL]
    /\ request' = [request EXCEPT ![p] = NULL]

\* One round of the search, for the wait of p for r.
Search(p, r) ==
    /\ UNCHANGED <<kin, size, euid>>
    /\ \/ \E c \in Task :
              /\ FirstZombie(p, r, c)
              /\ at' = [at EXCEPT ![p] = "reap"]
              /\ arg' = [arg EXCEPT ![p] = c]
              /\ KeepWaiting(p, r)
       \/ \* no child at all (-ECHILD), WNOHANG, or a pending signal
          /\ \A c \in Task : ~FirstZombie(p, r, c)
          /\ at' = [at EXCEPT ![p] = "user"]
          /\ EndWait(p)
          /\ UNCHANGED arg
       \/ /\ \A c \in Task : ~FirstZombie(p, r, c)
          /\ Eligible(p, r) # {}
          /\ at' = [at EXCEPT ![p] = "asleep"]
          /\ KeepWaiting(p, r)
          /\ UNCHANGED arg

sys_wait4(p, r) ==
    /\ Runs(p, "user")
    /\ r = GROUP => GroupWaits
    /\ Search(p, r)

\* goto repeat, after schedule() returned
repeat(p) == Runs(p, "woken") /\ Search(p, request[p])

\* A signal arrives.
signal(p) ==
    /\ at[p] = "asleep" /\ CpuFree
    /\ at' = [at EXCEPT ![p] = "woken"]
    /\ UNCHANGED <<kin, arg, size, waiting, euid>>

\* getrusage or put_user fails: the zombie stays for the next wait.
wait_fault(p) ==
    /\ Runs(p, "reap")
    /\ at' = [at EXCEPT ![p] = "user"]
    /\ arg' = [arg EXCEPT ![p] = NULL]
    /\ EndWait(p)
    /\ UNCHANGED <<kin, size, euid>>

\* The zombie of another process, which p only traced, goes back to it ...
return_zombie(p) ==
    LET z == arg[p] IN
    /\ Runs(p, "reap") /\ kin.p_opptr[z] # kin.p_pptr[z]
    /\ kin' = Relink(kin, z, kin.p_opptr[z], kin.p_opptr[z])
    /\ at' = Notified([at EXCEPT ![p] = "user"], kin.p_opptr[z])
    /\ arg' = [arg EXCEPT ![p] = NULL]
    /\ EndWait(p)
    /\ UNCHANGED <<size, euid>>

\* ... and release_task frees p's own.
Released(k, z) ==
    LET out == REMOVE_LINKS(k, z)
    IN  [p_opptr |-> SetIf(out.p_opptr, z, NULL), p_pptr |-> SetIf(out.p_pptr, z, NULL),
         p_cptr |-> out.p_cptr,
         p_ysptr |-> SetIf(out.p_ysptr, z, NULL), p_osptr |-> SetIf(out.p_osptr, z, NULL)]

release_task(p) ==
    LET z == arg[p] IN
    /\ Runs(p, "reap") /\ kin.p_opptr[z] = kin.p_pptr[z]
    /\ kin' = Released(kin, z)
    /\ at' = [at EXCEPT ![p] = "user", ![z] = "free"]
    /\ arg' = [arg EXCEPT ![p] = NULL]
    /\ EndWait(p)
    /\ euid' = [euid EXCEPT ![z] = 0]
    /\ UNCHANGED size
-----------------------------------------------------------------------------
(* pattach.c                                                               *)

\* Variants with a defect: only one of the two ways to wait is looked at.
FatherBusyAny(t) == wait_busy[kin.p_opptr[t]] = ANY
FatherBusyPid(t) == wait_busy[kin.p_opptr[t]] = t

\* The father of t waits for it.
FatherBusy(t) == wait_busy[kin.p_opptr[t]] \in {ANY, t}

\* Variant with a defect: only p itself and its father are refused.
AboveFather(p, t) == t \in {p, kin.p_opptr[p]}

\* t is p itself or an ancestor of p.
AboveSelf(p, t) == IsAncestor(kin, t, p)

\* The checks of sys_attach_proc, made without the lock.
attach_check(p, t) ==
    /\ p \in Attachers /\ at[p] = "user" /\ CpuFree
    /\ Linked(t) /\ t # Init1
    /\ ~AboveSelf(p, t)
    /\ euid[p] \in {0, euid[t]}
    /\ ~FatherBusy(t)
    /\ at' = [at EXCEPT ![p] = "attach"]
    /\ arg' = [arg EXCEPT ![p] = t]
    /\ UNCHANGED <<kin, size, waiting, euid>>

\* The links, changed without the lock as well.
attach_link(p) ==
    /\ at[p] = "attach"
    /\ kin' = Relink(kin, arg[p], p, p)
    /\ at' = [at EXCEPT ![p] = "user"]
    /\ arg' = [arg EXCEPT ![p] = NULL]
    /\ UNCHANGED <<size, waiting, euid>>

sys_get_child_process_count(p) == Len(ChildList(kin, p))

\* Variant with a defect: as many as the caller has room for.
RoomFor(count, max_length) == max_length

\* The number of pids to collect.
ToCollect(count, max_length) == IF count < max_length THEN count ELSE max_length

\* sys_get_child_processes counts and sleeps in kmalloc(GFP_KERNEL) ...
sys_get_child_processes(p, max_length) ==
    /\ at[p] = "user" /\ CpuFree
    /\ max_length # 0 /\ kin.p_cptr[p] # NULL
    /\ size' = [size EXCEPT ![p] = ToCollect(sys_get_child_process_count(p), max_length)]
    /\ at' = [at EXCEPT ![p] = "collect"]
    /\ UNCHANGED <<kin, arg, waiting, euid>>

\* ... then walks over as many children as there were.
collect_pids(p) ==
    /\ at[p] = "collect" /\ CpuFree
    /\ size' = [size EXCEPT ![p] = 0]
    /\ at' = [at EXCEPT ![p] = "user"]
    /\ UNCHANGED <<kin, arg, waiting, euid>>
-----------------------------------------------------------------------------
(* What else changes the family                                            *)

reparent_to_init(p) ==
    /\ Runs(p, "user") /\ p \in KernelThreads
    /\ kin' = Relink(kin, p, Init1, Init1)
    /\ UNCHANGED <<at, arg, size, waiting, euid>>

\* ptrace_attach: p becomes the parent, not the original parent, of t.
ptrace_attach(p, t) ==
    /\ Tracing
    /\ Runs(p, "user") /\ t \notin {p, Init1}
    /\ at[t] \notin {"free", "orphan", "mourn", "dead"}
    /\ kin.p_pptr[t] = kin.p_opptr[t] /\ kin.p_pptr[t] # p
    /\ euid[p] \in {0, euid[t]}
    /\ kin' = Relink(kin, t, kin.p_opptr[t], p)
    /\ UNCHANGED <<at, arg, size, waiting, euid>>

\* setuid by root
setuid(p, u) ==
    /\ at[p] = "user" /\ CpuFree /\ euid[p] = 0 /\ u # 0
    /\ euid' = [euid EXCEPT ![p] = u]
    /\ UNCHANGED <<kin, at, arg, size, waiting>>
-----------------------------------------------------------------------------
\* Kernel code that does not sleep: it ends whatever the others do.
KernelStep(p) ==
    \/ exit_notify(p) \/ inherit_child(p) \/ exit_done(p)
    \/ attach_link(p)

Wait(p) ==
    \/ \E r \in Task \cup {ANY, GROUP} : sys_wait4(p, r)
    \/ repeat(p) \/ signal(p)
    \/ wait_fault(p) \/ return_zombie(p) \/ release_task(p)

Attach(p) ==
    \/ \E t \in Task : attach_check(p, t)
    \/ \E max_length \in Lengths : sys_get_child_processes(p, max_length)
    \/ collect_pids(p)

Other(p) ==
    \/ reparent_to_init(p)
    \/ \E t \in Task : ptrace_attach(p, t)
    \/ \E u \in Euids : setuid(p, u)

Step(p) ==
    \/ \E c \in Task, clone_parent \in BOOLEAN : do_fork(p, c, clone_parent)
    \/ forget_original_parent(p)
    \/ KernelStep(p)
    \/ Wait(p)
    \/ Attach(p)
    \/ Other(p)

Next == \E p \in Task : Step(p)

Spec == Init /\ [][Next]_vars
FairSpec == Spec /\ \A p \in Task : WF_vars(KernelStep(p))
-----------------------------------------------------------------------------
(* Properties                                                              *)

\* Every variable has its type.
TypeOK ==
    /\ kin \in Kin
    /\ at \in [Task -> Places]
    /\ arg \in [Task -> Task \cup {NULL}]
    /\ size \in [Task -> 0 .. Cardinality(Task) - 1]
    /\ request \in [Task -> Task \cup {ANY, GROUP, NULL}]
    /\ wait_busy \in [Task -> Task \cup {ANY, NULL}]
    /\ euid \in [Task -> Euids]

Children == {q \in Task \ {Init1} : Linked(q)}

\* The links of brothers and sisters agree in both directions after every step:
\* the process that a p_cptr names is a child of that process and, unless that
\* one is in exit_notify's loop, has no younger sibling; any other child has a
\* younger sibling with the same parent that names it as the older one, and so
\* on up to the youngest.
SiblingLinks ==
    LET M == {p \in Task : at[p] = "mourn"} IN
    Agree(kin, Children, M) /\ NoRing(kin, Children)

\* sys_wait4 and sys_get_child_processes walk along p_osptr: the walk from p_cptr
\* meets every process whose parent this is, each one once, and ends.
ListsComplete ==
    \A p \in Task :
        LET list == ChildList(kin, p) IN
        /\ \A i, j \in DOMAIN list : list[i] = list[j] => i = j
        /\ {list[i] : i \in DOMAIN list} = {c \in Children : kin.p_pptr[c] = p}

\* The original parent of every process is a process that has not begun to leave:
\* nobody is adopted by, born to or left with one that is gone.
ParentsAlive ==
    \A q \in Children :
        kin.p_opptr[q] \in Task /\ at[kin.p_opptr[q]] \notin {"free", "orphan", "mourn", "dead"}

\* Every process descends from init, whoever adopted whom: no group of processes
\* is its own ancestry.  The walk of sys_attach_proc along p_opptr relies on it
\* to end, and so do the processes of the group to be reaped when they exit.
AllDescendFromInit ==
    \A S \in SUBSET Children : S # {} => \E q \in S : kin.p_opptr[q] \notin S

\* A process asleep in sys_wait4 has no zombie that it waits for: whoever hands
\* it a zombie (an exiting child, an exiting brother, a tracer) wakes it up.
SleeperHasNoZombie ==
    \A p \in Task : at[p] = "asleep" =>
        \A c \in Eligible(p, request[p]) : ~Zombie(c)

\* A process asleep in sys_wait4 has a child that it waits for: sys_attach_proc
\* never takes the last one away, which would leave the process asleep for ever.
SleeperHasChild ==
    \A p \in Task : at[p] = "asleep" => Eligible(p, request[p]) # {}

\* sys_wait4 drops the lock while it copies the status of the zombie it found;
\* when it takes the lock again that process is still there, still a zombie and
\* still its own child, and no other process is about to release it as well.
ReapsOwnZombie ==
    \A p \in Task : at[p] = "reap" => at[arg[p]] = "dead" /\ kin.p_pptr[arg[p]] = p

\* The pointers implement the lists of FamilyTree: after REMOVE_LINKS, SET_LINKS
\* and the relinking of exit_notify every walk along p_osptr sees the children in
\* the order in which their parent got them; attach_proc makes the youngest child.
Tree == INSTANCE FamilyTree WITH
    father <- kin.p_opptr,
    kids <- [p \in Task |-> ChildList(kin, p)]
ImplementsTree == Tree!TreeSpec

\* exit_notify's loop over the children ends: every one it gives away is given to
\* another process.
ExitEnds == \A p \in Task : at[p] = "orphan" ~> at[p] = "dead"
=============================================================================
