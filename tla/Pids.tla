-------------------------------- MODULE Pids --------------------------------
(***************************************************************************)
(* The numbers of processes: get_pid, which looks through all tasks only   *)
(* when last_pid has reached next_safe, the first number known to be in    *)
(* use; the hash table that find_task_by_pid searches; and do_fork, which  *)
(* takes the number long before the child is in the list of tasks.         *)
(*                                                                         *)
(* get_pid holds lastpid_lock; while it looks through the list, one task a *)
(* step, it has tasklist_lock for reading: the list does not change then,  *)
(* but copies fail and groups and sessions change.                         *)
(***************************************************************************)
EXTENDS Integers, Sequences, FiniteSets, SequencesExt

CONSTANTS
    Task, First, NULL,
    PID_MAX,            \* 0x8000
    FirstPid,           \* 300: "Skip daemons etc."
    PIDHASH_SZ,
    Leaders,            \* who calls setsid
    Threaded,           \* who calls clone with CLONE_THREAD, too
    StartsAgain,        \* may get_pid start again at FirstPid while a child is copied?
    RunsOut             \* may it find no number?

ASSUME PidAssumption ==
    /\ First \in Task /\ NULL \notin Task /\ Leaders \subseteq Task /\ Threaded \subseteq Task
    /\ PID_MAX \in Nat /\ FirstPid \in 2 .. PID_MAX - 1 /\ PIDHASH_SZ \in Nat \ {0}
    /\ StartsAgain \in BOOLEAN /\ RunsOut \in BOOLEAN

VARIABLES
    tasks,              \* the list of tasks, init_task left out
    making,             \* making[p]: the child that p is copying
    ids,                \* pid, pgrp, tgid and session
    pidhash, last_pid, next_safe,
    search              \* who is in get_pid's loop, beginpid, the next place in the list

vars == <<tasks, making, ids, pidhash, last_pid, next_safe, search>>

NoSearch == [by |-> NULL, begin |-> 0, i |-> 0]
NoIds == [pid |-> 0, pgrp |-> 0, tgid |-> 0, session |-> 0]

Bucket == 0 .. PIDHASH_SZ - 1
pid_hashfn(x) == x % PIDHASH_SZ

Init ==
    /\ tasks = <<First>>
    /\ making = [t \in Task |-> NULL]
    /\ ids = [t \in Task |-> IF t = First THEN [NoIds EXCEPT !.pid = 1, !.tgid = 1] ELSE NoIds]
    /\ pidhash = [b \in Bucket |-> IF b = pid_hashfn(1) THEN <<First>> ELSE <<>>]
    /\ last_pid = 1 /\ next_safe = PID_MAX /\ search = NoSearch

Linked == ToSet(tasks)
InCopy == {making[t] : t \in Task} \ {NULL}
IdsOf(t) == {ids[t].pid, ids[t].pgrp, ids[t].tgid, ids[t].session}

\* Variant with a defect: a group outlives its leader, and its number is not looked at.
SafeBeforePids(safe, last, t) == Min({safe} \cup {x \in {ids[t].pid} : x > last})

SafeBefore(safe, last, t) == Min({safe} \cup {x \in IdsOf(t) : x > last})

\* No search has lastpid_lock, nor tasklist_lock for reading.
Unlocked == search.by = NULL

Idle(t) == t \in Linked /\ making[t] = NULL /\ search.by # t

\* p->pid = get_pid(clone_flags) in do_fork; the copies, which may sleep, follow.
Gets(t, pid) ==
    LET c == CHOOSE c \in Task : c \notin Linked \cup InCopy
    IN  /\ making' = [making EXCEPT ![t] = c]
        /\ ids' = [ids EXCEPT ![c] = [ids[t] EXCEPT !.pid = pid]]

\* The numbers that no task in the list uses.
Unused == {x \in 1 .. PID_MAX - 1 : \A u \in Linked : x \notin IdsOf(u)}

\* get_pid, before the loop.
do_fork(t) ==
    /\ Idle(t) /\ Unlocked
    /\ \E c \in Task : c \notin Linked \cup InCopy
    /\ \/ /\ last_pid + 1 < PID_MAX /\ last_pid + 1 < next_safe
          /\ last_pid' = last_pid + 1
          /\ Gets(t, last_pid + 1)
          /\ UNCHANGED <<next_safe, search>>
       \/ /\ last_pid + 1 >= PID_MAX \/ last_pid + 1 >= next_safe
          /\ (\A x \in Unused : x <= last_pid) => StartsAgain \/ InCopy = {}
          /\ RunsOut \/ \E x \in Unused \ {last_pid} : x >= FirstPid \/ x > last_pid
          /\ last_pid' = IF last_pid + 1 >= PID_MAX THEN FirstPid ELSE last_pid + 1
          /\ next_safe' = PID_MAX
          /\ search' = [by |-> t, begin |-> last_pid, i |-> 1]
          /\ UNCHANGED <<making, ids>>
    /\ UNCHANGED <<tasks, pidhash>>

\* The number is in use: the next one is tried, from the head of the list.
try_next(t) ==
    /\ search.by = t /\ search.i \in DOMAIN tasks
    /\ last_pid \in IdsOf(tasks[search.i])
    /\ LET reached == last_pid + 1 >= next_safe IN
        /\ last_pid' = IF reached /\ last_pid + 1 >= PID_MAX THEN FirstPid ELSE last_pid + 1
        /\ next_safe' = IF reached THEN PID_MAX ELSE next_safe
    /\ search' = IF last_pid' = search.begin THEN NoSearch ELSE [search EXCEPT !.i = 1]
    /\ UNCHANGED <<tasks, making, ids, pidhash>>

pass_task(t) ==
    /\ search.by = t /\ search.i \in DOMAIN tasks
    /\ last_pid \notin IdsOf(tasks[search.i])
    /\ next_safe' = SafeBefore(next_safe, last_pid, tasks[search.i])
    /\ search' = [search EXCEPT !.i = @ + 1]
    /\ UNCHANGED <<tasks, making, ids, pidhash, last_pid>>

found(t) ==
    /\ search.by = t /\ search.i \notin DOMAIN tasks
    /\ Gets(t, last_pid)
    /\ search' = NoSearch
    /\ UNCHANGED <<tasks, pidhash, last_pid, next_safe>>

get_pid(t) == try_next(t) \/ pass_task(t) \/ found(t)

\* p->tgid, SET_LINKS and hash_pid
link(t) ==
    LET c == making[t] IN
    /\ c # NULL /\ Unlocked
    /\ tasks' = Append(tasks, c)
    /\ \E thread \in BOOLEAN :
        /\ thread => t \in Threaded
        /\ ids' = [ids EXCEPT ![c].tgid = IF thread THEN ids[t].tgid ELSE ids[c].pid]
    /\ pidhash' = [pidhash EXCEPT ![pid_hashfn(ids[c].pid)] = <<c>> \o @]
    /\ making' = [making EXCEPT ![t] = NULL]
    /\ UNCHANGED <<last_pid, next_safe, search>>

\* bad_fork_cleanup_*: the number is lost.
copy_fails(t) ==
    /\ making[t] # NULL
    /\ ids' = [ids EXCEPT ![making[t]] = NoIds]
    /\ making' = [making EXCEPT ![t] = NULL]
    /\ UNCHANGED <<tasks, pidhash, last_pid, next_safe, search>>

\* kernel/sys.c: nobody may be in a group of that number yet.
setsid(t) ==
    /\ t \in Leaders /\ Idle(t) /\ \A u \in Linked : ids[u].pgrp # ids[t].pid
    /\ ids' = [ids EXCEPT ![t].pgrp = ids[t].pid, ![t].session = ids[t].pid]
    /\ UNCHANGED <<tasks, making, pidhash, last_pid, next_safe, search>>

\* Variant with a defect: the chain loses its head instead of the task.
UnhashedHead(chain, t) == Tail(chain)

Unhashed(chain, t) == RemoveFirst(chain, t)

\* release_task: unhash_process, p->pid = 0
unhash_process(t) ==
    /\ Idle(t) /\ Unlocked /\ t # First
    /\ tasks' = RemoveFirst(tasks, t)
    /\ pidhash' = [pidhash EXCEPT ![pid_hashfn(ids[t].pid)] = Unhashed(@, t)]
    /\ ids' = [ids EXCEPT ![t] = NoIds]
    /\ UNCHANGED <<making, last_pid, next_safe, search>>

Next ==
    \E t \in Task :
        do_fork(t) \/ get_pid(t) \/ link(t) \/ copy_fails(t) \/ setsid(t) \/ unhash_process(t)

Spec == Init /\ [][Next]_vars
-----------------------------------------------------------------------------
(* Properties                                                              *)

find_task_by_pid(x) ==
    LET chain == pidhash[pid_hashfn(x)]
        hits == {i \in DOMAIN chain : ids[chain[i]].pid = x}
    IN  IF hits = {} THEN NULL ELSE chain[Min(hits)]

\* Every process is found under its number, so no two have the same, and nobody is
\* found who is gone.
HashFinds ==
    /\ \A t \in Linked : find_task_by_pid(ids[t].pid) = t
    /\ \A b \in Bucket : ToSet(pidhash[b]) \subseteq Linked

\* The number that get_pid gives, mostly without looking at any task, belongs to no
\* process and no child that is being copied, and to no group or session that
\* outlived its leader.
FreshPid ==
    [][\A t \in Task : making'[t] # making[t] /\ making'[t] # NULL =>
        \A u \in Linked \cup InCopy : ids'[making'[t]].pid \notin IdsOf(u)]_vars
=============================================================================
