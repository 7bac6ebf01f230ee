---------------------------- MODULE MCProcFamily ----------------------------
(***************************************************************************)
(* ProcFamily on small instances, and what comments of the code say that   *)
(* does not hold of it.                                                    *)
(***************************************************************************)
EXTENDS ProcFamily, TLC

CONSTANTS p1, p2, p3, p4, p5

\* Every process but init is like any other.
Sym == Permutations(Task \ {Init1})

\* pattach.c:43: a process is refused if "The father is waiting for PID [wait() or
\* waitpid(PID)]".  sys_attach_proc never takes a process away from a father that
\* sleeps in sys_wait4 and waits for it.
WaitedForIsBusy ==
    [][\A p, t \in Task : attach_check(p, t) =>
           LET father == kin.p_opptr[t] IN
           at[father] = "asleep" => t \notin Eligible(father, request[father])]_vars

\* pattach.h:48: get_child_processes collects "stopping at max_length or the oldest
\* child, whichever comes first": the walk that follows kmalloc never goes on
\* beyond the oldest child.
StopsAtOldest ==
    [][\A p \in Task : collect_pids(p) => size[p] <= sys_get_child_process_count(p)]_vars

\* fork.c:756: "Need tasklist lock for parent etc handling!"  sys_attach_proc takes
\* no lock; still, no two processes ever adopt each other.
NobodyIsOwnAncestor == AllDescendFromInit
=============================================================================
