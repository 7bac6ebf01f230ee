---------------------------- MODULE FamilyLinks ----------------------------
(***************************************************************************)
(* The five pointers of a task_struct that tie a process to its relatives, *)
(* and REMOVE_LINKS and SET_LINKS of HW1/include/linux/sched.h, which keep *)
(* the children of a process as a doubly linked list, the youngest first.  *)
(* The ring of all tasks (next_task, prev_task) that the two macros also   *)
(* keep is abstracted: a task is on it between SET_LINKS and REMOVE_LINKS. *)
(***************************************************************************)
EXTENDS Naturals, Sequences, FiniteSets

CONSTANT Task
ASSUME TaskFinite == IsFiniteSet(Task)

NULL == "NULL"
ASSUME NullAssumption == NULL \notin Task

\* p_cptr is the youngest child, p_ysptr the younger sibling, p_osptr the older one.
Kin == [p_opptr : [Task -> Task \cup {NULL}], p_pptr : [Task -> Task \cup {NULL}],
        p_cptr : [Task -> Task \cup {NULL}],
        p_ysptr : [Task -> Task \cup {NULL}], p_osptr : [Task -> Task \cup {NULL}]]

\* f with the value at p, if p is a task, changed to v:  if (p) p->f = v
SetIf(f, p, v) == [q \in DOMAIN f |-> IF q = p THEN v ELSE f[q]]

\* k with the pointers of the lists, or with the parents, replaced.
WithLists(k, cptr, ysptr, osptr) ==
    [p_opptr |-> k.p_opptr, p_pptr |-> k.p_pptr,
     p_cptr |-> cptr, p_ysptr |-> ysptr, p_osptr |-> osptr]

WithParents(k, opptr, pptr) ==
    [p_opptr |-> opptr, p_pptr |-> pptr,
     p_cptr |-> k.p_cptr, p_ysptr |-> k.p_ysptr, p_osptr |-> k.p_osptr]

\* The p_cptr of p's parent skips p if p is the youngest.
WithoutYoungest(k, p) ==
    IF k.p_ysptr[p] = NULL THEN SetIf(k.p_cptr, k.p_pptr[p], k.p_osptr[p]) ELSE k.p_cptr

\* Variant with a defect: the older sibling keeps its pointer to p.
REMOVE_LINKS_OneWay(k, p) ==
    WithLists(k, WithoutYoungest(k, p),
              k.p_ysptr, SetIf(k.p_osptr, k.p_ysptr[p], k.p_osptr[p]))

REMOVE_LINKS(k, p) ==
    WithLists(k, WithoutYoungest(k, p),
              SetIf(k.p_ysptr, k.p_osptr[p], k.p_ysptr[p]),
              SetIf(k.p_osptr, k.p_ysptr[p], k.p_osptr[p]))

\* p becomes the youngest child of p->p_pptr.
SET_LINKS(k, p) ==
    LET older == k.p_cptr[k.p_pptr[p]] IN
    WithLists(k, SetIf(k.p_cptr, k.p_pptr[p], p),
              SetIf(SetIf(k.p_ysptr, p, NULL), older, p),
              SetIf(k.p_osptr, p, older))

\* Variant with a defect: the two parents are mixed up.
SetParentsSwapped(k, p, original, parent) ==
    WithParents(k, SetIf(k.p_opptr, p, parent), SetIf(k.p_pptr, p, original))

\* p->p_opptr and p->p_pptr are assigned.
SetParents(k, p, original, parent) ==
    WithParents(k, SetIf(k.p_opptr, p, original), SetIf(k.p_pptr, p, parent))

\* p->p_cptr is assigned outside the two macros.
SetCptr(k, p, v) == WithLists(k, SetIf(k.p_cptr, p, v), k.p_ysptr, k.p_osptr)

\* p, on no list, gets its parents and is linked.
Given(k, p, original, parent) == SET_LINKS(SetParents(k, p, original, parent), p)

\* The way every caller moves a linked process to another parent.
Relink(k, p, original, parent) == Given(REMOVE_LINKS(k, p), p, original, parent)

\* The children of p in the order of the list, as for (c = p->p_cptr; c; c = c->p_osptr)
\* visits them, cut after as many as there are tasks.
ChildList(k, p) ==
    LET from[n \in 0 .. Cardinality(Task)] ==
            [c \in Task \cup {NULL} |->
                IF c = NULL \/ n = 0 THEN << >> ELSE <<c>> \o from[n - 1][k.p_osptr[c]]]
    IN  from[Cardinality(Task)][k.p_cptr[p]]

Youngest(k, c) == k.p_cptr[k.p_pptr[c]] = c

\* The links of the processes in C, the ones that are on a list of children, agree
\* in both directions.  The parents in M are in exit_notify's loop, where the
\* p_ysptr of the youngest child may be stale.
Agree(k, C, M) ==
    /\ \A p \in Task : k.p_cptr[p] # NULL =>
           k.p_cptr[p] \in C /\ k.p_pptr[k.p_cptr[p]] = p
    /\ \A c \in C :
           /\ k.p_pptr[c] \in Task
           /\ Youngest(k, c) => k.p_ysptr[c] = NULL \/ k.p_pptr[c] \in M
           /\ ~Youngest(k, c) => LET y == k.p_ysptr[c] IN
                  y \in C /\ k.p_osptr[y] = c /\ k.p_pptr[y] = k.p_pptr[c]
           /\ k.p_osptr[c] # NULL => LET o == k.p_osptr[c] IN
                  /\ o \in C /\ k.p_ysptr[o] = c /\ k.p_pptr[o] = k.p_pptr[c]
                  /\ ~Youngest(k, o)

\* Going on to the next younger sibling leads to the youngest: no ring.
NoRing(k, C) ==
    \A S \in SUBSET C : S # {} => \E c \in S : Youngest(k, c) \/ k.p_ysptr[c] \notin S

\* A set of tasks that the walk upwards along p_opptr never leaves.
UpClosed(k, S) == \A q \in S : k.p_opptr[q] \in S \cup {NULL}

\* The walk from p along p_opptr, p itself included, meets q: q is in every
\* set that contains p and that the walk does not leave.
IsAncestor(k, q, p) == \A S \in SUBSET Task : p \in S /\ UpClosed(k, S) => q \in S
=============================================================================
