---------------------------- MODULE FamilyTree ----------------------------
(***************************************************************************)
(* What the process families of the HW1 kernel are: every process has a    *)
(* father, and a process that lists its children has them in the order in  *)
(* which it got them, the youngest first.  The pointers of the             *)
(* task_structs are to implement these lists.                              *)
(*                                                                         *)
(* The process that lists a child is its father, except for a child that   *)
(* is traced, or whose father left and gave it to init.                    *)
(***************************************************************************)
EXTENDS Sequences, SequencesExt

CONSTANTS Task, Init1, NULL

VARIABLES
    father,     \* the original parent of a process, NULL if there is no process
    kids        \* the children that a process lists

Exists(c) == father[c] # NULL

\* The lists without c.
Dropped(c) == [q \in Task |-> RemoveFirst(kids[q], c)]

\* The lists with c the youngest child of p.
First(p, c) == [Dropped(c) EXCEPT ![p] = <<c>> \o @]

\* A set that contains p and the father of every process in it.
Lineage(p, S) == p \in S /\ \A q \in S : father[q] \in S \cup {NULL}

TreeInit ==
    /\ father = [q \in Task |-> NULL]
    /\ kids = [q \in Task |-> << >>]

\* A new process.
Born(f, p, c) ==
    /\ ~Exists(c) /\ c # Init1 /\ c # f
    /\ father' = [father EXCEPT ![c] = f]
    /\ kids' = First(p, c)

\* p, which does not descend from c, becomes the father of c.
Adopt(p, c) ==
    /\ Exists(c)
    /\ \E S \in SUBSET Task : Lineage(p, S) /\ c \notin S
    /\ father' = [father EXCEPT ![c] = p]
    /\ kids' = First(p, c)

\* p leaves: its children are init's.
Leave(p) ==
    /\ p # Init1
    /\ father' = [q \in Task |-> IF father[q] = p THEN Init1 ELSE father[q]]
    /\ UNCHANGED kids

\* Another process lists c: its tracer, or its father again.
Handed(p, c) ==
    /\ Exists(c) /\ p # c
    /\ kids' = First(p, c)
    /\ UNCHANGED father

\* A process without children disappears.
Buried(c) ==
    /\ Exists(c) /\ kids[c] = << >>
    /\ \A q \in Task : father[q] # c
    /\ father' = [father EXCEPT ![c] = NULL]
    /\ kids' = Dropped(c)

TreeNext ==
    \/ \E p, c \in Task : Adopt(p, c) \/ Handed(p, c)
    \/ \E f, p, c \in Task : Born(f, p, c)
    \/ \E c \in Task : Leave(c) \/ Buried(c)

TreeSpec == TreeInit /\ [][TreeNext]_<<father, kids>>
=============================================================================
