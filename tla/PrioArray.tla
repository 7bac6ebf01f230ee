----------------------------- MODULE PrioArray -----------------------------
(***************************************************************************)
(* prio_array_t of OS/kernel/sched.c: one list per priority, the bitmap of *)
(* the lists that hold a task, and the number of tasks, kept redundantly   *)
(* by enqueue_task and dequeue_task.  The run queue has four of them.      *)
(*                                                                         *)
(* run_list is an intrusive list node: list_del(&p->run_list) unlinks p    *)
(* from whatever list it is on, whichever array the caller names, while    *)
(* nr_active and the bitmap change in the array that the caller names.     *)
(***************************************************************************)
EXTENDS Integers, Sequences, FiniteSets

CONSTANTS
    Task,
    MAX_PRIO,       \* priorities are 0 .. MAX_PRIO - 1, a smaller number is better
    MAX_RT_PRIO     \* those below MAX_RT_PRIO are real-time

ASSUME PrioAssumption ==
    /\ MAX_PRIO \in Nat /\ MAX_RT_PRIO \in Nat
    /\ 0 < MAX_RT_PRIO /\ MAX_RT_PRIO < MAX_PRIO
ASSUME TaskFinite == IsFiniteSet(Task)

Prio == 0 .. MAX_PRIO - 1
ArrayId == {"array0", "array1", "short_active", "overdue"}

PrioArrays ==
    [ArrayId -> [nr_active : Int, bitmap : SUBSET Prio, queue : [Prio -> Seq(Task)]]]

EmptyArray ==
    [nr_active |-> 0, bitmap |-> {}, queue |-> [q \in Prio |-> << >>]]

OnList(s, p) == \E i \in DOMAIN s : s[i] = p

\* s without (the first occurrence of) p.
Without(s, p) ==
    IF OnList(s, p)
    THEN LET i == CHOOSE i \in DOMAIN s : s[i] = p /\ \A j \in 1 .. i - 1 : s[j] # p
         IN  [j \in 1 .. Len(s) - 1 |-> IF j < i THEN s[j] ELSE s[j + 1]]
    ELSE s

Unlinked(arrays, p) ==
    [a \in ArrayId |->
        [arrays[a] EXCEPT !.queue = [q \in Prio |-> Without(@[q], p)]]]

\* Variant with a defect: dequeue_task forgets the bitmap.
DequeueKeepsBit(arrays, a, prio, p) ==
    [Unlinked(arrays, p) EXCEPT ![a] =
        [nr_active |-> @.nr_active - 1, bitmap |-> @.bitmap, queue |-> @.queue]]

\* dequeue_task(p, array), where prio is p->prio.
Dequeue(arrays, a, prio, p) ==
    [Unlinked(arrays, p) EXCEPT ![a] =
        [nr_active |-> @.nr_active - 1,
         bitmap |-> IF @.queue[prio] = << >> THEN @.bitmap \ {prio} ELSE @.bitmap,
         queue |-> @.queue]]

\* The list of priority prio in array a becomes "list".
SetList(arrays, a, prio, list) ==
    [arrays EXCEPT ![a] = [nr_active |-> @.nr_active, bitmap |-> @.bitmap,
                           queue |-> [@.queue EXCEPT ![prio] = list]]]

SetBitmap(arrays, a, bitmap) ==
    [arrays EXCEPT ![a] = [nr_active |-> @.nr_active, bitmap |-> bitmap, queue |-> @.queue]]

\* The bit and the count that come with a task put on such a list.
CountIn(arrays, a, prio) ==
    [arrays EXCEPT ![a] = [nr_active |-> @.nr_active + 1, bitmap |-> @.bitmap \cup {prio},
                           queue |-> @.queue]]

\* enqueue_task(p, array)
Enqueue(arrays, a, prio, p) ==
    CountIn(SetList(arrays, a, prio, Append(arrays[a].queue[prio], p)), a, prio)

\* The same with list_add in place of list_add_tail: p becomes the first.
EnqueueHead(arrays, a, prio, p) ==
    CountIn(SetList(arrays, a, prio, <<p>> \o arrays[a].queue[prio]), a, prio)

\* sched_find_first_bit(bitmap) = b: bit MAX_PRIO is always set, as a delimiter.
IsFirstBit(bitmap, b) ==
    /\ b \in bitmap \cup {MAX_PRIO}
    /\ \A c \in bitmap \cup {MAX_PRIO} : b <= c

\* What the lists of the four arrays look like when they are in order: p is on
\* the list that its array and its priority name, and on no other one.
Listed(arrays, a, q) == {arrays[a].queue[q][i] : i \in DOMAIN arrays[a].queue[q]}
Members(arrays, a) == UNION {Listed(arrays, a, q) : q \in Prio}
OnAnyList(arrays, p) == \E a \in ArrayId, q \in Prio : OnList(arrays[a].queue[q], p)

RedundancyExact(arrays) ==
    \A a \in ArrayId :
        /\ \A q \in Prio : q \in arrays[a].bitmap <=> arrays[a].queue[q] # << >>
        /\ arrays[a].nr_active = Cardinality(Members(arrays, a))

NoTaskTwice(arrays) ==
    \A a, b \in ArrayId, q, r \in Prio :
        \A i \in DOMAIN arrays[a].queue[q], j \in DOMAIN arrays[b].queue[r] :
            arrays[a].queue[q][i] = arrays[b].queue[r][j] => <<a, q, i>> = <<b, r, j>>
=============================================================================
