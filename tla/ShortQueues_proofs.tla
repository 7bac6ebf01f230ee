------------------------- MODULE ShortQueues_proofs -------------------------
(***************************************************************************)
(* The run queue of ShortSched stays in order: QueuesInOrder,              *)
(* RunnableIsQueued, ClassMatchesArray, UninterruptibleExact and           *)
(* IdleSeesWork hold for every number of tasks and every range of          *)
(* priorities, as long as no task turns SHORT while it sleeps in do_fork.  *)
(*                                                                         *)
(* The five depend on each other.  dequeue_task goes by the fields of the  *)
(* task, so the lists stay in order only where a task sits in the array    *)
(* that its class implies; the class of a forked child is right only if    *)
(* what its parent had at the copy still holds when they share the slice;  *)
(* and the child is queued only if the wake-up function that is chosen for *)
(* the parent fits the child.  With that, ShortSched implements            *)
(* SchedPolicy.                                                            *)
(***************************************************************************)
EXTENDS ShortSched_proofs

\* Where a task is not known to the scheduler yet, and where do_fork is past the
\* point from which its caller keeps the CPU until the child is awake.
Absent(at) == at \in {"none", "new", "born"}
Linking(at) == at \in {"share", "linked", "wakeshort", "wakeplain"}

Ready == {p \in Task : Queued(p)}
Sleepers == {p \in Task : ~Absent(pc[p]) /\ task[p].state = "UNINTERRUPTIBLE" /\ ~Queued(p)}

\* ClassMatchesArray of one task: what its fields say among themselves, and
\* about the array that it waits in.
FieldsAgree(tp) ==
    /\ IsRt(tp) <=> tp.policy \in {"FIFO", "RR"}
    /\ tp.is_short = 1 => tp.policy = "SHORT"
    /\ tp.policy = "SHORT" /\ tp.is_short = -1 => tp.prio = MAX_PRIO - 1

ArrayAgrees(tp, expired) ==
    /\ tp.array = "short_active" => IsShort(tp)
    /\ tp.array = "overdue" => IsOverdue(tp)
    /\ tp.array \in {"array0", "array1"} => tp.policy # "SHORT"
    /\ tp.array = expired => tp.policy = "OTHER"

InClass(tp, expired) == FieldsAgree(tp) /\ ArrayAgrees(tp, expired)

CountsExact ==
    /\ nr_running = Cardinality(Ready)
    /\ nr_uninterruptible = Cardinality(Sleepers)

AbsentUnqueued ==
    \A p \in Task : Absent(pc[p]) => ~Queued(p) /\ task[p].state = "UNINTERRUPTIBLE"

QueueInv ==
    /\ TypeOK
    /\ InOrder(arrays, task)
    /\ \A p \in Task : InClass(task[p], Expired)
    /\ RunnableIsQueued
    /\ AbsentUnqueued
    /\ CountsExact
    /\ IdleSeesWork

\* A parent in do_fork and its child: no two parents share a child, a SHORT
\* parent that still copies has a SHORT child, and from the sharing of the slice
\* until the wake-up a parent that is not overdue has a child that is not.
CopyAgrees(t) ==
    /\ pc[child[t]] = "new"
    /\ task[t].policy = "SHORT" => task[child[t]].policy = "SHORT"
    /\ \A u \in Task : pc[u] = "copy" /\ child[u] = child[t] => u = t

LinkAgrees(t) ==
    /\ pc[child[t]] = "born"
    /\ curr = t /\ task[t].state = "RUNNING"
    /\ pc[t] \in {"share", "linked"} /\ task[t].is_short = 1 => task[child[t]].is_short = 1
    /\ pc[t] = "wakeshort" => task[child[t]].is_short = 1

ForkInv ==
    \A t \in Task : /\ pc[t] = "copy" => CopyAgrees(t)
                    /\ Linking(pc[t]) => LinkAgrees(t)
-----------------------------------------------------------------------------
LEMMA TaskFacts ==
    ASSUME TypeOK, NEW p \in Task
    PROVE  /\ task[p] \in TaskRecord /\ task[p].prio \in Prio /\ task[p].static_prio \in UserPrio
           /\ task[p].array \in ArrayId \cup {NULL} /\ NULL \notin ArrayId
           /\ Queued(p) <=> task[p].array \in ArrayId
           /\ pc[p] \in Pc /\ child[p] \in Task
BY DEF TypeOK, TaskRecord, Queued, ArrayId, NULL

LEMMA SubsetsFinite ==
    /\ IsFiniteSet(Ready) /\ IsFiniteSet(Sleepers)
    /\ Cardinality(Ready) \in Nat /\ Cardinality(Sleepers) \in Nat
<1>1. Ready \in SUBSET Task /\ Sleepers \in SUBSET Task
  BY DEF Ready, Sleepers
<1> QED
  BY <1>1, TaskFinite, FS_Subset, FS_CardinalityType

\* The lists do not care for the other fields.
LEMMA SameInOrder ==
    ASSUME NEW lists, NEW tk, NEW tk2, InOrder(lists, tk),
           \A p \in Task : /\ tk2[p].array = tk[p].array
                           /\ tk[p].array \in ArrayId => tk2[p].prio = tk[p].prio
    PROVE  InOrder(lists, tk2)
<1>1. \A a \in ArrayId : InArray(tk2, a) = InArray(tk, a)
  BY DEF InArray
<1> QED
  BY <1>1 DEF InOrder, ListInOrder

\* Only fields of p change, its state and whether it is queued do not, and what
\* do_fork relies on holds of its new fields.
OthersSame(p) == \A r \in Task \ {p} : task'[r] = task[r]

FieldsChange(p) ==
    /\ OthersSame(p)
    /\ task'[p].state = task[p].state
    /\ task'[p].array = NULL <=> task[p].array = NULL
    /\ InClass(task'[p], Expired)

ForkUnhurt(p) ==
    /\ OthersSame(p)
    /\ task[p].state = "RUNNING" => task'[p].state = "RUNNING" \/ ~Linking(pc[p])
    /\ task'[p].is_short = 1 => task[p].is_short = 1 \/ ~Linking(pc[p])
    /\ task'[p].policy = "SHORT" => task[p].policy = "SHORT" \/ pc[p] # "copy"
    /\ task[p].policy = "SHORT" => task'[p].policy = "SHORT" \/ pc[p] # "new"
    /\ task[p].is_short = 1 => task'[p].is_short = 1 \/ pc[p] # "born"

\* Nobody enters or leaves do_fork.
PcCalm ==
    \A r \in Task :
        \/ pc'[r] = pc[r]
        \/ \A at \in {pc[r], pc'[r]} : at \in {"user", "entry", "exit", "yield", "dead"}
        \/ pc[r] = "share" /\ pc'[r] = "linked"

LEMMA FieldsStep ==
    ASSUME QueueInv, TypeOK', curr \in Task,
           \A r \in Task : /\ task'[r].state = task[r].state
                           /\ task'[r].array = NULL <=> task[r].array = NULL
                           /\ InClass(task'[r], Expired)
                           /\ Absent(pc'[r]) <=> Absent(pc[r]),
           UNCHANGED <<active, curr, nr_running, nr_uninterruptible>>, InOrder(arrays', task')
    PROVE  QueueInv'
<1>1. Expired' = Expired
  BY DEF Expired
<1>2. RunnableIsQueued'
  BY DEF QueueInv, RunnableIsQueued, Queued
<1>3. AbsentUnqueued'
  BY DEF QueueInv, AbsentUnqueued, Queued
<1>4. Ready' = Ready /\ Sleepers' = Sleepers
  BY DEF Ready, Sleepers, Queued
<1>5. CountsExact'
  BY <1>4 DEF QueueInv, CountsExact
<1>6. IdleSeesWork'
  BY InitAssumption DEF IdleSeesWork
<1> QED
  BY <1>1, <1>2, <1>3, <1>5, <1>6 DEF QueueInv

LEMMA FieldStep ==
    ASSUME QueueInv, TypeOK', curr \in Task, NEW p \in Task, FieldsChange(p),
           \A r \in Task : Absent(pc'[r]) <=> Absent(pc[r]),
           UNCHANGED <<active, curr, nr_running, nr_uninterruptible>>, InOrder(arrays', task')
    PROVE  QueueInv'
<1>1. \A r \in Task : InClass(task'[r], Expired)
  BY DEF QueueInv, FieldsChange, OthersSame
<1>2. \A r \in Task : /\ task'[r].state = task[r].state
                      /\ task'[r].array = NULL <=> task[r].array = NULL
  BY DEF FieldsChange, OthersSame
<1> QED
  BY <1>1, <1>2, FieldsStep

LEMMA ForkFrame ==
    ASSUME TypeOK, ForkInv, NEW p \in Task, ForkUnhurt(p), PcCalm, UNCHANGED <<child, curr>>
    PROVE  ForkInv'
<1> SUFFICES ASSUME NEW t \in Task
             PROVE  /\ pc'[t] = "copy" => CopyAgrees(t)'
                    /\ Linking(pc'[t]) => LinkAgrees(t)'
  BY DEF ForkInv
<1>1. child[t] \in Task /\ child' = child
  BY DEF TypeOK
<1>2. \A r \in Task : r # p => task'[r] = task[r]
  BY DEF ForkUnhurt, OthersSame
<1>3. \A r \in Task : /\ pc'[r] = "copy" <=> pc[r] = "copy"
                      /\ pc'[r] = "new" <=> pc[r] = "new"
                      /\ pc'[r] = "born" <=> pc[r] = "born"
                      /\ Linking(pc'[r]) => \/ pc'[r] = pc[r]
                                            \/ pc[r] = "share" /\ pc'[r] = "linked"
  BY DEF PcCalm, Linking
<1>4. ASSUME pc'[t] = "copy"
      PROVE  CopyAgrees(t)'
  <2>1. pc[t] = "copy" /\ CopyAgrees(t)
    BY <1>3, <1>4 DEF ForkInv
  <2>2. task'[t].policy = "SHORT" => task'[child[t]].policy = "SHORT"
    BY <1>1, <1>2, <2>1 DEF ForkUnhurt, CopyAgrees
  <2> QED
    BY <1>1, <1>3, <2>1, <2>2 DEF CopyAgrees
<1>5. ASSUME Linking(pc'[t])
      PROVE  LinkAgrees(t)'
  <2>0. /\ pc'[t] = pc[t] \/ (pc[t] = "share" /\ pc'[t] = "linked")
        /\ Linking(pc[t])
    <3>1. pc'[t] = pc[t] \/ (pc[t] = "share" /\ pc'[t] = "linked")
      BY <1>3, <1>5
    <3> QED
      BY <1>5, <3>1 DEF Linking
  <2>1. /\ pc'[t] = pc[t] \/ (pc[t] = "share" /\ pc'[t] = "linked")
        /\ Linking(pc[t]) /\ LinkAgrees(t)
    BY <2>0 DEF ForkInv
  <2>2. task'[child[t]].is_short = 1 \/ task[child[t]].is_short # 1
    BY <1>1, <1>2, <2>1 DEF ForkUnhurt, LinkAgrees
  <2>3. task'[t].is_short = 1 => task[t].is_short = 1
    BY <1>2, <2>1 DEF ForkUnhurt
  <2>4. task'[t].state = "RUNNING"
    BY <1>2, <2>1 DEF ForkUnhurt, LinkAgrees
  <2> QED
    BY <1>1, <1>3, <2>1, <2>2, <2>3, <2>4 DEF LinkAgrees
<1> QED
  BY <1>4, <1>5
-----------------------------------------------------------------------------
(* The operations on the arrays                                            *)

LEMMA RequeueInOrder ==
    ASSUME TypeOK, InOrder(arrays, task), NEW p \in Task, NEW tp \in TaskRecord,
           NEW to \in ArrayId, Queued(p), Requeue(p, task[p].array, to, tp)
    PROVE  /\ OthersSame(p) /\ task'[p] = [tp EXCEPT !.array = to]
           /\ InOrder(arrays', task')
<1> DEFINE gone == [task EXCEPT ![p] = [task[p] EXCEPT !.array = NULL]]
           lists == Dequeue(arrays, task[p].array, task[p].prio, p)
<1>1. task[p].array \in ArrayId /\ task[p].prio \in Prio /\ task[p] \in TaskRecord
  BY TaskFacts
<1>2. task' = [task EXCEPT ![p] = [tp EXCEPT !.array = to]]
      /\ arrays' = Enqueue(lists, to, tp.prio, p)
  BY DEF Requeue
<1>3. OthersSame(p) /\ task'[p] = [tp EXCEPT !.array = to]
  BY <1>2 DEF TypeOK, OthersSame
<1>4. SameBut(p, task, gone) /\ gone[p].array = NULL
  BY <1>1 DEF TypeOK, SameBut, TaskRecord
<1>5. lists \in PrioArrays /\ InOrder(lists, gone)
  BY <1>1, <1>4, TaskFacts, DequeueType, DequeueInOrder DEF TypeOK
<1>6. task'[p].array = to /\ task'[p].prio = tp.prio /\ tp.prio \in Prio
  BY <1>3 DEF TaskRecord
<1>7. SameBut(p, gone, task')
  BY <1>3 DEF SameBut, OthersSame, TypeOK
<1>8. gone[p].array \notin ArrayId
  BY <1>4, TaskFacts
<1> HIDE DEF gone, lists
<1>9. InOrder(arrays', task')
  BY <1>2, <1>5, <1>6, <1>7, <1>8, EnqueueInOrder
<1> QED
  BY <1>3, <1>9

\* What activate_task makes of a task with fields tp.
Activated(tp, prio) == [tp EXCEPT !.prio = prio, !.array = ActivateArray(tp)]

LEMMA ActivatedFacts ==
    ASSUME TypeOK, NEW tp \in TaskRecord, FieldsAgree(tp), NEW prio \in ActivatePrios(tp)
    PROVE  /\ Activated(tp, prio) \in TaskRecord
           /\ Activated(tp, prio).array = ActivateArray(tp) /\ ActivateArray(tp) \in ArrayId
           /\ Activated(tp, prio).prio = prio /\ prio \in Prio
           /\ Activated(tp, prio).state = tp.state
           /\ Activated(tp, prio).policy = tp.policy
           /\ Activated(tp, prio).is_short = tp.is_short
           /\ InClass(Activated(tp, prio), Expired)
<1>1. ActivateArray(tp) \in ArrayId /\ prio \in Prio
  <2>1. tp.prio \in Prio
    BY DEF TaskRecord
  <2> QED
    BY <2>1, EffectivePrioType DEF ActivateArray, ArrayId, TypeOK, ActivatePrios
<1>2. /\ Activated(tp, prio) \in TaskRecord
      /\ Activated(tp, prio).array = ActivateArray(tp)
      /\ Activated(tp, prio).prio = prio
      /\ Activated(tp, prio).state = tp.state
      /\ Activated(tp, prio).policy = tp.policy
      /\ Activated(tp, prio).is_short = tp.is_short
  BY <1>1 DEF Activated, TaskRecord
<1>3. FieldsAgree(Activated(tp, prio))
  <2>1. CASE IsRt(tp) \/ tp.policy = "SHORT"
    <3>1. prio = tp.prio
      BY <2>1 DEF ActivatePrios
    <3> QED
      BY <1>2, <3>1 DEF FieldsAgree, IsRt
  <2>2. CASE ~(IsRt(tp) \/ tp.policy = "SHORT")
    <3>1. prio \in Int /\ ~(prio < MAX_RT_PRIO)
      BY <1>1, <2>2, EffectivePrioType, PrioAssumption DEF ActivatePrios, UserPrio, Prio, IsRt
    <3> QED
      BY <1>2, <2>2, <3>1 DEF FieldsAgree, IsRt
  <2> QED
    BY <2>1, <2>2
<1>4. ArrayAgrees(Activated(tp, prio), Expired)
  <2>1. active \in {"array0", "array1"} /\ Expired \in {"array0", "array1"} /\ Expired # active
    BY DEF TypeOK, Expired
  <2> QED
    BY <1>2, <2>1 DEF ArrayAgrees, ActivateArray, IsShort, IsOverdue
<1> QED
  BY <1>1, <1>2, <1>3, <1>4 DEF InClass

\* activate_task of a task that is not queued, the lists and fields before it
\* being from and tk.
LEMMA ActivateInOrder ==
    ASSUME TypeOK, NEW p \in Task, NEW tp \in TaskRecord, FieldsAgree(tp),
           NEW from \in PrioArrays, NEW tk, InOrder(from, tk),
           tk[p].array \notin ArrayId, SameBut(p, tk, task), Activate(p, tp, from)
    PROVE  /\ OthersSame(p)
           /\ \E prio \in ActivatePrios(tp) : task'[p] = Activated(tp, prio)
           /\ InOrder(arrays', task')
<1>1. PICK prio \in ActivatePrios(tp) :
        /\ task' = [task EXCEPT ![p] = Activated(tp, prio)]
        /\ arrays' = Enqueue(from, ActivateArray(tp), prio, p)
  BY DEF Activate, Activated
<1>2. OthersSame(p) /\ task'[p] = Activated(tp, prio)
  BY <1>1 DEF TypeOK, OthersSame
<1>3. /\ task'[p].array = ActivateArray(tp) /\ ActivateArray(tp) \in ArrayId
      /\ task'[p].prio = prio /\ prio \in Prio
  BY <1>2, ActivatedFacts
<1>4. SameBut(p, tk, task')
  BY <1>2 DEF SameBut, OthersSame
<1>5. InOrder(arrays', task')
  BY <1>1, <1>3, <1>4, EnqueueInOrder
<1> QED
  BY <1>2, <1>5

\* setscheduler's last part and sched_yield of a SHORT task: off and on again.
LEMMA ReactivatedInOrder ==
    ASSUME TypeOK, InOrder(arrays, task), NEW p \in Task, Queued(p),
           NEW tp \in TaskRecord, FieldsAgree(tp),
           Activate(p, tp, Dequeue(arrays, task[p].array, task[p].prio, p))
    PROVE  /\ OthersSame(p)
           /\ \E prio \in ActivatePrios(tp) : task'[p] = Activated(tp, prio)
           /\ InOrder(arrays', task')
<1> DEFINE gone == [task EXCEPT ![p] = [task[p] EXCEPT !.array = NULL]]
           lists == Dequeue(arrays, task[p].array, task[p].prio, p)
<1>1. task[p].array \in ArrayId /\ task[p].prio \in Prio /\ task[p] \in TaskRecord
  BY TaskFacts
<1>2. SameBut(p, task, gone) /\ gone[p].array = NULL /\ SameBut(p, gone, task)
  BY <1>1 DEF TypeOK, SameBut, TaskRecord
<1>3. lists \in PrioArrays /\ InOrder(lists, gone) /\ gone[p].array \notin ArrayId
  BY <1>1, <1>2, TaskFacts, DequeueType, DequeueInOrder DEF TypeOK
<1>4. Activate(p, tp, lists)
  OBVIOUS
<1> HIDE DEF gone, lists
<1> QED
  BY <1>2, <1>3, <1>4, ActivateInOrder
-----------------------------------------------------------------------------
(* The timer interrupt                                                     *)

LEMMA SameTasks ==
    ASSUME TypeOK, QueueInv, NEW p \in Task, UNCHANGED <<task, arrays>>
    PROVE  FieldsChange(p) /\ ForkUnhurt(p) /\ InOrder(arrays', task')
BY DEF QueueInv, FieldsChange, ForkUnhurt, OthersSame

\* A slice gets shorter.
LEMMA SliceOnly ==
    ASSUME QueueInv, NEW p \in Task, NEW tp, UNCHANGED arrays,
           task' = [task EXCEPT ![p] = tp],
           tp.array = task[p].array, tp.prio = task[p].prio, tp.state = task[p].state,
           tp.policy = task[p].policy, tp.is_short = task[p].is_short
    PROVE  FieldsChange(p) /\ ForkUnhurt(p) /\ InOrder(arrays', task')
<1>1. OthersSame(p) /\ task'[p] = tp
  BY DEF QueueInv, TypeOK, OthersSame
<1>2. InClass(task[p], Expired)
  BY DEF QueueInv
<1>3. InClass(tp, Expired)
  BY <1>2 DEF InClass, FieldsAgree, ArrayAgrees, IsRt, IsShort, IsOverdue
<1>4. InOrder(arrays, task')
  <2>1. \A r \in Task : task'[r].array = task[r].array /\ task'[r].prio = task[r].prio
    BY <1>1 DEF OthersSame
  <2>2. InOrder(arrays, task)
    BY DEF QueueInv
  <2> DEFINE now == task'
  <2>3. \A r \in Task : /\ now[r].array = task[r].array
                        /\ task[r].array \in ArrayId => now[r].prio = task[r].prio
    BY <2>1
  <2> HIDE DEF now
  <2>4. InOrder(arrays, now)
    BY <2>2, <2>3, SameInOrder
  <2> QED
    BY <2>4 DEF now
<1> QED
  BY <1>1, <1>3, <1>4 DEF FieldsChange, ForkUnhurt

\* A queued task is put elsewhere, with fields that fit the array it goes to.
LEMMA RequeueStep ==
    ASSUME QueueInv, NEW p \in Task, Queued(p), NEW tp \in TaskRecord, NEW to \in ArrayId,
           Requeue(p, task[p].array, to, tp), tp.state = task[p].state, FieldsAgree(tp),
           to = "short_active" => IsShort(tp),
           to = "overdue" => IsOverdue(tp),
           to \in {"array0", "array1"} => tp.policy # "SHORT",
           to = Expired => tp.policy = "OTHER"
    PROVE  FieldsChange(p) /\ InOrder(arrays', task') /\ task'[p] = [tp EXCEPT !.array = to]
<1>1. OthersSame(p) /\ task'[p] = [tp EXCEPT !.array = to] /\ InOrder(arrays', task')
  BY RequeueInOrder DEF QueueInv
<1>2. /\ task'[p].array = to /\ task'[p].prio = tp.prio /\ task'[p].state = tp.state
      /\ task'[p].policy = tp.policy /\ task'[p].is_short = tp.is_short
  BY <1>1 DEF TaskRecord
<1>3. InClass(task'[p], Expired)
  BY <1>2 DEF InClass, FieldsAgree, ArrayAgrees, IsRt, IsShort, IsOverdue
<1>4. task[p].array # NULL /\ to # NULL
  BY TaskFacts DEF Queued, QueueInv
<1> QED
  BY <1>1, <1>2, <1>3, <1>4 DEF FieldsChange

LEMMA TickKeeps ==
    ASSUME QueueInv, NEW p \in Task, curr = p, scheduler_tick(p)
    PROVE  FieldsChange(p) /\ ForkUnhurt(p) /\ InOrder(arrays', task')
<1>1. /\ TypeOK /\ InClass(task[p], Expired) /\ Queued(p)
      /\ task[p] \in TaskRecord /\ task[p].array \in ArrayId
      /\ pc[p] # "new" /\ pc[p] # "born"
  <2>1. TypeOK /\ InClass(task[p], Expired) /\ Queued(p)
    BY DEF QueueInv, RunnableIsQueued
  <2>2. pc[p] # "new" /\ pc[p] # "born"
    BY <2>1 DEF QueueInv, AbsentUnqueued, Absent
  <2> QED
    BY <2>1, <2>2, TaskFacts
<1>2. /\ active \in {"array0", "array1"} /\ Expired \in {"array0", "array1"}
      /\ active # Expired /\ active \in ArrayId /\ Expired \in ArrayId
      /\ "overdue" \in ArrayId
  BY <1>1 DEF TypeOK, Expired, ArrayId
<1>3. TickedDown(p) \in TaskRecord /\ Refilled(p) \in TaskRecord
  BY <1>1, TickFields
<1>4. ASSUME NEW tp \in TaskRecord, NEW to \in ArrayId, Requeue(p, task[p].array, to, tp),
             tp.state = task[p].state, FieldsAgree(tp),
             to = "short_active" => IsShort(tp),
             to = "overdue" => IsOverdue(tp),
             to \in {"array0", "array1"} => tp.policy # "SHORT",
             to = Expired => tp.policy = "OTHER",
             tp.is_short = 1 => task[p].is_short = 1,
             tp.policy = "SHORT" => task[p].policy = "SHORT"
      PROVE  FieldsChange(p) /\ ForkUnhurt(p) /\ InOrder(arrays', task')
  <2>1. FieldsChange(p) /\ InOrder(arrays', task') /\ task'[p] = [tp EXCEPT !.array = to]
    BY <1>1, <1>4, RequeueStep
  <2>2. task'[p].policy = tp.policy /\ task'[p].is_short = tp.is_short
    BY <2>1 DEF TaskRecord
  <2> QED
    BY <1>1, <1>4, <2>1, <2>2 DEF FieldsChange, ForkUnhurt
<1>5. CASE TickExpired(p)
  BY <1>1, <1>5, SameTasks DEF TickExpired
<1>6. CASE TickRealTime(p)
  <2>1. task[p].policy \in {"FIFO", "RR"}
    BY <1>1, <1>6 DEF TickRealTime, InClass, FieldsAgree
  <2>2. task[p].array = active
    BY <1>1, <1>2, <1>6, <2>1
       DEF TickRealTime, OnTickingArray, InClass, ArrayAgrees, IsShort, IsOverdue
  <2>3. CASE UNCHANGED <<task, arrays>>
    BY <1>1, <2>3, SameTasks
  <2>4. CASE Requeue(p, active, active, Refilled(p))
    <3> DEFINE tp == Refilled(p)
    <3>1. /\ tp.state = task[p].state /\ tp.prio = task[p].prio
          /\ tp.policy = task[p].policy /\ tp.is_short = task[p].is_short
      BY <1>1 DEF Refilled, TaskRecord
    <3> HIDE DEF tp
    <3>2. FieldsAgree(tp)
      BY <1>1, <3>1 DEF InClass, FieldsAgree, IsRt
    <3>3. tp \in TaskRecord /\ Requeue(p, task[p].array, active, tp)
      BY <1>3, <2>2, <2>4 DEF tp
    <3> QED
      BY <1>2, <1>4, <2>1, <3>1, <3>2, <3>3
  <2>5. CASE task' = [task EXCEPT ![p] = TickedDown(p)] /\ UNCHANGED arrays
    <3> DEFINE tp == TickedDown(p)
    <3>1. /\ tp.state = task[p].state /\ tp.prio = task[p].prio /\ tp.array = task[p].array
          /\ tp.policy = task[p].policy /\ tp.is_short = task[p].is_short
      BY <1>1 DEF TickedDown, TaskRecord
    <3> HIDE DEF tp
    <3> QED
      BY <2>5, <3>1, SliceOnly DEF tp
  <2> QED
    BY <1>6, <2>3, <2>4, <2>5 DEF TickRealTime
<1>7. CASE TickRunning(p)
  <2> DEFINE tp == TickedDown(p)
  <2>1. /\ tp.state = task[p].state /\ tp.prio = task[p].prio /\ tp.array = task[p].array
        /\ tp.policy = task[p].policy /\ tp.is_short = task[p].is_short
    BY <1>1 DEF TickedDown, TaskRecord
  <2>2. task' = [task EXCEPT ![p] = tp] /\ UNCHANGED arrays
    BY <1>7 DEF TickRunning
  <2> HIDE DEF tp
  <2> QED
    BY <2>1, <2>2, SliceOnly
<1>8. CASE TickEndsRegular(p)
  <2>1. PICK prio \in EffectivePrios(task[p]), to \in {active, Expired} :
          Requeue(p, active, to, [Refilled(p) EXCEPT !.prio = prio])
    BY <1>8 DEF TickEndsRegular
  <2> DEFINE tp == [Refilled(p) EXCEPT !.prio = prio]
  <2>2. prio \in UserPrio /\ prio \in Prio
    BY <1>1, EffectivePrioType
  <2>3. /\ tp \in TaskRecord /\ tp.state = task[p].state /\ tp.prio = prio
        /\ tp.policy = task[p].policy /\ tp.is_short = task[p].is_short
    BY <1>1, <1>3, <2>2 DEF Refilled, TaskRecord
  <2> HIDE DEF tp
  <2>4. task[p].policy = "OTHER"
    BY <1>1, <1>8 DEF TickEndsRegular, InClass, FieldsAgree, TaskRecord, Policy
  <2>5. task[p].array = active
    BY <1>1, <1>8, <2>4
       DEF TickEndsRegular, OnTickingArray, InClass, ArrayAgrees, IsShort, IsOverdue
  <2>6. FieldsAgree(tp)
    <3>1. ~IsRt(tp)
      BY <2>2, <2>3, PrioAssumption DEF IsRt, UserPrio
    <3>2. task[p].is_short # 1
      BY <1>1, <2>4 DEF InClass, FieldsAgree
    <3> QED
      BY <2>3, <2>4, <3>1, <3>2 DEF FieldsAgree
  <2>7. Requeue(p, task[p].array, to, tp) /\ to \in ArrayId /\ to \in {"array0", "array1"}
    BY <1>2, <2>1, <2>5 DEF tp
  <2> QED
    BY <1>4, <2>3, <2>4, <2>6, <2>7
<1>9. CASE TickEndsShort(p)
  <2> DEFINE tp == [task[p] EXCEPT !.prio = MAX_PRIO - 1, !.is_short = -1,
                                   !.time_slice = OverdueSlice(task[p].requested_time),
                                   !.first_time_slice = FALSE]
  <2>1. OverdueSlice(task[p].requested_time) \in Nat
    BY <1>1, SliceTypes DEF TaskRecord
  <2>2. MAX_PRIO - 1 \in Prio /\ ~(MAX_PRIO - 1 < MAX_RT_PRIO)
    BY PrioAssumption DEF Prio
  <2>3. /\ tp \in TaskRecord /\ tp.state = task[p].state /\ tp.prio = MAX_PRIO - 1
        /\ tp.policy = task[p].policy /\ tp.is_short = -1
    BY <1>1, <2>1, <2>2 DEF TaskRecord
  <2>4. Requeue(p, task[p].array, "overdue", tp) /\ task[p].policy = "SHORT"
    BY <1>9 DEF TickEndsShort
  <2> HIDE DEF tp
  <2>5. FieldsAgree(tp) /\ IsOverdue(tp)
    BY <2>2, <2>3, <2>4 DEF FieldsAgree, IsRt, IsOverdue
  <2> QED
    BY <1>2, <1>4, <2>3, <2>4, <2>5
<1>10. CASE TickEndsOverdue(p)
  <2>1. PICK prio \in EffectivePrios(task[p]) :
          Requeue(p, task[p].array, active,
                  [Refilled(p) EXCEPT !.policy = "OTHER", !.prio = prio])
    BY <1>10 DEF TickEndsOverdue
  <2> DEFINE tp == [Refilled(p) EXCEPT !.policy = "OTHER", !.prio = prio]
  <2>2. prio \in UserPrio /\ prio \in Prio
    BY <1>1, EffectivePrioType
  <2>3. /\ tp \in TaskRecord /\ tp.state = task[p].state /\ tp.prio = prio
        /\ tp.policy = "OTHER" /\ tp.is_short = task[p].is_short
    BY <1>1, <1>3, <2>2 DEF Refilled, TaskRecord, Policy
  <2>4. Requeue(p, task[p].array, active, tp) /\ task[p].is_short # 1
    BY <1>10, <2>1 DEF TickEndsOverdue
  <2> HIDE DEF tp
  <2>5. FieldsAgree(tp)
    <3>1. ~IsRt(tp)
      BY <2>2, <2>3, PrioAssumption DEF IsRt, UserPrio
    <3> QED
      BY <2>3, <2>4, <3>1 DEF FieldsAgree
  <2> QED
    BY <1>2, <1>4, <2>3, <2>4, <2>5
<1> QED
  BY <1>5, <1>6, <1>7, <1>8, <1>9, <1>10 DEF scheduler_tick
-----------------------------------------------------------------------------
(* System calls on the policy and the priority of a task                   *)

LEMMA NullAgrees ==
    ASSUME TypeOK, NEW tp, tp.array = NULL
    PROVE  ArrayAgrees(tp, Expired)
BY DEF ArrayAgrees, NULL, TypeOK, Expired

\* A task that is queued can run, so deactivate_task counts no sleeper here.
LEMMA ReactivateStep ==
    ASSUME QueueInv, curr \in Task, task[curr].state = "RUNNING",
           NEW p \in Task, NEW tp \in TaskRecord, FieldsAgree(tp),
           tp.state = task[p].state, tp.array = task[p].array, Reactivate(p, tp)
    PROVE  /\ FieldsChange(p) /\ InOrder(arrays', task')
           /\ task'[p].policy = tp.policy /\ task'[p].is_short = tp.is_short
           /\ UNCHANGED <<active, nr_running, nr_uninterruptible, child, curr>>
<1>1. TypeOK /\ InOrder(arrays, task)
  BY DEF QueueInv
<1>2. UNCHANGED <<active, nr_running, child, curr>>
  BY DEF Reactivate
<1>3. CASE task[p].array = NULL
  <2>1. task' = [task EXCEPT ![p] = tp] /\ UNCHANGED <<arrays, nr_uninterruptible>>
    BY <1>3 DEF Reactivate
  <2>2. OthersSame(p) /\ task'[p] = tp
    BY <1>1, <2>1 DEF OthersSame, TypeOK
  <2>3. InOrder(arrays, task')
    <3> DEFINE now == task'
    <3>1. \A r \in Task : now[r].array = task[r].array
      BY <2>2 DEF OthersSame
    <3>2. \A r \in Task : task[r].array \in ArrayId => now[r].prio = task[r].prio
      BY <1>1, <1>3, <2>2, TaskFacts DEF OthersSame
    <3> HIDE DEF now
    <3>3. InOrder(arrays, now)
      BY <1>1, <3>1, <3>2, SameInOrder
    <3> QED
      BY <3>3 DEF now
  <2>4. InClass(task'[p], Expired)
    BY <1>1, <1>3, <2>2, NullAgrees DEF InClass
  <2> QED
    BY <1>2, <2>1, <2>2, <2>3, <2>4 DEF FieldsChange
<1>4. CASE task[p].array # NULL
  <2>1. /\ Activate(p, tp, Dequeue(arrays, task[p].array, task[p].prio, p))
        /\ nr_uninterruptible' =
             nr_uninterruptible + (IF task[p].state = "UNINTERRUPTIBLE" THEN 1 ELSE 0)
    BY <1>4 DEF Reactivate
  <2>2. task[p].state = "RUNNING"
    BY <1>4 DEF QueueInv, RunnableIsQueued, Queued
  <2>3. nr_uninterruptible' = nr_uninterruptible
    BY <1>1, <2>1, <2>2 DEF TypeOK
  <2>4. /\ OthersSame(p) /\ InOrder(arrays', task')
        /\ \E prio \in ActivatePrios(tp) : task'[p] = Activated(tp, prio)
    BY <1>1, <1>4, <2>1, ReactivatedInOrder DEF Queued
  <2>5. /\ task'[p].policy = tp.policy /\ task'[p].is_short = tp.is_short
        /\ task'[p].state = tp.state /\ task'[p].array \in ArrayId
        /\ InClass(task'[p], Expired)
    BY <1>1, <2>4, ActivatedFacts
  <2>6. task'[p].array # NULL
    BY <2>5, <1>1, TaskFacts
  <2> QED
    BY <1>2, <1>4, <2>3, <2>4, <2>5, <2>6 DEF FieldsChange
<1> QED
  BY <1>3, <1>4

\* A system call leaves do_fork and the set of tasks alone.
LEMMA GotoCalm ==
    ASSUME TypeOK, NEW t \in Task, NEW at, NEW to, Goto(t, to), pc[t] = at,
           at \in {"user", "entry", "exit", "yield", "dead"},
           to \in {"user", "entry", "exit", "yield", "dead"}
    PROVE  PcCalm /\ \A r \in Task : Absent(pc'[r]) <=> Absent(pc[r])
BY DEF TypeOK, Goto, PcCalm, Absent

LEMMA PolicyCallsKeep ==
    ASSUME RacyFork = FALSE, QueueInv, ForkInv, TypeOK', NEW t \in Task, NEW p \in Task,
           \/ \E request \in Requests : BecomeShort(t, p, request) \/ ResizeShort(t, p, request)
           \/ SetOther(t, p)
           \/ \E policy \in {"FIFO", "RR"}, sched_priority \in RtPriorities :
                  SetRealTime(t, p, policy, sched_priority)
    PROVE  QueueInv' /\ ForkInv'
<1>1. TypeOK /\ Runs(t, "entry") /\ Linked(p) /\ Goto(t, "exit")
  BY DEF QueueInv, BecomeShort, ResizeShort, SetOther, SetRealTime
<1>2. /\ task[p] \in TaskRecord /\ task[p].static_prio \in UserPrio
      /\ task[p].static_prio \in Prio /\ ~(task[p].static_prio < MAX_RT_PRIO)
      /\ FieldsAgree(task[p]) /\ task[p].time_slice \in Nat /\ task[p].requested_time \in Nat
  BY <1>1, PrioAssumption DEF TypeOK, TaskRecord, UserPrio, Prio, QueueInv, InClass
<1>3. ~Linking(pc[p]) /\ pc[p] # "new"
  BY <1>1 DEF ForkInv, LinkAgrees, Runs, Linking, Linked
<1>4. PcCalm /\ \A r \in Task : Absent(pc'[r]) <=> Absent(pc[r])
  BY <1>1, GotoCalm DEF Runs
<1>5. ASSUME NEW tp \in TaskRecord, FieldsAgree(tp), tp.state = task[p].state,
             tp.array = task[p].array, Reactivate(p, tp),
             tp.policy = "SHORT" => task[p].policy = "SHORT" \/ pc[p] # "copy",
             task[p].is_short = 1 => tp.is_short = 1
      PROVE  QueueInv' /\ ForkInv'
  <2>1. /\ FieldsChange(p) /\ InOrder(arrays', task')
        /\ task'[p].policy = tp.policy /\ task'[p].is_short = tp.is_short
        /\ UNCHANGED <<active, nr_running, nr_uninterruptible, child, curr>>
    BY <1>1, <1>5, ReactivateStep DEF Runs
  <2>2. ForkUnhurt(p)
    BY <1>3, <1>5, <2>1 DEF FieldsChange, ForkUnhurt
  <2>3. ForkInv'
    BY <1>1, <1>4, <2>1, <2>2, ForkFrame
  <2>4. QueueInv'
    BY <1>1, <1>4, <2>1, FieldStep DEF Runs
  <2> QED
    BY <2>3, <2>4
<1>6. ASSUME NEW request \in Requests, BecomeShort(t, p, request)
      PROVE  QueueInv' /\ ForkInv'
  <2> DEFINE tp == [task[p] EXCEPT !.policy = "SHORT", !.is_short = 1,
                                   !.requested_time = AtLeastOne(request),
                                   !.time_slice = ShortSlice(request),
                                   !.prio = task[p].static_prio]
  <2>1. AtLeastOne(request) \in Nat /\ ShortSlice(request) \in Nat
    BY InputAssumption, SliceTypes
  <2>2. /\ tp \in TaskRecord /\ tp.state = task[p].state /\ tp.array = task[p].array
        /\ tp.policy = "SHORT" /\ tp.is_short = 1 /\ tp.prio = task[p].static_prio
    BY <1>2, <2>1 DEF TaskRecord, Policy
  <2>3. Reactivate(p, tp) /\ pc[p] # "copy"
    BY <1>6 DEF BecomeShort
  <2> HIDE DEF tp
  <2>4. FieldsAgree(tp)
    BY <1>2, <2>2 DEF FieldsAgree, IsRt
  <2> QED
    BY <1>5, <2>2, <2>3, <2>4
<1>7. ASSUME NEW request \in Requests, ResizeShort(t, p, request)
      PROVE  QueueInv' /\ ForkInv'
  <2> DEFINE slice == ResizedSlice(request, task[p].requested_time, task[p].time_slice)
             tp == [task[p] EXCEPT !.requested_time = AtLeastOne(request),
                                   !.time_slice = slice, !.prio = task[p].static_prio]
  <2>1. request \in Nat
    BY InputAssumption
  <2>2. AtLeastOne(request) \in Nat
    BY <2>1, SliceTypes
  <2>3. slice \in Nat
    <3>1. Jiffies(request) - (Jiffies(task[p].requested_time) - task[p].time_slice) \in Nat
      BY <1>2, <1>7, <2>1, ResizeNeverNegative DEF ResizeShort
    <3> QED
      BY <3>1, SliceTypes DEF ResizedSlice
  <2>4. Reactivate(p, tp) /\ task[p].policy = "SHORT" /\ task[p].is_short # -1
    BY <1>7 DEF ResizeShort
  <2> HIDE DEF slice
  <2>5. /\ tp \in TaskRecord /\ tp.state = task[p].state /\ tp.array = task[p].array
        /\ tp.policy = task[p].policy /\ tp.is_short = task[p].is_short
        /\ tp.prio = task[p].static_prio
    BY <1>2, <2>2, <2>3 DEF TaskRecord
  <2> HIDE DEF tp
  <2>6. FieldsAgree(tp)
    BY <1>2, <2>4, <2>5 DEF FieldsAgree, IsRt
  <2> QED
    BY <1>5, <2>4, <2>5, <2>6
<1>8. ASSUME SetOther(t, p)
      PROVE  QueueInv' /\ ForkInv'
  <2> DEFINE tp == [task[p] EXCEPT !.policy = "OTHER", !.prio = task[p].static_prio]
  <2>1. /\ tp \in TaskRecord /\ tp.state = task[p].state /\ tp.array = task[p].array
        /\ tp.policy = "OTHER" /\ tp.is_short = task[p].is_short
        /\ tp.prio = task[p].static_prio
    BY <1>2 DEF TaskRecord, Policy
  <2>2. Reactivate(p, tp) /\ task[p].policy # "SHORT"
    BY <1>8 DEF SetOther
  <2> HIDE DEF tp
  <2>3. FieldsAgree(tp)
    BY <1>2, <2>1, <2>2 DEF FieldsAgree, IsRt
  <2> QED
    BY <1>5, <2>1, <2>2, <2>3
<1>9. ASSUME NEW policy \in {"FIFO", "RR"}, NEW sched_priority \in RtPriorities,
             SetRealTime(t, p, policy, sched_priority)
      PROVE  QueueInv' /\ ForkInv'
  <2> DEFINE tp == [task[p] EXCEPT !.policy = policy,
                                   !.prio = MAX_RT_PRIO - 1 - sched_priority]
  <2>1. /\ MAX_RT_PRIO - 1 - sched_priority \in Prio /\ policy \in Policy
        /\ MAX_RT_PRIO - 1 - sched_priority < MAX_RT_PRIO
    BY PrioAssumption, InputAssumption DEF Prio, Policy
  <2>2. /\ tp \in TaskRecord /\ tp.state = task[p].state /\ tp.array = task[p].array
        /\ tp.policy = policy /\ tp.is_short = task[p].is_short
        /\ tp.prio = MAX_RT_PRIO - 1 - sched_priority
    BY <1>2, <2>1 DEF TaskRecord
  <2>3. Reactivate(p, tp) /\ task[p].policy # "SHORT"
    BY <1>9 DEF SetRealTime
  <2> HIDE DEF tp
  <2>4. FieldsAgree(tp)
    BY <1>2, <2>1, <2>2, <2>3 DEF FieldsAgree, IsRt
  <2> QED
    BY <1>5, <2>2, <2>3, <2>4
<1> QED
  BY <1>6, <1>7, <1>8, <1>9

LEMMA NiceKeeps ==
    ASSUME QueueInv, ForkInv, TypeOK', NEW t \in Task, NEW p \in Task,
           NEW nice \in Nices, set_user_nice(t, p, nice)
    PROVE  QueueInv' /\ ForkInv'
<1> DEFINE old == task[p]
           new == [old EXCEPT !.static_prio = nice,
                              !.prio = IF old.is_short = -1 /\ old.policy = "SHORT"
                                       THEN @ ELSE nice]
<1>1. /\ TypeOK /\ Runs(t, "entry") /\ Linked(p) /\ Goto(t, "exit")
      /\ UNCHANGED <<child, active, nr_running, nr_uninterruptible, curr>>
  BY DEF QueueInv, set_user_nice
<1>2. /\ old \in TaskRecord /\ InClass(old, Expired) /\ FieldsAgree(old)
      /\ old.array \in ArrayId \cup {NULL}
  BY <1>1, TaskFacts DEF QueueInv, InClass
<1>3. nice \in UserPrio /\ nice \in Prio /\ ~(nice < MAX_RT_PRIO)
  BY InputAssumption, PrioAssumption DEF UserPrio, Prio
<1>4. PcCalm /\ \A r \in Task : Absent(pc'[r]) <=> Absent(pc[r])
  BY <1>1, GotoCalm DEF Runs
<1>5. FieldsChange(p) /\ ForkUnhurt(p) /\ InOrder(arrays', task')
  <2>1. CASE IsRt(old)
    <3> DEFINE tp == [old EXCEPT !.static_prio = nice]
    <3>1. task' = [task EXCEPT ![p] = tp] /\ UNCHANGED arrays
      BY <2>1 DEF set_user_nice
    <3>2. /\ tp.array = task[p].array /\ tp.prio = task[p].prio /\ tp.state = task[p].state
          /\ tp.policy = task[p].policy /\ tp.is_short = task[p].is_short
      BY <1>2 DEF TaskRecord
    <3> HIDE DEF tp
    <3> QED
      BY <3>1, <3>2, SliceOnly
  <2>2. /\ new \in TaskRecord /\ new.state = old.state /\ new.array = old.array
        /\ new.policy = old.policy /\ new.is_short = old.is_short
        /\ new.prio = IF old.is_short = -1 /\ old.policy = "SHORT" THEN old.prio ELSE nice
    BY <1>2, <1>3 DEF TaskRecord
  <2>3. CASE ~IsRt(old) /\ old.array = NULL
    <3>1. task' = [task EXCEPT ![p] = new] /\ UNCHANGED arrays
      BY <2>3 DEF set_user_nice
    <3>2. Reactivate(p, new)
      BY <1>1, <2>3, <3>1 DEF Reactivate
    <3> HIDE DEF new
    <3>3. FieldsAgree(new)
      BY <1>2, <1>3, <2>2, <2>3 DEF FieldsAgree, IsRt
    <3>4. /\ FieldsChange(p) /\ InOrder(arrays', task')
          /\ task'[p].policy = new.policy /\ task'[p].is_short = new.is_short
      BY <1>1, <2>2, <3>2, <3>3, ReactivateStep DEF Runs
    <3> QED
      BY <2>2, <3>4 DEF FieldsChange, ForkUnhurt
  <2>4. CASE ~IsRt(old) /\ old.array # NULL
    <3>1. Requeue(p, old.array, old.array, new)
      BY <2>4 DEF set_user_nice
    <3> HIDE DEF new
    <3>2. FieldsAgree(new)
      BY <1>2, <1>3, <2>2, <2>4 DEF FieldsAgree, IsRt
    <3>3. /\ old.array = "short_active" => IsShort(new)
          /\ old.array = "overdue" => IsOverdue(new)
          /\ old.array \in {"array0", "array1"} => new.policy # "SHORT"
          /\ old.array = Expired => new.policy = "OTHER"
      BY <1>2, <2>2 DEF InClass, ArrayAgrees, IsShort, IsOverdue
    <3>4. /\ FieldsChange(p) /\ InOrder(arrays', task')
          /\ task'[p] = [new EXCEPT !.array = old.array]
      BY <1>2, <2>2, <2>4, <3>1, <3>2, <3>3, RequeueStep DEF Queued
    <3>5. task'[p].policy = old.policy /\ task'[p].is_short = old.is_short
      BY <2>2, <3>4 DEF TaskRecord
    <3> QED
      BY <3>4, <3>5 DEF FieldsChange, ForkUnhurt
  <2> QED
    BY <2>1, <2>3, <2>4
<1>6. ForkInv'
  BY <1>1, <1>4, <1>5, ForkFrame
<1>7. QueueInv'
  BY <1>1, <1>4, <1>5, FieldStep DEF Runs
<1> QED
  BY <1>6, <1>7

LEMMA AfterFirstFacts ==
    ASSUME NEW s \in Seq(Task), NEW p \in Task, NoRepeat(s), ~OnList(s, p)
    PROVE  /\ NoRepeat(AfterFirst(s, p))
           /\ \A r \in Task : OnList(AfterFirst(s, p), r) <=> OnList(s, r) \/ r = p
<1>1. CASE s = << >>
  <2>1. AfterFirst(s, p) = Append(s, p)
    BY <1>1 DEF AfterFirst
  <2>2. /\ NoRepeat(Append(s, p))
        /\ \A r \in Task : OnList(Append(s, p), r) <=> OnList(s, r) \/ r = p
    BY AppendedFacts
  <2> QED
    BY <2>1, <2>2
<1>2. CASE s # << >>
  <2> DEFINE w == AfterFirst(s, p)
  <2>1. Len(s) \in Nat /\ DOMAIN s = 1 .. Len(s) /\ Len(s) > 0
    BY <1>2
  <2>2. /\ DOMAIN w = 1 .. Len(s) + 1 /\ w[1] = s[1] /\ w[2] = p
        /\ \A j \in 2 .. Len(s) : w[j + 1] = s[j]
    <3>1. w = <<Head(s), p>> \o Tail(s)
      BY <1>2 DEF AfterFirst
    <3>2. Head(s) = s[1] /\ Tail(s) \in Seq(Task) /\ Len(Tail(s)) = Len(s) - 1
          /\ \A j \in 1 .. Len(s) - 1 : Tail(s)[j] = s[j + 1]
      BY <1>2, HeadTailProperties
    <3>3. <<Head(s), p>> \in Seq(Task)
      BY <2>1, <3>2
    <3> DEFINE h == <<Head(s), p>>
               e == Tail(s)
    <3>4. Len(h) = 2 /\ h[1] = s[1] /\ h[2] = p
      BY <3>2
    <3> HIDE DEF h, e
    <3>5. /\ Len(h \o e) = Len(s) + 1 /\ h \o e \in Seq(Task)
          /\ \A j \in 1 .. Len(s) + 1 : (h \o e)[j] = IF j <= 2 THEN h[j] ELSE e[j - 2]
      BY <2>1, <3>2, <3>3, <3>4, ConcatProperties DEF h, e
    <3>6. \A j \in 2 .. Len(s) : (h \o e)[j + 1] = s[j]
      <4> SUFFICES ASSUME NEW j \in 2 .. Len(s)
                   PROVE  (h \o e)[j + 1] = s[j]
        OBVIOUS
      <4>1. j + 1 \in 1 .. Len(s) + 1 /\ ~(j + 1 <= 2) /\ (j + 1) - 2 = j - 1
        BY <2>1
      <4>2. e[j - 1] = s[(j - 1) + 1]
        BY <2>1, <3>2 DEF e
      <4> QED
        BY <2>1, <3>5, <4>1, <4>2
    <3> QED
      BY <2>1, <3>1, <3>4, <3>5, <3>6 DEF h, e
  <2> HIDE DEF w
  <2>3. \A j \in DOMAIN w : j = 1 \/ j = 2 \/ \E i \in 2 .. Len(s) : j = i + 1
    <3> SUFFICES ASSUME NEW j \in DOMAIN w, j # 1, j # 2
                 PROVE  \E i \in 2 .. Len(s) : j = i + 1
      OBVIOUS
    <3>1. j - 1 \in 2 .. Len(s) /\ j = (j - 1) + 1
      BY <2>1, <2>2
    <3> QED
      BY <3>1
  <2>4. /\ 1 \in DOMAIN w /\ 2 \in DOMAIN w /\ 1 \in DOMAIN s
        /\ \A i \in 2 .. Len(s) : i + 1 \in DOMAIN w /\ i \in DOMAIN s
        /\ \A i \in DOMAIN s : i = 1 \/ i \in 2 .. Len(s)
    BY <2>1, <2>2
  <2>5. NoRepeat(w)
    <3> SUFFICES ASSUME NEW i \in DOMAIN w, NEW j \in DOMAIN w, w[i] = w[j]
                 PROVE  i = j
      BY DEF NoRepeat
    <3>1. \A k \in 2 .. Len(s) : k # 1 /\ s[k] # s[1] /\ s[k] # p /\ s[1] # p
      BY <2>4 DEF NoRepeat, OnList
    <3>2. s[1] # p
      BY <2>4 DEF OnList
    <3>3. CASE (i = 1 \/ i = 2) /\ (j = 1 \/ j = 2)
      BY <2>2, <3>2, <3>3
    <3>4. CASE (i = 1 \/ i = 2) /\ j # 1 /\ j # 2
      BY <2>2, <2>3, <3>1, <3>4
    <3>5. CASE (j = 1 \/ j = 2) /\ i # 1 /\ i # 2
      BY <2>2, <2>3, <3>1, <3>5
    <3>6. CASE i # 1 /\ i # 2 /\ j # 1 /\ j # 2
      <4>1. PICK k \in 2 .. Len(s), l \in 2 .. Len(s) : i = k + 1 /\ j = l + 1
        BY <2>3, <3>6
      <4>2. s[k] = s[l] /\ k \in DOMAIN s /\ l \in DOMAIN s
        BY <2>2, <2>4, <4>1
      <4> QED
        BY <4>1, <4>2 DEF NoRepeat
    <3> QED
      BY <3>3, <3>4, <3>5, <3>6
  <2>6. ASSUME NEW r \in Task
        PROVE  OnList(w, r) <=> OnList(s, r) \/ r = p
    <3>1. ASSUME NEW j \in DOMAIN w, w[j] = r
          PROVE  OnList(s, r) \/ r = p
      BY <2>2, <2>3, <2>4, <3>1 DEF OnList
    <3>2. ASSUME NEW i \in DOMAIN s, s[i] = r
          PROVE  OnList(w, r)
      BY <2>2, <2>4, <3>2 DEF OnList
    <3>3. OnList(w, p)
      BY <2>2, <2>4 DEF OnList
    <3> QED
      BY <3>1, <3>2, <3>3 DEF OnList
  <2> QED
    BY <2>5, <2>6 DEF w
<1> QED
  BY <1>1, <1>2

LEMMA YieldKeeps ==
    ASSUME QueueInv, ForkInv, TypeOK', NEW t \in Task, sys_sched_yield(t)
    PROVE  QueueInv' /\ ForkInv'
<1> DEFINE a == task[t].array
           prio == task[t].prio
           unlinked == Unlinked(arrays, t)
<1>1. /\ TypeOK /\ InOrder(arrays, task) /\ Runs(t, "entry") /\ Goto(t, "yield")
      /\ UNCHANGED <<need_resched, child, active, nr_running, nr_uninterruptible, curr>>
  BY DEF QueueInv, sys_sched_yield
<1>2. /\ curr = t /\ Queued(t) /\ task[t] \in TaskRecord /\ a \in ArrayId /\ prio \in Prio
      /\ InClass(task[t], Expired) /\ FieldsAgree(task[t])
  <2>1. curr = t /\ Queued(t)
    BY <1>1 DEF Runs, QueueInv, RunnableIsQueued
  <2>2. InClass(task[t], Expired)
    BY DEF QueueInv
  <2> QED
    BY <1>1, <2>1, <2>2, TaskFacts DEF InClass
<1>3. PcCalm /\ \A r \in Task : Absent(pc'[r]) <=> Absent(pc[r])
  BY <1>1, GotoCalm DEF Runs
<1>4. ASSUME NEW q \in Prio
      PROVE  /\ unlinked[a].queue[q] \in Seq(Task) /\ NoRepeat(unlinked[a].queue[q])
             /\ ~OnList(unlinked[a].queue[q], t)
  <2>1. /\ arrays[a].queue[q] \in Seq(Task) /\ unlinked[a].queue[q] \in Seq(Task)
        /\ unlinked[a].queue[q] = Without(arrays[a].queue[q], t)
    BY <1>1, <1>2, UnlinkedFacts DEF TypeOK
  <2>2. NoRepeat(arrays[a].queue[q])
    BY <1>1, <1>2 DEF InOrder, ListInOrder
  <2> QED
    BY <2>1, <2>2, WithoutFacts
<1>5. FieldsChange(t) /\ ForkUnhurt(t) /\ InOrder(arrays', task')
  <2>1. CASE task[t].policy = "SHORT"
    <3>1. Activate(t, task[t], Dequeue(arrays, a, prio, t))
      BY <2>1 DEF sys_sched_yield
    <3>2. /\ OthersSame(t) /\ InOrder(arrays', task')
          /\ \E p \in ActivatePrios(task[t]) : task'[t] = Activated(task[t], p)
      BY <1>1, <1>2, <3>1, ReactivatedInOrder
    <3>3. /\ task'[t].policy = task[t].policy /\ task'[t].is_short = task[t].is_short
          /\ task'[t].state = task[t].state /\ task'[t].array \in ArrayId
          /\ InClass(task'[t], Expired)
      BY <1>1, <1>2, <3>2, ActivatedFacts
    <3>4. task'[t].array # NULL /\ task[t].array # NULL
      BY <1>1, <1>2, <3>3, TaskFacts
    <3> QED
      BY <3>2, <3>3, <3>4 DEF FieldsChange, ForkUnhurt
  <2>2. ASSUME NEW list \in Seq(Task), NoRepeat(list), UNCHANGED task,
               \A r \in Task : OnList(list, r) <=> OnList(unlinked[a].queue[prio], r) \/ r = t,
               arrays' = SetList(unlinked, a, prio, list)
        PROVE  FieldsChange(t) /\ ForkUnhurt(t) /\ InOrder(arrays', task')
    <3>1. InOrder(SetList(Unlinked(arrays, t), a, prio, list), task)
      BY <1>1, <1>2, <2>2, MoveInOrder DEF TypeOK
    <3> QED
      BY <1>2, <2>2, <3>1 DEF FieldsChange, ForkUnhurt, OthersSame
  <2>3. CASE /\ UNCHANGED task
             /\ arrays' = SetList(unlinked, a, prio, Append(unlinked[a].queue[prio], t))
    <3>1. /\ Append(unlinked[a].queue[prio], t) \in Seq(Task)
          /\ NoRepeat(Append(unlinked[a].queue[prio], t))
          /\ \A r \in Task : OnList(Append(unlinked[a].queue[prio], t), r) <=>
                                 OnList(unlinked[a].queue[prio], r) \/ r = t
      BY <1>2, <1>4, AppendedFacts
    <3> DEFINE list == Append(unlinked[a].queue[prio], t)
    <3>2. UNCHANGED task /\ arrays' = SetList(unlinked, a, prio, list)
      BY <2>3
    <3> HIDE DEF list, unlinked
    <3> QED
      BY <2>2, <3>1, <3>2 DEF list
  <2>4. CASE /\ UNCHANGED task
             /\ arrays' = SetList(unlinked, a, prio, AfterFirst(unlinked[a].queue[prio], t))
    <3>1. /\ AfterFirst(unlinked[a].queue[prio], t) \in Seq(Task)
          /\ NoRepeat(AfterFirst(unlinked[a].queue[prio], t))
          /\ \A r \in Task : OnList(AfterFirst(unlinked[a].queue[prio], t), r) <=>
                                 OnList(unlinked[a].queue[prio], r) \/ r = t
      BY <1>2, <1>4, AfterFirstFacts, AfterFirstType
    <3> DEFINE list == AfterFirst(unlinked[a].queue[prio], t)
    <3>2. UNCHANGED task /\ arrays' = SetList(unlinked, a, prio, list)
      BY <2>4
    <3> HIDE DEF list, unlinked
    <3> QED
      BY <2>2, <3>1, <3>2 DEF list
  <2>5. CASE /\ YieldDown(t, unlinked) /\ unlinked[a].queue[prio] = << >>
             /\ task[t].policy # "SHORT" /\ ~IsRt(task[t])
    <3> DEFINE bits == arrays[a].bitmap \ {prio}
    <3>1. PICK i \in 0 .. MAX_PRIO :
            /\ IsFirstBit(bits, i)
            /\ LET q == IF i = MAX_PRIO \/ i <= prio THEN prio ELSE i IN
               /\ task' = [task EXCEPT ![t].prio = q]
               /\ arrays' = SetBitmap(SetList(unlinked, a, q,
                                              AfterFirst(unlinked[a].queue[q], t)),
                                      a, bits \cup {q})
      BY <2>5 DEF YieldDown
    <3> DEFINE q == IF i = MAX_PRIO \/ i <= prio THEN prio ELSE i
    <3>2. q \in Prio /\ ~(q < MAX_RT_PRIO)
      BY <1>2, <2>5, PrioAssumption DEF Prio, IsRt
    <3>3. task' = [task EXCEPT ![t] = [task[t] EXCEPT !.prio = q]]
      BY <3>1
    <3>4. arrays' = SetBitmap(SetList(unlinked, a, q, AfterFirst(unlinked[a].queue[q], t)),
                              a, bits \cup {q})
      BY <3>1
    <3> HIDE DEF q
    <3>5. /\ OthersSame(t) /\ task'[t].prio = q /\ task'[t].array = a
          /\ task'[t].state = task[t].state /\ task'[t].policy = task[t].policy
          /\ task'[t].is_short = task[t].is_short
      BY <1>1, <1>2, <3>3 DEF TypeOK, OthersSame, TaskRecord
    <3>6. SameBut(t, task, task')
      BY <3>5 DEF OthersSame, SameBut
    <3> DEFINE list == AfterFirst(unlinked[a].queue[q], t)
               now == task'
    <3>7. /\ list \in Seq(Task) /\ NoRepeat(list)
          /\ \A r \in Task : OnList(list, r) <=> OnList(unlinked[a].queue[q], r) \/ r = t
      BY <1>4, <3>2, AfterFirstFacts, AfterFirstType
    <3>8. now[t].array = a /\ now[t].prio = q /\ SameBut(t, task, now)
      BY <3>5, <3>6
    <3>9. /\ Unlinked(arrays, t)[a].queue[prio] = << >>
          /\ \A r \in Task : OnList(list, r) <=>
                                 OnList(Unlinked(arrays, t)[a].queue[q], r) \/ r = t
      BY <2>5, <3>7
    <3>10. /\ arrays \in PrioArrays /\ task[t].array = a /\ task[t].prio = prio
           /\ a \in ArrayId /\ prio \in Prio
      BY <1>1, <1>2 DEF TypeOK
    <3> HIDE DEF now, list, unlinked
    <3>11. InOrder(SetBitmap(SetList(Unlinked(arrays, t), a, q, list), a,
                             (arrays[a].bitmap \ {prio}) \cup {q}), now)
      BY <1>1, <3>2, <3>7, <3>8, <3>9, <3>10, DropInOrder
    <3>12. InOrder(arrays', task')
      BY <3>4, <3>11 DEF now, list, unlinked
    <3>13. InClass(task'[t], Expired)
      BY <1>2, <2>5, <3>2, <3>5 DEF InClass, FieldsAgree, ArrayAgrees, IsRt, IsShort, IsOverdue
    <3> QED
      BY <3>5, <3>12, <3>13 DEF FieldsChange, ForkUnhurt
  <2> QED
    BY <2>1, <2>3, <2>4, <2>5 DEF sys_sched_yield
<1>6. ForkInv'
  BY <1>1, <1>3, <1>5, ForkFrame
<1>7. QueueInv'
  BY <1>1, <1>2, <1>3, <1>5, FieldStep
<1> QED
  BY <1>6, <1>7
-----------------------------------------------------------------------------
(* Steps that change no more than a slice and where a task is              *)

LEMMA ReturnCalm ==
    ASSUME TypeOK, ReturnFromInterrupt
    PROVE  PcCalm /\ \A r \in Task : Absent(pc'[r]) <=> Absent(pc[r])
BY DEF TypeOK, ReturnFromInterrupt, PcCalm, Absent

LEMMA TickStep ==
    ASSUME QueueInv, ForkInv, TypeOK', Tick
    PROVE  QueueInv' /\ ForkInv'
<1>1. PICK p \in Task : curr = p
  BY DEF Tick
<1>2. scheduler_tick(p) /\ ReturnFromInterrupt /\ UNCHANGED child
  BY <1>1 DEF Tick
<1>3. TypeOK /\ UNCHANGED <<active, nr_running, nr_uninterruptible, curr>>
  BY <1>2 DEF QueueInv, scheduler_tick
<1>4. FieldsChange(p) /\ ForkUnhurt(p) /\ InOrder(arrays', task')
  BY <1>1, <1>2, TickKeeps
<1>5. PcCalm /\ \A r \in Task : Absent(pc'[r]) <=> Absent(pc[r])
  BY <1>2, <1>3, ReturnCalm
<1>6. ForkInv'
  BY <1>2, <1>3, <1>4, <1>5, ForkFrame
<1>7. QueueInv'
  BY <1>1, <1>3, <1>4, <1>5, FieldStep
<1> QED
  BY <1>6, <1>7

LEMMA KernelEntryStep ==
    ASSUME QueueInv, ForkInv, TypeOK', NEW t \in Task,
           SystemCall(t) \/ NoEffect(t) \/ ReturnToUser(t)
    PROVE  QueueInv' /\ ForkInv'
<1>1. /\ TypeOK /\ curr = t
      /\ UNCHANGED <<task, arrays, active, nr_running, nr_uninterruptible, child, curr>>
  BY DEF QueueInv, SystemCall, NoEffect, ReturnToUser, Runs, queues
<1>2. PcCalm /\ \A r \in Task : Absent(pc'[r]) <=> Absent(pc[r])
  BY <1>1, GotoCalm DEF SystemCall, NoEffect, ReturnToUser, Runs
<1>3. FieldsChange(t) /\ ForkUnhurt(t) /\ InOrder(arrays', task')
  BY <1>1, SameTasks
<1>4. ForkInv'
  BY <1>1, <1>2, <1>3, ForkFrame
<1>5. QueueInv'
  BY <1>1, <1>2, <1>3, FieldStep
<1> QED
  BY <1>4, <1>5

\* The current task changes its state before it calls schedule(), a task that
\* is still queued becomes runnable again, or the current one dies.
LEMMA StateStep ==
    ASSUME QueueInv, TypeOK', NEW p \in Task, Queued(p),
           \A r \in Task : /\ task'[r].array = task[r].array /\ task'[r].prio = task[r].prio
                           /\ task'[r].policy = task[r].policy
                           /\ task'[r].is_short = task[r].is_short
                           /\ r # p => task'[r].state = task[r].state
                           /\ Absent(pc'[r]) <=> Absent(pc[r]),
           task'[p].state = "RUNNING" \/ p = curr,
           UNCHANGED <<arrays, active, curr, nr_running, nr_uninterruptible, need_resched>>
    PROVE  QueueInv'
<1>1. \A r \in Task : Queued(r)' <=> Queued(r)
  BY DEF Queued
<1>2. InOrder(arrays', task')
  <2> DEFINE now == task'
  <2>1. \A r \in Task : /\ now[r].array = task[r].array
                        /\ task[r].array \in ArrayId => now[r].prio = task[r].prio
    OBVIOUS
  <2>2. InOrder(arrays, task)
    BY DEF QueueInv
  <2> HIDE DEF now
  <2>3. InOrder(arrays, now)
    BY <2>1, <2>2, SameInOrder
  <2> QED
    BY <2>3 DEF now
<1>3. \A r \in Task : InClass(task'[r], Expired')
  <2>1. Expired' = Expired /\ \A r \in Task : InClass(task[r], Expired)
    BY DEF Expired, QueueInv
  <2> QED
    BY <2>1 DEF InClass, FieldsAgree, ArrayAgrees, IsRt, IsShort, IsOverdue
<1>4. RunnableIsQueued'
  <2>1. ASSUME NEW r \in Task
        PROVE  /\ task'[r].state = "RUNNING" => Queued(r)'
               /\ Queued(r)' => task'[r].state = "RUNNING" \/ r = curr
    BY <1>1 DEF QueueInv, RunnableIsQueued
  <2>2. curr # WILD /\ (curr \in Task => Queued(curr))
    BY DEF QueueInv, RunnableIsQueued
  <2>3. curr' # WILD /\ (curr' \in Task => Queued(curr)')
    BY <2>2 DEF Queued
  <2> QED
    BY <2>1, <2>3 DEF RunnableIsQueued
<1>5. AbsentUnqueued'
  BY <1>1 DEF QueueInv, AbsentUnqueued
<1>6. Ready' = Ready /\ Sleepers' = Sleepers
  BY <1>1 DEF Ready, Sleepers
<1>7. CountsExact'
  BY <1>6 DEF QueueInv, CountsExact
<1>8. IdleSeesWork'
  BY DEF QueueInv, IdleSeesWork
<1> QED
  BY <1>2, <1>3, <1>4, <1>5, <1>7, <1>8 DEF QueueInv

\* Nobody is past the point where a parent holds on to the CPU.
LEMMA CopyFrame ==
    ASSUME TypeOK, ForkInv, PcCalm, UNCHANGED child,
           \A r \in Task : ~Linking(pc[r]) /\ task'[r].policy = task[r].policy
    PROVE  ForkInv'
<1> SUFFICES ASSUME NEW t \in Task
             PROVE  ~Linking(pc'[t]) /\ (pc'[t] = "copy" => CopyAgrees(t)')
  BY DEF ForkInv
<1>1. child[t] \in Task
  BY DEF TypeOK
<1>2. \A r \in Task : /\ pc'[r] = "copy" <=> pc[r] = "copy"
                      /\ pc'[r] = "new" <=> pc[r] = "new"
                      /\ ~Linking(pc'[r])
  BY DEF PcCalm, Linking
<1>3. ASSUME pc'[t] = "copy"
      PROVE  CopyAgrees(t)'
  <2>1. CopyAgrees(t)
    BY <1>2, <1>3 DEF ForkInv
  <2> QED
    BY <1>1, <1>2, <2>1 DEF CopyAgrees
<1> QED
  BY <1>2, <1>3

LEMMA NobodyLinks ==
    ASSUME ForkInv, curr \notin Task \/ ~Linking(pc[curr]) \/ task[curr].state # "RUNNING"
    PROVE  \A r \in Task : ~Linking(pc[r])
BY DEF ForkInv, LinkAgrees

LEMMA SetStateStep ==
    ASSUME QueueInv, ForkInv, TypeOK', NEW t \in Task, NEW state, SetState(t, state)
    PROVE  QueueInv' /\ ForkInv'
<1>1. /\ TypeOK /\ curr = t /\ task[t].state = "RUNNING" /\ pc[t] \in {"entry", "copy"}
      /\ task' = [task EXCEPT ![t].state = state]
      /\ UNCHANGED <<need_resched, pc, child, arrays, active, nr_running,
                     nr_uninterruptible, curr>>
  BY DEF QueueInv, SetState, Runs, queues
<1>2. \A r \in Task : /\ task'[r].array = task[r].array /\ task'[r].prio = task[r].prio
                      /\ task'[r].policy = task[r].policy
                      /\ task'[r].is_short = task[r].is_short
                      /\ r # t => task'[r] = task[r]
  BY <1>1 DEF TypeOK, TaskRecord
<1>3. Queued(t)
  BY <1>1 DEF QueueInv, RunnableIsQueued
<1>4. QueueInv'
  BY <1>1, <1>2, <1>3, StateStep
<1>5. PcCalm /\ ~Linking(pc[t])
  BY <1>1 DEF PcCalm, Linking
<1>6. ForkUnhurt(t)
  BY <1>2, <1>5 DEF ForkUnhurt, OthersSame
<1>7. ForkInv'
  BY <1>1, <1>5, <1>6, ForkFrame
<1> QED
  BY <1>4, <1>7

LEMMA ExitStep ==
    ASSUME QueueInv, ForkInv, TypeOK', NEW t \in Task, do_exit(t)
    PROVE  QueueInv' /\ ForkInv'
<1>1. /\ TypeOK /\ curr = t /\ task[t].state = "RUNNING" /\ pc[t] = "entry"
      /\ Goto(t, "dead")
      /\ UNCHANGED <<need_resched, child, arrays, active, nr_running,
                     nr_uninterruptible, curr>>
  BY DEF QueueInv, do_exit, Runs, queues
<1>2. \A r \in Task : /\ task'[r].array = task[r].array /\ task'[r].prio = task[r].prio
                      /\ task'[r].policy = task[r].policy
                      /\ task'[r].is_short = task[r].is_short
                      /\ r # t => task'[r].state = task[r].state
  <2> SUFFICES ASSUME NEW r \in Task
               PROVE  /\ task'[r].array = task[r].array /\ task'[r].prio = task[r].prio
                      /\ task'[r].policy = task[r].policy
                      /\ task'[r].is_short = task[r].is_short
                      /\ r # t => task'[r].state = task[r].state
    OBVIOUS
  <2>1. task[r] \in TaskRecord
    BY <1>1, TaskFacts
  <2>2. \/ r = t /\ task'[r] = [task[r] EXCEPT !.state = "ZOMBIE"]
        \/ r # t /\ task'[r] = [task[r] EXCEPT !.parent = Init1, !.first_time_slice = FALSE]
        \/ r # t /\ task'[r] = task[r]
    BY DEF do_exit
  <2> QED
    BY <2>1, <2>2 DEF TaskRecord
<1>3. Queued(t)
  BY <1>1 DEF QueueInv, RunnableIsQueued
<1>4. PcCalm /\ \A r \in Task : Absent(pc'[r]) <=> Absent(pc[r])
  BY <1>1, GotoCalm
<1>5. QueueInv'
  BY <1>1, <1>2, <1>3, <1>4, StateStep
<1>6. \A r \in Task : ~Linking(pc[r])
  BY <1>1, NobodyLinks DEF Linking
<1>7. ForkInv'
  BY <1>1, <1>2, <1>4, <1>6, CopyFrame
<1> QED
  BY <1>5, <1>7
-----------------------------------------------------------------------------
(* schedule()                                                              *)

\* The first task of the first list in use of an array that holds one.
LEMMA HeadOfArray ==
    ASSUME NEW lists \in PrioArrays, NEW tk, InOrder(lists, tk),
           \A p \in Task : tk[p].prio \in Prio,
           NEW a \in ArrayId, NEW idx, IsFirstBit(lists[a].bitmap, idx),
           NEW p \in Task, tk[p].array = a
    PROVE  /\ idx # MAX_PRIO /\ lists[a].queue[idx] # << >>
           /\ Head(lists[a].queue[idx]) \in Task
           /\ tk[Head(lists[a].queue[idx])].array = a
           /\ tk[Head(lists[a].queue[idx])].prio = idx
<1>1. \A q \in Prio : ListInOrder(lists, tk, a, q)
  BY DEF InOrder
<1>2. \A q \in Prio : lists[a].queue[q] \in Seq(Task)
  BY DEF PrioArrays
<1>3. tk[p].prio \in Prio /\ tk[p].prio \in lists[a].bitmap
  <2> DEFINE q == tk[p].prio
  <2>1. q \in Prio /\ ListInOrder(lists, tk, a, q)
    BY <1>1
  <2>2. OnList(lists[a].queue[q], p)
    BY <2>1 DEF ListInOrder
  <2>3. lists[a].queue[q] # << >>
    BY <1>2, <2>1, <2>2, EmptyList
  <2> QED
    BY <2>1, <2>3 DEF ListInOrder
<1>4. idx \in Prio /\ idx # MAX_PRIO /\ idx \in lists[a].bitmap
  <2>1. idx <= tk[p].prio /\ idx \in lists[a].bitmap \cup {MAX_PRIO}
    BY <1>3 DEF IsFirstBit
  <2>2. lists[a].bitmap \subseteq Prio
    BY DEF PrioArrays
  <2> QED
    BY <1>3, <2>1, <2>2, PrioAssumption DEF Prio
<1> DEFINE list == lists[a].queue[idx]
<1>5. list \in Seq(Task) /\ list # << >> /\ ListInOrder(lists, tk, a, idx)
  BY <1>1, <1>2, <1>4 DEF ListInOrder
<1>6. \A r \in Task : OnList(list, r) => tk[r].array = a /\ tk[r].prio = idx
  BY <1>5 DEF ListInOrder
<1> HIDE DEF list
<1>7. Head(list) \in Task /\ OnList(list, Head(list))
  <2>1. Head(list) = list[1] /\ 1 \in DOMAIN list /\ list[1] \in Task
    BY <1>5
  <2> QED
    BY <2>1 DEF OnList
<1> QED
  BY <1>4, <1>5, <1>6, <1>7 DEF list

\* nr_active tells whether an array holds a task.
LEMMA ActiveCount ==
    ASSUME NEW lists, NEW tk, InOrder(lists, tk), NEW a \in ArrayId
    PROVE  lists[a].nr_active # 0 <=> \E p \in Task : tk[p].array = a
<1> DEFINE S == InArray(tk, a)
<1>1. IsFiniteSet(S) /\ lists[a].nr_active = Cardinality(S)
  BY MembersFinite DEF InOrder
<1>2. S = {} <=> ~\E p \in Task : tk[p].array = a
  BY DEF InArray
<1> HIDE DEF S
<1> QED
  BY <1>1, <1>2, FS_EmptySet

\* A list in use has its bit set, so the first bit is no greater.
LEMMA FirstBitLeast ==
    ASSUME NEW lists \in PrioArrays, NEW tk, InOrder(lists, tk),
           \A p \in Task : tk[p].prio \in Prio,
           NEW a \in ArrayId, NEW bit, IsFirstBit(lists[a].bitmap, bit),
           NEW p \in Task, tk[p].array = a
    PROVE  bit <= tk[p].prio
<1> DEFINE q == tk[p].prio
<1>1. q \in Prio /\ ListInOrder(lists, tk, a, q) /\ lists[a].queue[q] \in Seq(Task)
  BY DEF InOrder, PrioArrays
<1>2. OnList(lists[a].queue[q], p)
  BY <1>1 DEF ListInOrder
<1>3. lists[a].queue[q] # << >>
  BY <1>1, <1>2, EmptyList
<1>4. q \in lists[a].bitmap
  BY <1>1, <1>3 DEF ListInOrder
<1> QED
  BY <1>4 DEF IsFirstBit

\* The order of the code, by arrays: a real-time task of the regular array in
\* use, short_active, the regular array in use, overdue.
NoRealTime(tk, act) == \A q \in Task : tk[q].array = act => ~(tk[q].prio < MAX_RT_PRIO)

PickedBest(tk, act, next) ==
    \/ tk[next].array = act /\ tk[next].prio < MAX_RT_PRIO
    \/ tk[next].array = "short_active" /\ NoRealTime(tk, act)
    \/ /\ tk[next].array = act /\ NoRealTime(tk, act)
       /\ \A q \in Task : tk[q].array # "short_active"
    \/ /\ tk[next].array = "overdue"
       /\ \A q \in Task : tk[q].array \in ArrayId => tk[q].array = "overdue"

\* The next task is the one that the order calls for, or there is none at all,
\* and a regular array is replaced by the other one only when nobody waits in it.
LEMMA PickFacts ==
    ASSUME active \in {"array0", "array1"},
           NEW lists \in PrioArrays, NEW tk, InOrder(lists, tk),
           \A p \in Task : tk[p].prio \in Prio,
           NEW running, running = 0 <=> \A p \in Task : tk[p].array \notin ArrayId,
           PickNext(lists, running)
    PROVE  /\ \/ curr' = Idle /\ running = 0
              \/ /\ curr' \in Task /\ tk[curr'].array \in ArrayId
                 /\ running # 0 /\ PickedBest(tk, active', curr')
           /\ \/ active' = active
              \/ active' = Expired /\ \A p \in Task : tk[p].array # active
<1>1. CASE running = 0
  BY <1>1 DEF PickNext
<1>2. CASE running # 0
  <2> DEFINE act == IF lists[active].nr_active = 0 THEN Expired ELSE active
  <2>1. active' = act
    BY <1>2 DEF PickNext
  <2>2. PICK next \in Task \cup {WILD} : Picks(lists, act, next) /\ curr' = next
    BY <1>2 DEF PickNext
  <2>3. /\ active \in ArrayId /\ act \in ArrayId /\ Expired \in ArrayId
        /\ {"short_active", "overdue"} \subseteq ArrayId
        /\ ArrayId = {active, Expired, "short_active", "overdue"}
    BY DEF ArrayId, Expired
  <2>4. act = active \/ (act = Expired /\ \A p \in Task : tk[p].array # active)
    BY <2>3, ActiveCount
  <2>5. lists[act].nr_active = 0 =>
          \A p \in Task : tk[p].array # active /\ tk[p].array # Expired
    BY <2>3, <2>4, ActiveCount
  <2> HIDE DEF act
  <2>6. PICK bit \in 0 .. MAX_PRIO, idx \in 0 .. MAX_PRIO :
          LET picked == lists[PickedArray(lists, act, bit)] IN
          /\ IsFirstBit(lists[act].bitmap, bit)
          /\ IsFirstBit(picked.bitmap, idx)
          /\ next = IF idx = MAX_PRIO \/ picked.queue[idx] = << >>
                    THEN WILD ELSE Head(picked.queue[idx])
    BY <2>2 DEF Picks
  <2> DEFINE a == PickedArray(lists, act, bit)
  <2>7. /\ lists["short_active"].nr_active = 0 =>
              \A q \in Task : tk[q].array # "short_active"
        /\ bit > MAX_RT_PRIO - 1 => NoRealTime(tk, act)
    <3>1. ASSUME bit > MAX_RT_PRIO - 1, NEW q \in Task, tk[q].array = act
          PROVE  ~(tk[q].prio < MAX_RT_PRIO)
      <4>1. bit <= tk[q].prio /\ tk[q].prio \in Int
        BY <2>3, <2>6, <3>1, FirstBitLeast DEF Prio
      <4> QED
        BY <3>1, <4>1, PrioAssumption
    <3> QED
      BY <2>3, <3>1, ActiveCount DEF NoRealTime
  <2>8. \/ /\ a = "short_active" /\ NoRealTime(tk, act)
           /\ \E p \in Task : tk[p].array = a
        \/ /\ a = act /\ \E p \in Task : tk[p].array = a
           /\ bit > MAX_RT_PRIO - 1 => /\ NoRealTime(tk, act)
                                       /\ \A q \in Task : tk[q].array # "short_active"
        \/ /\ a = "overdue" /\ \E p \in Task : tk[p].array = a
           /\ \A q \in Task : tk[q].array \in ArrayId => tk[q].array = "overdue"
    <3>1. CASE bit > MAX_RT_PRIO - 1 /\ lists["short_active"].nr_active # 0
      BY <2>3, <2>7, <3>1, ActiveCount DEF PickedArray
    <3>2. CASE /\ ~(bit > MAX_RT_PRIO - 1 /\ lists["short_active"].nr_active # 0)
               /\ lists[act].nr_active # 0
      BY <2>3, <2>7, <3>2, ActiveCount DEF PickedArray
    <3>3. CASE /\ ~(bit > MAX_RT_PRIO - 1 /\ lists["short_active"].nr_active # 0)
               /\ lists[act].nr_active = 0
      <4>1. a = "overdue"
        BY <3>3 DEF PickedArray
      <4>2. bit = MAX_PRIO
        <5>1. \A q \in Prio : ~(q \in lists[act].bitmap)
          <6> SUFFICES ASSUME NEW q \in Prio
                       PROVE  lists[act].queue[q] = << >>
            BY <2>3 DEF InOrder, ListInOrder
          <6>1. lists[act].queue[q] \in Seq(Task) /\ ListInOrder(lists, tk, act, q)
            BY <2>3 DEF PrioArrays, InOrder
          <6>2. \A r \in Task : tk[r].array # act
            BY <2>4, <2>5, <3>3
          <6> QED
            BY <6>1, <6>2, EmptyList DEF ListInOrder
        <5>2. lists[act].bitmap \subseteq Prio
          BY <2>3 DEF PrioArrays
        <5> QED
          BY <2>6, <5>1, <5>2 DEF IsFirstBit
      <4>3. lists["short_active"].nr_active = 0
        BY <3>3, <4>2, PrioAssumption
      <4>4. \A q \in Task : tk[q].array \in ArrayId => tk[q].array = "overdue"
        BY <2>3, <2>5, <2>7, <3>3, <4>3
      <4>5. PICK p \in Task : tk[p].array \in ArrayId
        BY <1>2
      <4> QED
        BY <4>1, <4>4, <4>5
    <3> QED
      BY <3>1, <3>2, <3>3
  <2> HIDE DEF a
  <2>9. /\ IsFirstBit(lists[a].bitmap, idx)
        /\ next = IF idx = MAX_PRIO \/ lists[a].queue[idx] = << >>
                  THEN WILD ELSE Head(lists[a].queue[idx])
    BY <2>6 DEF a
  <2>10. next \in Task /\ tk[next].array = a /\ tk[next].prio = idx
    <3>1. PICK p \in Task : tk[p].array = a
      BY <2>8
    <3>2. a \in ArrayId /\ IsFirstBit(lists[a].bitmap, idx)
      BY <2>3, <2>8, <2>9
    <3>3. /\ idx # MAX_PRIO /\ lists[a].queue[idx] # << >>
          /\ Head(lists[a].queue[idx]) \in Task
          /\ tk[Head(lists[a].queue[idx])].array = a
          /\ tk[Head(lists[a].queue[idx])].prio = idx
      BY <3>1, <3>2, HeadOfArray
    <3>4. next = Head(lists[a].queue[idx])
      BY <2>9, <3>3
    <3> QED
      BY <3>3, <3>4
  <2>11. PickedBest(tk, act, next)
    <3>1. CASE a = "short_active" /\ NoRealTime(tk, act)
      BY <2>10, <3>1 DEF PickedBest
    <3>2. CASE /\ a = act
               /\ bit > MAX_RT_PRIO - 1 => /\ NoRealTime(tk, act)
                                           /\ \A q \in Task : tk[q].array # "short_active"
      <4>1. idx = bit
        BY <2>6, <2>9, <3>2 DEF IsFirstBit
      <4>2. bit > MAX_RT_PRIO - 1 \/ tk[next].prio < MAX_RT_PRIO
        BY <2>10, <4>1, PrioAssumption
      <4> QED
        BY <2>10, <3>2, <4>2 DEF PickedBest
    <3>3. CASE /\ a = "overdue"
               /\ \A q \in Task : tk[q].array \in ArrayId => tk[q].array = "overdue"
      BY <2>10, <3>3 DEF PickedBest
    <3> QED
      BY <2>8, <3>1, <3>2, <3>3
  <2>12. a \in ArrayId
    BY <2>3, <2>8
  <2> QED
    BY <1>2, <2>1, <2>2, <2>4, <2>10, <2>11, <2>12
<1> QED
  BY <1>1, <1>2

\* The run queue once the previous task is off it, or stays on it.
OffCpu ==
    /\ InOrder(arrays', task')
    /\ \A r \in Task : /\ task'[r].prio = task[r].prio
                       /\ task'[r].policy = task[r].policy
                       /\ task'[r].is_short = task[r].is_short
                       /\ task'[r].array \in {task[r].array, NULL}
                       /\ task'[r].state = "RUNNING" <=> Queued(r)'
                       /\ Absent(pc[r]) => task'[r] = task[r]
    /\ CountsExact'

LEMMA LeaveStep ==
    ASSUME QueueInv, NEW p \in Task, curr = p, task[p].state # "RUNNING", LeaveCpu,
           \A r \in Task : Absent(pc'[r]) <=> Absent(pc[r])
    PROVE  OffCpu
<1>1. TypeOK /\ InOrder(arrays, task) /\ Queued(p) /\ ~Absent(pc[p])
  BY DEF QueueInv, RunnableIsQueued, AbsentUnqueued
<1>2. task[p].array \in ArrayId /\ task[p].prio \in Prio /\ task[p] \in TaskRecord
      /\ NULL \notin ArrayId
  BY <1>1, TaskFacts
<1>3. task' = [task EXCEPT ![p] = [task[p] EXCEPT !.array = NULL]]
  BY DEF LeaveCpu
<1>4. /\ task'[p].array = NULL /\ task'[p].prio = task[p].prio
      /\ task'[p].policy = task[p].policy /\ task'[p].is_short = task[p].is_short
      /\ task'[p].state = task[p].state
      /\ \A r \in Task \ {p} : task'[r] = task[r]
  BY <1>1, <1>2, <1>3 DEF TypeOK, TaskRecord
<1>5. arrays' = Dequeue(arrays, task[p].array, task[p].prio, p)
  BY DEF LeaveCpu
<1>6. InOrder(arrays', task')
  <2> DEFINE now == task'
  <2>1. now[p].array \notin ArrayId /\ SameBut(p, task, now)
    BY <1>2, <1>4 DEF SameBut
  <2>2. arrays \in PrioArrays
    BY <1>1 DEF TypeOK
  <2> HIDE DEF now
  <2>3. InOrder(Dequeue(arrays, task[p].array, task[p].prio, p), now)
    BY <1>1, <1>2, <2>1, <2>2, DequeueInOrder
  <2> QED
    BY <1>5, <2>3 DEF now
<1>7. \A r \in Task : task'[r].state = "RUNNING" <=> Queued(r)'
  BY <1>4 DEF QueueInv, RunnableIsQueued, Queued
<1>8. CountsExact'
  <2> DEFINE R == Ready
             S == Sleepers
  <2>1. Ready' = R \ {p} /\ p \in R
    BY <1>1, <1>4 DEF Ready, Queued
  <2>2. /\ task[p].state = "UNINTERRUPTIBLE" => Sleepers' = S \cup {p} /\ p \notin S
        /\ task[p].state # "UNINTERRUPTIBLE" => Sleepers' = S
    BY <1>1, <1>4 DEF Sleepers, Queued
  <2>3. /\ IsFiniteSet(R) /\ IsFiniteSet(S)
        /\ Cardinality(R) \in Nat /\ Cardinality(S) \in Nat
    BY SubsetsFinite
  <2>4. nr_running = Cardinality(R) /\ nr_uninterruptible = Cardinality(S)
    BY DEF QueueInv, CountsExact
  <2>5. /\ nr_running' = nr_running - 1
        /\ nr_uninterruptible' =
               nr_uninterruptible + (IF task[p].state = "UNINTERRUPTIBLE" THEN 1 ELSE 0)
    BY DEF LeaveCpu
  <2> HIDE DEF R, S
  <2>6. Cardinality(R \ {p}) = Cardinality(R) - 1
    BY <2>1, <2>3, FS_RemoveElement
  <2>7. p \notin S => Cardinality(S \cup {p}) = Cardinality(S) + 1
    BY <2>3, FS_AddElement
  <2> QED
    <3>1. nr_running' = Cardinality(Ready')
      BY <2>1, <2>4, <2>5, <2>6
    <3>2. nr_uninterruptible' = Cardinality(Sleepers')
      <4>1. CASE task[p].state = "UNINTERRUPTIBLE"
        <5>1. nr_uninterruptible' = Cardinality(S) + 1
          BY <2>4, <2>5, <4>1
        <5>2. Cardinality(Sleepers') = Cardinality(S) + 1
          BY <2>2, <2>7, <4>1
        <5> QED
          BY <5>1, <5>2
      <4>2. CASE task[p].state # "UNINTERRUPTIBLE"
        <5>1. nr_uninterruptible' = Cardinality(S)
          BY <2>3, <2>4, <2>5, <4>2
        <5> QED
          BY <2>2, <4>2, <5>1
      <4> QED
        BY <4>1, <4>2
    <3> QED
      BY <3>1, <3>2 DEF CountsExact
<1>9. \A r \in Task : Absent(pc[r]) => task'[r] = task[r]
  BY <1>1, <1>4
<1> QED
  BY <1>4, <1>6, <1>7, <1>8, <1>9 DEF OffCpu

LEMMA StayStep ==
    ASSUME QueueInv, curr \in Task \cup {Idle}, StayRunnable,
           \A r \in Task : Absent(pc'[r]) <=> Absent(pc[r])
    PROVE  OffCpu
<1>1. TypeOK /\ InOrder(arrays, task)
  BY DEF QueueInv
<1>2. \A r \in Task : /\ task'[r].array = task[r].array /\ task'[r].prio = task[r].prio
                      /\ task'[r].policy = task[r].policy
                      /\ task'[r].is_short = task[r].is_short
                      /\ r # curr => task'[r] = task[r]
                      /\ r = curr => task'[r].state = "RUNNING"
  <2>1. CASE curr = Idle
    BY <2>1, InitAssumption DEF StayRunnable
  <2>2. CASE curr # Idle
    BY <1>1, <2>2 DEF StayRunnable, TypeOK, TaskRecord
  <2> QED
    BY <2>1, <2>2
<1>3. UNCHANGED <<arrays, nr_running, nr_uninterruptible>>
  BY DEF StayRunnable
<1>4. InOrder(arrays', task')
  <2> DEFINE now == task'
  <2>1. \A r \in Task : /\ now[r].array = task[r].array
                        /\ task[r].array \in ArrayId => now[r].prio = task[r].prio
    BY <1>2
  <2> HIDE DEF now
  <2>2. InOrder(arrays, now)
    BY <1>1, <2>1, SameInOrder
  <2> QED
    BY <1>3, <2>2 DEF now
<1>5. \A r \in Task : Queued(r)' <=> Queued(r)
  BY <1>2 DEF Queued
<1>6. curr \in Task => Queued(curr)
  BY DEF QueueInv, RunnableIsQueued
<1>7. \A r \in Task : task'[r].state = "RUNNING" <=> Queued(r)'
  BY <1>2, <1>5, <1>6 DEF QueueInv, RunnableIsQueued
<1>8. \A r \in Task : Absent(pc[r]) => task'[r] = task[r]
  BY <1>2, <1>6 DEF QueueInv, AbsentUnqueued
<1>9. Ready' = Ready /\ Sleepers' = Sleepers
  BY <1>2, <1>5, <1>6 DEF Ready, Sleepers
<1>10. CountsExact'
  BY <1>3, <1>9 DEF QueueInv, CountsExact
<1> QED
  BY <1>2, <1>4, <1>7, <1>8, <1>10 DEF OffCpu

LEMMA SchedulePicks ==
    ASSUME QueueInv, TypeOK', schedule
    PROVE  /\ curr \in Task \cup {Idle} /\ UNCHANGED child
           /\ PcCalm /\ \A r \in Task : Absent(pc'[r]) <=> Absent(pc[r])
           /\ OffCpu
           /\ \/ curr' = Idle /\ nr_running' = 0
              \/ /\ curr' \in Task /\ Queued(curr)'
                 /\ nr_running' # 0 /\ PickedBest(task', active', curr')
           /\ \/ active' = active
              \/ active' = Expired /\ \A r \in Task : task'[r].array # active
<1>1. TypeOK /\ curr \in Task \cup {Idle} /\ UNCHANGED child
  BY DEF QueueInv, TypeOK, RunnableIsQueued, schedule
<1>2. PcCalm /\ \A r \in Task : Absent(pc'[r]) <=> Absent(pc[r])
  BY <1>1 DEF schedule, PcCalm, Absent, TypeOK
<1>3. OffCpu
  <2>1. CASE TRUE \in MayLeave /\ LeaveCpu
    <3>1. PICK p \in Task : curr = p
      BY <1>1, <2>1 DEF MayLeave
    <3>2. task[p].state # "RUNNING"
      BY <2>1, <3>1 DEF MayLeave
    <3> QED
      BY <1>2, <2>1, <3>1, <3>2, LeaveStep
  <2>2. CASE StayRunnable
    BY <1>1, <1>2, <2>2, StayStep
  <2> QED
    BY <2>1, <2>2 DEF schedule
<1>4. /\ \/ curr' = Idle /\ nr_running' = 0
         \/ /\ curr' \in Task /\ Queued(curr)'
            /\ nr_running' # 0 /\ PickedBest(task', active', curr')
      /\ \/ active' = active
         \/ active' = Expired /\ \A r \in Task : task'[r].array # active
  <2> DEFINE now == task'
             lists == arrays'
             running == nr_running'
  <2>1. lists \in PrioArrays /\ \A r \in Task : now[r].prio \in Prio
    BY DEF TypeOK, TaskRecord
  <2>2. InOrder(lists, now) /\ PickNext(lists, running)
    BY <1>3 DEF OffCpu, schedule
  <2>3. \A r \in Task : now[r].array \in ArrayId <=> now[r].array # NULL
    BY DEF TypeOK, TaskRecord, NULL, ArrayId
  <2>4. running = 0 <=> \A r \in Task : now[r].array \notin ArrayId
    <3> DEFINE R == {r \in Task : now[r].array \in ArrayId}
    <3>1. Ready' = R
      BY <2>3 DEF Ready, Queued
    <3>2. running = Cardinality(R)
      BY <1>3, <3>1 DEF OffCpu, CountsExact
    <3>3. IsFiniteSet(R)
      <4>1. R \in SUBSET Task
        OBVIOUS
      <4> QED
        BY <4>1, TaskFinite, FS_Subset
    <3>4. R = {} <=> \A r \in Task : now[r].array \notin ArrayId
      OBVIOUS
    <3> HIDE DEF R, running, now
    <3>5. Cardinality(R) = 0 <=> R = {}
      BY <3>3, FS_EmptySet
    <3> QED
      BY <3>2, <3>4, <3>5
  <2>5. active \in {"array0", "array1"}
    BY <1>1 DEF TypeOK
  <2> HIDE DEF now, lists, running
  <2>6. /\ \/ curr' = Idle /\ running = 0
           \/ /\ curr' \in Task /\ now[curr'].array \in ArrayId
              /\ running # 0 /\ PickedBest(now, active', curr')
        /\ \/ active' = active
           \/ active' = Expired /\ \A r \in Task : now[r].array # active
    BY <2>1, <2>2, <2>4, <2>5, PickFacts
  <2>7. curr' \in Task => (now[curr'].array \in ArrayId => Queued(curr)')
    BY <2>3 DEF now, Queued
  <2> QED
    BY <2>6, <2>7 DEF now, running
<1> QED
  BY <1>1, <1>2, <1>3, <1>4

LEMMA ScheduleStep ==
    ASSUME QueueInv, ForkInv, TypeOK', schedule
    PROVE  QueueInv' /\ ForkInv'
<1>1. TypeOK /\ curr \in Task \cup {Idle} /\ UNCHANGED child
  BY SchedulePicks DEF QueueInv
<1>2. PcCalm /\ \A r \in Task : Absent(pc'[r]) <=> Absent(pc[r])
  BY SchedulePicks
<1>3. OffCpu
  BY SchedulePicks
<1>4. /\ \/ curr' = Idle /\ nr_running' = 0
         \/ curr' \in Task /\ Queued(curr)'
      /\ \/ active' = active
         \/ active' = Expired /\ \A r \in Task : task'[r].array # active
  BY SchedulePicks
<1>5. RunnableIsQueued'
  BY <1>3, <1>4, InitAssumption DEF OffCpu, RunnableIsQueued
<1>6. AbsentUnqueued'
  <2>1. \A r \in Task : Absent(pc'[r]) => task'[r] = task[r] /\ Absent(pc[r])
    BY <1>2, <1>3 DEF OffCpu
  <2> QED
    BY <2>1 DEF QueueInv, AbsentUnqueued, Queued
<1>7. \A r \in Task : InClass(task'[r], Expired')
  <2> SUFFICES ASSUME NEW r \in Task
               PROVE  InClass(task'[r], Expired')
    OBVIOUS
  <2>1. /\ task'[r].prio = task[r].prio /\ task'[r].policy = task[r].policy
        /\ task'[r].is_short = task[r].is_short /\ task'[r].array \in {task[r].array, NULL}
        /\ InClass(task[r], Expired)
    BY <1>3 DEF OffCpu, QueueInv
  <2>2. FieldsAgree(task'[r])
    BY <2>1 DEF InClass, FieldsAgree, IsRt
  <2>3. /\ task'[r].array \notin {"NULL", NULL} => task'[r].array = task[r].array
        /\ NULL \notin ArrayId
    BY <2>1 DEF NULL, ArrayId
  <2>4. task'[r].array = Expired' => Expired' = Expired
    <3>1. \/ Expired = "array1" /\ active = "array0"
          \/ Expired = "array0" /\ active = "array1"
      BY <1>1 DEF Expired, TypeOK
    <3> QED
      BY <1>4, <3>1 DEF Expired
  <2>5. Expired' \in {"array0", "array1"}
    BY DEF Expired
  <2>6. task'[r].array = "NULL" \/ task'[r].array = task[r].array
    BY <2>1 DEF NULL
  <2>7. ArrayAgrees(task'[r], Expired')
    BY <2>1, <2>4, <2>5, <2>6 DEF InClass, ArrayAgrees, IsShort, IsOverdue
  <2> QED
    BY <2>2, <2>7 DEF InClass
<1>8. IdleSeesWork'
  BY <1>4, InitAssumption DEF IdleSeesWork
<1>9. QueueInv'
  BY <1>3, <1>5, <1>6, <1>7, <1>8 DEF QueueInv, OffCpu
<1>10. \A r \in Task : ~Linking(pc[r])
  BY <1>1, NobodyLinks, InitAssumption DEF schedule, MustSchedule, Linking
<1>11. ForkInv'
  BY <1>1, <1>2, <1>3, <1>10, CopyFrame DEF OffCpu
<1> QED
  BY <1>9, <1>11
-----------------------------------------------------------------------------
(* Waking a task                                                           *)

LEMMA ActivationStep ==
    ASSUME QueueInv, TypeOK', NEW p \in Task, ~Queued(p), NEW tp \in TaskRecord,
           FieldsAgree(tp), tp.state = "RUNNING", Activate(p, tp, arrays),
           nr_running' = nr_running + 1, UNCHANGED <<active, curr>>,
           nr_uninterruptible' = nr_uninterruptible - (IF p \in Sleepers THEN 1 ELSE 0),
           ~Absent(pc'[p]), \A r \in Task \ {p} : Absent(pc'[r]) <=> Absent(pc[r]),
           IdleSeesWork'
    PROVE  /\ QueueInv' /\ OthersSame(p)
           /\ task'[p].policy = tp.policy /\ task'[p].is_short = tp.is_short
           /\ task'[p].state = "RUNNING"
<1>1. TypeOK /\ InOrder(arrays, task) /\ arrays \in PrioArrays
  BY DEF QueueInv, TypeOK
<1>2. task[p].array \notin ArrayId /\ SameBut(p, task, task)
  BY <1>1, TaskFacts DEF Queued, SameBut
<1>3. /\ OthersSame(p) /\ InOrder(arrays', task')
      /\ \E prio \in ActivatePrios(tp) : task'[p] = Activated(tp, prio)
  BY <1>1, <1>2, ActivateInOrder
<1>4. /\ task'[p].policy = tp.policy /\ task'[p].is_short = tp.is_short
      /\ task'[p].state = "RUNNING" /\ task'[p].array \in ArrayId
      /\ InClass(task'[p], Expired)
  BY <1>1, <1>3, ActivatedFacts
<1>5. task'[p].array # NULL
  BY <1>1, <1>4, TaskFacts
<1>6. \A r \in Task : InClass(task'[r], Expired')
  <2>1. Expired' = Expired
    BY DEF Expired
  <2> QED
    BY <1>3, <1>4, <2>1 DEF QueueInv, OthersSame
<1>7. RunnableIsQueued'
  <2>1. curr' # WILD /\ (curr' \in Task => Queued(curr)')
    BY <1>3, <1>5 DEF QueueInv, RunnableIsQueued, Queued, OthersSame
  <2>2. \A r \in Task : /\ task'[r].state = "RUNNING" => Queued(r)'
                        /\ Queued(r)' => task'[r].state = "RUNNING" \/ r = curr
    BY <1>3, <1>4, <1>5 DEF QueueInv, RunnableIsQueued, Queued, OthersSame
  <2> QED
    BY <2>1, <2>2 DEF RunnableIsQueued
<1>8. AbsentUnqueued'
  BY <1>3 DEF QueueInv, AbsentUnqueued, Queued, OthersSame
<1>9. CountsExact'
  <2> DEFINE R == Ready
             S == Sleepers
  <2>1. Ready' = R \cup {p} /\ p \notin R
    BY <1>3, <1>5 DEF Ready, Queued, OthersSame
  <2>2. Sleepers' = S \ {p}
    BY <1>3, <1>4 DEF Sleepers, Queued, OthersSame
  <2>3. /\ IsFiniteSet(R) /\ IsFiniteSet(S)
        /\ Cardinality(R) \in Nat /\ Cardinality(S) \in Nat
    BY SubsetsFinite
  <2>4. nr_running = Cardinality(R) /\ nr_uninterruptible = Cardinality(S)
    BY DEF QueueInv, CountsExact
  <2>5. nr_uninterruptible' = nr_uninterruptible - (IF p \in S THEN 1 ELSE 0)
    OBVIOUS
  <2> HIDE DEF R, S
  <2>6. nr_running' = Cardinality(Ready')
    <3>1. Cardinality(R \cup {p}) = Cardinality(R) + 1
      BY <2>1, <2>3, FS_AddElement
    <3> QED
      BY <2>1, <2>4, <3>1
  <2>7. nr_uninterruptible' = Cardinality(Sleepers')
    <3>1. CASE p \in S
      <4>1. Cardinality(S \ {p}) = Cardinality(S) - 1
        BY <2>3, <3>1, FS_RemoveElement
      <4> QED
        BY <2>2, <2>4, <2>5, <3>1, <4>1
    <3>2. CASE p \notin S
      <4>1. S \ {p} = S
        BY <3>2
      <4>2. nr_uninterruptible' = nr_uninterruptible
        BY <2>3, <2>4, <2>5, <3>2
      <4> QED
        BY <2>2, <2>4, <4>1, <4>2
    <3> QED
      BY <3>1, <3>2
  <2> QED
    BY <2>6, <2>7 DEF CountsExact
<1> QED
  BY <1>3, <1>4, <1>6, <1>7, <1>8, <1>9 DEF QueueInv

LEMMA WakeStep ==
    ASSUME QueueInv, ForkInv, TypeOK', NEW p \in Task, try_to_wake_up(p)
    PROVE  QueueInv' /\ ForkInv'
<1>1. /\ TypeOK /\ ~Absent(pc[p]) /\ ReturnFromInterrupt
      /\ task[p].state \in {"INTERRUPTIBLE", "UNINTERRUPTIBLE"}
      /\ UNCHANGED <<child, active, curr>>
  BY DEF QueueInv, try_to_wake_up, Linked, Absent
<1>2. PcCalm /\ \A r \in Task : Absent(pc'[r]) <=> Absent(pc[r])
  BY <1>1, ReturnCalm
<1>3. CASE task[p].array = NULL
  <2> DEFINE tp == [task[p] EXCEPT !.state = "RUNNING"]
  <2>1. task[p] \in TaskRecord /\ InClass(task[p], Expired)
    BY <1>1, TaskFacts DEF QueueInv
  <2>2. /\ tp \in TaskRecord /\ tp.state = "RUNNING" /\ tp.prio = task[p].prio
        /\ tp.policy = task[p].policy /\ tp.is_short = task[p].is_short
    BY <2>1 DEF TaskRecord, TaskState
  <2>3. /\ nr_uninterruptible' =
             nr_uninterruptible - (IF task[p].state = "UNINTERRUPTIBLE" THEN 1 ELSE 0)
        /\ Activate(p, tp, arrays)
        /\ nr_running' = nr_running + 1
        /\ IF task'[p].prio < CurrPrio THEN SetNeedResched ELSE UNCHANGED need_resched
    BY <1>3 DEF try_to_wake_up
  <2> HIDE DEF tp
  <2>4. FieldsAgree(tp)
    BY <2>1, <2>2 DEF InClass, FieldsAgree, IsRt
  <2>5. p \in Sleepers <=> task[p].state = "UNINTERRUPTIBLE"
    BY <1>1, <1>3 DEF Sleepers, Queued
  <2>6. nr_uninterruptible' = nr_uninterruptible - (IF p \in Sleepers THEN 1 ELSE 0)
    BY <2>3, <2>5
  <2>7. IdleSeesWork'
    <3> SUFFICES ASSUME curr' = Idle
                 PROVE  need_resched'[Idle]
      BY DEF IdleSeesWork
    <3>1. task'[p].prio \in Prio /\ curr = Idle
      BY <1>1 DEF TypeOK, TaskRecord
    <3>2. task'[p].prio < CurrPrio
      BY <3>1, PrioAssumption DEF Prio, CurrPrio
    <3> QED
      BY <1>1, <2>3, <3>1, <3>2 DEF SetNeedResched, TypeOK
  <2>8. ~Queued(p)
    BY <1>3 DEF Queued
  <2>9. /\ QueueInv' /\ OthersSame(p)
        /\ task'[p].policy = tp.policy /\ task'[p].is_short = tp.is_short
        /\ task'[p].state = "RUNNING"
    BY <1>1, <1>2, <2>2, <2>3, <2>4, <2>6, <2>7, <2>8, ActivationStep
  <2>10. ForkUnhurt(p)
    BY <2>2, <2>9 DEF ForkUnhurt
  <2>11. ForkInv'
    BY <1>1, <1>2, <2>10, ForkFrame
  <2> QED
    BY <2>9, <2>11
<1>4. CASE task[p].array # NULL
  <2>1. /\ task' = [task EXCEPT ![p].state = "RUNNING"]
        /\ UNCHANGED <<arrays, nr_running, nr_uninterruptible, need_resched>>
    BY <1>4 DEF try_to_wake_up
  <2>2. \A r \in Task : /\ task'[r].array = task[r].array /\ task'[r].prio = task[r].prio
                        /\ task'[r].policy = task[r].policy
                        /\ task'[r].is_short = task[r].is_short
                        /\ r # p => task'[r] = task[r]
    BY <1>1, <2>1 DEF TypeOK, TaskRecord
  <2>3. task'[p].state = "RUNNING" /\ Queued(p)
    BY <1>1, <1>4, <2>1 DEF TypeOK, TaskRecord, Queued
  <2>4. QueueInv'
    BY <1>1, <1>2, <2>1, <2>2, <2>3, StateStep
  <2>5. ForkUnhurt(p)
    BY <2>2, <2>3 DEF ForkUnhurt, OthersSame
  <2>6. ForkInv'
    BY <1>1, <1>2, <2>5, ForkFrame
  <2> QED
    BY <2>4, <2>6
<1> QED
  BY <1>3, <1>4
-----------------------------------------------------------------------------
(* do_fork                                                                 *)

\* Another parent still copies, and its child is untouched.
LEMMA CopyKept ==
    ASSUME ForkInv, NEW u \in Task, pc[u] = "copy", child'[u] = child[u],
           pc'[child[u]] = "new", task'[u].policy = task[u].policy,
           task'[child[u]].policy = task[child[u]].policy,
           \A v \in Task : pc'[v] = "copy" /\ child'[v] = child[u] =>
                               pc[v] = "copy" /\ child[v] = child[u]
    PROVE  CopyAgrees(u)'
<1>1. CopyAgrees(u)
  BY DEF ForkInv
<1>2. task'[u].policy = "SHORT" => task'[child'[u]].policy = "SHORT"
  BY <1>1 DEF CopyAgrees
<1>3. \A v \in Task : pc'[v] = "copy" /\ child'[v] = child'[u] => v = u
  BY <1>1 DEF CopyAgrees
<1> QED
  BY <1>2, <1>3 DEF CopyAgrees

LEMMA ForkCopyStep ==
    ASSUME QueueInv, ForkInv, TypeOK', NEW t \in Task, NEW c \in Task, ForkCopy(t, c)
    PROVE  QueueInv' /\ ForkInv'
<1>1. /\ TypeOK /\ InOrder(arrays, task) /\ curr = t /\ pc[t] = "entry" /\ pc[c] = "none"
      /\ c # t
      /\ UNCHANGED <<arrays, active, nr_running, nr_uninterruptible, curr>>
  BY DEF QueueInv, ForkCopy, Runs, queues
<1> DEFINE tc == [task[t] EXCEPT !.state = "UNINTERRUPTIBLE", !.requested_time = 0,
                                 !.is_short = 0, !.array = NULL]
<1>2. /\ pc' = [pc EXCEPT ![t] = "copy", ![c] = "new"]
      /\ child' = [child EXCEPT ![t] = c]
      /\ task' = [task EXCEPT ![c] = tc]
  BY DEF ForkCopy
<1>3. /\ tc.state = "UNINTERRUPTIBLE" /\ tc.array = NULL /\ tc.is_short = 0
      /\ tc.policy = task[t].policy /\ tc.prio = task[t].prio
  BY <1>1, TaskFacts DEF TaskRecord
<1> HIDE DEF tc
<1>4. /\ OthersSame(c) /\ task'[c] = tc
      /\ \A r \in Task : pc'[r] = IF r = c THEN "new" ELSE IF r = t THEN "copy" ELSE pc[r]
      /\ \A r \in Task : child'[r] = IF r = t THEN c ELSE child[r]
  BY <1>1, <1>2 DEF TypeOK, OthersSame
<1>5. task[c].state = "UNINTERRUPTIBLE" /\ task[c].array = NULL
  BY <1>1 DEF QueueInv, AbsentUnqueued, Absent, Queued
<1>6. InClass(task'[c], Expired)
  <2>1. InClass(task[t], Expired)
    BY DEF QueueInv
  <2>2. FieldsAgree(tc)
    BY <1>3, <2>1 DEF InClass, FieldsAgree, IsRt
  <2> QED
    BY <1>1, <1>3, <1>4, <2>2, NullAgrees DEF InClass
<1>7. InOrder(arrays', task')
  <2> DEFINE now == task'
  <2>1. \A r \in Task : now[r].array = task[r].array
    BY <1>3, <1>4, <1>5 DEF OthersSame
  <2>2. \A r \in Task : task[r].array \in ArrayId => now[r].prio = task[r].prio
    BY <1>1, <1>4, <1>5, TaskFacts DEF OthersSame
  <2> HIDE DEF now
  <2>3. InOrder(arrays, now)
    BY <1>1, <2>1, <2>2, SameInOrder
  <2> QED
    BY <1>1, <2>3 DEF now
<1>8. QueueInv'
  <2>1. FieldsChange(c)
    BY <1>3, <1>4, <1>5, <1>6 DEF FieldsChange
  <2>2. \A r \in Task : Absent(pc'[r]) <=> Absent(pc[r])
    BY <1>1, <1>4 DEF Absent
  <2> QED
    BY <1>1, <1>7, <2>1, <2>2, FieldStep
<1>9. ForkInv'
  <2> SUFFICES ASSUME NEW u \in Task
               PROVE  ~Linking(pc'[u]) /\ (pc'[u] = "copy" => CopyAgrees(u)')
    BY DEF ForkInv
  <2>1. \A r \in Task : ~Linking(pc[r])
    BY <1>1, NobodyLinks DEF Linking
  <2>2. ~Linking(pc'[u])
    BY <1>4, <2>1 DEF Linking
  <2>3. \A v \in Task : pc[v] = "copy" => child[v] # c /\ child[v] # t
                                          /\ child[v] \in Task /\ pc[child[v]] = "new"
    BY <1>1, TaskFacts DEF ForkInv, CopyAgrees
  <2>4. CASE u = t
    <3>1. pc'[child'[t]] = "new"
      BY <1>4
    <3>2. task'[child'[t]].policy = task'[t].policy
      BY <1>1, <1>3, <1>4 DEF OthersSame
    <3>3. \A v \in Task : pc'[v] = "copy" /\ child'[v] = child'[t] => v = t
      BY <1>4, <2>3
    <3> QED
      BY <2>2, <2>4, <3>1, <3>2, <3>3 DEF CopyAgrees
  <2>5. CASE u # t
    <3> SUFFICES ASSUME pc'[u] = "copy"
                 PROVE  CopyAgrees(u)'
      BY <2>2
    <3>1. pc[u] = "copy" /\ u # c
      BY <1>4, <2>5
    <3>2. /\ child'[u] = child[u] /\ pc'[child[u]] = "new"
          /\ task'[u] = task[u] /\ task'[child[u]] = task[child[u]]
      BY <1>4, <2>3, <2>5, <3>1 DEF OthersSame
    <3>3. \A v \in Task : pc'[v] = "copy" /\ child'[v] = child[u] =>
                              pc[v] = "copy" /\ child[v] = child[u]
      BY <1>4, <2>3, <3>1
    <3> QED
      BY <3>1, <3>2, <3>3, CopyKept
  <2> QED
    BY <2>4, <2>5
<1> QED
  BY <1>8, <1>9

LEMMA FreeInClass ==
    ASSUME TypeOK
    PROVE  /\ InClass(FreeTask, Expired) /\ FreeTask.array = NULL
           /\ FreeTask.state = "UNINTERRUPTIBLE"
<1>1. /\ FreeTask.array = NULL /\ FreeTask.policy = "OTHER" /\ FreeTask.is_short = 0
      /\ FreeTask.prio = MAX_RT_PRIO /\ FreeTask.state = "UNINTERRUPTIBLE"
  BY DEF FreeTask
<1>2. FieldsAgree(FreeTask)
  BY <1>1, PrioAssumption DEF FieldsAgree, IsRt
<1> QED
  BY <1>1, <1>2, NullAgrees DEF InClass

LEMMA ForkFailStep ==
    ASSUME QueueInv, ForkInv, TypeOK', NEW t \in Task, ForkFail(t)
    PROVE  QueueInv' /\ ForkInv'
<1>1. /\ TypeOK /\ InOrder(arrays, task) /\ curr = t /\ pc[t] = "copy" /\ child[t] \in Task
      /\ UNCHANGED <<arrays, active, nr_running, nr_uninterruptible, curr>>
  BY DEF QueueInv, ForkFail, Runs, queues, TypeOK
<1>2. PICK c \in Task : c = child[t]
  BY <1>1
<1>3. CopyAgrees(t) /\ pc[c] = "new" /\ c # t
  BY <1>1, <1>2 DEF ForkInv, CopyAgrees
<1>4. /\ OthersSame(c) /\ task'[c] = FreeTask
      /\ \A r \in Task : pc'[r] = IF r = c THEN "none" ELSE IF r = t THEN "exit" ELSE pc[r]
      /\ \A r \in Task : child'[r] = IF r = t THEN t ELSE child[r]
  BY <1>1, <1>2, <1>3 DEF ForkFail, TypeOK, OthersSame
<1>5. task[c].state = "UNINTERRUPTIBLE" /\ task[c].array = NULL
  BY <1>3 DEF QueueInv, AbsentUnqueued, Absent, Queued
<1>6. InOrder(arrays', task')
  <2> DEFINE now == task'
  <2>1. \A r \in Task : now[r].array = task[r].array
    BY <1>1, <1>4, <1>5, FreeInClass DEF OthersSame
  <2>2. \A r \in Task : task[r].array \in ArrayId => now[r].prio = task[r].prio
    BY <1>1, <1>4, <1>5, TaskFacts DEF OthersSame
  <2> HIDE DEF now
  <2>3. InOrder(arrays, now)
    BY <1>1, <2>1, <2>2, SameInOrder
  <2> QED
    BY <1>1, <2>3 DEF now
<1>7. QueueInv'
  <2>1. FieldsChange(c)
    BY <1>1, <1>4, <1>5, FreeInClass DEF FieldsChange
  <2>2. \A r \in Task : Absent(pc'[r]) <=> Absent(pc[r])
    BY <1>1, <1>3, <1>4 DEF Absent
  <2> QED
    BY <1>1, <1>6, <2>1, <2>2, FieldStep
<1>8. ForkInv'
  <2> SUFFICES ASSUME NEW u \in Task
               PROVE  ~Linking(pc'[u]) /\ (pc'[u] = "copy" => CopyAgrees(u)')
    BY DEF ForkInv
  <2>1. \A r \in Task : ~Linking(pc[r])
    BY <1>1, NobodyLinks DEF Linking
  <2>2. ~Linking(pc'[u])
    BY <1>4, <2>1 DEF Linking
  <2>3. ASSUME pc'[u] = "copy"
        PROVE  CopyAgrees(u)'
    <3>1. pc[u] = "copy" /\ u # c /\ u # t
      BY <1>4, <2>3
    <3>2. child[u] \in Task /\ pc[child[u]] = "new" /\ child[u] # t /\ child[u] # c
      BY <1>1, <1>2, <1>3, <3>1, TaskFacts DEF ForkInv, CopyAgrees
    <3>3. /\ child'[u] = child[u] /\ pc'[child[u]] = "new"
          /\ task'[u] = task[u] /\ task'[child[u]] = task[child[u]]
      BY <1>4, <3>1, <3>2 DEF OthersSame
    <3>4. \A v \in Task : pc'[v] = "copy" /\ child'[v] = child[u] =>
                              pc[v] = "copy" /\ child[v] = child[u]
      BY <1>4, <3>1
    <3> QED
      BY <3>1, <3>3, <3>4, CopyKept
  <2> QED
    BY <2>2, <2>3
<1> QED
  BY <1>7, <1>8

LEMMA ForkShareStep ==
    ASSUME QueueInv, ForkInv, TypeOK', NEW t \in Task, ForkShare(t)
    PROVE  QueueInv' /\ ForkInv'
<1>1. /\ TypeOK /\ InOrder(arrays, task) /\ curr = t /\ pc[t] = "copy" /\ child[t] \in Task
      /\ task[t].state = "RUNNING"
      /\ UNCHANGED <<arrays, active, nr_running, nr_uninterruptible, curr, child>>
  BY DEF QueueInv, ForkShare, Runs, queues, TypeOK
<1>2. PICK c \in Task : c = child[t]
  BY <1>1
<1>3. CopyAgrees(t) /\ pc[c] = "new" /\ c # t
  BY <1>1, <1>2 DEF ForkInv, CopyAgrees
<1>4. /\ task'[t] = ParentFields(task[t]) /\ task'[c] = ChildFields(task[c], t)
      /\ \A r \in Task : r # t /\ r # c => task'[r] = task[r]
      /\ \A r \in Task : r # t /\ r # c => pc'[r] = pc[r]
      /\ pc'[c] = "born" /\ pc'[t] \in {"share", "linked"}
  BY <1>1, <1>2, <1>3 DEF ForkShare, TypeOK
<1>5. /\ task[t] \in TaskRecord /\ task[c] \in TaskRecord
      /\ InClass(task[t], Expired) /\ InClass(task[c], Expired)
      /\ task[c].array = NULL /\ task[c].state = "UNINTERRUPTIBLE"
  BY <1>1, <1>3, TaskFacts DEF QueueInv, AbsentUnqueued, Absent, Queued
<1>6. /\ task'[t].state = task[t].state /\ task'[t].array = task[t].array
      /\ task'[t].prio = task[t].prio /\ task'[t].policy = task[t].policy
      /\ task'[t].is_short = task[t].is_short
  BY <1>4, <1>5 DEF ParentFields, TaskRecord
<1>7. /\ task'[c].state = task[c].state /\ task'[c].array = task[c].array
      /\ task'[c].policy = task[c].policy
      /\ task'[c].prio = IF task[t].policy = "SHORT" THEN task[t].prio ELSE task[c].prio
      /\ task'[c].is_short = IF task[t].policy # "SHORT" /\ task[t].is_short = -1
                             THEN 0 ELSE task[t].is_short
  BY <1>4, <1>5 DEF ChildFields, TaskRecord
<1>8. InClass(task'[t], Expired)
  BY <1>5, <1>6 DEF InClass, FieldsAgree, ArrayAgrees, IsRt, IsShort, IsOverdue
<1>9. InClass(task'[c], Expired)
  <2>1. CASE task[t].policy = "SHORT"
    <3>1. task[c].policy = "SHORT"
      BY <1>2, <1>3, <2>1 DEF CopyAgrees
    <3>2. FieldsAgree(task'[c])
      BY <1>5, <1>7, <2>1, <3>1 DEF InClass, FieldsAgree, IsRt
    <3> QED
      BY <1>1, <1>5, <1>7, <3>2, NullAgrees DEF InClass
  <2>2. CASE task[t].policy # "SHORT"
    <3>1. task'[c].is_short = 0
      BY <1>5, <1>7, <2>2 DEF InClass, FieldsAgree, TaskRecord
    <3>2. FieldsAgree(task'[c])
      BY <1>5, <1>7, <2>2, <3>1 DEF InClass, FieldsAgree, IsRt
    <3> QED
      BY <1>1, <1>5, <1>7, <3>2, NullAgrees DEF InClass
  <2> QED
    BY <2>1, <2>2
<1>10. InOrder(arrays', task')
  <2> DEFINE now == task'
  <2>1. \A r \in Task : now[r].array = task[r].array
    BY <1>4, <1>6, <1>7
  <2>2. \A r \in Task : task[r].array \in ArrayId => now[r].prio = task[r].prio
    BY <1>1, <1>4, <1>5, <1>6, TaskFacts
  <2> HIDE DEF now
  <2>3. InOrder(arrays, now)
    BY <1>1, <2>1, <2>2, SameInOrder
  <2> QED
    BY <1>1, <2>3 DEF now
<1>11. QueueInv'
  <2> SUFFICES \A r \in Task : /\ task'[r].state = task[r].state
                               /\ task'[r].array = NULL <=> task[r].array = NULL
                               /\ InClass(task'[r], Expired)
                               /\ Absent(pc'[r]) <=> Absent(pc[r])
    BY <1>1, <1>10, FieldsStep
  <2> TAKE r \in Task
  <2>1. CASE r = t
    BY <1>1, <1>4, <1>6, <1>8, <2>1 DEF Absent
  <2>2. CASE r = c
    BY <1>3, <1>4, <1>7, <1>9, <2>2 DEF Absent
  <2>3. CASE r # t /\ r # c
    BY <1>4, <2>3 DEF QueueInv
  <2> QED
    BY <2>1, <2>2, <2>3
<1>12. ForkInv'
  <2> SUFFICES ASSUME NEW u \in Task
               PROVE  /\ Linking(pc'[u]) => LinkAgrees(u)'
                      /\ pc'[u] = "copy" => CopyAgrees(u)'
    BY DEF ForkInv
  <2>1. \A r \in Task : ~Linking(pc[r])
    BY <1>1, NobodyLinks DEF Linking
  <2>2. CASE u = t
    <3>1. /\ pc'[child'[t]] = "born" /\ curr' = t /\ task'[t].state = "RUNNING"
          /\ pc'[t] # "wakeshort" /\ pc'[t] # "copy"
      BY <1>1, <1>2, <1>4, <1>6
    <3>2. task'[t].is_short = 1 => task'[child'[t]].is_short = 1
      BY <1>1, <1>2, <1>5, <1>6, <1>7 DEF InClass, FieldsAgree
    <3> QED
      BY <2>2, <3>1, <3>2 DEF LinkAgrees
  <2>3. CASE u # t
    <3>1. ~Linking(pc'[u])
      BY <1>3, <1>4, <2>1, <2>3 DEF Linking
    <3>2. ASSUME pc'[u] = "copy"
          PROVE  CopyAgrees(u)'
      <4>1. pc[u] = "copy" /\ u # c
        BY <1>4, <2>3, <3>2
      <4>2. child[u] \in Task /\ pc[child[u]] = "new" /\ child[u] # t /\ child[u] # c
        BY <1>1, <1>2, <1>3, <2>3, <4>1, TaskFacts DEF ForkInv, CopyAgrees
      <4>3. /\ child'[u] = child[u] /\ pc'[child[u]] = "new"
            /\ task'[u] = task[u] /\ task'[child[u]] = task[child[u]]
        BY <1>1, <1>4, <2>3, <4>1, <4>2
      <4>4. \A v \in Task : pc'[v] = "copy" /\ child'[v] = child[u] =>
                                pc[v] = "copy" /\ child[v] = child[u]
        BY <1>1, <1>4, <4>1
      <4> QED
        BY <4>1, <4>3, <4>4, CopyKept
    <3> QED
      BY <3>1, <3>2
  <2> QED
    BY <2>2, <2>3
<1> QED
  BY <1>11, <1>12

LEMMA ForkTickStep ==
    ASSUME QueueInv, ForkInv, TypeOK', NEW t \in Task, ForkTick(t)
    PROVE  QueueInv' /\ ForkInv'
<1>1. /\ TypeOK /\ curr = t /\ pc[t] = "share" /\ scheduler_tick(t) /\ Goto(t, "linked")
      /\ UNCHANGED <<active, nr_running, nr_uninterruptible, curr, child>>
  BY DEF QueueInv, ForkTick, Runs, scheduler_tick
<1>2. PcCalm /\ \A r \in Task : Absent(pc'[r]) <=> Absent(pc[r])
  BY <1>1 DEF TypeOK, Goto, PcCalm, Absent
<1>3. FieldsChange(t) /\ ForkUnhurt(t) /\ InOrder(arrays', task')
  BY <1>1, TickKeeps
<1>4. ForkInv'
  BY <1>1, <1>2, <1>3, ForkFrame
<1>5. QueueInv'
  BY <1>1, <1>2, <1>3, FieldStep
<1> QED
  BY <1>4, <1>5

LEMMA ForkChooseStep ==
    ASSUME QueueInv, ForkInv, TypeOK', NEW t \in Task, ForkChoose(t)
    PROVE  QueueInv' /\ ForkInv'
<1>1. /\ TypeOK /\ curr = t /\ pc[t] = "linked"
      /\ Goto(t, IF task[t].is_short = 1 THEN "wakeshort" ELSE "wakeplain")
      /\ UNCHANGED <<task, arrays, active, nr_running, nr_uninterruptible, curr, child>>
  BY DEF QueueInv, ForkChoose, Runs, queues
<1>2. \A r \in Task : pc'[r] = IF r # t THEN pc[r]
                               ELSE IF task[t].is_short = 1 THEN "wakeshort" ELSE "wakeplain"
  BY <1>1 DEF TypeOK, Goto
<1>3. QueueInv'
  <2>1. FieldsChange(t) /\ InOrder(arrays', task')
    BY <1>1, SameTasks
  <2>2. \A r \in Task : Absent(pc'[r]) <=> Absent(pc[r])
    BY <1>1, <1>2 DEF Absent
  <2> QED
    BY <1>1, <2>1, <2>2, FieldStep
<1>4. ForkInv'
  <2> SUFFICES ASSUME NEW u \in Task
               PROVE  /\ Linking(pc'[u]) => LinkAgrees(u)'
                      /\ pc'[u] = "copy" => CopyAgrees(u)'
    BY DEF ForkInv
  <2>1. child[u] \in Task /\ LinkAgrees(t)
    BY <1>1, TaskFacts DEF ForkInv, Linking
  <2>2. ASSUME Linking(pc'[u])
        PROVE  LinkAgrees(u)'
    <3>1. u = t
      BY <1>1, <1>2, <2>2 DEF ForkInv, LinkAgrees
    <3>2. pc[child[t]] = "born" /\ child[t] # t
      BY <1>1, <2>1 DEF LinkAgrees
    <3>3. pc'[child[t]] = "born"
      BY <1>2, <2>1, <3>1, <3>2
    <3> QED
      BY <1>1, <1>2, <2>1, <3>1, <3>3 DEF LinkAgrees
  <2>3. ASSUME pc'[u] = "copy"
        PROVE  CopyAgrees(u)'
    <3>1. pc[u] = "copy" /\ u # t
      BY <1>2, <2>3
    <3>2. pc[child[u]] = "new" /\ child[u] # t
      BY <1>1, <3>1 DEF ForkInv, CopyAgrees
    <3>3. pc'[child[u]] = "new"
      BY <1>2, <2>1, <3>2
    <3>4. \A v \in Task : pc'[v] = "copy" /\ child'[v] = child[u] =>
                              pc[v] = "copy" /\ child[v] = child[u]
      BY <1>1, <1>2
    <3> QED
      BY <1>1, <3>1, <3>3, <3>4, CopyKept
  <2> QED
    BY <2>2, <2>3
<1> QED
  BY <1>3, <1>4

LEMMA ForkDoneStep ==
    ASSUME TypeOK, ForkInv, NEW t \in Task, NEW c \in Task, curr = t, c = child[t],
           pc[t] \in {"wakeplain", "wakeshort"}, pc[c] = "born", ForkDone(t),
           \A r \in Task : task'[r].policy = task[r].policy
    PROVE  /\ ForkInv'
           /\ ~Absent(pc'[c]) /\ \A r \in Task \ {c} : Absent(pc'[r]) <=> Absent(pc[r])
<1>1. /\ \A r \in Task : pc'[r] = IF r = c \/ r = t THEN "exit" ELSE pc[r]
      /\ \A r \in Task : child'[r] = IF r = t THEN t ELSE child[r]
  BY DEF ForkDone, TypeOK
<1>2. ~Absent(pc'[c]) /\ \A r \in Task \ {c} : Absent(pc'[r]) <=> Absent(pc[r])
  BY <1>1 DEF Absent
<1>3. ASSUME NEW u \in Task
      PROVE  ~Linking(pc'[u])
  <2>1. CASE u = t \/ u = c
    BY <1>1, <2>1 DEF Linking
  <2>2. CASE u # t /\ u # c
    BY <1>1, <2>2 DEF ForkInv, LinkAgrees
  <2> QED
    BY <2>1, <2>2
<1>4. ASSUME NEW u \in Task, pc'[u] = "copy"
      PROVE  CopyAgrees(u)'
  <2>1. pc[u] = "copy" /\ u # t
    BY <1>1, <1>4
  <2>2. child[u] \in Task /\ pc[child[u]] = "new"
    BY <2>1, TaskFacts DEF ForkInv, CopyAgrees
  <2>3. child'[u] = child[u] /\ pc'[child[u]] = "new"
    BY <1>1, <2>1, <2>2
  <2>4. \A v \in Task : pc'[v] = "copy" /\ child'[v] = child[u] =>
                            pc[v] = "copy" /\ child[v] = child[u]
    BY <1>1
  <2> QED
    BY <2>1, <2>2, <2>3, <2>4, CopyKept
<1>5. ForkInv'
  BY <1>3, <1>4 DEF ForkInv
<1> QED
  BY <1>2, <1>5

\* The fields of the child when it is woken.
LEMMA WokenFields ==
    ASSUME TypeOK, NEW tc \in TaskRecord, FieldsAgree(tc), NEW prio \in ForkedPrios(tc)
    PROVE  LET tp == [tc EXCEPT !.state = "RUNNING", !.prio = prio] IN
           /\ tp \in TaskRecord /\ tp.state = "RUNNING" /\ FieldsAgree(tp)
           /\ tp.policy = tc.policy /\ tp.is_short = tc.is_short
<1> DEFINE tp == [tc EXCEPT !.state = "RUNNING", !.prio = prio]
<1>1. prio \in Prio /\ (~(IsRt(tc) \/ tc.policy = "SHORT") => ~(prio < MAX_RT_PRIO))
  <2>1. tc.prio \in Prio
    BY DEF TaskRecord
  <2> QED
    BY <2>1, EffectivePrioType, PrioAssumption DEF ForkedPrios, UserPrio
<1>2. /\ tp \in TaskRecord /\ tp.state = "RUNNING" /\ tp.prio = prio
      /\ tp.policy = tc.policy /\ tp.is_short = tc.is_short
  BY <1>1 DEF TaskRecord, TaskState
<1> HIDE DEF tp
<1>3. FieldsAgree(tp)
  <2>1. CASE IsRt(tc) \/ tc.policy = "SHORT"
    <3>1. prio = tc.prio
      BY <2>1 DEF ForkedPrios
    <3> QED
      BY <1>2, <3>1 DEF FieldsAgree, IsRt
  <2>2. CASE ~(IsRt(tc) \/ tc.policy = "SHORT")
    BY <1>1, <1>2, <2>2 DEF FieldsAgree, IsRt
  <2> QED
    BY <2>1, <2>2
<1> QED
  BY <1>2, <1>3 DEF tp

LEMMA WakePlainStep ==
    ASSUME QueueInv, ForkInv, TypeOK', NEW t \in Task, wake_up_forked_process(t)
    PROVE  QueueInv' /\ ForkInv'
<1>1. /\ TypeOK /\ curr = t /\ pc[t] = "wakeplain" /\ child[t] \in Task
      /\ nr_running' = nr_running + 1 /\ ForkDone(t)
      /\ UNCHANGED <<active, nr_uninterruptible, curr>>
  BY DEF QueueInv, wake_up_forked_process, Runs, TypeOK, ForkDone
<1>2. PICK c \in Task : c = child[t]
  BY <1>1
<1>3. PICK prio \in ForkedPrios(task[c]) :
        Activate(c, [task[c] EXCEPT !.state = "RUNNING", !.prio = prio], arrays)
  BY <1>2 DEF wake_up_forked_process
<1>4. pc[c] = "born"
  BY <1>1, <1>2 DEF ForkInv, Linking, LinkAgrees
<1>5. /\ ~Queued(c) /\ c \notin Sleepers /\ task[c] \in TaskRecord
      /\ FieldsAgree(task[c])
  BY <1>1, <1>4, TaskFacts DEF QueueInv, AbsentUnqueued, Absent, Sleepers, InClass
<1> DEFINE tp == [task[c] EXCEPT !.state = "RUNNING", !.prio = prio]
<1>6. /\ tp \in TaskRecord /\ tp.state = "RUNNING" /\ FieldsAgree(tp)
      /\ tp.policy = task[c].policy
  BY <1>1, <1>5, WokenFields
<1>7. Activate(c, tp, arrays)
  BY <1>3
<1>8. PICK q \in ActivatePrios(tp) : task' = [task EXCEPT ![c] = Activated(tp, q)]
  BY <1>7 DEF Activate, Activated
<1> HIDE DEF tp
<1>9. \A r \in Task : task'[r].policy = task[r].policy
  BY <1>1, <1>6, <1>8, ActivatedFacts DEF TypeOK
<1>10. ForkInv' /\ ~Absent(pc'[c]) /\ \A r \in Task \ {c} : Absent(pc'[r]) <=> Absent(pc[r])
  BY <1>1, <1>2, <1>4, <1>9, ForkDoneStep
<1>11. nr_uninterruptible' = nr_uninterruptible - (IF c \in Sleepers THEN 1 ELSE 0)
  BY <1>1, <1>5 DEF TypeOK
<1>12. IdleSeesWork'
  BY <1>1, InitAssumption DEF IdleSeesWork
<1>13. QueueInv'
  BY <1>1, <1>5, <1>6, <1>7, <1>10, <1>11, <1>12, ActivationStep
<1> QED
  BY <1>10, <1>13

\* The child's list, the father's old list and the father's new one.
LEMMA WakeShortInOrder ==
    ASSUME TypeOK, InOrder(arrays, task), NEW t \in Task, NEW c \in Task, c # t,
           task[c].array \notin ArrayId, task[t].array \in ArrayId,
           NEW prio \in Prio, NEW to \in ArrayId, NEW fprio \in Prio, NEW now,
           now[c].array = "short_active", now[c].prio = prio,
           now[t].array = to, now[t].prio = fprio,
           \A r \in Task : r # t /\ r # c => now[r] = task[r]
    PROVE  InOrder(Enqueue(Dequeue(EnqueueHead(arrays, "short_active", prio, c),
                                   task[t].array, task[t].prio, t),
                           to, fprio, t), now)
<1> DEFINE tk1 == [r \in Task |-> IF r = t THEN task[t] ELSE now[r]]
           tk2 == [r \in Task |-> IF r = t THEN [array |-> NULL, prio |-> fprio] ELSE now[r]]
           a == task[t].array
           q == task[t].prio
           l1 == EnqueueHead(arrays, "short_active", prio, c)
           l2 == Dequeue(l1, a, q, t)
<1>1. /\ arrays \in PrioArrays /\ "short_active" \in ArrayId /\ NULL \notin ArrayId
      /\ a \in ArrayId /\ q \in Prio
  BY TaskFacts DEF TypeOK, ArrayId, NULL
<1>2. SameBut(c, task, tk1) /\ tk1[c].array = "short_active" /\ tk1[c].prio = prio
      /\ tk1[t].array = a /\ tk1[t].prio = q
  BY DEF SameBut
<1>3. SameBut(t, tk1, tk2) /\ tk2[t].array \notin ArrayId /\ SameBut(t, tk2, now)
  BY <1>1 DEF SameBut
<1>4. l1 \in PrioArrays
  BY <1>1, EnqueueType
<1>5. l2 \in PrioArrays
  BY <1>4, DequeueType
<1> HIDE DEF tk1, tk2, a, q
<1>6. InOrder(l1, tk1)
  BY <1>1, <1>2, EnqueueInOrder
<1> HIDE DEF l1
<1>7. InOrder(Dequeue(l1, tk1[t].array, tk1[t].prio, t), tk2)
  BY <1>1, <1>2, <1>3, <1>4, <1>6, DequeueInOrder
<1>8. InOrder(l2, tk2)
  BY <1>2, <1>7
<1> HIDE DEF l2
<1>9. InOrder(Enqueue(l2, to, fprio, t), now)
  BY <1>3, <1>5, <1>8, EnqueueInOrder
<1> QED
  BY <1>9 DEF l1, l2, a, q

LEMMA WakeShortStep ==
    ASSUME QueueInv, ForkInv, TypeOK', NEW t \in Task, wake_up_short_forked_process(t)
    PROVE  QueueInv' /\ ForkInv'
<1>1. /\ TypeOK /\ InOrder(arrays, task) /\ curr = t /\ pc[t] = "wakeshort"
      /\ child[t] \in Task /\ ForkDone(t) /\ task[t].state = "RUNNING"
      /\ UNCHANGED <<active, nr_uninterruptible, curr>>
  BY DEF QueueInv, wake_up_short_forked_process, Runs, TypeOK, ForkDone
<1>2. PICK c \in Task : c = child[t]
  BY <1>1
<1>3. pc[c] = "born" /\ task[c].is_short = 1 /\ c # t
  BY <1>1, <1>2 DEF ForkInv, Linking, LinkAgrees
<1>4. /\ task[c] \in TaskRecord /\ task[t] \in TaskRecord /\ FieldsAgree(task[c])
      /\ InClass(task[t], Expired) /\ FieldsAgree(task[t])
  BY <1>1, TaskFacts DEF QueueInv, InClass
<1>5. /\ task[c].array = NULL /\ c \notin Sleepers /\ task[c].policy = "SHORT"
      /\ Queued(t) /\ NULL \notin ArrayId /\ task[t].array \in ArrayId
  BY <1>1, <1>3, <1>4, TaskFacts
     DEF QueueInv, AbsentUnqueued, RunnableIsQueued, Absent, Queued, Sleepers, FieldsAgree
<1> DEFINE to == ActivateArray(task[t])
<1>6. PICK prio \in ForkedPrios(task[c]), fprio \in ActivatePrios(task[t]) :
        /\ task' = [task EXCEPT
               ![c] = [task[c] EXCEPT !.state = "RUNNING", !.prio = prio,
                                      !.array = "short_active"],
               ![t] = [task[t] EXCEPT !.prio = fprio, !.array = to]]
        /\ arrays' = Enqueue(Dequeue(EnqueueHead(arrays, "short_active", prio, c),
                                     task[t].array, task[t].prio, t),
                             to, fprio, t)
        /\ nr_running' = nr_running + 1
  BY <1>2, <1>3 DEF wake_up_short_forked_process
<1>7. prio = task[c].prio /\ prio \in Prio
  BY <1>4, <1>5 DEF ForkedPrios, TaskRecord
<1>8. /\ Activated(task[t], fprio).array = to /\ to \in ArrayId
      /\ Activated(task[t], fprio).prio = fprio /\ fprio \in Prio
      /\ Activated(task[t], fprio).state = "RUNNING"
      /\ Activated(task[t], fprio).policy = task[t].policy
      /\ InClass(Activated(task[t], fprio), Expired)
  BY <1>1, <1>4, ActivatedFacts
<1>9. /\ task'[t] = Activated(task[t], fprio)
      /\ task'[c] = [task[c] EXCEPT !.state = "RUNNING", !.prio = prio,
                                    !.array = "short_active"]
      /\ \A r \in Task : r # t /\ r # c => task'[r] = task[r]
  BY <1>1, <1>3, <1>6 DEF TypeOK, Activated
<1>10. /\ task'[c].array = "short_active" /\ task'[c].prio = prio
       /\ task'[c].state = "RUNNING" /\ task'[c].policy = "SHORT"
       /\ task'[c].is_short = 1
  BY <1>3, <1>4, <1>5, <1>9 DEF TaskRecord
<1> HIDE DEF to
<1>11. InOrder(arrays', task')
  <2> DEFINE now == task'
  <2>1. /\ now[c].array = "short_active" /\ now[c].prio = prio
        /\ now[t].array = to /\ now[t].prio = fprio
        /\ \A r \in Task : r # t /\ r # c => now[r] = task[r]
    BY <1>8, <1>9, <1>10
  <2> HIDE DEF now
  <2>2. task[c].array \notin ArrayId
    BY <1>5
  <2>3. InOrder(Enqueue(Dequeue(EnqueueHead(arrays, "short_active", prio, c),
                                task[t].array, task[t].prio, t),
                        to, fprio, t), now)
    BY <1>1, <1>3, <1>5, <1>7, <1>8, <2>1, <2>2, WakeShortInOrder
  <2> QED
    BY <1>6, <2>3 DEF now
<1>12. \A r \in Task : task'[r].policy = task[r].policy
  BY <1>5, <1>8, <1>9, <1>10
<1>13. ForkInv' /\ ~Absent(pc'[c]) /\ \A r \in Task \ {c} : Absent(pc'[r]) <=> Absent(pc[r])
  BY <1>1, <1>2, <1>3, <1>12, ForkDoneStep
<1>14. \A r \in Task : InClass(task'[r], Expired')
  <2>1. Expired' = Expired /\ Expired \in {"array0", "array1"}
    BY <1>1 DEF Expired
  <2>2. InClass(task'[c], Expired)
    <3>1. FieldsAgree(task'[c])
      BY <1>4, <1>5, <1>7, <1>10 DEF FieldsAgree, IsRt
    <3> QED
      BY <1>10, <2>1, <3>1 DEF InClass, ArrayAgrees, IsShort
  <2>3. ASSUME NEW r \in Task
        PROVE  InClass(task'[r], Expired)
    <3>1. CASE r = t
      BY <1>8, <1>9, <3>1
    <3>2. CASE r = c
      BY <2>2, <3>2
    <3>3. CASE r # t /\ r # c
      BY <1>9, <3>3 DEF QueueInv
    <3> QED
      BY <3>1, <3>2, <3>3
  <2> QED
    BY <2>1, <2>3
<1>15. /\ Queued(t)' /\ Queued(c)' /\ task'[t].state = "RUNNING"
       /\ \A r \in Task : r # t /\ r # c => (Queued(r)' <=> Queued(r))
  BY <1>5, <1>8, <1>9, <1>10 DEF Queued, NULL
<1>16. RunnableIsQueued'
  <2>1. curr' = t /\ t # WILD
    BY <1>1, InitAssumption
  <2>2. \A r \in Task : /\ task'[r].state = "RUNNING" => Queued(r)'
                        /\ Queued(r)' => task'[r].state = "RUNNING" \/ r = t
    <3> SUFFICES ASSUME NEW r \in Task
                 PROVE  /\ task'[r].state = "RUNNING" => Queued(r)'
                        /\ Queued(r)' => task'[r].state = "RUNNING" \/ r = t
      OBVIOUS
    <3>1. CASE r = t \/ r = c
      BY <1>10, <1>15, <3>1
    <3>2. CASE r # t /\ r # c
      BY <1>1, <1>9, <1>15, <3>2 DEF QueueInv, RunnableIsQueued
    <3> QED
      BY <3>1, <3>2
  <2> QED
    BY <1>15, <2>1, <2>2 DEF RunnableIsQueued, Queued
<1>17. AbsentUnqueued'
  <2> SUFFICES ASSUME NEW r \in Task, Absent(pc'[r])
               PROVE  ~Queued(r)' /\ task'[r].state = "UNINTERRUPTIBLE"
    BY DEF AbsentUnqueued
  <2>1. r # c /\ Absent(pc[r])
    BY <1>13
  <2>2. r # t
    BY <1>5, <2>1 DEF QueueInv, AbsentUnqueued
  <2> QED
    BY <1>9, <1>15, <2>1, <2>2 DEF QueueInv, AbsentUnqueued
<1>18. CountsExact'
  <2> DEFINE R == Ready
  <2>1. Ready' = R \cup {c} /\ c \notin R
    <3>1. ~Queued(c)
      BY <1>5 DEF Queued
    <3> QED
      BY <1>5, <1>15, <3>1 DEF Ready
  <2>2. Sleepers' = Sleepers
    <3> SUFFICES ASSUME NEW r \in Task
                 PROVE  (r \in Sleepers)' <=> r \in Sleepers
      BY DEF Sleepers
    <3>1. CASE r = t \/ r = c
      BY <1>5, <1>15, <3>1 DEF Sleepers
    <3>2. CASE r # t /\ r # c
      BY <1>9, <1>13, <1>15, <3>2 DEF Sleepers
    <3> QED
      BY <3>1, <3>2
  <2>3. IsFiniteSet(R) /\ Cardinality(R) \in Nat /\ nr_running = Cardinality(R)
    BY SubsetsFinite DEF QueueInv, CountsExact
  <2>4. nr_running' = nr_running + 1
    BY <1>6
  <2> HIDE DEF R
  <2>5. Cardinality(R \cup {c}) = Cardinality(R) + 1
    BY <2>1, <2>3, FS_AddElement
  <2>6. nr_running' = Cardinality(Ready')
    BY <2>1, <2>3, <2>4, <2>5
  <2>7. nr_uninterruptible' = Cardinality(Sleepers')
    BY <1>1, <2>2 DEF QueueInv, CountsExact
  <2> QED
    BY <2>6, <2>7 DEF CountsExact
<1>19. IdleSeesWork'
  BY <1>1, InitAssumption DEF IdleSeesWork
<1> QED
  BY <1>11, <1>13, <1>14, <1>16, <1>17, <1>18, <1>19 DEF QueueInv
-----------------------------------------------------------------------------
(* Reaping                                                                 *)

LEMMA ReleaseStep ==
    ASSUME QueueInv, ForkInv, TypeOK', NEW t \in Task, NEW c \in Task, release_task(t, c)
    PROVE  QueueInv' /\ ForkInv'
<1>1. /\ TypeOK /\ InOrder(arrays, task) /\ curr = t /\ pc[t] = "entry"
      /\ task[t].state = "RUNNING" /\ task[c].state = "ZOMBIE" /\ c # t
      /\ pc[c] # "none" /\ pc[c] # "new"
      /\ UNCHANGED <<child, arrays, active, nr_running, nr_uninterruptible, curr>>
  BY DEF QueueInv, release_task, Runs, Linked, queues
<1>2. /\ task'[c] = FreeTask
      /\ task'[t] = [task[t] EXCEPT !.time_slice =
                        IF task[c].first_time_slice
                        THEN ReturnedSlice(@, task[c].time_slice) ELSE @]
      /\ \A r \in Task : r # t /\ r # c => task'[r] = task[r]
      /\ \A r \in Task : pc'[r] = IF r = c THEN "none" ELSE IF r = t THEN "exit" ELSE pc[r]
  BY <1>1 DEF release_task, TypeOK
<1>3. ~Queued(c) /\ ~Absent(pc[c]) /\ Queued(t)
  BY <1>1 DEF QueueInv, RunnableIsQueued, AbsentUnqueued
<1>4. /\ task'[t].state = task[t].state /\ task'[t].array = task[t].array
      /\ task'[t].prio = task[t].prio /\ task'[t].policy = task[t].policy
      /\ task'[t].is_short = task[t].is_short
  BY <1>1, <1>2, TaskFacts DEF TaskRecord
<1>5. /\ FreeTask.array = NULL /\ FreeTask.state = "UNINTERRUPTIBLE"
      /\ InClass(FreeTask, Expired)
  BY <1>1, FreeInClass
<1>6. \A r \in Task : Queued(r)' <=> Queued(r)
  BY <1>2, <1>3, <1>4, <1>5 DEF Queued
<1>7. InOrder(arrays', task')
  <2> DEFINE now == task'
  <2>1. \A r \in Task : now[r].array = task[r].array
    BY <1>2, <1>3, <1>4, <1>5 DEF Queued
  <2>2. \A r \in Task : task[r].array \in ArrayId => now[r].prio = task[r].prio
    BY <1>1, <1>2, <1>3, <1>4, TaskFacts DEF Queued
  <2> HIDE DEF now
  <2>3. InOrder(arrays, now)
    BY <1>1, <2>1, <2>2, SameInOrder
  <2> QED
    BY <1>1, <2>3 DEF now
<1>8. \A r \in Task : InClass(task'[r], Expired')
  <2>1. Expired' = Expired
    BY <1>1 DEF Expired
  <2>2. InClass(task'[t], Expired)
    <3>1. InClass(task[t], Expired)
      BY DEF QueueInv
    <3> QED
      BY <1>4, <3>1 DEF InClass, FieldsAgree, ArrayAgrees, IsRt, IsShort, IsOverdue
  <2>3. \A r \in Task : r # t /\ r # c => InClass(task'[r], Expired)
    BY <1>2 DEF QueueInv
  <2> QED
    BY <1>2, <1>5, <2>1, <2>2, <2>3
<1>9. RunnableIsQueued'
  <2>1. curr' # WILD /\ (curr' \in Task => Queued(curr)')
    BY <1>1, <1>3, <1>6, InitAssumption
  <2>2. \A r \in Task : /\ task'[r].state = "RUNNING" => Queued(r)'
                        /\ Queued(r)' => task'[r].state = "RUNNING" \/ r = curr
    BY <1>2, <1>3, <1>4, <1>5, <1>6 DEF QueueInv, RunnableIsQueued
  <2> QED
    BY <1>1, <2>1, <2>2 DEF RunnableIsQueued
<1>10. AbsentUnqueued'
  <2>1. \A r \in Task \ {c} : Absent(pc'[r]) => Absent(pc[r])
    BY <1>2 DEF Absent
  <2>2. task'[c].state = "UNINTERRUPTIBLE" /\ ~Queued(c)'
    BY <1>2, <1>3, <1>5, <1>6
  <2> QED
    BY <1>2, <1>4, <1>6, <2>1, <2>2 DEF QueueInv, AbsentUnqueued
<1>11. CountsExact'
  <2>1. Ready' = Ready
    BY <1>6 DEF Ready
  <2>2. Sleepers' = Sleepers
    <3> SUFFICES ASSUME NEW r \in Task
                 PROVE  (r \in Sleepers)' <=> r \in Sleepers
      BY DEF Sleepers
    <3>1. CASE r = c
      BY <1>1, <1>2, <3>1 DEF Sleepers, Absent
    <3>2. CASE r # c
      BY <1>1, <1>2, <1>4, <1>6, <3>2 DEF Sleepers, Absent
    <3> QED
      BY <3>1, <3>2
  <2> QED
    BY <1>1, <2>1, <2>2 DEF QueueInv, CountsExact
<1>12. IdleSeesWork'
  BY <1>1, InitAssumption DEF IdleSeesWork
<1>13. QueueInv'
  BY <1>7, <1>8, <1>9, <1>10, <1>11, <1>12 DEF QueueInv
<1>14. ForkInv'
  <2> SUFFICES ASSUME NEW u \in Task
               PROVE  ~Linking(pc'[u]) /\ (pc'[u] = "copy" => CopyAgrees(u)')
    BY DEF ForkInv
  <2>1. \A r \in Task : ~Linking(pc[r])
    BY <1>1, NobodyLinks DEF Linking
  <2>2. ~Linking(pc'[u])
    BY <1>2, <2>1 DEF Linking
  <2>3. ASSUME pc'[u] = "copy"
        PROVE  CopyAgrees(u)'
    <3>1. pc[u] = "copy" /\ u # c /\ u # t
      BY <1>2, <2>3
    <3>2. child[u] \in Task /\ pc[child[u]] = "new" /\ child[u] # t /\ child[u] # c
      BY <1>1, <3>1, TaskFacts DEF ForkInv, CopyAgrees
    <3>3. /\ child'[u] = child[u] /\ pc'[child[u]] = "new"
          /\ task'[u] = task[u] /\ task'[child[u]] = task[child[u]]
      BY <1>1, <1>2, <3>1, <3>2
    <3>4. \A v \in Task : pc'[v] = "copy" /\ child'[v] = child[u] =>
                              pc[v] = "copy" /\ child[v] = child[u]
      BY <1>1, <1>2
    <3> QED
      BY <3>1, <3>3, <3>4, CopyKept
  <2> QED
    BY <2>2, <2>3
<1> QED
  BY <1>13, <1>14
-----------------------------------------------------------------------------
LEMMA QueueInit == Init => QueueInv /\ ForkInv
<1> SUFFICES ASSUME Init
             PROVE  QueueInv /\ ForkInv
  OBVIOUS
<1> DEFINE none == [p \in Task |-> FreeTask]
           empty == [a \in ArrayId |-> EmptyArray]
<1>1. TypeOK /\ Init1 \in Task
  BY InitType, InitAssumption
<1>2. /\ task[Init1].array = "array0" /\ task[Init1].prio = MAX_RT_PRIO
      /\ task[Init1].state = "RUNNING" /\ task[Init1].policy = "OTHER"
      /\ task[Init1].is_short = 0
      /\ \A p \in Task : p # Init1 => task[p] = FreeTask
  BY <1>1 DEF Init, FreeTask
<1>3. /\ \A p \in Task : pc[p] = IF p = Init1 THEN "user" ELSE "none"
      /\ active = "array0" /\ curr = Init1 /\ nr_running = 1 /\ nr_uninterruptible = 0
      /\ arrays = Enqueue(empty, "array0", MAX_RT_PRIO, Init1)
  BY DEF Init
<1>4. empty \in PrioArrays
  BY DEF PrioArrays, EmptyArray
<1>5. FreeTask.array = NULL /\ NULL \notin ArrayId /\ FreeTask.state = "UNINTERRUPTIBLE"
      /\ InClass(FreeTask, Expired)
  BY <1>1, FreeInClass DEF NULL, ArrayId
<1>6. InOrder(empty, none)
  <2>1. ASSUME NEW a \in ArrayId
        PROVE  /\ empty[a].nr_active = 0 /\ empty[a].bitmap = {}
               /\ \A q \in Prio : empty[a].queue[q] = << >>
    BY DEF EmptyArray
  <2>2. ASSUME NEW a \in ArrayId
        PROVE  InArray(none, a) = {}
    BY <1>5 DEF InArray
  <2>3. Cardinality({}) = 0
    BY FS_EmptySet
  <2>4. \A p \in Task : none[p].array \notin ArrayId
    BY <1>5
  <2> HIDE DEF empty, none
  <2>5. ASSUME NEW a \in ArrayId, NEW q \in Prio
        PROVE  ListInOrder(empty, none, a, q)
    <3>1. empty[a].queue[q] = << >> /\ q \notin empty[a].bitmap
      BY <2>1
    <3> QED
      BY <2>4, <3>1 DEF ListInOrder, NoRepeat, OnList
  <2> QED
    BY <2>1, <2>2, <2>3, <2>5 DEF InOrder
<1>7. InOrder(arrays, task)
  <2>1. none[Init1].array \notin ArrayId /\ SameBut(Init1, none, task)
    BY <1>1, <1>2, <1>5 DEF SameBut
  <2>2. "array0" \in ArrayId /\ MAX_RT_PRIO \in Prio
    BY PrioAssumption DEF ArrayId, Prio
  <2> HIDE DEF none, empty
  <2> QED
    BY <1>1, <1>2, <1>3, <1>4, <1>6, <2>1, <2>2, EnqueueInOrder
<1>8. \A p \in Task : InClass(task[p], Expired)
  <2>1. Expired = "array1"
    BY <1>3 DEF Expired
  <2>2. InClass(task[Init1], Expired)
    BY <1>2, <2>1, PrioAssumption DEF InClass, FieldsAgree, ArrayAgrees, IsRt
  <2> QED
    BY <1>2, <1>5, <2>2
<1>9. \A p \in Task : Queued(p) <=> p = Init1
  BY <1>2, <1>5 DEF Queued, NULL
<1>10. RunnableIsQueued
  BY <1>1, <1>2, <1>3, <1>5, <1>9, InitAssumption DEF RunnableIsQueued
<1>11. AbsentUnqueued
  BY <1>2, <1>3, <1>5, <1>9 DEF AbsentUnqueued, Absent
<1>12. CountsExact
  <2>1. Ready = {Init1}
    BY <1>1, <1>9 DEF Ready
  <2>2. Sleepers = {}
    BY <1>3, <1>9 DEF Sleepers, Absent
  <2> QED
    BY <1>3, <2>1, <2>2, FS_EmptySet, FS_Singleton DEF CountsExact
<1>13. IdleSeesWork
  BY <1>3, InitAssumption DEF IdleSeesWork
<1>14. ForkInv
  BY <1>3 DEF ForkInv, Linking
<1> QED
  BY <1>1, <1>7, <1>8, <1>10, <1>11, <1>12, <1>13, <1>14 DEF QueueInv

LEMMA QueueNext ==
    ASSUME RacyFork = FALSE
    PROVE  QueueInv /\ ForkInv /\ [Next]_vars => QueueInv' /\ ForkInv'
<1> SUFFICES ASSUME QueueInv, ForkInv, [Next]_vars
             PROVE  QueueInv' /\ ForkInv'
  OBVIOUS
<1>1. TypeOK /\ TypeOK'
  BY NextType DEF QueueInv
<1>2. CASE Tick
  BY <1>1, <1>2, TickStep
<1>3. CASE schedule
  BY <1>1, <1>3, ScheduleStep
<1>4. ASSUME NEW p \in Task, try_to_wake_up(p)
      PROVE  QueueInv' /\ ForkInv'
  BY <1>1, <1>4, WakeStep
<1>5. ASSUME NEW t \in Task, TaskStep(t)
      PROVE  QueueInv' /\ ForkInv'
  <2>1. CASE SystemCall(t) \/ NoEffect(t) \/ ReturnToUser(t)
    BY <1>1, <2>1, KernelEntryStep
  <2>2. CASE \E state \in SleepStates : SetState(t, state)
    BY <1>1, <2>2, SetStateStep
  <2>3. CASE SchedulerCall(t)
    <3>1. CASE sys_sched_yield(t)
      BY <1>1, <3>1, YieldKeeps
    <3>2. ASSUME NEW p \in Task, NEW nice \in Nices, set_user_nice(t, p, nice)
          PROVE  QueueInv' /\ ForkInv'
      BY <1>1, <3>2, NiceKeeps
    <3>3. ASSUME NEW p \in Task,
                 \/ \E request \in Requests :
                        BecomeShort(t, p, request) \/ ResizeShort(t, p, request)
                 \/ SetOther(t, p)
                 \/ \E policy \in {"FIFO", "RR"}, sched_priority \in RtPriorities :
                        SetRealTime(t, p, policy, sched_priority)
          PROVE  QueueInv' /\ ForkInv'
      BY <1>1, <3>3, PolicyCallsKeep
    <3> QED
      BY <2>3, <3>1, <3>2, <3>3 DEF SchedulerCall
  <2>4. CASE Fork(t)
    <3>1. CASE \E c \in Task : ForkCopy(t, c)
      BY <1>1, <3>1, ForkCopyStep
    <3>2. CASE ForkFail(t) \/ ForkShare(t) \/ ForkTick(t) \/ ForkChoose(t)
      BY <1>1, <3>2, ForkFailStep, ForkShareStep, ForkTickStep, ForkChooseStep
    <3>3. CASE wake_up_forked_process(t) \/ wake_up_short_forked_process(t)
      BY <1>1, <3>3, WakePlainStep, WakeShortStep
    <3> QED
      BY <2>4, <3>1, <3>2, <3>3 DEF Fork
  <2>5. CASE do_exit(t)
    BY <1>1, <2>5, ExitStep
  <2>6. CASE \E c \in Task : release_task(t, c)
    BY <1>1, <2>6, ReleaseStep
  <2> QED
    BY <1>5, <2>1, <2>2, <2>3, <2>4, <2>5, <2>6 DEF TaskStep
<1>6. CASE UNCHANGED vars
  <2>1. /\ UNCHANGED <<task, need_resched, pc, child, arrays, active, nr_running,
                       nr_uninterruptible, curr>>
    BY <1>6 DEF vars, queues
  <2>2. UNCHANGED <<Ready, Sleepers, Expired>>
    BY <2>1 DEF Ready, Sleepers, Expired, Queued
  <2>3. QueueInv'
    BY <1>1, <2>1, <2>2
       DEF QueueInv, RunnableIsQueued, Queued, AbsentUnqueued, CountsExact, IdleSeesWork
  <2>4. ForkInv'
    BY <2>1 DEF ForkInv, CopyAgrees, LinkAgrees
  <2> QED
    BY <2>3, <2>4
<1> QED
  BY <1>2, <1>3, <1>4, <1>5, <1>6 DEF Next

LEMMA QueueAlways ==
    ASSUME RacyFork = FALSE
    PROVE  Spec => [](QueueInv /\ ForkInv)
<1>1. QueueInv /\ ForkInv /\ [Next]_vars => (QueueInv /\ ForkInv)'
  BY QueueNext
<1> QED
  BY <1>1, QueueInit, PTL DEF Spec

\* Whatever calls and interrupts come in whatever order, a queued task is on
\* the one list that its array and its priority name, and the bitmaps and the
\* counters of the four arrays say what their lists hold: enqueue_task and
\* dequeue_task are never called with fields that have changed in between.
THEOREM QueuesStayInOrder ==
    ASSUME RacyFork = FALSE
    PROVE  Spec => []QueuesInOrder
<1>1. QueueInv => QueuesInOrder
  <2> SUFFICES ASSUME QueueInv
               PROVE  QueuesInOrder
    OBVIOUS
  <2>1. TypeOK /\ InOrder(arrays, task) /\ arrays \in PrioArrays
    BY DEF QueueInv, TypeOK
  <2>2. \A p \in Task : task[p].prio \in Prio
    BY <2>1, TaskFacts
  <2>3. /\ RedundancyExact(arrays) /\ NoTaskTwice(arrays)
        /\ \A p \in Task : task[p].array \notin ArrayId => ~OnAnyList(arrays, p)
    BY <2>1, <2>2, InOrderMeans
  <2>4. ASSUME NEW p \in Task
        PROVE  IF Queued(p) THEN OnList(arrays[task[p].array].queue[task[p].prio], p)
               ELSE ~OnAnyList(arrays, p)
    <3>1. Queued(p) <=> task[p].array \in ArrayId
      BY <2>1, TaskFacts
    <3>2. CASE Queued(p)
      BY <2>1, <2>2, <3>1, <3>2 DEF InOrder, ListInOrder
    <3> QED
      BY <2>3, <3>1, <3>2
  <2>5. nr_running = Cardinality({p \in Task : Queued(p)})
    BY DEF QueueInv, CountsExact, Ready
  <2> QED
    BY <2>3, <2>4, <2>5 DEF QueuesInOrder
<1> QED
  BY <1>1, QueueAlways, PTL

\* schedule() always finds a task to run when one can run and takes it from a
\* list that holds one; every task that can run is queued, and a task that
\* cannot is queued only while it is the current one.
THEOREM RunnableStaysQueued ==
    ASSUME RacyFork = FALSE
    PROVE  Spec => []RunnableIsQueued
<1>1. QueueInv => RunnableIsQueued
  BY DEF QueueInv
<1> QED
  BY <1>1, QueueAlways, PTL

\* The array that a task waits in and the fields that the code tests to find it
\* agree after every change of policy, priority or slice.
THEOREM ClassStaysWithArray ==
    ASSUME RacyFork = FALSE
    PROVE  Spec => []ClassMatchesArray
<1>1. QueueInv => ClassMatchesArray
  BY DEF QueueInv, InClass, FieldsAgree, ArrayAgrees, ClassMatchesArray
<1> QED
  BY <1>1, QueueAlways, PTL

\* nr_uninterruptible is the number of tasks that sleep so, a forked child that
\* is not awake yet left aside.
THEOREM UninterruptibleStaysExact ==
    ASSUME RacyFork = FALSE
    PROVE  Spec => []UninterruptibleExact
<1>1. QueueInv => UninterruptibleExact
  <2> SUFFICES ASSUME QueueInv
               PROVE  UninterruptibleExact
    OBVIOUS
  <2>1. Sleepers = {p \in Task : /\ Linked(p) /\ pc[p] # "born"
                                 /\ task[p].state = "UNINTERRUPTIBLE"
                                 /\ ~Queued(p)}
    BY DEF Sleepers, Absent, Linked
  <2> QED
    BY <2>1 DEF QueueInv, CountsExact, UninterruptibleExact
<1> QED
  BY <1>1, QueueAlways, PTL

\* The idle task does not sleep through a wake-up: try_to_wake_up sets its
\* need_resched because its priority is worse than every task's.
THEOREM IdleAlwaysSeesWork ==
    ASSUME RacyFork = FALSE
    PROVE  Spec => []IdleSeesWork
<1>1. QueueInv => IdleSeesWork
  BY DEF QueueInv
<1> QED
  BY <1>1, QueueAlways, PTL
-----------------------------------------------------------------------------
(* The policy                                                              *)
(*                                                                         *)
(* ShortSched implements SchedPolicy: the CPU goes to a task of the best   *)
(* class that can run, and a class changes only as the life of a SHORT     *)
(* task allows.  Each step of the scheduler is mapped to one of            *)
(* SchedPolicy or to none.  The map reads the lists of the arrays and the  *)
(* fields of the tasks; that it does is the invariant above.               *)

ClassStays == \A r \in Task : ClassOf(r)' = ClassOf(r)

ClassBecomes(p, c) ==
    /\ ClassOf(p)' = c
    /\ \A r \in Task \ {p} : ClassOf(r)' = ClassOf(r)

\* The lists of the arrays hold the tasks whose fields say that they are queued.
LEMMA ReadyMeans == QueueInv => {p \in Task : OnAnyList(arrays, p)} = Ready
<1> SUFFICES ASSUME QueueInv
             PROVE  {p \in Task : OnAnyList(arrays, p)} = Ready
  OBVIOUS
<1>1. TypeOK /\ InOrder(arrays, task)
  BY DEF QueueInv
<1>2. ASSUME NEW p \in Task
      PROVE  OnAnyList(arrays, p) <=> Queued(p)
  <2>1. /\ Queued(p) <=> task[p].array \in ArrayId
        /\ task[p].prio \in Prio
    BY <1>1, TaskFacts
  <2>2. \A a \in ArrayId, q \in Prio :
          OnList(arrays[a].queue[q], p) <=> task[p].array = a /\ task[p].prio = q
    BY <1>1 DEF InOrder, ListInOrder
  <2> QED
    BY <2>1, <2>2 DEF OnAnyList
<1> QED
  BY <1>2 DEF Ready

LEMMA Steps ==
    ASSUME QueueInv, QueueInv', curr' = curr
    PROVE  /\ ClassStays /\ Ready' = Ready => UNCHANGED Promise!pvars
           /\ \A p \in Task : \A c : ClassBecomes(p, c) /\ Ready' = Ready => Promise!Become(p, c)
           /\ \A p \in Task :
                ClassStays /\ ClassOf(p) # "none" /\ Ready' = Ready \cup {p} => Promise!Wake(p)
<1>1. {p \in Task : OnAnyList(arrays, p)} = Ready
  BY ReadyMeans
<1>2. {p \in Task : OnAnyList(arrays, p)}' = Ready'
  <2>1. ({p \in Task : OnAnyList(arrays, p)} = Ready)'
    BY ReadyMeans, PTL
  <2> QED
    BY <2>1
<1>3. ClassStays => [p \in Task |-> ClassOf(p)]' = [p \in Task |-> ClassOf(p)]
  BY DEF ClassStays
<1>4. \A p \in Task : \A c : ClassBecomes(p, c) =>
          [r \in Task |-> ClassOf(r)]' = [[r \in Task |-> ClassOf(r)] EXCEPT ![p] = c]
  BY DEF ClassBecomes
<1> QED
  BY <1>1, <1>2, <1>3, <1>4 DEF Promise!pvars, Promise!Become, Promise!Wake

-----------------------------------------------------------------------------
(* What the steps do to the class of a task                                *)

\* The two fields that the class is read from.
SameFields(r) ==
    /\ task'[r].policy = task[r].policy
    /\ task'[r].is_short = task[r].is_short

LEMMA ClassKept ==
    ASSUME NEW r, SameFields(r), Linked(r)' <=> Linked(r)
    PROVE  ClassOf(r)' = ClassOf(r)
BY DEF SameFields, ClassOf, IsShort, IsOverdue

LEMMA LinkedMeans ==
    ASSUME TypeOK, NEW r \in Task, Linked(r)
    PROVE  /\ task[r].policy \in Policy
           /\ ClassOf(r) = "short" <=> task[r].policy = "SHORT" /\ task[r].is_short = 1
           /\ ClassOf(r) = "overdue" <=> task[r].policy = "SHORT" /\ task[r].is_short # 1
           /\ ClassOf(r) = "other" <=> task[r].policy = "OTHER"
           /\ ClassOf(r) = "realtime" <=> task[r].policy \in {"FIFO", "RR"}
           /\ ClassOf(r) \in {"short", "overdue", "other", "realtime"}
<1>1. task[r].policy \in Policy
  BY TaskFacts DEF TaskRecord
<1> QED
  BY <1>1 DEF ClassOf, IsShort, IsOverdue, Policy

LEMMA RequeueFields ==
    ASSUME TypeOK, NEW p \in Task, NEW tp \in TaskRecord, NEW from, NEW to \in ArrayId,
           Requeue(p, from, to, tp)
    PROVE  /\ OthersSame(p) /\ task'[p].array # NULL
           /\ task'[p].policy = tp.policy /\ task'[p].is_short = tp.is_short
<1>1. OthersSame(p) /\ task'[p] = [tp EXCEPT !.array = to]
  BY DEF Requeue, TypeOK, OthersSame
<1> QED
  BY <1>1 DEF TaskRecord, ArrayId, NULL

LEMMA ActivateFields ==
    ASSUME TypeOK, NEW p \in Task, NEW tp \in TaskRecord, NEW from, Activate(p, tp, from)
    PROVE  /\ OthersSame(p) /\ task'[p].array # NULL
           /\ task'[p].policy = tp.policy /\ task'[p].is_short = tp.is_short
<1>1. PICK prio \in ActivatePrios(tp) :
        task' = [task EXCEPT ![p] = [tp EXCEPT !.prio = prio, !.array = ActivateArray(tp)]]
  BY DEF Activate
<1>2. OthersSame(p) /\ task'[p] = [tp EXCEPT !.prio = prio, !.array = ActivateArray(tp)]
  BY <1>1 DEF TypeOK, OthersSame
<1>3. ActivateArray(tp) # NULL
  BY DEF ActivateArray, TypeOK, NULL
<1> QED
  BY <1>2, <1>3 DEF TaskRecord

\* Fields of one task change, who is queued and who is linked does not.
LEMMA OneChanges ==
    ASSUME NEW p \in Task, OthersSame(p), task'[p].array = NULL <=> task[p].array = NULL,
           \A r \in Task : Linked(r)' <=> Linked(r)
    PROVE  /\ Ready' = Ready
           /\ \A r \in Task \ {p} : ClassOf(r)' = ClassOf(r)
           /\ SameFields(p) => ClassStays
<1>1. Ready' = Ready
  BY DEF Ready, Queued, OthersSame
<1>2. \A r \in Task \ {p} : ClassOf(r)' = ClassOf(r)
  <2>1. \A r \in Task \ {p} : SameFields(r)
    BY DEF SameFields, OthersSame
  <2> QED
    BY <2>1, ClassKept
<1> QED
  BY <1>1, <1>2, ClassKept DEF ClassStays

\* The tick takes a task from its class only when it is the current one.
LEMMA TickClass ==
    ASSUME QueueInv, TypeOK', NEW p \in Task, curr = p, scheduler_tick(p),
           \A r \in Task : Linked(r)' <=> Linked(r)
    PROVE  /\ Ready' = Ready
           /\ \/ ClassStays
              \/ ClassOf(p) = "short" /\ ClassBecomes(p, "overdue")
              \/ ClassOf(p) = "overdue" /\ ClassBecomes(p, "other")
<1>1. TypeOK /\ Queued(p) /\ task[p] \in TaskRecord /\ Linked(p)
  BY TaskFacts DEF QueueInv, RunnableIsQueued, AbsentUnqueued, Absent, Linked
<1>2. active \in ArrayId /\ Expired \in ArrayId /\ "overdue" \in ArrayId
  BY <1>1 DEF TypeOK, Expired, ArrayId
<1>3. TickedDown(p) \in TaskRecord /\ Refilled(p) \in TaskRecord
  BY <1>1, TickFields
<1>4. /\ TickedDown(p).policy = task[p].policy /\ TickedDown(p).is_short = task[p].is_short
      /\ TickedDown(p).array = task[p].array
      /\ Refilled(p).policy = task[p].policy /\ Refilled(p).is_short = task[p].is_short
  BY <1>1 DEF TickedDown, Refilled, TaskRecord
<1>5. ASSUME OthersSame(p), task'[p].array # NULL, SameFields(p)
      PROVE  Ready' = Ready /\ ClassStays
  BY <1>1, <1>5, OneChanges DEF Queued
<1>6. CASE UNCHANGED task
  BY <1>1, <1>5, <1>6 DEF OthersSame, SameFields, Queued
<1>7. CASE task' = [task EXCEPT ![p] = TickedDown(p)]
  <2>1. OthersSame(p) /\ task'[p] = TickedDown(p)
    BY <1>1, <1>7 DEF TypeOK, OthersSame
  <2> QED
    BY <1>1, <1>4, <1>5, <2>1 DEF SameFields, Queued
<1>8. CASE Requeue(p, active, active, Refilled(p))
  BY <1>1, <1>2, <1>3, <1>4, <1>5, <1>8, RequeueFields DEF SameFields
<1>9. CASE TickEndsRegular(p)
  <2>1. PICK prio \in EffectivePrios(task[p]), to \in {active, Expired} :
          Requeue(p, active, to, [Refilled(p) EXCEPT !.prio = prio])
    BY <1>9 DEF TickEndsRegular
  <2> DEFINE tp == [Refilled(p) EXCEPT !.prio = prio]
  <2>2. tp \in TaskRecord /\ tp.policy = task[p].policy /\ tp.is_short = task[p].is_short
    BY <1>1, <1>3, <1>4, EffectivePrioType DEF TaskRecord
  <2> HIDE DEF tp
  <2>3. Requeue(p, active, to, tp) /\ to \in ArrayId
    BY <1>2, <2>1 DEF tp
  <2> QED
    BY <1>1, <1>5, <2>2, <2>3, RequeueFields DEF SameFields
<1>10. CASE TickEndsShort(p)
  <2> DEFINE tp == [task[p] EXCEPT !.prio = MAX_PRIO - 1, !.is_short = -1,
                                   !.time_slice = OverdueSlice(task[p].requested_time),
                                   !.first_time_slice = FALSE]
  <2>1. MAX_PRIO - 1 \in Prio /\ OverdueSlice(task[p].requested_time) \in Nat
    BY <1>1, SliceTypes, PrioAssumption DEF TaskRecord, Prio
  <2>2. tp \in TaskRecord /\ tp.policy = task[p].policy /\ tp.is_short = -1
    BY <1>1, <2>1 DEF TaskRecord
  <2>3. /\ Requeue(p, task[p].array, "overdue", tp)
        /\ task[p].policy = "SHORT" /\ task[p].is_short = 1
    BY <1>10 DEF TickEndsShort
  <2> HIDE DEF tp
  <2>4. /\ OthersSame(p) /\ task'[p].array # NULL
        /\ task'[p].policy = "SHORT" /\ task'[p].is_short = -1
    BY <1>1, <1>2, <2>2, <2>3, RequeueFields
  <2>5. Ready' = Ready /\ \A r \in Task \ {p} : ClassOf(r)' = ClassOf(r)
    BY <1>1, <2>4, OneChanges DEF Queued
  <2>6. ClassOf(p) = "short" /\ ClassOf(p)' = "overdue"
    BY <1>1, <2>3, <2>4 DEF ClassOf, IsShort, IsOverdue
  <2> QED
    BY <2>5, <2>6 DEF ClassBecomes
<1>11. CASE TickEndsOverdue(p)
  <2>1. PICK prio \in EffectivePrios(task[p]) :
          Requeue(p, task[p].array, active,
                  [Refilled(p) EXCEPT !.policy = "OTHER", !.prio = prio])
    BY <1>11 DEF TickEndsOverdue
  <2> DEFINE tp == [Refilled(p) EXCEPT !.policy = "OTHER", !.prio = prio]
  <2>2. tp \in TaskRecord /\ tp.policy = "OTHER"
    BY <1>1, <1>3, EffectivePrioType DEF TaskRecord, Policy
  <2>3. /\ Requeue(p, task[p].array, active, tp)
        /\ task[p].policy = "SHORT" /\ task[p].is_short # 1
    BY <1>11, <2>1 DEF TickEndsOverdue
  <2> HIDE DEF tp
  <2>4. /\ OthersSame(p) /\ task'[p].array # NULL /\ task'[p].policy = "OTHER"
    BY <1>1, <1>2, <2>2, <2>3, RequeueFields
  <2>5. Ready' = Ready /\ \A r \in Task \ {p} : ClassOf(r)' = ClassOf(r)
    BY <1>1, <2>4, OneChanges DEF Queued
  <2>6. ClassOf(p) = "overdue" /\ ClassOf(p)' = "other"
    BY <1>1, <2>3, <2>4 DEF ClassOf, IsShort, IsOverdue
  <2> QED
    BY <2>5, <2>6 DEF ClassBecomes
<1> QED
  BY <1>6, <1>7, <1>8, <1>9, <1>10, <1>11
     DEF scheduler_tick, TickExpired, TickRealTime, TickRunning
-----------------------------------------------------------------------------
(* The steps that SchedPolicy allows                                       *)

Allowed == Promise!PolicyNext \/ UNCHANGED Promise!pvars

LEMMA AllowedSteps ==
    ASSUME QueueInv, NEW p \in Task
    PROVE  /\ Promise!Wake(p) => Allowed
           /\ ClassOf(p) = "other" /\ Promise!Become(p, "short") => Allowed
           /\ curr = p /\ ClassOf(p) = "short" /\ Promise!Become(p, "overdue") => Allowed
           /\ curr = p /\ ClassOf(p) = "overdue" /\ Promise!Become(p, "other") => Allowed
           /\ p \notin Ready /\ Promise!Become(p, "none") => Allowed
           /\ \A c \in {"realtime", "other"} :
                ClassOf(p) \in {"realtime", "other"} /\ Promise!Become(p, c) => Allowed
           /\ \A c \in {"short", "overdue", "other", "realtime"} :
                /\ ClassOf(p) = "none" /\ curr \in Task
                /\ c = "short" <=> ClassOf(curr) = "short"
                /\ c \in {"realtime", "other"} => ClassOf(curr) \in {"realtime", "other"}
                /\ Promise!Become(p, c)
                => Allowed
<1>1. {r \in Task : OnAnyList(arrays, r)} = Ready
  BY ReadyMeans
<1>2. Promise!Wake(p) => Allowed
  BY DEF Allowed, Promise!PolicyNext
<1>3. ClassOf(p) = "other" /\ Promise!Become(p, "short") => Allowed
  <2>1. ClassOf(p) = "other" /\ Promise!Become(p, "short") => Promise!Request(p)
    BY DEF Promise!Request
  <2> QED
    BY <2>1 DEF Allowed, Promise!PolicyNext
<1>4. /\ curr = p /\ ClassOf(p) = "short" /\ Promise!Become(p, "overdue") => Allowed
      /\ curr = p /\ ClassOf(p) = "overdue" /\ Promise!Become(p, "other") => Allowed
  <2>1. /\ curr = p /\ ClassOf(p) = "short" /\ Promise!Become(p, "overdue") => Promise!UseUp(p)
        /\ curr = p /\ ClassOf(p) = "overdue" /\ Promise!Become(p, "other") => Promise!UseUp(p)
    BY DEF Promise!UseUp
  <2> QED
    BY <2>1 DEF Allowed, Promise!PolicyNext
<1>5. p \notin Ready /\ Promise!Become(p, "none") => Allowed
  <2>1. p \notin Ready /\ Promise!Become(p, "none") => Promise!Vanish(p)
    BY <1>1 DEF Promise!Vanish
  <2> QED
    BY <2>1 DEF Allowed, Promise!PolicyNext
<1>6. \A c \in {"realtime", "other"} :
          ClassOf(p) \in {"realtime", "other"} /\ Promise!Become(p, c) => Allowed
  <2>1. \A c \in Promise!Regular :
          ClassOf(p) \in {"realtime", "other"} /\ Promise!Become(p, c) =>
              Promise!ChangeRegular(p, c)
    BY DEF Promise!ChangeRegular, Promise!Regular
  <2>2. \A c \in Promise!Regular : Promise!ChangeRegular(p, c) => Allowed
    BY DEF Allowed, Promise!PolicyNext
  <2> QED
    BY <2>1, <2>2 DEF Promise!Regular
<1>7. ASSUME NEW c \in {"short", "overdue", "other", "realtime"},
             ClassOf(p) = "none", curr \in Task,
             c = "short" <=> ClassOf(curr) = "short",
             c \in {"realtime", "other"} => ClassOf(curr) \in {"realtime", "other"},
             Promise!Become(p, c)
      PROVE  Allowed
  <2>1. Promise!Born(p, c)
    BY <1>7 DEF Promise!Born, Promise!Regular
  <2>2. c \in Promise!Class \ {"none"}
    BY DEF Promise!Class
  <2> QED
    BY <2>1, <2>2 DEF Allowed, Promise!PolicyNext
<1> QED
  BY <1>2, <1>3, <1>4, <1>5, <1>6, <1>7

\* A step after which every task is in its class and on its list as before.
LEMMA QuietStep ==
    ASSUME QueueInv, QueueInv', curr' = curr, ClassStays, Ready' = Ready
    PROVE  Allowed
BY Steps DEF Allowed

LEMMA TickPolicy ==
    ASSUME QueueInv, QueueInv', NEW p \in Task, curr = p, scheduler_tick(p),
           \A r \in Task : Linked(r)' <=> Linked(r)
    PROVE  Allowed
<1>1. TypeOK' /\ curr' = curr
  BY DEF QueueInv, scheduler_tick
<1>2. /\ Ready' = Ready
      /\ \/ ClassStays
         \/ ClassOf(p) = "short" /\ ClassBecomes(p, "overdue")
         \/ ClassOf(p) = "overdue" /\ ClassBecomes(p, "other")
  BY <1>1, TickClass
<1>3. CASE ClassStays
  BY <1>1, <1>2, <1>3, QuietStep
<1>4. CASE ClassOf(p) = "short" /\ ClassBecomes(p, "overdue")
  BY <1>1, <1>2, <1>4, Steps, AllowedSteps
<1>5. CASE ClassOf(p) = "overdue" /\ ClassBecomes(p, "other")
  BY <1>1, <1>2, <1>5, Steps, AllowedSteps
<1> QED
  BY <1>2, <1>3, <1>4, <1>5

LEMMA CalmLinked ==
    ASSUME PcCalm
    PROVE  \A r \in Task : Linked(r)' <=> Linked(r)
BY DEF PcCalm, Linked

\* Steps that change no policy, no is_short and no queue.
LEMMA SmallStep ==
    ASSUME QueueInv, QueueInv', curr' = curr,
           \A r \in Task : /\ SameFields(r) /\ (Linked(r)' <=> Linked(r))
                           /\ task'[r].array = task[r].array
    PROVE  Allowed
<1>1. ClassStays
  BY ClassKept DEF ClassStays
<1>2. Ready' = Ready
  BY DEF Ready, Queued
<1> QED
  BY <1>1, <1>2, QuietStep

LEMMA KernelPolicy ==
    ASSUME QueueInv, QueueInv', NEW t \in Task,
           \/ SystemCall(t) \/ NoEffect(t) \/ ReturnToUser(t)
           \/ \E state \in SleepStates : SetState(t, state)
           \/ do_exit(t) \/ ForkChoose(t) \/ ForkTick(t)
    PROVE  Allowed
<1>1. TypeOK /\ curr = t
  BY DEF QueueInv, SystemCall, NoEffect, ReturnToUser, SetState, do_exit, ForkChoose,
         ForkTick, Runs
<1>2. \A r \in Task : Linked(r)' <=> Linked(r)
  BY <1>1 DEF SystemCall, NoEffect, ReturnToUser, SetState, do_exit, ForkChoose, ForkTick,
              Runs, Goto, Linked, TypeOK
<1>3. CASE \/ SystemCall(t) \/ NoEffect(t) \/ ReturnToUser(t) \/ ForkChoose(t)
  <2>1. UNCHANGED <<task, curr>>
    BY <1>3 DEF SystemCall, NoEffect, ReturnToUser, ForkChoose
  <2> QED
    BY <1>2, <2>1, SmallStep DEF SameFields
<1>4. CASE \E state \in SleepStates : SetState(t, state)
  <2>1. curr' = curr /\ \E state : task' = [task EXCEPT ![t].state = state]
    BY <1>4 DEF SetState
  <2>2. \A r \in Task : SameFields(r) /\ task'[r].array = task[r].array
    BY <1>1, <2>1 DEF SameFields, TypeOK, TaskRecord
  <2> QED
    BY <1>2, <2>1, <2>2, SmallStep
<1>5. CASE do_exit(t)
  <2>1. curr' = curr
    BY <1>5 DEF do_exit
  <2>2. ASSUME NEW r \in Task
        PROVE  SameFields(r) /\ task'[r].array = task[r].array
    <3>1. task[r] \in TaskRecord
      BY <1>1, TaskFacts
    <3>2. \/ task'[r] = [task[r] EXCEPT !.state = "ZOMBIE"]
          \/ task'[r] = [task[r] EXCEPT !.parent = Init1, !.first_time_slice = FALSE]
          \/ task'[r] = task[r]
      BY <1>5 DEF do_exit
    <3> QED
      BY <3>1, <3>2 DEF SameFields, TaskRecord
  <2> QED
    BY <1>2, <2>1, <2>2, SmallStep
<1>6. CASE ForkTick(t)
  BY <1>1, <1>2, <1>6, TickPolicy DEF ForkTick
<1> QED
  BY <1>3, <1>4, <1>5, <1>6

LEMMA TickStepPolicy ==
    ASSUME QueueInv, QueueInv', Tick
    PROVE  Allowed
<1>1. PICK p \in Task : curr = p
  BY DEF Tick
<1>2. scheduler_tick(p) /\ ReturnFromInterrupt /\ TypeOK
  BY <1>1 DEF Tick, QueueInv
<1>3. \A r \in Task : Linked(r)' <=> Linked(r)
  BY <1>2, ReturnCalm, CalmLinked
<1> QED
  BY <1>1, <1>2, <1>3, TickPolicy
-----------------------------------------------------------------------------
(* System calls on the policy and the priority of a task                   *)

LEMMA ReactivateFields ==
    ASSUME TypeOK, NEW p \in Task, NEW tp \in TaskRecord, tp.array = task[p].array,
           Reactivate(p, tp)
    PROVE  /\ OthersSame(p) /\ (task'[p].array = NULL <=> task[p].array = NULL)
           /\ task'[p].policy = tp.policy /\ task'[p].is_short = tp.is_short
           /\ curr' = curr
<1>1. curr' = curr
  BY DEF Reactivate
<1>2. CASE task[p].array = NULL
  <2>1. task' = [task EXCEPT ![p] = tp]
    BY <1>2 DEF Reactivate
  <2>2. OthersSame(p) /\ task'[p] = tp
    BY <2>1 DEF OthersSame, TypeOK
  <2> QED
    BY <1>1, <1>2, <2>2
<1>3. CASE task[p].array # NULL
  <2>1. Activate(p, tp, Dequeue(arrays, task[p].array, task[p].prio, p))
    BY <1>3 DEF Reactivate
  <2> QED
    BY <1>1, <1>3, <2>1, ActivateFields
<1> QED
  BY <1>2, <1>3

LEMMA CallFrame ==
    ASSUME TypeOK, NEW t \in Task, Runs(t, "entry"),
           Goto(t, "exit") \/ Goto(t, "yield") \/ Goto(t, "dead")
    PROVE  \A r \in Task : Linked(r)' <=> Linked(r)
<1>1. PcCalm
  BY GotoCalm DEF Runs
<1> QED
  BY <1>1, CalmLinked

LEMMA PolicyCallsPolicy ==
    ASSUME QueueInv, QueueInv', NEW t \in Task, NEW p \in Task,
           \/ \E request \in Requests : BecomeShort(t, p, request) \/ ResizeShort(t, p, request)
           \/ SetOther(t, p)
           \/ \E policy \in {"FIFO", "RR"}, sched_priority \in RtPriorities :
                  SetRealTime(t, p, policy, sched_priority)
    PROVE  Allowed
<1>1. TypeOK /\ Runs(t, "entry") /\ Linked(p) /\ Goto(t, "exit")
  BY DEF QueueInv, BecomeShort, ResizeShort, SetOther, SetRealTime
<1>2. /\ task[p] \in TaskRecord /\ task[p].static_prio \in Prio
      /\ task[p].time_slice \in Nat /\ task[p].requested_time \in Nat
  BY <1>1, PrioAssumption DEF TypeOK, TaskRecord, UserPrio, Prio
<1>3. (\A r \in Task : Linked(r)' <=> Linked(r)) /\ Linked(p)'
  BY <1>1, CallFrame
<1>4. ASSUME NEW tp \in TaskRecord, tp.array = task[p].array, Reactivate(p, tp)
      PROVE  /\ Ready' = Ready /\ curr' = curr
             /\ \A c : ClassOf(p)' = c => ClassBecomes(p, c)
             /\ SameFields(p) => ClassStays
             /\ task'[p].policy = tp.policy /\ task'[p].is_short = tp.is_short
  <2>1. /\ OthersSame(p) /\ (task'[p].array = NULL <=> task[p].array = NULL)
        /\ task'[p].policy = tp.policy /\ task'[p].is_short = tp.is_short
        /\ curr' = curr
    BY <1>1, <1>4, ReactivateFields
  <2>2. /\ Ready' = Ready
        /\ \A r \in Task \ {p} : ClassOf(r)' = ClassOf(r)
        /\ SameFields(p) => ClassStays
    BY <1>3, <2>1, OneChanges
  <2> QED
    BY <2>1, <2>2 DEF ClassBecomes
<1>5. ASSUME NEW request \in Requests, BecomeShort(t, p, request)
      PROVE  Allowed
  <2> DEFINE tp == [task[p] EXCEPT !.policy = "SHORT", !.is_short = 1,
                                   !.requested_time = AtLeastOne(request),
                                   !.time_slice = ShortSlice(request),
                                   !.prio = task[p].static_prio]
  <2>1. AtLeastOne(request) \in Nat /\ ShortSlice(request) \in Nat
    BY InputAssumption, SliceTypes
  <2>2. /\ tp \in TaskRecord /\ tp.array = task[p].array
        /\ tp.policy = "SHORT" /\ tp.is_short = 1
    BY <1>2, <2>1 DEF TaskRecord, Policy
  <2>3. Reactivate(p, tp) /\ task[p].policy = "OTHER"
    BY <1>5 DEF BecomeShort
  <2> HIDE DEF tp
  <2>4. /\ task'[p].policy = "SHORT" /\ task'[p].is_short = 1
        /\ Ready' = Ready /\ curr' = curr /\ \A c : ClassOf(p)' = c => ClassBecomes(p, c)
    BY <1>4, <2>2, <2>3
  <2>5. ClassOf(p)' = "short"
    BY <1>3, <2>4 DEF ClassOf, IsShort
  <2>6. ClassOf(p) = "other"
    BY <1>1, <2>3, LinkedMeans
  <2> QED
    BY <2>4, <2>5, <2>6, Steps, AllowedSteps
<1>6. ASSUME NEW request \in Requests, ResizeShort(t, p, request)
      PROVE  Allowed
  <2> DEFINE slice == ResizedSlice(request, task[p].requested_time, task[p].time_slice)
             tp == [task[p] EXCEPT !.requested_time = AtLeastOne(request),
                                   !.time_slice = slice, !.prio = task[p].static_prio]
  <2>1. request \in Nat
    BY InputAssumption
  <2>2. AtLeastOne(request) \in Nat
    BY <2>1, SliceTypes
  <2>3. slice \in Nat
    <3>1. Jiffies(request) - (Jiffies(task[p].requested_time) - task[p].time_slice) \in Nat
      BY <1>2, <1>6, <2>1, ResizeNeverNegative DEF ResizeShort
    <3> QED
      BY <3>1, SliceTypes DEF ResizedSlice
  <2>4. Reactivate(p, tp)
    BY <1>6 DEF ResizeShort
  <2> HIDE DEF slice
  <2>5. /\ tp \in TaskRecord /\ tp.array = task[p].array
        /\ tp.policy = task[p].policy /\ tp.is_short = task[p].is_short
    BY <1>2, <2>2, <2>3 DEF TaskRecord
  <2> HIDE DEF tp
  <2>6. Ready' = Ready /\ curr' = curr /\ ClassStays
    BY <1>4, <2>4, <2>5 DEF SameFields
  <2> QED
    BY <2>6, QuietStep
<1>7. ASSUME NEW tp \in TaskRecord, tp.array = task[p].array, Reactivate(p, tp),
             task[p].policy # "SHORT", tp.policy # "SHORT"
      PROVE  Allowed
  <2>1. task[p].policy \in Policy /\ tp.policy \in Policy
    BY <1>2 DEF TaskRecord
  <2>2. ClassOf(p) \in {"realtime", "other"}
    BY <1>1, <1>7, LinkedMeans
  <2>3. /\ task'[p].policy = tp.policy
        /\ Ready' = Ready /\ curr' = curr /\ \A c : ClassOf(p)' = c => ClassBecomes(p, c)
    BY <1>4, <1>7
  <2>4. PICK c \in {"realtime", "other"} : ClassOf(p)' = c
    BY <1>3, <1>7, <2>3 DEF ClassOf, IsShort, IsOverdue
  <2> QED
    BY <2>2, <2>3, <2>4, Steps, AllowedSteps
<1>8. ASSUME SetOther(t, p)
      PROVE  Allowed
  <2> DEFINE tp == [task[p] EXCEPT !.policy = "OTHER", !.prio = task[p].static_prio]
  <2>1. tp \in TaskRecord /\ tp.array = task[p].array /\ tp.policy = "OTHER"
    BY <1>2 DEF TaskRecord, Policy
  <2>2. Reactivate(p, tp) /\ task[p].policy # "SHORT"
    BY <1>8 DEF SetOther
  <2> HIDE DEF tp
  <2> QED
    BY <1>7, <2>1, <2>2
<1>9. ASSUME NEW policy \in {"FIFO", "RR"}, NEW sched_priority \in RtPriorities,
             SetRealTime(t, p, policy, sched_priority)
      PROVE  Allowed
  <2> DEFINE tp == [task[p] EXCEPT !.policy = policy,
                                   !.prio = MAX_RT_PRIO - 1 - sched_priority]
  <2>1. MAX_RT_PRIO - 1 - sched_priority \in Prio /\ policy \in Policy
    BY PrioAssumption, InputAssumption DEF Prio, Policy
  <2>2. tp \in TaskRecord /\ tp.array = task[p].array /\ tp.policy = policy
    BY <1>2, <2>1 DEF TaskRecord
  <2>3. Reactivate(p, tp) /\ task[p].policy # "SHORT"
    BY <1>9 DEF SetRealTime
  <2> HIDE DEF tp
  <2> QED
    BY <1>7, <2>2, <2>3
<1> QED
  BY <1>5, <1>6, <1>8, <1>9

LEMMA NicePolicy ==
    ASSUME QueueInv, QueueInv', NEW t \in Task, NEW p \in Task,
           NEW nice \in Nices, set_user_nice(t, p, nice)
    PROVE  Allowed
<1> DEFINE old == task[p]
           new == [old EXCEPT !.static_prio = nice,
                              !.prio = IF old.is_short = -1 /\ old.policy = "SHORT"
                                       THEN @ ELSE nice]
<1>1. TypeOK /\ Runs(t, "entry") /\ Goto(t, "exit") /\ curr' = curr
  BY DEF QueueInv, set_user_nice
<1>2. old \in TaskRecord
  BY <1>1, TaskFacts
<1>3. nice \in UserPrio /\ nice \in Prio
  BY InputAssumption, PrioAssumption DEF UserPrio, Prio
<1>4. new \in TaskRecord /\ new.policy = old.policy /\ new.is_short = old.is_short
      /\ new.array = old.array
  BY <1>2, <1>3 DEF TaskRecord
<1>5. /\ OthersSame(p) /\ SameFields(p) /\ (task'[p].array = NULL <=> task[p].array = NULL)
  <2>1. CASE IsRt(old) \/ old.array = NULL
    <3>1. \/ task' = [task EXCEPT ![p] = [old EXCEPT !.static_prio = nice]]
          \/ task' = [task EXCEPT ![p] = new]
      BY <2>1 DEF set_user_nice
    <3>2. OthersSame(p)
      BY <1>1, <3>1 DEF OthersSame, TypeOK
    <3>3. task'[p] = [old EXCEPT !.static_prio = nice] \/ task'[p] = new
      BY <1>1, <3>1 DEF TypeOK
    <3> HIDE DEF new
    <3> QED
      BY <1>2, <1>4, <3>2, <3>3 DEF SameFields, TaskRecord
  <2>2. CASE ~(IsRt(old) \/ old.array = NULL)
    <3>1. Requeue(p, old.array, old.array, new)
      BY <2>2 DEF set_user_nice
    <3> HIDE DEF new
    <3>2. old.array \in ArrayId
      BY <1>1, <2>2, TaskFacts
    <3> QED
      BY <1>1, <1>4, <2>2, <3>1, <3>2, RequeueFields DEF SameFields
  <2> QED
    BY <2>1, <2>2
<1>6. \A r \in Task : Linked(r)' <=> Linked(r)
  BY <1>1, CallFrame
<1>7. Ready' = Ready /\ ClassStays
  BY <1>5, <1>6, OneChanges
<1> QED
  BY <1>1, <1>7, QuietStep

LEMMA YieldPolicy ==
    ASSUME QueueInv, QueueInv', NEW t \in Task, sys_sched_yield(t)
    PROVE  Allowed
<1>1. /\ TypeOK /\ Runs(t, "entry") /\ Goto(t, "yield") /\ curr' = curr
      /\ Queued(t) /\ task[t] \in TaskRecord
  BY TaskFacts DEF QueueInv, sys_sched_yield, RunnableIsQueued, Runs
<1>2. /\ OthersSame(t) /\ SameFields(t) /\ task'[t].array # NULL
  <2>1. CASE task[t].policy = "SHORT"
    <3>1. Activate(t, task[t], Dequeue(arrays, task[t].array, task[t].prio, t))
      BY <2>1 DEF sys_sched_yield
    <3> QED
      BY <1>1, <3>1, ActivateFields DEF SameFields
  <2>2. CASE UNCHANGED task
    BY <1>1, <2>2 DEF OthersSame, SameFields, Queued
  <2>3. CASE YieldDown(t, Unlinked(arrays, t))
    <3>1. \E prio : task' = [task EXCEPT ![t].prio = prio]
      BY <2>3 DEF YieldDown
    <3> QED
      BY <1>1, <3>1 DEF TypeOK, TaskRecord, OthersSame, SameFields, Queued
  <2> QED
    BY <2>1, <2>2, <2>3 DEF sys_sched_yield
<1>3. \A r \in Task : Linked(r)' <=> Linked(r)
  BY <1>1, CallFrame
<1>4. Ready' = Ready /\ ClassStays
  BY <1>1, <1>2, <1>3, OneChanges DEF Queued
<1> QED
  BY <1>1, <1>4, QuietStep
-----------------------------------------------------------------------------
(* Waking, do_fork and reaping                                             *)

\* A task that was asleep, or just born, is on the run queue.
LEMMA WakeOne ==
    ASSUME QueueInv, QueueInv', curr' = curr, NEW p \in Task, Linked(p),
           \A r \in Task : SameFields(r) /\ (Linked(r)' <=> Linked(r)),
           task'[p].array # NULL,
           \A r \in Task \ {p} : task'[r].array = NULL <=> task[r].array = NULL
    PROVE  Allowed
<1>1. ClassStays
  BY ClassKept DEF ClassStays
<1>2. Ready' = Ready \cup {p}
  BY DEF Ready, Queued
<1>3. ClassOf(p) # "none"
  BY DEF ClassOf
<1> QED
  BY <1>1, <1>2, <1>3, Steps, AllowedSteps

LEMMA WakePolicy ==
    ASSUME QueueInv, QueueInv', NEW p \in Task, try_to_wake_up(p)
    PROVE  Allowed
<1>1. TypeOK /\ Linked(p) /\ ReturnFromInterrupt /\ curr' = curr /\ task[p] \in TaskRecord
  BY TaskFacts DEF QueueInv, try_to_wake_up
<1>2. \A r \in Task : Linked(r)' <=> Linked(r)
  BY <1>1, ReturnCalm, CalmLinked
<1>3. CASE task[p].array = NULL
  <2> DEFINE tp == [task[p] EXCEPT !.state = "RUNNING"]
  <2>1. tp \in TaskRecord /\ tp.policy = task[p].policy /\ tp.is_short = task[p].is_short
    BY <1>1 DEF TaskRecord, TaskState
  <2>2. Activate(p, tp, arrays)
    BY <1>3 DEF try_to_wake_up
  <2> HIDE DEF tp
  <2>3. OthersSame(p) /\ SameFields(p) /\ task'[p].array # NULL
    BY <1>1, <2>1, <2>2, ActivateFields DEF SameFields
  <2>4. \A r \in Task : SameFields(r) /\ (Linked(r)' <=> Linked(r))
    BY <1>2, <2>3 DEF OthersSame, SameFields
  <2>5. \A r \in Task \ {p} : task'[r].array = NULL <=> task[r].array = NULL
    BY <2>3 DEF OthersSame
  <2> QED
    BY <1>1, <2>3, <2>4, <2>5, WakeOne
<1>4. CASE task[p].array # NULL
  <2>1. task' = [task EXCEPT ![p].state = "RUNNING"]
    BY <1>4 DEF try_to_wake_up
  <2>2. \A r \in Task : SameFields(r) /\ task'[r].array = task[r].array
    BY <1>1, <2>1 DEF TypeOK, TaskRecord, SameFields
  <2> QED
    BY <1>1, <1>2, <2>2, SmallStep
<1> QED
  BY <1>3, <1>4

\* A task_struct that no list of the kernel shows yet changes.
LEMMA AbsentStep ==
    ASSUME QueueInv, QueueInv', curr' = curr, NEW c \in Task, ~Linked(c), ~Linked(c)',
           \A r \in Task \ {c} : task'[r] = task[r] /\ (Linked(r)' <=> Linked(r))
    PROVE  Allowed
<1>1. ClassStays
  <2>1. ClassOf(c)' = ClassOf(c)
    BY DEF ClassOf
  <2>2. \A r \in Task \ {c} : ClassOf(r)' = ClassOf(r)
    BY ClassKept DEF SameFields
  <2> QED
    BY <2>1, <2>2 DEF ClassStays
<1>2. ~Queued(c) /\ ~Queued(c)'
  BY DEF QueueInv, AbsentUnqueued, Absent, Linked
<1>3. Ready' = Ready
  BY <1>2 DEF Ready, Queued
<1> QED
  BY <1>1, <1>3, QuietStep

LEMMA ForkCopyPolicy ==
    ASSUME QueueInv, QueueInv', NEW t \in Task, NEW c \in Task, ForkCopy(t, c)
    PROVE  Allowed
<1>1. TypeOK /\ curr' = curr /\ pc[t] = "entry" /\ pc[c] = "none" /\ c # t
  BY DEF QueueInv, ForkCopy, Runs
<1>2. /\ pc' = [pc EXCEPT ![t] = "copy", ![c] = "new"]
      /\ \A r \in Task \ {c} : task'[r] = task[r]
  BY <1>1 DEF ForkCopy, TypeOK
<1>3. \A r \in Task : pc'[r] = IF r = c THEN "new" ELSE IF r = t THEN "copy" ELSE pc[r]
  BY <1>1, <1>2 DEF TypeOK
<1>4. ~Linked(c) /\ ~Linked(c)' /\ \A r \in Task \ {c} : Linked(r)' <=> Linked(r)
  BY <1>1, <1>3 DEF Linked
<1> QED
  BY <1>1, <1>2, <1>4, AbsentStep

LEMMA ForkFailPolicy ==
    ASSUME QueueInv, QueueInv', ForkInv, NEW t \in Task, ForkFail(t)
    PROVE  Allowed
<1>1. TypeOK /\ curr' = curr /\ pc[t] = "copy" /\ child[t] \in Task
  BY DEF QueueInv, ForkFail, Runs, TypeOK
<1>2. PICK c \in Task : c = child[t]
  BY <1>1
<1>3. pc[c] = "new" /\ c # t
  BY <1>1, <1>2 DEF ForkInv, CopyAgrees
<1>4. /\ \A r \in Task : pc'[r] = IF r = c THEN "none" ELSE IF r = t THEN "exit" ELSE pc[r]
      /\ \A r \in Task \ {c} : task'[r] = task[r]
  BY <1>1, <1>2, <1>3 DEF ForkFail, TypeOK
<1>5. ~Linked(c) /\ ~Linked(c)' /\ \A r \in Task \ {c} : Linked(r)' <=> Linked(r)
  BY <1>1, <1>3, <1>4 DEF Linked
<1> QED
  BY <1>1, <1>4, <1>5, AbsentStep

\* The child is born into the class of its parent, or, of a parent that is not
\* SHORT any more since the copy, into the overdue one.
LEMMA ForkSharePolicy ==
    ASSUME QueueInv, QueueInv', ForkInv, NEW t \in Task, ForkShare(t)
    PROVE  Allowed
<1>1. TypeOK /\ curr = t /\ curr' = curr /\ pc[t] = "copy" /\ child[t] \in Task
  BY DEF QueueInv, ForkShare, Runs, TypeOK
<1>2. PICK c \in Task : c = child[t]
  BY <1>1
<1>3. CopyAgrees(t) /\ pc[c] = "new" /\ c # t
  BY <1>1, <1>2 DEF ForkInv, CopyAgrees
<1>4. /\ task'[t] = ParentFields(task[t]) /\ task'[c] = ChildFields(task[c], t)
      /\ \A r \in Task : r # t /\ r # c => task'[r] = task[r]
      /\ \A r \in Task : r # t /\ r # c => pc'[r] = pc[r]
      /\ pc'[c] = "born" /\ pc'[t] \in {"share", "linked"}
  BY <1>1, <1>2, <1>3 DEF ForkShare, TypeOK
<1>5. task[t] \in TaskRecord /\ task[c] \in TaskRecord /\ FieldsAgree(task[t])
  BY <1>1, TaskFacts DEF QueueInv, InClass
<1>6. task'[t].array = task[t].array /\ SameFields(t)
  BY <1>4, <1>5 DEF ParentFields, TaskRecord, SameFields
<1>7. /\ task'[c].array = task[c].array /\ task'[c].policy = task[c].policy
      /\ task'[c].is_short = IF task[t].policy # "SHORT" /\ task[t].is_short = -1
                             THEN 0 ELSE task[t].is_short
  BY <1>4, <1>5 DEF ChildFields, TaskRecord
<1>8. /\ Linked(t) /\ Linked(c)' /\ ~Linked(c)
      /\ \A r \in Task \ {c} : Linked(r)' <=> Linked(r)
  BY <1>1, <1>3, <1>4 DEF Linked
<1>9. \A r \in Task \ {c} : SameFields(r) /\ task'[r].array = task[r].array
  BY <1>4, <1>6 DEF SameFields
<1>10. \A r \in Task \ {c} : ClassOf(r)' = ClassOf(r)
  BY <1>8, <1>9, ClassKept
<1>11. Ready' = Ready
  BY <1>7, <1>9 DEF Ready, Queued
<1>12. ClassOf(c) = "none"
  BY <1>8 DEF ClassOf
<1>13. /\ ClassOf(t) = "short" <=> task[t].policy = "SHORT" /\ task[t].is_short = 1
       /\ task[t].policy # "SHORT" => ClassOf(t) \in {"realtime", "other"}
  BY <1>1, <1>8, LinkedMeans
<1>14. /\ ClassOf(c)' = "short" <=> task[t].policy = "SHORT" /\ task[t].is_short = 1
       /\ ClassOf(c)' \in {"realtime", "other"} => task[t].policy # "SHORT"
  <2>1. CASE task[t].policy = "SHORT"
    <3>1. task'[c].policy = "SHORT" /\ task'[c].is_short = task[t].is_short
      BY <1>2, <1>3, <1>7, <2>1 DEF CopyAgrees
    <3> QED
      BY <1>8, <2>1, <3>1 DEF ClassOf, IsShort, IsOverdue
  <2>2. CASE task[t].policy # "SHORT"
    <3>1. task'[c].is_short # 1
      BY <1>5, <1>7, <2>2 DEF FieldsAgree
    <3> QED
      BY <2>2, <3>1 DEF ClassOf, IsShort
  <2> QED
    BY <2>1, <2>2
<1>15. PICK as \in {"short", "overdue", "other", "realtime"} : ClassOf(c)' = as
  BY <1>8 DEF ClassOf
<1>16. ClassBecomes(c, as)
  BY <1>10, <1>15 DEF ClassBecomes
<1>17. Promise!Become(c, as)
  BY <1>1, <1>11, <1>16, Steps
<1>18. /\ as = "short" <=> ClassOf(curr) = "short"
       /\ as \in {"realtime", "other"} => ClassOf(curr) \in {"realtime", "other"}
  BY <1>1, <1>13, <1>14, <1>15
<1> QED
  BY <1>1, <1>12, <1>17, <1>18, AllowedSteps

LEMMA WakePlainPolicy ==
    ASSUME QueueInv, QueueInv', ForkInv, NEW t \in Task, wake_up_forked_process(t)
    PROVE  Allowed
<1>1. /\ TypeOK /\ curr' = curr /\ pc[t] = "wakeplain" /\ child[t] \in Task /\ ForkDone(t)
  BY DEF QueueInv, wake_up_forked_process, Runs, TypeOK, ForkDone
<1>2. PICK c \in Task : c = child[t]
  BY <1>1
<1>3. PICK prio \in ForkedPrios(task[c]) :
        Activate(c, [task[c] EXCEPT !.state = "RUNNING", !.prio = prio], arrays)
  BY <1>2 DEF wake_up_forked_process
<1>4. pc[c] = "born" /\ c # t
  BY <1>1, <1>2 DEF ForkInv, Linking, LinkAgrees
<1>5. task[c] \in TaskRecord /\ FieldsAgree(task[c])
  BY <1>1, TaskFacts DEF QueueInv, InClass
<1> DEFINE tp == [task[c] EXCEPT !.state = "RUNNING", !.prio = prio]
<1>6. tp \in TaskRecord /\ tp.policy = task[c].policy /\ tp.is_short = task[c].is_short
  BY <1>1, <1>5, WokenFields
<1>7. Activate(c, tp, arrays)
  BY <1>3
<1> HIDE DEF tp
<1>8. OthersSame(c) /\ SameFields(c) /\ task'[c].array # NULL
  BY <1>1, <1>6, <1>7, ActivateFields DEF SameFields
<1>9. \A r \in Task : pc'[r] = IF r = c \/ r = t THEN "exit" ELSE pc[r]
  BY <1>1, <1>2 DEF ForkDone, TypeOK
<1>10. Linked(c) /\ \A r \in Task : Linked(r)' <=> Linked(r)
  BY <1>1, <1>4, <1>9 DEF Linked
<1>11. \A r \in Task : SameFields(r) /\ (Linked(r)' <=> Linked(r))
  BY <1>8, <1>10 DEF OthersSame, SameFields
<1>12. \A r \in Task \ {c} : task'[r].array = NULL <=> task[r].array = NULL
  BY <1>8 DEF OthersSame
<1> QED
  BY <1>1, <1>8, <1>10, <1>11, <1>12, WakeOne

LEMMA WakeShortPolicy ==
    ASSUME QueueInv, QueueInv', ForkInv, NEW t \in Task, wake_up_short_forked_process(t)
    PROVE  Allowed
<1>1. /\ TypeOK /\ curr = t /\ curr' = curr /\ pc[t] = "wakeshort" /\ child[t] \in Task
      /\ ForkDone(t)
  BY DEF QueueInv, wake_up_short_forked_process, Runs, TypeOK, ForkDone
<1>2. PICK c \in Task : c = child[t]
  BY <1>1
<1>3. pc[c] = "born" /\ task[c].is_short = 1 /\ c # t
  BY <1>1, <1>2 DEF ForkInv, Linking, LinkAgrees
<1>4. task[c] \in TaskRecord /\ task[t] \in TaskRecord /\ Queued(t)
  BY <1>1, TaskFacts DEF QueueInv, RunnableIsQueued
<1> DEFINE to == ActivateArray(task[t])
<1>5. PICK prio \in ForkedPrios(task[c]), fprio \in ActivatePrios(task[t]) :
        task' = [task EXCEPT
               ![c] = [task[c] EXCEPT !.state = "RUNNING", !.prio = prio,
                                      !.array = "short_active"],
               ![t] = [task[t] EXCEPT !.prio = fprio, !.array = to]]
  BY <1>2, <1>3 DEF wake_up_short_forked_process
<1>6. /\ task'[t] = [task[t] EXCEPT !.prio = fprio, !.array = to]
      /\ task'[c] = [task[c] EXCEPT !.state = "RUNNING", !.prio = prio,
                                    !.array = "short_active"]
      /\ \A r \in Task : r # t /\ r # c => task'[r] = task[r]
  BY <1>1, <1>3, <1>5 DEF TypeOK
<1>7. SameFields(c) /\ task'[c].array # NULL
  BY <1>4, <1>6 DEF TaskRecord, SameFields, NULL
<1>8. to # NULL
  BY <1>1 DEF ActivateArray, TypeOK, NULL
<1> HIDE DEF to
<1>9. SameFields(t) /\ task'[t].array # NULL
  BY <1>4, <1>6, <1>8 DEF TaskRecord, SameFields
<1>10. \A r \in Task : pc'[r] = IF r = c \/ r = t THEN "exit" ELSE pc[r]
  BY <1>1, <1>2 DEF ForkDone, TypeOK
<1>11. Linked(c) /\ \A r \in Task : Linked(r)' <=> Linked(r)
  BY <1>1, <1>3, <1>10 DEF Linked
<1>12. \A r \in Task : SameFields(r) /\ (Linked(r)' <=> Linked(r))
  BY <1>6, <1>7, <1>9, <1>11 DEF SameFields
<1>13. \A r \in Task \ {c} : task'[r].array = NULL <=> task[r].array = NULL
  BY <1>4, <1>6, <1>9 DEF Queued
<1> QED
  BY <1>1, <1>7, <1>11, <1>12, <1>13, WakeOne

\* A zombie is off the run queue before its task_struct goes.
LEMMA ReleasePolicy ==
    ASSUME QueueInv, QueueInv', NEW t \in Task, NEW c \in Task, release_task(t, c)
    PROVE  Allowed
<1>1. /\ TypeOK /\ curr = t /\ curr' = curr /\ pc[t] = "entry" /\ task[t].state = "RUNNING"
      /\ task[c].state = "ZOMBIE" /\ c # t /\ task[t] \in TaskRecord
  BY TaskFacts DEF QueueInv, release_task, Runs
<1>2. /\ task'[c] = FreeTask
      /\ task'[t] = [task[t] EXCEPT !.time_slice =
                        IF task[c].first_time_slice
                        THEN ReturnedSlice(@, task[c].time_slice) ELSE @]
      /\ \A r \in Task : r # t /\ r # c => task'[r] = task[r]
      /\ \A r \in Task : pc'[r] = IF r = c THEN "none" ELSE IF r = t THEN "exit" ELSE pc[r]
  BY <1>1 DEF release_task, TypeOK
<1>3. ~Queued(c) /\ ~Queued(c)'
  BY <1>1, <1>2 DEF QueueInv, RunnableIsQueued, Queued, FreeTask
<1>4. task'[t].array = task[t].array /\ SameFields(t)
  BY <1>1, <1>2 DEF TaskRecord, SameFields
<1>5. \A r \in Task \ {c} : SameFields(r) /\ task'[r].array = task[r].array
  BY <1>2, <1>4 DEF SameFields
<1>6. ~Linked(c)' /\ \A r \in Task \ {c} : Linked(r)' <=> Linked(r)
  BY <1>1, <1>2 DEF Linked
<1>7. Ready' = Ready /\ c \notin Ready
  BY <1>3, <1>5 DEF Ready, Queued
<1>8. ClassBecomes(c, "none")
  <2>1. \A r \in Task \ {c} : ClassOf(r)' = ClassOf(r)
    BY <1>5, <1>6, ClassKept
  <2>2. ClassOf(c)' = "none"
    BY <1>6 DEF ClassOf
  <2> QED
    BY <2>1, <2>2 DEF ClassBecomes
<1> QED
  BY <1>1, <1>7, <1>8, Steps, AllowedSteps
-----------------------------------------------------------------------------
(* schedule()                                                              *)

\* The class of a queued task can be read off the array that it waits in.
ArraysTell ==
    \A q \in Task : Queued(q) =>
        /\ task[q].array \in {"short_active", "overdue", active, Expired}
        /\ task[q].array = "short_active" => ClassOf(q) = "short"
        /\ task[q].array = "overdue" => ClassOf(q) = "overdue"
        /\ task[q].array = active =>
               ClassOf(q) = IF task[q].prio < MAX_RT_PRIO THEN "realtime" ELSE "other"
        /\ task[q].array = Expired => ClassOf(q) = "other"

LEMMA ArrayClass == QueueInv => ArraysTell
<1> SUFFICES ASSUME QueueInv, NEW q \in Task, Queued(q)
             PROVE  /\ task[q].array \in {"short_active", "overdue", active, Expired}
                    /\ task[q].array = "short_active" => ClassOf(q) = "short"
                    /\ task[q].array = "overdue" => ClassOf(q) = "overdue"
                    /\ task[q].array = active =>
                           ClassOf(q) = IF task[q].prio < MAX_RT_PRIO
                                        THEN "realtime" ELSE "other"
                    /\ task[q].array = Expired => ClassOf(q) = "other"
  BY DEF ArraysTell
<1>1. TypeOK /\ Linked(q) /\ InClass(task[q], Expired)
  BY DEF QueueInv, AbsentUnqueued, Absent, Linked
<1>2. /\ task[q].array \in {"array0", "array1", "short_active", "overdue"}
      /\ active \in {"array0", "array1"}
      /\ Expired = IF active = "array0" THEN "array1" ELSE "array0"
      /\ task[q].policy \in Policy
  BY <1>1, TaskFacts DEF ArrayId, TypeOK, Expired, TaskRecord
<1>3. /\ ClassOf(q) = "short" <=> IsShort(task[q])
      /\ ClassOf(q) = "overdue" <=> IsOverdue(task[q])
      /\ ClassOf(q) = "other" <=> task[q].policy = "OTHER"
      /\ ClassOf(q) = "realtime" <=> task[q].policy \in {"FIFO", "RR"}
  BY <1>1, LinkedMeans DEF IsShort, IsOverdue
<1> QED
  BY <1>1, <1>2, <1>3 DEF InClass, FieldsAgree, ArrayAgrees, IsRt, Policy

LEMMA RankFacts ==
    /\ Promise!Rank["realtime"] = 1 /\ Promise!Rank["short"] = 2
    /\ Promise!Rank["other"] = 3 /\ Promise!Rank["overdue"] = 4
BY DEF Promise!Rank, Promise!Class

\* The first task of the array that schedule() picks is of the best class.
LEMMA BestPicked ==
    ASSUME QueueInv', curr' \in Task, Queued(curr)', PickedBest(task', active', curr')
    PROVE  \A q \in Task : Queued(q)' =>
               Promise!Rank[ClassOf(curr)'] <= Promise!Rank[ClassOf(q)']
<1> SUFFICES ASSUME NEW q \in Task, Queued(q)'
             PROVE  Promise!Rank[ClassOf(curr)'] <= Promise!Rank[ClassOf(q)']
  OBVIOUS
<1>1. ArraysTell'
  BY ArrayClass, PTL
<1>2. PICK p \in Task : curr' = p
  OBVIOUS
<1> DEFINE now == task'
           mine == ClassOf(p)'
           his == ClassOf(q)'
<1>3. ClassOf(curr)' = mine
  BY <1>2 DEF ClassOf, Linked
<1>4. \A r \in Task : Queued(r)' =>
            /\ now[r].array \in {"short_active", "overdue", active', Expired'}
            /\ now[r].array = "short_active" => ClassOf(r)' = "short"
            /\ now[r].array = "overdue" => ClassOf(r)' = "overdue"
            /\ now[r].array = active' =>
                   ClassOf(r)' = IF now[r].prio < MAX_RT_PRIO THEN "realtime" ELSE "other"
            /\ now[r].array = Expired' => ClassOf(r)' = "other"
  BY <1>1 DEF ArraysTell
<1>5. Queued(p)' /\ Queued(q)' /\ PickedBest(now, active', p)
  BY <1>2 DEF Queued
<1>6. \A r \in Task : Queued(r)' => now[r].array \in ArrayId
  <2>1. TypeOK'
    BY DEF QueueInv
  <2> QED
    BY <2>1 DEF TypeOK, TaskRecord, Queued
<1>7. his \in {"realtime", "short", "other", "overdue"}
  BY <1>4, <1>5
<1> HIDE DEF mine, his, now
<1>8. CASE now[p].array = active' /\ now[p].prio < MAX_RT_PRIO
  <2>1. mine = "realtime"
    BY <1>4, <1>5, <1>8 DEF mine
  <2> QED
    BY <1>3, <1>7, <2>1, RankFacts DEF his
<1>9. CASE now[p].array = "short_active" /\ NoRealTime(now, active')
  <2>1. mine = "short" /\ his # "realtime"
    BY <1>4, <1>5, <1>9 DEF mine, his, NoRealTime
  <2> QED
    BY <1>3, <1>7, <2>1, RankFacts DEF his
<1>10. CASE /\ now[p].array = active' /\ NoRealTime(now, active')
            /\ \A r \in Task : now[r].array # "short_active"
  <2>1. mine = "other" /\ his \in {"other", "overdue"}
    BY <1>4, <1>5, <1>10 DEF mine, his, NoRealTime
  <2> QED
    BY <1>3, <2>1, RankFacts DEF his
<1>11. CASE /\ now[p].array = "overdue"
            /\ \A r \in Task : now[r].array \in ArrayId => now[r].array = "overdue"
  <2>1. mine = "overdue" /\ his = "overdue"
    BY <1>4, <1>5, <1>6, <1>11 DEF mine, his
  <2> QED
    BY <1>3, <2>1, RankFacts DEF his
<1> QED
  BY <1>5, <1>8, <1>9, <1>10, <1>11 DEF PickedBest

LEMMA SchedulePolicy ==
    ASSUME QueueInv, QueueInv', schedule
    PROVE  Allowed
<1>1. TypeOK' /\ TypeOK
  BY DEF QueueInv
<1>2. /\ PcCalm /\ OffCpu
      /\ \/ curr' = Idle /\ nr_running' = 0
         \/ /\ curr' \in Task /\ Queued(curr)'
            /\ nr_running' # 0 /\ PickedBest(task', active', curr')
  BY <1>1, SchedulePicks
<1>3. \A r \in Task : ClassOf(r)' = ClassOf(r)
  BY <1>2, CalmLinked, ClassKept DEF OffCpu, SameFields
<1>4. Ready' \in {Ready, Ready \ {curr}}
  <2>1. CASE TRUE \in MayLeave /\ LeaveCpu
    <3>1. PICK p \in Task : curr = p
      BY <1>1, <2>1 DEF MayLeave, QueueInv, RunnableIsQueued, TypeOK
    <3>2. task' = [task EXCEPT ![p].array = NULL] /\ task[p] \in TaskRecord
      BY <1>1, <2>1, <3>1, TaskFacts DEF LeaveCpu
    <3>3. task'[p].array = NULL /\ \A r \in Task \ {p} : task'[r] = task[r]
      BY <1>1, <3>2 DEF TypeOK, TaskRecord
    <3> QED
      BY <3>1, <3>3 DEF Ready, Queued
  <2>2. CASE StayRunnable
    <3>1. task' = IF curr = Idle THEN task ELSE [task EXCEPT ![curr].state = "RUNNING"]
      BY <2>2 DEF StayRunnable
    <3>2. \A r \in Task : task'[r].array = task[r].array
      BY <1>1, <3>1 DEF TypeOK, TaskRecord
    <3> QED
      BY <3>2 DEF Ready, Queued
  <2> QED
    BY <2>1, <2>2 DEF schedule
<1>5. Ready' = {} <=> nr_running' = 0
  <2>1. CountsExact' /\ IsFiniteSet(Ready')
    <3>1. Ready' \in SUBSET Task
      BY DEF Ready
    <3> QED
      BY <1>2, <3>1, TaskFinite, FS_Subset DEF OffCpu
  <2> DEFINE R == Ready'
  <2>2. nr_running' = Cardinality(R) /\ IsFiniteSet(R)
    BY <2>1 DEF CountsExact
  <2> HIDE DEF R
  <2>3. R = {} <=> nr_running' = 0
    BY <2>2, FS_EmptySet
  <2> QED
    BY <2>3 DEF R
<1>6. {p \in Task : OnAnyList(arrays, p)} = Ready
  BY ReadyMeans
<1>7. {p \in Task : OnAnyList(arrays, p)}' = Ready'
  <2>1. ({p \in Task : OnAnyList(arrays, p)} = Ready)'
    BY ReadyMeans, PTL
  <2> QED
    BY <2>1
<1>8. CASE curr' = Idle /\ nr_running' = 0
  <2>1. [p \in Task |-> ClassOf(p)]' = [p \in Task |-> ClassOf(p)]
    BY <1>3
  <2>2. Promise!Switch
    BY <1>4, <1>5, <1>6, <1>7, <1>8, <2>1 DEF Promise!Switch
  <2> QED
    BY <2>2 DEF Allowed, Promise!PolicyNext
<1>9. CASE /\ curr' \in Task /\ Queued(curr)'
           /\ nr_running' # 0 /\ PickedBest(task', active', curr')
  <2>1. [p \in Task |-> ClassOf(p)]' = [p \in Task |-> ClassOf(p)]
    BY <1>3
  <2>2. PICK p \in Task : curr' = p
    BY <1>9
  <2>3. \A q \in Task : Queued(q)' =>
            Promise!Rank[ClassOf(curr)'] <= Promise!Rank[ClassOf(q)']
    BY <1>9, BestPicked
  <2>4. ClassOf(curr)' = ClassOf(p)'
    BY <2>2 DEF ClassOf, Linked
  <2>5. \A q \in Ready' : Promise!Rank[ClassOf(p)] <= Promise!Rank[ClassOf(q)]
    BY <1>3, <2>3, <2>4 DEF Ready
  <2>6. p \in Ready' /\ \A q \in Ready' : q \in Task
    BY <1>9, <2>2 DEF Ready, Queued
  <2>7. p \in Promise!Best(Ready')
    BY <2>5, <2>6 DEF Promise!Best
  <2>8. Promise!Switch
    BY <1>4, <1>5, <1>6, <1>7, <1>9, <2>1, <2>2, <2>7 DEF Promise!Switch
  <2> QED
    BY <2>8 DEF Allowed, Promise!PolicyNext
<1> QED
  BY <1>2, <1>8, <1>9
-----------------------------------------------------------------------------
(* The refinement                                                          *)

LEMMA PolicyStarts == Init => Promise!PolicyInit
<1> SUFFICES ASSUME Init
             PROVE  Promise!PolicyInit
  OBVIOUS
<1>1. QueueInv /\ Init1 \in Task
  BY QueueInit, InitAssumption
<1>2. {p \in Task : OnAnyList(arrays, p)} = Ready
  BY <1>1, ReadyMeans
<1>3. /\ task[Init1].policy = "OTHER" /\ task[Init1].array = "array0"
      /\ \A p \in Task : p # Init1 => task[p] = FreeTask
      /\ \A p \in Task : pc[p] = IF p = Init1 THEN "user" ELSE "none"
      /\ curr = Init1
  BY <1>1 DEF Init, FreeTask
<1>4. \A p \in Task : ClassOf(p) = IF p = Init1 THEN "other" ELSE "none"
  BY <1>3 DEF ClassOf, Linked, IsShort, IsOverdue
<1>5. \A p \in Task : Queued(p) <=> p = Init1
  BY <1>3 DEF Queued, FreeTask, NULL
<1>6. Ready = {p \in Task : ClassOf(p) # "none"} /\ curr \in Ready
  BY <1>1, <1>3, <1>4, <1>5 DEF Ready
<1>7. [p \in Task |-> ClassOf(p)] \in [Task -> {"none", "other"}]
  BY <1>4
<1> QED
  BY <1>2, <1>6, <1>7 DEF Promise!PolicyInit

LEMMA PolicyStep ==
    ASSUME QueueInv, QueueInv', ForkInv, Next
    PROVE  Allowed
<1>1. CASE Tick
  BY <1>1, TickStepPolicy
<1>2. CASE schedule
  BY <1>2, SchedulePolicy
<1>3. ASSUME NEW p \in Task, try_to_wake_up(p)
      PROVE  Allowed
  BY <1>3, WakePolicy
<1>4. ASSUME NEW t \in Task, TaskStep(t)
      PROVE  Allowed
  <2>1. CASE \/ SystemCall(t) \/ NoEffect(t) \/ ReturnToUser(t) \/ do_exit(t)
             \/ \E state \in SleepStates : SetState(t, state)
    BY <2>1, KernelPolicy
  <2>2. CASE SchedulerCall(t)
    <3>1. CASE sys_sched_yield(t)
      BY <3>1, YieldPolicy
    <3>2. ASSUME NEW p \in Task, NEW nice \in Nices, set_user_nice(t, p, nice)
          PROVE  Allowed
      BY <3>2, NicePolicy
    <3>3. ASSUME NEW p \in Task,
                 \/ \E request \in Requests :
                        BecomeShort(t, p, request) \/ ResizeShort(t, p, request)
                 \/ SetOther(t, p)
                 \/ \E policy \in {"FIFO", "RR"}, sched_priority \in RtPriorities :
                        SetRealTime(t, p, policy, sched_priority)
          PROVE  Allowed
      BY <3>3, PolicyCallsPolicy
    <3> QED
      BY <2>2, <3>1, <3>2, <3>3 DEF SchedulerCall
  <2>3. CASE Fork(t)
    <3>1. CASE \E c \in Task : ForkCopy(t, c)
      BY <3>1, ForkCopyPolicy
    <3>2. CASE ForkFail(t) \/ ForkShare(t)
      BY <3>2, ForkFailPolicy, ForkSharePolicy
    <3>3. CASE ForkTick(t) \/ ForkChoose(t)
      BY <3>3, KernelPolicy
    <3>4. CASE wake_up_forked_process(t) \/ wake_up_short_forked_process(t)
      BY <3>4, WakePlainPolicy, WakeShortPolicy
    <3> QED
      BY <2>3, <3>1, <3>2, <3>3, <3>4 DEF Fork
  <2>4. CASE \E c \in Task : release_task(t, c)
    BY <2>4, ReleasePolicy
  <2> QED
    BY <1>4, <2>1, <2>2, <2>3, <2>4 DEF TaskStep
<1> QED
  BY <1>1, <1>2, <1>3, <1>4 DEF Next

LEMMA PolicyStutters ==
    UNCHANGED vars => UNCHANGED Promise!pvars
<1> SUFFICES ASSUME UNCHANGED vars
             PROVE  UNCHANGED Promise!pvars
  OBVIOUS
<1>1. UNCHANGED <<task, pc, arrays, curr>>
  BY DEF vars, queues
<1> QED
  BY <1>1 DEF Promise!pvars, ClassOf, Linked, OnAnyList

\* schedule() keeps the order stated in sched.c:945 whatever happens between two
\* of its calls: every step of the scheduler, an interrupt or a step of do_fork
\* included, is one that SchedPolicy allows.  The CPU goes to a task of the best
\* class that can run, to the idle task only if there is none, and a SHORT task
\* leaves its class only by using up its time on the CPU.
THEOREM PolicyIsImplemented ==
    ASSUME RacyFork = FALSE
    PROVE  Spec => ImplementsPolicy
<1>1. Init => Promise!PolicyInit
  BY PolicyStarts
<1>2. QueueInv /\ ForkInv /\ (QueueInv /\ ForkInv)' /\ [Next]_vars
          => [Promise!PolicyNext]_(Promise!pvars)
  <2> SUFFICES ASSUME QueueInv, ForkInv, QueueInv', [Next]_vars
               PROVE  Promise!PolicyNext \/ UNCHANGED Promise!pvars
    OBVIOUS
  <2>1. CASE Next
    BY <2>1, PolicyStep DEF Allowed
  <2>2. CASE UNCHANGED vars
    BY <2>2, PolicyStutters
  <2> QED
    BY <2>1, <2>2
<1>3. Spec => [](QueueInv /\ ForkInv)
  BY QueueAlways
<1> QED
  BY <1>1, <1>2, <1>3, PTL DEF Spec, ImplementsPolicy, Promise!PolicySpec
=============================================================================
