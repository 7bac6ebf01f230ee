-------------------------- MODULE ShortSched_proofs --------------------------
(***************************************************************************)
(* Theorems about ShortSched, for every number of tasks, every HZ and      *)
(* every range of priorities.                                              *)
(***************************************************************************)
EXTENDS ShortSched, SequenceTheorems, FiniteSetTheorems, TLAPS
-----------------------------------------------------------------------------
(* What the operations on the priority arrays preserve                     *)

\* Unlinking a task from a list leaves a list.
LEMMA WithoutType ==
    ASSUME NEW s \in Seq(Task), NEW p
    PROVE  Without(s, p) \in Seq(Task)
<1>1. CASE ~OnList(s, p)
  BY <1>1 DEF Without
<1>2. CASE OnList(s, p)
  <2> DEFINE first(i) == i \in DOMAIN s /\ s[i] = p /\ \A j \in 1 .. i - 1 : s[j] # p
             i == CHOOSE i \in DOMAIN s : s[i] = p /\ \A j \in 1 .. i - 1 : s[j] # p
             w == [j \in 1 .. Len(s) - 1 |-> IF j < i THEN s[j] ELSE s[j + 1]]
  <2>1. Len(s) \in Nat /\ DOMAIN s = 1 .. Len(s)
    OBVIOUS
  <2>2. Len(s) # 0
    BY <1>2, <2>1 DEF OnList
  <2> HIDE DEF i
  <2>3. \A j \in 1 .. Len(s) - 1 : w[j] \in Task
    BY <2>1
  <2>4. Len(s) - 1 \in Nat
    BY <2>1, <2>2
  <2>5. w \in Seq(Task)
    <3> DEFINE n == Len(s) - 1
    <3>1. w \in [1 .. n -> Task]
      BY <2>3
    <3>2. n \in Nat
      BY <2>4
    <3> HIDE DEF n, w
    <3> QED
      BY <3>1, <3>2
  <2>6. Without(s, p) = w
    BY <1>2 DEF Without, i
  <2> QED
    BY <2>5, <2>6
<1> QED
  BY <1>1, <1>2

LEMMA UnlinkedType ==
    ASSUME NEW ars \in PrioArrays, NEW p
    PROVE  Unlinked(ars, p) \in PrioArrays
<1> SUFFICES ASSUME NEW a \in ArrayId
             PROVE  [ars[a] EXCEPT !.queue = [q \in Prio |-> Without(@[q], p)]]
                      \in [nr_active : Int, bitmap : SUBSET Prio, queue : [Prio -> Seq(Task)]]
  BY DEF Unlinked, PrioArrays
<1>1. ars[a] \in [nr_active : Int, bitmap : SUBSET Prio, queue : [Prio -> Seq(Task)]]
  BY DEF PrioArrays
<1>2. [q \in Prio |-> Without(ars[a].queue[q], p)] \in [Prio -> Seq(Task)]
  BY <1>1, WithoutType
<1> QED
  BY <1>1, <1>2

\* dequeue_task and enqueue_task keep the type of the arrays, whatever array
\* and priority dequeue_task is given.
LEMMA DequeueType ==
    ASSUME NEW ars \in PrioArrays, NEW a, NEW prio, NEW p
    PROVE  Dequeue(ars, a, prio, p) \in PrioArrays
<1> DEFINE u == Unlinked(ars, p)
<1>1. u \in PrioArrays
  BY UnlinkedType
<1> HIDE DEF u
<1>2. \A x \in ArrayId : u[x] \in [nr_active : Int, bitmap : SUBSET Prio,
                                    queue : [Prio -> Seq(Task)]]
  BY <1>1 DEF PrioArrays
<1>3. [u EXCEPT ![a] = [nr_active |-> @.nr_active - 1,
                        bitmap |-> IF @.queue[prio] = << >> THEN @.bitmap \ {prio}
                                   ELSE @.bitmap,
                        queue |-> @.queue]] \in PrioArrays
  <2>1. CASE a \in ArrayId
    BY <1>1, <1>2, <2>1 DEF PrioArrays
  <2>2. CASE a \notin ArrayId
    BY <1>1, <2>2 DEF PrioArrays
  <2> QED
    BY <2>1, <2>2
<1> QED
  BY <1>3 DEF Dequeue, u

LEMMA SetListType ==
    ASSUME NEW ars \in PrioArrays, NEW a \in ArrayId, NEW prio \in Prio,
           NEW list \in Seq(Task), NEW bitmap \in SUBSET Prio
    PROVE  /\ SetList(ars, a, prio, list) \in PrioArrays
           /\ SetBitmap(ars, a, bitmap) \in PrioArrays
           /\ CountIn(ars, a, prio) \in PrioArrays
BY DEF SetList, SetBitmap, CountIn, PrioArrays

\* An update at an index that is not an array changes nothing.
LEMMA SetListOutside ==
    ASSUME NEW ars \in PrioArrays, NEW a, a \notin ArrayId, NEW prio, NEW list, NEW bitmap
    PROVE  SetList(ars, a, prio, list) = ars /\ SetBitmap(ars, a, bitmap) = ars
BY DEF SetList, SetBitmap, PrioArrays

LEMMA EnqueueType ==
    ASSUME NEW ars \in PrioArrays, NEW a \in ArrayId, NEW prio \in Prio, NEW p \in Task
    PROVE  /\ Enqueue(ars, a, prio, p) \in PrioArrays
           /\ EnqueueHead(ars, a, prio, p) \in PrioArrays
<1>1. ars[a].queue[prio] \in Seq(Task)
  BY DEF PrioArrays
<1>2. Append(ars[a].queue[prio], p) \in Seq(Task)
  BY <1>1
<1>3. <<p>> \o ars[a].queue[prio] \in Seq(Task)
  BY <1>1
<1> QED
  BY <1>2, <1>3, SetListType DEF Enqueue, EnqueueHead

\* The bit that is found is a priority or the delimiter.
LEMMA FirstBitType ==
    ASSUME NEW bitmap \in SUBSET Prio, NEW b, IsFirstBit(bitmap, b)
    PROVE  b \in Prio \cup {MAX_PRIO}
BY DEF IsFirstBit
-----------------------------------------------------------------------------
(* The arrays in order.  tk is any function from tasks to records with the *)
(* fields array and prio: a task is queued when its array is one of the    *)
(* four, and then it is on the one list that the two fields name.          *)

NoRepeat(s) == \A i, j \in DOMAIN s : s[i] = s[j] => i = j

InArray(tk, a) == {p \in Task : tk[p].array = a}

ListInOrder(lists, tk, a, q) ==
    /\ NoRepeat(lists[a].queue[q])
    /\ \A p \in Task : OnList(lists[a].queue[q], p) <=> tk[p].array = a /\ tk[p].prio = q
    /\ q \in lists[a].bitmap <=> lists[a].queue[q] # << >>

InOrder(lists, tk) ==
    \A a \in ArrayId :
        /\ \A q \in Prio : ListInOrder(lists, tk, a, q)
        /\ lists[a].nr_active = Cardinality(InArray(tk, a))

\* The two fields of every task but p are the same in both.
SameBut(p, tk, tk2) ==
    \A r \in Task \ {p} : tk2[r].array = tk[r].array /\ tk2[r].prio = tk[r].prio

\* A list is empty when no task is on it.
LEMMA EmptyList ==
    ASSUME NEW s \in Seq(Task)
    PROVE  s = << >> <=> \A p \in Task : ~OnList(s, p)
<1>1. s # << >> => s[1] \in Task /\ 1 \in DOMAIN s
  OBVIOUS
<1>2. s = << >> => DOMAIN s = {}
  OBVIOUS
<1> QED
  BY <1>1, <1>2 DEF OnList

\* A task that is not on a list leaves no trace there.
LEMMA WithoutAbsent ==
    ASSUME NEW s, NEW p, ~OnList(s, p)
    PROVE  Without(s, p) = s
BY DEF Without

\* What Without takes from a list that holds no task twice.
LEMMA WithoutFacts ==
    ASSUME NEW s \in Seq(Task), NEW p \in Task, NoRepeat(s)
    PROVE  /\ NoRepeat(Without(s, p))
           /\ \A r \in Task : OnList(Without(s, p), r) <=> OnList(s, r) /\ r # p
<1>1. CASE ~OnList(s, p)
  BY <1>1 DEF Without, OnList
<1>2. CASE OnList(s, p)
  <2> DEFINE i == CHOOSE i \in DOMAIN s : s[i] = p /\ \A j \in 1 .. i - 1 : s[j] # p
             w == [j \in 1 .. Len(s) - 1 |-> IF j < i THEN s[j] ELSE s[j + 1]]
  <2>1. Len(s) \in Nat /\ DOMAIN s = 1 .. Len(s)
    OBVIOUS
  <2>2. i \in DOMAIN s /\ s[i] = p
    <3>1. PICK k \in DOMAIN s : s[k] = p
      BY <1>2 DEF OnList
    <3>2. \A j \in 1 .. k - 1 : s[j] # p
      BY <2>1, <3>1 DEF NoRepeat
    <3>3. \E l \in DOMAIN s : s[l] = p /\ \A j \in 1 .. l - 1 : s[j] # p
      BY <3>1, <3>2
    <3> QED
      BY <3>3
  <2>3. Without(s, p) = w
    BY <1>2 DEF Without
  <2> HIDE DEF i
  <2>4. DOMAIN w = 1 .. Len(s) - 1
    OBVIOUS
  <2>5. \A j \in DOMAIN w : w[j] = IF j < i THEN s[j] ELSE s[j + 1]
    OBVIOUS
  <2> HIDE DEF w
  <2>6. NoRepeat(w)
    <3> SUFFICES ASSUME NEW j \in 1 .. Len(s) - 1, NEW k \in 1 .. Len(s) - 1, w[j] = w[k]
                 PROVE  j = k
      BY <2>4 DEF NoRepeat
    <3>1. /\ j \in DOMAIN s /\ j + 1 \in DOMAIN s /\ k \in DOMAIN s /\ k + 1 \in DOMAIN s
          /\ i \in Nat /\ j \in Nat /\ k \in Nat
      BY <2>1, <2>2
    <3>2. /\ w[j] = IF j < i THEN s[j] ELSE s[j + 1]
          /\ w[k] = IF k < i THEN s[k] ELSE s[k + 1]
      BY <2>4, <2>5
    <3> DEFINE jj == IF j < i THEN j ELSE j + 1
               kk == IF k < i THEN k ELSE k + 1
    <3>3. jj \in DOMAIN s /\ kk \in DOMAIN s /\ s[jj] = s[kk]
      BY <3>1, <3>2
    <3>4. jj = kk
      <4> HIDE DEF jj, kk
      <4> QED
        BY <3>3 DEF NoRepeat
    <3> QED
      BY <3>1, <3>4
  <2>7. ASSUME NEW r \in Task
        PROVE  OnList(w, r) <=> OnList(s, r) /\ r # p
    <3>1. ASSUME NEW j \in 1 .. Len(s) - 1, w[j] = r
          PROVE  OnList(s, r) /\ r # p
      <4>1. j \in DOMAIN s /\ j + 1 \in DOMAIN s /\ i \in Nat /\ j \in Nat
        BY <2>1, <2>2
      <4>2. w[j] = IF j < i THEN s[j] ELSE s[j + 1]
        BY <2>4, <2>5
      <4>3. (IF j < i THEN j ELSE j + 1) # i
        BY <4>1
      <4> QED
        BY <2>2, <3>1, <4>1, <4>2, <4>3 DEF NoRepeat, OnList
    <3>2. ASSUME NEW k \in DOMAIN s, s[k] = r, r # p
          PROVE  OnList(w, r)
      <4> DEFINE j == IF k < i THEN k ELSE k - 1
      <4>1. k \in Nat /\ i \in Nat /\ k # i /\ k \in 1 .. Len(s) /\ i \in 1 .. Len(s)
        BY <2>1, <2>2, <3>2
      <4>2. j \in 1 .. Len(s) - 1
        BY <2>1, <4>1
      <4>3. (IF j < i THEN s[j] ELSE s[j + 1]) = s[k]
        BY <4>1
      <4> HIDE DEF j
      <4>4. w[j] = r
        BY <2>4, <2>5, <3>2, <4>2, <4>3
      <4> QED
        BY <2>4, <4>2, <4>4 DEF OnList
    <3> QED
      BY <2>4, <3>1, <3>2 DEF OnList
  <2> QED
    BY <2>3, <2>6, <2>7
<1> QED
  BY <1>1, <1>2

\* Putting a task that is not on a list at its end, at its head or behind its
\* first one adds that task.
LEMMA AddedFacts ==
    ASSUME NEW s \in Seq(Task), NEW p \in Task, NoRepeat(s), ~OnList(s, p)
    PROVE  /\ NoRepeat(Append(s, p)) /\ NoRepeat(<<p>> \o s)
           /\ \A r \in Task : /\ OnList(Append(s, p), r) <=> OnList(s, r) \/ r = p
                              /\ OnList(<<p>> \o s, r) <=> OnList(s, r) \/ r = p
<1>1. Len(s) \in Nat /\ DOMAIN s = 1 .. Len(s)
  OBVIOUS
<1> DEFINE w == Append(s, p)
           v == <<p>> \o s
<1>2. /\ DOMAIN w = 1 .. Len(s) + 1 /\ w[Len(s) + 1] = p
      /\ \A j \in DOMAIN s : w[j] = s[j]
  OBVIOUS
<1>3. /\ DOMAIN v = 1 .. Len(s) + 1 /\ v[1] = p
      /\ \A j \in DOMAIN s : v[j + 1] = s[j]
  OBVIOUS
<1> HIDE DEF w, v
<1>4. NoRepeat(w) /\ \A r \in Task : OnList(w, r) <=> OnList(s, r) \/ r = p
  <2>1. \A j \in DOMAIN w : j \in DOMAIN s \/ j = Len(s) + 1
    BY <1>1, <1>2
  <2>2. Len(s) + 1 \in DOMAIN w /\ \A j \in DOMAIN s : j \in DOMAIN w
    BY <1>1, <1>2
  <2> QED
    BY <1>2, <2>1, <2>2 DEF NoRepeat, OnList
<1>5. NoRepeat(v) /\ \A r \in Task : OnList(v, r) <=> OnList(s, r) \/ r = p
  <2>1. \A j \in DOMAIN v : j = 1 \/ \E i \in DOMAIN s : j = i + 1
    <3> SUFFICES ASSUME NEW j \in DOMAIN v, j # 1
                 PROVE  \E i \in DOMAIN s : j = i + 1
      OBVIOUS
    <3>1. j - 1 \in DOMAIN s /\ j = (j - 1) + 1
      BY <1>1, <1>3
    <3> QED
      BY <3>1
  <2>2. 1 \in DOMAIN v /\ \A j \in DOMAIN s : j + 1 \in DOMAIN v
    BY <1>1, <1>3
  <2> QED
    BY <1>3, <2>1, <2>2 DEF NoRepeat, OnList
<1> QED
  BY <1>4, <1>5 DEF w, v

LEMMA AppendedFacts ==
    ASSUME NEW s \in Seq(Task), NEW p \in Task, NoRepeat(s), ~OnList(s, p)
    PROVE  /\ Append(s, p) \in Seq(Task) /\ NoRepeat(Append(s, p))
           /\ \A r \in Task : OnList(Append(s, p), r) <=> OnList(s, r) \/ r = p
<1>1. Append(s, p) \in Seq(Task)
  OBVIOUS
<1> QED
  BY <1>1, AddedFacts

\* The lists and the fields of unlinking a task that sits in the arrays.
LEMMA UnlinkedFacts ==
    ASSUME NEW lists \in PrioArrays, NEW p \in Task, NEW a \in ArrayId, NEW q \in Prio
    PROVE  /\ lists[a].queue[q] \in Seq(Task)
           /\ Unlinked(lists, p)[a].queue[q] = Without(lists[a].queue[q], p)
           /\ Unlinked(lists, p)[a].queue[q] \in Seq(Task)
           /\ Unlinked(lists, p)[a].bitmap = lists[a].bitmap
           /\ Unlinked(lists, p)[a].nr_active = lists[a].nr_active
<1>1. lists[a] \in [nr_active : Int, bitmap : SUBSET Prio, queue : [Prio -> Seq(Task)]]
  BY DEF PrioArrays
<1> QED
  BY <1>1, WithoutType DEF Unlinked

LEMMA MembersFinite ==
    ASSUME NEW tk, NEW a
    PROVE  IsFiniteSet(InArray(tk, a)) /\ Cardinality(InArray(tk, a)) \in Nat
BY TaskFinite, FS_Subset, FS_CardinalityType DEF InArray

\* dequeue_task of a task where its fields say it is.
LEMMA DequeueInOrder ==
    ASSUME NEW lists \in PrioArrays, NEW tk, NEW tk2, InOrder(lists, tk), NEW p \in Task,
           tk[p].array \in ArrayId, tk[p].prio \in Prio,
           tk2[p].array \notin ArrayId, SameBut(p, tk, tk2)
    PROVE  InOrder(Dequeue(lists, tk[p].array, tk[p].prio, p), tk2)
<1> DEFINE a == tk[p].array
           q == tk[p].prio
           u == Unlinked(lists, p)
           d == Dequeue(lists, a, q, p)
<1>1. \A b \in ArrayId : /\ \A r \in Prio : ListInOrder(lists, tk, b, r)
                         /\ lists[b].nr_active = Cardinality(InArray(tk, b))
  BY DEF InOrder
<1>2. u \in PrioArrays /\ d \in PrioArrays
  BY UnlinkedType, DequeueType
<1>3. \A b \in ArrayId, r \in Prio :
        /\ lists[b].queue[r] \in Seq(Task) /\ u[b].queue[r] \in Seq(Task)
        /\ u[b].queue[r] = Without(lists[b].queue[r], p)
        /\ u[b].bitmap = lists[b].bitmap /\ u[b].nr_active = lists[b].nr_active
  BY UnlinkedFacts
<1> HIDE DEF u
<1>4. /\ d[a] = [nr_active |-> u[a].nr_active - 1,
                 bitmap |-> IF u[a].queue[q] = << >> THEN u[a].bitmap \ {q} ELSE u[a].bitmap,
                 queue |-> u[a].queue]
      /\ \A b \in ArrayId : b # a => d[b] = u[b]
  BY <1>2 DEF Dequeue, u, PrioArrays
<1> HIDE DEF d
<1>5. ASSUME NEW b \in ArrayId, NEW r \in Prio
      PROVE  ListInOrder(d, tk2, b, r)
  <2>1. d[b].queue[r] = Without(lists[b].queue[r], p) /\ d[b].queue[r] \in Seq(Task)
    BY <1>3, <1>4
  <2>2. ListInOrder(lists, tk, b, r)
    BY <1>1
  <2>3. /\ NoRepeat(d[b].queue[r])
        /\ \A s \in Task : OnList(d[b].queue[r], s) <=> OnList(lists[b].queue[r], s) /\ s # p
    BY <1>3, <2>1, <2>2, WithoutFacts DEF ListInOrder
  <2>4. \A s \in Task : OnList(d[b].queue[r], s) <=> tk2[s].array = b /\ tk2[s].prio = r
    BY <2>2, <2>3 DEF ListInOrder, SameBut
  <2>5. r \in d[b].bitmap <=> d[b].queue[r] # << >>
    <3>1. CASE b = a /\ r = q
      <4>1. /\ d[b].bitmap = IF u[b].queue[r] = << >> THEN u[b].bitmap \ {r} ELSE u[b].bitmap
            /\ d[b].queue = u[b].queue
        <5> HIDE DEF a, q
        <5>1. d[b] = [nr_active |-> u[b].nr_active - 1,
                      bitmap |-> IF u[b].queue[r] = << >> THEN u[b].bitmap \ {r}
                                 ELSE u[b].bitmap,
                      queue |-> u[b].queue]
          BY <1>4, <3>1
        <5> QED
          BY <5>1
      <4>2. u[b].bitmap = lists[b].bitmap /\ d[b].queue[r] = u[b].queue[r]
        BY <1>3, <4>1
      <4>3. CASE d[b].queue[r] = << >>
        BY <4>1, <4>2, <4>3
      <4>4. CASE d[b].queue[r] # << >>
        <5>1. PICK s \in Task : OnList(d[b].queue[r], s)
          BY <2>1, <4>4, EmptyList
        <5>2. OnList(lists[b].queue[r], s)
          BY <2>3, <5>1
        <5>3. lists[b].queue[r] # << >>
          BY <5>2 DEF OnList
        <5>4. r \in lists[b].bitmap
          BY <2>2, <5>3 DEF ListInOrder
        <5> QED
          BY <4>1, <4>2, <4>4, <5>4
      <4> QED
        BY <4>3, <4>4
    <3>2. CASE ~(b = a /\ r = q)
      <4>1. ~OnList(lists[b].queue[r], p)
        BY <2>2, <3>2 DEF ListInOrder
      <4>2. \A s \in Task : OnList(d[b].queue[r], s) <=> OnList(lists[b].queue[r], s)
        BY <2>3, <4>1
      <4>3. d[b].queue[r] = << >> <=> lists[b].queue[r] = << >>
        BY <1>3, <2>1, <4>2, EmptyList
      <4>4. r \in d[b].bitmap <=> r \in lists[b].bitmap
        BY <1>3, <1>4, <3>2
      <4> QED
        BY <2>2, <4>3, <4>4 DEF ListInOrder
    <3> QED
      BY <3>1, <3>2
  <2> QED
    BY <2>3, <2>4, <2>5 DEF ListInOrder
<1>6. ASSUME NEW b \in ArrayId
      PROVE  d[b].nr_active = Cardinality(InArray(tk2, b))
  <2>1. lists[b].nr_active = Cardinality(InArray(tk, b))
    BY <1>1
  <2>2. CASE b = a
    <3>1. InArray(tk2, a) = InArray(tk, a) \ {p} /\ p \in InArray(tk, a)
      BY DEF InArray, SameBut
    <3>2. Cardinality(InArray(tk2, a)) = Cardinality(InArray(tk, a)) - 1
      <4> DEFINE S == InArray(tk, a)
      <4>1. IsFiniteSet(S)
        BY MembersFinite
      <4> HIDE DEF S
      <4>2. p \in S => Cardinality(S \ {p}) = Cardinality(S) - 1
        BY <4>1, FS_RemoveElement
      <4> QED
        BY <3>1, <4>2 DEF S
    <3>3. d[a].nr_active = lists[a].nr_active - 1
      BY <1>3, <1>4
    <3> QED
      BY <2>1, <2>2, <3>2, <3>3
  <2>3. CASE b # a
    <3>1. InArray(tk2, b) = InArray(tk, b)
      BY <2>3 DEF InArray, SameBut
    <3> QED
      BY <1>3, <1>4, <2>1, <2>3, <3>1
  <2> QED
    BY <2>2, <2>3
<1> QED
  BY <1>5, <1>6 DEF InOrder, d

\* enqueue_task, or its twin with list_add, of a task that is not queued: any
\* list that holds p besides what it held before is in order.
LEMMA PutInOrder ==
    ASSUME NEW lists \in PrioArrays, NEW tk, NEW tk2, InOrder(lists, tk), NEW p \in Task,
           tk[p].array \notin ArrayId, SameBut(p, tk, tk2),
           NEW a \in ArrayId, NEW q \in Prio, tk2[p].array = a, tk2[p].prio = q,
           NEW list \in Seq(Task), NoRepeat(list),
           \A r \in Task : OnList(list, r) <=> OnList(lists[a].queue[q], r) \/ r = p
    PROVE  InOrder(CountIn(SetList(lists, a, q, list), a, q), tk2)
<1> DEFINE d == CountIn(SetList(lists, a, q, list), a, q)
<1>1. \A b \in ArrayId : /\ \A r \in Prio : ListInOrder(lists, tk, b, r)
                         /\ lists[b].nr_active = Cardinality(InArray(tk, b))
  BY DEF InOrder
<1>2. lists[a] \in [nr_active : Int, bitmap : SUBSET Prio, queue : [Prio -> Seq(Task)]]
  BY DEF PrioArrays
<1>3. /\ d[a].nr_active = lists[a].nr_active + 1 /\ d[a].bitmap = lists[a].bitmap \cup {q}
      /\ d[a].queue[q] = list /\ \A r \in Prio : r # q => d[a].queue[r] = lists[a].queue[r]
      /\ \A b \in ArrayId : b # a => d[b] = lists[b]
  BY <1>2 DEF CountIn, SetList, PrioArrays
<1> HIDE DEF d
<1>4. ASSUME NEW b \in ArrayId, NEW r \in Prio
      PROVE  ListInOrder(d, tk2, b, r)
  <2>1. ListInOrder(lists, tk, b, r)
    BY <1>1
  <2>2. CASE b = a /\ r = q
    <3>1. list # << >>
      BY EmptyList
    <3>2. \A s \in Task : OnList(list, s) <=> tk2[s].array = a /\ tk2[s].prio = q
      BY <2>1, <2>2 DEF ListInOrder, SameBut
    <3> QED
      BY <1>3, <2>2, <3>1, <3>2 DEF ListInOrder
  <2>3. CASE ~(b = a /\ r = q)
    <3>1. d[b].queue[r] = lists[b].queue[r] /\ (r \in d[b].bitmap <=> r \in lists[b].bitmap)
      BY <1>3, <2>3
    <3>2. \A s \in Task : OnList(lists[b].queue[r], s) <=> tk2[s].array = b /\ tk2[s].prio = r
      BY <2>1, <2>3 DEF ListInOrder, SameBut
    <3> QED
      BY <2>1, <3>1, <3>2 DEF ListInOrder
  <2> QED
    BY <2>2, <2>3
<1>5. ASSUME NEW b \in ArrayId
      PROVE  d[b].nr_active = Cardinality(InArray(tk2, b))
  <2>1. lists[b].nr_active = Cardinality(InArray(tk, b))
    BY <1>1
  <2>2. CASE b = a
    <3>1. InArray(tk2, a) = InArray(tk, a) \cup {p} /\ p \notin InArray(tk, a)
      BY DEF InArray, SameBut
    <3>2. Cardinality(InArray(tk2, a)) = Cardinality(InArray(tk, a)) + 1
      BY <3>1, MembersFinite, FS_AddElement
    <3> QED
      BY <1>3, <2>1, <2>2, <3>2
  <2>3. CASE b # a
    <3>1. InArray(tk2, b) = InArray(tk, b)
      BY <2>3 DEF InArray, SameBut
    <3> QED
      BY <1>3, <2>1, <2>3, <3>1
  <2> QED
    BY <2>2, <2>3
<1> QED
  BY <1>4, <1>5 DEF InOrder, d

LEMMA EnqueueInOrder ==
    ASSUME NEW lists \in PrioArrays, NEW tk, NEW tk2, InOrder(lists, tk), NEW p \in Task,
           tk[p].array \notin ArrayId, SameBut(p, tk, tk2),
           NEW a \in ArrayId, NEW q \in Prio, tk2[p].array = a, tk2[p].prio = q
    PROVE  /\ InOrder(Enqueue(lists, a, q, p), tk2)
           /\ InOrder(EnqueueHead(lists, a, q, p), tk2)
<1> DEFINE s == lists[a].queue[q]
<1>1. s \in Seq(Task)
  BY DEF PrioArrays
<1>2. NoRepeat(s) /\ ~OnList(s, p)
  BY DEF InOrder, ListInOrder
<1>3. Append(s, p) \in Seq(Task) /\ <<p>> \o s \in Seq(Task)
  BY <1>1
<1>4. /\ NoRepeat(Append(s, p)) /\ NoRepeat(<<p>> \o s)
      /\ \A r \in Task : /\ OnList(Append(s, p), r) <=> OnList(s, r) \/ r = p
                         /\ OnList(<<p>> \o s, r) <=> OnList(s, r) \/ r = p
  BY <1>1, <1>2, AddedFacts
<1>5. ASSUME NEW list \in Seq(Task), NoRepeat(list),
             \A r \in Task : OnList(list, r) <=> OnList(s, r) \/ r = p
      PROVE  InOrder(CountIn(SetList(lists, a, q, list), a, q), tk2)
  BY <1>5, PutInOrder
<1> HIDE DEF s
<1>6. /\ InOrder(CountIn(SetList(lists, a, q, Append(s, p)), a, q), tk2)
      /\ InOrder(CountIn(SetList(lists, a, q, <<p>> \o s), a, q), tk2)
  <2> DEFINE list1 == Append(s, p)
             list2 == <<p>> \o s
  <2> HIDE DEF list1, list2
  <2> QED
    BY <1>3, <1>4, <1>5 DEF list1, list2
<1> QED
  BY <1>6 DEF Enqueue, EnqueueHead, s

\* sched_yield puts a task elsewhere on its own list.
LEMMA MoveInOrder ==
    ASSUME NEW lists \in PrioArrays, NEW tk, InOrder(lists, tk), NEW p \in Task,
           NEW a \in ArrayId, NEW q \in Prio, tk[p].array = a, tk[p].prio = q,
           NEW list \in Seq(Task), NoRepeat(list),
           \A r \in Task : OnList(list, r) <=> OnList(Unlinked(lists, p)[a].queue[q], r) \/ r = p
    PROVE  InOrder(SetList(Unlinked(lists, p), a, q, list), tk)
<1> DEFINE u == Unlinked(lists, p)
           d == SetList(u, a, q, list)
<1>1. \A b \in ArrayId : /\ \A r \in Prio : ListInOrder(lists, tk, b, r)
                         /\ lists[b].nr_active = Cardinality(InArray(tk, b))
  BY DEF InOrder
<1>2. u \in PrioArrays
  BY UnlinkedType
<1>3. \A b \in ArrayId, r \in Prio :
        /\ lists[b].queue[r] \in Seq(Task) /\ u[b].queue[r] \in Seq(Task)
        /\ u[b].queue[r] = Without(lists[b].queue[r], p)
        /\ u[b].bitmap = lists[b].bitmap /\ u[b].nr_active = lists[b].nr_active
  BY UnlinkedFacts
<1> HIDE DEF u
<1>4. /\ d[a].nr_active = u[a].nr_active /\ d[a].bitmap = u[a].bitmap
      /\ d[a].queue[q] = list /\ \A r \in Prio : r # q => d[a].queue[r] = u[a].queue[r]
      /\ \A b \in ArrayId : b # a => d[b] = u[b]
  <2>1. u[a] \in [nr_active : Int, bitmap : SUBSET Prio, queue : [Prio -> Seq(Task)]]
    BY <1>2 DEF PrioArrays
  <2> QED
    BY <1>2, <2>1 DEF SetList, PrioArrays
<1> HIDE DEF d
<1>5. ASSUME NEW b \in ArrayId, NEW r \in Prio
      PROVE  ListInOrder(d, tk, b, r)
  <2>1. ListInOrder(lists, tk, b, r)
    BY <1>1
  <2>2. \A s \in Task : OnList(u[b].queue[r], s) <=> OnList(lists[b].queue[r], s) /\ s # p
    BY <1>3, <2>1, WithoutFacts DEF ListInOrder
  <2>3. CASE b = a /\ r = q
    <3>1. list # << >>
      BY EmptyList
    <3>2. \A s \in Task : OnList(list, s) <=> tk[s].array = a /\ tk[s].prio = q
      BY <2>1, <2>2, <2>3 DEF ListInOrder, u
    <3>3. q \in d[a].bitmap
      <4>1. OnList(lists[a].queue[q], p)
        BY <2>1, <2>3 DEF ListInOrder
      <4>2. lists[a].queue[q] # << >>
        BY <1>3, <4>1, EmptyList
      <4> QED
        BY <1>3, <1>4, <2>1, <2>3, <4>2 DEF ListInOrder
    <3> QED
      BY <1>4, <2>3, <3>1, <3>2, <3>3 DEF ListInOrder
  <2>4. CASE ~(b = a /\ r = q)
    <3>1. ~OnList(lists[b].queue[r], p)
      BY <2>1, <2>4 DEF ListInOrder
    <3>2. d[b].queue[r] = lists[b].queue[r]
      BY <1>3, <1>4, <2>4, <3>1, WithoutAbsent
    <3>3. r \in d[b].bitmap <=> r \in lists[b].bitmap
      BY <1>3, <1>4, <2>4
    <3> QED
      BY <2>1, <3>2, <3>3 DEF ListInOrder
  <2> QED
    BY <2>3, <2>4
<1>6. ASSUME NEW b \in ArrayId
      PROVE  d[b].nr_active = Cardinality(InArray(tk, b))
  <2>1. 0 \in Prio
    BY PrioAssumption DEF Prio
  <2>2. d[b].nr_active = lists[b].nr_active
    BY <1>3, <1>4, <2>1
  <2> QED
    BY <1>1, <2>2
<1> QED
  BY <1>5, <1>6 DEF InOrder, d, u

\* sched_yield of a task alone on its list: the list of another priority of the
\* same array takes it, and only the bitmap has to follow.
LEMMA DropInOrder ==
    ASSUME NEW lists \in PrioArrays, NEW tk, NEW tk2, InOrder(lists, tk), NEW p \in Task,
           tk[p].array \in ArrayId, tk[p].prio \in Prio,
           NEW r \in Prio, tk2[p].array = tk[p].array, tk2[p].prio = r, SameBut(p, tk, tk2),
           Unlinked(lists, p)[tk[p].array].queue[tk[p].prio] = << >>,
           NEW list \in Seq(Task), NoRepeat(list),
           \A s \in Task : OnList(list, s) <=>
                               OnList(Unlinked(lists, p)[tk[p].array].queue[r], s) \/ s = p
    PROVE  InOrder(SetBitmap(SetList(Unlinked(lists, p), tk[p].array, r, list), tk[p].array,
                             (lists[tk[p].array].bitmap \ {tk[p].prio}) \cup {r}), tk2)
<1> DEFINE a == tk[p].array
           q == tk[p].prio
           u == Unlinked(lists, p)
           d == SetBitmap(SetList(u, a, r, list), a, (lists[a].bitmap \ {q}) \cup {r})
<1>1. \A b \in ArrayId : /\ \A n \in Prio : ListInOrder(lists, tk, b, n)
                         /\ lists[b].nr_active = Cardinality(InArray(tk, b))
  BY DEF InOrder
<1>2. u \in PrioArrays
  BY UnlinkedType
<1>3. \A b \in ArrayId, n \in Prio :
        /\ lists[b].queue[n] \in Seq(Task) /\ u[b].queue[n] \in Seq(Task)
        /\ u[b].queue[n] = Without(lists[b].queue[n], p)
        /\ u[b].bitmap = lists[b].bitmap /\ u[b].nr_active = lists[b].nr_active
  BY UnlinkedFacts
<1>4. u[a].queue[q] = << >>
  OBVIOUS
<1> HIDE DEF u
<1>5. /\ d[a].nr_active = u[a].nr_active /\ d[a].bitmap = (lists[a].bitmap \ {q}) \cup {r}
      /\ d[a].queue[r] = list /\ \A n \in Prio : n # r => d[a].queue[n] = u[a].queue[n]
      /\ \A b \in ArrayId : b # a => d[b] = u[b]
  <2>1. u[a] \in [nr_active : Int, bitmap : SUBSET Prio, queue : [Prio -> Seq(Task)]]
    BY <1>2 DEF PrioArrays
  <2> QED
    BY <1>2, <2>1 DEF SetBitmap, SetList, PrioArrays
<1> HIDE DEF d
<1>6. ASSUME NEW b \in ArrayId, NEW n \in Prio
      PROVE  ListInOrder(d, tk2, b, n)
  <2>1. ListInOrder(lists, tk, b, n)
    BY <1>1
  <2>2. \A s \in Task : OnList(u[b].queue[n], s) <=> OnList(lists[b].queue[n], s) /\ s # p
    BY <1>3, <2>1, WithoutFacts DEF ListInOrder
  <2>3. \A s \in Task : OnList(u[b].queue[n], s) <=>
                            tk2[s].array = b /\ tk2[s].prio = n /\ s # p
    BY <2>1, <2>2 DEF ListInOrder, SameBut
  <2>4. CASE b = a /\ n = r
    <3>1. list # << >>
      BY EmptyList
    <3>2. \A s \in Task : OnList(list, s) <=> tk2[s].array = a /\ tk2[s].prio = r
      BY <2>3, <2>4 DEF u
    <3> QED
      BY <1>5, <2>4, <3>1, <3>2 DEF ListInOrder
  <2>5. CASE ~(b = a /\ n = r)
    <3>1. d[b].queue[n] = u[b].queue[n]
      BY <1>5, <2>5
    <3>2. NoRepeat(u[b].queue[n])
      BY <1>3, <2>1, WithoutFacts DEF ListInOrder
    <3>3. \A s \in Task : OnList(u[b].queue[n], s) <=> tk2[s].array = b /\ tk2[s].prio = n
      BY <2>3, <2>5
    <3>4. n \in d[b].bitmap <=> u[b].queue[n] # << >>
      <4>1. CASE b = a /\ n = q
        BY <1>4, <1>5, <2>5, <4>1
      <4>2. CASE ~(b = a /\ n = q)
        <5>1. ~OnList(lists[b].queue[n], p)
          BY <2>1, <4>2 DEF ListInOrder
        <5>2. u[b].queue[n] = lists[b].queue[n]
          BY <1>3, <5>1, WithoutAbsent
        <5>3. n \in d[b].bitmap <=> n \in lists[b].bitmap
          BY <1>3, <1>5, <2>5, <4>2
        <5> QED
          BY <2>1, <5>2, <5>3 DEF ListInOrder
      <4> QED
        BY <4>1, <4>2
    <3> QED
      BY <3>1, <3>2, <3>3, <3>4 DEF ListInOrder
  <2> QED
    BY <2>4, <2>5
<1>7. ASSUME NEW b \in ArrayId
      PROVE  d[b].nr_active = Cardinality(InArray(tk2, b))
  <2>1. d[b].nr_active = lists[b].nr_active
    BY <1>3, <1>5
  <2>2. InArray(tk2, b) = InArray(tk, b)
    BY DEF InArray, SameBut
  <2> QED
    BY <1>1, <2>1, <2>2
<1> QED
  BY <1>6, <1>7 DEF InOrder, d, u

\* Arrays in order have the properties that QueuesInOrder names.
LEMMA InOrderMeans ==
    ASSUME NEW lists \in PrioArrays, NEW tk, InOrder(lists, tk),
           \A p \in Task : tk[p].prio \in Prio
    PROVE  /\ RedundancyExact(lists)
           /\ NoTaskTwice(lists)
           /\ \A p \in Task : tk[p].array \notin ArrayId => ~OnAnyList(lists, p)
<1>1. \A b \in ArrayId : /\ \A r \in Prio : ListInOrder(lists, tk, b, r)
                         /\ lists[b].nr_active = Cardinality(InArray(tk, b))
  BY DEF InOrder
<1>2. \A b \in ArrayId, r \in Prio : lists[b].queue[r] \in Seq(Task)
  BY DEF PrioArrays
<1>3. ASSUME NEW a \in ArrayId
      PROVE  Members(lists, a) = InArray(tk, a)
  <2>1. ASSUME NEW p \in InArray(tk, a)
        PROVE  p \in Members(lists, a)
    <3>1. p \in Task /\ tk[p].array = a /\ tk[p].prio \in Prio
      BY DEF InArray
    <3>2. OnList(lists[a].queue[tk[p].prio], p)
      BY <1>1, <3>1 DEF ListInOrder
    <3>3. p \in Listed(lists, a, tk[p].prio)
      BY <3>2 DEF OnList, Listed
    <3> QED
      BY <3>1, <3>3 DEF Members
  <2>2. ASSUME NEW p \in Members(lists, a)
        PROVE  p \in InArray(tk, a)
    <3>1. PICK q \in Prio : p \in Listed(lists, a, q)
      BY DEF Members
    <3>2. PICK i \in DOMAIN lists[a].queue[q] : lists[a].queue[q][i] = p
      BY <3>1 DEF Listed
    <3>3. p \in Task
      <4>1. lists[a].queue[q] \in Seq(Task)
        BY <1>2
      <4> QED
        BY <3>2, <4>1
    <3>4. OnList(lists[a].queue[q], p)
      BY <3>2 DEF OnList
    <3> QED
      BY <1>1, <3>3, <3>4 DEF ListInOrder, InArray
  <2> QED
    BY <2>1, <2>2
<1>4. RedundancyExact(lists)
  BY <1>1, <1>3 DEF RedundancyExact, ListInOrder
<1>5. NoTaskTwice(lists)
  <2> SUFFICES ASSUME NEW a \in ArrayId, NEW b \in ArrayId, NEW q \in Prio, NEW r \in Prio,
                      NEW i \in DOMAIN lists[a].queue[q], NEW j \in DOMAIN lists[b].queue[r],
                      lists[a].queue[q][i] = lists[b].queue[r][j]
               PROVE  <<a, q, i>> = <<b, r, j>>
    BY DEF NoTaskTwice
  <2> DEFINE p == lists[a].queue[q][i]
  <2>1. p \in Task
    BY <1>2
  <2>2. OnList(lists[a].queue[q], p) /\ OnList(lists[b].queue[r], p)
    BY DEF OnList
  <2>3. a = b /\ q = r
    BY <1>1, <2>1, <2>2 DEF ListInOrder
  <2>4. NoRepeat(lists[a].queue[q])
    BY <1>1 DEF ListInOrder
  <2>5. i = j
    BY <2>3, <2>4 DEF NoRepeat
  <2> QED
    BY <2>3, <2>5
<1>6. ASSUME NEW p \in Task, tk[p].array \notin ArrayId
      PROVE  ~OnAnyList(lists, p)
  BY <1>1, <1>6 DEF ListInOrder, OnAnyList
<1> QED
  BY <1>4, <1>5, <1>6
-----------------------------------------------------------------------------
(* The arithmetic of the slices                                            *)

\* Jiffies(ms) is a natural number, and the conversion never rounds up.
LEMMA JiffiesBounds ==
    ASSUME NEW ms \in Nat
    PROVE  /\ Jiffies(ms) \in Nat
           /\ 1000 * Jiffies(ms) <= ms * HZ
           /\ ms * HZ < 1000 * Jiffies(ms) + 1000
<1> DEFINE n == ms * HZ
<1>1. n \in Nat
  BY HZAssumption
<1> HIDE DEF n
<1>2. /\ n \div 1000 \in Nat
      /\ 1000 * (n \div 1000) <= n
      /\ n < 1000 * (n \div 1000) + 1000
  BY <1>1
<1> QED
  BY <1>2 DEF Jiffies, n

\* Millis(jiffies) never rounds up either.
LEMMA MillisBounds ==
    ASSUME NEW jiffies \in Nat
    PROVE  /\ Millis(jiffies) \in Nat
           /\ HZ * Millis(jiffies) <= 1000 * jiffies
<1> DEFINE n == jiffies * 1000
<1>1. n \in Nat
  OBVIOUS
<1> HIDE DEF n
<1>2. n \div HZ \in Nat /\ HZ * (n \div HZ) <= n
  BY <1>1, HZAssumption
<1> QED
  BY <1>2 DEF Millis, n

\* A product of natural numbers grows with its first factor.
LEMMA ProductMonotone ==
    ASSUME NEW a \in Nat, NEW b \in Nat, NEW c \in Nat, a <= b
    PROVE  a * c <= b * c
<1>1. (b - a) * c >= 0
  OBVIOUS
<1>2. (b - a) * c = b * c - a * c
  OBVIOUS
<1> QED
  BY <1>1, <1>2

\* setscheduler on a SHORT process: a request that passes the test leaves no
\* negative number of jiffies, so the unsigned slice does not wrap.
THEOREM ResizeNeverNegative ==
    ASSUME NEW request \in Nat, NEW requested_time \in Nat, NEW time_slice \in Nat,
           ResizeAccepted(request, requested_time, time_slice)
    PROVE  Jiffies(request) - (Jiffies(requested_time) - time_slice) \in Nat
<1> DEFINE m == Millis(time_slice)
           a == Jiffies(request)
           b == Jiffies(requested_time)
<1>1. m \in Nat /\ HZ * m <= 1000 * time_slice
  BY MillisBounds
<1>2. a \in Nat /\ request * HZ < 1000 * a + 1000
  BY JiffiesBounds
<1>3. b \in Nat /\ 1000 * b <= requested_time * HZ
  BY JiffiesBounds
<1>4. requested_time <= request + m
  BY <1>1 DEF ResizeAccepted
<1>5. requested_time * HZ <= (request + m) * HZ
  BY <1>1, <1>4, ProductMonotone, HZAssumption
<1>6. (request + m) * HZ = request * HZ + HZ * m
  BY <1>1, HZAssumption
<1> HIDE DEF a, b, m
<1> DEFINE x == request * HZ
           y == HZ * m
           z == requested_time * HZ
<1>7. x \in Nat /\ y \in Nat /\ z \in Nat
  BY <1>1, HZAssumption
<1>8. z <= x + y /\ y <= 1000 * time_slice /\ x < 1000 * a + 1000 /\ 1000 * b <= z
  BY <1>1, <1>2, <1>3, <1>5, <1>6
<1> HIDE DEF x, y, z
<1>9. 1000 * b < 1000 * a + 1000 + 1000 * time_slice
  BY <1>2, <1>3, <1>7, <1>8
<1>10. b <= a + time_slice
  BY <1>2, <1>3, <1>9
<1> QED
  BY <1>2, <1>3, <1>10 DEF a, b

\* Every slice that the scheduler computes is a natural number.
LEMMA SliceTypes ==
    ASSUME NEW n \in Nat
    PROVE  /\ AtLeastOne(n) \in Nat /\ AtLeastOne(n) > 0
           /\ ShortSlice(n) \in Nat /\ ShortSlice(n) > 0
           /\ OverdueSlice(n) \in Nat
           /\ ForkChildSlice(n) \in Nat /\ ForkParentSlice(n) \in Nat
           /\ Decremented(n) \in Nat
<1>1. \A j \in Nat : AtLeastOne(j) \in Nat /\ AtLeastOne(j) > 0
  BY DEF AtLeastOne
<1>2. Jiffies(n) \in Nat
  BY JiffiesBounds
<1>3. 2 * n \in Nat
  OBVIOUS
<1>4. Jiffies(2 * n) \in Nat
  BY <1>3, JiffiesBounds
<1>5. ForkChildSlice(n) \in Nat /\ ForkParentSlice(n) \in Nat
  BY DEF ForkChildSlice, ForkParentSlice
<1>6. Decremented(n) \in Nat
  BY WordAssumption DEF Decremented
<1> QED
  BY <1>1, <1>2, <1>4, <1>5, <1>6 DEF ShortSlice, OverdueSlice

LEMMA ReturnedSliceType ==
    ASSUME NEW n \in Nat, NEW k \in Nat
    PROVE  /\ ReturnedSlice(n, k) \in Nat
           /\ n > 0 => ReturnedSlice(n, k) > 0
BY TimesliceAssumption DEF ReturnedSlice

\* With at least 500 ticks per second, twice a request of one millisecond is a
\* whole jiffy: the overdue slice is never empty.
LEMMA OverdueSlicePositive ==
    ASSUME NEW n \in Nat \ {0}, HZ >= 500
    PROVE  OverdueSlice(n) > 0
<1> DEFINE ms == 2 * n
<1>1. ms \in Nat /\ 2 <= ms
  OBVIOUS
<1> HIDE DEF ms
<1>2. 2 * HZ <= ms * HZ
  BY <1>1, ProductMonotone, HZAssumption
<1>3. Jiffies(ms) \in Nat /\ ms * HZ < 1000 * Jiffies(ms) + 1000
  BY <1>1, JiffiesBounds
<1> DEFINE x == ms * HZ
           j == Jiffies(ms)
<1>4. x \in Nat /\ 1000 <= x
  BY <1>1, <1>2, HZAssumption
<1>5. j \in Nat /\ x < 1000 * j + 1000
  BY <1>3
<1> HIDE DEF x, j
<1>6. j > 0
  BY <1>4, <1>5
<1> QED
  BY <1>6 DEF OverdueSlice, ms, j

\* Sharing a slice that is not empty leaves the child one that is not empty.
LEMMA ForkChildSlicePositive ==
    ASSUME NEW n \in Nat, n > 0
    PROVE  ForkChildSlice(n) > 0
BY DEF ForkChildSlice
-----------------------------------------------------------------------------
LEMMA TaskUpdate ==
    ASSUME task \in [Task -> TaskRecord], NEW p \in Task, NEW tp \in TaskRecord
    PROVE  [task EXCEPT ![p] = tp] \in [Task -> TaskRecord]
OBVIOUS

LEMMA TwoTaskUpdates ==
    ASSUME task \in [Task -> TaskRecord], NEW p \in Task, NEW q \in Task,
           NEW tp \in TaskRecord, NEW tq \in TaskRecord
    PROVE  [task EXCEPT ![p] = tp, ![q] = tq] \in [Task -> TaskRecord]
OBVIOUS

LEMMA TimesliceType ==
    ASSUME NEW static_prio \in UserPrio
    PROVE  TASK_TIMESLICE(static_prio) \in Nat /\ TASK_TIMESLICE(static_prio) > 0
<1> DEFINE x == (MAX_TIMESLICE - MIN_TIMESLICE) * (MAX_PRIO - 1 - static_prio)
<1>1. x \in Nat
  <2>1. MAX_TIMESLICE - MIN_TIMESLICE \in Nat
    BY TimesliceAssumption
  <2>2. MAX_PRIO - 1 - static_prio \in Nat
    BY PrioAssumption DEF UserPrio
  <2> QED
    BY <2>1, <2>2
<1> HIDE DEF x
<1>2. x \div NICE_RANGE \in Nat
  BY <1>1, BonusAssumption
<1> QED
  BY <1>2, TimesliceAssumption DEF TASK_TIMESLICE, x

LEMMA EffectivePrioType ==
    ASSUME NEW tp \in TaskRecord, NEW prio \in EffectivePrios(tp)
    PROVE  prio \in UserPrio /\ prio \in Prio
<1>1. tp.static_prio \in UserPrio
  BY DEF TaskRecord
<1> QED
  BY <1>1, PrioAssumption, BonusAssumption DEF EffectivePrios, Clamped, UserPrio, Prio

\* activate_task gives the task a priority and puts it on an array.
LEMMA ActivateType ==
    ASSUME TypeOK, NEW p \in Task, NEW tp \in TaskRecord, NEW from \in PrioArrays,
           Activate(p, tp, from)
    PROVE  task' \in [Task -> TaskRecord] /\ arrays' \in PrioArrays
<1>1. ActivateArray(tp) \in ArrayId
  BY DEF ActivateArray, ArrayId, TypeOK
<1>2. PICK prio \in ActivatePrios(tp) :
        /\ task' = [task EXCEPT ![p] = [tp EXCEPT !.prio = prio,
                                                  !.array = ActivateArray(tp)]]
        /\ arrays' = Enqueue(from, ActivateArray(tp), prio, p)
  BY DEF Activate
<1>3. prio \in Prio
  <2>1. tp.prio \in Prio
    BY DEF TaskRecord
  <2> QED
    BY <2>1, EffectivePrioType DEF ActivatePrios
<1>4. [tp EXCEPT !.prio = prio, !.array = ActivateArray(tp)] \in TaskRecord
  BY <1>1, <1>3 DEF TaskRecord
<1> QED
  BY <1>1, <1>2, <1>3, <1>4, EnqueueType, TaskUpdate DEF TypeOK

LEMMA RequeueType ==
    ASSUME TypeOK, NEW p \in Task, NEW tp \in TaskRecord, NEW from, NEW to \in ArrayId,
           Requeue(p, from, to, tp)
    PROVE  task' \in [Task -> TaskRecord] /\ arrays' \in PrioArrays
<1>1. [tp EXCEPT !.array = to] \in TaskRecord
  BY DEF TaskRecord
<1>2. Dequeue(arrays, from, task[p].prio, p) \in PrioArrays
  BY DequeueType DEF TypeOK
<1>3. tp.prio \in Prio
  BY DEF TaskRecord
<1> QED
  BY <1>1, <1>2, <1>3, EnqueueType, TaskUpdate DEF Requeue, TypeOK
-----------------------------------------------------------------------------
(* Type correctness                                                        *)

LEMMA GotoType ==
    ASSUME TypeOK, NEW t \in Task, NEW to \in Pc, Goto(t, to)
    PROVE  pc' \in [Task -> Pc]
BY DEF TypeOK, Goto

LEMMA NeedReschedType ==
    ASSUME TypeOK, NEW b \in BOOLEAN, NEW t,
           need_resched' = [need_resched EXCEPT ![t] = b]
    PROVE  need_resched' \in [Task \cup {Idle} -> BOOLEAN]
BY DEF TypeOK

LEMMA ReturnType ==
    ASSUME TypeOK, ReturnFromInterrupt
    PROVE  pc' \in [Task -> Pc]
BY DEF TypeOK, ReturnFromInterrupt, Pc

LEMMA TickFields ==
    ASSUME TypeOK, NEW p \in Task
    PROVE  TickedDown(p) \in TaskRecord /\ Refilled(p) \in TaskRecord
<1>1. task[p] \in TaskRecord /\ task[p].time_slice \in Nat /\ task[p].static_prio \in UserPrio
  BY DEF TypeOK, TaskRecord
<1>2. Decremented(task[p].time_slice) \in Nat /\ TASK_TIMESLICE(task[p].static_prio) \in Nat
  BY <1>1, SliceTypes, TimesliceType
<1> QED
  BY <1>1, <1>2 DEF TickedDown, Refilled, TaskRecord

LEMMA schedulerTickType ==
    ASSUME TypeOK, NEW p \in Task, scheduler_tick(p)
    PROVE  /\ task' \in [Task -> TaskRecord] /\ arrays' \in PrioArrays
           /\ need_resched' \in [Task \cup {Idle} -> BOOLEAN]
           /\ UNCHANGED <<active, nr_running, nr_uninterruptible, curr>>
<1>1. UNCHANGED <<active, nr_running, nr_uninterruptible, curr>>
  BY DEF scheduler_tick
<1>2. need_resched' \in [Task \cup {Idle} -> BOOLEAN]
  BY NeedReschedType DEF TypeOK, scheduler_tick, SetNeedResched, TickExpired, TickRealTime,
       TickRunning, TickEndsRegular, TickEndsShort, TickEndsOverdue
<1>3. /\ TickedDown(p) \in TaskRecord /\ Refilled(p) \in TaskRecord
      /\ task[p] \in TaskRecord /\ task[p].requested_time \in Nat
  BY TickFields DEF TypeOK, TaskRecord
<1>4. active \in ArrayId /\ Expired \in ArrayId /\ "overdue" \in ArrayId
  BY DEF TypeOK, Expired, ArrayId
<1>5. task' \in [Task -> TaskRecord] /\ arrays' \in PrioArrays
  <2>1. CASE TickExpired(p)
    BY <2>1 DEF TypeOK, TickExpired
  <2>2. CASE TickRealTime(p)
    <3>1. CASE Requeue(p, active, active, Refilled(p))
      BY <3>1, <1>3, <1>4, RequeueType
    <3>2. CASE task' = [task EXCEPT ![p] = TickedDown(p)] /\ UNCHANGED arrays
      BY <3>2, <1>3, TaskUpdate DEF TypeOK
    <3>3. CASE UNCHANGED <<task, arrays>>
      BY <3>3 DEF TypeOK
    <3> QED
      BY <2>2, <3>1, <3>2, <3>3 DEF TickRealTime
  <2>3. CASE TickRunning(p)
    BY <2>3, <1>3, TaskUpdate DEF TypeOK, TickRunning
  <2>4. CASE TickEndsRegular(p)
    <3>1. PICK prio \in EffectivePrios(task[p]), to \in {active, Expired} :
            Requeue(p, active, to, [Refilled(p) EXCEPT !.prio = prio])
      BY <2>4 DEF TickEndsRegular
    <3>2. [Refilled(p) EXCEPT !.prio = prio] \in TaskRecord
      BY <1>3, EffectivePrioType DEF TaskRecord
    <3> QED
      BY <3>1, <3>2, <1>4, RequeueType
  <2>5. CASE TickEndsShort(p)
    <3>1. OverdueSlice(task[p].requested_time) \in Nat /\ MAX_PRIO - 1 \in Prio
      BY <1>3, SliceTypes, PrioAssumption DEF Prio
    <3>2. [task[p] EXCEPT !.prio = MAX_PRIO - 1, !.is_short = -1,
                          !.time_slice = OverdueSlice(task[p].requested_time),
                          !.first_time_slice = FALSE] \in TaskRecord
      BY <1>3, <3>1 DEF TaskRecord
    <3> QED
      BY <2>5, <3>2, <1>4, RequeueType DEF TickEndsShort
  <2>6. CASE TickEndsOverdue(p)
    <3>1. PICK prio \in EffectivePrios(task[p]) :
            Requeue(p, task[p].array, active,
                    [Refilled(p) EXCEPT !.policy = "OTHER", !.prio = prio])
      BY <2>6 DEF TickEndsOverdue
    <3>2. [Refilled(p) EXCEPT !.policy = "OTHER", !.prio = prio] \in TaskRecord
      BY <1>3, EffectivePrioType DEF TaskRecord, Policy
    <3> QED
      BY <3>1, <3>2, <1>4, RequeueType
  <2> QED
    BY <2>1, <2>2, <2>3, <2>4, <2>5, <2>6 DEF scheduler_tick
<1> QED
  BY <1>1, <1>2, <1>5

LEMMA ScheduleType ==
    ASSUME TypeOK, schedule
    PROVE  TypeOK'
<1>1. curr \in Task \/ curr = Idle
  BY DEF schedule, MustSchedule
<1>2. /\ task' \in [Task -> TaskRecord] /\ arrays' \in PrioArrays
      /\ nr_running' \in Int /\ nr_uninterruptible' \in Int
  <2>1. CASE TRUE \in MayLeave /\ LeaveCpu
    <3>1. curr \in Task
      BY <1>1, <2>1 DEF MayLeave
    <3>2. [task[curr] EXCEPT !.array = NULL] \in TaskRecord
      BY <3>1 DEF TypeOK, TaskRecord
    <3>3. task' = [task EXCEPT ![curr] = [task[curr] EXCEPT !.array = NULL]]
      BY <2>1 DEF LeaveCpu
    <3> QED
      BY <2>1, <3>1, <3>2, <3>3, DequeueType, TaskUpdate DEF TypeOK, LeaveCpu
  <2>2. CASE FALSE \in MayLeave /\ StayRunnable
    <3>1. CASE curr = Idle
      BY <2>2, <3>1 DEF TypeOK, StayRunnable
    <3>2. CASE curr \in Task
      <4>1. [task[curr] EXCEPT !.state = "RUNNING"] \in TaskRecord
        BY <3>2 DEF TypeOK, TaskRecord, TaskState
      <4>2. task' = [task EXCEPT ![curr] = [task[curr] EXCEPT !.state = "RUNNING"]]
        BY <2>2, <3>2, InitAssumption DEF StayRunnable
      <4> QED
        BY <2>2, <3>2, <4>1, <4>2, TaskUpdate DEF TypeOK, StayRunnable
    <3> QED
      BY <1>1, <3>1, <3>2
  <2> QED
    BY <2>1, <2>2 DEF schedule
<1>3. curr' \in Task \cup {Idle, WILD} /\ active' \in {"array0", "array1"}
  <2>1. PickNext(arrays', nr_running')
    BY DEF schedule
  <2> QED
    BY <2>1 DEF PickNext, TypeOK, Expired
<1>4. pc' \in [Task -> Pc] /\ child' \in [Task -> Task]
  BY DEF schedule, TypeOK, Pc
<1>5. need_resched' \in [Task \cup {Idle} -> BOOLEAN]
  BY NeedReschedType DEF schedule
<1> QED
  BY <1>2, <1>3, <1>4, <1>5 DEF TypeOK

LEMMA WakeType ==
    ASSUME TypeOK, NEW p \in Task, try_to_wake_up(p)
    PROVE  TypeOK'
<1>1. pc' \in [Task -> Pc]
  BY ReturnType DEF try_to_wake_up
<1>2. [task[p] EXCEPT !.state = "RUNNING"] \in TaskRecord
  BY DEF TypeOK, TaskRecord, TaskState
<1>3. CASE task[p].array = NULL
  <2>1. task' \in [Task -> TaskRecord] /\ arrays' \in PrioArrays
    BY <1>2, <1>3, ActivateType DEF try_to_wake_up, TypeOK
  <2>2. need_resched' \in [Task \cup {Idle} -> BOOLEAN]
    BY <1>3, NeedReschedType DEF try_to_wake_up, TypeOK, SetNeedResched
  <2>3. nr_running' \in Int /\ nr_uninterruptible' \in Int
    BY <1>3 DEF try_to_wake_up, TypeOK
  <2>4. UNCHANGED <<child, active, curr>>
    BY DEF try_to_wake_up
  <2> QED
    BY <1>1, <2>1, <2>2, <2>3, <2>4 DEF TypeOK
<1>4. CASE task[p].array # NULL
  <2>1. task' = [task EXCEPT ![p] = [task[p] EXCEPT !.state = "RUNNING"]]
    BY <1>4 DEF try_to_wake_up
  <2> QED
    BY <1>1, <1>2, <1>4, <2>1, TaskUpdate DEF try_to_wake_up, TypeOK
<1> QED
  BY <1>3, <1>4

LEMMA ReactivateType ==
    ASSUME TypeOK, NEW p \in Task, NEW tp \in TaskRecord, Reactivate(p, tp)
    PROVE  /\ task' \in [Task -> TaskRecord] /\ arrays' \in PrioArrays
           /\ nr_uninterruptible' \in Int
           /\ UNCHANGED <<active, nr_running, child, curr>>
<1>1. CASE task[p].array = NULL
  BY <1>1, TaskUpdate DEF Reactivate, TypeOK
<1>2. CASE task[p].array # NULL
  <2>1. Dequeue(arrays, task[p].array, task[p].prio, p) \in PrioArrays
    BY DequeueType DEF TypeOK
  <2>2. nr_uninterruptible' \in Int
    BY <1>2 DEF Reactivate, TypeOK
  <2> QED
    BY <1>2, <2>1, <2>2, ActivateType DEF Reactivate
<1> QED
  BY <1>1, <1>2

LEMMA PolicyCallsType ==
    ASSUME TypeOK, NEW t \in Task, NEW p \in Task,
           \/ \E request \in Requests : BecomeShort(t, p, request) \/ ResizeShort(t, p, request)
           \/ SetOther(t, p)
           \/ \E policy \in {"FIFO", "RR"}, sched_priority \in RtPriorities :
                  SetRealTime(t, p, policy, sched_priority)
    PROVE  TypeOK'
<1> DEFINE Good(tp) == tp \in TaskRecord /\ Reactivate(p, tp)
<1>1. task[p] \in TaskRecord /\ task[p].static_prio \in Prio
      /\ task[p].requested_time \in Nat /\ task[p].time_slice \in Nat
  BY PrioAssumption DEF TypeOK, TaskRecord, UserPrio, Prio
<1>2. /\ \E tp : Good(tp)
      /\ pc' \in [Task -> Pc] /\ need_resched' \in [Task \cup {Idle} -> BOOLEAN]
  <2>1. ASSUME NEW request \in Requests, BecomeShort(t, p, request)
        PROVE  (\E tp : Good(tp)) /\ pc' \in [Task -> Pc] /\ need_resched' \in [Task \cup {Idle} -> BOOLEAN]
    <3> DEFINE tp == [task[p] EXCEPT !.policy = "SHORT", !.is_short = 1,
                                     !.requested_time = AtLeastOne(request),
                                     !.time_slice = ShortSlice(request),
                                     !.prio = task[p].static_prio]
    <3>1. request \in Nat
      BY InputAssumption
    <3>2. AtLeastOne(request) \in Nat /\ ShortSlice(request) \in Nat
      BY <3>1, SliceTypes
    <3>3. tp \in TaskRecord
      BY <1>1, <3>2 DEF TaskRecord, Policy
    <3>4. Reactivate(p, tp)
      BY <2>1 DEF BecomeShort
    <3> HIDE DEF tp
    <3>5. pc' \in [Task -> Pc] /\ need_resched' \in [Task \cup {Idle} -> BOOLEAN]
      BY <2>1, GotoType, NeedReschedType DEF BecomeShort, SetNeedResched, Pc
    <3> QED
      BY <3>3, <3>4, <3>5
  <2>2. ASSUME NEW request \in Requests, ResizeShort(t, p, request)
        PROVE  (\E tp : Good(tp)) /\ pc' \in [Task -> Pc] /\ need_resched' \in [Task \cup {Idle} -> BOOLEAN]
    <3> DEFINE slice == ResizedSlice(request, task[p].requested_time, task[p].time_slice)
               tp == [task[p] EXCEPT !.requested_time = AtLeastOne(request),
                                     !.time_slice = slice, !.prio = task[p].static_prio]
    <3>1. request \in Nat
      BY InputAssumption
    <3>2. AtLeastOne(request) \in Nat
      BY <3>1, SliceTypes
    <3>3. slice \in Nat
      <4>1. Jiffies(request) - (Jiffies(task[p].requested_time) - task[p].time_slice) \in Nat
        BY <1>1, <2>2, <3>1, ResizeNeverNegative DEF ResizeShort
      <4> QED
        BY <4>1, SliceTypes DEF ResizedSlice
    <3>4. Reactivate(p, tp)
      BY <2>2 DEF ResizeShort
    <3> HIDE DEF slice
    <3>5. tp \in TaskRecord
      BY <1>1, <3>2, <3>3 DEF TaskRecord
    <3> HIDE DEF tp
    <3>6. pc' \in [Task -> Pc] /\ need_resched' \in [Task \cup {Idle} -> BOOLEAN]
      BY <2>2, GotoType DEF ResizeShort, Pc, TypeOK
    <3> QED
      BY <3>4, <3>5, <3>6
  <2>3. ASSUME SetOther(t, p)
        PROVE  (\E tp : Good(tp)) /\ pc' \in [Task -> Pc] /\ need_resched' \in [Task \cup {Idle} -> BOOLEAN]
    <3>1. [task[p] EXCEPT !.policy = "OTHER", !.prio = task[p].static_prio] \in TaskRecord
      BY <1>1 DEF TaskRecord, Policy
    <3>2. pc' \in [Task -> Pc] /\ need_resched' \in [Task \cup {Idle} -> BOOLEAN]
      BY <2>3, GotoType DEF SetOther, Pc, TypeOK
    <3> QED
      BY <2>3, <3>1, <3>2 DEF SetOther
  <2>4. ASSUME NEW policy \in {"FIFO", "RR"}, NEW sched_priority \in RtPriorities,
               SetRealTime(t, p, policy, sched_priority)
        PROVE  (\E tp : Good(tp)) /\ pc' \in [Task -> Pc] /\ need_resched' \in [Task \cup {Idle} -> BOOLEAN]
    <3>1. MAX_RT_PRIO - 1 - sched_priority \in Prio /\ policy \in Policy
      BY PrioAssumption, InputAssumption DEF Prio, Policy
    <3>2. [task[p] EXCEPT !.policy = policy, !.prio = MAX_RT_PRIO - 1 - sched_priority]
            \in TaskRecord
      BY <1>1, <3>1 DEF TaskRecord
    <3>3. pc' \in [Task -> Pc] /\ need_resched' \in [Task \cup {Idle} -> BOOLEAN]
      BY <2>4, GotoType DEF SetRealTime, Pc, TypeOK
    <3> QED
      BY <2>4, <3>2, <3>3 DEF SetRealTime
  <2> QED
    BY <2>1, <2>2, <2>3, <2>4
<1>3. PICK tp : Good(tp)
  BY <1>2
<1>4. /\ task' \in [Task -> TaskRecord] /\ arrays' \in PrioArrays
      /\ nr_uninterruptible' \in Int
      /\ UNCHANGED <<active, nr_running, child, curr>>
  BY <1>3, ReactivateType
<1> QED
  BY <1>2, <1>4 DEF TypeOK

LEMMA NiceType ==
    ASSUME TypeOK, NEW t \in Task, NEW p \in Task, NEW nice \in Nices, set_user_nice(t, p, nice)
    PROVE  TypeOK'
<1> DEFINE old == task[p]
           new == [old EXCEPT !.static_prio = nice,
                              !.prio = IF old.is_short = -1 /\ old.policy = "SHORT"
                                       THEN @ ELSE nice]
<1>1. old \in TaskRecord
  BY DEF TypeOK
<1>2. nice \in UserPrio /\ nice \in Prio
  BY InputAssumption, PrioAssumption DEF UserPrio, Prio
<1>3. new \in TaskRecord /\ [old EXCEPT !.static_prio = nice] \in TaskRecord
  BY <1>1, <1>2 DEF TaskRecord
<1>4. UNCHANGED <<child, active, nr_running, nr_uninterruptible, curr>>
  BY DEF set_user_nice
<1>5. pc' \in [Task -> Pc]
  BY GotoType DEF set_user_nice, Pc
<1>6. need_resched' \in [Task \cup {Idle} -> BOOLEAN]
  BY NeedReschedType DEF set_user_nice, SetNeedResched, TypeOK
<1>7. task' \in [Task -> TaskRecord] /\ arrays' \in PrioArrays
  <2>1. CASE IsRt(old) \/ old.array = NULL
    BY <2>1, <1>3, TaskUpdate DEF set_user_nice, TypeOK
  <2>2. CASE ~(IsRt(old) \/ old.array = NULL)
    <3>1. Requeue(p, old.array, old.array, new)
      BY <2>2 DEF set_user_nice
    <3>2. old.array \in ArrayId
      BY <1>1, <2>2 DEF TaskRecord
    <3> HIDE DEF new
    <3> QED
      BY <1>3, <3>1, <3>2, RequeueType
  <2> QED
    BY <2>1, <2>2
<1> QED
  BY <1>4, <1>5, <1>6, <1>7 DEF TypeOK

LEMMA AfterFirstType ==
    ASSUME NEW s \in Seq(Task), NEW p \in Task
    PROVE  AfterFirst(s, p) \in Seq(Task)
<1>1. CASE s = << >>
  BY <1>1 DEF AfterFirst
<1>2. CASE s # << >>
  <2>1. Head(s) \in Task /\ Tail(s) \in Seq(Task)
    BY <1>2, HeadTailProperties
  <2>2. <<Head(s), p>> \in Seq(Task)
    BY <2>1
  <2> QED
    BY <1>2, <2>1, <2>2, ConcatProperties DEF AfterFirst
<1> QED
  BY <1>1, <1>2

LEMMA YieldType ==
    ASSUME TypeOK, NEW t \in Task, sys_sched_yield(t)
    PROVE  TypeOK'
<1> DEFINE a == task[t].array
           prio == task[t].prio
           unlinked == Unlinked(arrays, t)
<1>1. task[t] \in TaskRecord /\ prio \in Prio
  BY DEF TypeOK, TaskRecord
<1>2. unlinked \in PrioArrays
  BY UnlinkedType DEF TypeOK
<1>3. UNCHANGED <<need_resched, child, active, nr_running, nr_uninterruptible, curr>>
  BY DEF sys_sched_yield
<1>4. pc' \in [Task -> Pc]
  BY GotoType DEF sys_sched_yield, Pc
<1> HIDE DEF unlinked
<1>5. ASSUME NEW q \in Prio
      PROVE  /\ SetList(unlinked, a, q, Append(unlinked[a].queue[q], t)) \in PrioArrays
             /\ SetList(unlinked, a, q, AfterFirst(unlinked[a].queue[q], t)) \in PrioArrays
  <2>1. CASE a \in ArrayId
    <3>1. unlinked[a].queue[q] \in Seq(Task)
      BY <1>2, <2>1 DEF PrioArrays
    <3>2. Append(unlinked[a].queue[q], t) \in Seq(Task)
      BY <3>1
    <3> QED
      BY <1>2, <2>1, <3>1, <3>2, AfterFirstType, SetListType
  <2>2. CASE a \notin ArrayId
    BY <1>2, <2>2, SetListOutside
  <2> QED
    BY <2>1, <2>2
<1>6. task' \in [Task -> TaskRecord] /\ arrays' \in PrioArrays
  <2>1. CASE task[t].policy = "SHORT"
    <3>1. Activate(t, task[t], Dequeue(arrays, a, prio, t))
      BY <2>1 DEF sys_sched_yield
    <3>2. Dequeue(arrays, a, prio, t) \in PrioArrays
      BY DequeueType DEF TypeOK
    <3> QED
      BY <1>1, <3>1, <3>2, ActivateType
  <2>2. CASE /\ UNCHANGED task
             /\ \/ arrays' = SetList(unlinked, a, prio, Append(unlinked[a].queue[prio], t))
                \/ arrays' = SetList(unlinked, a, prio, AfterFirst(unlinked[a].queue[prio], t))
    BY <1>1, <1>5, <2>2 DEF TypeOK
  <2>3. CASE YieldDown(t, unlinked)
    <3> DEFINE bits == arrays[a].bitmap \ {prio}
    <3>1. PICK i \in 0 .. MAX_PRIO :
            /\ IsFirstBit(bits, i)
            /\ LET q == IF i = MAX_PRIO \/ i <= prio THEN prio ELSE i IN
               /\ task' = [task EXCEPT ![t].prio = q]
               /\ arrays' = SetBitmap(SetList(unlinked, a, q,
                                              AfterFirst(unlinked[a].queue[q], t)),
                                      a, bits \cup {q})
      BY <2>3 DEF YieldDown
    <3> DEFINE q == IF i = MAX_PRIO \/ i <= prio THEN prio ELSE i
    <3>2. q \in Prio
      BY <1>1, PrioAssumption DEF Prio
    <3>3. task' = [task EXCEPT ![t] = [task[t] EXCEPT !.prio = q]]
      BY <3>1
    <3>4. arrays' = SetBitmap(SetList(unlinked, a, q, AfterFirst(unlinked[a].queue[q], t)),
                              a, bits \cup {q})
      BY <3>1
    <3> HIDE DEF q
    <3>5. [task[t] EXCEPT !.prio = q] \in TaskRecord
      BY <1>1, <3>2 DEF TaskRecord
    <3>6. arrays' \in PrioArrays
      <4>1. CASE a \in ArrayId
        <5>1. bits \cup {q} \in SUBSET Prio
          BY <3>2, <4>1 DEF TypeOK, PrioArrays
        <5> HIDE DEF bits
        <5> DEFINE lists == SetList(unlinked, a, q, AfterFirst(unlinked[a].queue[q], t))
        <5>2. lists \in PrioArrays
          BY <1>5, <3>2
        <5> HIDE DEF lists
        <5>3. \A b \in SUBSET Prio : SetBitmap(lists, a, b) \in PrioArrays
          BY <4>1, <5>2 DEF SetBitmap, PrioArrays
        <5> QED
          BY <3>4, <5>1, <5>3 DEF lists
      <4>2. CASE a \notin ArrayId
        BY <3>4, <3>2, <1>5, <4>2, SetListOutside
      <4> QED
        BY <4>1, <4>2
    <3> QED
      BY <3>3, <3>5, <3>6, TaskUpdate DEF TypeOK
  <2> QED
    BY <2>1, <2>2, <2>3 DEF sys_sched_yield, unlinked
<1> QED
  BY <1>3, <1>4, <1>6 DEF TypeOK

LEMMA ForkStartType ==
    ASSUME TypeOK, NEW t \in Task,
           \/ \E c \in Task : ForkCopy(t, c)
           \/ ForkFail(t)
           \/ ForkChoose(t)
    PROVE  TypeOK'
<1>1. ASSUME NEW c \in Task, ForkCopy(t, c)
      PROVE  TypeOK'
  <2>1. [task[t] EXCEPT !.state = "UNINTERRUPTIBLE", !.requested_time = 0,
                        !.is_short = 0, !.array = NULL] \in TaskRecord
    <3>1. task[t] \in TaskRecord
      BY DEF TypeOK
    <3> QED
      BY <3>1 DEF TaskRecord, TaskState
  <2>2. task' \in [Task -> TaskRecord]
    BY <1>1, <2>1, TaskUpdate DEF ForkCopy, TypeOK
  <2> QED
    BY <1>1, <2>2 DEF ForkCopy, TypeOK, queues, Pc
<1>2. ASSUME ForkFail(t)
      PROVE  TypeOK'
  <2>1. FreeTask \in TaskRecord
    BY InitAssumption, PrioAssumption
       DEF FreeTask, TaskRecord, Policy, TaskState, UserPrio, Prio
  <2>2. task' \in [Task -> TaskRecord]
    BY <1>2, <2>1, TaskUpdate DEF ForkFail, TypeOK
  <2> QED
    BY <1>2, <2>2 DEF ForkFail, TypeOK, queues, Pc
<1>3. ASSUME ForkChoose(t)
      PROVE  TypeOK'
  BY <1>3, GotoType DEF ForkChoose, TypeOK, queues, Pc
<1> QED
  BY <1>1, <1>2, <1>3

LEMMA ForkShareType ==
    ASSUME TypeOK, NEW t \in Task, ForkShare(t)
    PROVE  TypeOK'
<1> DEFINE c == child[t]
<1>1. /\ task[t] \in TaskRecord /\ c \in Task /\ task[c] \in TaskRecord
      /\ task[t].time_slice \in Nat
  BY DEF TypeOK, TaskRecord
<1>2. ParentFields(task[t]) \in TaskRecord
  <2>1. SliceLeft(task[t]) \in Nat
    BY <1>1, SliceTypes DEF SliceLeft
  <2>2. AtLeastOne(SliceLeft(task[t])) \in Nat
    BY <2>1, SliceTypes
  <2> QED
    BY <1>1, <2>2 DEF ParentFields, TaskRecord
<1>3. ChildFields(task[c], t) \in TaskRecord
  <2>1. ForkChildSlice(task[t].time_slice) \in Nat
    BY <1>1, SliceTypes
  <2> QED
    BY <1>1, <2>1 DEF ChildFields, TaskRecord
<1>4. task' \in [Task -> TaskRecord]
  BY <1>1, <1>2, <1>3, TwoTaskUpdates DEF ForkShare, TypeOK
<1>5. pc' \in [Task -> Pc]
  BY DEF ForkShare, TypeOK, Pc
<1> QED
  BY <1>4, <1>5 DEF ForkShare, TypeOK, queues

LEMMA ForkDoneType ==
    ASSUME TypeOK, NEW t \in Task, ForkDone(t)
    PROVE  /\ need_resched' \in [Task \cup {Idle} -> BOOLEAN]
           /\ pc' \in [Task -> Pc] /\ child' \in [Task -> Task]
           /\ UNCHANGED <<active, nr_uninterruptible, curr>>
BY NeedReschedType DEF ForkDone, SetNeedResched, TypeOK, Pc

LEMMA ForkedPrioType ==
    ASSUME NEW tp \in TaskRecord, NEW prio \in ForkedPrios(tp)
    PROVE  prio \in Prio
<1>1. tp.prio \in Prio
  BY DEF TaskRecord
<1> QED
  BY <1>1, EffectivePrioType DEF ForkedPrios

LEMMA ForkWakeType ==
    ASSUME TypeOK, NEW t \in Task,
           wake_up_forked_process(t) \/ wake_up_short_forked_process(t)
    PROVE  TypeOK'
<1> DEFINE c == child[t]
<1>1. /\ c \in Task /\ task[c] \in TaskRecord /\ task[t] \in TaskRecord
      /\ nr_running \in Int /\ arrays \in PrioArrays
  BY DEF TypeOK
<1>2. CASE wake_up_forked_process(t)
  <2>1. PICK prio \in ForkedPrios(task[c]) :
          Activate(c, [task[c] EXCEPT !.state = "RUNNING", !.prio = prio], arrays)
    BY <1>2 DEF wake_up_forked_process
  <2>2. [task[c] EXCEPT !.state = "RUNNING", !.prio = prio] \in TaskRecord
    <3>1. prio \in Prio
      BY <1>1, ForkedPrioType
    <3> QED
      BY <1>1, <3>1 DEF TaskRecord, TaskState
  <2>3. task' \in [Task -> TaskRecord] /\ arrays' \in PrioArrays
    BY <1>1, <2>1, <2>2, ActivateType
  <2>4. ForkDone(t)
    BY <1>2 DEF wake_up_forked_process
  <2>5. nr_running' = nr_running + 1
    BY <1>2 DEF wake_up_forked_process
  <2> QED
    BY <1>1, <2>3, <2>4, <2>5, ForkDoneType DEF TypeOK
<1>3. CASE wake_up_short_forked_process(t)
  <2> DEFINE father == task[t]
             to == ActivateArray(father)
  <2>1. nr_running' \in Int
    <3>1. nr_running' \in {nr_running, nr_running + 1}
      BY <1>3 DEF wake_up_short_forked_process
    <3> QED
      BY <1>1, <3>1
  <2>2. task' \in [Task -> TaskRecord] /\ arrays' \in PrioArrays
    <3>1. CASE UNCHANGED <<task, arrays>>
      BY <3>1 DEF TypeOK
    <3>2. ASSUME NEW prio \in ForkedPrios(task[c]), NEW fprio \in ActivatePrios(father),
                 task' = [task EXCEPT
                       ![c] = [task[c] EXCEPT !.state = "RUNNING", !.prio = prio,
                                              !.array = "short_active"],
                       ![t] = [father EXCEPT !.prio = fprio, !.array = to]],
                 arrays' = Enqueue(Dequeue(EnqueueHead(arrays, "short_active", prio, c),
                                           father.array, father.prio, t),
                                   to, fprio, t)
          PROVE  task' \in [Task -> TaskRecord] /\ arrays' \in PrioArrays
      <4> DEFINE cp == [task[c] EXCEPT !.state = "RUNNING", !.prio = prio,
                                       !.array = "short_active"]
                 fp == [father EXCEPT !.prio = fprio, !.array = to]
      <4>1. prio \in Prio /\ "short_active" \in ArrayId
        BY <1>1, ForkedPrioType DEF ArrayId
      <4>2. fprio \in Prio
        <5>1. father.prio \in Prio
          BY <1>1 DEF TaskRecord
        <5> QED
          BY <1>1, <5>1, EffectivePrioType DEF ActivatePrios
      <4>3. to \in ArrayId
        BY DEF ActivateArray, ArrayId, TypeOK
      <4> HIDE DEF to
      <4>4. cp \in TaskRecord
        BY <1>1, <4>1 DEF TaskRecord, TaskState
      <4>5. fp \in TaskRecord
        BY <1>1, <4>2, <4>3 DEF TaskRecord
      <4>6. task' = [task EXCEPT ![c] = cp, ![t] = fp]
        BY <3>2
      <4> HIDE DEF cp, fp
      <4>7. task' \in [Task -> TaskRecord]
        BY <1>1, <4>4, <4>5, <4>6, TwoTaskUpdates DEF TypeOK
      <4> DEFINE head == EnqueueHead(arrays, "short_active", prio, c)
      <4>8. head \in PrioArrays
        BY <1>1, <4>1, EnqueueType
      <4> HIDE DEF head
      <4>9. Dequeue(head, father.array, father.prio, t) \in PrioArrays
        BY <4>8, DequeueType
      <4>10. arrays' \in PrioArrays
        BY <3>2, <4>2, <4>3, <4>9, EnqueueType DEF head
      <4> QED
        BY <4>7, <4>10
    <3> QED
      BY <1>3, <3>1, <3>2 DEF wake_up_short_forked_process
  <2> QED
    BY <1>3, <2>1, <2>2, ForkDoneType DEF wake_up_short_forked_process, TypeOK
<1> QED
  BY <1>2, <1>3

LEMMA ExitType ==
    ASSUME TypeOK, NEW t \in Task, do_exit(t)
    PROVE  TypeOK'
<1>1. ASSUME NEW p \in Task
      PROVE  /\ [task[p] EXCEPT !.state = "ZOMBIE"] \in TaskRecord
             /\ [task[p] EXCEPT !.parent = Init1, !.first_time_slice = FALSE] \in TaskRecord
             /\ task[p] \in TaskRecord
  <2>1. task[p] \in TaskRecord
    BY DEF TypeOK
  <2> QED
    BY <2>1, InitAssumption DEF TaskRecord, TaskState
<1>2. task' \in [Task -> TaskRecord]
  BY <1>1 DEF do_exit
<1>3. pc' \in [Task -> Pc]
  BY GotoType DEF do_exit, Pc
<1> QED
  BY <1>2, <1>3 DEF do_exit, TypeOK, queues

LEMMA ReapType ==
    ASSUME TypeOK, NEW t \in Task, NEW c \in Task, release_task(t, c)
    PROVE  TypeOK'
<1> DEFINE slice == IF task[c].first_time_slice
                    THEN ReturnedSlice(task[t].time_slice, task[c].time_slice)
                    ELSE task[t].time_slice
<1>1. /\ task[t] \in TaskRecord
      /\ task[t].time_slice \in Nat /\ task[c].time_slice \in Nat
  BY DEF TypeOK, TaskRecord
<1>2. slice \in Nat
  BY <1>1, ReturnedSliceType
<1>3. FreeTask \in TaskRecord
  BY InitAssumption, PrioAssumption
     DEF FreeTask, TaskRecord, Policy, TaskState, UserPrio, Prio
<1>4. task' = [task EXCEPT ![c] = FreeTask, ![t] = [task[t] EXCEPT !.time_slice = slice]]
  BY DEF release_task
<1> HIDE DEF slice
<1>5. [task[t] EXCEPT !.time_slice = slice] \in TaskRecord
  BY <1>1, <1>2 DEF TaskRecord
<1>6. task' \in [Task -> TaskRecord]
  BY <1>3, <1>4, <1>5, TwoTaskUpdates DEF TypeOK
<1>7. pc' \in [Task -> Pc] /\ need_resched' \in [Task \cup {Idle} -> BOOLEAN]
  BY NeedReschedType DEF release_task, TypeOK, Pc
<1> QED
  BY <1>6, <1>7 DEF release_task, TypeOK, queues

LEMMA SmallStepsType ==
    ASSUME TypeOK, NEW t \in Task,
           \/ SystemCall(t) \/ NoEffect(t) \/ ReturnToUser(t)
           \/ \E state \in SleepStates : SetState(t, state)
    PROVE  TypeOK'
<1>1. CASE SystemCall(t) \/ NoEffect(t) \/ ReturnToUser(t)
  BY <1>1, GotoType DEF SystemCall, NoEffect, ReturnToUser, TypeOK, queues, Pc
<1>2. ASSUME NEW state \in SleepStates, SetState(t, state)
      PROVE  TypeOK'
  <2>1. [task[t] EXCEPT !.state = state] \in TaskRecord
    <3>1. task[t] \in TaskRecord /\ state \in TaskState
      BY InputAssumption DEF TypeOK, TaskState
    <3> QED
      BY <3>1 DEF TaskRecord
  <2>2. task' = [task EXCEPT ![t] = [task[t] EXCEPT !.state = state]]
    BY <1>2 DEF SetState
  <2> QED
    BY <1>2, <2>1, <2>2, TaskUpdate DEF SetState, TypeOK, queues
<1> QED
  BY <1>1, <1>2

LEMMA InitType == Init => TypeOK
<1> SUFFICES ASSUME Init
             PROVE  TypeOK
  OBVIOUS
<1>1. FreeTask \in TaskRecord
  BY InitAssumption, PrioAssumption
     DEF FreeTask, TaskRecord, Policy, TaskState, UserPrio, Prio
<1>2. TASK_TIMESLICE(MAX_RT_PRIO) \in Nat
  BY TimesliceType, PrioAssumption DEF UserPrio
<1>3. [FreeTask EXCEPT !.time_slice = TASK_TIMESLICE(MAX_RT_PRIO),
                       !.state = "RUNNING", !.array = "array0"] \in TaskRecord
  BY <1>1, <1>2 DEF TaskRecord, TaskState, ArrayId
<1>4. task \in [Task -> TaskRecord]
  BY <1>1, <1>3 DEF Init
<1>5. EmptyArray \in [nr_active : Int, bitmap : SUBSET Prio, queue : [Prio -> Seq(Task)]]
  <2>1. << >> \in Seq(Task)
    OBVIOUS
  <2> QED
    BY <2>1 DEF EmptyArray
<1>6. [a \in ArrayId |-> EmptyArray] \in PrioArrays
  BY <1>5 DEF PrioArrays
<1>7. MAX_RT_PRIO \in Prio /\ "array0" \in ArrayId
  BY PrioAssumption DEF Prio, ArrayId
<1>8. arrays \in PrioArrays
  BY <1>6, <1>7, InitAssumption, EnqueueType DEF Init
<1> QED
  BY <1>4, <1>8, InitAssumption DEF Init, TypeOK, Pc

LEMMA NextType == TypeOK /\ [Next]_vars => TypeOK'
<1> SUFFICES ASSUME TypeOK, [Next]_vars
             PROVE  TypeOK'
  OBVIOUS
<1>1. CASE Tick
  BY <1>1, schedulerTickType, ReturnType DEF Tick, TypeOK
<1>2. CASE schedule
  BY <1>2, ScheduleType
<1>3. CASE \E p \in Task : try_to_wake_up(p)
  BY <1>3, WakeType
<1>4. ASSUME NEW t \in Task, TaskStep(t)
      PROVE  TypeOK'
  <2>1. CASE \/ SystemCall(t) \/ NoEffect(t) \/ ReturnToUser(t)
             \/ \E state \in SleepStates : SetState(t, state)
    BY <2>1, SmallStepsType
  <2>2. CASE SchedulerCall(t)
    <3>1. CASE sys_sched_yield(t)
      BY <3>1, YieldType
    <3>2. ASSUME NEW p \in Task, NEW nice \in Nices, set_user_nice(t, p, nice)
          PROVE  TypeOK'
      BY <3>2, NiceType
    <3>3. ASSUME NEW p \in Task,
               \/ \E request \in Requests :
                      BecomeShort(t, p, request) \/ ResizeShort(t, p, request)
               \/ SetOther(t, p)
               \/ \E policy \in {"FIFO", "RR"}, sched_priority \in RtPriorities :
                      SetRealTime(t, p, policy, sched_priority)
          PROVE  TypeOK'
      BY <3>3, PolicyCallsType
    <3> QED
      BY <2>2, <3>1, <3>2, <3>3 DEF SchedulerCall
  <2>3. CASE Fork(t)
    <3>1. CASE ForkTick(t)
      BY <3>1, schedulerTickType, GotoType DEF ForkTick, TypeOK, Pc
    <3> QED
      BY <2>3, <3>1, ForkStartType, ForkShareType, ForkWakeType DEF Fork
  <2>4. CASE do_exit(t)
    BY <2>4, ExitType
  <2>5. CASE \E c \in Task : release_task(t, c)
    BY <2>5, ReapType
  <2> QED
    BY <1>4, <2>1, <2>2, <2>3, <2>4, <2>5 DEF TaskStep
<1>5. CASE UNCHANGED vars
  BY <1>5 DEF vars, queues, TypeOK
<1> QED
  BY <1>1, <1>2, <1>3, <1>4, <1>5 DEF Next

\* Every step of the scheduler keeps the type of its state: in particular no
\* slice that setscheduler, do_fork, sched_exit or the tick computes is negative.
THEOREM TypeCorrect == Spec => []TypeOK
BY InitType, NextType, PTL DEF Spec
-----------------------------------------------------------------------------
(* No slice is ever empty                                                  *)

\* What a task_struct needs for its slice to stay positive: an empty request
\* would make the overdue slice of a SHORT task empty.
HasSlice(tp) ==
    /\ tp.time_slice > 0
    /\ tp.is_short = 1 => tp.requested_time > 0

\* The inductive invariant behind SlicePositive.
SliceInv == \A p \in Task : HasSlice(task[p])

LEMMA SliceUpdate ==
    ASSUME TypeOK, SliceInv, NEW p \in Task, NEW tp \in TaskRecord, HasSlice(tp),
           task' = [task EXCEPT ![p] = tp]
    PROVE  SliceInv'
BY DEF SliceInv, TypeOK

LEMMA SliceTwoUpdates ==
    ASSUME TypeOK, SliceInv, NEW p \in Task, NEW q \in Task, NEW tp, NEW tq,
           HasSlice(tp), HasSlice(tq),
           task' = [task EXCEPT ![p] = tp, ![q] = tq]
    PROVE  SliceInv'
BY DEF SliceInv, TypeOK

\* Moving a task between arrays touches neither its slice nor its request.
LEMMA SliceActivate ==
    ASSUME TypeOK, SliceInv, NEW p \in Task, NEW tp \in TaskRecord, NEW from,
           HasSlice(tp), Activate(p, tp, from)
    PROVE  SliceInv'
<1>1. PICK prio : task' = [task EXCEPT ![p] = [tp EXCEPT !.prio = prio,
                                                        !.array = ActivateArray(tp)]]
  BY DEF Activate
<1>2. HasSlice([tp EXCEPT !.prio = prio, !.array = ActivateArray(tp)])
  BY DEF HasSlice, TaskRecord
<1> QED
  BY <1>1, <1>2 DEF SliceInv, TypeOK

LEMMA SliceRequeue ==
    ASSUME TypeOK, SliceInv, NEW p \in Task, NEW tp \in TaskRecord, NEW from, NEW to,
           HasSlice(tp), Requeue(p, from, to, tp)
    PROVE  SliceInv'
<1>1. task' = [task EXCEPT ![p] = [tp EXCEPT !.array = to]]
  BY DEF Requeue
<1>2. HasSlice([tp EXCEPT !.array = to])
  BY DEF HasSlice, TaskRecord
<1> QED
  BY <1>1, <1>2 DEF SliceInv, TypeOK

LEMMA SliceTick ==
    ASSUME HZ >= 500, TypeOK, SliceInv, NEW p \in Task, scheduler_tick(p)
    PROVE  SliceInv'
<1>1. /\ task[p] \in TaskRecord /\ HasSlice(task[p])
      /\ task[p].time_slice \in Nat /\ task[p].requested_time \in Nat
      /\ task[p].static_prio \in UserPrio
  BY DEF TypeOK, SliceInv, TaskRecord
<1>2. Refilled(p) \in TaskRecord /\ HasSlice(Refilled(p))
  <2>1. TASK_TIMESLICE(task[p].static_prio) > 0
    BY <1>1, TimesliceType
  <2> QED
    BY <1>1, <2>1, TickFields DEF HasSlice, Refilled, TaskRecord
<1>3. ASSUME ~SliceEnds(p)
      PROVE  TickedDown(p) \in TaskRecord /\ HasSlice(TickedDown(p))
  <2>1. Decremented(task[p].time_slice) \in Nat
    BY <1>1, SliceTypes
  <2>2. Decremented(task[p].time_slice) > 0
    BY <1>3, <2>1 DEF SliceEnds
  <2> QED
    BY <1>1, <2>2, TickFields DEF HasSlice, TickedDown, TaskRecord
<1>4. CASE TickExpired(p)
  BY <1>4 DEF TickExpired, SliceInv
<1>5. CASE TickRealTime(p)
  <2>1. CASE Requeue(p, active, active, Refilled(p))
    BY <2>1, <1>2, SliceRequeue
  <2>2. CASE ~SliceEnds(p) /\ task' = [task EXCEPT ![p] = TickedDown(p)]
    BY <2>2, <1>3, SliceUpdate
  <2>3. CASE UNCHANGED task
    BY <2>3 DEF SliceInv
  <2> QED
    BY <1>5, <2>1, <2>2, <2>3 DEF TickRealTime
<1>6. CASE TickRunning(p)
  BY <1>3, <1>6, SliceUpdate DEF TickRunning
<1>7. CASE TickEndsRegular(p)
  <2>1. PICK prio \in EffectivePrios(task[p]), to \in {active, Expired} :
          Requeue(p, active, to, [Refilled(p) EXCEPT !.prio = prio])
    BY <1>7 DEF TickEndsRegular
  <2>2. prio \in Prio
    BY <1>1, EffectivePrioType
  <2>3. [Refilled(p) EXCEPT !.prio = prio] \in TaskRecord
        /\ HasSlice([Refilled(p) EXCEPT !.prio = prio])
    BY <1>2, <2>2 DEF HasSlice, TaskRecord
  <2> QED
    BY <2>1, <2>3, SliceRequeue
<1>8. CASE TickEndsShort(p)
  <2> DEFINE tp == [task[p] EXCEPT !.prio = MAX_PRIO - 1, !.is_short = -1,
                                   !.time_slice = OverdueSlice(task[p].requested_time),
                                   !.first_time_slice = FALSE]
  <2>1. task[p].requested_time \in Nat \ {0}
    BY <1>1, <1>8 DEF TickEndsShort, HasSlice
  <2>2. OverdueSlice(task[p].requested_time) \in Nat
        /\ OverdueSlice(task[p].requested_time) > 0
    <3> DEFINE n == task[p].requested_time
    <3>1. n \in Nat /\ n \in Nat \ {0}
      BY <2>1
    <3> HIDE DEF n
    <3>2. OverdueSlice(n) \in Nat
      BY <3>1, SliceTypes
    <3>3. OverdueSlice(n) > 0
      BY <3>1, OverdueSlicePositive
    <3> QED
      BY <3>2, <3>3 DEF n
  <2>3. MAX_PRIO - 1 \in Prio
    BY PrioAssumption DEF Prio
  <2>4. tp \in TaskRecord /\ HasSlice(tp)
    <3>1. tp \in TaskRecord
      BY <1>1, <2>2, <2>3 DEF TaskRecord
    <3>2. tp.time_slice = OverdueSlice(task[p].requested_time) /\ tp.is_short = -1
      BY <1>1 DEF TaskRecord
    <3> HIDE DEF tp
    <3> QED
      BY <2>2, <3>1, <3>2 DEF HasSlice
  <2>5. Requeue(p, task[p].array, "overdue", tp)
    BY <1>8 DEF TickEndsShort
  <2> QED
    BY <2>4, <2>5, SliceRequeue
<1>9. CASE TickEndsOverdue(p)
  <2>1. PICK prio \in EffectivePrios(task[p]) :
          Requeue(p, task[p].array, active,
                  [Refilled(p) EXCEPT !.policy = "OTHER", !.prio = prio])
    BY <1>9 DEF TickEndsOverdue
  <2>2. prio \in Prio
    BY <1>1, EffectivePrioType
  <2> DEFINE tp == [Refilled(p) EXCEPT !.policy = "OTHER", !.prio = prio]
  <2>3. tp \in TaskRecord /\ HasSlice(tp)
    BY <1>2, <2>2 DEF HasSlice, TaskRecord, Policy
  <2> QED
    BY <2>1, <2>3, SliceRequeue
<1> QED
  BY <1>4, <1>5, <1>6, <1>7, <1>8, <1>9 DEF scheduler_tick

LEMMA SliceReactivate ==
    ASSUME TypeOK, SliceInv, NEW p \in Task, NEW tp \in TaskRecord,
           HasSlice(tp), Reactivate(p, tp)
    PROVE  SliceInv'
<1>1. CASE task[p].array = NULL
  BY <1>1, SliceUpdate DEF Reactivate
<1>2. CASE task[p].array # NULL
  BY <1>2, SliceActivate DEF Reactivate
<1> QED
  BY <1>1, <1>2

\* Steps that only change a state, a priority or an array.
LEMMA SliceStateChange ==
    ASSUME TypeOK, SliceInv, NEW p, NEW tp,
           task' = [task EXCEPT ![p] = tp],
           p \in Task => /\ tp.time_slice = task[p].time_slice
                         /\ tp.is_short = task[p].is_short
                         /\ tp.requested_time = task[p].requested_time
    PROVE  SliceInv'
BY DEF SliceInv, HasSlice, TypeOK

LEMMA SliceSchedule ==
    ASSUME TypeOK, SliceInv, schedule
    PROVE  SliceInv'
<1>1. CASE LeaveCpu
  <2>1. task' = [task EXCEPT ![curr] = [task[curr] EXCEPT !.array = NULL]]
    BY <1>1 DEF LeaveCpu
  <2>2. curr \in Task => task[curr] \in TaskRecord
    BY DEF TypeOK
  <2> DEFINE tp == [task[curr] EXCEPT !.array = NULL]
  <2>3. curr \in Task => /\ tp.time_slice = task[curr].time_slice
                         /\ tp.is_short = task[curr].is_short
                         /\ tp.requested_time = task[curr].requested_time
    BY <2>2 DEF TaskRecord
  <2> HIDE DEF tp
  <2> QED
    BY <2>1, <2>3, SliceStateChange DEF tp
<1>2. CASE StayRunnable
  <2>1. CASE UNCHANGED task
    BY <2>1 DEF SliceInv
  <2>2. CASE task' = [task EXCEPT ![curr] = [task[curr] EXCEPT !.state = "RUNNING"]]
    <3>1. curr \in Task => task[curr] \in TaskRecord
      BY DEF TypeOK
    <3> DEFINE tp == [task[curr] EXCEPT !.state = "RUNNING"]
    <3>2. curr \in Task => /\ tp.time_slice = task[curr].time_slice
                           /\ tp.is_short = task[curr].is_short
                           /\ tp.requested_time = task[curr].requested_time
      BY <3>1 DEF TaskRecord
    <3> HIDE DEF tp
    <3> QED
      BY <2>2, <3>2, SliceStateChange DEF tp
  <2> QED
    BY <1>2, <2>1, <2>2 DEF StayRunnable
<1> QED
  BY <1>1, <1>2 DEF schedule

LEMMA SliceWake ==
    ASSUME TypeOK, SliceInv, NEW p \in Task, try_to_wake_up(p)
    PROVE  SliceInv'
<1> DEFINE tp == [task[p] EXCEPT !.state = "RUNNING"]
<1>1. task[p] \in TaskRecord /\ HasSlice(task[p])
  BY DEF TypeOK, SliceInv
<1>2. tp \in TaskRecord /\ HasSlice(tp)
  BY <1>1 DEF TaskRecord, TaskState, HasSlice
<1>3. Activate(p, tp, arrays) \/ task' = [task EXCEPT ![p] = tp]
  BY DEF try_to_wake_up
<1> HIDE DEF tp
<1> QED
  BY <1>2, <1>3, SliceActivate, SliceUpdate

\* setscheduler always leaves a SHORT task with time and with a request.
LEMMA SlicePolicyCalls ==
    ASSUME TypeOK, SliceInv, NEW t \in Task, NEW p \in Task,
           \/ \E request \in Requests : BecomeShort(t, p, request) \/ ResizeShort(t, p, request)
           \/ SetOther(t, p)
           \/ \E policy \in {"FIFO", "RR"}, sched_priority \in RtPriorities :
                  SetRealTime(t, p, policy, sched_priority)
    PROVE  SliceInv'
<1>1. /\ task[p] \in TaskRecord /\ task[p].static_prio \in Prio /\ HasSlice(task[p])
      /\ task[p].requested_time \in Nat /\ task[p].time_slice \in Nat
  BY PrioAssumption DEF TypeOK, SliceInv, TaskRecord, UserPrio, Prio
<1>2. ASSUME NEW request \in Requests, BecomeShort(t, p, request)
      PROVE  SliceInv'
  <2> DEFINE tp == [task[p] EXCEPT !.policy = "SHORT", !.is_short = 1,
                                   !.requested_time = AtLeastOne(request),
                                   !.time_slice = ShortSlice(request),
                                   !.prio = task[p].static_prio]
  <2>1. request \in Nat
    BY InputAssumption
  <2>2. /\ AtLeastOne(request) \in Nat /\ AtLeastOne(request) > 0
        /\ ShortSlice(request) \in Nat /\ ShortSlice(request) > 0
    BY <2>1, SliceTypes
  <2>3. tp \in TaskRecord /\ HasSlice(tp)
    BY <1>1, <2>2 DEF TaskRecord, Policy, HasSlice
  <2>4. Reactivate(p, tp)
    BY <1>2 DEF BecomeShort
  <2> HIDE DEF tp
  <2> QED
    BY <2>3, <2>4, SliceReactivate
<1>3. ASSUME NEW request \in Requests, ResizeShort(t, p, request)
      PROVE  SliceInv'
  <2> DEFINE slice == ResizedSlice(request, task[p].requested_time, task[p].time_slice)
             tp == [task[p] EXCEPT !.requested_time = AtLeastOne(request),
                                   !.time_slice = slice, !.prio = task[p].static_prio]
  <2>1. request \in Nat
    BY InputAssumption
  <2>2. AtLeastOne(request) \in Nat /\ AtLeastOne(request) > 0
    BY <2>1, SliceTypes
  <2>3. slice \in Nat /\ slice > 0
    <3>1. Jiffies(request) - (Jiffies(task[p].requested_time) - task[p].time_slice) \in Nat
      BY <1>1, <1>3, <2>1, ResizeNeverNegative DEF ResizeShort
    <3> QED
      BY <3>1, SliceTypes DEF ResizedSlice
  <2>4. Reactivate(p, tp)
    BY <1>3 DEF ResizeShort
  <2> HIDE DEF slice
  <2>5. tp \in TaskRecord /\ HasSlice(tp)
    BY <1>1, <2>2, <2>3 DEF TaskRecord, HasSlice
  <2> HIDE DEF tp
  <2> QED
    BY <2>4, <2>5, SliceReactivate
<1>4. ASSUME SetOther(t, p)
      PROVE  SliceInv'
  <2> DEFINE tp == [task[p] EXCEPT !.policy = "OTHER", !.prio = task[p].static_prio]
  <2>1. tp \in TaskRecord /\ HasSlice(tp)
    BY <1>1 DEF TaskRecord, Policy, HasSlice
  <2>2. Reactivate(p, tp)
    BY <1>4 DEF SetOther
  <2> HIDE DEF tp
  <2> QED
    BY <2>1, <2>2, SliceReactivate
<1>5. ASSUME NEW policy \in {"FIFO", "RR"}, NEW sched_priority \in RtPriorities,
             SetRealTime(t, p, policy, sched_priority)
      PROVE  SliceInv'
  <2> DEFINE tp == [task[p] EXCEPT !.policy = policy,
                                   !.prio = MAX_RT_PRIO - 1 - sched_priority]
  <2>1. MAX_RT_PRIO - 1 - sched_priority \in Prio /\ policy \in Policy
    BY PrioAssumption, InputAssumption DEF Prio, Policy
  <2>2. tp \in TaskRecord /\ HasSlice(tp)
    BY <1>1, <2>1 DEF TaskRecord, HasSlice
  <2>3. Reactivate(p, tp)
    BY <1>5 DEF SetRealTime
  <2> HIDE DEF tp
  <2> QED
    BY <2>2, <2>3, SliceReactivate
<1> QED
  BY <1>2, <1>3, <1>4, <1>5

LEMMA SliceNice ==
    ASSUME TypeOK, SliceInv, NEW t \in Task, NEW p \in Task, NEW nice \in Nices,
           set_user_nice(t, p, nice)
    PROVE  SliceInv'
<1> DEFINE old == task[p]
           new == [old EXCEPT !.static_prio = nice,
                              !.prio = IF old.is_short = -1 /\ old.policy = "SHORT"
                                       THEN @ ELSE nice]
<1>1. old \in TaskRecord /\ HasSlice(old)
  BY DEF TypeOK, SliceInv
<1>2. nice \in UserPrio /\ nice \in Prio
  BY InputAssumption, PrioAssumption DEF UserPrio, Prio
<1>3. new \in TaskRecord /\ HasSlice(new)
  BY <1>1, <1>2 DEF TaskRecord, HasSlice
<1>4. /\ [old EXCEPT !.static_prio = nice] \in TaskRecord
      /\ HasSlice([old EXCEPT !.static_prio = nice])
  BY <1>1, <1>2 DEF TaskRecord, HasSlice
<1>5. \/ task' = [task EXCEPT ![p] = [old EXCEPT !.static_prio = nice]]
      \/ task' = [task EXCEPT ![p] = new]
      \/ Requeue(p, old.array, old.array, new)
  BY DEF set_user_nice
<1> HIDE DEF new, old
<1> QED
  BY <1>3, <1>4, <1>5, SliceUpdate, SliceRequeue

LEMMA SliceYield ==
    ASSUME TypeOK, SliceInv, NEW t \in Task, sys_sched_yield(t)
    PROVE  SliceInv'
<1>1. task[t] \in TaskRecord /\ HasSlice(task[t])
  BY DEF TypeOK, SliceInv
<1>2. CASE \E from : Activate(t, task[t], from)
  BY <1>1, <1>2, SliceActivate
<1>3. CASE UNCHANGED task
  BY <1>3 DEF SliceInv
<1>4. CASE \E prio : task' = [task EXCEPT ![t] = [task[t] EXCEPT !.prio = prio]]
  <2>1. PICK prio : task' = [task EXCEPT ![t] = [task[t] EXCEPT !.prio = prio]]
    BY <1>4
  <2> DEFINE tp == [task[t] EXCEPT !.prio = prio]
  <2>2. /\ tp.time_slice = task[t].time_slice /\ tp.is_short = task[t].is_short
        /\ tp.requested_time = task[t].requested_time
    BY <1>1 DEF TaskRecord
  <2> HIDE DEF tp
  <2> QED
    BY <2>1, <2>2, SliceStateChange DEF tp
<1>5. \/ \E from : Activate(t, task[t], from)
      \/ UNCHANGED task
      \/ \E prio : task' = [task EXCEPT ![t] = [task[t] EXCEPT !.prio = prio]]
  BY DEF sys_sched_yield, YieldDown
<1> QED
  BY <1>2, <1>3, <1>4, <1>5

LEMMA FreeTaskType == FreeTask \in TaskRecord /\ HasSlice(FreeTask)
BY InitAssumption, PrioAssumption
   DEF FreeTask, TaskRecord, Policy, TaskState, UserPrio, Prio, HasSlice

\* do_fork: the copy has its parent's slice until they share it.
LEMMA SliceForkStart ==
    ASSUME TypeOK, SliceInv, NEW t \in Task,
           (\E c \in Task : ForkCopy(t, c)) \/ ForkFail(t)
    PROVE  SliceInv'
<1>1. ASSUME NEW c \in Task, ForkCopy(t, c)
      PROVE  SliceInv'
  <2> DEFINE tp == [task[t] EXCEPT !.state = "UNINTERRUPTIBLE", !.requested_time = 0,
                                   !.is_short = 0, !.array = NULL]
  <2>1. task[t] \in TaskRecord /\ HasSlice(task[t])
    BY DEF TypeOK, SliceInv
  <2>2. tp \in TaskRecord /\ HasSlice(tp)
    <3>1. tp \in TaskRecord
      BY <2>1 DEF TaskRecord, TaskState
    <3>2. tp.time_slice = task[t].time_slice /\ tp.is_short = 0
      BY <2>1 DEF TaskRecord
    <3> HIDE DEF tp
    <3> QED
      BY <2>1, <3>1, <3>2 DEF HasSlice
  <2>3. task' = [task EXCEPT ![c] = tp]
    BY <1>1 DEF ForkCopy
  <2> HIDE DEF tp
  <2> QED
    BY <2>2, <2>3, SliceUpdate
<1>2. ASSUME ForkFail(t)
      PROVE  SliceInv'
  <2>1. task' = [task EXCEPT ![child[t]] = FreeTask] /\ child[t] \in Task
    BY <1>2 DEF ForkFail, TypeOK
  <2> QED
    BY <2>1, FreeTaskType, SliceUpdate
<1> QED
  BY <1>1, <1>2

\* Both halves of a shared slice are positive, and a SHORT child inherits a
\* request that is not empty.
LEMMA SliceForkShare ==
    ASSUME TypeOK, SliceInv, NEW t \in Task, ForkShare(t)
    PROVE  SliceInv'
<1> DEFINE c == child[t]
<1>1. /\ task[t] \in TaskRecord /\ c \in Task /\ task[c] \in TaskRecord
      /\ task[t].time_slice \in Nat /\ HasSlice(task[t])
  BY DEF TypeOK, SliceInv, TaskRecord
<1>2. HasSlice(ParentFields(task[t]))
  <2>1. SliceLeft(task[t]) \in Nat
    BY <1>1, SliceTypes DEF SliceLeft
  <2>2. AtLeastOne(SliceLeft(task[t])) > 0
    BY <2>1, SliceTypes
  <2> QED
    BY <1>1, <2>2 DEF ParentFields, TaskRecord, HasSlice
<1>3. HasSlice(ChildFields(task[c], t))
  <2>1. ForkChildSlice(task[t].time_slice) > 0
    BY <1>1, ForkChildSlicePositive DEF HasSlice
  <2> QED
    BY <1>1, <2>1 DEF ChildFields, TaskRecord, HasSlice
<1>4. task' = [task EXCEPT ![t] = ParentFields(task[t]), ![c] = ChildFields(task[c], t)]
  BY DEF ForkShare
<1> QED
  BY <1>1, <1>2, <1>3, <1>4, SliceTwoUpdates

LEMMA SliceForkWake ==
    ASSUME TypeOK, SliceInv, NEW t \in Task,
           wake_up_forked_process(t) \/ wake_up_short_forked_process(t)
    PROVE  SliceInv'
<1> DEFINE c == child[t]
<1>1. /\ c \in Task /\ task[c] \in TaskRecord /\ HasSlice(task[c])
      /\ task[t] \in TaskRecord /\ HasSlice(task[t])
  BY DEF TypeOK, SliceInv
<1>2. CASE wake_up_forked_process(t)
  <2>1. PICK prio \in ForkedPrios(task[c]) :
          Activate(c, [task[c] EXCEPT !.state = "RUNNING", !.prio = prio], arrays)
    BY <1>2 DEF wake_up_forked_process
  <2> DEFINE tp == [task[c] EXCEPT !.state = "RUNNING", !.prio = prio]
  <2>2. prio \in Prio
    BY <1>1, ForkedPrioType
  <2>3. tp \in TaskRecord /\ HasSlice(tp)
    BY <1>1, <2>2 DEF TaskRecord, TaskState, HasSlice
  <2> QED
    BY <1>1, <2>1, <2>3, SliceActivate
<1>3. CASE wake_up_short_forked_process(t)
  <2>1. CASE UNCHANGED task
    BY <2>1 DEF SliceInv
  <2>2. ASSUME NEW prio, NEW fprio, NEW to,
               task' = [task EXCEPT
                       ![c] = [task[c] EXCEPT !.state = "RUNNING", !.prio = prio,
                                              !.array = "short_active"],
                       ![t] = [task[t] EXCEPT !.prio = fprio, !.array = to]]
        PROVE  SliceInv'
    <3> DEFINE cp == [task[c] EXCEPT !.state = "RUNNING", !.prio = prio,
                                     !.array = "short_active"]
               fp == [task[t] EXCEPT !.prio = fprio, !.array = to]
    <3>1. HasSlice(cp) /\ HasSlice(fp)
      BY <1>1 DEF TaskRecord, HasSlice
    <3>2. task' = [task EXCEPT ![c] = cp, ![t] = fp]
      BY <2>2
    <3> HIDE DEF cp, fp
    <3> QED
      BY <1>1, <3>1, <3>2, SliceTwoUpdates
  <2> QED
    BY <1>3, <2>1, <2>2 DEF wake_up_short_forked_process
<1> QED
  BY <1>2, <1>3

LEMMA SliceExit ==
    ASSUME TypeOK, SliceInv, NEW t \in Task,
           do_exit(t) \/ \E c \in Task : release_task(t, c)
    PROVE  SliceInv'
<1>1. CASE do_exit(t)
  <2>1. ASSUME NEW p \in Task
        PROVE  HasSlice(task'[p])
    <3>1. task[p] \in TaskRecord /\ HasSlice(task[p])
      BY DEF TypeOK, SliceInv
    <3>2. /\ HasSlice([task[p] EXCEPT !.state = "ZOMBIE"])
          /\ HasSlice([task[p] EXCEPT !.parent = Init1, !.first_time_slice = FALSE])
      BY <3>1 DEF TaskRecord, HasSlice
    <3> QED
      BY <1>1, <3>1, <3>2 DEF do_exit
  <2> QED
    BY <2>1 DEF SliceInv
<1>2. ASSUME NEW c \in Task, release_task(t, c)
      PROVE  SliceInv'
  <2> DEFINE slice == IF task[c].first_time_slice
                      THEN ReturnedSlice(task[t].time_slice, task[c].time_slice)
                      ELSE task[t].time_slice
  <2>1. /\ task[t] \in TaskRecord /\ HasSlice(task[t]) /\ task[t].time_slice \in Nat
        /\ task[c].time_slice \in Nat
    BY DEF TypeOK, SliceInv, TaskRecord
  <2>2. slice > 0
    BY <2>1, ReturnedSliceType DEF HasSlice
  <2>3. task' = [task EXCEPT ![c] = FreeTask, ![t] = [task[t] EXCEPT !.time_slice = slice]]
    BY <1>2 DEF release_task
  <2> HIDE DEF slice
  <2>4. HasSlice([task[t] EXCEPT !.time_slice = slice])
    BY <2>1, <2>2 DEF TaskRecord, HasSlice
  <2> QED
    BY <2>3, <2>4, FreeTaskType, SliceTwoUpdates
<1> QED
  BY <1>1, <1>2

LEMMA SliceInit == Init => SliceInv
<1> SUFFICES ASSUME Init
             PROVE  SliceInv
  OBVIOUS
<1>1. TASK_TIMESLICE(MAX_RT_PRIO) > 0
  BY TimesliceType, PrioAssumption DEF UserPrio
<1>2. HasSlice([FreeTask EXCEPT !.time_slice = TASK_TIMESLICE(MAX_RT_PRIO),
                                !.state = "RUNNING", !.array = "array0"])
  BY <1>1, FreeTaskType DEF HasSlice, FreeTask
<1> QED
  BY <1>2, FreeTaskType DEF Init, SliceInv

LEMMA SliceNext ==
    ASSUME HZ >= 500, TypeOK, SliceInv, [Next]_vars
    PROVE  SliceInv'
<1>1. CASE UNCHANGED task
  BY <1>1 DEF SliceInv
<1>2. CASE Tick
  <2>1. curr \in Task /\ scheduler_tick(curr)
    BY <1>2 DEF Tick
  <2> QED
    BY <2>1, SliceTick
<1>3. CASE schedule
  BY <1>3, SliceSchedule
<1>4. CASE \E p \in Task : try_to_wake_up(p)
  BY <1>4, SliceWake
<1>5. ASSUME NEW t \in Task, TaskStep(t)
      PROVE  SliceInv'
  <2>1. CASE SystemCall(t) \/ NoEffect(t) \/ ReturnToUser(t) \/ ForkChoose(t)
    BY <1>1, <2>1 DEF SystemCall, NoEffect, ReturnToUser, ForkChoose
  <2>2. ASSUME NEW state \in SleepStates, SetState(t, state)
        PROVE  SliceInv'
    <3> DEFINE tp == [task[t] EXCEPT !.state = state]
    <3>1. task[t] \in TaskRecord
      BY DEF TypeOK
    <3>2. /\ tp.time_slice = task[t].time_slice /\ tp.is_short = task[t].is_short
          /\ tp.requested_time = task[t].requested_time
      BY <3>1 DEF TaskRecord
    <3>3. task' = [task EXCEPT ![t] = tp]
      BY <2>2 DEF SetState
    <3> HIDE DEF tp
    <3> QED
      BY <3>2, <3>3, SliceStateChange
  <2>3. CASE SchedulerCall(t)
    <3>1. ASSUME NEW p \in Task,
               \/ \E request \in Requests :
                      BecomeShort(t, p, request) \/ ResizeShort(t, p, request)
               \/ SetOther(t, p)
               \/ \E policy \in {"FIFO", "RR"}, sched_priority \in RtPriorities :
                      SetRealTime(t, p, policy, sched_priority)
          PROVE  SliceInv'
      BY <3>1, SlicePolicyCalls
    <3> QED
      BY <2>3, <3>1, SliceYield, SliceNice DEF SchedulerCall
  <2>4. CASE ForkTick(t)
    BY <2>4, SliceTick DEF ForkTick
  <2> QED
    BY <1>5, <2>1, <2>2, <2>3, <2>4, SliceForkStart, SliceForkShare, SliceForkWake,
       SliceExit DEF TaskStep, Fork
<1> QED
  BY <1>1, <1>2, <1>3, <1>4, <1>5 DEF Next, vars

\* No step ever leaves a task with an empty slice, so do_fork's BUG() is out of
\* reach and --p->time_slice never wraps: provided that a millisecond requested
\* twice is at least a jiffy, HZ >= 500.
THEOREM SlicesPositive ==
    ASSUME HZ >= 500
    PROVE  Spec => []SlicePositive
<1>1. Init => TypeOK /\ SliceInv
  BY InitType, SliceInit
<1>2. (TypeOK /\ SliceInv) /\ [Next]_vars => (TypeOK /\ SliceInv)'
  BY NextType, SliceNext
<1>3. SliceInv => SlicePositive
  BY DEF SliceInv, HasSlice, SlicePositive
<1> QED
  BY <1>1, <1>2, <1>3, PTL DEF Spec
=============================================================================
