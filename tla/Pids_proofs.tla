----------------------------- MODULE Pids_proofs -----------------------------
(***************************************************************************)
(* Theorems about Pids, for any tasks and numbers, any leaders and any     *)
(* threads, when get_pid neither starts again while a child is being       *)
(* copied nor runs out of numbers.                                         *)
(***************************************************************************)
EXTENDS Pids, ListLemmas

\* What runs Pids_inflight and Pids_exhausted show to be needed.
Undisturbed == ~StartsAgain /\ ~RunsOut
-----------------------------------------------------------------------------
(* The inductive invariant.                                                *)

Searching == ~Unlocked
Numbers == 0 .. PID_MAX - 1
Ids == [pid : Numbers, pgrp : Numbers, tgid : Numbers, session : Numbers]
Searches == [by : Task \cup {NULL}, begin : Numbers, i : Nat]

Typed ==
    /\ tasks \in Seq(Task) /\ making \in [Task -> Task \cup {NULL}]
    /\ ids \in [Task -> Ids] /\ pidhash \in [Bucket -> Seq(Task)]
    /\ last_pid \in 1 .. PID_MAX - 1 /\ next_safe \in 1 .. PID_MAX
    /\ search \in Searches

\* A task is on the list once, and once in the chain of its number.
Hashed(b) ==
    /\ NoRepeat(pidhash[b])
    /\ \A t \in Task :
           OnList(pidhash[b], t) <=> (t \in Linked /\ b = pid_hashfn(ids[t].pid))

Lists == NoRepeat(tasks) /\ \A b \in Bucket : Hashed(b)

\* A child that is being copied has one parent, which is in do_fork, and is still in its
\* groups.
Copying(t) ==
    making[t] # NULL =>
        /\ t \in Linked /\ making[t] \notin Linked /\ search.by # t
        /\ \A u \in Task : making[u] = making[t] => u = t
        /\ ids[making[t]].pgrp = ids[t].pgrp
        /\ ids[making[t]].tgid = ids[t].tgid
        /\ ids[making[t]].session = ids[t].session

\* The number of a child in the making has been given since get_pid last started again.
Behind(t) ==
    making[t] # NULL =>
        ids[making[t]].pid <= last_pid /\ (Searching => ids[making[t]].pid < last_pid)

Distinct ==
    \A t, u \in Linked \cup InCopy : ids[t].pid = ids[u].pid => t = u

\* No number between last_pid and next_safe is in use.
Window == Unlocked => \A u \in Linked : \A x \in IdsOf(u) : x <= last_pid \/ x >= next_safe

\* The search has passed u.
Clear(u) == \A x \in IdsOf(u) : x # last_pid /\ (x < last_pid \/ x >= next_safe)

\* x is a number that the search tries before it comes back to beginpid.
Ahead(x) ==
    IF last_pid > search.begin
    THEN x >= last_pid \/ (FirstPid <= x /\ x < search.begin)
    ELSE last_pid <= x /\ x < search.begin

Search ==
    Searching =>
        /\ search.by \in Linked /\ search.i \in 1 .. Len(tasks) + 1
        /\ \A j \in 1 .. search.i - 1 : Clear(tasks[j])
        /\ \E c \in Task : c \notin Linked \cup InCopy
        /\ last_pid # search.begin
        /\ InCopy # {} => \E x \in Unused : x >= last_pid
        /\ \E x \in Unused : Ahead(x)

Inv ==
    /\ Typed /\ Lists
    /\ \A t \in Task : Copying(t) /\ Behind(t)
    /\ Distinct /\ Window /\ Search
-----------------------------------------------------------------------------
(* The operators of the model.                                             *)

LEMMA LinkedIsOnList == \A t : t \in Linked <=> OnList(tasks, t)
BY DEF Linked, ToSet, OnList

LEMMA LinkedTasks == ASSUME Typed PROVE Linked \subseteq Task /\ InCopy \subseteq Task
BY DEF Typed, Linked, ToSet, InCopy

LEMMA IdsOfTask ==
    ASSUME Typed, NEW t \in Task
    PROVE  IdsOf(t) \subseteq Numbers /\ ids[t].pid \in IdsOf(t)
BY DEF Typed, IdsOf, Ids

LEMMA NumberFacts ==
    /\ NULL \notin Task /\ First \in Task /\ PID_MAX \in Nat /\ FirstPid \in 2 .. PID_MAX - 1
    /\ Numbers \subseteq Nat
    /\ \A x : x \in Numbers <=> x \in Nat /\ x < PID_MAX
BY PidAssumption DEF Numbers

\* Every number has its chain.
LEMMA HashInBucket == ASSUME NEW x \in Nat PROVE pid_hashfn(x) \in Bucket
BY PidAssumption DEF pid_hashfn, Bucket

\* next_safe after one more task.
LEMMA SafeBeforeFacts ==
    ASSUME NEW t \in Task, Typed, NEW safe \in 1 .. PID_MAX, NEW last \in 1 .. PID_MAX - 1
    PROVE  /\ SafeBefore(safe, last, t) \in 1 .. safe
           /\ \A x \in IdsOf(t) : x > last => x >= SafeBefore(safe, last, t)
<1> DEFINE S == {safe} \cup {x \in IdsOf(t) : x > last}
<1>1. IdsOf(t) \subseteq Nat
  BY IdsOfTask, NumberFacts
<1>2. S \in SUBSET Nat /\ safe \in S /\ \A x \in S : x >= 1
  BY <1>1, NumberFacts
<1>3. Min(S) \in S /\ \A x \in S : Min(S) <= x
  BY <1>2, LeastNumber
<1>4. SafeBefore(safe, last, t) = Min(S)
  BY DEF SafeBefore
<1> HIDE DEF S
<1>5. Min(S) \in Nat /\ Min(S) >= 1 /\ Min(S) <= safe
  BY <1>2, <1>3
<1>6. Min(S) \in 1 .. safe
  BY <1>5, NumberFacts
<1>7. \A x \in IdsOf(t) : x > last => x >= Min(S)
  BY <1>1, <1>3, <1>5 DEF S
<1> QED
  BY <1>4, <1>6, <1>7

\* An entry of the list.
LEMMA EntryLinked ==
    ASSUME Typed, NEW i \in DOMAIN tasks
    PROVE  tasks[i] \in Linked /\ tasks[i] \in Task /\ i \in 1 .. Len(tasks)
BY DEF Typed, Linked, ToSet

LEMMA InitInv == Init => Inv
<1> SUFFICES ASSUME Init PROVE Inv
  OBVIOUS
<1> USE DEF Init
<1>1. /\ tasks = <<First>> /\ Linked = {First} /\ NoRepeat(tasks) /\ InCopy = {}
      /\ Unlocked /\ First \in Task
  BY NumberFacts DEF Linked, ToSet, NoRepeat, InCopy, Unlocked, NoSearch
<1>2. /\ \A t \in Task \ {First} : ids[t] = NoIds
      /\ ids[First] = [NoIds EXCEPT !.pid = 1, !.tgid = 1]
  BY <1>1
<1>3. ids[First].pid = 1 /\ IdsOf(First) = {0, 1}
  <2>1. ids[First].pid = 1 /\ ids[First].pgrp = 0 /\ ids[First].tgid = 1 /\ ids[First].session = 0
    BY <1>2 DEF NoIds
  <2> QED
    BY <2>1 DEF IdsOf
<1>4. ids \in [Task -> Ids]
  <2>1. 0 \in Numbers /\ 1 \in Numbers
    BY NumberFacts
  <2>2. NoIds \in Ids /\ [NoIds EXCEPT !.pid = 1, !.tgid = 1] \in Ids
    BY <2>1 DEF NoIds, Ids
  <2> QED
    BY <2>2
<1>5. pid_hashfn(1) \in Bucket
  BY HashInBucket
<1>6. Typed
  <2>1. NoSearch \in Searches
    BY NumberFacts DEF NoSearch, Searches
  <2>2. pidhash \in [Bucket -> Seq(Task)]
    BY <1>1
  <2>3. tasks \in Seq(Task) /\ making \in [Task -> Task \cup {NULL}]
    BY <1>1
  <2>4. last_pid \in 1 .. PID_MAX - 1 /\ next_safe \in 1 .. PID_MAX
    BY NumberFacts
  <2> QED
    BY <1>4, <2>1, <2>2, <2>3, <2>4 DEF Typed
<1>7. ASSUME NEW b \in Bucket PROVE Hashed(b)
  <2>1. pidhash[b] = IF b = pid_hashfn(1) THEN <<First>> ELSE << >>
    OBVIOUS
  <2>2. \A t : OnList(pidhash[b], t) <=> (b = pid_hashfn(1) /\ t = First)
    BY <2>1 DEF OnList
  <2>3. NoRepeat(pidhash[b])
    BY <2>1 DEF NoRepeat
  <2> QED
    BY <1>1, <1>3, <2>2, <2>3 DEF Hashed
<1>8. Window
  BY <1>1, <1>3 DEF Window
<1> QED
  BY <1>1, <1>6, <1>7, <1>8, NumberFacts
     DEF Inv, Lists, Copying, Behind, Distinct, Search, Searching
-----------------------------------------------------------------------------
(* Taking a number.                                                        *)

\* The child and its parent after Gets.
LEMMA GetsFacts ==
    ASSUME Inv, NEW t \in Linked, making[t] = NULL, NEW n \in Numbers, Gets(t, n),
           \E c \in Task : c \notin Linked \cup InCopy
    PROVE  \E c \in Task :
               /\ c \notin Linked \cup InCopy /\ c # NULL /\ c # t
               /\ making' \in [Task -> Task \cup {NULL}] /\ ids' \in [Task -> Ids]
               /\ making'[t] = c /\ \A v \in Task \ {t} : making'[v] = making[v]
               /\ ids'[c].pid = n /\ ids'[c].pgrp = ids[t].pgrp /\ ids'[c].tgid = ids[t].tgid
               /\ ids'[c].session = ids[t].session
               /\ \A v \in Task \ {c} : ids'[v] = ids[v]
               /\ InCopy' = InCopy \cup {c}
<1> USE DEF Inv
<1> DEFINE c == CHOOSE c \in Task : c \notin Linked \cup InCopy
<1>1. c \in Task /\ c \notin Linked \cup InCopy
  OBVIOUS
<1>2. /\ making' = [making EXCEPT ![t] = c]
      /\ ids' = [ids EXCEPT ![c] = [ids[t] EXCEPT !.pid = n]]
  BY DEF Gets
<1> HIDE DEF c
<1>3. c # NULL /\ c # t /\ t \in Task
  BY <1>1, LinkedTasks, NumberFacts
<1>4. [ids[t] EXCEPT !.pid = n] \in Ids /\ ids[t] \in Ids
  BY <1>3 DEF Typed, Ids
<1>5. making' \in [Task -> Task \cup {NULL}] /\ ids' \in [Task -> Ids]
  BY <1>1, <1>2, <1>4 DEF Typed
<1>6. making'[t] = c /\ \A v \in Task \ {t} : making'[v] = making[v]
  BY <1>2, <1>3 DEF Typed
<1>7. ids'[c] = [ids[t] EXCEPT !.pid = n] /\ \A v \in Task \ {c} : ids'[v] = ids[v]
  BY <1>1, <1>2 DEF Typed
<1>8. /\ ids'[c].pid = n /\ ids'[c].pgrp = ids[t].pgrp /\ ids'[c].tgid = ids[t].tgid
      /\ ids'[c].session = ids[t].session
  BY <1>4, <1>7 DEF Ids
<1>9. InCopy' = InCopy \cup {c}
  BY <1>1, <1>3, <1>6 DEF InCopy
<1> QED
  BY <1>1, <1>3, <1>5, <1>6, <1>7, <1>8, <1>9

\* n is used by nobody: the invariant holds when the lock is dropped.
LEMMA GetsKeeps ==
    ASSUME Inv, NEW t \in Linked, making[t] = NULL, NEW n \in 1 .. PID_MAX - 1, Gets(t, n),
           \E c \in Task : c \notin Linked \cup InCopy,
           UNCHANGED <<tasks, pidhash, next_safe>>, last_pid' = n,
           search' \in Searches, Unlocked',
           \A u \in Linked : n \notin IdsOf(u) /\ \A x \in IdsOf(u) : x <= n \/ x >= next_safe,
           \A v \in Task : making[v] # NULL => ids[making[v]].pid < n
    PROVE  Inv'
<1> USE DEF Inv
<1>0. n \in Numbers /\ n \in Nat
  BY NumberFacts
<1>1. PICK c \in Task :
          /\ c \notin Linked \cup InCopy /\ c # NULL /\ c # t
          /\ making' \in [Task -> Task \cup {NULL}] /\ ids' \in [Task -> Ids]
          /\ making'[t] = c /\ \A v \in Task \ {t} : making'[v] = making[v]
          /\ ids'[c].pid = n /\ ids'[c].pgrp = ids[t].pgrp /\ ids'[c].tgid = ids[t].tgid
          /\ ids'[c].session = ids[t].session
          /\ \A v \in Task \ {c} : ids'[v] = ids[v]
          /\ InCopy' = InCopy \cup {c}
  BY <1>0, GetsFacts
<1>2. Linked' = Linked /\ Linked \subseteq Task /\ InCopy \subseteq Task /\ t \in Task
  BY LinkedTasks DEF Linked
<1>3. Typed'
  BY <1>1 DEF Typed
<1>4. \A u \in Linked \cup InCopy : ids'[u] = ids[u]
  BY <1>1, <1>2
<1>5. Lists'
  <2> SUFFICES ASSUME NEW b \in Bucket PROVE Hashed(b)'
    BY DEF Lists
  <2>1. Hashed(b) /\ pidhash'[b] = pidhash[b]
    BY DEF Lists
  <2>2. ASSUME NEW v \in Task
        PROVE  OnList(pidhash[b], v) <=> (v \in Linked' /\ b = pid_hashfn(ids'[v].pid))
    BY <1>2, <1>4, <2>1 DEF Hashed
  <2> QED
    BY <2>1, <2>2 DEF Hashed
<1>6. ASSUME NEW v \in Task PROVE Copying(v)' /\ Behind(v)'
  <2>1. CASE v = t
    <3>1. \A u \in Task : making'[u] = c => u = t
      BY <1>1 DEF InCopy
    <3>2. search'.by # t
      BY <1>2, NumberFacts DEF Unlocked
    <3>3. Copying(v)'
      BY <1>1, <1>2, <2>1, <3>1, <3>2 DEF Copying
    <3>4. Behind(v)'
      BY <1>0, <1>1, <2>1 DEF Behind, Searching
    <3> QED
      BY <3>3, <3>4
  <2>2. CASE v # t /\ making[v] # NULL
    <3>1. /\ making'[v] = making[v] /\ making[v] \in InCopy /\ v \in Linked
          /\ ids'[making[v]] = ids[making[v]] /\ ids'[v] = ids[v] /\ making[v] # c
      BY <1>1, <1>4, <2>2 DEF Copying, InCopy
    <3>2. \A u \in Task : making'[u] = making[v] => u = v
      BY <1>1, <2>2, <3>1 DEF Copying
    <3>3. search'.by # v
      BY NumberFacts DEF Unlocked
    <3>4. Copying(v)'
      BY <1>2, <2>2, <3>1, <3>2, <3>3 DEF Copying
    <3>5. ids[making[v]].pid \in Numbers
      BY <1>2, <3>1, IdsOfTask
    <3>6. Behind(v)'
      BY <1>0, <2>2, <3>1, <3>5, NumberFacts DEF Behind, Searching
    <3> QED
      BY <3>4, <3>6
  <2>3. CASE v # t /\ making[v] = NULL
    <3>1. making'[v] = NULL
      BY <1>1, <2>3
    <3> QED
      BY <3>1 DEF Copying, Behind
  <2> QED
    BY <2>1, <2>2, <2>3
<1>7. Distinct'
  <2>1. ASSUME NEW u \in Linked \cup InCopy PROVE ids'[u].pid # n
    <3>1. CASE u \in Linked
      BY <1>2, <1>4, <3>1, IdsOfTask
    <3>2. CASE u \in InCopy
      <4>1. PICK v \in Task : making[v] = u /\ u # NULL
        BY <3>2 DEF InCopy
      <4>2. ids[u].pid < n /\ ids[u].pid \in Numbers
        BY <1>2, <3>2, <4>1, IdsOfTask
      <4>3. ids[u].pid # n
        BY <1>0, <4>2, NumberFacts
      <4> QED
        BY <1>4, <4>3
    <3> QED
      BY <3>1, <3>2
  <2> SUFFICES ASSUME NEW u \in Linked \cup InCopy \cup {c}, NEW v \in Linked \cup InCopy \cup {c},
                      ids'[u].pid = ids'[v].pid
               PROVE  u = v
    BY <1>1, <1>2 DEF Distinct
  <2> QED
    BY <1>1, <1>4, <2>1 DEF Distinct
<1>8. Window'
  <2> SUFFICES ASSUME NEW u \in Linked PROVE \A x \in IdsOf(u)' : x <= n \/ x >= next_safe
    BY <1>2 DEF Window
  <2>1. IdsOf(u)' = IdsOf(u)
    BY <1>4 DEF IdsOf
  <2> QED
    BY <2>1
<1>9. Search'
  BY DEF Search, Searching
<1> QED
  BY <1>3, <1>5, <1>6, <1>7, <1>8, <1>9

\* No number below next_safe is in use, so the next one is free.
LEMMA QuickFork ==
    ASSUME Inv, NEW t \in Task, Idle(t), Unlocked,
           \E c \in Task : c \notin Linked \cup InCopy,
           last_pid + 1 < PID_MAX, last_pid + 1 < next_safe, last_pid' = last_pid + 1,
           Gets(t, last_pid + 1), UNCHANGED <<next_safe, search, tasks, pidhash>>
    PROVE  /\ Inv'
           /\ \A u \in Linked : last_pid + 1 \notin IdsOf(u)
           /\ \A v \in Task : making[v] # NULL => ids[making[v]].pid < last_pid + 1
<1> USE DEF Inv
<1>1. /\ last_pid \in Nat /\ last_pid >= 1 /\ last_pid + 1 \in 1 .. PID_MAX - 1
      /\ next_safe \in Nat
  BY NumberFacts DEF Typed
<1>2. ASSUME NEW u \in Linked
      PROVE  /\ last_pid + 1 \notin IdsOf(u)
             /\ \A x \in IdsOf(u) : x <= last_pid + 1 \/ x >= next_safe
  <2>1. \A x \in IdsOf(u) : x \in Nat /\ (x <= last_pid \/ x >= next_safe)
    BY IdsOfTask, LinkedTasks, NumberFacts DEF Window
  <2> QED
    BY <1>1, <2>1
<1>3. ASSUME NEW v \in Task, making[v] # NULL PROVE ids[making[v]].pid < last_pid + 1
  <2>1. making[v] \in Task
    BY <1>3 DEF Typed
  <2>2. ids[making[v]].pid \in Nat
    BY <2>1, IdsOfTask, NumberFacts
  <2> QED
    BY <1>1, <1>3, <2>2 DEF Behind
<1>4. t \in Linked /\ making[t] = NULL
  BY DEF Idle
<1>5. search' \in Searches /\ Unlocked'
  BY DEF Typed, Unlocked
<1>6. Inv'
  BY <1>1, <1>2, <1>3, <1>4, <1>5, GetsKeeps
<1> QED
  BY <1>2, <1>3, <1>6
-----------------------------------------------------------------------------
(* The search.                                                             *)

\* get_pid changes no list and no number until it has found one.
LEMMA OnlySearch ==
    ASSUME Inv, UNCHANGED <<tasks, making, ids, pidhash>>
    PROVE  /\ Linked' = Linked /\ InCopy' = InCopy /\ Unused' = Unused
           /\ \A u : IdsOf(u)' = IdsOf(u)
           /\ Lists' /\ Distinct'
<1>1. Linked' = Linked /\ InCopy' = InCopy /\ \A u : IdsOf(u)' = IdsOf(u)
  BY DEF Linked, InCopy, IdsOf
<1>2. Unused' = Unused
  BY <1>1 DEF Unused
<1>3. Lists'
  <2> SUFFICES ASSUME NEW b \in Bucket PROVE Hashed(b)'
    BY DEF Inv, Lists
  <2>1. Hashed(b)
    BY DEF Inv, Lists
  <2> QED
    BY <1>1, <2>1 DEF Hashed
<1>4. Distinct'
  BY <1>1 DEF Inv, Distinct
<1> QED
  BY <1>1, <1>2, <1>3, <1>4

\* The number after last_pid comes back to beginpid only after all that are free.
LEMMA StillAhead ==
    ASSUME NEW last \in 1 .. PID_MAX - 1, NEW begin \in Nat, begin < PID_MAX, last # begin,
           NEW x \in 1 .. PID_MAX - 1, x # last,
           IF last > begin THEN x >= last \/ (FirstPid <= x /\ x < begin)
                           ELSE last <= x /\ x < begin,
           NEW next, next = IF last + 1 >= PID_MAX THEN FirstPid ELSE last + 1
    PROVE  /\ next \in 1 .. PID_MAX - 1 /\ next # begin
           /\ IF next > begin THEN x >= next \/ (FirstPid <= x /\ x < begin)
                              ELSE next <= x /\ x < begin
<1>1. /\ PID_MAX \in Nat /\ FirstPid \in Nat /\ FirstPid >= 2 /\ FirstPid < PID_MAX
      /\ last \in Nat /\ last >= 1 /\ last < PID_MAX /\ x \in Nat /\ x >= 1 /\ x < PID_MAX
  BY NumberFacts
<1>2. CASE last + 1 >= PID_MAX
  BY <1>1, <1>2
<1>3. CASE ~(last + 1 >= PID_MAX)
  BY <1>1, <1>3
<1> QED
  BY <1>2, <1>3

\* The first number that a search tries.
LEMMA FirstAhead ==
    ASSUME NEW begin \in 1 .. PID_MAX - 1,
           NEW x \in 1 .. PID_MAX - 1, x # begin, x >= FirstPid \/ x > begin,
           NEW next, next = IF begin + 1 >= PID_MAX THEN FirstPid ELSE begin + 1
    PROVE  /\ next \in 1 .. PID_MAX - 1 /\ next # begin
           /\ IF next > begin THEN x >= next \/ (FirstPid <= x /\ x < begin)
                              ELSE next <= x /\ x < begin
<1>1. /\ PID_MAX \in Nat /\ FirstPid \in Nat /\ FirstPid >= 2 /\ FirstPid < PID_MAX
      /\ begin \in Nat /\ begin >= 1 /\ begin < PID_MAX /\ x \in Nat /\ x >= 1 /\ x < PID_MAX
  BY NumberFacts
<1>2. CASE begin + 1 >= PID_MAX
  BY <1>1, <1>2
<1>3. CASE ~(begin + 1 >= PID_MAX)
  BY <1>1, <1>3
<1> QED
  BY <1>2, <1>3

\* The invariant when the search comes to another number: last_pid has not started again
\* if a child is being copied, and a free number is ahead.
LEMMA NextNumber ==
    ASSUME Inv, UNCHANGED <<tasks, making, ids, pidhash>>,
           last_pid' \in 1 .. PID_MAX - 1, next_safe' \in 1 .. PID_MAX,
           search' \in Searches, search'.by \in Linked, search'.i = 1,
           making[search'.by] = NULL,
           \E c \in Task : c \notin Linked \cup InCopy,
           last_pid' # search'.begin, last_pid' = last_pid + 1 \/ InCopy = {},
           InCopy # {} => \E x \in Unused : x >= last_pid',
           \E x \in Unused : Ahead(x)'
    PROVE  Inv'
<1> USE DEF Inv
<1>1. /\ Linked' = Linked /\ InCopy' = InCopy /\ Unused' = Unused
      /\ Lists' /\ Distinct'
  BY OnlySearch
<1>2. Typed'
  BY DEF Typed
<1>3. Searching'
  BY LinkedTasks, NumberFacts DEF Searching, Unlocked
<1>4. ASSUME NEW v \in Task PROVE Copying(v)' /\ Behind(v)'
  <2>1. CASE making[v] = NULL
    BY <2>1 DEF Copying, Behind
  <2>2. CASE making[v] # NULL
    <3>1. Copying(v)'
      BY <1>1, <2>2 DEF Copying
    <3>2. making[v] \in InCopy /\ making[v] \in Task
      BY <2>2, LinkedTasks DEF InCopy
    <3>3. /\ last_pid' = last_pid + 1 /\ ids[making[v]].pid \in Nat
          /\ ids[making[v]].pid <= last_pid /\ last_pid \in Nat
      BY <2>2, <3>2, IdsOfTask, NumberFacts DEF Behind, Typed
    <3>4. ids[making[v]].pid < last_pid' /\ ids[making[v]].pid <= last_pid'
      BY <3>3
    <3>5. Behind(v)'
      BY <3>4 DEF Behind
    <3> QED
      BY <3>1, <3>5
  <2> QED
    BY <2>1, <2>2
<1>5. Window'
  BY <1>3 DEF Window, Searching
<1>6. Search'
  <2>1. search'.i \in 1 .. Len(tasks') + 1 /\ 1 .. search'.i - 1 = {}
    BY DEF Typed
  <2>2. \E x \in Unused' : Ahead(x)'
    BY <1>1
  <2>3. InCopy' # {} => \E x \in Unused' : x >= last_pid'
    BY <1>1
  <2>4. \E c \in Task : c \notin Linked' \cup InCopy'
    BY <1>1
  <2> QED
    BY <1>1, <2>1, <2>2, <2>3, <2>4 DEF Search
<1> QED
  BY <1>1, <1>2, <1>4, <1>5, <1>6

\* do_fork, when last_pid has reached next_safe.
SearchStarts(t) ==
    /\ last_pid + 1 >= PID_MAX \/ last_pid + 1 >= next_safe
    /\ (\A x \in Unused : x <= last_pid) => StartsAgain \/ InCopy = {}
    /\ RunsOut \/ \E x \in Unused \ {last_pid} : x >= FirstPid \/ x > last_pid
    /\ last_pid' = IF last_pid + 1 >= PID_MAX THEN FirstPid ELSE last_pid + 1
    /\ next_safe' = PID_MAX
    /\ search' = [by |-> t, begin |-> last_pid, i |-> 1]
    /\ UNCHANGED <<making, ids, tasks, pidhash>>

\* Unused has numbers only.
LEMMA UnusedNumbers == Unused \subseteq 1 .. PID_MAX - 1
BY DEF Unused

LEMMA SearchStartsKeeps ==
    ASSUME Inv, Undisturbed, NEW t \in Task, Idle(t), Unlocked,
           \E c \in Task : c \notin Linked \cup InCopy, SearchStarts(t)
    PROVE  Inv'
<1> USE DEF Inv
<1>1. /\ last_pid \in 1 .. PID_MAX - 1 /\ PID_MAX \in Nat /\ last_pid \in Nat
      /\ last_pid < PID_MAX /\ last_pid \in Numbers
      /\ last_pid' = IF last_pid + 1 >= PID_MAX THEN FirstPid ELSE last_pid + 1
  <2>1. last_pid \in 1 .. PID_MAX - 1
    BY DEF Typed
  <2>2. /\ PID_MAX \in Nat /\ last_pid \in Nat /\ last_pid < PID_MAX
        /\ last_pid \in Numbers
    BY <2>1, NumberFacts
  <2> QED
    BY <2>1, <2>2 DEF SearchStarts
<1>2. PICK x \in Unused \ {last_pid} : x >= FirstPid \/ x > last_pid
  BY DEF SearchStarts, Undisturbed
<1>3. /\ last_pid' \in 1 .. PID_MAX - 1 /\ last_pid' # last_pid
      /\ IF last_pid' > last_pid THEN x >= last_pid' \/ (FirstPid <= x /\ x < last_pid)
                                 ELSE last_pid' <= x /\ x < last_pid
  BY <1>1, <1>2, UnusedNumbers, FirstAhead
<1>4. search' = [by |-> t, begin |-> last_pid, i |-> 1]
  BY DEF SearchStarts
<1>5. \E y \in Unused : Ahead(y)'
  BY <1>2, <1>3, <1>4 DEF Ahead
<1>6. InCopy # {} => \E y \in Unused : y >= last_pid + 1
  <2>1. InCopy # {} => \E y \in Unused : ~(y <= last_pid)
    BY DEF SearchStarts, Undisturbed
  <2>2. \A y \in Unused : ~(y <= last_pid) => y >= last_pid + 1
    BY <1>1, UnusedNumbers
  <2> QED
    BY <2>1, <2>2
<1>7. last_pid' = last_pid + 1 \/ InCopy = {}
  <2>1. \A y \in Unused : y < PID_MAX
    BY <1>1, UnusedNumbers
  <2>2. last_pid + 1 >= PID_MAX => InCopy = {}
    BY <1>1, <1>6, <2>1, UnusedNumbers
  <2> QED
    BY <1>1, <2>2
<1>8. InCopy # {} => \E y \in Unused : y >= last_pid'
  BY <1>6, <1>7
<1>9. search' \in Searches /\ search'.by = t /\ search'.i = 1 /\ search'.begin = last_pid
  BY <1>1, <1>4 DEF Searches
<1>10. t \in Linked /\ making[t] = NULL
  BY DEF Idle
<1>11. next_safe' \in 1 .. PID_MAX /\ UNCHANGED <<tasks, making, ids, pidhash>>
  BY <1>1, NumberFacts DEF SearchStarts
<1> QED
  BY <1>3, <1>5, <1>7, <1>8, <1>9, <1>10, <1>11, NextNumber

LEMMA TryNextKeeps ==
    ASSUME Inv, NEW t \in Task, try_next(t)
    PROVE  Inv' /\ search'.by = t
<1> USE DEF Inv
<1>1. /\ search.by = t /\ search.i \in DOMAIN tasks /\ last_pid \in IdsOf(tasks[search.i])
      /\ UNCHANGED <<tasks, making, ids, pidhash>>
  BY DEF try_next
<1>2. Searching
  BY <1>1, NumberFacts DEF Searching, Unlocked
<1>3. /\ last_pid \in 1 .. PID_MAX - 1 /\ PID_MAX \in Nat /\ last_pid \in Nat
      /\ last_pid < PID_MAX /\ next_safe \in 1 .. PID_MAX /\ search \in Searches
      /\ search.begin \in Nat /\ search.begin < PID_MAX /\ last_pid # search.begin
      /\ next_safe \in Nat /\ next_safe <= PID_MAX
  <2>1. search.begin \in Numbers
    BY DEF Typed, Searches
  <2> QED
    BY <1>2, <2>1, NumberFacts DEF Typed, Search
<1>4. last_pid' = IF last_pid + 1 >= PID_MAX THEN FirstPid ELSE last_pid + 1
  <2>1. last_pid' = IF last_pid + 1 >= next_safe /\ last_pid + 1 >= PID_MAX
                    THEN FirstPid ELSE last_pid + 1
    BY DEF try_next
  <2>2. last_pid + 1 >= PID_MAX => last_pid + 1 >= next_safe
    BY <1>3
  <2> QED
    BY <2>1, <2>2
<1>5. next_safe' \in 1 .. PID_MAX
  BY <1>3, NumberFacts DEF try_next
<1>6. last_pid \notin Unused
  BY <1>1, EntryLinked DEF Unused
<1>7. PICK x \in Unused : Ahead(x)
  BY <1>2 DEF Search
<1>8. /\ last_pid' \in 1 .. PID_MAX - 1 /\ last_pid' # search.begin
      /\ IF last_pid' > search.begin THEN x >= last_pid' \/ (FirstPid <= x /\ x < search.begin)
                                     ELSE last_pid' <= x /\ x < search.begin
  <2>1. x \in 1 .. PID_MAX - 1 /\ x # last_pid
    BY <1>6, UnusedNumbers
  <2>2. IF last_pid > search.begin THEN x >= last_pid \/ (FirstPid <= x /\ x < search.begin)
                                   ELSE last_pid <= x /\ x < search.begin
    BY <1>7 DEF Ahead
  <2> QED
    BY <1>3, <1>4, <2>1, <2>2, StillAhead
<1>9. search' = [search EXCEPT !.i = 1]
  BY <1>8 DEF try_next
<1>10. /\ search' \in Searches /\ search'.by = t /\ search'.i = 1
       /\ search'.begin = search.begin
  BY <1>1, <1>3, <1>9 DEF Searches
<1>11. \E y \in Unused : Ahead(y)'
  BY <1>8, <1>10 DEF Ahead
<1>12. InCopy # {} => \E y \in Unused : y >= last_pid + 1
  <2>1. InCopy # {} => \E y \in Unused : y >= last_pid /\ y # last_pid
    BY <1>2, <1>6 DEF Search
  <2>2. \A y \in Unused : y >= last_pid /\ y # last_pid => y >= last_pid + 1
    BY <1>3, UnusedNumbers
  <2> QED
    BY <2>1, <2>2
<1>13. last_pid' = last_pid + 1 \/ InCopy = {}
  <2>1. last_pid + 1 >= PID_MAX => InCopy = {}
    BY <1>3, <1>12, UnusedNumbers
  <2> QED
    BY <1>4, <2>1
<1>14. InCopy # {} => \E y \in Unused : y >= last_pid'
  BY <1>12, <1>13
<1>15. t \in Linked /\ making[t] = NULL /\ \E c \in Task : c \notin Linked \cup InCopy
  BY <1>1, <1>2 DEF Search, Copying
<1> QED
  BY <1>1, <1>5, <1>8, <1>10, <1>11, <1>13, <1>14, <1>15, NextNumber

LEMMA PassTaskKeeps ==
    ASSUME Inv, NEW t \in Task, pass_task(t)
    PROVE  Inv'
<1> USE DEF Inv
<1>1. /\ search.by = t /\ search.i \in DOMAIN tasks /\ last_pid \notin IdsOf(tasks[search.i])
      /\ next_safe' = SafeBefore(next_safe, last_pid, tasks[search.i])
      /\ search' = [search EXCEPT !.i = search.i + 1]
      /\ UNCHANGED <<tasks, making, ids, pidhash, last_pid>>
  BY DEF pass_task
<1>2. /\ Linked' = Linked /\ InCopy' = InCopy /\ Unused' = Unused
      /\ \A u : IdsOf(u)' = IdsOf(u)
      /\ Lists' /\ Distinct'
  BY <1>1, OnlySearch
<1>3. Searching
  BY <1>1, NumberFacts DEF Searching, Unlocked
<1>4. /\ tasks \in Seq(Task) /\ search \in Searches /\ search.i \in Nat
      /\ tasks[search.i] \in Task /\ search.i \in 1 .. Len(tasks) /\ Len(tasks) \in Nat
      /\ next_safe \in 1 .. PID_MAX /\ last_pid \in 1 .. PID_MAX - 1
  BY <1>1, EntryLinked DEF Typed, Searches
<1>5. /\ next_safe' \in 1 .. next_safe
      /\ \A x \in IdsOf(tasks[search.i]) : x > last_pid => x >= next_safe'
  BY <1>1, <1>4, SafeBeforeFacts
<1>6. next_safe' \in 1 .. PID_MAX /\ next_safe' <= next_safe /\ next_safe \in Nat
  BY <1>4, <1>5, NumberFacts
<1>7. /\ search' \in Searches /\ search'.by = t /\ search'.i = search.i + 1
      /\ search'.begin = search.begin
  BY <1>1, <1>4 DEF Searches
<1>8. Typed'
  BY <1>1, <1>6, <1>7 DEF Typed
<1>9. Searching'
  BY <1>7, NumberFacts DEF Searching, Unlocked
<1>10. ASSUME NEW v \in Task PROVE Copying(v)' /\ Behind(v)'
  <2>1. Copying(v)'
    BY <1>1, <1>2, <1>7 DEF Copying
  <2>2. Behind(v)'
    BY <1>1, <1>3 DEF Behind
  <2> QED
    BY <2>1, <2>2
<1>11. Window'
  BY <1>9 DEF Window, Searching
<1>12. ASSUME NEW j \in 1 .. search'.i - 1 PROVE Clear(tasks[j])'
  <2>1. j \in 1 .. search.i
    BY <1>4, <1>7
  <2>2. tasks[j] \in Task
    BY <1>4, <2>1
  <2>3. \A x \in IdsOf(tasks[j]) : x \in Nat
    BY <2>2, IdsOfTask, NumberFacts
  <2>4. last_pid \in Nat /\ PID_MAX \in Nat /\ next_safe' \in Nat
    BY <1>4, <1>5, NumberFacts
  <2>5. CASE j = search.i
    <3>1. \A x \in IdsOf(tasks[j]) : x # last_pid /\ (x < last_pid \/ x >= next_safe')
      BY <1>1, <1>5, <2>3, <2>4, <2>5
    <3> QED
      BY <1>1, <1>2, <3>1 DEF Clear
  <2>6. CASE j # search.i
    <3>1. j \in 1 .. search.i - 1
      BY <1>4, <2>1, <2>6
    <3>2. \A x \in IdsOf(tasks[j]) : x # last_pid /\ (x < last_pid \/ x >= next_safe)
      BY <1>3, <3>1 DEF Search, Clear
    <3>3. \A x \in IdsOf(tasks[j]) : x # last_pid /\ (x < last_pid \/ x >= next_safe')
      BY <1>6, <2>3, <2>4, <3>2
    <3> QED
      BY <1>1, <1>2, <3>3 DEF Clear
  <2> QED
    BY <2>5, <2>6
<1>13. Search'
  <2>1. search'.i \in 1 .. Len(tasks') + 1
    BY <1>1, <1>4, <1>7
  <2>2. \A x \in Unused : Ahead(x)' <=> Ahead(x)
    BY <1>1, <1>7 DEF Ahead
  <2>3. \E x \in Unused' : Ahead(x)'
    BY <1>2, <1>3, <2>2 DEF Search
  <2>4. search'.by \in Linked' /\ last_pid' # search'.begin
    BY <1>1, <1>2, <1>3, <1>7 DEF Search
  <2>5. InCopy' # {} => \E x \in Unused' : x >= last_pid'
    BY <1>1, <1>2, <1>3 DEF Search
  <2>6. \E c \in Task : c \notin Linked' \cup InCopy'
    BY <1>2, <1>3 DEF Search
  <2> QED
    BY <1>12, <2>1, <2>3, <2>4, <2>5, <2>6 DEF Search
<1> QED
  BY <1>2, <1>8, <1>10, <1>11, <1>13

\* The search has passed all tasks.
LEMMA FoundKeeps ==
    ASSUME Inv, NEW t \in Task, found(t)
    PROVE  /\ Inv'
           /\ t \in Linked /\ making[t] = NULL /\ \E c \in Task : c \notin Linked \cup InCopy
           /\ \A u \in Linked : last_pid \notin IdsOf(u)
           /\ \A v \in Task : making[v] # NULL => ids[making[v]].pid < last_pid
<1> USE DEF Inv
<1>1. /\ search.by = t /\ search.i \notin DOMAIN tasks /\ Gets(t, last_pid)
      /\ search' = NoSearch /\ UNCHANGED <<tasks, pidhash, last_pid, next_safe>>
  BY DEF found
<1>2. Searching
  BY <1>1, NumberFacts DEF Searching, Unlocked
<1>3. t \in Linked /\ making[t] = NULL /\ \E c \in Task : c \notin Linked \cup InCopy
  BY <1>1, <1>2 DEF Search, Copying
<1>4. search.i = Len(tasks) + 1 /\ Len(tasks) \in Nat /\ DOMAIN tasks = 1 .. Len(tasks)
  BY <1>1, <1>2 DEF Typed, Search
<1>5. \A j \in DOMAIN tasks : Clear(tasks[j])
  BY <1>2, <1>4 DEF Search
<1>6. \A u \in Linked : Clear(u)
  BY <1>5, LinkedIsOnList DEF OnList
<1>7. ASSUME NEW u \in Linked
      PROVE  last_pid \notin IdsOf(u) /\ \A x \in IdsOf(u) : x <= last_pid \/ x >= next_safe
  <2>1. \A x \in IdsOf(u) : x \in Nat
    BY LinkedTasks, IdsOfTask, NumberFacts
  <2>2. last_pid \in Nat
    BY NumberFacts DEF Typed
  <2>3. \A x \in IdsOf(u) : x # last_pid /\ (x < last_pid \/ x >= next_safe)
    BY <1>6 DEF Clear
  <2> QED
    BY <2>1, <2>2, <2>3
<1>8. \A v \in Task : making[v] # NULL => ids[making[v]].pid < last_pid
  BY <1>2 DEF Behind
<1>9. NoSearch \in Searches /\ NoSearch.by = NULL
  BY NumberFacts DEF NoSearch, Searches
<1>10. search' \in Searches /\ Unlocked'
  BY <1>1, <1>9 DEF Unlocked
<1>11. last_pid \in 1 .. PID_MAX - 1
  BY DEF Typed
<1>12. Inv'
  BY <1>1, <1>3, <1>7, <1>8, <1>10, <1>11, GetsKeeps
<1> QED
  BY <1>3, <1>7, <1>8, <1>12

-----------------------------------------------------------------------------
(* The other steps.                                                        *)

LEMMA LinkKeeps ==
    ASSUME Inv, NEW t \in Task, link(t)
    PROVE  Inv'
<1> USE DEF Inv
<1>1. PICK c \in Task :
          /\ c = making[t] /\ c # NULL /\ t \in Linked /\ c \notin Linked
          /\ \A u \in Task : making[u] = c => u = t
          /\ ids[c].pgrp = ids[t].pgrp /\ ids[c].session = ids[t].session
          /\ ids[c].pid <= last_pid
  BY DEF link, Typed, Copying, Behind
<1>2. PICK g \in {ids[t].tgid, ids[c].pid} : ids' = [ids EXCEPT ![c].tgid = g]
  BY <1>1 DEF link
<1>3. /\ Unlocked /\ tasks' = Append(tasks, c)
      /\ pidhash' = [pidhash EXCEPT ![pid_hashfn(ids[c].pid)]
                                    = <<c>> \o pidhash[pid_hashfn(ids[c].pid)]]
      /\ making' = [making EXCEPT ![t] = NULL]
      /\ UNCHANGED <<last_pid, next_safe, search>>
  BY <1>1 DEF link
<1>4. /\ ids[c] \in Ids /\ ids[t] \in Ids /\ g \in Numbers /\ ids[c].pid \in Numbers
  BY <1>2 DEF Typed, Ids
<1>5. /\ ids' \in [Task -> Ids] /\ \A v \in Task \ {c} : ids'[v] = ids[v]
      /\ ids'[c].pid = ids[c].pid /\ ids'[c].pgrp = ids[t].pgrp /\ ids'[c].tgid = g
      /\ ids'[c].session = ids[t].session
  BY <1>1, <1>2, <1>4 DEF Typed, Ids
<1>6. \A v \in Task : ids'[v].pid = ids[v].pid
  BY <1>5
<1>7. /\ tasks' \in Seq(Task) /\ NoRepeat(tasks')
      /\ \A u : OnList(tasks', u) <=> (OnList(tasks, u) \/ u = c)
  <2>1. tasks \in Seq(Task) /\ NoRepeat(tasks) /\ ~OnList(tasks, c)
    BY <1>1, LinkedIsOnList DEF Typed, Lists
  <2> QED
    BY <1>3, <2>1, AppendFacts
<1>8. Linked' = Linked \cup {c}
  <2>1. \A u : u \in Linked' <=> OnList(tasks', u)
    BY DEF Linked, ToSet, OnList
  <2> QED
    BY <1>7, <2>1, LinkedIsOnList
<1>9. /\ making' \in [Task -> Task \cup {NULL}] /\ making'[t] = NULL
      /\ \A v \in Task \ {t} : making'[v] = making[v]
  BY <1>3 DEF Typed
<1>10. InCopy' = InCopy \ {c} /\ c \in InCopy
  <2>1. c \in InCopy
    BY <1>1 DEF InCopy
  <2>2. ASSUME NEW v PROVE v \in InCopy' <=> v \in InCopy \ {c}
    BY <1>1, <1>9 DEF InCopy
  <2> QED
    BY <2>1, <2>2
<1>11. pid_hashfn(ids[c].pid) \in Bucket
  BY <1>4, HashInBucket, NumberFacts
<1>12. \A b \in Bucket : /\ pidhash[b] \in Seq(Task) /\ NoRepeat(pidhash[b])
                         /\ ~OnList(pidhash[b], c)
  BY <1>1 DEF Typed, Lists, Hashed
<1>13. ASSUME NEW b \in Bucket
       PROVE  /\ pidhash'[b] \in Seq(Task) /\ NoRepeat(pidhash'[b])
              /\ \A u : OnList(pidhash'[b], u)
                            <=> (OnList(pidhash[b], u) \/ (u = c /\ b = pid_hashfn(ids[c].pid)))
  <2>1. CASE b = pid_hashfn(ids[c].pid)
    <3>1. pidhash'[b] = <<c>> \o pidhash[b]
      BY <1>3, <2>1 DEF Typed
    <3>2. /\ <<c>> \o pidhash[b] \in Seq(Task) /\ NoRepeat(<<c>> \o pidhash[b])
          /\ \A u : OnList(<<c>> \o pidhash[b], u) <=> (OnList(pidhash[b], u) \/ u = c)
      BY <1>12, PrependFacts
    <3> QED
      BY <2>1, <3>1, <3>2
  <2>2. CASE b # pid_hashfn(ids[c].pid)
    <3>1. pidhash'[b] = pidhash[b]
      BY <1>3, <2>2 DEF Typed
    <3> QED
      BY <1>12, <2>2, <3>1
  <2> QED
    BY <2>1, <2>2
<1>14. Typed'
  <2>1. pidhash' \in [Bucket -> Seq(Task)]
    BY <1>3, <1>13 DEF Typed
  <2> QED
    BY <1>3, <1>5, <1>7, <1>9, <2>1 DEF Typed
<1>15. Lists'
  <2>1. ASSUME NEW b \in Bucket, NEW v \in Task
        PROVE  OnList(pidhash'[b], v) <=> (v \in Linked' /\ b = pid_hashfn(ids'[v].pid))
    <3>1. OnList(pidhash[b], v) <=> (v \in Linked /\ b = pid_hashfn(ids[v].pid))
      BY DEF Lists, Hashed
    <3> QED
      BY <1>6, <1>8, <1>13, <3>1
  <2> QED
    BY <1>7, <1>13, <2>1 DEF Lists, Hashed
<1>16. ASSUME NEW v \in Task PROVE Copying(v)' /\ Behind(v)'
  <2>1. CASE v = t \/ making[v] = NULL
    BY <1>9, <2>1 DEF Copying, Behind
  <2>2. CASE v # t /\ making[v] # NULL
    <3>1. /\ making'[v] = making[v] /\ making[v] # c /\ v \in Linked /\ v # c
          /\ making[v] \in Task /\ making[v] \notin Linked'
      BY <1>1, <1>8, <1>9, <2>2 DEF Copying, Typed
    <3>2. ids'[v] = ids[v] /\ ids'[making[v]] = ids[making[v]]
      BY <1>5, <3>1
    <3>3. \A u \in Task : making'[u] = making[v] => u = v
      BY <1>9, <2>2 DEF Copying
    <3>4. Copying(v)'
      BY <1>3, <1>8, <2>2, <3>1, <3>2, <3>3 DEF Copying
    <3>5. Behind(v)'
      BY <1>3, <2>2, <3>1, <3>2 DEF Behind, Searching, Unlocked
    <3> QED
      BY <3>4, <3>5
  <2> QED
    BY <2>1, <2>2
<1>17. Distinct'
  <2>1. Linked' \cup InCopy' = Linked \cup InCopy /\ Linked \cup InCopy \subseteq Task
    BY <1>8, <1>10, LinkedTasks
  <2> QED
    BY <1>6, <2>1 DEF Distinct
<1>18. Window'
  <2>1. ASSUME NEW u \in Linked, u # c PROVE IdsOf(u)' = IdsOf(u)
    <3>1. ids'[u] = ids[u]
      BY <1>5, <2>1, LinkedTasks
    <3> QED
      BY <3>1 DEF IdsOf
  <2>2. \A x \in IdsOf(t) : x <= last_pid \/ x >= next_safe
    BY <1>1, <1>3 DEF Window
  <2>3. \A x \in IdsOf(c)' : x \in IdsOf(t) \/ x = ids[c].pid
    BY <1>2, <1>5 DEF IdsOf
  <2>4. ASSUME NEW u \in Linked \cup {c}
        PROVE  \A x \in IdsOf(u)' : x <= last_pid \/ x >= next_safe
    <3>1. CASE u = c
      BY <1>1, <2>2, <2>3, <3>1
    <3>2. CASE u # c
      <4>1. u \in Linked /\ IdsOf(u)' = IdsOf(u)
        BY <2>1, <3>2
      <4> QED
        BY <1>3, <4>1 DEF Window
    <3> QED
      BY <3>1, <3>2
  <2> QED
    BY <1>3, <1>8, <2>4 DEF Window
<1>19. Search'
  BY <1>3 DEF Search, Searching, Unlocked
<1> QED
  BY <1>14, <1>15, <1>16, <1>17, <1>18, <1>19

LEMMA CopyFailsKeeps ==
    ASSUME Inv, NEW t \in Task, copy_fails(t)
    PROVE  Inv'
<1> USE DEF Inv
<1>1. PICK c \in Task :
          /\ c = making[t] /\ c # NULL /\ t \in Linked /\ c \notin Linked
          /\ \A u \in Task : making[u] = c => u = t
  BY DEF copy_fails, Typed, Copying
<1>2. /\ ids' = [ids EXCEPT ![c] = NoIds] /\ making' = [making EXCEPT ![t] = NULL]
      /\ UNCHANGED <<tasks, pidhash, last_pid, next_safe, search>>
  BY <1>1 DEF copy_fails
<1>3. ids' \in [Task -> Ids] /\ \A v \in Task \ {c} : ids'[v] = ids[v]
  <2>1. NoIds \in Ids
    BY NumberFacts DEF NoIds, Ids
  <2> QED
    BY <1>2, <2>1 DEF Typed
<1>4. /\ making' \in [Task -> Task \cup {NULL}] /\ making'[t] = NULL
      /\ \A v \in Task \ {t} : making'[v] = making[v]
  BY <1>2 DEF Typed
<1>5. InCopy' = InCopy \ {c}
  <2>1. ASSUME NEW v PROVE v \in InCopy' <=> v \in InCopy \ {c}
    BY <1>1, <1>4 DEF InCopy
  <2> QED
    BY <2>1
<1>6. Linked' = Linked /\ \A u \in Linked : ids'[u] = ids[u] /\ IdsOf(u)' = IdsOf(u)
  <2>1. Linked' = Linked /\ \A u \in Linked : ids'[u] = ids[u]
    BY <1>1, <1>2, <1>3, LinkedTasks DEF Linked
  <2> QED
    BY <2>1 DEF IdsOf
<1>7. Unused' = Unused
  BY <1>6 DEF Unused
<1>8. Typed'
  BY <1>2, <1>3, <1>4 DEF Typed
<1>9. Lists'
  <2>1. ASSUME NEW b \in Bucket, NEW v \in Task
        PROVE  OnList(pidhash[b], v) <=> (v \in Linked' /\ b = pid_hashfn(ids'[v].pid))
    BY <1>6 DEF Lists, Hashed
  <2> QED
    BY <1>2, <2>1 DEF Lists, Hashed
<1>10. ASSUME NEW v \in Task PROVE Copying(v)' /\ Behind(v)'
  <2>1. CASE v = t \/ making[v] = NULL
    BY <1>4, <2>1 DEF Copying, Behind
  <2>2. CASE v # t /\ making[v] # NULL
    <3>1. /\ making'[v] = making[v] /\ making[v] # c /\ v \in Linked /\ v # c
          /\ making[v] \in Task
      BY <1>1, <1>4, <2>2 DEF Copying, Typed
    <3>2. ids'[v] = ids[v] /\ ids'[making[v]] = ids[making[v]]
      BY <1>3, <3>1
    <3>3. \A u \in Task : making'[u] = making[v] => u = v
      BY <1>4, <2>2 DEF Copying
    <3>4. Copying(v)'
      BY <1>2, <1>6, <2>2, <3>1, <3>2, <3>3 DEF Copying
    <3>5. Behind(v)'
      BY <1>2, <2>2, <3>1, <3>2 DEF Behind, Searching, Unlocked
    <3> QED
      BY <3>4, <3>5
  <2> QED
    BY <2>1, <2>2
<1>11. Distinct'
  <2> SUFFICES ASSUME NEW u \in Linked' \cup InCopy', NEW v \in Linked' \cup InCopy',
                      ids'[u].pid = ids'[v].pid
               PROVE  u = v
    BY DEF Distinct
  <2>1. u \in (Linked \cup InCopy) \ {c} /\ v \in (Linked \cup InCopy) \ {c}
    BY <1>1, <1>5, <1>6
  <2>2. ids'[u] = ids[u] /\ ids'[v] = ids[v]
    BY <1>3, <2>1, LinkedTasks
  <2> QED
    BY <2>1, <2>2 DEF Distinct
<1>12. Window'
  BY <1>2, <1>6 DEF Window, Unlocked
<1>13. Search'
  <2>1. CASE Unlocked
    BY <1>2, <2>1 DEF Search, Searching, Unlocked
  <2>2. CASE Searching
    <3>1. \A j \in 1 .. search.i - 1 : Clear(tasks[j])'
      <4> SUFFICES ASSUME NEW j \in 1 .. search.i - 1 PROVE Clear(tasks[j])'
        OBVIOUS
      <4>1. j \in DOMAIN tasks
        BY <2>2 DEF Search, Typed
      <4>2. tasks[j] \in Linked /\ Clear(tasks[j]) /\ tasks'[j] = tasks[j]
        BY <1>2, <2>2, <4>1, EntryLinked DEF Search
      <4>3. IdsOf(tasks[j])' = IdsOf(tasks[j])
        BY <1>2, <1>6, <4>2 DEF IdsOf
      <4> QED
        BY <1>2, <4>2, <4>3 DEF Clear
    <3>2. \A x \in Unused : Ahead(x)' <=> Ahead(x)
      BY <1>2 DEF Ahead
    <3>3. \E x \in Unused' : Ahead(x)'
      BY <1>7, <2>2, <3>2 DEF Search
    <3>4. InCopy' # {} => \E x \in Unused' : x >= last_pid'
      BY <1>2, <1>5, <1>7, <2>2 DEF Search
    <3>5. \E d \in Task : d \notin Linked' \cup InCopy'
      BY <1>1, <1>5, <1>6
    <3>6. /\ search'.by \in Linked' /\ search'.i \in 1 .. Len(tasks') + 1
          /\ last_pid' # search'.begin
      BY <1>2, <1>6, <2>2 DEF Search
    <3> QED
      BY <1>2, <3>1, <3>3, <3>4, <3>5, <3>6 DEF Search
  <2> QED
    BY <2>1, <2>2 DEF Searching
<1> QED
  BY <1>8, <1>9, <1>10, <1>11, <1>12, <1>13

LEMMA SetsidKeeps ==
    ASSUME Inv, NEW t \in Task, setsid(t)
    PROVE  Inv'
<1> USE DEF Inv
<1>1. /\ t \in Linked /\ making[t] = NULL
      /\ ids' = [ids EXCEPT ![t].pgrp = ids[t].pid, ![t].session = ids[t].pid]
      /\ UNCHANGED <<tasks, making, pidhash, last_pid, next_safe, search>>
  BY DEF setsid, Idle
<1>2. /\ ids' \in [Task -> Ids] /\ \A v \in Task \ {t} : ids'[v] = ids[v]
      /\ ids'[t].pid = ids[t].pid /\ ids'[t].pgrp = ids[t].pid /\ ids'[t].tgid = ids[t].tgid
      /\ ids'[t].session = ids[t].pid
  <2>1. ids[t] \in Ids /\ ids[t].pid \in Numbers
    BY DEF Typed, Ids
  <2> QED
    BY <1>1, <2>1 DEF Typed, Ids
<1>3. Linked' = Linked /\ InCopy' = InCopy /\ \A v \in Task : ids'[v].pid = ids[v].pid
  BY <1>1, <1>2 DEF Linked, InCopy
<1>4. ASSUME NEW u \in Linked PROVE IdsOf(u)' \subseteq IdsOf(u)
  <2>1. CASE u = t
    BY <1>2, <2>1 DEF IdsOf
  <2>2. CASE u # t
    <3>1. ids'[u] = ids[u]
      BY <1>2, <2>2, LinkedTasks
    <3> QED
      BY <3>1 DEF IdsOf
  <2> QED
    BY <2>1, <2>2
<1>5. Unused \subseteq Unused'
  BY <1>3, <1>4 DEF Unused
<1>6. Typed'
  BY <1>1, <1>2 DEF Typed
<1>7. Lists'
  <2>1. ASSUME NEW b \in Bucket, NEW v \in Task
        PROVE  OnList(pidhash[b], v) <=> (v \in Linked' /\ b = pid_hashfn(ids'[v].pid))
    BY <1>3 DEF Lists, Hashed
  <2> QED
    BY <1>1, <2>1 DEF Lists, Hashed
<1>8. ASSUME NEW v \in Task PROVE Copying(v)' /\ Behind(v)'
  <2>1. CASE making[v] = NULL
    BY <1>1, <2>1 DEF Copying, Behind
  <2>2. CASE making[v] # NULL
    <3>1. v # t /\ making[v] # t /\ making[v] \in Task
      BY <1>1, <2>2 DEF Copying, Typed
    <3>2. ids'[v] = ids[v] /\ ids'[making[v]] = ids[making[v]]
      BY <1>2, <3>1
    <3>3. Copying(v)'
      BY <1>1, <1>3, <2>2, <3>2 DEF Copying
    <3>4. Behind(v)'
      BY <1>1, <2>2, <3>2 DEF Behind, Searching, Unlocked
    <3> QED
      BY <3>3, <3>4
  <2> QED
    BY <2>1, <2>2
<1>9. Distinct'
  BY <1>3, LinkedTasks DEF Distinct
<1>10. Window'
  BY <1>1, <1>3, <1>4 DEF Window, Unlocked
<1>11. Search'
  <2>1. CASE Unlocked
    BY <1>1, <2>1 DEF Search, Searching, Unlocked
  <2>2. CASE Searching
    <3>1. \A j \in 1 .. search.i - 1 : Clear(tasks[j])'
      <4> SUFFICES ASSUME NEW j \in 1 .. search.i - 1 PROVE Clear(tasks[j])'
        OBVIOUS
      <4>1. j \in DOMAIN tasks
        BY <2>2 DEF Search, Typed
      <4>2. tasks[j] \in Linked /\ Clear(tasks[j]) /\ tasks'[j] = tasks[j]
        BY <1>1, <2>2, <4>1, EntryLinked DEF Search
      <4>3. IdsOf(tasks[j])' \subseteq IdsOf(tasks[j])
        BY <1>1, <1>4, <4>2 DEF IdsOf
      <4> QED
        BY <1>1, <4>2, <4>3 DEF Clear
    <3>2. \A x \in Unused : Ahead(x)' <=> Ahead(x)
      BY <1>1 DEF Ahead
    <3>3. \E x \in Unused' : Ahead(x)'
      BY <1>5, <2>2, <3>2 DEF Search
    <3>4. InCopy' # {} => \E x \in Unused' : x >= last_pid'
      BY <1>1, <1>3, <1>5, <2>2 DEF Search
    <3>5. \E d \in Task : d \notin Linked' \cup InCopy'
      BY <1>3, <2>2 DEF Search
    <3>6. /\ search'.by \in Linked' /\ search'.i \in 1 .. Len(tasks') + 1
          /\ last_pid' # search'.begin
      BY <1>1, <1>3, <2>2 DEF Search
    <3> QED
      BY <1>1, <3>1, <3>3, <3>4, <3>5, <3>6 DEF Search
  <2> QED
    BY <2>1, <2>2 DEF Searching
<1> QED
  BY <1>6, <1>7, <1>8, <1>9, <1>10, <1>11

LEMMA UnhashKeeps ==
    ASSUME Inv, NEW t \in Task, unhash_process(t)
    PROVE  Inv'
<1> USE DEF Inv
<1>1. /\ t \in Linked /\ making[t] = NULL /\ Unlocked
      /\ tasks' = RemoveFirst(tasks, t)
      /\ pidhash' = [pidhash EXCEPT ![pid_hashfn(ids[t].pid)]
                                    = RemoveFirst(pidhash[pid_hashfn(ids[t].pid)], t)]
      /\ ids' = [ids EXCEPT ![t] = NoIds]
      /\ UNCHANGED <<making, last_pid, next_safe, search>>
  BY DEF unhash_process, Idle, Unhashed
<1>2. ids' \in [Task -> Ids] /\ \A v \in Task \ {t} : ids'[v] = ids[v]
  <2>1. NoIds \in Ids
    BY NumberFacts DEF NoIds, Ids
  <2> QED
    BY <1>1, <2>1 DEF Typed
<1>3. /\ tasks' \in Seq(Task) /\ NoRepeat(tasks')
      /\ \A u : OnList(tasks', u) <=> (OnList(tasks, u) /\ u # t)
  <2>1. tasks \in Seq(Task) /\ NoRepeat(tasks)
    BY DEF Typed, Lists
  <2> QED
    BY <1>1, <2>1, RemoveFacts
<1>4. Linked' = Linked \ {t}
  <2>1. \A u : u \in Linked' <=> OnList(tasks', u)
    BY DEF Linked, ToSet, OnList
  <2> QED
    BY <1>3, <2>1, LinkedIsOnList
<1>5. \A u \in Linked' : u \in Task /\ ids'[u] = ids[u] /\ IdsOf(u)' = IdsOf(u)
  <2>1. \A u \in Linked' : u \in Task /\ ids'[u] = ids[u]
    BY <1>2, <1>4, LinkedTasks
  <2> QED
    BY <2>1 DEF IdsOf
<1>6. InCopy' = InCopy /\ t \notin InCopy
  BY <1>1 DEF InCopy, Copying
<1>7. ASSUME NEW b \in Bucket
      PROVE  /\ pidhash'[b] \in Seq(Task) /\ NoRepeat(pidhash'[b])
             /\ \A u \in Task : OnList(pidhash'[b], u) <=> (OnList(pidhash[b], u) /\ u # t)
  <2>1. /\ pidhash[b] \in Seq(Task) /\ NoRepeat(pidhash[b])
        /\ OnList(pidhash[b], t) <=> b = pid_hashfn(ids[t].pid)
    BY <1>1 DEF Typed, Lists, Hashed
  <2>2. CASE b = pid_hashfn(ids[t].pid)
    <3>1. pidhash'[b] = RemoveFirst(pidhash[b], t)
      BY <1>1, <2>2 DEF Typed
    <3>2. /\ RemoveFirst(pidhash[b], t) \in Seq(Task) /\ NoRepeat(RemoveFirst(pidhash[b], t))
          /\ \A u : OnList(RemoveFirst(pidhash[b], t), u) <=> (OnList(pidhash[b], u) /\ u # t)
      BY <2>1, RemoveFacts
    <3> QED
      BY <3>1, <3>2
  <2>3. CASE b # pid_hashfn(ids[t].pid)
    <3>1. pidhash'[b] = pidhash[b]
      BY <1>1, <2>3 DEF Typed
    <3> QED
      BY <2>1, <2>3, <3>1
  <2> QED
    BY <2>2, <2>3
<1>8. Typed'
  <2>1. pidhash' \in [Bucket -> Seq(Task)]
    BY <1>1, <1>7 DEF Typed
  <2> QED
    BY <1>1, <1>2, <1>3, <2>1 DEF Typed
<1>9. Lists'
  <2>1. ASSUME NEW b \in Bucket, NEW v \in Task
        PROVE  OnList(pidhash'[b], v) <=> (v \in Linked' /\ b = pid_hashfn(ids'[v].pid))
    <3>1. OnList(pidhash[b], v) <=> (v \in Linked /\ b = pid_hashfn(ids[v].pid))
      BY DEF Lists, Hashed
    <3>2. v # t => ids'[v] = ids[v]
      BY <1>2
    <3> QED
      BY <1>4, <1>7, <3>1, <3>2
  <2> QED
    BY <1>3, <1>7, <2>1 DEF Lists, Hashed
<1>10. ASSUME NEW v \in Task PROVE Copying(v)' /\ Behind(v)'
  <2>1. CASE making[v] = NULL
    BY <1>1, <2>1 DEF Copying, Behind
  <2>2. CASE making[v] # NULL
    <3>1. v # t /\ making[v] # t /\ making[v] \in Task /\ v \in Linked
      BY <1>1, <2>2 DEF Copying, Typed
    <3>2. ids'[v] = ids[v] /\ ids'[making[v]] = ids[making[v]]
      BY <1>2, <3>1
    <3>3. Copying(v)'
      BY <1>1, <1>4, <2>2, <3>1, <3>2 DEF Copying
    <3>4. Behind(v)'
      BY <1>1, <2>2, <3>2 DEF Behind, Searching, Unlocked
    <3> QED
      BY <3>3, <3>4
  <2> QED
    BY <2>1, <2>2
<1>11. Distinct'
  <2>1. Linked' \cup InCopy' = (Linked \cup InCopy) \ {t}
    BY <1>4, <1>6
  <2>2. \A u \in Linked' \cup InCopy' : ids'[u] = ids[u]
    BY <1>2, <2>1, LinkedTasks
  <2> QED
    BY <2>1, <2>2 DEF Distinct
<1>12. Window'
  BY <1>1, <1>4, <1>5 DEF Window, Unlocked
<1>13. Search'
  BY <1>1 DEF Search, Searching, Unlocked
<1> QED
  BY <1>8, <1>9, <1>10, <1>11, <1>12, <1>13

LEMMA NextInv == Undisturbed => (Inv /\ [Next]_vars => Inv')
<1> SUFFICES ASSUME Undisturbed, Inv, [Next]_vars PROVE Inv'
  OBVIOUS
<1>1. CASE UNCHANGED vars
  <2>1. UNCHANGED <<tasks, making, ids, pidhash, last_pid, next_safe, search>>
    BY <1>1 DEF vars
  <2>2. /\ Linked' = Linked /\ InCopy' = InCopy /\ Unused' = Unused
        /\ \A u : IdsOf(u)' = IdsOf(u)
        /\ Lists' /\ Distinct'
    BY <2>1, OnlySearch
  <2>3. Typed'
    BY <2>1 DEF Inv, Typed
  <2>4. \A t \in Task : Copying(t)' /\ Behind(t)'
    BY <2>1, <2>2 DEF Inv, Copying, Behind, Searching, Unlocked
  <2>5. Window'
    BY <2>1, <2>2 DEF Inv, Window, Unlocked
  <2>6. Search'
    <3>1. \A u : Clear(u)' <=> Clear(u)
      BY <2>1, <2>2 DEF Clear
    <3>2. \A x : Ahead(x)' <=> Ahead(x)
      BY <2>1 DEF Ahead
    <3> QED
      BY <2>1, <2>2, <3>1, <3>2 DEF Inv, Search, Searching, Unlocked
  <2> QED
    BY <2>2, <2>3, <2>4, <2>5, <2>6 DEF Inv
<1>2. ASSUME NEW t \in Task, do_fork(t) PROVE Inv'
  <2>1. /\ Idle(t) /\ Unlocked /\ \E c \in Task : c \notin Linked \cup InCopy
    BY <1>2 DEF do_fork
  <2>2. CASE /\ last_pid + 1 < PID_MAX /\ last_pid + 1 < next_safe
             /\ last_pid' = last_pid + 1 /\ Gets(t, last_pid + 1)
             /\ UNCHANGED <<next_safe, search, tasks, pidhash>>
    BY <2>1, <2>2, QuickFork
  <2>3. CASE SearchStarts(t)
    BY <2>1, <2>3, SearchStartsKeeps
  <2> QED
    BY <1>2, <2>2, <2>3 DEF do_fork, SearchStarts
<1>3. ASSUME NEW t \in Task, get_pid(t) PROVE Inv'
  BY <1>3, TryNextKeeps, PassTaskKeeps, FoundKeeps DEF get_pid
<1>4. ASSUME NEW t \in Task, link(t) \/ copy_fails(t) \/ setsid(t) \/ unhash_process(t)
      PROVE  Inv'
  BY <1>4, LinkKeeps, CopyFailsKeeps, SetsidKeeps, UnhashKeeps
<1> QED
  BY <1>1, <1>2, <1>3, <1>4 DEF Next
-----------------------------------------------------------------------------
(* Theorems.                                                               *)

\* A task is the only one of its number in its chain.
LEMMA Finds == Inv => HashFinds
<1> SUFFICES ASSUME Inv PROVE HashFinds
  OBVIOUS
<1> USE DEF Inv
<1>1. ASSUME NEW t \in Linked PROVE find_task_by_pid(ids[t].pid) = t
  <2> DEFINE b == pid_hashfn(ids[t].pid)
             hits == {i \in DOMAIN pidhash[b] : ids[pidhash[b][i]].pid = ids[t].pid}
  <2>1. t \in Task /\ ids[t].pid \in Nat /\ b \in Bucket
    BY LinkedTasks, IdsOfTask, HashInBucket, NumberFacts
  <2>2. Hashed(b) /\ pidhash[b] \in Seq(Task)
    BY <2>1 DEF Lists, Typed
  <2>3. PICK k \in DOMAIN pidhash[b] : pidhash[b][k] = t
    BY <2>1, <2>2 DEF Hashed, OnList
  <2>4. ASSUME NEW i \in hits PROVE i = k
    <3>1. pidhash[b][i] \in Task /\ OnList(pidhash[b], pidhash[b][i])
      BY <2>2 DEF OnList
    <3>2. pidhash[b][i] \in Linked
      BY <2>2, <3>1 DEF Hashed
    <3>3. pidhash[b][i] = t
      BY <3>2 DEF Distinct
    <3> QED
      BY <2>2, <2>3, <3>3 DEF Hashed, NoRepeat
  <2>5. hits = {k}
    BY <2>3, <2>4
  <2>6. k \in Nat /\ Min({k}) = k
    <3>1. k \in Nat
      BY <2>2
    <3> QED
      BY <3>1, LeastNumber
  <2>7. find_task_by_pid(ids[t].pid) = IF hits = {} THEN NULL ELSE pidhash[b][Min(hits)]
    BY DEF find_task_by_pid
  <2> QED
    BY <2>3, <2>5, <2>6, <2>7
<1>2. ASSUME NEW b \in Bucket PROVE ToSet(pidhash[b]) \subseteq Linked
  <2>1. Hashed(b) /\ pidhash[b] \in Seq(Task)
    BY DEF Lists, Typed
  <2> QED
    BY <2>1 DEF Hashed, OnList, ToSet
<1> QED
  BY <1>1, <1>2 DEF HashFinds

\* The number of the new child is nobody's.
Fresh ==
    \A t \in Task : making'[t] # making[t] /\ making'[t] # NULL =>
        \A u \in Linked \cup InCopy : ids'[making'[t]].pid \notin IdsOf(u)

LEMMA FreshWhenFree ==
    ASSUME Inv, NEW t \in Linked, making[t] = NULL, NEW n \in Numbers, Gets(t, n),
           \E c \in Task : c \notin Linked \cup InCopy,
           \A u \in Linked : n \notin IdsOf(u),
           \A v \in Task : making[v] # NULL => ids[making[v]].pid < n
    PROVE  Fresh
<1>1. PICK c \in Task :
          /\ making'[t] = c /\ \A v \in Task \ {t} : making'[v] = making[v]
          /\ ids'[c].pid = n
  BY GetsFacts
<1>2. ASSUME NEW u \in InCopy PROVE n \notin IdsOf(u)
  <2>1. PICK v \in Task : making[v] = u /\ u # NULL
    BY DEF InCopy
  <2>2. v \in Linked /\ ids[u].pgrp = ids[v].pgrp /\ ids[u].tgid = ids[v].tgid
        /\ ids[u].session = ids[v].session
    BY <2>1 DEF Inv, Copying
  <2>3. ids[u].pid # n
    <3>1. u \in Task
      BY LinkedTasks DEF Inv
    <3>2. ids[u].pid \in Nat /\ n \in Nat
      BY <3>1, IdsOfTask, NumberFacts DEF Inv
    <3>3. ids[u].pid < n
      BY <2>1
    <3> QED
      BY <3>2, <3>3
  <2>4. n \notin IdsOf(v)
    BY <2>2
  <2> QED
    BY <2>2, <2>3, <2>4 DEF IdsOf
<1> QED
  BY <1>1, <1>2 DEF Fresh

LEMMA FreshStep == Undisturbed => (Inv /\ [Next]_vars => [Fresh]_vars)
<1> SUFFICES ASSUME Undisturbed, Inv, Next PROVE Fresh
  OBVIOUS
<1>1. PICK t \in Task :
          do_fork(t) \/ get_pid(t) \/ link(t) \/ copy_fails(t) \/ setsid(t) \/ unhash_process(t)
  BY DEF Next
<1>2. CASE do_fork(t)
  <2>1. /\ Idle(t) /\ Unlocked /\ \E c \in Task : c \notin Linked \cup InCopy
    BY <1>2 DEF do_fork
  <2>2. CASE /\ last_pid + 1 < PID_MAX /\ last_pid + 1 < next_safe
             /\ last_pid' = last_pid + 1 /\ Gets(t, last_pid + 1)
             /\ UNCHANGED <<next_safe, search, tasks, pidhash>>
    <3>1. /\ \A u \in Linked : last_pid + 1 \notin IdsOf(u)
          /\ \A v \in Task : making[v] # NULL => ids[making[v]].pid < last_pid + 1
      BY <2>1, <2>2, QuickFork
    <3>2. last_pid + 1 \in Numbers
      BY <2>2, NumberFacts DEF Inv, Typed
    <3>3. t \in Linked /\ making[t] = NULL
      BY <2>1 DEF Idle
    <3> QED
      BY <2>1, <2>2, <3>1, <3>2, <3>3, FreshWhenFree
  <2>3. CASE UNCHANGED making
    BY <2>3 DEF Fresh
  <2> QED
    BY <1>2, <2>2, <2>3 DEF do_fork
<1>3. CASE found(t)
  <2>1. /\ t \in Linked /\ making[t] = NULL /\ \E c \in Task : c \notin Linked \cup InCopy
        /\ \A u \in Linked : last_pid \notin IdsOf(u)
        /\ \A v \in Task : making[v] # NULL => ids[making[v]].pid < last_pid
    BY <1>3, FoundKeeps
  <2>2. last_pid \in Numbers
    BY NumberFacts DEF Inv, Typed
  <2> QED
    BY <1>3, <2>1, <2>2, FreshWhenFree DEF found
<1>4. CASE link(t) \/ copy_fails(t)
  <2>1. making' = [making EXCEPT ![t] = NULL]
    BY <1>4 DEF link, copy_fails
  <2> QED
    BY <2>1 DEF Fresh, Inv, Typed
<1>5. CASE try_next(t) \/ pass_task(t) \/ setsid(t) \/ unhash_process(t)
  <2>1. UNCHANGED making
    BY <1>5 DEF try_next, pass_task, setsid, unhash_process
  <2> QED
    BY <2>1 DEF Fresh
<1> QED
  BY <1>1, <1>2, <1>3, <1>4, <1>5 DEF get_pid

\* A search never comes back to beginpid: a fork does not fail for want of a number.
GoesOn == \A t \in Task : try_next(t) => search'.by = t

\* The inductive invariant: what is known of the numbers between last_pid and next_safe,
\* of the tasks that a search has passed, and of the children that are being copied.
THEOREM AlwaysInv == ASSUME Undisturbed PROVE Spec => []Inv
<1>1. Inv /\ [Next]_vars => Inv'
  BY NextInv
<1> QED
  BY <1>1, InitInv, PTL DEF Spec

\* Every process is found under its number, so no two have the same, and nobody is found
\* who is gone: find_task_by_pid, hash_pid and unhash_pid.
THEOREM NumbersAreFound == ASSUME Undisturbed PROVE Spec => []HashFinds
BY AlwaysInv, Finds, PTL

\* get_pid gives a number that no process, no child that is being copied, and no group or
\* session that outlived its leader has, though it mostly looks at no task.
THEOREM NumberIsFresh == ASSUME Undisturbed PROVE Spec => FreshPid
<1>1. Inv /\ [Next]_vars => [Fresh]_vars
  BY FreshStep
<1>2. Spec => [][Fresh]_vars
  BY <1>1, AlwaysInv, PTL DEF Spec
<1> QED
  BY <1>2 DEF FreshPid, Fresh

\* get_pid gives up when last_pid has come back to beginpid (nomorepids): not while
\* a number is free.
THEOREM SearchIsNotGivenUp == ASSUME Undisturbed PROVE Spec => [][GoesOn]_vars
<1>1. Inv /\ [Next]_vars => [GoesOn]_vars
  BY TryNextKeeps DEF GoesOn
<1> QED
  BY <1>1, AlwaysInv, PTL DEF Spec
=============================================================================
