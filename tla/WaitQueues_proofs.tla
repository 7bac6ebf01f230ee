------------------------- MODULE WaitQueues_proofs -------------------------
(***************************************************************************)
(* Theorems about WaitQueues, for every finite set of tasks, every choice  *)
(* of calls and every bound on the completions.                            *)
(***************************************************************************)
EXTENDS WaitQueues, ListLemmas
-----------------------------------------------------------------------------
(* The inductive invariant.                                                *)

Kinds == Events \cup SleepOns \cup {"completion", "none"}
States == Both \cup {"RUNNING"}
Scans == [mode : SUBSET Both, nr : Int, rest : Seq(Task)]

\* TypeOK, but for the bound on the number of tasks that a scan has woken.
Typed ==
    /\ done \in 0 .. MaxDone
    /\ list \in [Queue -> Seq(Task)] /\ exclusive \subseteq Task
    /\ scan \in [Queue -> Scans]
    /\ condition \in BOOLEAN /\ owed \in BOOLEAN
    /\ state \in [Task -> States] /\ queued \in [Task -> BOOLEAN]
    /\ sigpending \in [Task -> BOOLEAN]
    /\ how \in [Task -> Kinds] /\ at \in [Task -> At]

\* The flag of an entry is that of the call, and who is off the run queue is in
\* schedule() and has not been woken.
InCall(t) ==
    /\ (how[t] = "none") <=> (at[t] = "run")
    /\ how[t] \in SleepOns \cup {"completion"} => at[t] \in {"wait", "woken"}
    /\ how[t] \in Ordinary \cup SleepOns => t \notin exclusive
    /\ how[t] \in {"exclusive", "completion"} => t \in exclusive
    /\ ~queued[t] => at[t] = "woken" /\ state[t] # "RUNNING"

Belongs(t, r) == how[t] # "none" /\ ((how[t] = "completion") <=> (r = "x"))

\* The tasks that wait are on the list, once, the exclusive ones last.
InOrder(r) ==
    /\ NoRepeat(list[r]) /\ Sorted(list[r], exclusive)
    /\ \A t \in Task : OnList(list[r], t) <=> Belongs(t, r)

\* A waker has the end of the list before it, and has woken at most those it passed.
Scanned(r) ==
    ~Unlocked(r) =>
        /\ Suffix(scan[r].rest, list[r])
        /\ scan[r].nr = 1 \/ scan[r].nr \in -(Len(list[r]) - Len(scan[r].rest)) .. 0

\* NoLostWakeUp, while the lock is held too: whoever sleeps is still to be woken.
Told ==
    condition /\ ~owed =>
        \A t \in Task :
            how[t] \in Ordinary /\ (Sleeping(t) \/ OffSoon(t)) =>
                scan["q"].mode = Both /\ OnList(scan["q"].rest, t)

Inv ==
    /\ Typed
    /\ \A t \in Task : InCall(t)
    /\ \A r \in Queue : InOrder(r) /\ Scanned(r)
    /\ Told

LEMMA InitInv == Init => Inv
<1> SUFFICES ASSUME Init PROVE Inv
  OBVIOUS
<1> USE DEF Init
<1>1. Typed
  <2>1. done \in 0 .. MaxDone
    BY DoneAssumption
  <2>2. list \in [Queue -> Seq(Task)] /\ exclusive \subseteq Task
    OBVIOUS
  <2>3. None \in Scans
    BY DEF None, Scans
  <2>4. scan \in [Queue -> Scans]
    BY <2>3
  <2>5. /\ state \in [Task -> States] /\ queued \in [Task -> BOOLEAN]
        /\ sigpending \in [Task -> BOOLEAN]
        /\ how \in [Task -> Kinds] /\ at \in [Task -> At]
    BY DEF States, Kinds, At
  <2> QED
    BY <2>1, <2>2, <2>4, <2>5 DEF Typed
<1>2. \A t \in Task : InCall(t)
  BY DEF InCall, Events, SleepOns, Ordinary
<1>3. ASSUME NEW r \in Queue PROVE InOrder(r) /\ Scanned(r)
  <2>1. list[r] = << >> /\ DOMAIN list[r] = {}
    OBVIOUS
  <2>2. InOrder(r)
    BY <2>1 DEF InOrder, NoRepeat, Sorted, OnList, Belongs
  <2>3. Unlocked(r)
    BY DEF Unlocked
  <2> QED
    BY <2>2, <2>3 DEF Scanned
<1> QED
  BY <1>1, <1>2, <1>3 DEF Inv, Told
-----------------------------------------------------------------------------
(* A step that puts an entry on a list, or takes one off.                  *)

Flags == {"exclusive", "completion"}

\* t calls h, which puts its entry on r.
Enlists(t, r, h) ==
    /\ how[t] = "none" /\ h \in Kinds \ {"none"} /\ (h = "completion" <=> r = "x")
    /\ add_wait_queue(r, t, h \in Flags)
    /\ how' = [how EXCEPT ![t] = h]
    /\ UNCHANGED scan

\* t returns, and takes its entry off r.
Delists(t, r) ==
    /\ Belongs(t, r)
    /\ remove_wait_queue(r, t)
    /\ how' = [how EXCEPT ![t] = "none"]
    /\ UNCHANGED scan

LEMMA AddedFacts ==
    ASSUME NEW r, NEW t \in Task, list[r] \in Seq(Task), NoRepeat(list[r]),
           ~OnList(list[r], t), NEW S, Sorted(list[r], S), NEW flag
    PROVE  /\ Added(r, t, flag) \in Seq(Task) /\ NoRepeat(Added(r, t, flag))
           /\ \A u : OnList(Added(r, t, flag), u) <=> (OnList(list[r], u) \/ u = t)
           /\ Sorted(Added(r, t, flag), IF flag THEN S \cup {t} ELSE S \ {t})
<1>1. CASE flag
  BY <1>1, AppendFacts DEF Added
<1>2. CASE ~flag
  BY <1>2, PrependFacts DEF Added
<1> QED
  BY <1>1, <1>2

LEMMA EnlistsKeeps ==
    ASSUME Inv, NEW t \in Task, NEW r \in Queue, NEW h, Enlists(t, r, h)
    PROVE  /\ list' \in [Queue -> Seq(Task)] /\ exclusive' \subseteq Task
           /\ \A q \in Queue : InOrder(q)' /\ Scanned(q)'
<1> USE DEF Inv, Typed
<1>1. /\ how[t] = "none" /\ h # "none" /\ (h = "completion" <=> r = "x")
      /\ Unlocked(r) /\ scan' = scan
      /\ list' = [list EXCEPT ![r] = Added(r, t, h \in Flags)]
      /\ exclusive' = IF h \in Flags THEN exclusive \cup {t} ELSE exclusive \ {t}
      /\ how' = [how EXCEPT ![t] = h]
  BY DEF Enlists, add_wait_queue
<1>2. ASSUME NEW q \in Queue
      PROVE  /\ list[q] \in Seq(Task) /\ NoRepeat(list[q]) /\ Sorted(list[q], exclusive)
             /\ \A u \in Task : OnList(list[q], u) <=> Belongs(u, q)
             /\ ~OnList(list[q], t)
  BY <1>1 DEF InOrder, Belongs
<1>3. /\ Added(r, t, h \in Flags) \in Seq(Task) /\ NoRepeat(Added(r, t, h \in Flags))
      /\ \A u \in Task :
             OnList(Added(r, t, h \in Flags), u) <=> (OnList(list[r], u) \/ u = t)
      /\ Sorted(Added(r, t, h \in Flags), exclusive')
  <2> DEFINE E == IF h \in Flags THEN exclusive \cup {t} ELSE exclusive \ {t}
  <2>1. /\ list[r] \in Seq(Task) /\ NoRepeat(list[r]) /\ ~OnList(list[r], t)
        /\ Sorted(list[r], exclusive)
    BY <1>2
  <2>2. exclusive' = E
    BY <1>1
  <2>3. /\ Added(r, t, h \in Flags) \in Seq(Task) /\ NoRepeat(Added(r, t, h \in Flags))
        /\ \A u :
               OnList(Added(r, t, h \in Flags), u) <=> (OnList(list[r], u) \/ u = t)
        /\ Sorted(Added(r, t, h \in Flags), E)
    BY <2>1, AddedFacts
  <2> QED
    BY <2>2, <2>3
<1>4. list'[r] = Added(r, t, h \in Flags) /\ \A q \in Queue \ {r} : list'[q] = list[q]
  BY <1>1
<1>5. list' \in [Queue -> Seq(Task)] /\ exclusive' \subseteq Task
  BY <1>1, <1>3
<1>6. \A u \in Task : how'[u] = IF u = t THEN h ELSE how[u]
  BY <1>1
<1>7. InOrder(r)'
  <2>1. ASSUME NEW u \in Task PROVE OnList(list'[r], u) <=> Belongs(u, r)'
    BY <1>1, <1>2, <1>3, <1>4, <1>6 DEF Belongs
  <2> QED
    BY <1>3, <1>4, <2>1 DEF InOrder
<1>8. ASSUME NEW q \in Queue, q # r PROVE InOrder(q)'
  <2>1. list'[q] = list[q]
    BY <1>4, <1>8
  <2>2. ASSUME NEW u \in Task PROVE OnList(list'[q], u) <=> Belongs(u, q)'
    BY <1>1, <1>2, <1>6, <1>8, <2>1 DEF Belongs, Queue
  <2>3. Sorted(list'[q], exclusive')
    BY <1>1, <1>2, <2>1, SortedElsewhere
  <2> QED
    BY <1>2, <2>1, <2>2, <2>3 DEF InOrder
<1>9. ASSUME NEW q \in Queue PROVE Scanned(q)'
  <2>1. CASE q = r
    BY <1>1, <2>1 DEF Scanned, Unlocked
  <2>2. CASE q # r
    <3>1. Scanned(q) /\ list'[q] = list[q] /\ scan'[q] = scan[q]
      BY <1>1, <1>4, <2>2
    <3> QED
      BY <3>1 DEF Scanned, Unlocked
  <2> QED
    BY <2>1, <2>2
<1> QED
  BY <1>5, <1>7, <1>8, <1>9

LEMMA DelistsKeeps ==
    ASSUME Inv, NEW t \in Task, NEW r \in Queue, Delists(t, r)
    PROVE  /\ list' \in [Queue -> Seq(Task)] /\ exclusive' \subseteq Task
           /\ \A q \in Queue : InOrder(q)' /\ Scanned(q)'
<1> USE DEF Inv, Typed
<1>1. /\ Belongs(t, r) /\ Unlocked(r) /\ scan' = scan /\ exclusive' = exclusive
      /\ list' = [list EXCEPT ![r] = RemoveFirst(list[r], t)]
      /\ how' = [how EXCEPT ![t] = "none"]
  BY DEF Delists, remove_wait_queue, Removed
<1>2. ASSUME NEW q \in Queue
      PROVE  /\ list[q] \in Seq(Task) /\ NoRepeat(list[q]) /\ Sorted(list[q], exclusive)
             /\ \A u \in Task : OnList(list[q], u) <=> Belongs(u, q)
  BY DEF InOrder
<1>3. /\ RemoveFirst(list[r], t) \in Seq(Task) /\ NoRepeat(RemoveFirst(list[r], t))
      /\ \A u \in Task : OnList(RemoveFirst(list[r], t), u) <=> (OnList(list[r], u) /\ u # t)
      /\ Sorted(RemoveFirst(list[r], t), exclusive)
  BY <1>2, RemoveFacts
<1>4. list'[r] = RemoveFirst(list[r], t) /\ \A q \in Queue \ {r} : list'[q] = list[q]
  BY <1>1
<1>5. list' \in [Queue -> Seq(Task)] /\ exclusive' \subseteq Task
  BY <1>1, <1>3
<1>6. \A u \in Task : how'[u] = IF u = t THEN "none" ELSE how[u]
  BY <1>1
<1>7. InOrder(r)'
  <2>1. ASSUME NEW u \in Task PROVE OnList(list'[r], u) <=> Belongs(u, r)'
    BY <1>2, <1>3, <1>4, <1>6 DEF Belongs
  <2> QED
    BY <1>1, <1>3, <1>4, <2>1 DEF InOrder
<1>8. ASSUME NEW q \in Queue, q # r PROVE InOrder(q)'
  <2>1. list'[q] = list[q]
    BY <1>4, <1>8
  <2>2. ASSUME NEW u \in Task PROVE OnList(list'[q], u) <=> Belongs(u, q)'
    BY <1>1, <1>2, <1>6, <1>8, <2>1 DEF Belongs, Queue
  <2> QED
    BY <1>1, <1>2, <2>1, <2>2 DEF InOrder
<1>9. ASSUME NEW q \in Queue PROVE Scanned(q)'
  <2>1. CASE q = r
    BY <1>1, <2>1 DEF Scanned, Unlocked
  <2>2. CASE q # r
    <3>1. Scanned(q) /\ list'[q] = list[q] /\ scan'[q] = scan[q]
      BY <1>1, <1>4, <2>2
    <3> QED
      BY <3>1 DEF Scanned, Unlocked
  <2> QED
    BY <2>1, <2>2
<1> QED
  BY <1>5, <1>7, <1>8, <1>9

\* A step that leaves the lists, the flags and the calls alone.
LEMMA ListsUntouched ==
    ASSUME Inv, UNCHANGED <<list, exclusive, how>>
    PROVE  /\ list' \in [Queue -> Seq(Task)] /\ exclusive' \subseteq Task
           /\ \A q \in Queue : InOrder(q)'
           /\ scan' = scan => \A q \in Queue : Scanned(q)'
BY DEF Inv, Typed, InOrder, Belongs, Scanned, Unlocked
-----------------------------------------------------------------------------
(* Steps of one task.                                                      *)

\* Nothing changes for any other task.
OnlyTask(t) ==
    \A u \in Task \ {t} :
        /\ how'[u] = how[u] /\ at'[u] = at[u]
        /\ state'[u] = state[u] /\ queued'[u] = queued[u]
        /\ u \in exclusive' <=> u \in exclusive

LEMMA OthersInCall ==
    ASSUME Inv, NEW t \in Task, OnlyTask(t), InCall(t)'
    PROVE  \A u \in Task : InCall(u)'
<1> SUFFICES ASSUME NEW u \in Task, u # t PROVE InCall(u)'
  OBVIOUS
<1>1. InCall(u)
  BY DEF Inv
<1> QED
  BY <1>1 DEF OnlyTask, InCall

\* A task that does not begin to sleep in wait_event loses nothing.
LEMMA OthersTold ==
    ASSUME Inv, NEW t \in Task, OnlyTask(t), UNCHANGED <<condition, owed, scan>>,
           \/ ~(how'[t] \in Ordinary /\ (Sleeping(t)' \/ OffSoon(t)'))
           \/ how[t] \in Ordinary /\ (Sleeping(t) \/ OffSoon(t))
           \/ ~condition
    PROVE  Told'
<1> SUFFICES ASSUME condition, ~owed, NEW u \in Task,
                    how'[u] \in Ordinary, Sleeping(u)' \/ OffSoon(u)'
             PROVE  scan["q"].mode = Both /\ OnList(scan["q"].rest, u)
  BY DEF Told
<1>1. how[u] \in Ordinary /\ (Sleeping(u) \/ OffSoon(u))
  BY DEF OnlyTask, Sleeping, OffSoon
<1> QED
  BY <1>1 DEF Inv, Told

\* The names that tell the calls apart.
LEMMA Names ==
    /\ Ordinary = {"wait_event", "wait_event_interruptible"}
    /\ \A h \in Events : h # "none" /\ h # "completion"
    /\ \A h \in SleepOns : h # "none" /\ h # "completion" /\ h \notin Events
    /\ "completion" \notin Events \cup SleepOns
    /\ \A h : Asleep(h) \in Both /\ Asleep(h) # "RUNNING"
    /\ \A h \in Ordinary \cup SleepOns : h \notin Flags
    /\ \A h \in Events \cup SleepOns \cup {"completion"} :
           h \in Kinds /\ h # "none" /\ (h \in Flags \/ h \in Ordinary \cup SleepOns)
    /\ Flags \cap (Ordinary \cup SleepOns) = {}
BY DEF Ordinary, Events, SleepOns, Asleep, Both, Flags, Kinds

LEMMA CompletionWaits ==
    ASSUME Inv, NEW t \in Task, wait_for_completion(t)
    PROVE  Inv'
<1> USE DEF Inv
<1>1. CASE /\ Unlocked("x") /\ done > 0 /\ done' = done - 1
           /\ UNCHANGED <<list, exclusive, tasks, how, at>>
  <2>1. UNCHANGED <<list, exclusive, scan, condition, owed, state, queued, sigpending, how, at>>
    BY <1>1 DEF wait_for_completion, tasks, event
  <2>2. done' \in 0 .. MaxDone
    BY <1>1, DoneAssumption DEF Typed
  <2>3. Typed'
    BY <2>1, <2>2 DEF Typed
  <2>4. \A u \in Task : InCall(u)'
    BY <2>1 DEF InCall
  <2>5. Told'
    BY <2>1 DEF Told, Sleeping, OffSoon
  <2> QED
    BY <2>1, <2>3, <2>4, <2>5, ListsUntouched
<1>2. CASE ~(/\ Unlocked("x") /\ done > 0 /\ done' = done - 1
             /\ UNCHANGED <<list, exclusive, tasks, how, at>>)
  <2>1. /\ at[t] = "run"
        /\ add_wait_queue("x", t, TRUE)
        /\ state' = [state EXCEPT ![t] = "UNINTERRUPTIBLE"]
        /\ how' = [how EXCEPT ![t] = "completion"] /\ at' = [at EXCEPT ![t] = "wait"]
        /\ UNCHANGED <<queued, sigpending, done, scan, condition, owed>>
    BY <1>2 DEF wait_for_completion, Sets, Enters, event
  <2>2. how[t] = "none" /\ "x" \in Queue /\ "completion" \in Flags /\ "completion" \in Kinds \ {"none"}
    BY <2>1 DEF InCall, Queue, Flags, Kinds
  <2>3. Enlists(t, "x", "completion")
    BY <2>1, <2>2 DEF Enlists
  <2>4. /\ list' \in [Queue -> Seq(Task)] /\ exclusive' \subseteq Task
        /\ \A q \in Queue : InOrder(q)' /\ Scanned(q)'
    BY <2>2, <2>3, EnlistsKeeps
  <2>5. exclusive' = exclusive \cup {t}
    BY <2>1 DEF add_wait_queue
  <2>6. Typed'
    BY <2>1, <2>2, <2>4 DEF Typed, States, Both, At
  <2>7. OnlyTask(t)
    BY <2>1, <2>5 DEF OnlyTask, Typed
  <2>8. /\ how'[t] = "completion" /\ at'[t] = "wait" /\ queued'[t] = queued[t] /\ t \in exclusive'
    BY <2>1, <2>5 DEF Typed
  <2>9. InCall(t)'
    BY <2>1, <2>8, Names DEF InCall
  <2>10. Told'
    BY <2>1, <2>7, <2>8, Names, OthersTold
  <2> QED
    BY <2>4, <2>6, <2>7, <2>9, <2>10, OthersInCall
<1> QED
  BY <1>1, <1>2

\* Back from schedule(), or woken, a task is on the run queue.
LEMMA CompletionReturns ==
    ASSUME Inv, NEW t \in Task, completion_again(t)
    PROVE  Inv'
<1> USE DEF Inv
<1>1. /\ at[t] = "woken" /\ queued[t] /\ how[t] = "completion" /\ UNCHANGED <<scan, condition, owed>>
      /\ "x" \in Queue /\ InCall(t)
  BY DEF completion_again, Woken, event, Queue
<1>2. CASE IsDone
  <2>1. /\ remove_wait_queue("x", t) /\ done > 0 /\ done' = done - 1
        /\ how' = [how EXCEPT ![t] = "none"] /\ at' = [at EXCEPT ![t] = "run"]
        /\ UNCHANGED <<state, queued, sigpending>>
    BY <1>2 DEF completion_again, Enters, tasks, IsDone
  <2>2. Delists(t, "x")
    BY <1>1, <2>1 DEF Delists, Belongs
  <2>3. /\ list' \in [Queue -> Seq(Task)] /\ exclusive' \subseteq Task
        /\ \A q \in Queue : InOrder(q)' /\ Scanned(q)'
    BY <1>1, <2>2, DelistsKeeps
  <2>4. exclusive' = exclusive
    BY <2>1 DEF remove_wait_queue
  <2>5. done' \in 0 .. MaxDone
    BY <2>1, DoneAssumption DEF Typed
  <2>6. Typed'
    BY <1>1, <2>1, <2>3, <2>5 DEF Typed, Kinds, At
  <2>7. OnlyTask(t)
    BY <2>1, <2>4 DEF OnlyTask, Typed
  <2>8. how'[t] = "none" /\ at'[t] = "run" /\ queued'[t]
    BY <1>1, <2>1 DEF Typed
  <2>9. InCall(t)'
    BY <2>8, Names DEF InCall
  <2>10. Told'
    BY <1>1, <2>7, <2>8, Names, OthersTold
  <2> QED
    BY <2>3, <2>6, <2>7, <2>9, <2>10, OthersInCall
<1>3. CASE ~IsDone
  <2>1. /\ state' = [state EXCEPT ![t] = "UNINTERRUPTIBLE"]
        /\ at' = [at EXCEPT ![t] = "wait"]
        /\ UNCHANGED <<list, exclusive, done, how, queued, sigpending>>
    BY <1>3 DEF completion_again, Sets, Goes
  <2>2. Typed'
    BY <1>1, <2>1 DEF Typed, States, Both, At
  <2>3. OnlyTask(t)
    BY <2>1 DEF OnlyTask, Typed
  <2>4. how'[t] = "completion" /\ at'[t] = "wait" /\ queued'[t] /\ exclusive' = exclusive
    BY <1>1, <2>1 DEF Typed
  <2>5. InCall(t)'
    BY <1>1, <2>4, Names DEF InCall
  <2>6. Told'
    BY <1>1, <2>3, <2>4, Names, OthersTold
  <2> QED
    BY <1>1, <2>1, <2>2, <2>3, <2>5, <2>6, OthersInCall, ListsUntouched
<1> QED
  BY <1>2, <1>3

LEMMA EventWaits ==
    ASSUME Inv, NEW t \in Task, wait_event(t)
    PROVE  Inv'
<1> USE DEF Inv
<1>1. PICK h \in Calls[t] \cap Events :
          add_wait_queue("q", t, h = "exclusive") /\ Enters(t, h, "set")
  BY DEF wait_event
<1>2. /\ at[t] = "run" /\ how' = [how EXCEPT ![t] = h] /\ at' = [at EXCEPT ![t] = "set"]
      /\ UNCHANGED <<done, scan, condition, owed, state, queued, sigpending>>
  BY <1>1 DEF wait_event, Enters, event, tasks
<1>3. /\ how[t] = "none" /\ "q" \in Queue /\ "q" # "x" /\ h \in Kinds
      /\ h # "none" /\ h # "completion" /\ (h = "exclusive" <=> h \in Flags)
  BY <1>1, <1>2, Names DEF InCall, Queue, Flags
<1>4. (h = "exclusive") = (h \in Flags)
  BY <1>3
<1>5. Enlists(t, "q", h)
  BY <1>1, <1>2, <1>3, <1>4 DEF Enlists
<1>6. /\ list' \in [Queue -> Seq(Task)] /\ exclusive' \subseteq Task
      /\ \A q \in Queue : InOrder(q)' /\ Scanned(q)'
  BY <1>3, <1>5, EnlistsKeeps
<1>7. exclusive' = IF h \in Flags THEN exclusive \cup {t} ELSE exclusive \ {t}
  BY <1>1, <1>4 DEF add_wait_queue
<1>8. Typed'
  BY <1>2, <1>3, <1>6 DEF Typed, At
<1>9. OnlyTask(t)
  BY <1>2, <1>7 DEF OnlyTask, Typed
<1>10. how'[t] = h /\ at'[t] = "set" /\ queued'[t] = queued[t] /\ (t \in exclusive' <=> h \in Flags)
  BY <1>2, <1>7 DEF Typed
<1>11. queued[t] /\ InCall(t)
  BY <1>2 DEF InCall, Typed
<1>12. InCall(t)'
  <2>1. h \notin SleepOns \cup {"completion"}
    BY <1>1, <1>3, Names
  <2>2. h \in Ordinary => h \notin Flags
    BY Names
  <2>3. h \in {"exclusive", "completion"} => h \in Flags
    BY DEF Flags
  <2> QED
    BY <1>3, <1>10, <1>11, <2>1, <2>2, <2>3 DEF InCall
<1>13. Told'
  BY <1>2, <1>9, <1>10, OthersTold DEF Sleeping, OffSoon
<1> QED
  BY <1>6, <1>8, <1>9, <1>12, <1>13, OthersInCall

LEMMA SleepsOn ==
    ASSUME Inv, NEW t \in Task, sleep_on(t)
    PROVE  Inv'
<1> USE DEF Inv
<1>1. PICK h \in Calls[t] \cap SleepOns :
          add_wait_queue("q", t, FALSE) /\ Sets(t, Asleep(h)) /\ Enters(t, h, "wait")
  BY DEF sleep_on
<1>2. /\ at[t] = "run" /\ how' = [how EXCEPT ![t] = h] /\ at' = [at EXCEPT ![t] = "wait"]
      /\ state' = [state EXCEPT ![t] = Asleep(h)]
      /\ UNCHANGED <<done, scan, condition, owed, queued, sigpending>>
  BY <1>1 DEF sleep_on, Enters, Sets, event
<1>3. /\ how[t] = "none" /\ "q" \in Queue /\ "q" # "x" /\ h \in Kinds
      /\ h # "none" /\ h # "completion" /\ h \notin Flags
  BY <1>1, <1>2, Names DEF InCall, Queue
<1>4. FALSE = (h \in Flags)
  BY <1>3
<1>5. Enlists(t, "q", h)
  BY <1>1, <1>2, <1>3, <1>4 DEF Enlists
<1>6. /\ list' \in [Queue -> Seq(Task)] /\ exclusive' \subseteq Task
      /\ \A q \in Queue : InOrder(q)' /\ Scanned(q)'
  BY <1>3, <1>5, EnlistsKeeps
<1>7. exclusive' = exclusive \ {t}
  BY <1>1 DEF add_wait_queue
<1>8. Asleep(h) \in States
  BY Names DEF States
<1>9. Typed'
  BY <1>2, <1>3, <1>6, <1>8 DEF Typed, At
<1>10. OnlyTask(t)
  BY <1>2, <1>7 DEF OnlyTask, Typed
<1>11. how'[t] = h /\ at'[t] = "wait" /\ queued'[t] = queued[t] /\ t \notin exclusive'
  BY <1>2, <1>7 DEF Typed
<1>12. queued[t] /\ InCall(t)
  BY <1>2 DEF InCall, Typed
<1>13. InCall(t)'
  <2>1. h \notin {"exclusive", "completion"}
    BY <1>3 DEF Flags
  <2> QED
    BY <1>3, <1>11, <1>12, <2>1 DEF InCall
<1>14. Told'
  <2>1. h \notin Ordinary
    BY <1>1, Names DEF Ordinary
  <2> QED
    BY <1>2, <1>10, <1>11, <2>1, OthersTold
<1> QED
  BY <1>6, <1>9, <1>10, <1>13, <1>14, OthersInCall

LEMMA StateIsSet ==
    ASSUME Inv, NEW t \in Task, set_current_state(t)
    PROVE  Inv'
<1> USE DEF Inv
<1>1. /\ at[t] = "set" \/ (at[t] = "woken" /\ queued[t] /\ how[t] \in Events)
      /\ state' = [state EXCEPT ![t] = Asleep(how[t])]
      /\ at' = [at EXCEPT ![t] = "test"]
      /\ UNCHANGED <<done, list, exclusive, scan, condition, owed, queued, sigpending, how>>
  BY DEF set_current_state, Woken, Sets, Goes, queues, event
<1>2. InCall(t) /\ Asleep(how[t]) \in States
  BY Names DEF States
<1>3. Typed'
  BY <1>1, <1>2 DEF Typed, At
<1>4. OnlyTask(t)
  BY <1>1 DEF OnlyTask, Typed
<1>5. /\ how'[t] = how[t] /\ at'[t] = "test" /\ exclusive' = exclusive
      /\ queued'[t] = queued[t] /\ queued[t]
  BY <1>1, <1>2 DEF Typed, InCall
<1>6. how[t] \notin SleepOns \cup {"completion", "none"}
  BY <1>1, <1>2, Names DEF InCall
<1>7. InCall(t)'
  BY <1>2, <1>5, <1>6 DEF InCall
<1>8. Told'
  BY <1>1, <1>4, <1>5, OthersTold DEF Sleeping, OffSoon
<1> QED
  BY <1>1, <1>3, <1>4, <1>7, <1>8, OthersInCall, ListsUntouched

\* A task that goes to sleep has found the condition false.
LEMMA ConditionIsTested ==
    ASSUME Inv, NEW t \in Task, test(t)
    PROVE  Inv'
<1> USE DEF Inv
<1>1. /\ at[t] = "test"
      /\ at' = [at EXCEPT ![t] =
                  IF condition \/ (how[t] = "wait_event_interruptible" /\ sigpending[t])
                  THEN "leave" ELSE "wait"]
      /\ UNCHANGED <<done, list, exclusive, scan, condition, owed, state, queued, sigpending, how>>
  BY DEF test, Goes, queues, event, tasks
<1>2. InCall(t)
  OBVIOUS
<1>3. Typed'
  BY <1>1 DEF Typed, At
<1>4. OnlyTask(t)
  BY <1>1 DEF OnlyTask, Typed
<1>5. /\ how'[t] = how[t] /\ at'[t] \in {"leave", "wait"} /\ exclusive' = exclusive
      /\ queued'[t] = queued[t] /\ queued[t]
      /\ condition => at'[t] = "leave"
  BY <1>1, <1>2 DEF Typed, InCall
<1>6. how[t] \notin SleepOns \cup {"completion", "none"}
  BY <1>1, <1>2, Names DEF InCall
<1>7. InCall(t)'
  BY <1>2, <1>5, <1>6 DEF InCall
<1>8. Told'
  BY <1>1, <1>4, <1>5, OthersTold DEF Sleeping, OffSoon
<1> QED
  BY <1>1, <1>3, <1>4, <1>7, <1>8, OthersInCall, ListsUntouched

LEMMA EventLeaves ==
    ASSUME Inv, NEW t \in Task, leave(t)
    PROVE  Inv'
<1> USE DEF Inv
<1>1. /\ at[t] = "leave" \/ (at[t] = "woken" /\ queued[t] /\ how[t] \in SleepOns)
      /\ remove_wait_queue("q", t)
      /\ state' = [state EXCEPT ![t] = "RUNNING"]
      /\ sigpending' = [sigpending EXCEPT ![t] = FALSE]
      /\ how' = [how EXCEPT ![t] = "none"] /\ at' = [at EXCEPT ![t] = "run"]
      /\ UNCHANGED <<done, scan, condition, owed, queued>>
  BY DEF leave, Woken, Enters, event
<1>2. InCall(t) /\ "q" \in Queue /\ "q" # "x"
  BY DEF Queue
<1>3. how[t] # "none" /\ how[t] # "completion" /\ queued[t]
  BY <1>1, <1>2, Names DEF InCall, Typed
<1>4. Delists(t, "q")
  BY <1>1, <1>2, <1>3 DEF Delists, Belongs
<1>5. /\ list' \in [Queue -> Seq(Task)] /\ exclusive' \subseteq Task
      /\ \A q \in Queue : InOrder(q)' /\ Scanned(q)'
  BY <1>2, <1>4, DelistsKeeps
<1>6. exclusive' = exclusive
  BY <1>1 DEF remove_wait_queue
<1>7. Typed'
  BY <1>1, <1>5 DEF Typed, Kinds, At, States
<1>8. OnlyTask(t)
  BY <1>1, <1>6 DEF OnlyTask, Typed
<1>9. how'[t] = "none" /\ at'[t] = "run" /\ queued'[t]
  BY <1>1, <1>3 DEF Typed
<1>10. InCall(t)'
  BY <1>9, Names DEF InCall
<1>11. Told'
  BY <1>1, <1>8, <1>9, Names, OthersTold
<1> QED
  BY <1>5, <1>7, <1>8, <1>10, <1>11, OthersInCall

LEMMA ScheduleKeeps ==
    ASSUME Inv, NEW t \in Task, schedule(t)
    PROVE  Inv'
<1> USE DEF Inv
<1>1. /\ at[t] = "wait"
      /\ state' = [state EXCEPT ![t] = IF Stays(t) THEN "RUNNING" ELSE @]
      /\ queued' = [queued EXCEPT ![t] = Stays(t)]
      /\ at' = [at EXCEPT ![t] = "woken"]
      /\ UNCHANGED <<done, list, exclusive, scan, condition, owed, sigpending, how>>
  BY DEF schedule, Goes, queues, event
<1>2. InCall(t) /\ Stays(t) \in BOOLEAN
  BY DEF Stays
<1>3. Typed'
  BY <1>1, <1>2 DEF Typed, At, States
<1>4. OnlyTask(t)
  BY <1>1 DEF OnlyTask, Typed
<1>5. /\ how'[t] = how[t] /\ at'[t] = "woken" /\ exclusive' = exclusive
      /\ queued'[t] = Stays(t) /\ (~Stays(t) => state'[t] = state[t])
  BY <1>1 DEF Typed
<1>6. ~Stays(t) => state[t] # "RUNNING"
  BY DEF Stays
<1>7. InCall(t)'
  BY <1>1, <1>2, <1>5, <1>6 DEF InCall
<1>8. Told'
  <2>1. Sleeping(t)' \/ OffSoon(t)' => OffSoon(t)
    BY <1>1, <1>5, <1>6 DEF Sleeping, OffSoon
  <2> QED
    BY <1>1, <1>4, <1>5, <2>1, OthersTold
<1> QED
  BY <1>1, <1>3, <1>4, <1>7, <1>8, OthersInCall, ListsUntouched

\* Being woken.
LEMMA WokenUp ==
    ASSUME Inv, NEW t \in Task, try_to_wake_up(t), UNCHANGED <<exclusive, how, at>>
    PROVE  /\ state' \in [Task -> States] /\ queued' \in [Task -> BOOLEAN]
           /\ OnlyTask(t) /\ \A u \in Task : InCall(u)'
           /\ queued'[t] /\ state'[t] = "RUNNING"
<1> USE DEF Inv
<1>1. /\ state' = [state EXCEPT ![t] = "RUNNING"]
      /\ queued' = [queued EXCEPT ![t] = TRUE]
  BY DEF try_to_wake_up
<1>2. queued'[t] /\ state'[t] = "RUNNING" /\ InCall(t)
  BY <1>1 DEF Typed
<1>3. OnlyTask(t)
  BY <1>1 DEF OnlyTask, Typed
<1>4. InCall(t)'
  BY <1>2 DEF InCall
<1>5. \A u \in Task : InCall(u)'
  BY <1>3, <1>4, OthersInCall
<1>6. state' \in [Task -> States] /\ queued' \in [Task -> BOOLEAN]
  BY <1>1 DEF Typed, States
<1> QED
  BY <1>2, <1>3, <1>5, <1>6

\* A signal or a timer wakes the task, or leaves all tasks as they are.
LEMMA OtherWaking ==
    ASSUME Inv, NEW t \in Task, signal(t) \/ timeout(t)
    PROVE  Inv'
<1> USE DEF Inv
<1>1. UNCHANGED <<done, list, exclusive, scan, condition, owed, how, at>>
  BY DEF signal, timeout, queues, event
<1>2. sigpending' \in [Task -> BOOLEAN]
  BY DEF signal, timeout, Typed
<1>3. CASE UNCHANGED <<state, queued>>
  <2>1. Typed'
    BY <1>1, <1>2, <1>3 DEF Typed
  <2>2. \A u \in Task : InCall(u)'
    BY <1>1, <1>3 DEF InCall
  <2>3. Told'
    BY <1>1, <1>3 DEF Told, Sleeping, OffSoon
  <2> QED
    BY <1>1, <2>1, <2>2, <2>3, ListsUntouched
<1>4. CASE try_to_wake_up(t)
  <2>1. /\ state' \in [Task -> States] /\ queued' \in [Task -> BOOLEAN]
        /\ OnlyTask(t) /\ \A u \in Task : InCall(u)'
        /\ queued'[t] /\ state'[t] = "RUNNING"
    BY <1>1, <1>4, WokenUp
  <2>2. Typed'
    BY <1>1, <1>2, <2>1 DEF Typed
  <2>3. Told'
    BY <1>1, <2>1, OthersTold DEF Sleeping, OffSoon
  <2> QED
    BY <1>1, <2>1, <2>2, <2>3, ListsUntouched
<1> QED
  BY <1>3, <1>4 DEF signal, timeout
-----------------------------------------------------------------------------
(* Wakers.                                                                 *)

LEMMA BeginKeeps ==
    ASSUME Inv, NEW r \in Queue, NEW mode \in SUBSET Both, NEW nr \in {0, 1},
           Begin(r, mode, nr), UNCHANGED list
    PROVE  /\ scan' \in [Queue -> Scans]
           /\ Unlocked(r) /\ \A q \in Queue \ {r} : scan'[q] = scan[q]
           /\ list[r] # << >> => scan'[r].mode = mode /\ scan'[r].rest = list[r]
           /\ \A q \in Queue : Scanned(q)'
<1> USE DEF Inv, Typed
<1> DEFINE new == [mode |-> mode, nr |-> nr, rest |-> list[r]]
<1>1. /\ Unlocked(r)
      /\ scan' = [scan EXCEPT ![r] = IF list[r] = << >> THEN None ELSE new]
  BY DEF Begin
<1>2. None \in Scans /\ new \in Scans
  BY DEF None, Scans
<1>3. /\ new.mode = mode /\ new.nr = nr /\ new.rest = list[r]
  OBVIOUS
<1> HIDE DEF new
<1>4. scan' \in [Queue -> Scans]
  BY <1>1, <1>2
<1>5. \A q \in Queue \ {r} : scan'[q] = scan[q]
  BY <1>1
<1>6. list[r] # << >> => scan'[r] = new
  BY <1>1
<1>7. list[r] = << >> => scan'[r] = None
  BY <1>1
<1>8. Scanned(r)'
  <2>1. CASE list[r] = << >>
    BY <1>7, <2>1 DEF Scanned, Unlocked
  <2>2. CASE list[r] # << >>
    <3>1. scan'[r].rest = list[r] /\ scan'[r].nr = nr /\ list'[r] = list[r]
      BY <1>3, <1>6, <2>2
    <3>2. Len(list[r]) \in 1 .. Len(list[r]) /\ Len(list[r]) - Len(list[r]) = 0
      BY <2>2
    <3>3. Suffix(list[r], list[r])
      BY <3>2 DEF Suffix
    <3>4. nr = 1 \/ nr \in -(Len(list[r]) - Len(list[r])) .. 0
      BY <3>2
    <3> QED
      BY <3>1, <3>3, <3>4 DEF Scanned
  <2> QED
    BY <2>1, <2>2
<1>9. ASSUME NEW q \in Queue, q # r PROVE Scanned(q)'
  <2>1. Scanned(q) /\ scan'[q] = scan[q] /\ list'[q] = list[q]
    BY <1>5, <1>9
  <2> QED
    BY <2>1 DEF Scanned, Unlocked
<1> QED
  BY <1>1, <1>3, <1>4, <1>5, <1>6, <1>8, <1>9

\* While nobody goes through q nobody has a wake-up to expect.
LEMMA NothingExpected ==
    ASSUME Inv, Unlocked("q"), NEW t
    PROVE  ~OnList(scan["q"].rest, t)
BY DEF Unlocked, None, OnList

LEMMA CompleteKeeps == ASSUME Inv, complete PROVE Inv'
<1> USE DEF Inv
<1>1. /\ done' \in 0 .. MaxDone /\ Begin("x", Both, 1)
      /\ UNCHANGED <<list, exclusive, condition, owed, state, queued, sigpending, how, at>>
  BY DoneAssumption DEF complete, Typed, event, tasks
<1>2. "x" \in Queue /\ "q" \in Queue \ {"x"} /\ Both \in SUBSET Both
  BY DEF Queue
<1>3. /\ scan' \in [Queue -> Scans] /\ scan'["q"] = scan["q"]
      /\ \A q \in Queue : Scanned(q)'
  BY <1>1, <1>2, BeginKeeps
<1>4. Typed'
  BY <1>1, <1>3 DEF Typed
<1>5. \A u \in Task : InCall(u)'
  BY <1>1 DEF InCall
<1>6. Told'
  BY <1>1, <1>3 DEF Told, Sleeping, OffSoon
<1> QED
  BY <1>1, <1>3, <1>4, <1>5, <1>6, ListsUntouched

LEMMA MakeTrueKeeps == ASSUME Inv, make_true PROVE Inv'
<1> USE DEF Inv
<1>1. /\ condition' /\ condition' \in BOOLEAN /\ owed' /\ owed' \in BOOLEAN
      /\ UNCHANGED <<done, list, exclusive, scan, state, queued, sigpending, how, at>>
  BY DEF make_true, queues, tasks
<1>2. Typed'
  BY <1>1 DEF Typed
<1>3. \A u \in Task : InCall(u)'
  BY <1>1 DEF InCall
<1>4. Told'
  BY <1>1 DEF Told
<1> QED
  BY <1>1, <1>2, <1>3, <1>4, ListsUntouched

\* The announcement finds every task that waits for the condition on the list.
LEMMA WakeUpKeeps == ASSUME Inv, wake_up PROVE Inv'
<1> USE DEF Inv
<1>1. /\ owed' = FALSE /\ Begin("q", Both, 1)
      /\ UNCHANGED <<done, list, exclusive, condition, state, queued, sigpending, how, at>>
  BY DEF wake_up, tasks
<1>2. "q" \in Queue /\ "q" # "x" /\ Both \in SUBSET Both
  BY DEF Queue
<1>3. /\ scan' \in [Queue -> Scans] /\ \A q \in Queue : Scanned(q)'
      /\ list["q"] # << >> => scan'["q"].mode = Both /\ scan'["q"].rest = list["q"]
  BY <1>1, <1>2, BeginKeeps
<1>4. Typed'
  BY <1>1, <1>3 DEF Typed
<1>5. \A u \in Task : InCall(u)'
  BY <1>1 DEF InCall
<1>6. Told'
  <2> SUFFICES ASSUME NEW t \in Task, how[t] \in Ordinary
               PROVE  scan'["q"].mode = Both /\ OnList(scan'["q"].rest, t)
    BY <1>1 DEF Told
  <2>1. Belongs(t, "q")
    BY <1>2, Names DEF Belongs
  <2>2. OnList(list["q"], t)
    BY <1>2, <2>1 DEF InOrder
  <2>3. list["q"] # << >>
    BY <2>2 DEF OnList
  <2> QED
    BY <1>3, <2>2, <2>3
<1> QED
  BY <1>1, <1>3, <1>4, <1>5, <1>6, ListsUntouched

LEMMA OtherWakeUpKeeps == ASSUME Inv, other_wake_up PROVE Inv'
<1> USE DEF Inv
<1>1. /\ Begin("q", {"INTERRUPTIBLE"}, 1) \/ Begin("q", Both, 0)
      /\ UNCHANGED <<done, list, exclusive, condition, owed, state, queued, sigpending, how, at>>
  BY DEF other_wake_up, event, tasks
<1>2. "q" \in Queue /\ Both \in SUBSET Both /\ {"INTERRUPTIBLE"} \in SUBSET Both
  BY DEF Queue, Both
<1>3. scan' \in [Queue -> Scans] /\ Unlocked("q") /\ \A q \in Queue : Scanned(q)'
  BY <1>1, <1>2, BeginKeeps
<1>4. Typed'
  BY <1>1, <1>3 DEF Typed
<1>5. \A u \in Task : InCall(u)'
  BY <1>1 DEF InCall
<1>6. Told'
  BY <1>1, <1>3, NothingExpected DEF Told, Sleeping, OffSoon
<1> QED
  BY <1>1, <1>3, <1>4, <1>5, <1>6, ListsUntouched

\* What a waker does with the entry it looks at.
LEMMA WakeNextFacts ==
    ASSUME Inv, NEW r \in Queue, wake_next(r)
    PROVE  /\ UNCHANGED <<done, list, exclusive, condition, owed, sigpending, how, at>>
           /\ scan[r].rest \in Seq(Task) /\ Suffix(scan[r].rest, list[r])
           /\ Head(scan[r].rest) \in Task
           /\ IF state[Head(scan[r].rest)] \in scan[r].mode
              THEN try_to_wake_up(Head(scan[r].rest)) ELSE UNCHANGED <<state, queued>>
           /\ \A q \in Queue \ {r} : scan'[q] = scan[q]
           /\ \/ /\ scan'[r] = None
                 /\ Counts(r, Head(scan[r].rest)) \/ Len(scan[r].rest) = 1
              \/ /\ Len(scan[r].rest) > 1
                 /\ scan'[r].mode = scan[r].mode /\ scan'[r].rest = Tail(scan[r].rest)
           /\ scan' \in [Queue -> Scans] /\ \A q \in Queue : Scanned(q)'
<1> USE DEF Inv, Typed
<1> DEFINE rest == scan[r].rest
           p == Head(rest)
           left == scan[r].nr - (IF Counts(r, p) THEN 1 ELSE 0)
           next == [mode |-> scan[r].mode, nr |-> left, rest |-> Tail(rest)]
<1>1. /\ ~Unlocked(r) /\ scan[r] \in Scans
      /\ UNCHANGED <<done, list, exclusive, condition, owed, sigpending, how, at>>
      /\ IF state[p] \in scan[r].mode THEN try_to_wake_up(p) ELSE UNCHANGED <<state, queued>>
      /\ scan' = [scan EXCEPT ![r] =
                     IF (Counts(r, p) /\ left = 0) \/ Len(rest) = 1 THEN None ELSE next]
  <2>1. ~Unlocked(r) /\ UNCHANGED <<done, list, exclusive, condition, owed, sigpending, how, at>>
    BY DEF wake_next, event
  <2>2. IF state[p] \in scan[r].mode THEN try_to_wake_up(p) ELSE UNCHANGED <<state, queued>>
    BY DEF wake_next
  <2>3. scan[r] \in Scans
    OBVIOUS
  <2>4. scan' = [scan EXCEPT ![r] =
                    IF (Counts(r, p) /\ left = 0) \/ Len(rest) = 1 THEN None ELSE next]
    BY Zenon DEF wake_next
  <2> QED
    BY <2>1, <2>2, <2>3, <2>4
<1>2. /\ rest \in Seq(Task) /\ scan[r].nr \in Int /\ scan[r].mode \in SUBSET Both
      /\ list[r] \in Seq(Task)
  BY <1>1 DEF Scans
<1>3. /\ Suffix(rest, list[r])
      /\ scan[r].nr = 1 \/ scan[r].nr \in -(Len(list[r]) - Len(rest)) .. 0
  BY <1>1 DEF Scanned
<1>4. /\ Len(rest) \in Nat /\ Len(rest) >= 1 /\ Len(list[r]) \in Nat
      /\ Len(rest) <= Len(list[r]) /\ p \in Task
  BY <1>2, <1>3 DEF Suffix
<1>5. Tail(rest) \in Seq(Task)
  BY <1>2, <1>4
<1>6. left \in Int
  BY <1>2
<1>7. next.mode = scan[r].mode /\ next.nr = left /\ next.rest = Tail(rest)
  BY <1>1 DEF Scans
<1>8. next \in Scans
  BY <1>1, <1>5, <1>6 DEF Scans
<1>9. None \in Scans
  BY DEF None, Scans
<1> HIDE DEF next
<1>10. \A q \in Queue \ {r} : scan'[q] = scan[q]
  BY <1>1
<1>11. scan' \in [Queue -> Scans]
  <2>1. (IF (Counts(r, p) /\ left = 0) \/ Len(rest) = 1 THEN None ELSE next) \in Scans
    BY <1>8, <1>9
  <2> HIDE DEF left
  <2> QED
    BY <1>1, <2>1
<1>12. \/ scan'[r] = None /\ (Counts(r, p) \/ Len(rest) = 1)
       \/ scan'[r] = next /\ Len(rest) > 1 /\ ~(Counts(r, p) /\ left = 0)
  <2> DEFINE stops == (Counts(r, p) /\ left = 0) \/ Len(rest) = 1
  <2>1. scan'[r] = IF stops THEN None ELSE next
    BY <1>1
  <2>2. stops => (Counts(r, p) \/ Len(rest) = 1)
    OBVIOUS
  <2>3. ~stops => Len(rest) > 1 /\ ~(Counts(r, p) /\ left = 0)
    <3> DEFINE n == Len(rest)
    <3>1. n \in Nat /\ n >= 1
      BY <1>4
    <3> HIDE DEF left, n
    <3>2. n # 1 => n > 1
      BY <3>1
    <3> QED
      BY <3>2 DEF n
  <2> HIDE DEF left, stops
  <2> QED
    BY <2>1, <2>2, <2>3
<1>13. Scanned(r)'
  <2>1. CASE scan'[r] = None
    BY <2>1 DEF Scanned, Unlocked
  <2>2. CASE scan'[r] = next /\ Len(rest) > 1 /\ ~(Counts(r, p) /\ left = 0)
    <3>1. Suffix(Tail(rest), list[r]) /\ Len(Tail(rest)) = Len(rest) - 1
      BY <1>2, <1>3, <2>2, SuffixFacts
    <3>2. left = 1 \/ left \in -(Len(list[r]) - (Len(rest) - 1)) .. 0
      <4> DEFINE nr == scan[r].nr
                 size == Len(list[r])
                 n == Len(rest)
      <4>0. nr \in Int /\ size \in Nat /\ n \in Nat /\ n <= size /\ (nr = 1 \/ nr \in -(size - n) .. 0)
        BY <1>2, <1>3, <1>4
      <4>1. CASE Counts(r, p)
        <5>1. left = nr - 1 /\ left # 0
          BY <2>2, <4>1
        <5> HIDE DEF left, nr, size, n
        <5>2. left \in -(size - (n - 1)) .. 0
          BY <4>0, <5>1
        <5> QED
          BY <5>2 DEF size, n
      <4>2. CASE ~Counts(r, p)
        <5>1. left = nr
          BY <1>2, <4>2
        <5> HIDE DEF left, nr, size, n
        <5>2. left = 1 \/ left \in -(size - (n - 1)) .. 0
          BY <4>0, <5>1
        <5> QED
          BY <5>2 DEF size, n
      <4> QED
        BY <4>1, <4>2
    <3> HIDE DEF left
    <3>3. list'[r] = list[r]
      BY <1>1
    <3>4. scan'[r].nr = left /\ scan'[r].rest = Tail(rest)
      BY <1>7, <2>2
    <3> QED
      BY <3>1, <3>2, <3>3, <3>4 DEF Scanned
  <2> QED
    BY <1>12, <2>1, <2>2
<1>14. ASSUME NEW q \in Queue, q # r PROVE Scanned(q)'
  <2>1. Scanned(q) /\ scan'[q] = scan[q] /\ list'[q] = list[q]
    BY <1>1, <1>10, <1>14
  <2> QED
    BY <2>1 DEF Scanned, Unlocked
<1>15. \/ scan'[r] = None /\ (Counts(r, p) \/ Len(rest) = 1)
       \/ /\ Len(rest) > 1
          /\ scan'[r].mode = scan[r].mode /\ scan'[r].rest = Tail(rest)
  BY <1>7, <1>12
<1> HIDE DEF left
<1> QED
  BY <1>1, <1>2, <1>3, <1>4, <1>10, <1>11, <1>13, <1>14, <1>15

\* Whoever is told of the condition stays ahead of the waker until it is woken: the
\* waker stops early only where no ordinary task is left.
LEMMA WakeNextKeeps ==
    ASSUME Inv, NEW r \in Queue, wake_next(r)
    PROVE  Inv'
<1> USE DEF Inv
<1>1. PICK p \in Task : p = Head(scan[r].rest)
  BY WakeNextFacts
<1>2. /\ UNCHANGED <<done, list, exclusive, condition, owed, sigpending, how, at>>
      /\ scan[r].rest \in Seq(Task) /\ Suffix(scan[r].rest, list[r])
      /\ IF state[p] \in scan[r].mode THEN try_to_wake_up(p) ELSE UNCHANGED <<state, queued>>
      /\ \A q \in Queue \ {r} : scan'[q] = scan[q]
      /\ \/ scan'[r] = None /\ (Counts(r, p) \/ Len(scan[r].rest) = 1)
         \/ /\ Len(scan[r].rest) > 1
            /\ scan'[r].mode = scan[r].mode /\ scan'[r].rest = Tail(scan[r].rest)
      /\ scan' \in [Queue -> Scans] /\ \A q \in Queue : Scanned(q)'
  BY <1>1, WakeNextFacts
<1>3. /\ state' \in [Task -> States] /\ queued' \in [Task -> BOOLEAN]
      /\ OnlyTask(p) /\ \A u \in Task : InCall(u)'
      /\ state[p] \in scan[r].mode => queued'[p] /\ state'[p] = "RUNNING"
      /\ state[p] \notin scan[r].mode => UNCHANGED <<state, queued>>
  <2>1. CASE state[p] \in scan[r].mode
    BY <1>2, <2>1, WokenUp
  <2>2. CASE state[p] \notin scan[r].mode
    <3>1. UNCHANGED <<exclusive, state, queued, how, at>>
      BY <1>2, <2>2
    <3> QED
      BY <2>2, <3>1 DEF Typed, InCall, OnlyTask
  <2> QED
    BY <2>1, <2>2
<1>4. Typed'
  BY <1>2, <1>3 DEF Typed
<1>5. Told'
  <2> SUFFICES ASSUME condition, ~owed, NEW t \in Task,
                      how[t] \in Ordinary, Sleeping(t)' \/ OffSoon(t)'
               PROVE  scan'["q"].mode = Both /\ OnList(scan'["q"].rest, t)
    BY <1>2 DEF Told
  <2>1. (Sleeping(t) \/ OffSoon(t)) /\ ~(queued'[t] /\ state'[t] = "RUNNING")
    <3>1. at'[t] = at[t]
      BY <1>2
    <3>2. CASE t = p
      BY <1>3, <3>1, <3>2 DEF Sleeping, OffSoon
    <3>3. CASE t # p
      BY <1>3, <3>1, <3>3 DEF Sleeping, OffSoon, OnlyTask
    <3> QED
      BY <3>2, <3>3
  <2>2. scan["q"].mode = Both /\ OnList(scan["q"].rest, t)
    BY <2>1 DEF Told
  <2>3. CASE r = "q"
    <3>1. t # p
      <4>1. ASSUME t = p PROVE FALSE
        <5>1. state[p] \in States /\ InCall(p)
          BY DEF Typed
        <5>2. state[p] # "RUNNING"
          BY <2>1, <4>1, <5>1 DEF Sleeping, OffSoon, InCall
        <5>3. state[p] \in scan[r].mode
          BY <2>2, <2>3, <5>1, <5>2 DEF States
        <5> QED
          BY <1>3, <2>1, <4>1, <5>3
      <4> QED
        BY <4>1
    <3>2. Len(scan[r].rest) > 1 /\ OnList(Tail(scan[r].rest), t)
      BY <1>1, <1>2, <2>2, <2>3, <3>1, OnTail
    <3>3. ~Counts(r, p)
      <4> SUFFICES ASSUME Counts(r, p) PROVE FALSE
        OBVIOUS
      <4>1. /\ Sorted(scan[r].rest, exclusive) /\ 1 \in DOMAIN scan[r].rest
            /\ scan[r].rest[1] = p
        BY <1>1, <1>2, SuffixFacts DEF InOrder, Typed
      <4>2. PICK i \in DOMAIN scan[r].rest : scan[r].rest[i] = t
        BY <2>2, <2>3 DEF OnList
      <4>3. i \in 1 .. Len(scan[r].rest) /\ i # 1
        BY <1>2, <3>1, <4>1, <4>2
      <4>4. 1 < i /\ scan[r].rest[1] \in exclusive
        BY <4>1, <4>3 DEF Counts
      <4>5. t \in exclusive
        BY <4>1, <4>2, <4>4 DEF Sorted
      <4> QED
        BY <4>5 DEF InCall
    <3>4. ~(Len(scan[r].rest) = 1)
      BY <1>2, <3>2, MoreThanOne
    <3> QED
      BY <1>2, <2>2, <2>3, <3>2, <3>3, <3>4
  <2>4. CASE r # "q"
    BY <1>2, <2>2, <2>4 DEF Queue
  <2> QED
    BY <2>3, <2>4
<1> QED
  BY <1>2, <1>3, <1>4, <1>5, ListsUntouched

LEMMA NextInv == Inv /\ [Next]_vars => Inv'
<1> SUFFICES ASSUME Inv, [Next]_vars PROVE Inv'
  OBVIOUS
<1>1. ASSUME NEW t \in Task, Waits(t) PROVE Inv'
  BY <1>1, CompletionWaits, EventWaits, SleepsOn DEF Waits
<1>2. ASSUME NEW t \in Task, Continues(t) PROVE Inv'
  BY <1>2, ScheduleKeeps, CompletionReturns, StateIsSet, ConditionIsTested, EventLeaves
     DEF Continues
<1>3. ASSUME NEW t \in Task, signal(t) \/ timeout(t) PROVE Inv'
  BY <1>3, OtherWaking
<1>4. ASSUME complete \/ make_true \/ wake_up \/ other_wake_up PROVE Inv'
  BY <1>4, CompleteKeeps, MakeTrueKeeps, WakeUpKeeps, OtherWakeUpKeeps
<1>5. ASSUME NEW r \in Queue, wake_next(r) PROVE Inv'
  BY <1>5, WakeNextKeeps
<1>6. ASSUME UNCHANGED vars PROVE Inv'
  <2>1. UNCHANGED <<done, list, exclusive, scan, condition, owed, state, queued, sigpending,
                    how, at>>
    BY <1>6 DEF vars, queues, event, tasks
  <2>2. Typed' /\ (\A u \in Task : InCall(u)') /\ Told'
    BY <2>1 DEF Inv, Typed, InCall, Told, Sleeping, OffSoon
  <2> QED
    BY <2>1, <2>2, ListsUntouched DEF Inv
<1> QED
  BY <1>1, <1>2, <1>3, <1>4, <1>5, <1>6 DEF Next

LEMMA AlwaysInv == Spec => []Inv
<1> QED
  BY InitInv, NextInv, PTL DEF Spec
-----------------------------------------------------------------------------
(* The theorems.                                                           *)

\* The bound on what a waker has woken: the entries it passed are different tasks.
LEMMA ScanBound ==
    ASSUME Inv, NEW r \in Queue
    PROVE  scan[r].nr \in -Cardinality(Task) .. 1
<1> USE DEF Inv
<1>1. Len(list[r]) <= Cardinality(Task) /\ Cardinality(Task) \in Nat
  <2>1. list[r] \in Seq(Task) /\ NoRepeat(list[r])
    BY DEF InOrder, Typed
  <2> QED
    BY <2>1, ListFits, TaskAssumption
<1>2. CASE Unlocked(r)
  BY <1>1, <1>2 DEF Unlocked, None
<1>3. CASE ~Unlocked(r)
  <2> DEFINE nr == scan[r].nr
             size == Len(list[r])
             n == Len(scan[r].rest)
             c == Cardinality(Task)
  <2>1. size \in Nat /\ n \in 1 .. size /\ (nr = 1 \/ nr \in -(size - n) .. 0)
    <3>1. list[r] \in Seq(Task) /\ Scanned(r)
      BY DEF Typed
    <3>2. Len(list[r]) \in Nat
      BY <3>1
    <3>3. Len(scan[r].rest) \in 1 .. Len(list[r])
      BY <1>3, <3>1 DEF Scanned, Suffix
    <3>4. scan[r].nr = 1 \/ scan[r].nr \in -(Len(list[r]) - Len(scan[r].rest)) .. 0
      BY <1>3, <3>1 DEF Scanned
    <3> QED
      BY <3>2, <3>3, <3>4
  <2>2. size <= c /\ c \in Nat
    BY <1>1
  <2> HIDE DEF nr, size, n, c
  <2>3. nr \in -c .. 1
    BY <2>1, <2>2
  <2> QED
    BY <2>3 DEF nr, c
<1> QED
  BY <1>2, <1>3

\* Every variable keeps its type: x->done does not drop below zero, and a call of
\* __wake_up_common counts no more sleepers than there are tasks.
THEOREM TypeCorrect == Spec => []TypeOK
<1>1. Inv => TypeOK
  <2> SUFFICES ASSUME Inv PROVE TypeOK
    OBVIOUS
  <2>1. Typed
    BY DEF Inv
  <2>2. \A r \in Queue : /\ scan[r].mode \subseteq Both /\ scan[r].nr \in -Cardinality(Task) .. 1
                         /\ scan[r].rest \in Seq(Task)
    BY <2>1, ScanBound DEF Typed, Scans
  <2> QED
    BY <2>1, <2>2 DEF Typed, TypeOK, States, Kinds
<1> QED
  BY <1>1, AlwaysInv, PTL

\* The entry of a wait queue, a local variable of wait_event, wait_for_completion or
\* sleep_on, is on its list once while the call lasts, and on none afterwards.
THEOREM EntryPerCall == Spec => []EntriesOnStack
<1>1. Inv => EntriesOnStack
  <2> SUFFICES ASSUME Inv, NEW t \in Task, NEW r \in Queue
               PROVE  Cardinality({i \in DOMAIN list[r] : list[r][i] = t}) =
                          IF how[t] = "none" \/ ((how[t] = "completion") # (r = "x"))
                          THEN 0 ELSE 1
    BY DEF EntriesOnStack
  <2>1. Cardinality({i \in DOMAIN list[r] : list[r][i] = t}) = IF OnList(list[r], t) THEN 1 ELSE 0
    BY EntriesOf DEF Inv, Typed, InOrder
  <2>2. OnList(list[r], t) <=> Belongs(t, r)
    BY DEF Inv, InOrder
  <2>3. Belongs(t, r) <=> ~(how[t] = "none" \/ ((how[t] = "completion") # (r = "x")))
    BY DEF Belongs
  <2> QED
    BY <2>1, <2>2, <2>3
<1> QED
  BY <1>1, AlwaysInv, PTL

\* wait_event sets the state before it tests the condition, and the waker goes through
\* the list before it gives the lock back: nobody sleeps through an announcement.
THEOREM NobodyMissesIt == Spec => []NoLostWakeUp
<1>1. Inv => NoLostWakeUp
  BY NothingExpected DEF NoLostWakeUp, Inv, Told
<1> QED
  BY <1>1, AlwaysInv, PTL

\* __wake_up_common stops before the end of a list only at an exclusive task that was
\* off the run queue, with exclusive tasks behind it.
THEOREM StopsWhereItShould == Spec => StopsAtSleeper
<1> DEFINE Stops(r) ==
        ~Unlocked(r) /\ Unlocked(r)' /\ Len(scan[r].rest) > 1 =>
            /\ ~queued[Head(scan[r].rest)]
            /\ \A i \in DOMAIN scan[r].rest : scan[r].rest[i] \in exclusive
<1>1. ASSUME Inv, NEW r \in Queue, wake_next(r) PROVE Stops(r)
  <2> SUFFICES ASSUME ~Unlocked(r), Unlocked(r)', Len(scan[r].rest) > 1
               PROVE  /\ ~queued[Head(scan[r].rest)]
                      /\ \A i \in DOMAIN scan[r].rest : scan[r].rest[i] \in exclusive
    OBVIOUS
  <2>1. /\ scan[r].rest \in Seq(Task) /\ Suffix(scan[r].rest, list[r])
        /\ \/ scan'[r] = None /\ (Counts(r, Head(scan[r].rest)) \/ Len(scan[r].rest) = 1)
           \/ scan'[r].rest = Tail(scan[r].rest)
    BY <1>1, WakeNextFacts
  <2>2. Tail(scan[r].rest) # << >> /\ Len(scan[r].rest) # 1
    BY <2>1, MoreThanOne
  <2>3. scan'[r].rest = << >>
    BY DEF Unlocked, None
  <2>4. Counts(r, Head(scan[r].rest))
    BY Zenon, <2>1, <2>2, <2>3
  <2>5. /\ Sorted(scan[r].rest, exclusive) /\ Head(scan[r].rest) = scan[r].rest[1]
        /\ 1 \in DOMAIN scan[r].rest /\ DOMAIN scan[r].rest = 1 .. Len(scan[r].rest)
    BY <1>1, <2>1, SuffixFacts DEF Inv, Typed, InOrder
  <2>6. ~queued[Head(scan[r].rest)] /\ scan[r].rest[1] \in exclusive
    BY <2>4, <2>5 DEF Counts
  <2>7. ASSUME NEW i \in DOMAIN scan[r].rest PROVE scan[r].rest[i] \in exclusive
    <3>1. i = 1 \/ 1 < i
      BY <2>5
    <3> QED
      BY <2>5, <2>6, <3>1 DEF Sorted
  <2> QED
    BY <2>6, <2>7
<1>2. ASSUME NEW r \in Queue, scan'[r] = scan[r] PROVE Stops(r)
  BY <1>2 DEF Unlocked
<1>3. ASSUME NEW q \in Queue, NEW r \in Queue, NEW mode, NEW nr, Begin(q, mode, nr), Inv
      PROVE  Stops(r)
  <2>1. CASE q = r
    BY <1>3, <2>1 DEF Begin
  <2>2. CASE q # r
    <3>1. scan'[r] = scan[r]
      BY <1>3, <2>2 DEF Begin, Inv, Typed
    <3> QED
      BY <1>2, <3>1
  <2> QED
    BY <2>1, <2>2
<1>4. ASSUME Inv, [Next]_vars, NEW r \in Queue PROVE Stops(r)
  <2> HIDE DEF Stops
  <2>1. ASSUME NEW t \in Task, Waits(t) \/ Continues(t) \/ signal(t) \/ timeout(t)
        PROVE  scan' = scan
    BY <2>1 DEF Waits, wait_for_completion, wait_event, sleep_on, Continues, schedule,
       completion_again, set_current_state, test, leave, signal, timeout, queues
  <2>2. "x" \in Queue /\ "q" \in Queue
    BY DEF Queue
  <2>3. CASE complete \/ wake_up \/ other_wake_up
    BY <1>3, <1>4, <2>2, <2>3 DEF complete, wake_up, other_wake_up
  <2>4. CASE make_true \/ UNCHANGED vars
    BY <1>2, <2>4 DEF make_true, vars, queues
  <2>5. ASSUME NEW q \in Queue, wake_next(q) PROVE Stops(r)
    <3>1. CASE q = r
      BY <1>1, <1>4, <2>5, <3>1
    <3>2. CASE q # r
      <4>1. scan'[r] = scan[r]
        BY <1>4, <2>5, <3>2, WakeNextFacts
      <4> QED
        BY <1>2, <4>1
    <3> QED
      BY <3>1, <3>2
  <2> QED
    BY <1>2, <1>4, <2>1, <2>3, <2>4, <2>5 DEF Next
<1>5. Inv /\ [Next]_vars =>
          [\A r \in Queue :
              ~Unlocked(r) /\ Unlocked(r)' /\ Len(scan[r].rest) > 1 =>
                  /\ ~queued[Head(scan[r].rest)]
                  /\ \A i \in DOMAIN scan[r].rest : scan[r].rest[i] \in exclusive]_vars
  BY <1>4
<1> QED
  BY <1>5, AlwaysInv, PTL DEF Spec, StopsAtSleeper
-----------------------------------------------------------------------------
(* A completion implements what Completion.tla promises, as far as safety  *)
(* goes: no step but the first look at done, its last look, complete and   *)
(* the entry of the list changes done or who waits.                        *)

Same == done' = done /\ how' = how

LEMMA SameIsStutter == Same => UNCHANGED C!vars
BY DEF Same, C!vars, Waiting

LEMMA PassRefines ==
    ASSUME Inv, NEW t \in Task, wait_for_completion(t)
    PROVE  C!Next
<1>1. CASE done > 0 /\ done' = done - 1 /\ UNCHANGED how
  BY <1>1 DEF C!Next, C!Pass, Waiting
<1>2. CASE done = 0 /\ done' = done /\ at[t] = "run" /\ how' = [how EXCEPT ![t] = "completion"]
  <2>1. how[t] = "none" /\ how \in [Task -> Kinds]
    BY <1>2 DEF Inv, InCall, Typed
  <2>2. t \notin Waiting /\ Waiting' = Waiting \cup {t}
    BY <1>2, <2>1 DEF Waiting
  <2>3. C!Wait(t)
    BY <1>2, <2>2 DEF C!Wait
  <2> QED
    BY <2>3 DEF C!Next
<1> QED
  BY <1>1, <1>2 DEF wait_for_completion, Enters

LEMMA ReturnRefines ==
    ASSUME Inv, NEW t \in Task, completion_again(t)
    PROVE  C!Next \/ Same
<1>1. CASE IsDone
  <2>1. /\ how[t] = "completion" /\ done > 0 /\ done' = done - 1
        /\ how' = [how EXCEPT ![t] = "none"] /\ how \in [Task -> Kinds]
    BY <1>1 DEF completion_again, IsDone, Enters, Inv, Typed
  <2>2. t \in Waiting /\ Waiting' = Waiting \ {t}
    BY <2>1 DEF Waiting
  <2>3. C!Return(t)
    BY <2>1, <2>2 DEF C!Return
  <2> QED
    BY <2>3 DEF C!Next
<1>2. CASE ~IsDone
  BY <1>2 DEF completion_again, Goes, Same
<1> QED
  BY <1>1, <1>2

LEMMA EntryRefines ==
    ASSUME Inv, NEW t \in Task, wait_event(t) \/ sleep_on(t) \/ leave(t)
    PROVE  UNCHANGED C!vars
<1>1. /\ done' = done /\ how[t] # "completion" /\ how \in [Task -> Kinds] /\ InCall(t)
  BY Names DEF wait_event, sleep_on, leave, Woken, Inv, InCall, Typed
<1>2. PICK h \in Events \cup SleepOns \cup {"none"} : how' = [how EXCEPT ![t] = h]
  BY DEF wait_event, sleep_on, leave, Enters
<1>3. h # "completion"
  BY <1>2, Names
<1>4. Waiting' = Waiting
  BY <1>1, <1>2, <1>3 DEF Waiting
<1> QED
  BY <1>1, <1>4 DEF C!vars

\* As many calls of wait_for_completion have returned, at any time, as completions have
\* been used up: who waits and who returns follows Completion.tla, step by step.
THEOREM CompletionIsKept == Spec => C!Init /\ [][C!Next]_(C!vars)
<1>1. Init => C!Init
  BY DEF Init, C!Init, Waiting
<1>2. Inv /\ [Next]_vars => [C!Next]_(C!vars)
  <2> SUFFICES ASSUME Inv, [Next]_vars PROVE C!Next \/ UNCHANGED C!vars
    OBVIOUS
  <2>1. ASSUME NEW t \in Task, Waits(t) PROVE C!Next \/ UNCHANGED C!vars
    BY <2>1, PassRefines, EntryRefines DEF Waits
  <2>2. ASSUME NEW t \in Task, Continues(t) PROVE C!Next \/ UNCHANGED C!vars
    <3>1. CASE leave(t)
      BY <3>1, EntryRefines
    <3>2. CASE completion_again(t)
      BY <3>2, ReturnRefines, SameIsStutter
    <3>3. CASE schedule(t) \/ set_current_state(t) \/ test(t)
      <4>1. Same
        BY <3>3 DEF schedule, set_current_state, test, Goes, queues, Same
      <4> QED
        BY <4>1, SameIsStutter
    <3> QED
      BY <2>2, <3>1, <3>2, <3>3 DEF Continues
  <2>3. ASSUME NEW t \in Task, signal(t) \/ timeout(t) PROVE Same
    BY <2>3 DEF signal, timeout, queues, Same
  <2>4. CASE complete
    <3>1. done < MaxDone /\ done' = done + 1 /\ how' = how
      BY <2>4 DEF complete
    <3>2. Waiting' = Waiting
      BY <3>1 DEF Waiting
    <3>3. C!Complete
      BY <3>1, <3>2 DEF C!Complete
    <3> QED
      BY <3>3 DEF C!Next
  <2>5. ASSUME make_true \/ wake_up \/ other_wake_up PROVE Same
    BY <2>5 DEF make_true, wake_up, other_wake_up, queues, Same
  <2>6. ASSUME NEW r \in Queue, wake_next(r) PROVE Same
    BY <2>6 DEF wake_next, Same
  <2>7. ASSUME UNCHANGED vars PROVE Same
    BY <2>7 DEF vars, queues, Same
  <2> QED
    BY <2>1, <2>2, <2>3, <2>4, <2>5, <2>6, <2>7, SameIsStutter DEF Next
<1> QED
  BY <1>1, <1>2, AlwaysInv, PTL DEF Spec
=============================================================================
