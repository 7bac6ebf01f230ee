----------------------------- MODULE WaitQueues -----------------------------
(***************************************************************************)
(* Going to sleep and being woken: wait queues, completions, sleep_on and  *)
(* the wait_event macros.  One completion x and one wait queue q, tasks    *)
(* that wait on them, and wakers on other CPUs or in interrupts.           *)
(*                                                                         *)
(* A list is only touched under its lock; a waker holds the lock while it  *)
(* goes through the list, one entry a step.  A task changes its own state  *)
(* and calls schedule() without the lock, so it can be woken before it is  *)
(* off the run queue.  at[t] is where a task is in the call how[t]:        *)
(*    run     in none                                                      *)
(*    set     about to set its state        test    about to test          *)
(*    wait    about to call schedule()      woken   in or after schedule() *)
(*    leave   about to take its entry off the list                         *)
(***************************************************************************)
EXTENDS Integers, Sequences, FiniteSets, SequencesExt

CONSTANTS
    Task,
    Calls,              \* how each task waits
    MaxDone             \* bound on completions nobody has waited for

Events == {"wait_event", "wait_event_interruptible", "exclusive"}
SleepOns == {"sleep_on", "interruptible_sleep_on", "sleep_on_timeout"}

ASSUME TaskAssumption == IsFiniteSet(Task)
ASSUME CallsAssumption == Calls \in [Task -> SUBSET (Events \cup SleepOns \cup {"completion"})]
ASSUME DoneAssumption == MaxDone \in Nat \ {0}

VARIABLES
    done,               \* x->done
    list,               \* the entries of x->wait and of q, as tasks
    exclusive,          \* the tasks whose entry has WQ_FLAG_EXCLUSIVE
    scan,               \* the waker that holds the lock of a queue
    condition, owed,    \* the condition of wait_event; set, but not yet announced
    state, queued,      \* p->state; p->array is not NULL
    sigpending,
    how, at

queues == <<done, list, exclusive, scan>>
event == <<condition, owed>>
tasks == <<state, queued, sigpending>>
vars == <<queues, event, tasks, how, at>>

Queue == {"x", "q"}
None == [mode |-> {}, nr |-> 0, rest |-> << >>]
Both == {"UNINTERRUPTIBLE", "INTERRUPTIBLE"}

Init ==
    /\ done = 0 /\ list = [r \in Queue |-> << >>] /\ exclusive = {}
    /\ scan = [r \in Queue |-> None]
    /\ condition = FALSE /\ owed = FALSE
    /\ state = [t \in Task |-> "RUNNING"] /\ queued = [t \in Task |-> TRUE]
    /\ sigpending = [t \in Task |-> FALSE]
    /\ how = [t \in Task |-> "none"] /\ at = [t \in Task |-> "run"]

Unlocked(r) == scan[r] = None

\* Where a task sleeps.
Asleep(h) ==
    IF h \in {"wait_event_interruptible", "interruptible_sleep_on"}
    THEN "INTERRUPTIBLE" ELSE "UNINTERRUPTIBLE"

Enters(t, h, step) == how' = [how EXCEPT ![t] = h] /\ at' = [at EXCEPT ![t] = step]
Goes(t, step) == at' = [at EXCEPT ![t] = step] /\ UNCHANGED how
Sets(t, s) == state' = [state EXCEPT ![t] = s] /\ UNCHANGED <<queued, sigpending>>

\* Variant with a defect: every entry is put at the tail.
AddedLast(r, t, flag) == Append(list[r], t)

\* __add_wait_queue puts an entry first, __add_wait_queue_tail an exclusive one last.
Added(r, t, flag) == IF flag THEN Append(list[r], t) ELSE <<t>> \o list[r]

add_wait_queue(r, t, flag) ==
    /\ Unlocked(r)
    /\ list' = [list EXCEPT ![r] = Added(r, t, flag)]
    /\ exclusive' = IF flag THEN exclusive \cup {t} ELSE exclusive \ {t}

\* Variant with a defect: the entry stays on the list.
NotRemoved(r, t) == list

Removed(r, t) == [list EXCEPT ![r] = RemoveFirst(@, t)]

remove_wait_queue(r, t) ==
    /\ Unlocked(r)
    /\ list' = Removed(r, t)
    /\ UNCHANGED exclusive
-----------------------------------------------------------------------------
(* schedule() and try_to_wake_up, as far as waiting goes                   *)

\* Variant with a defect: wait_event sets the state only when it has tested.
SetLast(t) ==
    how[t] \notin Events /\
    (state[t] = "RUNNING" \/ (state[t] = "INTERRUPTIBLE" /\ sigpending[t]))

Stays(t) == state[t] = "RUNNING" \/ (state[t] = "INTERRUPTIBLE" /\ sigpending[t])

schedule(t) ==
    /\ at[t] = "wait"
    /\ state' = [state EXCEPT ![t] = IF Stays(t) THEN "RUNNING" ELSE @]
    /\ queued' = [queued EXCEPT ![t] = Stays(t)]
    /\ Goes(t, "woken")
    /\ UNCHANGED <<queues, event, sigpending>>

\* Back from schedule().
Woken(t) == at[t] = "woken" /\ queued[t]

try_to_wake_up(t) ==
    /\ state' = [state EXCEPT ![t] = "RUNNING"]
    /\ queued' = [queued EXCEPT ![t] = TRUE]
-----------------------------------------------------------------------------
(* Completions                                                             *)

wait_for_completion(t) ==
    /\ at[t] = "run" /\ "completion" \in Calls[t]
    /\ \/ /\ Unlocked("x") /\ done > 0
          /\ done' = done - 1
          /\ UNCHANGED <<list, exclusive, tasks, how, at>>
       \/ /\ done = 0
          /\ add_wait_queue("x", t, TRUE)
          /\ Sets(t, "UNINTERRUPTIBLE")
          /\ Enters(t, "completion", "wait")
          /\ UNCHANGED done
    /\ UNCHANGED <<scan, event>>

\* Variant with a defect: who wakes up does not look at done again.
AlwaysDone == TRUE

IsDone == done > 0

\* The end of the loop's body: the lock is taken again.
completion_again(t) ==
    /\ Woken(t) /\ how[t] = "completion" /\ Unlocked("x")
    /\ IF IsDone
       THEN /\ remove_wait_queue("x", t)
            /\ done' = done - 1
            /\ Enters(t, "none", "run")
            /\ UNCHANGED tasks
       ELSE /\ Sets(t, "UNINTERRUPTIBLE")
            /\ Goes(t, "wait")
            /\ UNCHANGED <<list, exclusive, done>>
    /\ UNCHANGED <<scan, event>>
-----------------------------------------------------------------------------
(* Waiting for a condition, and sleep_on                                   *)

\* The condition was false when it was first looked at; before the entry is on the
\* list it may have become true and been announced.
wait_event(t) ==
    /\ at[t] = "run"
    /\ \E h \in Calls[t] \cap Events :
        /\ add_wait_queue("q", t, h = "exclusive")
        /\ Enters(t, h, "set")
    /\ UNCHANGED <<done, scan, event, tasks>>

set_current_state(t) ==
    /\ at[t] = "set" \/ (Woken(t) /\ how[t] \in Events)
    /\ Sets(t, Asleep(how[t]))
    /\ Goes(t, "test")
    /\ UNCHANGED <<queues, event>>

test(t) ==
    /\ at[t] = "test"
    /\ Goes(t, IF condition \/ (how[t] = "wait_event_interruptible" /\ sigpending[t])
               THEN "leave" ELSE "wait")
    /\ UNCHANGED <<queues, event, tasks>>

\* The state is set before the entry is put on the list.
sleep_on(t) ==
    /\ at[t] = "run"
    /\ \E h \in Calls[t] \cap SleepOns :
        /\ add_wait_queue("q", t, FALSE)
        /\ Sets(t, Asleep(h))
        /\ Enters(t, h, "wait")
    /\ UNCHANGED <<done, scan, event>>

\* Back in user mode the signal is delivered.
leave(t) ==
    /\ at[t] = "leave" \/ (Woken(t) /\ how[t] \in SleepOns)
    /\ remove_wait_queue("q", t)
    /\ state' = [state EXCEPT ![t] = "RUNNING"]
    /\ sigpending' = [sigpending EXCEPT ![t] = FALSE]
    /\ Enters(t, "none", "run")
    /\ UNCHANGED <<done, scan, event, queued>>
-----------------------------------------------------------------------------
(* Wakers                                                                  *)

\* The lock is taken, the list is gone through from its head.
Begin(r, mode, nr) ==
    /\ Unlocked(r)
    /\ scan' = [scan EXCEPT ![r] =
                   IF list[r] = << >> THEN None
                   ELSE [mode |-> mode, nr |-> nr, rest |-> list[r]]]

complete ==
    /\ done < MaxDone
    /\ done' = done + 1
    /\ Begin("x", Both, 1)
    /\ UNCHANGED <<list, exclusive, event, tasks, how, at>>

\* Somebody makes the condition true, and then announces it.
make_true ==
    /\ ~condition
    /\ condition' = TRUE /\ owed' = TRUE
    /\ UNCHANGED <<queues, tasks, how, at>>

wake_up ==
    /\ owed
    /\ Begin("q", Both, 1)
    /\ owed' = FALSE
    /\ UNCHANGED <<done, list, exclusive, condition, tasks, how, at>>

\* Any other call of __wake_up or __wake_up_sync: wake_up_interruptible(q) and
\* wake_up_all(q), for instance.
other_wake_up ==
    /\ list["q"] # << >>
    /\ Begin("q", {"INTERRUPTIBLE"}, 1) \/ Begin("q", Both, 0)
    /\ UNCHANGED <<done, list, exclusive, event, tasks, how, at>>

\* Variant with a defect: whoever is exclusive counts, asleep or not.
CountsAll(r, p) == p \in exclusive

\* Variant with a defect: a task that is not off the run queue yet counts.
CountsRunning(r, p) == state[p] \in scan[r].mode /\ p \in exclusive

\* try_to_wake_up returns zero for a task that is still on the run queue.
Counts(r, p) == state[p] \in scan[r].mode /\ ~queued[p] /\ p \in exclusive

\* One entry of __wake_up_common.
wake_next(r) ==
    /\ ~Unlocked(r)
    /\ LET p == Head(scan[r].rest)
           left == scan[r].nr - (IF Counts(r, p) THEN 1 ELSE 0)
       IN  /\ IF state[p] \in scan[r].mode
              THEN try_to_wake_up(p) ELSE UNCHANGED <<state, queued>>
           /\ scan' = [scan EXCEPT ![r] =
                  IF (Counts(r, p) /\ left = 0) \/ Len(@.rest) = 1 THEN None
                  ELSE [mode |-> @.mode, nr |-> left, rest |-> Tail(@.rest)]]
    /\ UNCHANGED <<done, list, exclusive, event, sigpending, how, at>>

\* A signal wakes an interruptible sleeper.
signal(t) ==
    /\ at[t] # "run" /\ ~sigpending[t]
    /\ Asleep(how[t]) = "INTERRUPTIBLE"
    /\ sigpending' = [sigpending EXCEPT ![t] = TRUE]
    /\ IF state[t] = "INTERRUPTIBLE"
       THEN try_to_wake_up(t) ELSE UNCHANGED <<state, queued>>
    /\ UNCHANGED <<queues, event, how, at>>

\* The timer of schedule_timeout fires.
timeout(t) ==
    /\ how[t] = "sleep_on_timeout" /\ at[t] = "woken" /\ ~queued[t]
    /\ try_to_wake_up(t)
    /\ UNCHANGED <<queues, event, sigpending, how, at>>
-----------------------------------------------------------------------------
Waits(t) ==
    \/ wait_for_completion(t) \/ wait_event(t) \/ sleep_on(t)

Continues(t) ==
    \/ schedule(t) \/ completion_again(t) \/ set_current_state(t) \/ test(t) \/ leave(t)

Next ==
    \/ \E t \in Task : Waits(t) \/ Continues(t) \/ signal(t) \/ timeout(t)
    \/ complete \/ make_true \/ wake_up \/ other_wake_up
    \/ \E r \in Queue : wake_next(r)

Spec == Init /\ [][Next]_vars

\* A task in the kernel goes on and gets a lock that is free again and again, and
\* its timer fires; a waker goes through the list; the condition becomes true and is
\* announced.
FairSpec ==
    /\ Spec
    /\ \A t \in Task : SF_vars(Continues(t) \/ timeout(t))
    /\ \A r \in Queue : WF_vars(wake_next(r))
    /\ SF_vars(make_true \/ wake_up)
-----------------------------------------------------------------------------
(* Properties                                                              *)

At == {"run", "set", "test", "wait", "woken", "leave"}

\* Every variable has its type; done never drops below zero.
TypeOK ==
    /\ done \in 0 .. MaxDone
    /\ list \in [Queue -> Seq(Task)] /\ exclusive \subseteq Task
    /\ \A r \in Queue : /\ scan[r].mode \subseteq Both /\ scan[r].nr \in -Cardinality(Task) .. 1
                        /\ scan[r].rest \in Seq(Task)
    /\ condition \in BOOLEAN /\ owed \in BOOLEAN
    /\ state \in [Task -> Both \cup {"RUNNING"}] /\ queued \in [Task -> BOOLEAN]
    /\ sigpending \in [Task -> BOOLEAN]
    /\ how \in [Task -> Events \cup SleepOns \cup {"completion", "none"}]
    /\ at \in [Task -> At]

\* The entry of a wait queue is a local variable of the task: it is on one list, once,
\* as long as the call lasts, and on none when the call has returned.
EntriesOnStack ==
    \A t \in Task, r \in Queue :
        Cardinality({i \in DOMAIN list[r] : list[r][i] = t}) =
            IF how[t] = "none" \/ ((how[t] = "completion") # (r = "x")) THEN 0 ELSE 1

Sleeping(t) == at[t] = "woken" /\ ~queued[t]
OffSoon(t) == at[t] = "wait" /\ state[t] # "RUNNING"

Ordinary == Events \ {"exclusive"}
Waiting == {t \in Task : how[t] = "completion"}

\* sched.h:873: the state is set before the condition is tested, so whoever announces
\* the condition either is seen or wakes the task: once it is announced, nobody
\* sleeps in wait_event or is about to.
NoLostWakeUp ==
    condition /\ ~owed /\ Unlocked("q") =>
        \A t \in Task : how[t] \in Ordinary => ~Sleeping(t) /\ ~OffSoon(t)

\* sched.c:979: "wake all the non-exclusive tasks and one exclusive task": before the
\* end of the list a waker only stops at an exclusive task that it got out of its
\* sleep, and when no other kind of task is left.
StopsAtSleeper ==
    [][\A r \in Queue :
           ~Unlocked(r) /\ Unlocked(r)' /\ Len(scan[r].rest) > 1 =>
               /\ ~queued[Head(scan[r].rest)]
               /\ \A i \in DOMAIN scan[r].rest : scan[r].rest[i] \in exclusive]_vars

\* Whoever waits for the condition gets on.
WaitEnds ==
    \A t \in {u \in Task : Calls[u] \cap Ordinary # {}} : how[t] \in Ordinary ~> at[t] = "run"

C == INSTANCE Completion WITH waiting <- Waiting

\* wait_for_completion sleeps under the lock under which it found done to be zero,
\* and complete wakes one that sleeps for every completion: a completion keeps its
\* promise, the one about the end of waiting included.
ImplementsCompletion == C!Spec
=============================================================================
