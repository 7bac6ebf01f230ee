------------------------ MODULE ForkResources_proofs ------------------------
(***************************************************************************)
(* Proofs about ForkResources, for any number of tasks, any flags and any  *)
(* copies that fail: the completion of a vfork outlives every pointer to   *)
(* it, no process is counted for ever or forgotten, and every structure is *)
(* counted as often as it is used.  And for clones that do not fail after  *)
(* copy_mm: address spaces are counted exactly, a vfork holds its parent,  *)
(* and every field keeps its type.                                         *)
(***************************************************************************)
EXTENDS ForkResources, FiniteSetTheorems, TLAPS

\* t is in do_fork, with a child that nobody else knows of.
Making(t) == at[t] \in {"fork", "unwind"}

Typed ==
    /\ at \in [Task -> Places]
    /\ child \in [Task -> Task \cup {NULL}]
    /\ flags \in [Task -> {{}} \cup FlagSets]
    /\ vfork_done \in [Task -> Task \cup {NULL}]
    /\ done \in [Task -> Nat]
    /\ curr \in Task

\* The child of a task in do_fork is not in use yet.
ChildIsNew == \A t \in Task : Making(t) => child[t] \in Task /\ at[child[t]] = "new"

OneParent ==
    \A t, u \in Task : Making(t) /\ Making(u) /\ child[t] = child[u] => t = u

\* Only a vfork has a completion.
FlagTells ==
    \A p, t \in Task : vfork_done[p] = t /\ Making(t) => "VFORK" \in flags[t]

\* Once it is complete, nobody points to it.
OnceOnly == \A p, t \in Task : vfork_done[p] = t => done[t] = 0

FrameInv ==
    Typed /\ ChildIsNew /\ OneParent /\ FlagTells /\ OnceOnly /\ VforkFrameLives

LEMMA AnyOfIn ==
    ASSUME NEW S, S # {}
    PROVE  AnyOf(S) \in S
BY DEF AnyOf

LEMMA FrameInit == Init => FrameInv
<1> USE TaskAssumption
<1> SUFFICES ASSUME Init PROVE FrameInv
    OBVIOUS
<1>1. Typed
    BY DEF Init, Typed, Places
<1>2. \A t \in Task : ~Making(t) /\ vfork_done[t] = NULL
    BY DEF Init, Making
<1> QED
    BY <1>1, <1>2 DEF FrameInv, ChildIsNew, OneParent, FlagTells, OnceOnly, VforkFrameLives

\* A step that leaves do_fork's places and the completions alone.
LEMMA FrameStutter ==
    ASSUME FrameInv, UNCHANGED <<at, child, flags, vfork>>, curr' \in Task
    PROVE  FrameInv'
BY DEF FrameInv, Typed, ChildIsNew, OneParent, FlagTells, OnceOnly, VforkFrameLives,
       Making, vfork

\* t moves on, but neither into do_fork nor out of a call that has a child.
Moves(t, step) ==
    /\ at' = [at EXCEPT ![t] = step]
    /\ step \in Places
    /\ at[t] # "new"
    /\ at[t] \in {"fork", "unwind", "vfork"} => step \in {"fork", "unwind"} /\ at[t] # "vfork"
    /\ step \in {"fork", "unwind"} => Making(t)
    /\ UNCHANGED <<child, flags, curr>>

LEMMA FrameMoves ==
    ASSUME FrameInv, NEW t \in Task, NEW step, Moves(t, step), UNCHANGED vfork
    PROVE  FrameInv'
BY DEF FrameInv, Typed, ChildIsNew, OneParent, FlagTells, OnceOnly, VforkFrameLives,
       Making, vfork, Moves

\* The same, when the current process lets its parent go.
LEMMA FrameReleases ==
    ASSUME FrameInv, NEW t \in Task, NEW step, Moves(t, step), mm_release
    PROVE  FrameInv'
<1> USE TaskAssumption DEF FrameInv
<1>1. Typed'
    BY DEF Typed, Moves, mm_release
<1>2. ChildIsNew' /\ OneParent'
    BY DEF Typed, ChildIsNew, OneParent, Making, Moves
<1>3. \A p, u \in Task : vfork_done'[p] = u => vfork_done[p] = u /\ p # curr
    BY DEF Typed, mm_release
<1>4. FlagTells'
    BY <1>3 DEF Typed, FlagTells, Making, Moves
<1>5. VforkFrameLives'
    BY <1>3 DEF Typed, VforkFrameLives, Making, Moves
<1>6. ASSUME NEW p \in Task, NEW u \in Task, vfork_done'[p] = u
      PROVE  done'[u] = 0
    <2>1. vfork_done[p] = u /\ p # curr
        BY <1>3, <1>6
    <2>2. vfork_done[curr] # u
        BY <2>1 DEF Typed, VforkFrameLives
    <2> QED
        BY <2>1, <2>2 DEF Typed, OnceOnly, mm_release
<1> QED
    BY <1>1, <1>2, <1>4, <1>5, <1>6 DEF OnceOnly

LEMMA FrameFork ==
    ASSUME FrameInv, NEW t \in Task, do_fork(t)
    PROVE  FrameInv'
<1> USE TaskAssumption DEF FrameInv
<1> DEFINE S == {u \in Task : at[u] = "free"}
           p == AnyOf(S)
<1>1. p \in Task /\ at[p] = "free"
    <2>1. S # {}
        BY DEF do_fork
    <2> QED
        BY <2>1, AnyOfIn
<1>2. PICK f \in FlagSets :
          /\ at' = [at EXCEPT ![t] = "fork", ![p] = "new"]
          /\ child' = [child EXCEPT ![t] = p] /\ flags' = [flags EXCEPT ![t] = f]
          /\ vfork_done' = [vfork_done EXCEPT ![p] = IF "VFORK" \in f THEN t ELSE NULL]
          /\ done' = [done EXCEPT ![t] = 0]
    BY DEF do_fork, NewVforkDone
<1>3. at[t] = "user" /\ curr' = curr
    BY DEF do_fork
<1> HIDE DEF p
<1>4. Typed'
    BY <1>1, <1>2, <1>3 DEF Typed, Places
<1>5. ChildIsNew' /\ OneParent'
    BY <1>1, <1>2, <1>3 DEF Typed, ChildIsNew, OneParent, Making
<1>6. \A q \in Task : vfork_done[q] # t
    BY <1>3 DEF VforkFrameLives
<1>7. FlagTells' /\ OnceOnly'
    BY <1>1, <1>2, <1>3, <1>6 DEF Typed, FlagTells, OnceOnly, Making
<1>8. VforkFrameLives'
    BY <1>1, <1>2, <1>3, <1>6 DEF Typed, VforkFrameLives, Making
<1> QED
    BY <1>4, <1>5, <1>7, <1>8

LEMMA FrameForkDone ==
    ASSUME FrameInv, NEW t \in Task, fork_done(t)
    PROVE  FrameInv'
<1> USE TaskAssumption DEF FrameInv
<1> DEFINE p == child[t]
<1>1. p \in Task /\ at[p] = "new" /\ at[t] = "fork" /\ p # t
    BY DEF fork_done, ChildIsNew, Making
<1>2. /\ at' = [at EXCEPT ![t] = IF "VFORK" \in flags[t] THEN "vfork" ELSE "user",
                          ![p] = "user"]
      /\ child' = IF "VFORK" \in flags[t] THEN child ELSE [child EXCEPT ![t] = NULL]
      /\ flags' = [flags EXCEPT ![t] = {}]
      /\ UNCHANGED <<vfork_done, done, curr>>
    BY DEF fork_done, Reset, vfork
<1>3. \A u \in Task : Making(u) /\ u # t => child[u] # p
    BY <1>1 DEF OneParent, Making
<1> HIDE DEF p
<1>4. Typed'
    BY <1>1, <1>2 DEF Typed, Places
<1>5. ChildIsNew' /\ OneParent'
    BY <1>1, <1>2, <1>3 DEF Typed, ChildIsNew, OneParent, Making
<1>6. FlagTells' /\ OnceOnly'
    BY <1>1, <1>2 DEF Typed, FlagTells, OnceOnly, Making
<1>7. VforkFrameLives'
    BY <1>1, <1>2 DEF Typed, VforkFrameLives, FlagTells, Making
<1> QED
    BY <1>4, <1>5, <1>6, <1>7

LEMMA FrameForkFails ==
    ASSUME FrameInv, NEW t \in Task, fork_fails(t)
    PROVE  FrameInv'
<1> USE TaskAssumption DEF FrameInv
<1> DEFINE p == child[t]
<1>1. p \in Task /\ at[p] = "new" /\ at[t] = "unwind" /\ p # t
    BY DEF fork_fails, ChildIsNew, Making
<1>2. /\ at' = [at EXCEPT ![t] = "user", ![p] = "free"]
      /\ child' = [child EXCEPT ![t] = NULL] /\ flags' = [flags EXCEPT ![t] = {}]
      /\ vfork_done' = [vfork_done EXCEPT ![p] = NULL]
      /\ UNCHANGED <<done, curr>>
    BY DEF fork_fails, Reset
<1>3. \A u \in Task : Making(u) /\ u # t => child[u] # p
    BY <1>1 DEF OneParent, Making
<1>4. \A q \in Task : vfork_done[q] = t => q = p
    BY DEF VforkFrameLives
<1> HIDE DEF p
<1>5. Typed'
    BY <1>1, <1>2 DEF Typed, Places
<1>6. ChildIsNew' /\ OneParent'
    BY <1>1, <1>2, <1>3 DEF Typed, ChildIsNew, OneParent, Making
<1>7. FlagTells' /\ OnceOnly'
    BY <1>1, <1>2 DEF Typed, FlagTells, OnceOnly, Making
<1>8. VforkFrameLives'
    BY <1>1, <1>2, <1>4 DEF Typed, VforkFrameLives, Making
<1> QED
    BY <1>5, <1>6, <1>7, <1>8

LEMMA FrameReturns ==
    ASSUME FrameInv, NEW t \in Task, vfork_returns(t)
    PROVE  FrameInv'
<1> USE TaskAssumption DEF FrameInv
<1>1. /\ at[t] = "vfork" /\ done[t] > 0
      /\ at' = [at EXCEPT ![t] = "user"] /\ child' = [child EXCEPT ![t] = NULL]
      /\ done' = [done EXCEPT ![t] = @ - 1]
      /\ UNCHANGED <<flags, vfork_done, curr>>
    BY DEF vfork_returns, Reset, limits
<1>2. \A q \in Task : vfork_done[q] # t
    BY <1>1 DEF OnceOnly, Typed
<1>3. Typed'
    BY <1>1 DEF Typed, Places
<1>4. ChildIsNew' /\ OneParent' /\ FlagTells'
    BY <1>1 DEF Typed, ChildIsNew, OneParent, FlagTells, Making
<1>5. OnceOnly' /\ VforkFrameLives'
    BY <1>1, <1>2 DEF Typed, OnceOnly, VforkFrameLives
<1> QED
    BY <1>3, <1>4, <1>5

LEMMA FrameNext == FrameInv /\ [Next]_vars => FrameInv'
<1> SUFFICES ASSUME FrameInv, [Next]_vars PROVE FrameInv'
    OBVIOUS
<1> USE DEF Places
<1>1. CASE UNCHANGED vars
    BY <1>1, FrameStutter DEF vars, place, vfork, FrameInv, Typed
<1>2. ASSUME NEW t \in Task, Step(t) PROVE FrameInv'
    <2>1. CASE do_fork(t)
        BY <2>1, FrameFork
    <2>2. CASE copy(t) \/ copy_mm(t) \/ copy_thread(t)
        <3>1. Moves(t, "fork") /\ UNCHANGED vfork
            BY <2>2 DEF copy, copy_mm, copy_thread, Copied, InCopy, Goes, Moves, Making, vfork
        <3> QED
            BY <3>1, FrameMoves
    <2>3. CASE fails(t)
        <3>1. Moves(t, "unwind") /\ UNCHANGED vfork
            BY <2>3 DEF fails, InCopy, Goes, Moves, Making, vfork
        <3> QED
            BY <3>1, FrameMoves
    <2>4. CASE cleanup(t)
        <3>1. Moves(t, "unwind") /\ (mm_release \/ UNCHANGED vfork)
            BY <2>4 DEF cleanup, exit_mm, Goes, Moves, Making, limits
        <3> QED
            BY <3>1, FrameMoves, FrameReleases
    <2>5. CASE fork_fails(t)
        BY <2>5, FrameForkFails
    <2>6. CASE fork_done(t)
        BY <2>6, FrameForkDone
    <2>7. CASE vfork_returns(t)
        BY <2>7, FrameReturns
    <2>8. CASE do_exit(t)
        <3>1. Moves(t, "exit") /\ UNCHANGED vfork
            BY <2>8 DEF do_exit, Goes, Moves, Making
        <3> QED
            BY <3>1, FrameMoves
    <2>9. CASE releases(t)
        <3>1. Moves(t, "exit") /\ (mm_release \/ UNCHANGED vfork)
            BY <2>9 DEF releases, exit_mm, Goes, Moves, Making, limits
        <3> QED
            BY <3>1, FrameMoves, FrameReleases
    <2>10. CASE exit_notify(t)
        <3>1. Moves(t, "zombie") /\ UNCHANGED vfork
            BY <2>10 DEF exit_notify, Goes, Moves, Making
        <3> QED
            BY <3>1, FrameMoves
    <2>11. CASE release_task(t)
        <3>1. Moves(t, "free") /\ UNCHANGED vfork
            BY <2>11 DEF release_task, Moves, Making
        <3> QED
            BY <3>1, FrameMoves
    <2>12. CASE daemonize(t)
        <3>1. Moves(t, "daemonize") /\ mm_release
            BY <2>12 DEF daemonize, exit_mm, Goes, Moves, Making
        <3> QED
            BY <3>1, FrameReleases
    <2>13. CASE as_init_task(t)
        <3>1. (Moves(t, "daemonize") \/ Moves(t, "user")) /\ UNCHANGED vfork
            BY <2>13 DEF as_init_task, Goes, Moves, Making
        <3> QED
            BY <3>1, FrameMoves
    <2>14. CASE context_switch(t)
        BY <2>14, FrameStutter DEF context_switch, place
    <2> QED
        BY <1>2, <2>1, <2>2, <2>3, <2>4, <2>5, <2>6, <2>7, <2>8, <2>9, <2>10, <2>11,
           <2>12, <2>13, <2>14 DEF Step
<1> QED
    BY <1>1, <1>2 DEF Next

\* A pointer to the completion of a vfork is held only by the child for which its
\* do_fork still waits, however the fork ends and whatever copies fail: complete()
\* never writes into a stack frame that is gone.
THEOREM VforkFramesLive == Spec => []VforkFrameLives
<1>1. FrameInv => VforkFrameLives
    BY DEF FrameInv
<1> QED
    BY <1>1, FrameInit, FrameNext, PTL DEF Spec
-----------------------------------------------------------------------------
(* The number of processes                                                 *)

Counted == {t \in Task : at[t] \notin {"free", "idle"}}

LEMMA CountedFinite == IsFiniteSet(Counted)
BY TaskAssumption, FS_Subset DEF Counted

ProcessesInv == FrameInv /\ ProcessesExact

LEMMA ProcessesInit == Init => ProcessesInv
<1> SUFFICES ASSUME Init PROVE ProcessesExact
    BY FrameInit DEF ProcessesInv
<1>1. Counted = {First} /\ processes = 1
    BY TaskAssumption DEF Init, Counted
<1> QED
    BY <1>1, FS_Singleton DEF ProcessesExact, Counted

LEMMA SameCount ==
    ASSUME ProcessesExact, Counted' = Counted, processes' = processes
    PROVE  ProcessesExact'
BY DEF ProcessesExact, Counted

LEMMA OneMore ==
    ASSUME ProcessesExact, NEW p \in Task \ Counted,
           Counted' = Counted \cup {p}, processes' = processes + 1
    PROVE  ProcessesExact'
<1>1. Cardinality(Counted \cup {p}) = Cardinality(Counted) + 1
    BY CountedFinite, FS_AddElement
<1> QED
    BY <1>1 DEF ProcessesExact, Counted

LEMMA OneLess ==
    ASSUME ProcessesExact, NEW p \in Counted,
           Counted' = Counted \ {p}, processes' = processes - 1
    PROVE  ProcessesExact'
<1>1. Cardinality(Counted \ {p}) = Cardinality(Counted) - 1
    BY CountedFinite, FS_RemoveElement
<1> QED
    BY <1>1 DEF ProcessesExact, Counted

\* A task moves on without being born or collected.
LEMMA CountMoves ==
    ASSUME ProcessesExact, Typed, NEW t \in Task, NEW step,
           at' = [at EXCEPT ![t] = step], step \notin {"free", "idle"},
           at[t] \notin {"free", "idle"}, processes' = processes
    PROVE  ProcessesExact'
<1>1. Counted' = Counted
    BY DEF Counted, Typed
<1> QED
    BY <1>1, SameCount

LEMMA ProcessesNext == ProcessesInv /\ [Next]_vars => ProcessesInv'
<1> SUFFICES ASSUME ProcessesInv, [Next]_vars PROVE ProcessesExact'
    BY FrameNext DEF ProcessesInv
<1> USE DEF ProcessesInv, FrameInv
<1>1. CASE UNCHANGED vars
    BY <1>1 DEF vars, place, limits, ProcessesExact
<1>2. ASSUME NEW t \in Task, Step(t) PROVE ProcessesExact'
    <2>1. CASE do_fork(t)
        <3> DEFINE S == {u \in Task : at[u] = "free"}
                   p == AnyOf(S)
        <3>1. p \in Task /\ at[p] = "free"
            BY <2>1, AnyOfIn DEF do_fork
        <3>2. at' = [at EXCEPT ![t] = "fork", ![p] = "new"] /\ at[t] = "user"
            BY <2>1 DEF do_fork
        <3>3. processes' = processes + 1
            BY <2>1 DEF do_fork
        <3> HIDE DEF p
        <3>4. p \in Task \ Counted /\ Counted' = Counted \cup {p}
            BY <3>1, <3>2 DEF Counted, Typed
        <3> QED
            BY <3>3, <3>4, OneMore
    <2>2. CASE fork_fails(t)
        <3> DEFINE p == child[t]
        <3>1. p \in Task /\ at[p] = "new" /\ at[t] = "unwind" /\ p # t
            BY <2>2 DEF fork_fails, ChildIsNew, Making
        <3>2. at' = [at EXCEPT ![t] = "user", ![p] = "free"]
            BY <2>2 DEF fork_fails
        <3>3. processes' = processes - 1
            BY <2>2 DEF fork_fails, FailedCounted
        <3> HIDE DEF p
        <3>4. p \in Counted /\ Counted' = Counted \ {p}
            BY <3>1, <3>2 DEF Counted, Typed
        <3> QED
            BY <3>3, <3>4, OneLess
    <2>3. CASE fork_done(t)
        <3> DEFINE p == child[t]
        <3>1. p \in Task /\ at[p] = "new" /\ at[t] = "fork"
            BY <2>3 DEF fork_done, ChildIsNew, Making
        <3>2. at' = [at EXCEPT ![t] = IF "VFORK" \in flags[t] THEN "vfork" ELSE "user",
                               ![p] = "user"]
            BY <2>3 DEF fork_done
        <3>3. processes' = processes
            BY <2>3 DEF fork_done
        <3> HIDE DEF p
        <3>4. Counted' = Counted
            BY <3>1, <3>2 DEF Counted, Typed
        <3> QED
            BY <3>3, <3>4, SameCount
    <2>4. CASE release_task(t)
        <3>1. at[t] = "zombie" /\ at' = [at EXCEPT ![t] = "free"] /\ processes' = processes - 1
            BY <2>4 DEF release_task
        <3>2. t \in Counted /\ Counted' = Counted \ {t}
            BY <3>1 DEF Counted, Typed
        <3> QED
            BY <3>1, <3>2, OneLess
    <2>5. CASE copy(t) \/ copy_mm(t) \/ copy_thread(t)
        <3>1. at[t] = "fork" /\ at' = [at EXCEPT ![t] = "fork"] /\ processes' = processes
            BY <2>5 DEF copy, copy_mm, copy_thread, Copied, InCopy, Goes, limits
        <3> QED
            BY <3>1, CountMoves
    <2>6. CASE fails(t)
        <3>1. at[t] = "fork" /\ at' = [at EXCEPT ![t] = "unwind"] /\ processes' = processes
            BY <2>6 DEF fails, InCopy, Goes, limits
        <3> QED
            BY <3>1, CountMoves
    <2>7. CASE cleanup(t)
        <3>1. at[t] = "unwind" /\ at' = [at EXCEPT ![t] = "unwind"] /\ processes' = processes
            BY <2>7 DEF cleanup, Goes, limits
        <3> QED
            BY <3>1, CountMoves
    <2>8. CASE vfork_returns(t)
        <3>1. at[t] = "vfork" /\ at' = [at EXCEPT ![t] = "user"] /\ processes' = processes
            BY <2>8 DEF vfork_returns, limits
        <3> QED
            BY <3>1, CountMoves
    <2>9. CASE do_exit(t)
        <3>1. at[t] = "user" /\ at' = [at EXCEPT ![t] = "exit"] /\ processes' = processes
            BY <2>9 DEF do_exit, Goes, limits
        <3> QED
            BY <3>1, CountMoves
    <2>10. CASE releases(t)
        <3>1. at[t] = "exit" /\ at' = [at EXCEPT ![t] = "exit"] /\ processes' = processes
            BY <2>10 DEF releases, Goes, limits
        <3> QED
            BY <3>1, CountMoves
    <2>11. CASE exit_notify(t)
        <3>1. at[t] = "exit" /\ at' = [at EXCEPT ![t] = "zombie"] /\ processes' = processes
            BY <2>11 DEF exit_notify, Goes, limits
        <3> QED
            BY <3>1, CountMoves
    <2>12. CASE daemonize(t)
        <3>1. at[t] = "user" /\ at' = [at EXCEPT ![t] = "daemonize"] /\ processes' = processes
            BY <2>12 DEF daemonize, Goes, limits
        <3> QED
            BY <3>1, CountMoves
    <2>13. CASE as_init_task(t)
        <3>1. /\ at[t] = "daemonize" /\ processes' = processes
              /\ at' = [at EXCEPT ![t] = "daemonize"] \/ at' = [at EXCEPT ![t] = "user"]
            BY <2>13 DEF as_init_task, Goes, limits
        <3> QED
            BY <3>1, CountMoves
    <2>14. CASE context_switch(t)
        BY <2>14 DEF context_switch, place, limits, ProcessesExact
    <2> QED
        BY <1>2, <2>1, <2>2, <2>3, <2>4, <2>5, <2>6, <2>7, <2>8, <2>9, <2>10, <2>11,
           <2>12, <2>13, <2>14 DEF Step
<1> QED
    BY <1>1, <1>2 DEF Next

\* user->processes is the number of processes that there are or are being made: a
\* fork that fails at any copy gives its place back, and a process gives it back
\* once, when it is collected.
THEOREM ProcessesStayExact == Spec => []ProcessesExact
<1>1. ProcessesInv => ProcessesExact
    BY DEF ProcessesInv
<1> QED
    BY <1>1, ProcessesInit, ProcessesNext, PTL DEF Spec
-----------------------------------------------------------------------------
(* Who has a pointer of its own                                            *)

Shared == Kind \cup {"mm"}

\* The place of a copy in the order of do_fork.
Turn(k) == CASE k = "files" -> 1 [] k = "fs" -> 2 [] k = "sighand" -> 3 [] k = "mm" -> 4
             [] OTHER -> 5

\* The child of a call of do_fork that is at (step, n) has its own k.
Within(step, n, k) == IF step = "fork" THEN Turn(k) < n ELSE Turn(k) <= n

Owner(k) ==
    {p \in Task : /\ at[p] # "free"
                  /\ at[p] = "new" => \A t \in Task : Making(t) /\ child[t] = p =>
                                          Within(at[t], stage[t], k)}

\* The ranges of stage; how far a cleanup goes is the length of Copies.
Staged ==
    /\ stage \in [Task -> 0 .. 7]
    /\ \A t \in Task :
        /\ at[t] = "fork" => stage[t] \in 1 .. 7
        /\ at[t] = "unwind" => stage[t] \in 0 .. 5
        /\ at[t] = "exit" => stage[t] \in 1 .. 6
        /\ at[t] = "daemonize" => stage[t] \in 1 .. 2

LEMMA Orders ==
    /\ Len(Copies) = 6
    /\ Copies[1] = "files" /\ Copies[2] = "fs" /\ Copies[3] = "sighand"
    /\ Copies[4] = "mm" /\ Copies[5] = "namespace" /\ Copies[6] = "thread"
    /\ Len(Releases) = 5
    /\ Releases[1] = "mm" /\ Releases[2] = "files" /\ Releases[3] = "fs"
    /\ Releases[4] = "namespace" /\ Releases[5] = "sighand"
BY DEF Copies, Releases

LEMMA Turns ==
    /\ Turn("files") = 1 /\ Turn("fs") = 2 /\ Turn("sighand") = 3
    /\ Turn("mm") = 4 /\ Turn("namespace") = 5
    /\ \A k \in Shared : Turn(k) \in 1 .. 5 /\ Copies[Turn(k)] = k
    /\ \A i \in 1 .. 6 : Copies[i] \in Shared => Turn(Copies[i]) = i
<1>1. /\ Turn("files") = 1 /\ Turn("fs") = 2 /\ Turn("sighand") = 3
      /\ Turn("mm") = 4 /\ Turn("namespace") = 5
    BY DEF Turn
<1>2. Shared = {"files", "fs", "sighand", "mm", "namespace"} /\ "thread" \notin Shared
    BY DEF Shared, Kind
<1>3. \A k \in Shared : Turn(k) \in 1 .. 5 /\ Copies[Turn(k)] = k
    BY <1>1, <1>2, Orders
<1>4. ASSUME NEW i \in 1 .. 6, Copies[i] \in Shared
      PROVE  Turn(Copies[i]) = i
    <2>1. i = 1 \/ i = 2 \/ i = 3 \/ i = 4 \/ i = 5 \/ i = 6
        OBVIOUS
    <2> QED
        BY <1>1, <1>2, <1>4, <2>1, Orders
<1> QED
    BY <1>1, <1>3, <1>4

\* Only the children of calls that are not done are without some pointer.
LEMMA OwnerIs ==
    ASSUME NEW k \in Shared, Staged
    PROVE  {p \in Task : at[p] # "free" /\ Owns(p, k)} = Owner(k)
<1> SUFFICES ASSUME NEW t \in Task, at[t] \in {"fork", "unwind"}
             PROVE  (\E i \in 1 .. Len(Copies) :
                       Copies[i] = k /\ (IF at[t] = "fork" THEN i < stage[t]
                                         ELSE i <= stage[t]))
                    <=> Within(at[t], stage[t], k)
    BY DEF Owner, Owns, Copying, Making
<1> DEFINE n == stage[t]
<1>1. \A i \in 1 .. 6 : Copies[i] = k <=> i = Turn(k)
    BY Turns
<1>2. Turn(k) \in 1 .. 6 /\ Len(Copies) = 6
    BY Turns, Orders
<1>3. n \in 0 .. 7
    BY DEF Staged
<1> QED
    BY <1>1, <1>2, <1>3 DEF Within

\* A task moves on outside do_fork.
LEMMA OwnerMoves ==
    ASSUME FrameInv, NEW t \in Task, NEW step, NEW k,
           at[t] \notin {"fork", "unwind", "new", "free"},
           step \notin {"fork", "unwind", "new", "free"},
           at' = [at EXCEPT ![t] = step],
           \A u \in Task \ {t} : child'[u] = child[u] /\ stage'[u] = stage[u]
    PROVE  Owner(k)' = Owner(k)
BY DEF Owner, Making, FrameInv, Typed

\* .. and inside.
LEMMA OwnerForks ==
    ASSUME FrameInv, NEW t \in Task, NEW step \in {"fork", "unwind"}, NEW n, NEW k,
           Making(t), at' = [at EXCEPT ![t] = step], stage' = [stage EXCEPT ![t] = n],
           child' = child, Staged
    PROVE  /\ child[t] \in Owner(k) <=> Within(at[t], stage[t], k)
           /\ Owner(k)' = IF Within(step, n, k) THEN Owner(k) \cup {child[t]}
                          ELSE Owner(k) \ {child[t]}
<1> DEFINE p == child[t]
<1>1. p \in Task /\ at[p] = "new" /\ p # t
    BY DEF FrameInv, ChildIsNew, Making
<1>2. \A u \in Task : Making(u) /\ child[u] = p => u = t
    BY DEF FrameInv, OneParent
<1>3. p \in Owner(k) <=> Within(at[t], stage[t], k)
    BY <1>1, <1>2 DEF Owner
<1>4. \A u \in Task : /\ Making(u)' <=> Making(u)
                      /\ u # t => at'[u] = at[u] /\ stage'[u] = stage[u]
    BY DEF FrameInv, Typed, Staged, Making
<1>5. at'[t] = step /\ stage'[t] = n
    BY DEF FrameInv, Typed, Staged
<1> HIDE DEF p
<1>6. p \in Owner(k)' <=> Within(step, n, k)
    BY <1>1, <1>2, <1>4, <1>5 DEF Owner, p
<1>7. ASSUME NEW q \in Task, q # p
      PROVE  q \in Owner(k)' <=> q \in Owner(k)
    <2>1. CASE q = t
        BY <2>1, <1>5 DEF Owner, Making
    <2>2. CASE q # t
        BY <2>2, <1>4, <1>7 DEF Owner, p
    <2> QED
        BY <2>1, <2>2
<1>8. Owner(k) \subseteq Task /\ Owner(k)' \subseteq Task
    BY DEF Owner
<1> QED
    BY <1>1, <1>3, <1>6, <1>7, <1>8 DEF p

LEMMA OwnerForked ==
    ASSUME FrameInv, Staged, NEW t \in Task, NEW k \in Shared, do_fork(t)
    PROVE  Owner(k)' = Owner(k)
<1> DEFINE S == {u \in Task : at[u] = "free"}
           p == AnyOf(S)
<1>1. p \in Task /\ at[p] = "free"
    BY AnyOfIn DEF do_fork
<1>2. /\ at' = [at EXCEPT ![t] = "fork", ![p] = "new"] /\ at[t] = "user"
      /\ stage' = [stage EXCEPT ![t] = 1] /\ child' = [child EXCEPT ![t] = p]
    BY DEF do_fork
<1> HIDE DEF p
<1>3. \A u \in Task : Making(u) => child[u] # p
    BY <1>1 DEF FrameInv, ChildIsNew
<1>4. /\ at'[t] = "fork" /\ at'[p] = "new" /\ stage'[t] = 1 /\ child'[t] = p
      /\ \A u \in Task \ {t, p} : at'[u] = at[u] /\ stage'[u] = stage[u] /\ child'[u] = child[u]
      /\ p # t
    BY <1>1, <1>2 DEF FrameInv, Typed, Staged
<1>5. ~Within("fork", 1, k)
    BY Turns DEF Within
<1>6. p \notin Owner(k) /\ p \notin Owner(k)'
    BY <1>1, <1>4, <1>5 DEF Owner, Making
<1>7. t \in Owner(k) /\ t \in Owner(k)'
    BY <1>2, <1>4 DEF Owner
<1>8. \A q \in Task \ {t, p} : q \in Owner(k)' <=> q \in Owner(k)
    <2> SUFFICES ASSUME NEW q \in Task \ {t, p} PROVE q \in Owner(k)' <=> q \in Owner(k)
        OBVIOUS
    <2>1. /\ at[t] \notin {"fork", "unwind"} /\ at'[p] \notin {"fork", "unwind"}
          /\ at[p] \notin {"fork", "unwind"} /\ child'[t] # q
        BY <1>1, <1>2, <1>4
    <2> QED
        BY <1>4, <2>1 DEF Owner, Making
<1>9. Owner(k) \subseteq Task /\ Owner(k)' \subseteq Task
    BY DEF Owner
<1> QED
    BY <1>6, <1>7, <1>8, <1>9

LEMMA OwnerBorn ==
    ASSUME FrameInv, Staged, NEW t \in Task, NEW k \in Shared, fork_done(t)
    PROVE  Owner(k)' = Owner(k)
<1> DEFINE p == child[t]
<1>1. p \in Task /\ at[p] = "new" /\ p # t /\ at[t] = "fork" /\ stage[t] = 7
    BY Orders DEF fork_done, FrameInv, ChildIsNew, Making, Staged
<1>2. \A u \in Task : Making(u) /\ child[u] = p => u = t
    BY <1>1 DEF FrameInv, OneParent, Making
<1>3. /\ at'[t] \in {"vfork", "user"} /\ at'[p] = "user"
      /\ \A u \in Task \ {t, p} : at'[u] = at[u] /\ stage'[u] = stage[u] /\ child'[u] = child[u]
    BY <1>1 DEF fork_done, FrameInv, Typed, Staged, Reset
<1> HIDE DEF p
<1>4. Within("fork", 7, k)
    BY Turns DEF Within
<1>5. p \in Owner(k) /\ p \in Owner(k)'
    BY <1>1, <1>2, <1>3, <1>4 DEF Owner
<1>6. t \in Owner(k) /\ t \in Owner(k)'
    BY <1>1, <1>3 DEF Owner
<1>7. \A q \in Task \ {t, p} : q \in Owner(k)' <=> q \in Owner(k)
    <2> SUFFICES ASSUME NEW q \in Task \ {t, p} PROVE q \in Owner(k)' <=> q \in Owner(k)
        OBVIOUS
    <2>1. /\ child[t] # q
          /\ at'[t] \notin {"fork", "unwind"} /\ at'[p] \notin {"fork", "unwind"}
          /\ at[p] \notin {"fork", "unwind"}
        BY <1>1, <1>3 DEF p
    <2> QED
        BY <1>3, <2>1 DEF Owner, Making
<1>8. Owner(k) \subseteq Task /\ Owner(k)' \subseteq Task
    BY DEF Owner
<1> QED
    BY <1>5, <1>6, <1>7, <1>8

LEMMA OwnerUnborn ==
    ASSUME FrameInv, Staged, NEW t \in Task, NEW k \in Shared, fork_fails(t)
    PROVE  Owner(k)' = Owner(k) /\ child[t] \notin Owner(k)
<1> DEFINE p == child[t]
<1>1. p \in Task /\ at[p] = "new" /\ p # t /\ at[t] = "unwind" /\ stage[t] = 0
    BY DEF fork_fails, FrameInv, ChildIsNew, Making
<1>3. /\ at'[t] = "user" /\ at'[p] = "free"
      /\ \A u \in Task \ {t, p} : at'[u] = at[u] /\ stage'[u] = stage[u] /\ child'[u] = child[u]
    BY <1>1 DEF fork_fails, FrameInv, Typed, Staged, Reset
<1> HIDE DEF p
<1>4. ~Within("unwind", 0, k)
    BY Turns DEF Within
<1>5. p \notin Owner(k) /\ p \notin Owner(k)'
    BY <1>1, <1>3, <1>4 DEF Owner, Making, p
<1>6. t \in Owner(k) /\ t \in Owner(k)'
    BY <1>1, <1>3 DEF Owner
<1>7. \A q \in Task \ {t, p} : q \in Owner(k)' <=> q \in Owner(k)
    <2> SUFFICES ASSUME NEW q \in Task \ {t, p} PROVE q \in Owner(k)' <=> q \in Owner(k)
        OBVIOUS
    <2>1. /\ child[t] # q
          /\ at'[t] \notin {"fork", "unwind"} /\ at'[p] \notin {"fork", "unwind"}
          /\ at[p] \notin {"fork", "unwind"}
        BY <1>1, <1>3 DEF p
    <2> QED
        BY <1>3, <2>1 DEF Owner, Making
<1>8. Owner(k) \subseteq Task /\ Owner(k)' \subseteq Task
    BY DEF Owner
<1> QED
    BY <1>5, <1>6, <1>7, <1>8 DEF p

LEMMA OwnerReaped ==
    ASSUME FrameInv, Staged, NEW t \in Task, NEW k, release_task(t)
    PROVE  Owner(k)' = Owner(k) \ {t}
BY DEF release_task, Owner, Making, FrameInv, Typed
-----------------------------------------------------------------------------
(* The counters of files, fs, signal handlers and namespaces               *)

Holding(k, o) == {p \in Owner(k) : ref[k][p] = o}

Counts == \A k \in Kind : \A o \in Task : count[k][o] = Cardinality(Holding(k, o))

RefTyped ==
    /\ ref \in [Kind -> [Task -> Task \cup {NULL}]]
    /\ count \in [Kind -> [Task -> Nat]]

\* What do_exit has released it does not point to, and a zombie to nothing.
GivenBack ==
    \A t \in Task :
        /\ at[t] = "zombie" => \A k \in Kind : ref[k][t] = NULL
        /\ at[t] = "exit" => \A i \in 2 .. 5 : i < stage[t] => ref[Releases[i]][t] = NULL

SharesInv == FrameInv /\ Staged /\ RefTyped /\ GivenBack /\ Counts

LEMMA SubsetFinite ==
    ASSUME NEW S \in SUBSET Task
    PROVE  IsFiniteSet(S) /\ Cardinality(S) \in Nat
BY TaskAssumption, FS_Subset, FS_CardinalityType

\* A set that changes in one element.
LEMMA OneChanged ==
    ASSUME NEW H \in SUBSET Task, NEW G \in SUBSET Task, NEW p \in Task,
           H \ {p} = G \ {p}
    PROVE  Cardinality(G) = Cardinality(H) - (IF p \in H THEN 1 ELSE 0)
                                           + (IF p \in G THEN 1 ELSE 0)
<1>1. ASSUME NEW S \in SUBSET Task
      PROVE  /\ Cardinality(S) = Cardinality(S \ {p}) + (IF p \in S THEN 1 ELSE 0)
             /\ Cardinality(S \ {p}) \in Nat
    <2>1. IsFiniteSet(S) /\ Cardinality(S) \in Nat /\ Cardinality(S \ {p}) \in Nat
        BY SubsetFinite
    <2>2. CASE p \in S
        <3>1. Cardinality(S \ {p}) = Cardinality(S) - 1
            BY <2>1, <2>2, FS_RemoveElement
        <3> QED
            BY <2>1, <2>2, <3>1
    <2>3. CASE p \notin S
        <3>1. S \ {p} = S
            BY <2>3
        <3>2. Cardinality(S \ {p}) = Cardinality(S)
            BY <3>1, Zenon
        <3> QED
            BY <2>1, <2>3, <3>2
    <2> QED
        BY <2>2, <2>3
<1> DEFINE h == Cardinality(H)
           g == Cardinality(G)
           m == Cardinality(H \ {p})
<1>2. h = m + (IF p \in H THEN 1 ELSE 0) /\ m \in Nat
    BY <1>1
<1>3. g = m + (IF p \in G THEN 1 ELSE 0)
    BY <1>1
<1> HIDE DEF h, g, m
<1>4. g = h - (IF p \in H THEN 1 ELSE 0) + (IF p \in G THEN 1 ELSE 0)
    BY <1>2, <1>3
<1> QED
    BY <1>4 DEF h, g

\* Fewer users than structures: one of them is free.
LEMMA Pigeons ==
    ASSUME NEW p \in Task, NEW S \in SUBSET (Task \ {p}), NEW f,
           \A o \in Task : \E q \in S : f[q] = o
    PROVE  FALSE
<1> DEFINE R == {q \in S : f[q] \in Task}
           g == [q \in R |-> f[q]]
<1>1. IsFiniteSet(R) /\ Cardinality(R) \in Nat
    BY SubsetFinite
<1>2. g \in Surjection(R, Task)
    BY DEF Surjection
<1>3. Cardinality(Task) <= Cardinality(R)
    BY <1>1, <1>2, FS_Surjection
<1>4. Cardinality(Task \ {p}) = Cardinality(Task) - 1 /\ Cardinality(Task) \in Nat
    BY TaskAssumption, FS_RemoveElement, FS_CardinalityType
<1>5. Cardinality(R) <= Cardinality(Task \ {p})
    <2>1. IsFiniteSet(Task \ {p}) /\ R \subseteq Task \ {p}
        BY TaskAssumption, FS_Subset
    <2> QED
        BY <2>1, FS_Subset
<1> QED
    BY <1>1, <1>3, <1>4, <1>5

LEMMA ShareFree ==
    ASSUME SharesInv, NEW k \in Kind, NEW p \in Task, p \notin Owner(k)
    PROVE  AnyOf(Free(k)) \in Task /\ count[k][AnyOf(Free(k))] = 0
<1>1. Free(k) # {}
    <2> SUFFICES ASSUME \A o \in Task : count[k][o] # 0 PROVE FALSE
        BY DEF Free
    <2>1. ASSUME NEW o \in Task PROVE \E q \in Owner(k) : ref[k][q] = o
        <3>1. Cardinality(Holding(k, o)) # 0
            BY DEF SharesInv, Counts
        <3>2. Holding(k, o) # {}
            BY <3>1, FS_EmptySet
        <3> QED
            BY <3>2 DEF Holding
    <2> DEFINE f == ref[k]
               S == Owner(k)
    <2>2. S \in SUBSET (Task \ {p}) /\ \A o \in Task : \E q \in S : f[q] = o
        BY <2>1 DEF Owner
    <2> HIDE DEF f, S
    <2> QED
        BY <2>2, Pigeons
<1>2. AnyOf(Free(k)) \in Free(k)
    BY <1>1, AnyOfIn
<1> QED
    BY <1>2 DEF Free

\* Nobody's holdings change.
LEMMA ShareSame ==
    ASSUME Counts, count' = count,
           \A k \in Kind : \A o \in Task : Holding(k, o)' = Holding(k, o)
    PROVE  Counts'
BY DEF Counts

\* p changes what it holds of kind j.
LEMMA ShareMoves ==
    ASSUME Counts, NEW j \in Kind, NEW p \in Task,
           \A k \in Kind \ {j} : \A o \in Task :
               Holding(k, o)' = Holding(k, o) /\ count'[k][o] = count[k][o],
           \A o \in Task :
               /\ Holding(j, o)' \ {p} = Holding(j, o) \ {p}
               /\ count'[j][o] = count[j][o] - (IF p \in Holding(j, o) THEN 1 ELSE 0)
                                             + (IF p \in Holding(j, o)' THEN 1 ELSE 0)
    PROVE  Counts'
<1> SUFFICES ASSUME NEW k \in Kind, NEW o \in Task
             PROVE  count'[k][o] = Cardinality(Holding(k, o)')
    BY DEF Counts
<1>1. CASE k # j
    BY <1>1 DEF Counts
<1>2. CASE k = j
    <2> DEFINE H == Holding(j, o)
               G == Holding(j, o)'
    <2>1. H \in SUBSET Task /\ G \in SUBSET Task /\ H \ {p} = G \ {p}
        BY DEF Holding, Owner
    <2>2. count'[j][o] = Cardinality(H) - (IF p \in H THEN 1 ELSE 0)
                                        + (IF p \in G THEN 1 ELSE 0)
        BY DEF Counts
    <2> HIDE DEF H, G
    <2>3. count'[j][o] = Cardinality(G)
        BY <2>1, <2>2, OneChanged
    <2> QED
        BY <1>2, <2>3 DEF G
<1> QED
    BY <1>1, <1>2

\* Release(j, p), and p owns no pointer of this kind afterwards or a NULL one.
LEMMA ShareReleased ==
    ASSUME SharesInv, NEW j \in Kind, NEW p \in Owner(j), Release(j, p),
           \A k \in Kind \ {j} : Owner(k)' = Owner(k),
           Owner(j)' \ {p} = Owner(j) \ {p}
    PROVE  RefTyped' /\ Counts'
<1> USE TaskAssumption
<1>1. p \in Task /\ \A k \in Kind : Owner(k) \subseteq Task /\ Owner(k)' \subseteq Task
    BY DEF Owner
<1>2. ref' = [ref EXCEPT ![j][p] = NULL]
    BY DEF Release
<1>3. /\ ref' \in [Kind -> [Task -> Task \cup {NULL}]] /\ ref'[j][p] = NULL
      /\ \A k \in Kind, q \in Task : k # j \/ q # p => ref'[k][q] = ref[k][q]
    BY <1>1, <1>2 DEF SharesInv, RefTyped
<1>4. /\ \A k \in Kind \ {j} : \A o \in Task : Holding(k, o)' = Holding(k, o)
      /\ \A o \in Task : Holding(j, o)' \ {p} = Holding(j, o) \ {p}
      /\ \A o \in Task : p \in Holding(j, o) <=> ref[j][p] = o
      /\ \A o \in Task : p \notin Holding(j, o)'
    BY <1>1, <1>3 DEF Holding
<1> DEFINE r == ref[j][p]
<1>5. CASE r = NULL
    <2>1. count' = count
        BY <1>5 DEF Release
    <2>2. \A k \in Kind : \A o \in Task : Holding(k, o)' = Holding(k, o)
        BY <1>4, <1>5
    <2> QED
        BY <1>3, <2>1, <2>2, ShareSame DEF SharesInv, RefTyped
<1>6. CASE r # NULL
    <2>1. r \in Task
        BY <1>1, <1>6 DEF SharesInv, RefTyped
    <2>2. count' = [count EXCEPT ![j][r] = @ - 1]
        BY <1>6 DEF Release, Put
    <2>3. count[j][r] # 0
        <3>1. p \in Holding(j, r)
            BY <1>4, <2>1
        <3>2. Holding(j, r) \in SUBSET Task
            BY DEF Holding, Owner
        <3>3. Cardinality(Holding(j, r)) # 0
            BY <3>1, <3>2, SubsetFinite, FS_EmptySet
        <3> QED
            BY <2>1, <3>3 DEF SharesInv, Counts
    <2> HIDE DEF r
    <2>4. count' \in [Kind -> [Task -> Nat]]
        <3>1. count \in [Kind -> [Task -> Nat]]
            BY DEF SharesInv, RefTyped
        <3>2. count[j][r] - 1 \in Nat
            BY <2>1, <2>3, <3>1
        <3> QED
            BY <2>1, <2>2, <3>1, <3>2
    <2>5. /\ \A k \in Kind \ {j} : \A o \in Task : count'[k][o] = count[k][o]
          /\ \A o \in Task : count'[j][o] = count[j][o] - (IF o = r THEN 1 ELSE 0)
        BY <2>1, <2>2 DEF SharesInv, RefTyped
    <2>6. \A o \in Task :
              count'[j][o] = count[j][o] - (IF p \in Holding(j, o) THEN 1 ELSE 0)
                                         + (IF p \in Holding(j, o)' THEN 1 ELSE 0)
        BY <1>4, <2>5 DEF SharesInv, RefTyped, r
    <2>7. Counts'
        BY <1>1, <1>4, <2>5, <2>6, ShareMoves DEF SharesInv
    <2> QED
        BY <1>3, <2>4, <2>7 DEF RefTyped
<1> QED
    BY <1>5, <1>6

\* A copy that succeeds makes its pointer the child's own, and no other.
LEMMA OwnerCopied ==
    ASSUME FrameInv, Staged, NEW t \in Task, at[t] = "fork", stage[t] <= 6, Copied(t),
           NEW k \in Shared
    PROVE  /\ Turn(k) = stage[t] => child[t] \notin Owner(k)
                                    /\ Owner(k)' = Owner(k) \cup {child[t]}
           /\ Turn(k) # stage[t] => Owner(k)' = Owner(k)
<1>1. /\ at' = [at EXCEPT ![t] = "fork"] /\ stage' = [stage EXCEPT ![t] = stage[t] + 1]
      /\ child' = child /\ Making(t) /\ stage[t] \in 1 .. 6
    BY DEF Copied, Goes, Making, Staged
<1>2. /\ child[t] \in Owner(k) <=> Within("fork", stage[t], k)
      /\ Owner(k)' = IF Within("fork", stage[t] + 1, k) THEN Owner(k) \cup {child[t]}
                     ELSE Owner(k) \ {child[t]}
    BY <1>1, OwnerForks
<1>3. Turn(k) \in 1 .. 5
    BY Turns
<1> QED
    BY <1>1, <1>2, <1>3 DEF Within

\* One that fails changes nothing: what the child has is what is to be undone.
LEMMA OwnerFails ==
    ASSUME FrameInv, Staged, NEW t \in Task, fails(t), NEW k \in Shared
    PROVE  Owner(k)' = Owner(k) /\ (Turn(k) = stage[t] => child[t] \notin Owner(k))
<1>1. /\ at' = [at EXCEPT ![t] = "unwind"] /\ stage' = [stage EXCEPT ![t] = stage[t] - 1]
      /\ child' = child /\ at[t] = "fork" /\ Making(t) /\ stage[t] \in 1 .. 7
    BY DEF fails, InCopy, Goes, Making, Staged
<1>2. /\ child[t] \in Owner(k) <=> Within("fork", stage[t], k)
      /\ Owner(k)' = IF Within("unwind", stage[t] - 1, k) THEN Owner(k) \cup {child[t]}
                     ELSE Owner(k) \ {child[t]}
    BY <1>1, OwnerForks
<1>3. Turn(k) \in 1 .. 5
    BY Turns
<1> QED
    BY <1>1, <1>2, <1>3 DEF Within

LEMMA OwnerCleaned ==
    ASSUME FrameInv, Staged, NEW t \in Task, cleanup(t), NEW k \in Shared
    PROVE  /\ Turn(k) = stage[t] => child[t] \in Owner(k)
                                    /\ Owner(k)' = Owner(k) \ {child[t]}
           /\ Turn(k) # stage[t] => Owner(k)' = Owner(k)
<1>1. /\ at' = [at EXCEPT ![t] = "unwind"] /\ stage' = [stage EXCEPT ![t] = stage[t] - 1]
      /\ child' = child /\ at[t] = "unwind" /\ Making(t) /\ stage[t] \in 1 .. 5
    BY DEF cleanup, Goes, Making, Staged
<1>2. /\ child[t] \in Owner(k) <=> Within("unwind", stage[t], k)
      /\ Owner(k)' = IF Within("unwind", stage[t] - 1, k) THEN Owner(k) \cup {child[t]}
                     ELSE Owner(k) \ {child[t]}
    BY <1>1, OwnerForks
<1>3. Turn(k) \in 1 .. 5
    BY Turns
<1> QED
    BY <1>1, <1>2, <1>3 DEF Within

LEMMA ShareCopied ==
    ASSUME SharesInv, NEW t \in Task, copy(t)
    PROVE  RefTyped' /\ Counts'
<1> USE TaskAssumption
<1>1. PICK j \in Kind :
          /\ InCopy(t, j)
          /\ LET o == IF j \in flags[t] THEN ref[j][t] ELSE AnyOf(Free(j)) IN
              /\ ref' = [ref EXCEPT ![j][child[t]] = o]
              /\ count' = [count EXCEPT ![j][o] = @ + 1]
    BY DEF copy
<1> DEFINE p == child[t]
           x == IF j \in flags[t] THEN ref[j][t] ELSE AnyOf(Free(j))
<1>2. at[t] = "fork" /\ Copied(t) /\ stage[t] \in 1 .. 6 /\ Copies[stage[t]] = j
    BY <1>1, Orders DEF copy, InCopy, SharesInv, Staged
<1>3. p \in Task
    BY <1>2 DEF SharesInv, FrameInv, ChildIsNew, Making
<1>4. stage[t] = Turn(j) /\ \A k \in Kind \ {j} : stage[t] # Turn(k)
    BY <1>2, Turns DEF Shared
<1>5. /\ p \notin Owner(j) /\ Owner(j)' = Owner(j) \cup {p}
      /\ \A k \in Kind \ {j} : Owner(k)' = Owner(k)
    BY <1>2, <1>4, OwnerCopied DEF SharesInv, Shared
<1>6. x \in Task \cup {NULL}
    BY <1>3, <1>5, ShareFree DEF SharesInv, RefTyped
<1>7. ref' = [ref EXCEPT ![j][p] = x] /\ count' = [count EXCEPT ![j][x] = @ + 1]
    BY <1>1
<1>8. \A k \in Kind : Owner(k) \subseteq Task /\ Owner(k)' \subseteq Task
    BY DEF Owner
<1> HIDE DEF p, x
<1>9. /\ ref' \in [Kind -> [Task -> Task \cup {NULL}]] /\ ref'[j][p] = x
      /\ \A k \in Kind, q \in Task : k # j \/ q # p => ref'[k][q] = ref[k][q]
    BY <1>3, <1>6, <1>7 DEF SharesInv, RefTyped
<1>10. count' \in [Kind -> [Task -> Nat]]
    <2>1. CASE x \in Task
        BY <1>7, <2>1 DEF SharesInv, RefTyped
    <2>2. CASE x \notin Task
        <3>1. count' = [count EXCEPT ![j] = [count[j] EXCEPT ![x] = @ + 1]]
            BY <1>7
        <3>2. [count[j] EXCEPT ![x] = @ + 1] = count[j]
            BY <2>2 DEF SharesInv, RefTyped
        <3> QED
            BY <3>1, <3>2 DEF SharesInv, RefTyped
    <2> QED
        BY <2>1, <2>2
<1>11. /\ \A k \in Kind \ {j} : \A o \in Task : count'[k][o] = count[k][o]
       /\ \A o \in Task : count'[j][o] = count[j][o] + (IF o = x THEN 1 ELSE 0)
    BY <1>6, <1>7 DEF SharesInv, RefTyped
<1>12. /\ \A k \in Kind \ {j} : \A o \in Task : Holding(k, o)' = Holding(k, o)
       /\ \A o \in Task : Holding(j, o)' \ {p} = Holding(j, o) \ {p}
       /\ \A o \in Task : p \notin Holding(j, o)
       /\ \A o \in Task : p \in Holding(j, o)' <=> x = o
    BY <1>3, <1>5, <1>8, <1>9 DEF Holding
<1>13. \A o \in Task :
           count'[j][o] = count[j][o] - (IF p \in Holding(j, o) THEN 1 ELSE 0)
                                      + (IF p \in Holding(j, o)' THEN 1 ELSE 0)
    BY <1>11, <1>12 DEF SharesInv, RefTyped
<1>14. Counts'
    BY <1>3, <1>11, <1>12, <1>13, ShareMoves DEF SharesInv
<1> QED
    BY <1>9, <1>10, <1>14 DEF RefTyped

LEMMA ShareBecomes ==
    ASSUME SharesInv, NEW t \in Task, as_init_task(t)
    PROVE  RefTyped' /\ Counts'
<1> USE TaskAssumption
<1>1. PICK j \in Kind, x \in Task \cup {NULL}, y \in Task \cup {NULL} :
          /\ x = ref[j][init_task] /\ y = ref[j][t]
          /\ ref' = [ref EXCEPT ![j][t] = x] /\ count' = Becomes(j, t)
          /\ at[t] = "daemonize"
    <2> DEFINE k == IF stage[t] = 1 THEN "fs" ELSE "files"
    <2>1. k \in Kind
        BY DEF Kind
    <2>2. /\ ref' = [ref EXCEPT ![k][t] = ref[k][init_task]]
          /\ count' = Becomes(k, t) /\ at[t] = "daemonize"
        BY DEF as_init_task
    <2>3. ref[k][init_task] \in Task \cup {NULL} /\ ref[k][t] \in Task \cup {NULL}
        BY <2>1 DEF SharesInv, RefTyped
    <2> HIDE DEF k
    <2> QED
        BY <2>1, <2>2, <2>3
<1>2. x \in Task \cup {NULL} /\ y \in Task \cup {NULL}
    OBVIOUS
<1>3. \A k \in Kind : Owner(k)' = Owner(k) /\ t \in Owner(k)
    <2>1. PICK step \in {"daemonize", "user"} : at' = [at EXCEPT ![t] = step]
        BY DEF as_init_task, Goes
    <2>2. child' = child /\ \A u \in Task \ {t} : stage'[u] = stage[u]
        BY DEF as_init_task, Goes, SharesInv, Staged
    <2>3. \A k \in Kind : Owner(k)' = Owner(k)
        BY <1>1, <2>1, <2>2, OwnerMoves DEF SharesInv
    <2> QED
        BY <1>1, <2>3 DEF Owner
<1>4. count' = [count EXCEPT ![j] = [o \in Task |-> count[j][o]
                    - (IF o = y THEN 1 ELSE 0) + (IF o = x THEN 1 ELSE 0)]]
    BY <1>1 DEF Becomes
<1>5. ref' = [ref EXCEPT ![j][t] = x] /\ y = ref[j][t]
    BY <1>1
<1>6. /\ ref' \in [Kind -> [Task -> Task \cup {NULL}]] /\ ref'[j][t] = x
      /\ \A k \in Kind, q \in Task : k # j \/ q # t => ref'[k][q] = ref[k][q]
    BY <1>2, <1>5 DEF SharesInv, RefTyped
<1>7. /\ \A k \in Kind \ {j} : \A o \in Task : count'[k][o] = count[k][o]
      /\ \A o \in Task : count'[j][o] = count[j][o] - (IF o = y THEN 1 ELSE 0)
                                                    + (IF o = x THEN 1 ELSE 0)
      /\ count' \in [Kind -> [Task -> Int]]
    BY <1>4, <1>5 DEF SharesInv, RefTyped
<1>8. /\ \A k \in Kind \ {j} : \A o \in Task : Holding(k, o)' = Holding(k, o)
      /\ \A o \in Task : Holding(j, o)' \ {t} = Holding(j, o) \ {t}
      /\ \A o \in Task : t \in Holding(j, o) <=> y = o
      /\ \A o \in Task : t \in Holding(j, o)' <=> x = o
    <2>1. \A k \in Kind : Owner(k) \subseteq Task
        BY DEF Owner
    <2> QED
        BY <1>3, <1>5, <1>6, <2>1 DEF Holding
<1>9. \A o \in Task :
          count'[j][o] = count[j][o] - (IF t \in Holding(j, o) THEN 1 ELSE 0)
                                     + (IF t \in Holding(j, o)' THEN 1 ELSE 0)
    BY <1>7, <1>8 DEF SharesInv, RefTyped
<1>10. Counts'
    BY <1>5, <1>7, <1>8, <1>9, ShareMoves DEF SharesInv
<1>11. count' \in [Kind -> [Task -> Nat]]
    <2>1. \A k \in Kind : \A o \in Task : Holding(k, o)' \in SUBSET Task
        BY DEF Holding, Owner
    <2>2. \A k \in Kind : \A o \in Task : count'[k][o] \in Nat
        BY <1>10, <2>1, SubsetFinite DEF Counts
    <2> QED
        BY <1>7, <2>2
<1> QED
    BY <1>6, <1>10, <1>11 DEF RefTyped

LEMMA StagedNext ==
    ASSUME FrameInv, Staged, NEW t \in Task, Step(t)
    PROVE  Staged'
<1> USE DEF FrameInv, Typed, Staged
<1>1. CASE do_fork(t)
    <2> DEFINE S == {u \in Task : at[u] = "free"}
               p == AnyOf(S)
    <2>1. p \in Task /\ at[p] = "free"
        <3>1. S # {}
            BY <1>1 DEF do_fork
        <3>2. p \in S
            BY <3>1, AnyOfIn
        <3> QED
            BY <3>2
    <2>2. at' = [at EXCEPT ![t] = "fork", ![p] = "new"] /\ stage' = [stage EXCEPT ![t] = 1]
        BY <1>1 DEF do_fork
    <2> HIDE DEF p
    <2>3. /\ at'[p] = "new" /\ at'[t] \in {"fork", "new"} /\ stage'[t] = 1
          /\ \A u \in Task \ {t, p} : at'[u] = at[u]
          /\ \A u \in Task \ {t} : stage'[u] = stage[u]
        BY <2>1, <2>2
    <2>4. stage' \in [Task -> 0 .. 7]
        BY <2>2
    <2> QED
        BY <2>3, <2>4
<1>2. CASE copy(t) \/ copy_mm(t) \/ copy_thread(t)
    <2>1. /\ at' = [at EXCEPT ![t] = "fork"] /\ stage' = [stage EXCEPT ![t] = stage[t] + 1]
          /\ at[t] = "fork" /\ stage[t] <= 6
        BY <1>2, Orders DEF copy, copy_mm, copy_thread, InCopy, Copied, Goes
    <2> QED
        BY <2>1
<1>3. CASE fails(t)
    <2>1. /\ at' = [at EXCEPT ![t] = "unwind"] /\ stage' = [stage EXCEPT ![t] = stage[t] - 1]
          /\ at[t] = "fork" /\ stage[t] <= 6
        BY <1>3, Orders DEF fails, InCopy, Goes
    <2> QED
        BY <2>1
<1>4. CASE cleanup(t)
    <2>1. /\ at' = [at EXCEPT ![t] = "unwind"] /\ stage' = [stage EXCEPT ![t] = stage[t] - 1]
          /\ at[t] = "unwind" /\ stage[t] > 0
        BY <1>4 DEF cleanup, Goes
    <2> QED
        BY <2>1
<1>5. CASE fork_fails(t)
    BY <1>5 DEF fork_fails
<1>6. CASE fork_done(t)
    <2>1. /\ stage' = [stage EXCEPT ![t] = 0]
          /\ \A u \in Task : at'[u] = at[u] \/ at'[u] \in {"vfork", "user"}
          /\ at'[t] \in {"vfork", "user"} \/ t = child[t]
        BY <1>6 DEF fork_done
    <2>2. t # child[t]
        BY <1>6 DEF fork_done, ChildIsNew, Making
    <2> QED
        BY <2>1, <2>2
<1>7. CASE vfork_returns(t)
    BY <1>7 DEF vfork_returns
<1>8. CASE do_exit(t)
    BY <1>8 DEF do_exit, Goes
<1>9. CASE releases(t)
    <2>1. /\ at' = [at EXCEPT ![t] = "exit"] /\ stage' = [stage EXCEPT ![t] = stage[t] + 1]
          /\ at[t] = "exit" /\ stage[t] <= 5
        BY <1>9, Orders DEF releases, Goes
    <2> QED
        BY <2>1
<1>10. CASE exit_notify(t)
    BY <1>10 DEF exit_notify, Goes
<1>11. CASE release_task(t)
    BY <1>11 DEF release_task
<1>12. CASE daemonize(t)
    BY <1>12 DEF daemonize, Goes
<1>13. CASE as_init_task(t)
    BY <1>13 DEF as_init_task, Goes
<1>14. CASE context_switch(t)
    BY <1>14 DEF context_switch, place
<1> QED
    BY <1>1, <1>2, <1>3, <1>4, <1>5, <1>6, <1>7, <1>8, <1>9, <1>10, <1>11, <1>12, <1>13,
       <1>14 DEF Step

\* A step after which every task that leaves has given back what it had.
LEMMA GivenSame ==
    ASSUME GivenBack, \A u \in Task : at'[u] \in {"exit", "zombie"} =>
                          /\ at'[u] = at[u] /\ stage'[u] = stage[u]
                          /\ \A k \in Kind : ref'[k][u] = ref[k][u]
    PROVE  GivenBack'
<1>1. \A i \in 2 .. 5 : Releases[i] \in Kind
    <2> SUFFICES ASSUME NEW i \in 2 .. 5 PROVE Releases[i] \in Kind
        OBVIOUS
    <2>1. i = 2 \/ i = 3 \/ i = 4 \/ i = 5
        OBVIOUS
    <2> QED
        BY <2>1, Orders DEF Kind
<1> QED
    BY <1>1 DEF GivenBack

LEMMA GivenReleases ==
    ASSUME SharesInv, NEW t \in Task, releases(t)
    PROVE  GivenBack'
<1> USE TaskAssumption
<1> DEFINE s == stage[t]
           j == Releases[s]
<1>1. /\ at[t] = "exit" /\ s \in 1 .. 5 /\ at'[t] = "exit" /\ stage'[t] = s + 1
      /\ \A u \in Task \ {t} : at'[u] = at[u] /\ stage'[u] = stage[u]
    BY Orders DEF releases, Goes, SharesInv, FrameInv, Typed, Staged
<1>2. \A i \in 2 .. 5 : Releases[i] \in Kind
    <2> SUFFICES ASSUME NEW i \in 2 .. 5 PROVE Releases[i] \in Kind
        OBVIOUS
    <2>1. i = 2 \/ i = 3 \/ i = 4 \/ i = 5
        OBVIOUS
    <2> QED
        BY <2>1, Orders DEF Kind
<1>3. /\ \A k \in Kind, u \in Task : u # t => ref'[k][u] = ref[k][u]
      /\ \A k \in Kind : ref[k][t] = NULL => ref'[k][t] = NULL
      /\ s # 1 => ref'[j][t] = NULL
    <2>1. CASE s = 1
        BY <2>1, Orders DEF releases, shares
    <2>2. CASE s # 1
        <3>1. j \in Kind /\ j # "mm"
            BY <1>1, <1>2, <2>2 DEF Kind
        <3>2. ref' = [ref EXCEPT ![j][t] = NULL]
            BY <3>1 DEF releases, Release
        <3> HIDE DEF j
        <3> QED
            BY <3>1, <3>2 DEF SharesInv, RefTyped
    <2> QED
        BY <2>1, <2>2
<1>4. ASSUME NEW i \in 2 .. 5, i < s + 1
      PROVE  ref'[Releases[i]][t] = NULL
    <2>1. CASE i = s
        BY <1>3, <1>4, <2>1
    <2>2. CASE i # s
        <3>1. i < s
            BY <1>1, <1>4, <2>2
        <3>2. ref[Releases[i]][t] = NULL
            BY <1>1, <3>1 DEF SharesInv, GivenBack
        <3> QED
            BY <1>2, <1>3, <3>2
    <2> QED
        BY <2>1, <2>2
<1> HIDE DEF s, j
<1> QED
    BY <1>1, <1>2, <1>3, <1>4 DEF SharesInv, GivenBack

LEMMA GivenNotify ==
    ASSUME SharesInv, NEW t \in Task, exit_notify(t)
    PROVE  GivenBack'
<1>1. at[t] = "exit" /\ stage[t] = 6
    BY Orders DEF exit_notify, SharesInv, Staged
<1>2. \A k \in Kind : \E i \in 2 .. 5 : Releases[i] = k
    BY Orders DEF Kind
<1>3. \A k \in Kind : ref[k][t] = NULL
    BY <1>1, <1>2 DEF SharesInv, GivenBack
<1>4. /\ at' = [at EXCEPT ![t] = "zombie"] /\ ref' = ref
      /\ stage' = [stage EXCEPT ![t] = 0]
    BY DEF exit_notify, Goes, shares
<1> QED
    BY <1>3, <1>4 DEF SharesInv, GivenBack, FrameInv, Typed, Staged

\* A step after which each task has the pointers that it had, as far as they count.
LEMMA ShareKept ==
    ASSUME SharesInv, count' = count, ref' \in [Kind -> [Task -> Task \cup {NULL}]],
           \A k \in Kind : /\ Owner(k)' = Owner(k)
                           /\ \A q \in Owner(k) : ref'[k][q] = ref[k][q]
    PROVE  RefTyped' /\ Counts'
<1>1. \A k \in Kind : \A o \in Task : Holding(k, o)' = Holding(k, o)
    BY DEF Holding
<1> QED
    BY <1>1, ShareSame DEF SharesInv, RefTyped

\* A task structure is given one value: nobody else's pointers change.
LEMMA ShareReset ==
    ASSUME SharesInv, NEW p \in Task, FreeTask(p)
    PROVE  /\ ref' \in [Kind -> [Task -> Task \cup {NULL}]]
           /\ \A k \in Kind : ref'[k][p] = NULL
                              /\ \A q \in Task \ {p} : ref'[k][q] = ref[k][q]
BY DEF FreeTask, Reset, SharesInv, RefTyped

LEMMA SharesInit == Init => SharesInv
<1> USE TaskAssumption
<1> SUFFICES ASSUME Init PROVE SharesInv
    OBVIOUS
<1>1. FrameInv
    BY FrameInit
<1>2. /\ at[init_task] = "idle" /\ at[First] = "user"
      /\ \A t \in Task \ {init_task, First} : at[t] = "free"
    BY DEF Init
<1>3. Staged /\ GivenBack
    BY <1>2 DEF Init, Staged, GivenBack
<1>4. \A k \in Kind, t \in Task :
          /\ ref[k][t] = IF at[t] # "free" THEN t ELSE NULL
          /\ count[k][t] = IF at[t] # "free" THEN 1 ELSE 0
    BY DEF Init
<1>5. RefTyped
    BY DEF Init, RefTyped
<1>6. Counts
    <2> SUFFICES ASSUME NEW k \in Kind, NEW o \in Task
                 PROVE  count[k][o] = Cardinality(Holding(k, o))
        BY DEF Counts
    <2>1. Owner(k) = {t \in Task : at[t] # "free"}
        BY <1>2 DEF Owner
    <2>2. Holding(k, o) = IF at[o] # "free" THEN {o} ELSE {}
        BY <1>4, <2>1 DEF Holding
    <2> QED
        BY <1>4, <2>2, FS_Singleton, FS_EmptySet
<1> QED
    BY <1>1, <1>3, <1>5, <1>6 DEF SharesInv

LEMMA SharesStep ==
    ASSUME SharesInv, NEW t \in Task, Step(t)
    PROVE  RefTyped' /\ GivenBack' /\ Counts'
<1> USE TaskAssumption
<1>0. FrameInv /\ Staged /\ GivenBack /\ Kind \subseteq Shared
    BY DEF SharesInv, Shared
<1>1. CASE do_fork(t)
    <2> DEFINE S == {u \in Task : at[u] = "free"}
               p == AnyOf(S)
    <2>1. p \in Task /\ at[p] = "free"
        BY <1>1, AnyOfIn DEF do_fork
    <2>2. /\ at' = [at EXCEPT ![t] = "fork", ![p] = "new"] /\ stage' = [stage EXCEPT ![t] = 1]
          /\ ref' = [k \in Kind |-> [ref[k] EXCEPT ![p] = ref[k][t]]]
          /\ count' = count
        BY <1>1 DEF do_fork
    <2> HIDE DEF p
    <2>3. /\ ref' \in [Kind -> [Task -> Task \cup {NULL}]]
          /\ \A k \in Kind : \A q \in Task \ {p} : ref'[k][q] = ref[k][q]
        BY <2>1, <2>2 DEF SharesInv, RefTyped
    <2>4. \A k \in Kind : p \notin Owner(k) /\ Owner(k) \subseteq Task
        BY <2>1 DEF Owner
    <2>5. \A k \in Kind : Owner(k)' = Owner(k)
        BY <1>0, <1>1, OwnerForked
    <2>6. RefTyped' /\ Counts'
        BY <2>2, <2>3, <2>4, <2>5, ShareKept
    <2>7. /\ at'[p] = "new" /\ at'[t] \in {"fork", "new"}
          /\ \A u \in Task \ {t, p} : at'[u] = at[u] /\ stage'[u] = stage[u]
        BY <2>1, <2>2 DEF SharesInv, FrameInv, Typed, Staged
    <2>8. GivenBack'
        BY <1>0, <2>3, <2>7, GivenSame
    <2> QED
        BY <2>6, <2>8
<1>2. CASE copy(t)
    <2>1. RefTyped' /\ Counts'
        BY <1>2, ShareCopied
    <2>2. PICK j \in Kind : \E o : ref' = [ref EXCEPT ![j][child[t]] = o]
        BY <1>2 DEF copy
    <2>3. /\ at[t] = "fork" /\ at' = [at EXCEPT ![t] = "fork"]
          /\ stage' = [stage EXCEPT ![t] = stage[t] + 1]
        BY <1>2 DEF copy, InCopy, Copied, Goes
    <2>4. child[t] \in Task /\ at[child[t]] = "new"
        BY <1>0, <2>3 DEF FrameInv, ChildIsNew, Making
    <2>5. \A k \in Kind : \A q \in Task \ {child[t]} : ref'[k][q] = ref[k][q]
        BY <2>2 DEF SharesInv, RefTyped
    <2>6. \A u \in Task : at'[u] \in {"exit", "zombie"} =>
              at'[u] = at[u] /\ u # t /\ u # child[t] /\ stage'[u] = stage[u]
        BY <2>3, <2>4 DEF SharesInv, FrameInv, Typed, Staged
    <2>7. GivenBack'
        BY <1>0, <2>5, <2>6, GivenSame
    <2> QED
        BY <2>1, <2>7
<1>3. CASE copy_mm(t) \/ copy_thread(t)
    <2>1. /\ at[t] = "fork" /\ at' = [at EXCEPT ![t] = "fork"] /\ Copied(t)
          /\ stage' = [stage EXCEPT ![t] = stage[t] + 1] /\ ref' = ref /\ count' = count
          /\ stage[t] <= 6 /\ Copies[stage[t]] \in {"mm", "thread"}
        BY <1>3, Orders DEF copy_mm, copy_thread, InCopy, Copied, Goes, shares
    <2>2. \A k \in Kind : Turn(k) # stage[t]
        BY <1>0, Turns, <2>1 DEF Kind
    <2>3. \A k \in Kind : Owner(k)' = Owner(k)
        BY <1>0, <2>1, <2>2, OwnerCopied
    <2>4. RefTyped' /\ Counts'
        BY <2>1, <2>3, ShareKept DEF SharesInv, RefTyped
    <2>5. GivenBack'
        BY <1>0, <2>1, GivenSame DEF FrameInv, Typed, Staged
    <2> QED
        BY <2>4, <2>5
<1>4. CASE fails(t)
    <2>1. /\ at[t] = "fork" /\ at' = [at EXCEPT ![t] = "unwind"] /\ count' = count
          /\ stage' = [stage EXCEPT ![t] = stage[t] - 1] /\ stage[t] \in 1 .. 6
        BY <1>4, Orders DEF fails, InCopy, Goes, SharesInv, Staged
    <2> DEFINE j == Copies[stage[t]]
               p == child[t]
    <2>2. ref' = IF j \in Kind THEN [ref EXCEPT ![j][p] = NULL] ELSE ref
        BY <1>4 DEF fails, InCopy
    <2>3. p \in Task /\ at[p] = "new"
        BY <1>0, <2>1 DEF FrameInv, ChildIsNew, Making
    <2>4. \A k \in Kind : Owner(k)' = Owner(k)
        BY <1>0, <1>4, OwnerFails
    <2>5. j \in Kind => p \notin Owner(j)
        BY <1>0, <1>4, <2>1, OwnerFails, Turns
    <2> HIDE DEF j, p
    <2>6. /\ ref' \in [Kind -> [Task -> Task \cup {NULL}]]
          /\ \A k \in Kind, q \in Task : k # j \/ q # p => ref'[k][q] = ref[k][q]
        BY <2>2, <2>3 DEF SharesInv, RefTyped
    <2>7. RefTyped' /\ Counts'
        <3>1. \A k \in Kind : Owner(k) \subseteq Task
            BY DEF Owner
        <3> QED
            BY <2>1, <2>4, <2>5, <2>6, <3>1, ShareKept
    <2>8. \A u \in Task : at'[u] \in {"exit", "zombie"} =>
              at'[u] = at[u] /\ u # t /\ u # p /\ stage'[u] = stage[u]
        BY <2>1, <2>3 DEF SharesInv, FrameInv, Typed, Staged
    <2>9. GivenBack'
        BY <1>0, <2>6, <2>8, GivenSame
    <2> QED
        BY <2>7, <2>9
<1>5. CASE cleanup(t)
    <2>1. /\ at[t] = "unwind" /\ at' = [at EXCEPT ![t] = "unwind"]
          /\ stage' = [stage EXCEPT ![t] = stage[t] - 1] /\ stage[t] \in 1 .. 5
        BY <1>5 DEF cleanup, Goes, SharesInv, Staged
    <2>0. PICK j, p : j = Copies[stage[t]] /\ p = child[t]
        OBVIOUS
    <2>2. j \in Shared /\ Turn(j) = stage[t]
        BY <2>0, <2>1, Turns, Orders DEF Shared, Kind
    <2>3. p \in Task /\ at[p] = "new"
        BY <1>0, <2>0, <2>1 DEF FrameInv, ChildIsNew, Making
    <2>4. \A k \in Kind : k # j => Turn(k) # stage[t]
        BY <1>0, <2>2, Turns
    <2>5. /\ \A k \in Kind : k # j => Owner(k)' = Owner(k)
          /\ j \in Kind => p \in Owner(j) /\ Owner(j)' = Owner(j) \ {p}
        BY <1>0, <1>5, <2>0, <2>2, <2>4, OwnerCleaned
    <2>6. IF j \in Kind THEN Release(j, p) ELSE ref' = ref /\ count' = count
        BY <1>5, <2>0 DEF cleanup, Undone, shares
    <2>7. RefTyped' /\ Counts'
        <3>1. CASE j \in Kind
            BY <2>5, <2>6, <3>1, ShareReleased
        <3>2. CASE j \notin Kind
            BY <2>5, <2>6, <3>2, ShareKept DEF SharesInv, RefTyped
        <3> QED
            BY <3>1, <3>2
    <2>8. \A u \in Task : at'[u] \in {"exit", "zombie"} =>
              at'[u] = at[u] /\ u # t /\ u # p /\ stage'[u] = stage[u]
        BY <2>1, <2>3 DEF SharesInv, FrameInv, Typed, Staged
    <2>9. \A k \in Kind, q \in Task : q # p => ref'[k][q] = ref[k][q]
        BY <2>3, <2>6 DEF Release, SharesInv, RefTyped
    <2>10. GivenBack'
        BY <1>0, <2>8, <2>9, GivenSame
    <2> QED
        BY <2>7, <2>10
<1>6. CASE fork_fails(t)
    <2> DEFINE p == child[t]
    <2>1. p \in Task /\ at[p] = "new" /\ at[t] = "unwind" /\ p # t
        BY <1>0, <1>6 DEF fork_fails, FrameInv, ChildIsNew, Making
    <2>2. /\ FreeTask(p) /\ count' = count /\ stage' = stage
          /\ at' = [at EXCEPT ![t] = "user", ![p] = "free"]
        BY <1>6 DEF fork_fails
    <2>3. \A k \in Kind : Owner(k)' = Owner(k) /\ p \notin Owner(k)
        BY <1>0, <1>6, OwnerUnborn
    <2> HIDE DEF p
    <2>4. /\ ref' \in [Kind -> [Task -> Task \cup {NULL}]]
          /\ \A k \in Kind : \A q \in Task \ {p} : ref'[k][q] = ref[k][q]
        BY <2>1, <2>2, ShareReset
    <2>5. RefTyped' /\ Counts'
        <3>1. \A k \in Kind : Owner(k) \subseteq Task
            BY DEF Owner
        <3> QED
            BY <2>2, <2>3, <2>4, <3>1, ShareKept
    <2>6. \A u \in Task : at'[u] \in {"exit", "zombie"} => at'[u] = at[u] /\ u # p
        BY <2>1, <2>2 DEF SharesInv, FrameInv, Typed
    <2>7. GivenBack'
        BY <1>0, <2>2, <2>4, <2>6, GivenSame
    <2> QED
        BY <2>5, <2>7
<1>7. CASE fork_done(t)
    <2> DEFINE p == child[t]
    <2>1. p \in Task /\ at[p] = "new" /\ at[t] = "fork" /\ p # t
        BY <1>0, <1>7 DEF fork_done, FrameInv, ChildIsNew, Making
    <2>2. /\ ref' = ref /\ count' = count /\ stage' = [stage EXCEPT ![t] = 0]
          /\ at' = [at EXCEPT ![t] = IF "VFORK" \in flags[t] THEN "vfork" ELSE "user",
                              ![p] = "user"]
        BY <1>7 DEF fork_done, shares
    <2>3. \A k \in Kind : Owner(k)' = Owner(k)
        BY <1>0, <1>7, OwnerBorn
    <2> HIDE DEF p
    <2>4. RefTyped' /\ Counts'
        BY <2>2, <2>3, ShareKept DEF SharesInv, RefTyped
    <2>5. \A u \in Task : at'[u] \in {"exit", "zombie"} =>
              at'[u] = at[u] /\ stage'[u] = stage[u]
        BY <2>1, <2>2 DEF SharesInv, FrameInv, Typed, Staged
    <2>6. GivenBack'
        BY <1>0, <2>2, <2>5, GivenSame
    <2> QED
        BY <2>4, <2>6
<1>8. CASE vfork_returns(t) \/ do_exit(t) \/ exit_notify(t) \/ daemonize(t)
    <2>1. PICK step \in {"user", "exit", "zombie", "daemonize"} :
              at' = [at EXCEPT ![t] = step]
        BY <1>8 DEF vfork_returns, do_exit, exit_notify, daemonize, Goes
    <2>2. /\ at[t] \in {"vfork", "user", "exit"} /\ ref' = ref /\ count' = count
          /\ \A u \in Task \ {t} : child'[u] = child[u] /\ stage'[u] = stage[u]
        BY <1>8 DEF vfork_returns, do_exit, exit_notify, daemonize, Goes, shares, Reset,
                    SharesInv, FrameInv, Typed, Staged
    <2>3. \A k \in Kind : Owner(k)' = Owner(k)
        BY <1>0, <2>1, <2>2, OwnerMoves
    <2>4. RefTyped' /\ Counts'
        BY <2>2, <2>3, ShareKept DEF SharesInv, RefTyped
    <2>5. CASE exit_notify(t)
        BY <2>4, <2>5, GivenNotify
    <2>6. CASE do_exit(t)
        <3>1. at' = [at EXCEPT ![t] = "exit"] /\ stage' = [stage EXCEPT ![t] = 1]
            BY <2>6 DEF do_exit, Goes
        <3>2. GivenBack'
            BY <1>0, <2>2, <3>1 DEF GivenBack, FrameInv, Typed, Staged
        <3> QED
            BY <2>4, <3>2
    <2>7. CASE vfork_returns(t) \/ daemonize(t)
        <3>1. at'[t] \in {"user", "daemonize"} /\ \A u \in Task \ {t} : at'[u] = at[u]
            BY <2>7 DEF vfork_returns, daemonize, Goes, SharesInv, FrameInv, Typed
        <3>2. GivenBack'
            BY <1>0, <2>2, <3>1, GivenSame
        <3> QED
            BY <2>4, <3>2
    <2> QED
        BY <1>8, <2>5, <2>6, <2>7
<1>9. CASE releases(t)
    <2>1. /\ at[t] = "exit" /\ at' = [at EXCEPT ![t] = "exit"] /\ child' = child
          /\ \A u \in Task \ {t} : stage'[u] = stage[u]
        BY <1>9 DEF releases, Goes, SharesInv, Staged
    <2>2. \A k \in Kind : Owner(k)' = Owner(k) /\ t \in Owner(k)
        <3>1. \A k \in Kind : Owner(k)' = Owner(k)
            BY <1>0, <2>1, OwnerMoves
        <3> QED
            BY <2>1, <3>1 DEF Owner
    <2> DEFINE j == Releases[stage[t]]
    <2>3. stage[t] \in 1 .. 5 /\ j \in Kind \cup {"mm"}
        BY <1>9, <2>1, Orders DEF releases, SharesInv, Staged, Kind
    <2>4. IF j = "mm" THEN ref' = ref /\ count' = count ELSE Release(j, t)
        BY <1>9 DEF releases, shares
    <2> HIDE DEF j
    <2>5. RefTyped' /\ Counts'
        <3>1. CASE j = "mm"
            BY <2>2, <2>4, <3>1, ShareKept DEF SharesInv, RefTyped
        <3>2. CASE j # "mm"
            BY <2>2, <2>3, <2>4, <3>2, ShareReleased
        <3> QED
            BY <3>1, <3>2
    <2> QED
        BY <1>9, <2>5, GivenReleases
<1>10. CASE release_task(t)
    <2>1. /\ at[t] = "zombie" /\ at' = [at EXCEPT ![t] = "free"] /\ FreeTask(t)
          /\ count' = count /\ stage' = stage
        BY <1>10 DEF release_task
    <2>2. \A k \in Kind : Owner(k)' = Owner(k) \ {t} /\ ref[k][t] = NULL
        BY <1>0, <1>10, <2>1, OwnerReaped DEF GivenBack
    <2>3. /\ ref' \in [Kind -> [Task -> Task \cup {NULL}]]
          /\ \A k \in Kind : \A q \in Task \ {t} : ref'[k][q] = ref[k][q]
        BY <2>1, ShareReset
    <2>4. \A k \in Kind : \A o \in Task : Holding(k, o)' = Holding(k, o)
        <3>1. \A k \in Kind : Owner(k) \subseteq Task
            BY DEF Owner
        <3> QED
            BY <2>2, <2>3, <3>1 DEF Holding
    <2>5. RefTyped' /\ Counts'
        BY <2>1, <2>3, <2>4, ShareSame DEF SharesInv, RefTyped
    <2>6. GivenBack'
        BY <1>0, <2>1, <2>3, GivenSame DEF FrameInv, Typed
    <2> QED
        BY <2>5, <2>6
<1>11. CASE as_init_task(t)
    <2>1. RefTyped' /\ Counts'
        BY <1>11, ShareBecomes
    <2>2. PICK j \in Kind : \E o : ref' = [ref EXCEPT ![j][t] = o]
        BY <1>11 DEF as_init_task, Kind
    <2>3. /\ at'[t] \in {"daemonize", "user"}
          /\ \A u \in Task \ {t} : at'[u] = at[u] /\ stage'[u] = stage[u]
        BY <1>11 DEF as_init_task, Goes, SharesInv, FrameInv, Typed, Staged
    <2>4. \A k \in Kind : \A q \in Task \ {t} : ref'[k][q] = ref[k][q]
        BY <2>2 DEF SharesInv, RefTyped
    <2>5. GivenBack'
        BY <1>0, <2>3, <2>4, GivenSame
    <2> QED
        BY <2>1, <2>5
<1>12. CASE context_switch(t)
    <2>1. UNCHANGED <<at, stage, child, ref, count>>
        BY <1>12 DEF context_switch, place, shares
    <2>2. \A k \in Kind : Owner(k)' = Owner(k)
        BY <2>1 DEF Owner, Making
    <2>3. RefTyped' /\ Counts'
        BY <2>1, <2>2, ShareKept DEF SharesInv, RefTyped
    <2> QED
        BY <1>0, <2>1, <2>3, GivenSame
<1> QED
    BY <1>1, <1>2, <1>3, <1>4, <1>5, <1>6, <1>7, <1>8, <1>9, <1>10, <1>11, <1>12 DEF Step

LEMMA SharesNext == SharesInv /\ [Next]_vars => SharesInv'
<1> SUFFICES ASSUME SharesInv, [Next]_vars PROVE SharesInv'
    OBVIOUS
<1>1. FrameInv'
    BY FrameNext DEF SharesInv
<1>2. CASE UNCHANGED vars
    <2>1. UNCHANGED <<at, stage, child, ref, count>>
        BY <1>2 DEF vars, place, shares
    <2> QED
        BY <1>1, <2>1 DEF SharesInv, Staged, RefTyped, GivenBack, Counts, Holding, Owner, Making
<1>3. ASSUME NEW t \in Task, Step(t) PROVE SharesInv'
    BY <1>1, <1>3, StagedNext, SharesStep DEF SharesInv
<1> QED
    BY <1>2, <1>3 DEF Next

LEMMA SharesAre == SharesInv => SharesExact
<1> SUFFICES ASSUME SharesInv, NEW k \in Kind, NEW o \in Task
             PROVE  count[k][o] = Cardinality(Holders(k, o))
    BY DEF SharesExact
<1>1. {p \in Task : at[p] # "free" /\ Owns(p, k)} = Owner(k)
    BY OwnerIs DEF SharesInv, Shared
<1>2. Holders(k, o) = Holding(k, o)
    BY <1>1 DEF Holders, Holding
<1> QED
    BY <1>2 DEF SharesInv, Counts

\* Each counter of files, fs, signal handlers and namespaces is the number of processes
\* that use the structure: whichever copy of do_fork fails, each label gives back what
\* was copied and nothing else, do_exit and daemonize put a reference once, and the
\* structure that daemonize takes over from init_task is counted.
THEOREM SharesStayExact == Spec => []SharesExact
BY SharesInit, SharesNext, SharesAre, PTL DEF Spec
-----------------------------------------------------------------------------
(* Address spaces                                                          *)
(*                                                                         *)
(* exit_mm(child) of a cleanup works on the current process and on lazy    *)
(* counts that the child has none of (run vfork): what follows is for      *)
(* clones that do not fail after copy_mm.                                  *)

NoLateFailure == Fails \cap {"namespace", "thread"} = {}

Early == \A t \in Task : at[t] = "unwind" => stage[t] <= 3

CurrRuns == at[curr] \notin {"free", "new"}

MmTyped ==
    /\ mm \in [Task -> Task \cup {NULL}] /\ active_mm \in [Task -> Task \cup {NULL}]
    /\ mm_users \in [Task -> Nat] /\ mm_count \in [Task -> Nat]

MmGiven ==
    \A t \in Task : at[t] = "zombie" \/ (at[t] = "exit" /\ stage[t] > 1) => mm[t] = NULL

\* A task runs in its own address space; only the current one has borrowed one.
Loaded ==
    /\ active_mm[curr] # NULL
    /\ \A t \in Owner("mm") : /\ mm[t] # NULL => active_mm[t] = mm[t]
                              /\ mm[t] = NULL /\ t # curr => active_mm[t] = NULL

Using(o) == {p \in Owner("mm") : mm[p] = o}

\* Is o the address space that the current task has borrowed?
Lazy(o) == IF mm[curr] = NULL /\ active_mm[curr] = o THEN 1 ELSE 0

MmCounts ==
    \A o \in Task : /\ mm_users[o] = Cardinality(Using(o))
                    /\ mm_count[o] = Lazy(o) + (IF mm_users[o] > 0 THEN 1 ELSE 0)

MmInv ==
    /\ FrameInv /\ Staged /\ Early /\ CurrRuns
    /\ MmTyped /\ MmGiven /\ Loaded /\ MmCounts

LEMMA MmShared == "mm" \in Shared /\ Turn("mm") = 4
BY Turns DEF Shared

LEMMA CurrOwner ==
    ASSUME FrameInv, CurrRuns
    PROVE  curr \in Owner("mm") /\ \A k : Owner(k) \subseteq Task
BY DEF FrameInv, Typed, CurrRuns, Owner

LEMMA MmInit == Init => MmInv
<1> USE TaskAssumption
<1> SUFFICES ASSUME Init PROVE MmInv
    OBVIOUS
<1>1. FrameInv /\ Staged
    BY SharesInit DEF SharesInv
<1>2. /\ at[init_task] = "idle" /\ at[First] = "user" /\ curr = First
      /\ \A t \in Task \ {init_task, First} : at[t] = "free"
    BY DEF Init
<1>3. Early /\ CurrRuns /\ MmGiven /\ MmTyped
    BY <1>2 DEF Init, Early, CurrRuns, MmGiven, MmTyped
<1>4. Owner("mm") = {init_task, First}
    BY <1>2 DEF Owner
<1>5. Loaded
    BY <1>2, <1>4 DEF Init, Loaded
<1>6. \A o \in Task :
          /\ Using(o) = IF o = First THEN {First} ELSE {}
          /\ mm_users[o] = IF o = First THEN 1 ELSE 0
          /\ mm_count[o] = IF o = First THEN 1 ELSE 0
          /\ Lazy(o) = 0
    BY <1>2, <1>4 DEF Init, Using, Lazy
<1>7. \A o \in Task : mm_users[o] = Cardinality(Using(o))
    BY <1>6, FS_Singleton, FS_EmptySet
<1>8. \A o \in Task : mm_count[o] = Lazy(o) + (IF mm_users[o] > 0 THEN 1 ELSE 0)
    BY <1>6
<1>9. MmCounts
    BY <1>7, <1>8 DEF MmCounts
<1> QED
    BY <1>1, <1>3, <1>5, <1>9 DEF MmInv

\* Nobody who counts gets, loses or changes an address space.
LEMMA MmKept ==
    ASSUME MmInv, CurrRuns', FrameInv', curr' = curr,
           mm' \in [Task -> Task \cup {NULL}], active_mm' \in [Task -> Task \cup {NULL}],
           mm_users' = mm_users, mm_count' = mm_count,
           \A q \in Owner("mm")' :
               q \in Owner("mm") /\ mm'[q] = mm[q] /\ active_mm'[q] = active_mm[q],
           \A q \in Owner("mm") : q \notin Owner("mm")' => mm[q] = NULL
    PROVE  MmTyped' /\ Loaded' /\ MmCounts'
<1> USE TaskAssumption
<1>1. MmTyped'
    BY DEF MmInv, MmTyped
<1>2. curr \in Owner("mm")'
    BY DEF CurrRuns, FrameInv, Typed, Owner
<1>3. mm'[curr] = mm[curr] /\ active_mm'[curr] = active_mm[curr]
    BY <1>2
<1>4. Loaded'
    BY <1>3 DEF MmInv, Loaded
<1>5. \A o \in Task : Using(o)' = Using(o) /\ Lazy(o)' = Lazy(o)
    BY <1>3 DEF Using, Lazy
<1>6. MmCounts'
    BY <1>5 DEF MmInv, MmCounts
<1> QED
    BY <1>1, <1>4, <1>6

LEMMA MmUnchanged ==
    ASSUME MmInv, CurrRuns', FrameInv', UNCHANGED memory, curr' = curr,
           Owner("mm")' = Owner("mm")
    PROVE  MmTyped' /\ Loaded' /\ MmCounts'
BY MmKept DEF MmInv, MmTyped, memory

\* There is an address space for the child of a process.
LEMMA MmFree ==
    ASSUME MmInv, NEW p \in Task, p \notin Owner("mm")
    PROVE  AnyOf({u \in Task : mm_count[u] = 0}) \in {u \in Task : mm_count[u] = 0}
<1> DEFINE S == {u \in Task : mm_count[u] = 0}
<1>1. S # {}
    <2> SUFFICES ASSUME \A o \in Task : mm_count[o] # 0 PROVE FALSE
        OBVIOUS
    <2> DEFINE f == [q \in Task |-> IF mm[q] = NULL THEN active_mm[q] ELSE mm[q]]
               R == Owner("mm")
    <2>1. ASSUME NEW o \in Task PROVE \E q \in R : f[q] = o
        <3>1. CASE Lazy(o) # 0
            BY <3>1, CurrOwner DEF Lazy, MmInv, FrameInv, Typed
        <3>2. CASE Lazy(o) = 0
            <4>1. mm_users[o] # 0
                BY <3>2 DEF MmInv, MmCounts
            <4>2. Using(o) # {}
                BY <4>1, FS_EmptySet DEF MmInv, MmCounts
            <4> QED
                BY <4>2, TaskAssumption DEF Using, Owner
        <3> QED
            BY <3>1, <3>2
    <2>2. R \in SUBSET (Task \ {p})
        BY DEF Owner
    <2> HIDE DEF f, R
    <2> QED
        BY <2>1, <2>2, Pigeons
<1> HIDE DEF S
<1>2. AnyOf(S) \in S
    BY <1>1, AnyOfIn
<1> QED
    BY <1>2 DEF S

LEMMA MmCopied ==
    ASSUME MmInv, NEW t \in Task, copy_mm(t), CurrRuns', FrameInv'
    PROVE  MmTyped' /\ Loaded' /\ MmCounts'
<1> USE TaskAssumption
<1>1. /\ at[t] = "fork" /\ t = curr /\ curr' = curr /\ stage[t] = 4 /\ Copied(t)
    <2>1. at[t] = "fork" /\ t = curr /\ Copied(t) /\ stage[t] \in 1 .. 6 /\ Copies[stage[t]] = "mm"
        BY Orders DEF copy_mm, InCopy, MmInv, Staged
    <2>2. stage[t] = 4
        BY <2>1, Turns, MmShared
    <2> QED
        BY <2>1, <2>2 DEF Copied
<1>2. PICK p : p = child[t]
    OBVIOUS
<1>3. p \in Task /\ at[p] = "new" /\ p # t
    BY <1>1, <1>2 DEF MmInv, FrameInv, ChildIsNew, Making
<1>4. p \notin Owner("mm") /\ Owner("mm")' = Owner("mm") \cup {p}
    BY <1>1, <1>2, OwnerCopied, MmShared DEF MmInv
<1>5. t \in Owner("mm") /\ Owner("mm") \subseteq Task
    BY <1>1, CurrOwner DEF MmInv
<1> DEFINE S == {u \in Task : mm_count[u] = 0}
<1>6. PICK o : o = IF mm[t] = NULL \/ "VM" \in flags[t] THEN mm[t] ELSE AnyOf(S)
    OBVIOUS
<1>7. /\ mm' = [mm EXCEPT ![p] = o] /\ active_mm' = [active_mm EXCEPT ![p] = o]
      /\ mm_users' = [u \in Task |-> mm_users[u] + IF u = o THEN 1 ELSE 0]
      /\ mm_count' = [u \in Task |-> IF u = o /\ o # mm[t] THEN 1 ELSE mm_count[u]]
    BY <1>2, <1>6 DEF copy_mm
<1>8. o = mm[t] \/ (o \in Task /\ mm_count[o] = 0 /\ mm[t] # NULL)
    BY <1>3, <1>4, <1>6, MmFree
<1>9. o \in Task \cup {NULL}
    BY <1>8 DEF MmInv, MmTyped
<1>10. MmTyped'
    BY <1>3, <1>7, <1>9 DEF MmInv, MmTyped
<1>11. /\ mm'[p] = o /\ active_mm'[p] = o
       /\ \A q \in Task \ {p} : mm'[q] = mm[q] /\ active_mm'[q] = active_mm[q]
    BY <1>3, <1>7 DEF MmInv, MmTyped
<1>12. Loaded'
    BY <1>1, <1>3, <1>4, <1>5, <1>8, <1>11 DEF MmInv, Loaded
<1>13. ASSUME NEW u \in Task
       PROVE  /\ mm_users'[u] = Cardinality(Using(u)')
              /\ mm_count'[u] = Lazy(u)' + (IF mm_users'[u] > 0 THEN 1 ELSE 0)
    <2>1. Lazy(u)' = Lazy(u)
        BY <1>1, <1>3, <1>11 DEF Lazy
    <2>2. /\ mm_users[u] = Cardinality(Using(u)) /\ mm_users[u] \in Nat
          /\ mm_count[u] = Lazy(u) + (IF mm_users[u] > 0 THEN 1 ELSE 0)
          /\ Lazy(u) \in {0, 1}
        BY DEF MmInv, MmCounts, MmTyped, Lazy
    <2>3. CASE u # o
        <3>1. Using(u)' = Using(u)
            BY <1>3, <1>4, <1>5, <1>11, <2>3 DEF Using
        <3> QED
            BY <1>7, <2>1, <2>2, <2>3, <3>1
    <2>4. CASE u = o
        <3>1. Using(u)' = Using(u) \cup {p} /\ p \notin Using(u)
            BY <1>3, <1>4, <1>5, <1>11, <2>4 DEF Using
        <3>2. Using(u) \in SUBSET Task
            BY DEF Using, Owner
        <3>3. Cardinality(Using(u) \cup {p}) = Cardinality(Using(u)) + 1
            BY <3>1, <3>2, SubsetFinite, FS_AddElement
        <3>4. mm_users'[u] = mm_users[u] + 1
            BY <1>7, <2>4
        <3>5. mm_users'[u] = Cardinality(Using(u)')
            BY <2>2, <3>1, <3>3, <3>4
        <3>6. CASE o = mm[t]
            <4>1. t \in Using(u)
                BY <1>5, <2>4, <3>6 DEF Using
            <4>2. Cardinality(Using(u)) # 0
                BY <3>2, <4>1, SubsetFinite, FS_EmptySet
            <4> QED
                BY <1>7, <2>1, <2>2, <3>4, <3>5, <3>6, <4>2
        <3>7. CASE o # mm[t]
            <4>1. mm_count[u] = 0
                BY <1>8, <2>4, <3>7
            <4>2. Lazy(u) = 0 /\ mm_users[u] = 0
                BY <2>2, <4>1
            <4>3. mm_count'[u] = 1
                BY <1>7, <2>4, <3>7
            <4> QED
                BY <2>1, <3>4, <3>5, <4>2, <4>3
        <3> QED
            BY <3>6, <3>7
    <2> QED
        BY <2>3, <2>4
<1> QED
    BY <1>10, <1>12, <1>13 DEF MmCounts

\* exit_mm(current): the address space stays loaded, as a borrowed one.
LEMMA MmExited ==
    ASSUME MmInv, NEW t \in Task, t = curr, curr' = curr, exit_mm(t), CurrRuns', FrameInv',
           Owner("mm")' = Owner("mm")
    PROVE  MmTyped' /\ Loaded' /\ MmCounts' /\ mm'[t] = NULL
<1> USE TaskAssumption
<1>1. CASE mm[t] = NULL
    <2>1. UNCHANGED memory
        BY <1>1 DEF exit_mm
    <2>2. mm'[t] = NULL
        BY <1>1, <2>1 DEF memory
    <2> QED
        BY <2>1, <2>2, MmUnchanged
<1>2. CASE mm[t] # NULL
    <2>1. PICK o : o = mm[t]
        OBVIOUS
    <2>2. /\ mm' = [mm EXCEPT ![t] = NULL] /\ mm_users' = [mm_users EXCEPT ![o] = @ - 1]
          /\ mm_count' = [mm_count EXCEPT ![o] = @ + IF mm_users[o] = 1 THEN 0 ELSE 1]
          /\ active_mm' = active_mm
        BY <1>2, <2>1 DEF exit_mm, LazyCounted
    <2>3. t \in Owner("mm") /\ Owner("mm") \subseteq Task /\ o \in Task /\ active_mm[t] = o
        BY <1>2, <2>1, CurrOwner DEF MmInv, MmTyped, Loaded
    <2>4. mm'[t] = NULL /\ \A q \in Task \ {t} : mm'[q] = mm[q]
        BY <2>2 DEF MmInv, MmTyped
    <2>5. Loaded'
        BY <2>2, <2>3, <2>4 DEF MmInv, Loaded
    <2>6. Using(o) \in SUBSET Task /\ t \in Using(o) /\ Using(o)' = Using(o) \ {t}
        BY <2>1, <2>3, <2>4 DEF Using
    <2>7. Cardinality(Using(o)') = Cardinality(Using(o)) - 1
        BY <2>6, SubsetFinite, FS_RemoveElement
    <2>8. mm_users[o] = Cardinality(Using(o)) /\ mm_users[o] \in Nat \ {0}
        BY <2>3, <2>6, SubsetFinite, FS_EmptySet DEF MmInv, MmCounts
    <2>9. MmTyped'
        BY <2>2, <2>3, <2>8 DEF MmInv, MmTyped
    <2>10. ASSUME NEW u \in Task
           PROVE  /\ mm_users'[u] = Cardinality(Using(u)')
                  /\ mm_count'[u] = Lazy(u)' + (IF mm_users'[u] > 0 THEN 1 ELSE 0)
        <3>1. Lazy(u) = 0 /\ Lazy(u)' = (IF u = o THEN 1 ELSE 0)
            BY <1>2, <2>2, <2>3, <2>4 DEF Lazy
        <3>2. /\ mm_users[u] = Cardinality(Using(u)) /\ mm_users[u] \in Nat
              /\ mm_count[u] = Lazy(u) + (IF mm_users[u] > 0 THEN 1 ELSE 0)
            BY DEF MmInv, MmCounts, MmTyped
        <3>3. CASE u # o
            <4>1. Using(u)' = Using(u)
                BY <2>1, <2>3, <2>4, <3>3 DEF Using
            <4>2. mm_users'[u] = mm_users[u] /\ mm_count'[u] = mm_count[u]
                BY <2>2, <3>3 DEF MmInv, MmTyped
            <4> QED
                BY <3>1, <3>2, <3>3, <4>1, <4>2
        <3>4. CASE u = o
            <4>1. /\ mm_users'[o] = mm_users[o] - 1
                  /\ mm_count'[o] = mm_count[o] + (IF mm_users[o] = 1 THEN 0 ELSE 1)
                BY <2>2, <2>3 DEF MmInv, MmTyped
            <4> QED
                BY <2>7, <2>8, <3>1, <3>2, <3>4, <4>1
        <3> QED
            BY <3>3, <3>4
    <2> QED
        BY <2>4, <2>5, <2>9, <2>10 DEF MmCounts
<1> QED
    BY <1>1, <1>2

LEMMA MmSwitched ==
    ASSUME MmInv, NEW t \in Task, context_switch(t), CurrRuns', FrameInv'
    PROVE  MmTyped' /\ Loaded' /\ MmCounts'
<1> USE TaskAssumption
<1>1. PICK old, c : old = active_mm[curr] /\ c = curr
    OBVIOUS
<1>2. /\ c \in Owner("mm") /\ Owner("mm") \subseteq Task /\ old \in Task /\ t # c
      /\ t \in Owner("mm") /\ c \in Task
    BY <1>1, CurrOwner DEF MmInv, MmTyped, Loaded, context_switch, Runs, Owner, FrameInv, Typed
<1>3. /\ curr' = t /\ mm' = mm /\ mm_users' = mm_users
      /\ active_mm' = [q \in Task |-> IF q = t /\ mm[t] = NULL THEN old
                                      ELSE IF q = c /\ mm[c] = NULL THEN NULL
                                      ELSE active_mm[q]]
      /\ mm_count' = [u \in Task |-> mm_count[u] + (IF mm[t] = NULL /\ u = old THEN 1 ELSE 0)
                                           - (IF mm[c] = NULL /\ u = old THEN 1 ELSE 0)]
    BY <1>1, <1>2 DEF context_switch
<1>4. Owner("mm")' = Owner("mm")
    BY DEF context_switch, place, Owner, Making
<1>5. /\ mm[t] = NULL => active_mm'[t] = old
      /\ mm[t] # NULL => active_mm'[t] = active_mm[t]
      /\ mm[c] = NULL => active_mm'[c] = NULL
      /\ mm[c] # NULL => active_mm'[c] = active_mm[c]
      /\ \A q \in Task \ {c, t} : active_mm'[q] = active_mm[q]
    BY <1>2, <1>3
<1>6. Loaded'
    BY <1>1, <1>2, <1>3, <1>4, <1>5 DEF MmInv, Loaded
<1>7. ASSUME NEW u \in Task
      PROVE  /\ mm_users'[u] = Cardinality(Using(u)')
             /\ mm_count'[u] = Lazy(u)' + (IF mm_users'[u] > 0 THEN 1 ELSE 0)
             /\ mm_count'[u] \in Nat
    <2>1. /\ mm_users[u] = Cardinality(Using(u)) /\ mm_users[u] \in Nat
          /\ mm_count[u] = Lazy(u) + (IF mm_users[u] > 0 THEN 1 ELSE 0)
        BY DEF MmInv, MmCounts, MmTyped
    <2>2. Using(u)' = Using(u) /\ mm_users'[u] = mm_users[u]
        BY <1>3, <1>4 DEF Using
    <2>3. /\ Lazy(u) = IF mm[c] = NULL /\ old = u THEN 1 ELSE 0
          /\ Lazy(u)' = IF mm[t] = NULL /\ old = u THEN 1 ELSE 0
        BY <1>1, <1>3, <1>5 DEF Lazy
    <2>4. mm_count'[u] = mm_count[u] + (IF mm[t] = NULL /\ u = old THEN 1 ELSE 0)
                                     - (IF mm[c] = NULL /\ u = old THEN 1 ELSE 0)
        BY <1>3
    <2> QED
        BY <2>1, <2>2, <2>3, <2>4
<1>8. MmTyped'
    BY <1>2, <1>3, <1>7 DEF MmInv, MmTyped
<1> QED
    BY <1>6, <1>7, <1>8 DEF MmCounts

\* The current task is one that runs.
LEMMA CurrRunsNext ==
    ASSUME FrameInv, CurrRuns, NEW t \in Task, Step(t)
    PROVE  CurrRuns'
<1> USE DEF FrameInv, Typed, CurrRuns
<1>1. CASE do_fork(t)
    <2> DEFINE S == {u \in Task : at[u] = "free"}
               p == AnyOf(S)
    <2>1. p \in Task /\ at[p] = "free"
        <3>1. S # {}
            BY <1>1 DEF do_fork
        <3>2. p \in S
            BY <3>1, AnyOfIn
        <3> QED
            BY <3>2
    <2>2. /\ at' = [at EXCEPT ![t] = "fork", ![p] = "new"] /\ curr' = curr /\ t = curr
          /\ at[t] = "user"
        BY <1>1 DEF do_fork
    <2> HIDE DEF p
    <2> QED
        BY <2>1, <2>2
<1>2. CASE copy(t) \/ copy_mm(t) \/ copy_thread(t)
    BY <1>2 DEF copy, copy_mm, copy_thread, InCopy, Copied, Goes
<1>3. CASE fails(t) \/ cleanup(t)
    BY <1>3 DEF fails, cleanup, Goes
<1>4. CASE fork_fails(t) \/ fork_done(t)
    <2>1. PICK p, step, next :
              /\ p = child[t] /\ step \in {"vfork", "user"} /\ next \in {"user", "free"}
              /\ at' = [at EXCEPT ![t] = step, ![p] = next]
              /\ curr' = curr /\ t = curr
        BY <1>4 DEF fork_fails, fork_done
    <2>2. at[p] = "new" /\ p # curr /\ p \in Task
        BY <1>4, <2>1 DEF fork_fails, fork_done, ChildIsNew, Making
    <2> QED
        BY <2>1, <2>2
<1>5. CASE vfork_returns(t) \/ do_exit(t) \/ releases(t) \/ exit_notify(t)
    BY <1>5 DEF vfork_returns, do_exit, releases, exit_notify, Goes
<1>6. CASE release_task(t)
    BY <1>6 DEF release_task
<1>7. CASE daemonize(t) \/ as_init_task(t)
    BY <1>7 DEF daemonize, as_init_task, Goes
<1>8. CASE context_switch(t)
    BY <1>8 DEF context_switch, place, Runs
<1> QED
    BY <1>1, <1>2, <1>3, <1>4, <1>5, <1>6, <1>7, <1>8 DEF Step

LEMMA EarlyNext ==
    ASSUME FrameInv, Staged, Early, NEW t \in Task, Step(t), NoLateFailure
    PROVE  Early'
<1>1. CASE fails(t)
    <2>1. /\ at' = [at EXCEPT ![t] = "unwind"] /\ stage' = [stage EXCEPT ![t] = stage[t] - 1]
          /\ stage[t] \in 1 .. 6 /\ Copies[stage[t]] \in Fails
        BY <1>1, Orders DEF fails, InCopy, Goes, Staged
    <2>2. stage[t] # 5 /\ stage[t] # 6
        BY <2>1, Orders DEF NoLateFailure
    <2> QED
        BY <2>1, <2>2 DEF FrameInv, Typed, Staged, Early
<1>2. CASE cleanup(t)
    <2>1. /\ at[t] = "unwind" /\ at' = [at EXCEPT ![t] = "unwind"]
          /\ stage' = [stage EXCEPT ![t] = stage[t] - 1] /\ stage[t] \in 1 .. 5
        BY <1>2 DEF cleanup, Goes, Staged
    <2> QED
        BY <2>1 DEF FrameInv, Typed, Staged, Early
<1>3. ASSUME ~fails(t), ~cleanup(t)
      PROVE  \A u \in Task : at'[u] = "unwind" => at[u] = "unwind" /\ stage'[u] = stage[u]
    <2> USE DEF FrameInv, Typed, Staged
    <2>1. CASE do_fork(t)
        <3> DEFINE S == {u \in Task : at[u] = "free"}
        <3>1. PICK p : /\ at' = [at EXCEPT ![t] = "fork", ![p] = "new"]
                       /\ stage' = [stage EXCEPT ![t] = 1]
            BY <2>1 DEF do_fork
        <3> QED
            BY <3>1
    <2>2. CASE copy(t) \/ copy_mm(t) \/ copy_thread(t)
        BY <2>2 DEF copy, copy_mm, copy_thread, Copied, Goes
    <2>3. CASE fork_fails(t) \/ vfork_returns(t) \/ release_task(t)
        BY <2>3 DEF fork_fails, vfork_returns, release_task
    <2>4. CASE fork_done(t)
        BY <2>4 DEF fork_done
    <2>5. CASE do_exit(t) \/ releases(t) \/ exit_notify(t) \/ daemonize(t) \/ as_init_task(t)
        BY <2>5 DEF do_exit, releases, exit_notify, daemonize, as_init_task, Goes
    <2>6. CASE context_switch(t)
        BY <2>6 DEF context_switch, place
    <2> QED
        BY <1>3, <2>1, <2>2, <2>3, <2>4, <2>5, <2>6 DEF Step
<1> QED
    BY <1>1, <1>2, <1>3 DEF Early

\* A step after which each task that leaves has no address space, as before.
LEMMA MmGivenSame ==
    ASSUME MmGiven,
           \A u \in Task : at'[u] \in {"exit", "zombie"} =>
               at'[u] = at[u] /\ stage'[u] = stage[u] /\ mm'[u] = mm[u]
    PROVE  MmGiven'
BY DEF MmGiven

LEMMA MmStep ==
    ASSUME MmInv, NEW t \in Task, Step(t), FrameInv', Staged', CurrRuns', NoLateFailure
    PROVE  MmTyped' /\ MmGiven' /\ Loaded' /\ MmCounts'
<1> USE TaskAssumption
<1>0. FrameInv /\ Staged /\ MmGiven /\ "mm" \in Shared /\ Turn("mm") = 4
    BY MmShared DEF MmInv
<1>1. CASE do_fork(t)
    <2> DEFINE S == {u \in Task : at[u] = "free"}
               p == AnyOf(S)
    <2>1. p \in Task /\ at[p] = "free"
        BY <1>1, AnyOfIn DEF do_fork
    <2>2. /\ at' = [at EXCEPT ![t] = "fork", ![p] = "new"] /\ stage' = [stage EXCEPT ![t] = 1]
          /\ mm' = [mm EXCEPT ![p] = mm[t]] /\ active_mm' = [active_mm EXCEPT ![p] = active_mm[t]]
          /\ UNCHANGED <<mm_users, mm_count, curr>>
        BY <1>1 DEF do_fork
    <2> HIDE DEF p
    <2>3. p \notin Owner("mm") /\ Owner("mm") \subseteq Task /\ Owner("mm")' = Owner("mm")
        BY <1>0, <1>1, <2>1, OwnerForked DEF Owner
    <2>4. /\ mm' \in [Task -> Task \cup {NULL}] /\ active_mm' \in [Task -> Task \cup {NULL}]
          /\ \A q \in Task \ {p} : mm'[q] = mm[q] /\ active_mm'[q] = active_mm[q]
        BY <2>1, <2>2 DEF MmInv, MmTyped
    <2>5. MmTyped' /\ Loaded' /\ MmCounts'
        BY <2>2, <2>3, <2>4, MmKept
    <2>6. \A u \in Task : at'[u] \in {"exit", "zombie"} =>
              at'[u] = at[u] /\ stage'[u] = stage[u] /\ u # p
        BY <1>0, <2>1, <2>2 DEF FrameInv, Typed, Staged
    <2> QED
        BY <1>0, <2>4, <2>5, <2>6, MmGivenSame
<1>2. CASE copy(t) \/ copy_thread(t)
    <2>1. /\ at[t] = "fork" /\ at' = [at EXCEPT ![t] = "fork"] /\ Copied(t) /\ curr' = curr
          /\ stage' = [stage EXCEPT ![t] = stage[t] + 1] /\ UNCHANGED memory
          /\ stage[t] \in 1 .. 6 /\ Copies[stage[t]] # "mm"
        BY <1>0, <1>2, Orders DEF copy, copy_thread, InCopy, Copied, Goes, Kind, Staged
    <2>2. Owner("mm")' = Owner("mm")
        BY <1>0, <2>1, Turns, OwnerCopied
    <2>3. MmGiven'
        BY <1>0, <2>1, MmGivenSame DEF FrameInv, Typed, Staged, memory
    <2> QED
        BY <2>1, <2>2, <2>3, MmUnchanged
<1>3. CASE copy_mm(t)
    <2>1. /\ at[t] = "fork" /\ at' = [at EXCEPT ![t] = "fork"]
          /\ stage' = [stage EXCEPT ![t] = stage[t] + 1]
        BY <1>3 DEF copy_mm, InCopy, Copied, Goes
    <2>2. PICK o : mm' = [mm EXCEPT ![child[t]] = o]
        BY <1>3 DEF copy_mm
    <2>3. at[child[t]] = "new"
        BY <1>0, <2>1 DEF FrameInv, ChildIsNew, Making
    <2>4. MmGiven'
        BY <1>0, <2>1, <2>2, <2>3, MmGivenSame DEF FrameInv, Typed, Staged, MmInv, MmTyped
    <2> QED
        BY <1>3, <2>4, MmCopied
<1>4. CASE fails(t)
    <2>1. /\ at[t] = "fork" /\ at' = [at EXCEPT ![t] = "unwind"]
          /\ stage' = [stage EXCEPT ![t] = stage[t] - 1] /\ stage[t] \in 1 .. 6
          /\ UNCHANGED <<mm_users, mm_count, curr>>
        BY <1>0, <1>4, Orders DEF fails, InCopy, Goes, Staged
    <2>2. PICK p : p = child[t]
        OBVIOUS
    <2>3. p \in Task /\ at[p] = "new"
        BY <1>0, <2>1, <2>2 DEF FrameInv, ChildIsNew, Making
    <2>4. /\ Owner("mm")' = Owner("mm") /\ Owner("mm") \subseteq Task
          /\ stage[t] = 4 => p \notin Owner("mm")
        BY <1>0, <1>4, <2>2, OwnerFails DEF Owner
    <2>5. /\ mm' \in [Task -> Task \cup {NULL}] /\ active_mm' \in [Task -> Task \cup {NULL}]
          /\ \A q \in Task : q # p \/ stage[t] # 4 => mm'[q] = mm[q] /\ active_mm'[q] = active_mm[q]
        <3>1. Copies[stage[t]] = "mm" <=> stage[t] = 4
            BY <1>0, <2>1, Turns
        <3>2. /\ mm' = IF stage[t] = 4 THEN [mm EXCEPT ![p] = NULL] ELSE mm
              /\ active_mm' = IF stage[t] = 4 THEN [active_mm EXCEPT ![p] = NULL] ELSE active_mm
            BY <1>4, <2>2, <3>1 DEF fails
        <3> QED
            BY <2>3, <3>2 DEF MmInv, MmTyped
    <2>6. MmTyped' /\ Loaded' /\ MmCounts'
        BY <2>1, <2>4, <2>5, MmKept
    <2>7. \A u \in Task : at'[u] \in {"exit", "zombie"} =>
              at'[u] = at[u] /\ stage'[u] = stage[u] /\ u # p
        BY <1>0, <2>1, <2>3 DEF FrameInv, Typed, Staged
    <2> QED
        BY <1>0, <2>5, <2>6, <2>7, MmGivenSame
<1>5. CASE cleanup(t)
    <2>1. /\ at[t] = "unwind" /\ at' = [at EXCEPT ![t] = "unwind"] /\ curr' = curr
          /\ stage' = [stage EXCEPT ![t] = stage[t] - 1] /\ stage[t] \in 1 .. 3
        BY <1>0, <1>5 DEF cleanup, Goes, Staged, MmInv, Early
    <2>2. Copies[stage[t]] \in Kind
        BY <2>1, Orders DEF Kind
    <2>3. UNCHANGED memory
        BY <1>5, <2>2 DEF cleanup, Undone
    <2>4. Owner("mm")' = Owner("mm")
        BY <1>0, <1>5, <2>1, OwnerCleaned
    <2>5. MmGiven'
        BY <1>0, <2>1, <2>3, MmGivenSame DEF FrameInv, Typed, Staged, memory
    <2> QED
        BY <2>1, <2>3, <2>4, <2>5, MmUnchanged
<1>6. CASE fork_fails(t)
    <2>1. PICK p : p = child[t]
        OBVIOUS
    <2>2. p \in Task /\ at[p] = "new" /\ at[t] = "unwind" /\ p # t
        BY <1>0, <1>6, <2>1 DEF fork_fails, FrameInv, ChildIsNew, Making
    <2>3. /\ FreeTask(p) /\ stage' = stage /\ UNCHANGED <<mm_users, mm_count, curr>>
          /\ at' = [at EXCEPT ![t] = "user", ![p] = "free"]
        BY <1>6, <2>1 DEF fork_fails
    <2>4. Owner("mm")' = Owner("mm") /\ p \notin Owner("mm") /\ Owner("mm") \subseteq Task
        BY <1>0, <1>6, <2>1, OwnerUnborn DEF Owner
    <2>5. /\ mm' \in [Task -> Task \cup {NULL}] /\ active_mm' \in [Task -> Task \cup {NULL}]
          /\ \A q \in Task \ {p} : mm'[q] = mm[q] /\ active_mm'[q] = active_mm[q]
        BY <2>2, <2>3 DEF FreeTask, Reset, MmInv, MmTyped
    <2>6. MmTyped' /\ Loaded' /\ MmCounts'
        BY <2>3, <2>4, <2>5, MmKept
    <2>7. \A u \in Task : at'[u] \in {"exit", "zombie"} => at'[u] = at[u] /\ u # p
        BY <1>0, <2>2, <2>3 DEF FrameInv, Typed
    <2> QED
        BY <1>0, <2>3, <2>5, <2>6, <2>7, MmGivenSame
<1>7. CASE fork_done(t)
    <2>1. PICK p : p = child[t]
        OBVIOUS
    <2>2. p \in Task /\ at[p] = "new" /\ at[t] = "fork" /\ p # t
        BY <1>0, <1>7, <2>1 DEF fork_done, FrameInv, ChildIsNew, Making
    <2>3. /\ UNCHANGED memory /\ curr' = curr /\ stage' = [stage EXCEPT ![t] = 0]
          /\ at' = [at EXCEPT ![t] = IF "VFORK" \in flags[t] THEN "vfork" ELSE "user",
                              ![p] = "user"]
        BY <1>7, <2>1 DEF fork_done
    <2>4. Owner("mm")' = Owner("mm")
        BY <1>0, <1>7, OwnerBorn
    <2>5. \A u \in Task : at'[u] \in {"exit", "zombie"} =>
              at'[u] = at[u] /\ stage'[u] = stage[u]
        BY <1>0, <2>2, <2>3 DEF FrameInv, Typed, Staged
    <2>6. MmGiven'
        BY <1>0, <2>3, <2>5, MmGivenSame DEF memory
    <2> QED
        BY <2>3, <2>4, <2>6, MmUnchanged
<1>8. CASE vfork_returns(t) \/ do_exit(t) \/ exit_notify(t) \/ as_init_task(t)
    <2>1. PICK step \in {"user", "exit", "zombie", "daemonize"} :
              at' = [at EXCEPT ![t] = step]
        BY <1>8 DEF vfork_returns, do_exit, exit_notify, as_init_task, Goes
    <2>2. /\ at[t] \in {"vfork", "user", "exit", "daemonize"} /\ UNCHANGED memory /\ curr' = curr
          /\ \A u \in Task \ {t} : child'[u] = child[u] /\ stage'[u] = stage[u]
        BY <1>0, <1>8 DEF vfork_returns, do_exit, exit_notify, as_init_task, Goes, Reset,
                          FrameInv, Typed, Staged
    <2>3. Owner("mm")' = Owner("mm")
        <3>1. /\ FrameInv /\ at[t] \notin {"fork", "unwind", "new", "free"}
              /\ step \notin {"fork", "unwind", "new", "free"}
            BY <1>0, <2>2
        <3>2. \A u \in Task \ {t} : child'[u] = child[u] /\ stage'[u] = stage[u]
            BY <2>2
        <3> QED
            BY <2>1, <3>1, <3>2, OwnerMoves, Zenon
    <2>4. MmTyped' /\ Loaded' /\ MmCounts'
        BY <2>2, <2>3, MmUnchanged
    <2>5. \A u \in Task \ {t} : at'[u] = at[u]
        BY <1>0, <2>1 DEF FrameInv, Typed
    <2>6. MmGiven'
        <3>1. CASE exit_notify(t)
            <4>1. at[t] = "exit" /\ stage[t] > 5
                BY <3>1, Orders DEF exit_notify
            <4>2. mm[t] = NULL
                BY <1>0, <4>1 DEF MmGiven, Staged
            <4> QED
                BY <1>0, <2>2, <2>5, <4>2 DEF MmGiven, memory
        <3>2. CASE do_exit(t)
            <4>1. at'[t] = "exit" /\ stage'[t] = 1
                BY <1>0, <3>2 DEF do_exit, Goes, FrameInv, Typed, Staged
            <4> QED
                BY <1>0, <2>2, <2>5, <4>1 DEF MmGiven, memory
        <3>3. CASE vfork_returns(t) \/ as_init_task(t)
            <4>1. at'[t] \in {"user", "daemonize"}
                BY <1>0, <3>3 DEF vfork_returns, as_init_task, Goes, FrameInv, Typed
            <4> QED
                BY <1>0, <2>2, <2>5, <4>1, MmGivenSame DEF memory
        <3> QED
            BY <1>8, <3>1, <3>2, <3>3
    <2> QED
        BY <2>4, <2>6
<1>9. CASE releases(t) \/ daemonize(t)
    <2>1. PICK step \in {"exit", "daemonize"} : at' = [at EXCEPT ![t] = step]
        BY <1>9 DEF releases, daemonize, Goes
    <2>2. /\ at[t] \in {"exit", "user"} /\ curr' = curr /\ t = curr /\ child' = child
          /\ \A u \in Task \ {t} : stage'[u] = stage[u]
        BY <1>0, <1>9 DEF releases, daemonize, Goes, Staged
    <2>3. Owner("mm")' = Owner("mm")
        <3>1. /\ FrameInv /\ at[t] \notin {"fork", "unwind", "new", "free"}
              /\ step \notin {"fork", "unwind", "new", "free"}
            BY <1>0, <2>2
        <3>2. \A u \in Task \ {t} : child'[u] = child[u] /\ stage'[u] = stage[u]
            BY <2>2
        <3> QED
            BY <2>1, <3>1, <3>2, OwnerMoves, Zenon
    <2>4. \/ exit_mm(t)
          \/ UNCHANGED memory /\ at[t] = "exit" /\ stage[t] # 1 /\ at'[t] = "exit"
        BY <1>0, <1>9, Orders DEF releases, daemonize, Goes, FrameInv, Typed
    <2>5. \A u \in Task \ {t} : at'[u] = at[u]
        BY <1>0, <2>1 DEF FrameInv, Typed
    <2>6. CASE exit_mm(t)
        <3>1. MmTyped' /\ Loaded' /\ MmCounts' /\ mm'[t] = NULL
            BY <2>2, <2>3, <2>6, MmExited
        <3>2. \A u \in Task : mm[u] = NULL => mm'[u] = NULL
            BY <2>6 DEF exit_mm, memory, MmInv, MmTyped
        <3>3. MmGiven'
            BY <1>0, <2>2, <2>5, <3>1, <3>2 DEF MmGiven
        <3> QED
            BY <3>1, <3>3
    <2>7. CASE UNCHANGED memory /\ at[t] = "exit" /\ stage[t] # 1 /\ at'[t] = "exit"
        <3>1. MmTyped' /\ Loaded' /\ MmCounts'
            BY <2>2, <2>3, <2>7, MmUnchanged
        <3>2. mm[t] = NULL
            BY <1>0, <2>7 DEF MmGiven, Staged
        <3>3. MmGiven'
            BY <1>0, <2>2, <2>5, <2>7, <3>2 DEF MmGiven, memory
        <3> QED
            BY <3>1, <3>3
    <2> QED
        BY <2>4, <2>6, <2>7
<1>10. CASE release_task(t)
    <2>1. /\ at[t] = "zombie" /\ at' = [at EXCEPT ![t] = "free"] /\ FreeTask(t)
          /\ UNCHANGED <<stage, mm_users, mm_count, curr>>
        BY <1>10 DEF release_task
    <2>2. Owner("mm")' = Owner("mm") \ {t} /\ mm[t] = NULL /\ Owner("mm") \subseteq Task
        BY <1>0, <1>10, <2>1, OwnerReaped DEF MmGiven, Owner
    <2>3. /\ mm' \in [Task -> Task \cup {NULL}] /\ active_mm' \in [Task -> Task \cup {NULL}]
          /\ \A q \in Task \ {t} : mm'[q] = mm[q] /\ active_mm'[q] = active_mm[q]
        BY <2>1 DEF FreeTask, Reset, MmInv, MmTyped
    <2>4. MmTyped' /\ Loaded' /\ MmCounts'
        BY <2>1, <2>2, <2>3, MmKept
    <2>5. \A u \in Task : at'[u] \in {"exit", "zombie"} => at'[u] = at[u] /\ u # t
        BY <1>0, <2>1 DEF FrameInv, Typed
    <2> QED
        BY <1>0, <2>1, <2>3, <2>4, <2>5, MmGivenSame
<1>11. CASE context_switch(t)
    <2>1. UNCHANGED <<at, stage, mm>>
        BY <1>11 DEF context_switch, place
    <2>2. MmGiven'
        BY <1>0, <2>1, MmGivenSame
    <2> QED
        BY <1>11, <2>2, MmSwitched
<1> QED
    BY <1>1, <1>2, <1>3, <1>4, <1>5, <1>6, <1>7, <1>8, <1>9, <1>10, <1>11 DEF Step

LEMMA MmNext ==
    ASSUME NoLateFailure, MmInv, [Next]_vars
    PROVE  MmInv'
<1>1. FrameInv'
    BY FrameNext DEF MmInv
<1>2. CASE UNCHANGED vars
    BY <1>1, <1>2 DEF vars, place, memory, MmInv, Staged, Early, CurrRuns, MmTyped, MmGiven,
                      Loaded, MmCounts, Using, Lazy, Owner, Making
<1>3. ASSUME NEW t \in Task, Step(t) PROVE MmInv'
    <2>1. Staged' /\ Early' /\ CurrRuns'
        BY <1>3, StagedNext, EarlyNext, CurrRunsNext DEF MmInv
    <2> QED
        BY <1>1, <1>3, <2>1, MmStep DEF MmInv
<1> QED
    BY <1>2, <1>3 DEF Next

LEMMA MmsAre == MmInv => MmCountsExact
<1> SUFFICES ASSUME MmInv PROVE MmCountsExact
    OBVIOUS
<1>1. {p \in Task : at[p] # "free" /\ Owns(p, "mm")} = Owner("mm")
    BY OwnerIs, MmShared DEF MmInv
<1>2. curr \in Owner("mm") /\ Owner("mm") \subseteq Task /\ curr \in Task
    BY CurrOwner DEF MmInv
<1>3. ASSUME NEW o \in Task
      PROVE  /\ mm_users[o] = Cardinality(Users(o))
             /\ mm_count[o] = Cardinality(Borrowers(o)) + IF mm_users[o] > 0 THEN 1 ELSE 0
    <2>1. Users(o) = Using(o)
        BY <1>1 DEF Users, Using
    <2>2. Borrowers(o) = IF mm[curr] = NULL /\ active_mm[curr] = o THEN {curr} ELSE {}
        BY <1>1, <1>2, TaskAssumption DEF Borrowers, MmInv, Loaded
    <2>3. Cardinality(Borrowers(o)) = Lazy(o)
        BY <2>2, FS_Singleton, FS_EmptySet DEF Lazy
    <2> QED
        BY <2>1, <2>3 DEF MmInv, MmCounts
<1> QED
    BY <1>2, <1>3 DEF MmCountsExact, MmInv, Loaded

\* mm_users is the number of the processes in an address space, mm_count counts all of
\* these as one and every task that has borrowed it, and what is loaded is never freed:
\* copy_mm, exit_mm and the lazy switches of the kernel threads count alike.  For
\* clones that do not fail after copy_mm: if copy_namespace fails, a count is kept
\* for nobody, see MCForkResources_leak.
THEOREM MmStaysExact == ASSUME NoLateFailure PROVE Spec => []MmCountsExact
<1>1. MmInv /\ [Next]_vars => MmInv'
    BY MmNext
<1> QED
    BY <1>1, MmInit, MmsAre, PTL DEF Spec
-----------------------------------------------------------------------------
(* The parent of a vfork                                                   *)

\* A completion is complete only when the child has given back its address space.
Waits ==
    \A t \in Task :
        /\ Making(t) => done[t] = 0
        /\ at[t] = "vfork" => child[t] \in Task /\ at[child[t]] \notin {"free", "new"}
        /\ at[t] = "vfork" /\ done[t] > 0 => mm[child[t]] = NULL

LEMMA WaitsKept ==
    ASSUME Waits,
           \A u \in Task : at'[u] \in {"fork", "unwind"} => done'[u] = 0,
           \A u \in Task : at'[u] = "vfork" =>
               at[u] = "vfork" /\ child'[u] = child[u] /\ done'[u] = done[u],
           \A q \in Task : at[q] \notin {"free", "new"} =>
               /\ at'[q] \in {"free", "new"} => \A u \in Task : at[u] = "vfork" => child[u] # q
               /\ mm[q] = NULL => mm'[q] = NULL
    PROVE  Waits'
BY DEF Waits, Making

\* t moves on and is not collected; the completions and address spaces stay.
LEMMA WaitsMoves ==
    ASSUME FrameInv, Waits, NEW t \in Task, NEW step,
           at' = [at EXCEPT ![t] = step], step \notin {"free", "new", "vfork"},
           step \in {"fork", "unwind"} => Making(t), child' = child, done' = done,
           \A q \in Task : at[q] \notin {"free", "new"} /\ mm[q] = NULL => mm'[q] = NULL
    PROVE  Waits'
<1>1. /\ at'[t] = step /\ \A u \in Task \ {t} : at'[u] = at[u]
    BY DEF FrameInv, Typed
<1>2. \A u \in Task : at'[u] \in {"fork", "unwind"} => done'[u] = 0
    BY <1>1 DEF Waits, Making
<1> QED
    BY <1>1, <1>2, WaitsKept

\* The current process lets go of its address space and of its parent.
LEMMA WaitsExited ==
    ASSUME MmInv, Waits, NEW t \in Task, t = curr, exit_mm(t), child' = child, NEW step,
           at' = [at EXCEPT ![t] = step], step \in {"exit", "daemonize"}, mm'[t] = NULL
    PROVE  Waits'
<1> USE TaskAssumption DEF MmInv, FrameInv
<1>1. \A u \in Task : done'[u] = done[u] + IF u = vfork_done[t] THEN 1 ELSE 0
    BY DEF exit_mm, mm_release
<1>2. \A u \in Task : u = vfork_done[t] => at[u] = "vfork" /\ child[u] = t
    BY DEF VforkFrameLives, ChildIsNew, CurrRuns, Making
<1>3. at'[t] = step /\ \A u \in Task \ {t} : at'[u] = at[u]
    BY DEF Typed
<1>4. \A q \in Task : mm[q] = NULL => mm'[q] = NULL
    BY DEF exit_mm, memory, MmTyped
<1>5. ASSUME NEW u \in Task
      PROVE  /\ Making(u)' => done'[u] = 0
             /\ at'[u] = "vfork" => child'[u] \in Task /\ at'[child'[u]] \notin {"free", "new"}
             /\ at'[u] = "vfork" /\ done'[u] > 0 => mm'[child'[u]] = NULL
    <2>1. CASE u = vfork_done[t]
        BY <1>2, <1>3, <2>1 DEF Waits, Making
    <2>2. CASE u # vfork_done[t]
        <3>1. done'[u] = done[u]
            BY <1>1, <2>2 DEF Typed
        <3> QED
            BY <1>3, <1>4, <3>1 DEF Waits, Making
    <2> QED
        BY <2>1, <2>2
<1> QED
    BY <1>5 DEF Waits

LEMMA WaitsBorn ==
    ASSUME MmInv, Waits, NEW t \in Task, fork_done(t)
    PROVE  Waits'
<1> USE TaskAssumption
<1>1. PICK p : p = child[t]
    OBVIOUS
<1>2. p \in Task /\ at[p] = "new" /\ at[t] = "fork" /\ p # t /\ done[t] = 0
    BY <1>1 DEF fork_done, MmInv, FrameInv, ChildIsNew, Making, Waits
<1>3. /\ at'[t] \in {"vfork", "user"} /\ at'[p] = "user"
      /\ \A u \in Task \ {t, p} : at'[u] = at[u]
      /\ at'[t] = "vfork" => child'[t] = p
      /\ \A u \in Task \ {t} : child'[u] = child[u]
      /\ done' = done /\ mm' = mm
    BY <1>1, <1>2 DEF fork_done, MmInv, FrameInv, Typed, Reset, memory, vfork
<1>4. ASSUME NEW u \in Task
      PROVE  /\ Making(u)' => done'[u] = 0
             /\ at'[u] = "vfork" => child'[u] \in Task /\ at'[child'[u]] \notin {"free", "new"}
             /\ at'[u] = "vfork" /\ done'[u] > 0 => mm'[child'[u]] = NULL
    <2>1. CASE u = t
        BY <1>2, <1>3, <2>1 DEF Making
    <2>2. CASE u = p
        BY <1>2, <1>3, <2>2 DEF Making
    <2>3. CASE u \notin {t, p}
        BY <1>2, <1>3, <2>3 DEF Waits, Making
    <2> QED
        BY <2>1, <2>2, <2>3
<1> QED
    BY <1>4 DEF Waits

LEMMA WaitsStep ==
    ASSUME MmInv, Waits, NEW t \in Task, Step(t), FrameInv', CurrRuns', NoLateFailure
    PROVE  Waits'
<1> USE TaskAssumption
<1>0. FrameInv /\ Staged /\ MmTyped /\ Typed
    BY DEF MmInv, FrameInv
<1>1. CASE do_fork(t)
    <2> DEFINE S == {u \in Task : at[u] = "free"}
               p == AnyOf(S)
    <2>1. p \in Task /\ at[p] = "free"
        BY <1>1, AnyOfIn DEF do_fork
    <2>2. /\ at' = [at EXCEPT ![t] = "fork", ![p] = "new"] /\ at[t] = "user"
          /\ child' = [child EXCEPT ![t] = p]
          /\ mm' = [mm EXCEPT ![p] = mm[t]] /\ done' = [done EXCEPT ![t] = 0]
        BY <1>1 DEF do_fork
    <2> HIDE DEF p
    <2>3. /\ p # t /\ at'[t] = "fork" /\ at'[p] = "new" /\ done'[t] = 0
          /\ \A u \in Task \ {t, p} : at'[u] = at[u] /\ child'[u] = child[u] /\ mm'[u] = mm[u]
                                      /\ done'[u] = done[u]
          /\ mm'[t] = mm[t]
        BY <1>0, <2>1, <2>2 DEF Typed, MmTyped
    <2>4. \A u \in Task : at'[u] \in {"fork", "unwind"} => done'[u] = 0
        BY <2>3 DEF Waits, Making
    <2> QED
        BY <2>1, <2>3, <2>4, WaitsKept
<1>2. CASE copy(t) \/ copy_thread(t)
    <2>1. /\ at[t] = "fork" /\ at' = [at EXCEPT ![t] = "fork"] /\ child' = child /\ done' = done
          /\ mm' = mm
        BY <1>2 DEF copy, copy_thread, InCopy, Copied, Goes, memory, vfork
    <2> QED
        BY <1>0, <2>1, WaitsMoves DEF Making
<1>3. CASE copy_mm(t) \/ fails(t)
    <2>1. PICK step \in {"fork", "unwind"} : at' = [at EXCEPT ![t] = step]
        BY <1>3 DEF copy_mm, fails, Copied, Goes
    <2>2. /\ at[t] = "fork" /\ child' = child /\ done' = done
          /\ \/ mm' = mm
             \/ \E o : mm' = [mm EXCEPT ![child[t]] = o]
        BY <1>3 DEF copy_mm, fails, InCopy, Copied, vfork
    <2>3. at[child[t]] = "new"
        BY <1>0, <2>2 DEF FrameInv, ChildIsNew, Making
    <2>4. \A q \in Task : at[q] \notin {"free", "new"} /\ mm[q] = NULL => mm'[q] = NULL
        BY <1>0, <2>2, <2>3 DEF MmTyped
    <2> QED
        BY <1>0, <2>1, <2>2, <2>4, WaitsMoves DEF Making
<1>4. CASE cleanup(t)
    <2>1. at[t] = "unwind" /\ at' = [at EXCEPT ![t] = "unwind"] /\ child' = child
        BY <1>4 DEF cleanup, Goes
    <2>2. stage[t] \in 1 .. 3
        BY <1>4, <2>1 DEF cleanup, MmInv, Early, Staged
    <2>3. Copies[stage[t]] \in Kind
        BY <2>2, Orders DEF Kind
    <2>4. mm' = mm /\ done' = done
        BY <1>4, <2>3 DEF cleanup, Undone, memory, vfork
    <2> QED
        BY <1>0, <2>1, <2>4, WaitsMoves DEF Making
<1>5. CASE fork_fails(t)
    <2>1. PICK p : p = child[t]
        OBVIOUS
    <2>2. p \in Task /\ at[p] = "new" /\ at[t] = "unwind" /\ p # t
        BY <1>0, <1>5, <2>1 DEF fork_fails, FrameInv, ChildIsNew, Making
    <2>3. /\ at'[t] = "user" /\ at'[p] = "free"
          /\ \A u \in Task \ {t, p} : at'[u] = at[u]
          /\ \A u \in Task \ {t} : child'[u] = child[u]
          /\ \A u \in Task \ {p} : mm'[u] = mm[u]
          /\ done' = done
        BY <1>0, <1>5, <2>1, <2>2 DEF fork_fails, FreeTask, Reset, Typed, MmTyped
    <2>4. \A u \in Task : at'[u] \in {"fork", "unwind"} => done'[u] = 0
        BY <2>3 DEF Waits, Making
    <2> QED
        BY <2>2, <2>3, <2>4, WaitsKept
<1>6. CASE fork_done(t)
    BY <1>6, WaitsBorn
<1>7. CASE vfork_returns(t)
    <2>1. /\ at'[t] = "user" /\ mm' = mm
          /\ \A u \in Task \ {t} : at'[u] = at[u] /\ child'[u] = child[u] /\ done'[u] = done[u]
        BY <1>0, <1>7 DEF vfork_returns, Reset, memory, Typed
    <2>2. \A u \in Task : at'[u] \in {"fork", "unwind"} => done'[u] = 0
        BY <2>1 DEF Waits, Making
    <2> QED
        BY <2>1, <2>2, WaitsKept
<1>8. CASE do_exit(t) \/ exit_notify(t) \/ as_init_task(t)
    <2>1. PICK step \in {"exit", "zombie", "daemonize", "user"} : at' = [at EXCEPT ![t] = step]
        BY <1>8 DEF do_exit, exit_notify, as_init_task, Goes
    <2>2. child' = child /\ done' = done /\ mm' = mm
        BY <1>8 DEF do_exit, exit_notify, as_init_task, memory, vfork
    <2> QED
        BY <1>0, <2>1, <2>2, WaitsMoves
<1>9. CASE releases(t) \/ daemonize(t)
    <2>1. PICK step \in {"exit", "daemonize"} : at' = [at EXCEPT ![t] = step]
        BY <1>9 DEF releases, daemonize, Goes
    <2>2. /\ child' = child /\ t = curr /\ at[t] \in {"user", "exit"}
          /\ exit_mm(t) \/ (mm' = mm /\ done' = done)
        BY <1>9 DEF releases, daemonize, memory, vfork
    <2>3. CASE exit_mm(t)
        <3>1. mm'[t] = NULL
            BY <1>0, <2>3 DEF exit_mm, memory, MmTyped
        <3> QED
            BY <2>1, <2>2, <2>3, <3>1, WaitsExited
    <2>4. CASE mm' = mm /\ done' = done
        BY <1>0, <2>1, <2>2, <2>4, WaitsMoves
    <2> QED
        BY <2>2, <2>3, <2>4
<1>10. CASE release_task(t)
    <2>1. /\ at'[t] = "free" /\ \A u \in Task \ {t} : at'[u] = at[u] /\ mm'[u] = mm[u]
          /\ child' = child /\ done' = done /\ mm'[t] = NULL
          /\ \A u \in Task : at[u] = "vfork" => child[u] # t
        BY <1>0, <1>10 DEF release_task, FreeTask, Reset, vfork, Typed, MmTyped
    <2>2. \A u \in Task : at'[u] \in {"fork", "unwind"} => done'[u] = 0
        BY <2>1 DEF Waits, Making
    <2> QED
        BY <2>1, <2>2, WaitsKept
<1>11. CASE context_switch(t)
    BY <1>11 DEF context_switch, place, vfork, Waits, Making
<1> QED
    BY <1>1, <1>2, <1>3, <1>4, <1>5, <1>6, <1>7, <1>8, <1>9, <1>10, <1>11 DEF Step

VforkInv == MmInv /\ Waits

LEMMA VforkInit == Init => VforkInv
<1> SUFFICES ASSUME Init PROVE Waits
    BY MmInit DEF VforkInv
<1>1. \A t \in Task : at[t] \in {"idle", "user", "free"}
    BY TaskAssumption DEF Init
<1> QED
    BY <1>1 DEF Waits, Making

LEMMA VforkNext ==
    ASSUME NoLateFailure, VforkInv, [Next]_vars
    PROVE  VforkInv'
<1>1. MmInv'
    BY MmNext DEF VforkInv
<1>2. CASE UNCHANGED vars
    BY <1>1, <1>2 DEF VforkInv, Waits, Making, vars, place, memory, vfork
<1>3. ASSUME NEW t \in Task, Step(t) PROVE VforkInv'
    BY <1>1, <1>3, WaitsStep DEF VforkInv, MmInv
<1> QED
    BY <1>2, <1>3 DEF Next

LEMMA VforkInvHolds == VforkInv => VforkHolds
BY TaskAssumption DEF VforkInv, Waits, VforkHolds

\* The parent of a vfork does not run on in an address space that its child still uses:
\* the completion is complete only after the child's exit_mm.  For clones that do
\* not fail after copy_mm: the cleanup of one that does completes the vfork of the
\* process that called it (run vfork).
THEOREM VforkStaysHeld == ASSUME NoLateFailure PROVE Spec => []VforkHolds
<1>1. VforkInv /\ [Next]_vars => VforkInv'
    BY VforkNext
<1> QED
    BY <1>1, VforkInit, VforkInvHolds, PTL DEF Spec
-----------------------------------------------------------------------------
(* Types: the number of threads is that of the tasks that have been born   *)

Threads == {t \in Task : at[t] \notin {"free", "idle", "new"}}

ThreadsExact == nr_threads = Cardinality(Threads)

AllInv == SharesInv /\ VforkInv /\ ProcessesExact /\ ThreadsExact

LEMMA ThreadsSame ==
    ASSUME ThreadsExact, nr_threads' = nr_threads, Threads' = Threads
    PROVE  ThreadsExact'
BY DEF ThreadsExact

\* A task moves on without being born or collected.
LEMMA ThreadsMove ==
    ASSUME ThreadsExact, Typed, NEW t \in Task, NEW step,
           at' = [at EXCEPT ![t] = step], step \notin {"free", "idle", "new"},
           at[t] \notin {"free", "idle", "new"}, nr_threads' = nr_threads
    PROVE  ThreadsExact'
<1>1. Threads' = Threads
    BY DEF Threads, Typed
<1> QED
    BY <1>1, ThreadsSame

LEMMA ThreadsStep ==
    ASSUME FrameInv, ThreadsExact, NEW t \in Task, Step(t)
    PROVE  ThreadsExact'
<1> USE DEF FrameInv
<1>0. Threads \in SUBSET Task /\ IsFiniteSet(Threads)
    BY SubsetFinite DEF Threads
<1>1. CASE do_fork(t)
    <2> DEFINE S == {u \in Task : at[u] = "free"}
               p == AnyOf(S)
    <2>1. p \in Task /\ at[p] = "free"
        BY <1>1, AnyOfIn DEF do_fork
    <2>2. /\ at' = [at EXCEPT ![t] = "fork", ![p] = "new"] /\ at[t] = "user"
          /\ nr_threads' = nr_threads
        BY <1>1 DEF do_fork
    <2> HIDE DEF p
    <2>3. Threads' = Threads
        BY <2>1, <2>2 DEF Threads, Typed
    <2> QED
        BY <2>2, <2>3, ThreadsSame
<1>2. CASE fork_fails(t)
    <2>1. PICK p : p = child[t]
        OBVIOUS
    <2>2. p \in Task /\ at[p] = "new" /\ at[t] = "unwind" /\ p # t
        BY <1>2, <2>1 DEF fork_fails, ChildIsNew, Making
    <2>3. /\ at' = [at EXCEPT ![t] = "user", ![p] = "free"] /\ nr_threads' = nr_threads
        BY <1>2, <2>1 DEF fork_fails
    <2>4. Threads' = Threads
        BY <2>2, <2>3 DEF Threads, Typed
    <2> QED
        BY <2>3, <2>4, ThreadsSame
<1>3. CASE fork_done(t)
    <2>1. PICK p : p = child[t]
        OBVIOUS
    <2>2. p \in Task /\ at[p] = "new" /\ at[t] = "fork" /\ p # t
        BY <1>3, <2>1 DEF fork_done, ChildIsNew, Making
    <2>3. /\ at' = [at EXCEPT ![t] = IF "VFORK" \in flags[t] THEN "vfork" ELSE "user",
                              ![p] = "user"]
          /\ nr_threads' = nr_threads + 1
        BY <1>3, <2>1 DEF fork_done
    <2>4. Threads' = Threads \cup {p} /\ p \notin Threads
        BY <2>2, <2>3 DEF Threads, Typed
    <2>5. Cardinality(Threads \cup {p}) = Cardinality(Threads) + 1
        BY <1>0, <2>4, FS_AddElement
    <2> QED
        BY <2>3, <2>4, <2>5 DEF ThreadsExact
<1>4. CASE release_task(t)
    <2>1. at[t] = "zombie" /\ at' = [at EXCEPT ![t] = "free"] /\ nr_threads' = nr_threads - 1
        BY <1>4 DEF release_task
    <2>2. t \in Threads /\ Threads' = Threads \ {t}
        BY <2>1 DEF Threads, Typed
    <2>3. Cardinality(Threads \ {t}) = Cardinality(Threads) - 1
        BY <1>0, <2>2, FS_RemoveElement
    <2> QED
        BY <2>1, <2>2, <2>3 DEF ThreadsExact
<1>5. CASE \/ copy(t) \/ copy_mm(t) \/ copy_thread(t) \/ fails(t) \/ cleanup(t)
    <2>1. PICK step \in {"fork", "unwind"} : at' = [at EXCEPT ![t] = step]
        BY <1>5 DEF copy, copy_mm, copy_thread, fails, cleanup, Copied, Goes
    <2>2. at[t] \in {"fork", "unwind"} /\ nr_threads' = nr_threads
        BY <1>5 DEF copy, copy_mm, copy_thread, fails, cleanup, Copied, InCopy, limits
    <2> QED
        BY <2>1, <2>2, ThreadsMove
<1>6. CASE \/ vfork_returns(t) \/ do_exit(t) \/ releases(t) \/ exit_notify(t)
           \/ daemonize(t) \/ as_init_task(t)
    <2>1. PICK step \in {"user", "exit", "zombie", "daemonize"} : at' = [at EXCEPT ![t] = step]
        BY <1>6 DEF vfork_returns, do_exit, releases, exit_notify, daemonize, as_init_task, Goes
    <2>2. at[t] \in {"vfork", "user", "exit", "daemonize"} /\ nr_threads' = nr_threads
        BY <1>6 DEF vfork_returns, do_exit, releases, exit_notify, daemonize, as_init_task, limits
    <2> QED
        BY <2>1, <2>2, ThreadsMove
<1>7. CASE context_switch(t)
    BY <1>7 DEF context_switch, place, limits, ThreadsExact, Threads
<1> QED
    BY <1>1, <1>2, <1>3, <1>4, <1>5, <1>6, <1>7 DEF Step

LEMMA AllInit == Init => AllInv
<1> SUFFICES ASSUME Init PROVE ThreadsExact
    BY SharesInit, VforkInit, ProcessesInit DEF AllInv, ProcessesInv
<1>1. Threads = {First} /\ nr_threads = 1
    BY TaskAssumption DEF Init, Threads
<1> QED
    BY <1>1, FS_Singleton DEF ThreadsExact

LEMMA AllNext ==
    ASSUME NoLateFailure, AllInv, [Next]_vars
    PROVE  AllInv'
<1>1. SharesInv' /\ VforkInv' /\ ProcessesExact'
    BY SharesNext, VforkNext, ProcessesNext DEF AllInv, SharesInv, ProcessesInv
<1>2. ThreadsExact'
    <2>1. CASE UNCHANGED vars
        BY <2>1 DEF AllInv, ThreadsExact, Threads, vars, place, limits
    <2>2. ASSUME NEW t \in Task, Step(t) PROVE ThreadsExact'
        BY <2>2, ThreadsStep DEF AllInv, SharesInv
    <2> QED
        BY <2>1, <2>2 DEF Next
<1> QED
    BY <1>1, <1>2 DEF AllInv

LEMMA AllTyped == AllInv => TypeOK
<1> SUFFICES ASSUME AllInv PROVE TypeOK
    OBVIOUS
<1> USE DEF AllInv, SharesInv, VforkInv, MmInv, FrameInv
<1>1. Len(Copies) + 1 = 7
    BY Orders
<1>2. stage \in [Task -> 0 .. Len(Copies) + 1]
    BY <1>1 DEF Staged
<1>3. nr_threads \in Nat
    BY SubsetFinite DEF ThreadsExact, Threads
<1>4. processes \in Nat
    BY SubsetFinite DEF ProcessesExact
<1> QED
    BY <1>2, <1>3, <1>4 DEF TypeOK, Typed, RefTyped, MmTyped

\* Every field keeps its type: no counter of a structure, of a user's processes or of
\* the threads is ever taken below zero, and there is always a structure for the child
\* that is to have its own.  For clones that do not fail after copy_mm, which keep
\* an address space for nobody.
THEOREM TypeCorrect == ASSUME NoLateFailure PROVE Spec => []TypeOK
<1>1. AllInv /\ [Next]_vars => AllInv'
    BY AllNext
<1> QED
    BY <1>1, AllInit, AllTyped, PTL DEF Spec
=============================================================================
