-------------------------- MODULE ThreadPoolProofs --------------------------
(***************************************************************************)
(* Proofs about ThreadPool, for every number of threads and tasks: a       *)
(* request to leave does not use up the token of a task, and Destroy()     *)
(* signals enough for every worker that sleeps.  The pool is well typed,   *)
(* whatever its manager does to the vector of workers.                     *)
(***************************************************************************)
EXTENDS ThreadPool, FiniteSetTheorems, SequenceTheorems, WellFoundedInduction, TLAPS

PCs == {"none", "head", "wait", "lock", "got", "busy", "exit", "term"}

\* The types but for m_workThs, which no safety property depends on.
CoreTypes ==
  /\ tasks \in Seq(Tasks)
  /\ liveNum \in Nat /\ exitNum \in 0..NUMBER /\ sem \in Nat /\ adding \in Nat
  /\ shutdown \in BOOLEAN
  /\ pc \in [Threads -> PCs]
  /\ func \in [Threads -> Tasks \cup {NoTask}]
  /\ mgrPc \in {"none", "head", "sleep", "done"}
  /\ destroyPc \in {"none", "join", "wake", "joinWorkers", "check", "destroyed"}

\* Destroy() shuts the pool down first, and goes on when the manager is gone.
DestroyInOrder ==
  /\ destroyPc # "none" => shutdown
  /\ destroyPc \notin {"none", "join"} => mgrPc \in {"none", "done"}

\* m_liveNum counts the threads that exist, whether they run, have left or
\* have ended, whatever m_workThs holds.
Present == At(PCs \ {"none"})
LiveExact == liveNum = Cardinality(Present)

IInv == CoreTypes /\ DestroyInOrder /\ LiveExact /\ TokensCoverTasks

----------------------------------------------------------------------------

\* Any set of threads at some places is finite.
LEMMA AtFinite ==
  ASSUME NEW S
  PROVE  IsFiniteSet(At(S)) /\ Cardinality(At(S)) \in Nat
<1>1. IsFiniteSet(Threads)
  BY ThreadsAssumption, FS_Union DEF Threads
<1> QED
  BY <1>1, FS_Subset, FS_CardinalityType DEF At

\* A thread that moves to l leaves the sets of places without l and enters
\* those with it.
LEMMA MoveCount ==
  ASSUME pc \in [Threads -> PCs], NEW t \in Threads, NEW l, Goto(t, l), NEW S
  PROVE  Cardinality(At(S)') = Cardinality(At(S))
                                 - (IF pc[t] \in S THEN 1 ELSE 0)
                                 + (IF l \in S THEN 1 ELSE 0)
<1> DEFINE Rest == At(S) \ {t}
<1>1. IsFiniteSet(Rest) /\ Cardinality(Rest) \in Nat /\ t \notin Rest
  BY AtFinite, FS_Subset, FS_CardinalityType
<1>2. Cardinality(Rest \cup {t}) = Cardinality(Rest) + 1
  BY <1>1, FS_AddElement
<1>3. At(S) = IF pc[t] \in S THEN Rest \cup {t} ELSE Rest
  BY DEF At
<1>4. At(S)' = IF l \in S THEN Rest \cup {t} ELSE Rest
  BY DEF At, Goto
<1> HIDE DEF Rest
<1>5. /\ Cardinality(At(S)) = Cardinality(Rest) + (IF pc[t] \in S THEN 1 ELSE 0)
      /\ Cardinality(At(S)') = Cardinality(Rest) + (IF l \in S THEN 1 ELSE 0)
  <2>1. Cardinality(Rest) + 0 = Cardinality(Rest)
    BY <1>1
  <2> QED
    BY <1>2, <1>3, <1>4, <2>1
<1> QED
  BY <1>1, <1>5

\* One pass of the manager changes m_liveNum by as much as it creates and
\* reaps, and leaves alone the workers that wait or hold a token.
LEMMA PassCounts ==
  ASSUME CoreTypes, LiveExact, ManagerPass
  PROVE  /\ pc' \in [Threads -> PCs] /\ liveNum' \in Nat
         /\ LiveExact'
         /\ At({"lock"})' = At({"lock"}) /\ At({"wait"})' = At({"wait"})
<1> DEFINE n == Growth
<1>1. PICK new \in NewThreads(n) :
        LET ths    == workThs \o new
            reaped == {t \in Threads : \E i \in Reaped(ths) : ths[i] = t}
        IN /\ liveNum' = liveNum + n - Cardinality(reaped)
           /\ pc' = [t \in Threads |->
                       IF t \in reaped THEN "none"
                       ELSE IF \E i \in 1..n : new[i] = t THEN "head"
                       ELSE pc[t]]
  BY DEF ManagerPass
<1> DEFINE ths     == workThs \o new
           reaped  == {t \in Threads : \E i \in Reaped(ths) : ths[i] = t}
           created == {t \in Threads : \E i \in 1..n : new[i] = t}
<1>2. n \in Nat
  BY NumAssumption DEF CoreTypes, Growth, Grows, NUMBER
<1>3. reaped \subseteq At({"term"})
  <2> SUFFICES ASSUME NEW t \in reaped PROVE pc[t] = "term"
    BY DEF At
  <2>1. PICK i \in Reaped(ths) : ths[i] = t
    OBVIOUS
  <2>2. i \in 1..Len(ths) /\ pc[ths[i]] = "term"
    <3>1. PICK j \in 1..i : \A k \in j..i : pc[ths[k]] = "term"
      BY <2>1 DEF Reaped
    <3>2. i \in 1..Len(ths)
      BY <2>1 DEF Reaped
    <3>3. i \in j..i
      BY <3>1, <3>2
    <3> QED
      BY <3>1, <3>2, <3>3
  <2> QED
    BY <2>1, <2>2
<1>4. /\ created \subseteq At({"none"})
      /\ IsFiniteSet(created) /\ Cardinality(created) = n
  <2> HIDE DEF n
  <2>1. /\ new \in [1..n -> At({"none"})]
        /\ \A i, j \in 1..n : new[i] = new[j] => i = j
    BY <1>1 DEF NewThreads
  <2>2. \A t \in created : t \in At({"none"})
    BY <2>1
  <2>3. new \in Bijection(1..n, created)
    <3>1. new \in [1..n -> created]
      BY <2>1 DEF At
    <3>2. new \in Injection(1..n, created)
      BY <2>1, <3>1 DEF Injection, IsInjective
    <3>3. new \in Surjection(1..n, created)
      BY <3>1 DEF Surjection
    <3> QED
      BY <3>2, <3>3 DEF Bijection
  <2>4. IsFiniteSet(1..n) /\ Cardinality(1..n) = n
    BY <1>2, FS_Interval
  <2>5. ExistsBijection(1..n, created)
    BY <2>3 DEF ExistsBijection
  <2> QED
    BY <2>2, <2>4, <2>5, FS_Bijection
<1>5. /\ liveNum' = liveNum + n - Cardinality(reaped)
      /\ pc' = [t \in Threads |-> IF t \in reaped THEN "none"
                                  ELSE IF t \in created THEN "head" ELSE pc[t]]
  BY <1>1
<1> HIDE DEF n, reaped, created
<1>6. pc' \in [Threads -> PCs]
  BY <1>5 DEF CoreTypes, PCs
<1>7. At({"lock"})' = At({"lock"}) /\ At({"wait"})' = At({"wait"})
  BY <1>3, <1>4, <1>5 DEF At
<1>8. Present' = (Present \ reaped) \cup created
  <2>1. created \cap reaped = {}
    BY <1>3, <1>4 DEF At
  <2> QED
    BY <1>3, <1>4, <1>5, <2>1 DEF Present, At, PCs, CoreTypes
<1>9. /\ IsFiniteSet(Present) /\ reaped \subseteq Present
      /\ created \cap Present = {}
  BY <1>3, <1>4, AtFinite DEF Present, At, PCs
<1>10. Cardinality(Present') = Cardinality(Present) - Cardinality(reaped) + n
  <2>1. /\ IsFiniteSet(Present \ reaped)
        /\ Cardinality(Present \ reaped)
             = Cardinality(Present) - Cardinality(Present \cap reaped)
    BY <1>9, FS_Difference, FS_Subset
  <2>2. Present \cap reaped = reaped /\ (Present \ reaped) \cap created = {}
    BY <1>9
  <2>3. Cardinality(Present') = Cardinality(Present \ reaped)
                                  + Cardinality(created) - Cardinality({})
    BY <1>4, <1>8, <2>1, <2>2, FS_Union
  <2>4. IsFiniteSet(reaped) /\ Cardinality(reaped) \in Nat /\ Cardinality(Present) \in Nat
    BY <1>9, FS_Subset, FS_CardinalityType
  <2> QED
    BY <1>2, <1>4, <2>1, <2>2, <2>3, <2>4, FS_EmptySet
<1>11. LiveExact' /\ liveNum' \in Nat
  <2>1. /\ Cardinality(reaped) \in Nat /\ Cardinality(Present) \in Nat
        /\ Cardinality(Present') \in Nat
    <3>1. IsFiniteSet(Present')
      BY <1>4, <1>8, <1>9, FS_Subset, FS_Union
    <3> QED
      BY <1>9, <3>1, FS_Subset, FS_CardinalityType
  <2>2. liveNum' = Cardinality(Present')
    BY <1>2, <1>5, <1>10, <2>1 DEF LiveExact
  <2> QED
    BY <2>1, <2>2 DEF LiveExact
<1> QED
  BY <1>6, <1>7, <1>11

----------------------------------------------------------------------------
\* The invariant holds initially and is kept by each action.

LEMMA InvInit == Init => IInv
<1> SUFFICES ASSUME Init PROVE IInv
  OBVIOUS
<1>1. Cardinality(Initial) \in Nat
  BY ThreadsAssumption, FS_CardinalityType
<1>2. CoreTypes
  <2>1. tasks \in Seq(Tasks)
    BY DEF Init
  <2>2. /\ pc \in [Threads -> PCs] /\ func \in [Threads -> Tasks \cup {NoTask}]
    BY DEF Init, PCs
  <2>3. /\ liveNum \in Nat /\ exitNum \in 0..NUMBER
        /\ mgrPc \in {"none", "head", "sleep", "done"}
    BY <1>1 DEF Init, MinNum, NUMBER
  <2>4. sem \in Nat /\ adding \in Nat /\ shutdown \in BOOLEAN /\ destroyPc = "none"
    BY DEF Init
  <2> QED
    BY <2>1, <2>2, <2>3, <2>4 DEF CoreTypes
<1>3. DestroyInOrder
  BY DEF Init, DestroyInOrder
<1>4. LiveExact
  <2>1. Present = Initial
    BY DEF Init, Present, At, PCs, Threads
  <2> QED
    BY <2>1 DEF Init, LiveExact, MinNum
<1>5. TokensCoverTasks
  <2>1. Len(tasks) = 0 /\ At({"lock"}) = {}
    BY DEF Init, At
  <2> QED
    BY <2>1, FS_EmptySet DEF Init, TokensCoverTasks
<1> QED
  BY <1>2, <1>3, <1>4, <1>5 DEF IInv

\* A worker moves on, taking its token, its task or a request with it.
LEMMA WorkerInv ==
  ASSUME IInv, NEW t \in Threads, WorkerStep(t)
  PROVE  IInv'
<1> DEFINE Locked == Cardinality(At({"lock"}))
<1>0. CoreTypes /\ DestroyInOrder /\ LiveExact /\ TokensCoverTasks
  BY DEF IInv
<1>1. /\ Locked \in Nat /\ Len(tasks) \in Nat /\ exitNum \in Nat
      /\ tasks # <<>> => /\ Tail(tasks) \in Seq(Tasks) /\ Head(tasks) \in Tasks
                         /\ Len(Tail(tasks)) = Len(tasks) - 1
      /\ tasks = <<>> => Len(tasks) = 0
  BY <1>0, AtFinite DEF CoreTypes, NUMBER
<1>2. /\ exitNum' \in 0..NUMBER /\ tasks' \in Seq(Tasks) /\ sem' \in Nat
      /\ func' \in [Threads -> Tasks \cup {NoTask}]
  <2> USE DEF WorkerStep, WorkerTest, WorkerWait, WorkerShutdown, WorkerQuit,
        WorkerNothing, WorkerTake, WorkerBegin, WorkerEnd, ThreadTerm
  <2>1. exitNum' \in 0..NUMBER
    <3>1. \/ exitNum' = exitNum
          \/ exitNum' = IF exitNum > 0 THEN exitNum - 1 ELSE 0
      BY DEF ExitNumUsed
    <3> QED
      BY <1>0, <3>1 DEF CoreTypes, NUMBER
  <2>2. tasks' \in Seq(Tasks)
    <3>1. tasks' = tasks \/ (tasks # <<>> /\ tasks' = Tail(tasks))
      OBVIOUS
    <3> QED
      BY <1>0, <1>1, <3>1 DEF CoreTypes
  <2>3. sem' \in Nat
    <3>1. sem' = sem \/ (sem > 0 /\ sem' = sem - 1)
      BY DEF Signalled
    <3> QED
      BY <1>0, <3>1 DEF CoreTypes
  <2>4. func' \in [Threads -> Tasks \cup {NoTask}]
    <3>1. \/ func' = func
          \/ func' = [func EXCEPT ![t] = NoTask]
          \/ tasks # <<>> /\ func' = [func EXCEPT ![t] = Head(tasks)]
      OBVIOUS
    <3> QED
      BY <1>0, <1>1, <3>1 DEF CoreTypes
  <2> QED
    BY <2>1, <2>2, <2>3, <2>4
<1>3. PICK l \in PCs \ {"none"} : Goto(t, l) /\ pc[t] # "none"
  BY DEF WorkerStep, WorkerTest, WorkerWait, WorkerShutdown, WorkerQuit,
     WorkerNothing, WorkerTake, WorkerBegin, WorkerEnd, ThreadTerm, PCs
<1>4. UNCHANGED <<poolVars, shutdown, adding>>
  BY DEF WorkerStep, WorkerTest, WorkerWait, WorkerShutdown, WorkerQuit,
     WorkerNothing, WorkerTake, WorkerBegin, WorkerEnd, ThreadTerm
<1>5. CoreTypes' /\ DestroyInOrder'
  BY <1>0, <1>2, <1>3, <1>4 DEF CoreTypes, DestroyInOrder, Goto, poolVars
<1>6. LiveExact'
  <2>1. Present' = Present
    BY <1>0, <1>3 DEF Present, At, Goto, CoreTypes
  <2> QED
    BY <1>0, <1>4, <2>1 DEF LiveExact, poolVars
<1>7. TokensCoverTasks'
  <2> SUFFICES ASSUME ~ shutdown
               PROVE  Len(tasks') + exitNum' <= sem' + adding' + Locked'
    BY <1>4 DEF TokensCoverTasks
  <2>1. Len(tasks) + exitNum <= sem + adding + Locked
    BY <1>0 DEF TokensCoverTasks
  <2>2. adding' = adding /\ adding \in Nat /\ sem \in Nat
    BY <1>0, <1>4 DEF CoreTypes
  <2>3. ASSUME NEW k, Goto(t, k)
        PROVE  Locked' = Locked - (IF pc[t] = "lock" THEN 1 ELSE 0)
                                + (IF k = "lock" THEN 1 ELSE 0)
    BY <1>0, <2>3, MoveCount DEF CoreTypes
  <2> HIDE DEF Locked
  <2>4. CASE WorkerTest(t) \/ WorkerBegin(t) \/ WorkerEnd(t) \/ ThreadTerm(t)
    <3>1. Locked' = Locked
      BY <1>1, <2>3, <2>4 DEF WorkerTest, WorkerBegin, WorkerEnd, ThreadTerm
    <3> QED
      BY <2>1, <2>2, <2>4, <3>1
      DEF WorkerTest, WorkerBegin, WorkerEnd, ThreadTerm
  <2>5. CASE WorkerWait(t)
    <3>1. Locked' = Locked + 1
      BY <1>1, <2>3, <2>5 DEF WorkerWait
    <3> QED
      BY <1>1, <2>1, <2>2, <2>5, <3>1 DEF WorkerWait
  <2>6. CASE WorkerShutdown(t)
    BY <2>6 DEF WorkerShutdown
  <2>7. CASE WorkerQuit(t) \/ WorkerNothing(t) \/ WorkerTake(t)
    <3>1. Locked' = Locked - 1
      BY <1>1, <2>3, <2>7 DEF WorkerQuit, WorkerNothing, WorkerTake
    <3>2. sem' = sem /\ exitNum' = IF exitNum > 0 THEN exitNum - 1 ELSE 0
      BY <2>7 DEF WorkerQuit, WorkerNothing, WorkerTake, ExitNumUsed
    <3>3. \/ Len(tasks') = Len(tasks) /\ (exitNum > 0 \/ Len(tasks) = 0)
          \/ Len(tasks') = Len(tasks) - 1
      BY <1>1, <2>7 DEF WorkerQuit, Quits, WorkerNothing, WorkerTake
    <3>4. Locked >= 1
      <4>1. t \in At({"lock"}) /\ IsFiniteSet(At({"lock"}))
        BY <2>7, AtFinite DEF WorkerQuit, WorkerNothing, WorkerTake, At
      <4> QED
        BY <1>1, <4>1, FS_EmptySet DEF Locked
    <3> QED
      BY <1>1, <2>1, <2>2, <3>1, <3>2, <3>3, <3>4
  <2> QED
    BY <2>4, <2>5, <2>6, <2>7 DEF WorkerStep
<1> QED
  BY <1>5, <1>6, <1>7 DEF IInv

\* Every action keeps the invariant.
LEMMA InvStep == IInv /\ [Next]_vars => IInv'
<1> SUFFICES ASSUME IInv, [Next]_vars
             PROVE  IInv'
  OBVIOUS
<1> DEFINE Locked == Cardinality(At({"lock"}))
<1>0. /\ CoreTypes /\ DestroyInOrder /\ LiveExact /\ TokensCoverTasks
      /\ Locked \in Nat /\ Len(tasks) \in Nat
  BY AtFinite DEF IInv, CoreTypes
<1>1. ASSUME NEW t \in Threads, WorkerStep(t) PROVE IInv'
  BY <1>1, WorkerInv
<1>2. ASSUME NEW t \in Threads, AddThread(t) PROVE IInv'
  <2>1. Cardinality(Present') = Cardinality(Present) + 1
    <3>1. Present' = Present \cup {t} /\ t \notin Present
      BY <1>0, <1>2 DEF AddThread, Goto, Present, At, PCs, CoreTypes
    <3> QED
      BY <3>1, AtFinite, FS_AddElement DEF Present
  <2>2. At({"lock"})' = At({"lock"})
    BY <1>0, <1>2 DEF AddThread, Goto, At, CoreTypes
  <2>3. CoreTypes' /\ DestroyInOrder' /\ LiveExact'
    BY <1>0, <1>2, <2>1
    DEF AddThread, Goto, CoreTypes, PCs, DestroyInOrder, LiveExact
  <2>4. TokensCoverTasks'
    BY <1>0, <1>2, <2>2 DEF AddThread, TokensCoverTasks
  <2> QED
    BY <2>3, <2>4 DEF IInv
<1>3. ASSUME NEW k \in Tasks, AddTask(k) PROVE IInv'
  <2>1. tasks' \in Seq(Tasks) /\ Len(tasks') = Len(tasks) + 1
    BY <1>0, <1>3 DEF AddTask, CoreTypes
  <2>2. UNCHANGED <<pc, liveNum, shutdown, sem, exitNum, func, mgrPc, destroyPc>>
        /\ adding' = adding + 1
    BY <1>3 DEF AddTask, poolVars
  <2>3. CoreTypes' /\ DestroyInOrder'
    BY <1>0, <2>1, <2>2 DEF CoreTypes, DestroyInOrder
  <2>4. Present' = Present /\ At({"lock"})' = At({"lock"})
    BY <2>2 DEF Present, At
  <2> QED
    BY <1>0, <2>1, <2>2, <2>3, <2>4
    DEF IInv, LiveExact, TokensCoverTasks, CoreTypes
<1>4. CASE AddTaskSignal
  <2>1. UNCHANGED <<tasks, pc, liveNum, shutdown, exitNum, func, mgrPc, destroyPc>>
        /\ adding > 0 /\ adding' = adding - 1 /\ sem' = sem + 1
    BY <1>4 DEF AddTaskSignal, poolVars
  <2>2. CoreTypes' /\ DestroyInOrder'
    BY <1>0, <2>1 DEF CoreTypes, DestroyInOrder
  <2>3. Present' = Present /\ At({"lock"})' = At({"lock"})
    BY <2>1 DEF Present, At
  <2> QED
    BY <1>0, <2>1, <2>2, <2>3
    DEF IInv, LiveExact, TokensCoverTasks, CoreTypes, NUMBER
<1>5. CASE ManagerPass
  <2>1. /\ pc' \in [Threads -> PCs] /\ liveNum' \in Nat /\ LiveExact'
        /\ At({"lock"})' = At({"lock"})
    BY <1>0, <1>5, PassCounts
  <2>2. /\ UNCHANGED <<tasks, shutdown, func, adding, destroyPc>>
        /\ exitNum' = IF Shrinks THEN 2 ELSE exitNum
        /\ sem' = IF Shrinks THEN sem + 2 ELSE sem
        /\ mgrPc = "sleep" /\ mgrPc' = "head"
    BY <1>5 DEF ManagerPass, ShrinkTokens, NUMBER
  <2>3. CoreTypes' /\ DestroyInOrder'
    BY <1>0, <2>1, <2>2 DEF CoreTypes, DestroyInOrder, NUMBER
  <2>4. TokensCoverTasks'
    BY <1>0, <2>1, <2>2 DEF TokensCoverTasks, CoreTypes, NUMBER
  <2> QED
    BY <2>1, <2>3, <2>4 DEF IInv
<1>6. ASSUME \/ ManagerTest \/ DestroyShutdown \/ DestroyStep \/ UseAfterDestroy
             \/ UNCHANGED vars
      PROVE  IInv'
  <2>1. UNCHANGED <<tasks, pc, liveNum, exitNum, func, adding>>
    BY <1>6 DEF ManagerTest, DestroyShutdown, DestroyStep, DestroyJoinManager,
       DestroyWake, DestroyJoinWorkers, DestroyCheck, UseAfterDestroy, vars
  <2>2. Present' = Present /\ At({"lock"})' = At({"lock"})
    BY <2>1 DEF Present, At
  <2>3. CoreTypes' /\ DestroyInOrder'
    <3>1. CASE ManagerTest
      BY <1>0, <3>1 DEF ManagerTest, CoreTypes, DestroyInOrder
    <3>2. CASE DestroyShutdown \/ DestroyJoinManager
      BY <1>0, <3>2
      DEF DestroyShutdown, DestroyJoinManager, CoreTypes, DestroyInOrder
    <3>3. CASE DestroyWake
      BY <1>0, <3>3 DEF DestroyWake, WakeTokens, CoreTypes, DestroyInOrder
    <3>4. CASE DestroyJoinWorkers \/ DestroyCheck
      BY <1>0, <3>4
      DEF DestroyJoinWorkers, DestroyCheck, CoreTypes, DestroyInOrder
    <3>5. CASE UseAfterDestroy \/ UNCHANGED vars
      BY <1>0, <3>5 DEF UseAfterDestroy, vars, CoreTypes, DestroyInOrder
    <3> QED
      BY <1>6, <3>1, <3>2, <3>3, <3>4, <3>5 DEF DestroyStep
  <2>4. shutdown' \/ (~ shutdown /\ sem' = sem)
    BY <1>0, <1>6 DEF ManagerTest, DestroyShutdown, DestroyStep,
       DestroyJoinManager, DestroyWake, DestroyJoinWorkers, DestroyCheck,
       UseAfterDestroy, vars, CoreTypes, DestroyInOrder
  <2> QED
    BY <1>0, <2>1, <2>2, <2>3, <2>4 DEF IInv, LiveExact, TokensCoverTasks
<1> QED
  BY <1>1, <1>2, <1>3, <1>4, <1>5, <1>6 DEF Next, ManagerStep

\* The invariant holds in every reachable state.
LEMMA Inductive == Spec => []IInv
<1> QED
  BY InvInit, InvStep, PTL DEF Spec, SafeSpec

----------------------------------------------------------------------------

\* After Destroy()'s signals no worker comes to wait, and each one that stops
\* waiting takes one token.
LEMMA WakesStep == IInv /\ WakesEveryWorker /\ [Next]_vars => WakesEveryWorker'
<1> SUFFICES ASSUME IInv, WakesEveryWorker, [Next]_vars,
                    destroyPc' \in {"joinWorkers", "check", "destroyed"}
             PROVE  Cardinality(At({"wait"})') <= sem'
  BY DEF WakesEveryWorker
<1> DEFINE Late    == destroyPc \in {"joinWorkers", "check", "destroyed"}
           Waiting == Cardinality(At({"wait"}))
<1>0. /\ CoreTypes /\ DestroyInOrder /\ LiveExact
      /\ Waiting \in Nat /\ sem \in Nat /\ liveNum \in Nat
      /\ Late => Waiting <= sem
  BY AtFinite DEF IInv, CoreTypes, WakesEveryWorker
<1>1. ASSUME NEW t \in Threads, WorkerStep(t) PROVE Waiting' <= sem'
  <2>1. Late /\ shutdown
    BY <1>0, <1>1
    DEF WorkerStep, WorkerTest, WorkerWait, WorkerShutdown, WorkerQuit,
        WorkerNothing, WorkerTake, WorkerBegin, WorkerEnd, ThreadTerm, poolVars,
        DestroyInOrder
  <2>2. ASSUME NEW l, Goto(t, l)
        PROVE  Waiting' = Waiting - (IF pc[t] = "wait" THEN 1 ELSE 0)
                                  + (IF l = "wait" THEN 1 ELSE 0)
    BY <1>0, <2>2, MoveCount DEF CoreTypes
  <2> HIDE DEF Waiting
  <2>3. CASE WorkerWait(t)
    <3>1. Waiting' = Waiting - 1 /\ sem' = sem - 1
      BY <1>0, <2>2, <2>3 DEF WorkerWait
    <3> QED
      BY <1>0, <2>1, <3>1
  <2>4. CASE ~ WorkerWait(t)
    <3>1. /\ \E l \in PCs \ {"wait"} : Goto(t, l) /\ pc[t] # "wait"
          /\ sem' = sem
      BY <1>1, <2>1, <2>4
      DEF WorkerStep, WorkerTest, WorkerShutdown, WorkerQuit, WorkerNothing,
          WorkerTake, WorkerBegin, WorkerEnd, ThreadTerm, PCs
    <3>2. Waiting' = Waiting
      BY <1>0, <2>2, <3>1
    <3> QED
      BY <1>0, <2>1, <3>1, <3>2
  <2> QED
    BY <2>3, <2>4
<1>2. ASSUME NEW t \in Threads, AddThread(t) PROVE FALSE
  BY <1>2 DEF AddThread
<1>3. ASSUME (\E k \in Tasks : AddTask(k)) \/ AddTaskSignal PROVE Waiting' <= sem'
  <2>1. destroyPc' = destroyPc /\ pc' = pc /\ (sem' = sem \/ sem' = sem + 1)
    BY <1>3 DEF AddTask, AddTaskSignal, poolVars
  <2>2. Waiting' = Waiting
    BY <2>1 DEF At
  <2> QED
    BY <1>0, <2>1, <2>2
<1>4. CASE ManagerStep
  BY <1>0, <1>4 DEF ManagerStep, ManagerTest, ManagerPass, DestroyInOrder
<1>5. CASE DestroyWake
  <2>1. sem' = sem + liveNum /\ pc' = pc
    BY <1>5 DEF DestroyWake, WakeTokens
  <2>2. Waiting <= Cardinality(Present)
    <3>1. At({"wait"}) \in SUBSET Present
      BY DEF Present, At, PCs
    <3> QED
      BY <3>1, AtFinite, FS_Subset DEF Present
  <2>3. Waiting' = Waiting
    BY <2>1 DEF At
  <2> QED
    BY <1>0, <2>1, <2>2, <2>3 DEF LiveExact
<1>6. ASSUME \/ DestroyShutdown \/ DestroyJoinManager \/ DestroyJoinWorkers
             \/ DestroyCheck \/ UseAfterDestroy \/ UNCHANGED vars
      PROVE  Waiting' <= sem'
  <2>1. pc' = pc /\ sem' = sem /\ Late
    BY <1>6 DEF DestroyShutdown, DestroyJoinManager, DestroyJoinWorkers,
       DestroyCheck, UseAfterDestroy, vars
  <2>2. Waiting' = Waiting
    BY <2>1 DEF At
  <2> QED
    BY <1>0, <2>1, <2>2
<1> QED
  BY <1>1, <1>2, <1>3, <1>4, <1>5, <1>6 DEF Next, DestroyStep

----------------------------------------------------------------------------

\* A task in the queue and a request to leave each have a token of their own:
\* the manager's requests never leave a task without a worker to be woken for
\* it (thread_pool.cpp 107-113, 140-155, 173-180).
THEOREM TasksKeepTokens == Spec => []TokensCoverTasks
<1>1. IInv => TokensCoverTasks
  BY DEF IInv
<1> QED
  BY <1>1, Inductive, PTL

\* m_liveNum is the number of threads that exist, those that have left and are
\* not reaped included: not the size of m_workThs (thread_pool.h 53), and not
\* the number of workers able to take a task.
THEOREM LiveNumCounts == Spec => []LiveExact
<1>1. IInv => LiveExact
  BY DEF IInv
<1> QED
  BY <1>1, Inductive, PTL

\* Destroy()'s m_liveNum signals are enough for every worker that sleeps, for
\* pools of any size and whatever the manager did before (thread_pool.cpp 211).
THEOREM SleepersAreWoken == Spec => []WakesEveryWorker
<1>1. Init => WakesEveryWorker
  BY DEF Init, WakesEveryWorker
<1> QED
  BY <1>1, WakesStep, Inductive, PTL DEF Spec, SafeSpec

----------------------------------------------------------------------------
\* The vector of workers

\* g gives what is kept of the first n elements of s.
Keeps(s, R, n, g) ==
  g = [i \in 0 .. n |-> IF i = 0 THEN <<>>
                        ELSE IF s[i] \in R THEN g[i - 1] ELSE Append(g[i - 1], s[i])]

\* A set of numbers that is not empty has a smallest.
LEMMA Smallest ==
  ASSUME NEW S \in SUBSET Nat, S # {}
  PROVE  \E n \in S : \A k \in S : n <= k
<1>1. PICK n \in S : \A k \in S : ~ (<<k, n>> \in OpToRel(<, Nat))
  BY NatLessThanWellFounded, WFMin
<1>2. n \in Nat /\ \A k \in S : k \in Nat /\ ~ (k < n)
  BY <1>1 DEF OpToRel
<1> QED
  BY <1>2

LEMMA KeepsExists ==
  ASSUME NEW s, NEW R, NEW n \in Nat
  PROVE  \E g : Keeps(s, R, n, g)
<1> DEFINE Bad == {m \in Nat : ~ \E g : Keeps(s, R, m, g)}
<1>1. SUFFICES ASSUME Bad # {} PROVE FALSE
  OBVIOUS
<1>2. PICK m \in Bad : \A k \in Bad : m <= k
  BY <1>1, Smallest
<1>3. CASE m = 0
  <2>1. Keeps(s, R, 0, [i \in 0 .. 0 |-> <<>>])
    BY DEF Keeps
  <2> QED
    BY <1>3, <2>1
<1>4. CASE m # 0
  <2>1. m - 1 \in Nat /\ m - 1 \notin Bad
    BY <1>2, <1>4
  <2>2. PICK g : Keeps(s, R, m - 1, g)
    BY <2>1
  <2> DEFINE h == [i \in 0 .. m |-> IF i < m THEN g[i]
                                    ELSE IF s[m] \in R THEN g[m - 1] ELSE Append(g[m - 1], s[m])]
  <2>3. \A i \in 0 .. m - 1 : g[i] = IF i = 0 THEN <<>>
                        ELSE IF s[i] \in R THEN g[i - 1] ELSE Append(g[i - 1], s[i])
    BY <2>1, <2>2 DEF Keeps
  <2>4. Keeps(s, R, m, h)
    BY <1>2, <1>4, <2>3 DEF Keeps
  <2> QED
    BY <2>4
<1> QED
  BY <1>3, <1>4

LEMMA WithoutIsKept ==
  ASSUME NEW T, NEW s \in Seq(T), NEW R
  PROVE  \E g : Keeps(s, R, Len(s), g) /\ Without(s, R) = g[Len(s)]
<1> DEFINE g == CHOOSE f : Keeps(s, R, Len(s), f)
<1>1. Keeps(s, R, Len(s), g)
  BY KeepsExists, LenProperties
<1>2. Without(s, R) = g[Len(s)]
  BY DEF Without, Keeps
<1> QED
  BY <1>1, <1>2

\* What is kept are elements of s, and none of R.
LEMMA WithoutType ==
  ASSUME NEW T, NEW s \in Seq(T), NEW R
  PROVE  Without(s, R) \in Seq(T \ R)
<1>1. PICK g : Keeps(s, R, Len(s), g) /\ Without(s, R) = g[Len(s)]
  BY WithoutIsKept
<1>2. Len(s) \in Nat /\ \A i \in 1 .. Len(s) : s[i] \in T
  BY LenProperties
<1> DEFINE Bad == {m \in 0 .. Len(s) : g[m] \notin Seq(T \ R)}
<1>3. SUFFICES ASSUME Bad # {} PROVE FALSE
  BY <1>1, <1>2
<1>4. PICK m \in Bad : \A k \in Bad : m <= k
  <2>1. Bad \in SUBSET Nat
    BY <1>2
  <2> HIDE DEF Bad
  <2> QED
    BY <1>3, <2>1, Smallest
<1>5. \A i \in 0 .. Len(s) : g[i] = IF i = 0 THEN <<>>
                        ELSE IF s[i] \in R THEN g[i - 1] ELSE Append(g[i - 1], s[i])
  BY <1>1 DEF Keeps
<1>6. m # 0 /\ m \in 1 .. Len(s)
  <2>1. g[0] = <<>> /\ <<>> \in Seq(T \ R)
    BY <1>2, <1>5
  <2>2. m \in 0 .. Len(s) /\ g[m] \notin Seq(T \ R)
    OBVIOUS
  <2> HIDE DEF Bad
  <2>3. m # 0
    BY <2>1, <2>2
  <2>4. m \in 0 .. Len(s)
    BY <2>2
  <2> QED
    BY <1>2, <2>3, <2>4
<1>7. g[m - 1] \in Seq(T \ R)
  BY <1>2, <1>4, <1>6
<1>8. s[m] \notin R => Append(g[m - 1], s[m]) \in Seq(T \ R)
  BY <1>2, <1>6, <1>7
<1> QED
  BY <1>2, <1>4, <1>5, <1>6, <1>7, <1>8

\* With the vector and the history, the whole of TypeOK.
TInv == IInv /\ TypeOK

LEMMA PassVector ==
  ASSUME TInv, ManagerPass
  PROVE  workThs' \in Seq(Threads)
<1>1. PICK new \in NewThreads(Growth) : \E R : workThs' = Without(workThs \o new, R)
  BY DEF ManagerPass
<1>2. Growth \in Nat
  BY NumAssumption DEF TInv, IInv, CoreTypes, Growth, Grows, NUMBER
<1> DEFINE n == Growth
<1>3. new \in [1..n -> Threads] /\ n \in Nat
  BY <1>2 DEF NewThreads, At
<1> HIDE DEF n
<1>4. new \in Seq(Threads) /\ workThs \in Seq(Threads)
  BY <1>3 DEF TInv, TypeOK
<1>5. workThs \o new \in Seq(Threads)
  BY <1>4, ConcatProperties
<1>6. PICK R : workThs' = Without(workThs \o new, R)
  BY <1>1
<1>7. workThs' \in Seq(Threads \ R)
  BY <1>5, <1>6, WithoutType
<1> QED
  BY <1>7

LEMMA TypeInit == Init => TypeOK
<1>1. Init => CoreTypes
  BY InvInit DEF IInv
<1>2. Init => workThs \in Seq(Threads) /\ crashed \in BOOLEAN
  BY EmptySeq DEF Init
<1>3. Init => fate \in [Tasks -> {"new", "queued", "done"}]
  BY DEF Init
<1> QED
  BY <1>1, <1>2, <1>3 DEF TypeOK, CoreTypes, PCs

LEMMA TypeStep == TInv /\ [Next]_vars => TypeOK'
<1> SUFFICES ASSUME TInv, [Next]_vars PROVE TypeOK'
  OBVIOUS
<1>1. CoreTypes'
  BY InvStep DEF TInv, IInv
<1>2. workThs' \in Seq(Threads)
  <2>1. CASE ManagerPass
    BY <2>1, PassVector
  <2>2. ASSUME NEW t \in Threads, AddThread(t) PROVE workThs' \in Seq(Threads)
    BY <2>2, AppendProperties DEF AddThread, TInv, TypeOK
  <2>3. CASE workThs' = workThs \/ workThs' = <<>>
    BY <2>3, EmptySeq DEF TInv, TypeOK
  <2>4. DestroyCheck => workThs' = workThs \/ workThs' = <<>>
    BY DEF DestroyCheck
  <2>5. ASSUME NEW t \in Threads, WorkerStep(t) PROVE workThs' = workThs
    BY <2>5 DEF WorkerStep, poolVars, WorkerTest, WorkerWait, WorkerShutdown, WorkerQuit,
      WorkerNothing, WorkerTake, WorkerBegin, WorkerEnd, ThreadTerm
  <2>6. CASE ~ ManagerPass /\ ~ DestroyCheck
    BY <2>2, <2>3, <2>5, <2>6 DEF Next, vars, poolVars, ManagerStep, DestroyStep, AddTask,
      AddTaskSignal, ManagerTest, DestroyShutdown, DestroyJoinManager, DestroyWake,
      DestroyJoinWorkers, UseAfterDestroy
  <2> QED
    BY <2>1, <2>3, <2>4, <2>6
<1>3. crashed' \in BOOLEAN
  BY DEF TInv, TypeOK, Next, vars, poolVars, WorkerStep, ManagerStep, DestroyStep, WorkerTest,
      WorkerWait, WorkerShutdown, WorkerQuit, WorkerNothing, WorkerTake, WorkerBegin, WorkerEnd,
      ThreadTerm, AddTask, AddThread, AddTaskSignal, ManagerTest, ManagerPass, DestroyShutdown,
      DestroyJoinManager, DestroyWake, DestroyJoinWorkers, DestroyCheck, UseAfterDestroy
<1>4. fate' \in [Tasks -> {"new", "queued", "done"}]
  BY DEF TInv, TypeOK, Next, vars, poolVars, WorkerStep, ManagerStep, DestroyStep, WorkerTest,
      WorkerWait, WorkerShutdown, WorkerQuit, WorkerNothing, WorkerTake, WorkerBegin, WorkerEnd,
      ThreadTerm, AddTask, AddThread, AddTaskSignal, ManagerTest, ManagerPass, DestroyShutdown,
      DestroyJoinManager, DestroyWake, DestroyJoinWorkers, DestroyCheck, UseAfterDestroy
<1> QED
  BY <1>1, <1>2, <1>3, <1>4 DEF TypeOK, CoreTypes, PCs

\* The pool is well typed, its vector of workers included: whatever the manager
\* appends to it and erases from it in one pass, with the step that its loop
\* takes after an erase(), the vector holds threads only (thread_pool.cpp 85-104).
THEOREM TypeCorrect == Spec => []TypeOK
<1>1. Init => TInv
  BY InvInit, TypeInit DEF TInv
<1>2. TInv /\ [Next]_vars => TInv'
  BY InvStep, TypeStep DEF TInv
<1>3. TInv => TypeOK
  BY DEF TInv
<1> QED
  BY <1>1, <1>2, <1>3, PTL DEF Spec, SafeSpec
=============================================================================
