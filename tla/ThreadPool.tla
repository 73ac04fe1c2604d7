----------------------------- MODULE ThreadPool -----------------------------
(***************************************************************************)
(* gdres::ThreadPool (thread/thread_pool.h, thread_pool.cpp): a queue of   *)
(* tasks, a counting semaphore, worker threads and, when the pool may      *)
(* grow, a manager thread.  A pool with MaxNum = Cardinality(Initial) is   *)
(* the fixed pool, which has no manager.                                   *)
(*                                                                         *)
(* What is done under m_mutexPool is one step; m_sem, m_shutdown and the   *)
(* state of a Thread are touched outside of it.                            *)
(*                                                                         *)
(*   pc   none   no such thread          got    a task popped              *)
(*        head   at while (!m_shutdown)  busy   in func()                  *)
(*        wait   in m_sem.wait()         exit   Worker() returned          *)
(*        lock   woken, at m_mutexPool   term   Thread::getstate() is TERM *)
(*   mgrPc  none, head, sleep, done                                        *)
(*   destroyPc  none, join (m_shutdown set), wake (manager joined),        *)
(*        joinWorkers (tokens signalled), check (workers joined), destroyed*)
(***************************************************************************)
EXTENDS Integers, Sequences, FiniteSets

CONSTANTS
  Initial,     \* the threads Init() creates: m_minNum of them
  Spare,       \* the other threads the pool may create
  MaxNum,      \* m_maxNum
  Tasks,       \* the tasks that may be added, each once
  NoTask,
  MaxTokens    \* bound of the model: the manager does not push m_sem past it

ASSUME ThreadsAssumption ==
  IsFiniteSet(Initial) /\ IsFiniteSet(Spare) /\ Initial \cap Spare = {}
ASSUME NumAssumption ==
  MaxNum \in Nat /\ Cardinality(Initial) <= MaxNum
    /\ MaxNum <= Cardinality(Initial) + Cardinality(Spare)
ASSUME TasksAssumption == NoTask \notin Tasks
ASSUME MaxTokensAssumption == MaxTokens \in Nat

Threads == Initial \cup Spare
MinNum  == Cardinality(Initial)     \* m_minNum
NUMBER  == 2                        \* threads added or removed at a time

VARIABLES
  tasks,      \* m_tasks
  workThs,    \* m_workThs
  liveNum,    \* m_liveNum
  exitNum,    \* m_exitNum
  sem,        \* m_sem's count
  shutdown,   \* m_shutdown
  pc, func,   \* each worker: where it is, and its local variable func
  adding,     \* number of threads in AddTask() between the push and the signal
  mgrPc,      \* the manager thread
  destroyPc,  \* the thread in Destroy()
  crashed,    \* the process died of an undefined access
  fate        \* history: Tasks -> new, queued, done

vars == <<tasks, workThs, liveNum, exitNum, sem, shutdown, pc, func, adding,
          mgrPc, destroyPc, crashed, fate>>
poolVars == <<workThs, liveNum, mgrPc, destroyPc, crashed>>

At(S) == {t \in Threads : pc[t] \in S}
Alive == At({"head", "wait", "lock", "got", "busy"})
busyNum == Cardinality(At({"busy"}))      \* m_busyNum

\* Init() assigns the workers to m_workThs[i] of a vector that is only
\* reserved: its size stays zero.
Init ==
  /\ tasks = <<>> /\ workThs = <<>>
  /\ liveNum = MinNum /\ exitNum = 0 /\ sem = 0 /\ shutdown = FALSE
  /\ pc = [t \in Threads |-> IF t \in Initial THEN "head" ELSE "none"]
  /\ func = [t \in Threads |-> NoTask]
  /\ adding = 0
  /\ mgrPc = IF MinNum = MaxNum THEN "none" ELSE "head"
  /\ destroyPc = "none" /\ crashed = FALSE
  /\ fate = [k \in Tasks |-> "new"]

Goto(t, l) == pc' = [pc EXCEPT ![t] = l]

----------------------------------------------------------------------------
\* Worker()

WorkerTest(t) ==
  /\ pc[t] = "head"
  /\ Goto(t, IF shutdown THEN "exit" ELSE "wait")
  /\ UNCHANGED <<poolVars, tasks, exitNum, sem, shutdown, func, adding, fate>>

\* A mutant: m_sem.wait() does not block.
NoWait == TRUE

Signalled == sem > 0

WorkerWait(t) ==
  /\ pc[t] = "wait"
  /\ Signalled
  /\ sem' = sem - 1
  /\ Goto(t, "lock")
  /\ UNCHANGED <<poolVars, tasks, exitNum, shutdown, func, adding, fate>>

WorkerShutdown(t) ==
  /\ pc[t] = "lock" /\ shutdown
  /\ Goto(t, "exit")
  /\ UNCHANGED <<poolVars, tasks, exitNum, sem, shutdown, func, adding, fate>>

\* m_exitNum asks for a thread to leave, and there are more than the minimum.
Quits == exitNum > 0 /\ liveNum > MinNum

\* The request is used up whether or not the thread leaves.
ExitNumUsed ==
  exitNum' = IF exitNum > 0 THEN exitNum - 1 ELSE 0

WorkerQuit(t) ==
  /\ pc[t] = "lock" /\ ~ shutdown
  /\ Quits
  /\ ExitNumUsed
  /\ Goto(t, "exit")
  /\ UNCHANGED <<poolVars, tasks, sem, shutdown, func, adding, fate>>

WorkerNothing(t) ==
  /\ pc[t] = "lock" /\ ~ shutdown /\ ~ Quits
  /\ ExitNumUsed
  /\ tasks = <<>>
  /\ Goto(t, "head")
  /\ UNCHANGED <<poolVars, tasks, sem, shutdown, func, adding, fate>>

WorkerTake(t) ==
  /\ pc[t] = "lock" /\ ~ shutdown /\ ~ Quits
  /\ ExitNumUsed
  /\ tasks # <<>>
  /\ tasks' = Tail(tasks)
  /\ func' = [func EXCEPT ![t] = Head(tasks)]
  /\ Goto(t, "got")
  /\ UNCHANGED <<poolVars, sem, shutdown, adding, fate>>

WorkerBegin(t) ==
  /\ pc[t] = "got"
  /\ Goto(t, "busy")
  /\ UNCHANGED <<poolVars, tasks, exitNum, sem, shutdown, func, adding, fate>>

WorkerEnd(t) ==
  /\ pc[t] = "busy"
  /\ fate' = [fate EXCEPT ![func[t]] = "done"]
  /\ func' = [func EXCEPT ![t] = NoTask]
  /\ Goto(t, "head")
  /\ UNCHANGED <<poolVars, tasks, exitNum, sem, shutdown, adding>>

\* Thread::Run() marks the thread TERM after Worker() returned.
ThreadTerm(t) ==
  /\ pc[t] = "exit"
  /\ Goto(t, "term")
  /\ UNCHANGED <<poolVars, tasks, exitNum, sem, shutdown, func, adding, fate>>

----------------------------------------------------------------------------
\* AddTask(): push under the lock, signal after it.  AddThread().

AddTask(k) ==
  /\ destroyPc # "destroyed"
  /\ fate[k] = "new"
  /\ tasks' = Append(tasks, k)
  /\ fate' = [fate EXCEPT ![k] = "queued"]
  /\ adding' = adding + 1
  /\ UNCHANGED <<poolVars, exitNum, sem, shutdown, pc, func>>

\* A mutant: the workers are signalled only when one of them seems free.
AddTaskSignalIfIdle ==
  /\ adding > 0
  /\ adding' = adding - 1
  /\ sem' = IF busyNum < liveNum THEN sem + 1 ELSE sem
  /\ UNCHANGED <<poolVars, tasks, exitNum, shutdown, pc, func, fate>>

AddTaskSignal ==
  /\ adding > 0
  /\ adding' = adding - 1
  /\ sem' = sem + 1
  /\ UNCHANGED <<poolVars, tasks, exitNum, shutdown, pc, func, fate>>

\* Only Manager() looks at m_maxNum.  The code does not ask for the pool not to be
\* destroyed: only the destructor does that, and it goes through m_workThs without
\* a lock, so that nobody adds a thread meanwhile.
AddThread(t) ==
  /\ destroyPc = "none"
  /\ pc[t] = "none"
  /\ liveNum' = liveNum + 1
  /\ workThs' = Append(workThs, t)
  /\ Goto(t, "head")
  /\ UNCHANGED <<tasks, exitNum, sem, shutdown, func, adding, mgrPc, destroyPc,
                 crashed, fate>>

----------------------------------------------------------------------------
\* Manager()

ManagerTest ==
  /\ mgrPc = "head"
  /\ mgrPc' = IF shutdown THEN "done" ELSE "sleep"
  /\ UNCHANGED <<tasks, workThs, liveNum, exitNum, sem, shutdown, pc, func,
                 adding, destroyPc, crashed, fate>>

\* How many threads a pass adds.
Grows == Len(tasks) > liveNum /\ liveNum < MaxNum
Growth ==
  IF ~ Grows THEN 0
  ELSE IF MaxNum - liveNum < NUMBER THEN MaxNum - liveNum ELSE NUMBER

\* The orders in which a pass may create n new threads.
NewThreads(n) ==
  {q \in [1..n -> At({"none"})] : \A i, j \in 1..n : q[i] = q[j] => i = j}

\* The positions of q whose thread is erased.  After an erase() the loop's it++
\* steps over the element that moved up, so of neighbours that are all TERM
\* only every other one is erased, starting with the first.
Reaped(q) ==
  {i \in 1..Len(q) :
     \E j \in 1..i :
       /\ \A k \in j..i : pc[q[k]] = "term"
       /\ j = 1 \/ pc[q[j - 1]] # "term"
       /\ (i - j) % 2 = 0}

\* q without the threads in R.
Without(q, R) ==
  LET kept[i \in 0..Len(q)] ==
        IF i = 0 THEN <<>>
        ELSE IF q[i] \in R THEN kept[i - 1] ELSE Append(kept[i - 1], q[i])
  IN kept[Len(q)]

\* Both numbers were sampled at the start of the pass.
Shrinks == busyNum * 2 < liveNum /\ liveNum > MinNum

\* A mutant: one token for the NUMBER threads.
OneToken == 1

\* Tokens a pass signals for the threads it asks to leave.
ShrinkTokens == NUMBER

\* One pass under m_mutexPool: add threads, clear away those that ended, and
\* ask NUMBER threads to leave, each with a token to wake it.
ManagerPass ==
  /\ mgrPc = "sleep"
  /\ shutdown \/ ~ Shrinks \/ sem + NUMBER <= MaxTokens
  /\ \E new \in NewThreads(Growth) :
       LET ths    == workThs \o new
           reaped == {t \in Threads : \E i \in Reaped(ths) : ths[i] = t}
       IN /\ workThs' = Without(ths, reaped)
          /\ liveNum' = liveNum + Growth - Cardinality(reaped)
          /\ pc' = [t \in Threads |->
                      IF t \in reaped THEN "none"
                      ELSE IF \E i \in 1..Growth : new[i] = t THEN "head"
                      ELSE pc[t]]
  /\ exitNum' = IF Shrinks THEN NUMBER ELSE exitNum
  /\ sem' = IF Shrinks THEN sem + ShrinkTokens ELSE sem
  /\ mgrPc' = "head"
  /\ UNCHANGED <<tasks, shutdown, func, adding, destroyPc, crashed, fate>>

----------------------------------------------------------------------------
\* Destroy()

DestroyShutdown ==
  /\ destroyPc = "none"
  /\ shutdown' = TRUE
  /\ destroyPc' = "join"
  /\ UNCHANGED <<tasks, workThs, liveNum, exitNum, sem, pc, func, adding,
                 mgrPc, crashed, fate>>

DestroyJoinManager ==
  /\ destroyPc = "join"
  /\ mgrPc \in {"none", "done"}
  /\ destroyPc' = "wake"
  /\ UNCHANGED <<tasks, workThs, liveNum, exitNum, sem, shutdown, pc, func,
                 adding, mgrPc, crashed, fate>>

\* A mutant: one token for each thread of the vector, as if it held them all.
VectorTokens == Len(workThs)

\* One token for each thread m_liveNum counts.
WakeTokens == liveNum

DestroyWake ==
  /\ destroyPc = "wake"
  /\ sem' = sem + WakeTokens
  /\ destroyPc' = "joinWorkers"
  /\ UNCHANGED <<tasks, workThs, liveNum, exitNum, shutdown, pc, func, adding,
                 mgrPc, crashed, fate>>

\* The threads of m_workThs are joined.
DestroyJoinWorkers ==
  /\ destroyPc = "joinWorkers"
  /\ \A i \in 1..Len(workThs) : pc[workThs[i]] = "term"
  /\ destroyPc' = "check"
  /\ UNCHANGED <<tasks, workThs, liveNum, exitNum, sem, shutdown, pc, func,
                 adding, mgrPc, crashed, fate>>

\* m_managerTh->getstate() is called even if there is no manager.
DestroyCheck ==
  /\ destroyPc = "check"
  /\ IF mgrPc = "none"
       THEN crashed' = TRUE /\ UNCHANGED <<destroyPc, workThs>>
       ELSE destroyPc' = "destroyed" /\ workThs' = <<>> /\ UNCHANGED crashed
  /\ UNCHANGED <<tasks, liveNum, exitNum, sem, shutdown, pc, func, adding,
                 mgrPc, fate>>

\* A thread that still runs in the deleted pool may find its memory intact, as
\* the actions above do, or kill the process.
UseAfterDestroy ==
  /\ destroyPc = "destroyed"
  /\ Alive # {} \/ adding > 0
  /\ crashed' = TRUE
  /\ UNCHANGED <<tasks, workThs, liveNum, exitNum, sem, shutdown, pc, func,
                 adding, mgrPc, destroyPc, fate>>

----------------------------------------------------------------------------

WorkerStep(t) ==
  \/ WorkerTest(t) \/ WorkerWait(t) \/ WorkerShutdown(t) \/ WorkerQuit(t)
  \/ WorkerNothing(t) \/ WorkerTake(t) \/ WorkerBegin(t) \/ WorkerEnd(t)
  \/ ThreadTerm(t)

ManagerStep == ManagerTest \/ ManagerPass

DestroyStep ==
  \/ DestroyJoinManager \/ DestroyWake \/ DestroyJoinWorkers \/ DestroyCheck

Next ==
  /\ ~ crashed
  /\ \/ \E t \in Threads : WorkerStep(t) \/ AddThread(t)
     \/ \E k \in Tasks : AddTask(k)
     \/ AddTaskSignal
     \/ ManagerStep
     \/ DestroyShutdown \/ DestroyStep
     \/ UseAfterDestroy

\* Threads that are inside a function run on, tasks return, the manager's
\* sleeps end.  Nobody owes a task, a thread or the end of the pool.
Fairness ==
  /\ \A t \in Threads : WF_vars(~ crashed /\ WorkerStep(t))
  /\ WF_vars(~ crashed /\ AddTaskSignal)
  /\ WF_vars(~ crashed /\ ManagerStep)
  /\ WF_vars(~ crashed /\ DestroyStep)

SafeSpec == Init /\ [][Next]_vars
Spec == SafeSpec /\ Fairness

----------------------------------------------------------------------------

TypeOK ==
  /\ tasks \in Seq(Tasks)
  /\ workThs \in Seq(Threads)
  /\ liveNum \in Nat /\ exitNum \in 0..NUMBER /\ sem \in Nat /\ adding \in Nat
  /\ shutdown \in BOOLEAN /\ crashed \in BOOLEAN
  /\ pc \in [Threads -> {"none", "head", "wait", "lock", "got", "busy",
                         "exit", "term"}]
  /\ func \in [Threads -> Tasks \cup {NoTask}]
  /\ mgrPc \in {"none", "head", "sleep", "done"}
  /\ destroyPc \in {"none", "join", "wake", "joinWorkers", "check", "destroyed"}
  /\ fate \in [Tasks -> {"new", "queued", "done"}]

\* Until the pool is shut down, each task in the queue and each request to
\* leave has a token of its own: counted by the semaphore, about to be
\* signalled by AddTask(), or in the hand of a worker on its way to the queue.
\* A request to leave must not eat the token of a task.
TokensCoverTasks ==
  ~ shutdown =>
    Len(tasks) + exitNum <= sem + adding + Cardinality(At({"lock"}))

\* From Destroy()'s signals on, every worker that sleeps has a token to wake
\* it, though m_liveNum also counts threads that left and was never checked
\* against the threads that exist.
WakesEveryWorker ==
  destroyPc \in {"joinWorkers", "check", "destroyed"} =>
    Cardinality(At({"wait"})) <= sem

\* Every added task is executed, unless the pool is shut down (README 1.3;
\* thread_pool.h 27).
TasksRun ==
  \A k \in Tasks : fate[k] = "queued" ~> fate[k] = "done" \/ shutdown

\* In the behaviours in which the manager is not held up by MaxTokens.
DynamicTasksRun ==
  \A k \in Tasks :
    fate[k] = "queued" ~>
      fate[k] = "done" \/ shutdown \/ sem + NUMBER > MaxTokens

\* In a pool with a manager Destroy() returns and every worker ends, in any order
\* of the two: the tokens it signals are enough for every worker that waits or
\* comes to wait, and for those of Init(), which it does not join.  One of these
\* may still be busy in the deleted pool, and the process then die of it.  A
\* fixed pool dies in Destroy(), see NoCrash.
DestroyEndsWorkers ==
  <>[](shutdown => destroyPc = "destroyed" /\ (Alive = {} \/ crashed))

\* Busy workers are waited for before the pool is gone (thread_pool.cpp 216).
DestroyJoinsAll == destroyPc = "destroyed" => Alive = {}

\* A fixed pool needs no manager thread (thread_pool.h 24).
NoCrash == ~ crashed
=============================================================================
