-------------------------- MODULE SchedulerProofs --------------------------
(***************************************************************************)
(* Proofs about Scheduler, for any threads, fibres, functions and targets  *)
(* of tasks.                                                               *)
(*                                                                         *)
(* The invariant Inv has one part for each thing the code relies on        *)
(* without a lock: what a thread has published when (ThreadInv), what is   *)
(* in its hands at which line (TaskInv, AddedInv), who is on the stack of  *)
(* a fibre that executes (RunInv), who may wait (WaitInv), and what has    *)
(* not happened before Start() and Stop() (MainInv).                       *)
(***************************************************************************)
EXTENDS Scheduler, FiniteSetTheorems, SequenceTheorems, TLAPS

Busy == {"tickle", "dispatch", "switch", "run", "out", "after"}
Idling == {"idleTest", "idleWait", "asleep"}

ActiveSet == {w \in Workers : ft[w] # NoTask /\ pc[w] \in Busy}
IdleSet == {w \in Workers : pc[w] \in Idling}

\* A thread inside Run() of the scheduler is between its own first and last
\* step, and has published its id and signalled once.
ThreadInv ==
  \A w \in Workers :
    /\ pc[w] # "off" => thState[w] = "EXEC"
    /\ pc[w] = "off" /\ thState[w] = "EXEC" => sem[w] = 0
    /\ thState[w] \in {"none", "INIT"} => sem[w] = 0
    /\ thState[w] \in {"EXEC", "TERM", "deleted"} => id[w] = w

\* A task is a fibre or a function.
IsTask(e) == e.fib # None \/ e.fun # None

TaskInv ==
  /\ \A i \in DOMAIN tasks : IsTask(tasks[i])
  /\ \A w \in Workers :
       /\ ft[w] = NoTask \/ IsTask(ft[w])
       /\ pc[w] = "scan" => ft[w] = NoTask
       /\ pc[w] \in {"switch", "run", "out", "after", "readd", "hold"} => ft[w] # NoTask

\* The user's fibres in the list and in the hands of a thread were added.
AddedInv ==
  /\ \A i \in DOMAIN tasks : tasks[i].fib \in Fibers => tasks[i].fib \in added
  /\ \A w \in Workers : ft[w].fib \in Fibers => ft[w].fib \in added

\* The state EXEC means that a thread is on the fibre's stack.
RunInv ==
  \A f \in AllFibers : fibState[f] = "EXEC" => \E u \in Workers : pc[u] = "run" /\ cur[u] = f

WaitInv == \A w \in waiting : pc[w] = "asleep"

MainInv ==
  /\ mainPc = "await" => newest \in Workers
  /\ mainPc \in {"create", "await", "poll", "up"} => ~ stopping
  /\ mainPc \in {"create", "await", "poll"} =>
       tasks = <<>> /\ \A w \in Workers : ft[w] = NoTask

Inv ==
  /\ TypeOK /\ ThreadInv /\ IdsPublished /\ TaskInv /\ CountsExact
  /\ AddedInv /\ FiberInOnePlace /\ RunInv /\ WaitInv /\ MainInv
  /\ OnlyTheRaceStrands

----------------------------------------------------------------------------
\* Which steps touch what.

LEMMA IdsFrame ==
  ASSUME Next
  PROVE  StartNext \/ UNCHANGED ids
BY DEF Next, WorkerStep, MainStep, vars, mainVars, threadVars, runVars, userVars,
  ThreadBegins, ThreadSignals, Loop, Scan, Tickle, Dispatch, Switch, Crash, Finish, Out, After,
  Readd, Hold, ResetCb, IdleTest, IdleWait, IdleOut, End, Yield, Spurious, StartThread, StopDelete,
  StartEnds, StopCount, StopNotify, StopNotified, StopEnds, StopSet, AddTask, Resume

\* Only these steps move a task.
LEMMA TaskFrame ==
  ASSUME Next
  PROVE  \/ UNCHANGED <<tasks, ft, added>>
         \/ \E w \in Workers : Loop(w) \/ Scan(w) \/ Readd(w) \/ Hold(w)
         \/ \E x \in Fibers \cup Funs : AddTask(x)
         \/ \E f \in Fibers : Resume(f)
BY DEF Next, WorkerStep, MainStep, vars, mainVars, threadVars, runVars, userVars,
  ThreadBegins, ThreadSignals, Tickle, Dispatch, Switch, Crash, Finish, Out, After,
  ResetCb, IdleTest, IdleWait, IdleOut, End, Yield, Spurious, StartThread, StopDelete, StartNext,
  StartEnds, StopCount, StopNotify, StopNotified, StopEnds, StopSet

\* Only these steps end or begin Run() or touch the thread object; any other
\* leaves pc alone or takes one thread from line to line of Run().
LEMMA ThreadFrame ==
  ASSUME Next
  PROVE  \/ \E w \in Workers : ThreadBegins(w) \/ ThreadSignals(w) \/ End(w) \/ StartThread(w) \/ StopDelete(w)
         \/ StartNext
         \/ /\ UNCHANGED threadVars
            /\ \/ UNCHANGED pc
               \/ \E w \in Workers, l \in Busy \cup Idling \cup {"loop", "scan", "readd", "hold", "reset"} :
                    pc[w] # "off" /\ Goto(w, l)
BY DEF Next, WorkerStep, MainStep, vars, mainVars, threadVars, runVars, userVars, Goto, Busy, Idling,
  Loop, Scan, Take, TakeNothing, Tickle, Dispatch, DispatchFiber, DispatchFunc, DispatchIdle, Enters,
  Switch, Crash, Finish, Out, After, Readd, Hold, ResetCb, IdleTest, IdleWait, IdleOut, Yield, Spurious,
  StartEnds, StopCount, StopNotify, StopNotified, StopEnds, StopSet, AddTask, Resume

\* Only these steps touch the conditions of MainInv.
LEMMA MainFrame ==
  ASSUME Next
  PROVE  \/ UNCHANGED <<mainPc, newest, stopping>>
         \/ (\E w \in Workers : StartThread(w)) \/ StartNext \/ StartEnds \/ StopSet
         \/ StopCount \/ StopNotified \/ StopEnds
BY DEF Next, WorkerStep, MainStep, mainVars, ThreadBegins, ThreadSignals, Loop, Scan, Tickle, Dispatch,
  Switch, Crash, Finish, Out, After, Readd, Hold, ResetCb, IdleTest, IdleWait, IdleOut, End, Yield,
  Spurious, StopDelete, StopNotify, AddTask, Resume

\* A wait begins in IdleWait() alone.
LEMMA WaitFrame ==
  ASSUME Next
  PROVE  (\E w \in Workers : IdleWait(w)) \/ waiting' \subseteq waiting
BY DEF Next, WorkerStep, MainStep, runVars, Notify, ThreadBegins, ThreadSignals, Loop, Scan, Tickle,
  Dispatch, Switch, Crash, Finish, Out, After, Readd, Hold, ResetCb, IdleTest, IdleOut, End, Yield,
  Spurious, StartThread, StopDelete, StartNext, StartEnds, StopCount, StopNotify, StopNotified, StopEnds,
  StopSet, AddTask, Resume, Push

\* The state EXEC begins in SwapIn() alone; the thread on a fibre's stack
\* leaves the line only by changing the state.
LEMMA FiberFrame ==
  ASSUME Next, TypeOK
  PROVE  \/ \E w \in Workers : Switch(w) \/ Finish(w) \/ Yield(w)
         \/ /\ \A f \in AllFibers : fibState'[f] = "EXEC" => fibState[f] = "EXEC"
            /\ \A u \in Workers : pc[u] = "run" => pc'[u] = "run" /\ cur'[u] = cur[u]
BY SMTT(30) DEF Next, WorkerStep, MainStep, fiberVars, threadVars, runVars, mainVars, userVars, Goto, TypeOK,
  FiberTypeOK, AllFibers, SwapOut, Reset, Resettable,
  ThreadBegins, ThreadSignals, Loop, Scan, Take, TakeNothing, Tickle, Dispatch, DispatchFiber,
  DispatchFunc, DispatchIdle, Crash, Out, After, Readd, Hold, ResetCb, IdleTest, IdleWait, IdleOut, End,
  Spurious, StartThread, StopDelete, StartNext, StartEnds, StopCount, StopNotify, StopNotified, StopEnds,
  StopSet, AddTask, Resume

----------------------------------------------------------------------------
\* What a thread has published, and when.

LEMMA ThreadStep ==
  ASSUME TypeOK, ThreadInv, MainInv, Next
  PROVE  ThreadInv'
<1>1. ASSUME NEW w \in Workers, ThreadBegins(w) PROVE ThreadInv'
  BY <1>1 DEF ThreadBegins, Enter, ThreadInv, TypeOK, ThreadTypeOK, runVars
<1>2. ASSUME NEW w \in Workers, ThreadSignals(w) PROVE ThreadInv'
  BY <1>2 DEF ThreadSignals, Signal, Goto, ThreadInv, TypeOK, ThreadTypeOK
<1>3. ASSUME NEW w \in Workers, End(w) PROVE ThreadInv'
  BY <1>3 DEF End, Term, Goto, ThreadInv, TypeOK, ThreadTypeOK
<1>4. ASSUME NEW w \in Workers, StartThread(w) PROVE ThreadInv'
  BY <1>4 DEF StartThread, Construct, ThreadInv, TypeOK, ThreadTypeOK, runVars
<1>5. ASSUME NEW w \in Workers, StopDelete(w) PROVE ThreadInv'
  BY <1>5 DEF StopDelete, Delete, ThreadInv, TypeOK, ThreadTypeOK, runVars
<1>6. CASE StartNext
  BY <1>6 DEF StartNext, Constructed, ThreadInv, MainInv, TypeOK, ThreadTypeOK, runVars
<1>7. CASE UNCHANGED threadVars /\ UNCHANGED pc
  BY <1>7 DEF ThreadInv, threadVars
<1>8. ASSUME NEW w \in Workers, NEW l \in Busy \cup Idling \cup {"loop", "scan", "readd", "hold", "reset"},
             UNCHANGED threadVars, pc[w] # "off", Goto(w, l)
      PROVE  ThreadInv'
  BY <1>8 DEF ThreadInv, threadVars, Goto, Busy, Idling, TypeOK
<1> QED
  BY <1>1, <1>2, <1>3, <1>4, <1>5, <1>6, <1>7, <1>8, ThreadFrame

LEMMA IdsStep ==
  ASSUME TypeOK, ThreadInv, MainInv, IdsPublished, Next
  PROVE  IdsPublished'
<1>1. CASE StartNext
  <2>1. newest \in Workers /\ sem[newest] > 0 /\ ids' = ids \cup {id[newest]}
    BY <1>1 DEF StartNext, Constructed, MainInv
  <2>2. thState[newest] \in {"EXEC", "TERM", "deleted"}
    BY <2>1 DEF ThreadInv, TypeOK, ThreadTypeOK
  <2> QED
    BY <2>1, <2>2 DEF ThreadInv, IdsPublished
<1> QED
  BY <1>1, IdsFrame DEF IdsPublished

----------------------------------------------------------------------------
\* Who executes a fibre, and who waits.

LEMMA RunStep ==
  ASSUME TypeOK, RunInv, Next
  PROVE  RunInv'
<1>1. ASSUME NEW w \in Workers, Switch(w) PROVE RunInv'
  BY <1>1 DEF Switch, SwapIn, Goto, RunInv, TypeOK, FiberTypeOK
<1>2. ASSUME NEW w \in Workers, Finish(w) \/ Yield(w) PROVE RunInv'
  <2>1. PICK s \in {"TERM", "READY", "HOLD"} : fibState' = [fibState EXCEPT ![cur[w]] = s]
    BY <1>2 DEF Finish, Yield, Leave
  <2>2. pc' = [pc EXCEPT ![w] = "out"] /\ cur' = cur
    BY <1>2 DEF Finish, Yield, Leave, Goto
  <2> QED
    BY <2>1, <2>2 DEF RunInv, TypeOK, FiberTypeOK
<1> QED
  BY <1>1, <1>2, FiberFrame DEF RunInv

LEMMA WaitStep ==
  ASSUME TypeOK, WaitInv, Next
  PROVE  WaitInv'
<1>1. ASSUME NEW w \in Workers, IdleWait(w) PROVE WaitInv'
  BY <1>1 DEF IdleWait, Goto, WaitInv, TypeOK
<1>2. ASSUME NEW u \in waiting', waiting' \subseteq waiting PROVE pc'[u] = "asleep"
  BY SMTT(30), <1>2 DEF Next, WorkerStep, MainStep, fiberVars, threadVars, runVars, mainVars, userVars, Goto,
    TypeOK, WaitInv, ThreadTypeOK, ThreadInv,
    ThreadBegins, ThreadSignals, Loop, Scan, Take, TakeNothing, Tickle, Dispatch, DispatchFiber,
    DispatchFunc, DispatchIdle, Switch, Crash, Finish, Out, After, Readd, Hold, ResetCb, IdleTest,
    IdleWait, IdleOut, End, Yield, Spurious, StartThread, StopDelete, StartNext, StartEnds, StopCount,
    StopNotify, StopNotified, StopEnds, StopSet, AddTask, Resume
<1> QED
  BY <1>1, <1>2, WaitFrame DEF WaitInv

----------------------------------------------------------------------------
\* What is in the hands of a thread.

\* erase(): the other elements keep their order and their values.
LEMMA WithoutProperties ==
  ASSUME NEW S, NEW s \in Seq(S), NEW i \in 1 .. Len(s)
  PROVE  /\ Without(s, i) \in Seq(S)
         /\ DOMAIN Without(s, i) = 1 .. Len(s) - 1
         /\ \A j \in 1 .. Len(s) - 1 : Without(s, i)[j] = IF j < i THEN s[j] ELSE s[j + 1]
<1>1. Len(s) - 1 \in Nat
  OBVIOUS
<1>2. \A j \in 1 .. Len(s) - 1 : (IF j < i THEN s[j] ELSE s[j + 1]) \in S
  OBVIOUS
<1> QED
  BY <1>1, <1>2, IsASeq DEF Without

\* Take() moves one element of the list into the hands of thread w.
LEMMA TakeMoves ==
  ASSUME TypeOK, NEW w \in Workers, pc[w] = "scan", Take(w)
  PROVE  \E i \in 1 .. Len(tasks) :
           /\ tasks' = Without(tasks, i)
           /\ ft' = [ft EXCEPT ![w] = tasks[i]]
           /\ tasks[i] \in Entries /\ tasks' \in Seq(Entries)
           /\ DOMAIN tasks' = 1 .. Len(tasks) - 1
           /\ \A j \in 1 .. Len(tasks) - 1 : tasks'[j] = IF j < i THEN tasks[j] ELSE tasks[j + 1]
<1>1. PICK i \in DOMAIN tasks : tasks' = Without(tasks, i) /\ ft' = [ft EXCEPT ![w] = tasks[i]]
  BY DEF Take
<1>2. tasks \in Seq(Entries) /\ i \in 1 .. Len(tasks)
  BY <1>1 DEF TypeOK
<1>3. tasks[i] \in Entries
  BY <1>2
<1> QED
  BY <1>1, <1>2, <1>3, WithoutProperties

LEMMA TaskStep ==
  ASSUME TypeOK, TaskInv, Next
  PROVE  TaskInv'
<1> USE DEF TaskInv, IsTask
<1>1. ASSUME NEW w \in Workers, Loop(w) PROVE TaskInv'
  BY <1>1 DEF Loop, Goto, TypeOK
<1>2. ASSUME NEW w \in Workers, Scan(w) PROVE TaskInv'
  <2>1. CASE Take(w)
    <3>1. pc[w] = "scan" /\ pc' \in {[pc EXCEPT ![w] = "tickle"], [pc EXCEPT ![w] = "dispatch"]}
      BY <1>2, <2>1 DEF Scan, Take, Goto
    <3>2. PICK i \in 1 .. Len(tasks) :
             /\ ft' = [ft EXCEPT ![w] = tasks[i]]
             /\ DOMAIN tasks' = 1 .. Len(tasks) - 1
             /\ \A j \in 1 .. Len(tasks) - 1 : tasks'[j] = IF j < i THEN tasks[j] ELSE tasks[j + 1]
      BY <2>1, <3>1, TakeMoves
    <3>3. DOMAIN tasks = 1 .. Len(tasks) /\ Len(tasks) \in Nat
      BY DEF TypeOK
    <3>4. \A j \in DOMAIN tasks' : IsTask(tasks'[j])
      BY <3>2, <3>3
    <3>5. IsTask(tasks[i])
      BY <3>2, <3>3
    <3> QED
      BY <3>1, <3>2, <3>4, <3>5 DEF TypeOK
  <2>2. CASE TakeNothing(w)
    BY <1>2, <2>2 DEF Scan, TakeNothing, Goto, TypeOK
  <2> QED
    BY <1>2, <2>1, <2>2 DEF Scan
<1>3. ASSUME NEW w \in Workers, Readd(w) PROVE TaskInv'
  <2>1. pc[w] = "readd" /\ ft[w] # NoTask /\ tasks' = Append(tasks, FiberTask(Runner(w), None))
    BY <1>3 DEF Readd
  <2>2. Runner(w) # None
    BY <2>1, SchedulerAssumption DEF Runner, AllFibers
  <2>3. \A i \in DOMAIN tasks' : IsTask(tasks'[i])
    BY <2>1, <2>2 DEF FiberTask, TypeOK
  <2> QED
    BY <1>3, <2>3 DEF Readd, Goto, TypeOK
<1>4. ASSUME NEW w \in Workers, Hold(w) PROVE TaskInv'
  BY <1>4 DEF Hold, Goto, TypeOK
<1>5. ASSUME NEW e, tasks' = Append(tasks, e), IsTask(e), UNCHANGED <<pc, ft>> PROVE TaskInv'
  BY <1>5 DEF TypeOK
<1>6. ASSUME NEW x \in Fibers \cup Funs, AddTask(x) PROVE TaskInv'
  <2>1. x # None
    BY SchedulerAssumption DEF AllFibers
  <2>2. IsTask(FiberTask(x, Target[x])) /\ IsTask(FuncTask(x, Target[x]))
    BY <2>1 DEF FiberTask, FuncTask
  <2> QED
    BY <1>5, <1>6, <2>2 DEF AddTask, Push
<1>7. ASSUME NEW f \in Fibers, Resume(f) PROVE TaskInv'
  <2>1. f # None
    BY SchedulerAssumption DEF AllFibers
  <2>2. IsTask(FiberTask(f, None))
    BY <2>1 DEF FiberTask
  <2> QED
    BY <1>5, <1>7, <2>2 DEF Resume, Push
<1>8. CASE UNCHANGED <<tasks, ft, added>>
  <2>1. \A u \in Workers :
          /\ pc'[u] = "scan" => pc[u] = "scan" \/ ft[u] = NoTask
          /\ pc'[u] \in {"switch", "run", "out", "after", "readd", "hold"} => ft[u] # NoTask
    BY <1>8 DEF Next, WorkerStep, MainStep, fiberVars, threadVars, runVars, mainVars, userVars, Goto,
      TypeOK, NoTask, Enters,
      ThreadBegins, ThreadSignals, Loop, Scan, Take, TakeNothing, Tickle, Dispatch, DispatchFiber,
      DispatchFunc, DispatchIdle, Switch, Crash, Finish, Out, After, Readd, Hold, ResetCb, IdleTest,
      IdleWait, IdleOut, End, Yield, Spurious, StartThread, StopDelete, StartNext, StartEnds, StopCount,
      StopNotify, StopNotified, StopEnds, StopSet, AddTask, Resume
  <2> QED
    BY <1>8, <2>1
<1> QED
  BY <1>1, <1>2, <1>3, <1>4, <1>6, <1>7, <1>8, TaskFrame

LEMMA AddedStep ==
  ASSUME TypeOK, AddedInv, Next
  PROVE  AddedInv'
<1> USE DEF AddedInv
<1>0. None \notin Fibers /\ tasks \in Seq(Entries) /\ ft \in [Workers -> Entries]
  BY SchedulerAssumption DEF AllFibers, TypeOK
<1>1. ASSUME NEW w \in Workers, Loop(w) \/ Hold(w) PROVE AddedInv'
  BY <1>0, <1>1 DEF Loop, Hold, NoTask, userVars
<1>2. ASSUME NEW w \in Workers, Scan(w) PROVE AddedInv'
  <2>1. CASE Take(w)
    <3>1. pc[w] = "scan" /\ UNCHANGED added
      BY <1>2 DEF Scan, userVars
    <3>2. PICK i \in 1 .. Len(tasks) :
             /\ ft' = [ft EXCEPT ![w] = tasks[i]]
             /\ DOMAIN tasks' = 1 .. Len(tasks) - 1
             /\ \A j \in 1 .. Len(tasks) - 1 : tasks'[j] = IF j < i THEN tasks[j] ELSE tasks[j + 1]
      BY <2>1, <3>1, TakeMoves
    <3>3. DOMAIN tasks = 1 .. Len(tasks) /\ Len(tasks) \in Nat
      BY <1>0
    <3>4. \A j \in DOMAIN tasks' : tasks'[j].fib \in Fibers => tasks'[j].fib \in added
      BY <3>2, <3>3
    <3> QED
      BY <1>0, <3>1, <3>2, <3>3, <3>4
  <2> QED
    BY <1>2, <2>1 DEF Scan, TakeNothing, userVars
<1>3. ASSUME NEW w \in Workers, Readd(w) PROVE AddedInv'
  <2>1. tasks' = Append(tasks, FiberTask(Runner(w), None)) /\ UNCHANGED added
    BY <1>3 DEF Readd, userVars
  <2>2. Runner(w) \in Fibers => Runner(w) \in added
    BY SchedulerAssumption DEF Runner
  <2>3. \A i \in DOMAIN tasks' : tasks'[i].fib \in Fibers => tasks'[i].fib \in added'
    BY <1>0, <2>1, <2>2 DEF FiberTask
  <2> QED
    BY <1>0, <1>3, <2>1, <2>3 DEF Readd, NoTask
<1>4. ASSUME NEW x \in Fibers \cup Funs, AddTask(x) PROVE AddedInv'
  <2>1. ft' = ft /\ added' = added \cup {x}
    BY <1>4 DEF AddTask
  <2>2. PICK e : tasks' = Append(tasks, e) /\ (e.fib \in Fibers => e.fib = x)
    BY <1>0, <1>4 DEF AddTask, Push, FiberTask, FuncTask
  <2>3. \A i \in DOMAIN tasks' : tasks'[i].fib \in Fibers => tasks'[i].fib \in added'
    BY <1>0, <2>1, <2>2
  <2> QED
    BY <2>1, <2>3
<1>5. ASSUME NEW f \in Fibers, Resume(f) PROVE AddedInv'
  <2>1. ft' = ft /\ added' = added /\ f \in added /\ tasks' = Append(tasks, FiberTask(f, None))
    BY <1>5 DEF Resume, Push
  <2>2. \A i \in DOMAIN tasks' : tasks'[i].fib \in Fibers => tasks'[i].fib \in added
    BY <1>0, <2>1 DEF FiberTask
  <2> QED
    BY <2>1, <2>2
<1> QED
  BY <1>1, <1>2, <1>3, <1>4, <1>5, TaskFrame

\* Dropping what is in a thread's hands, or appending a fibre that is neither
\* in the list nor in the hands of a thread.
LEMMA PlaceDropped ==
  ASSUME TypeOK, FiberInOnePlace, NEW w \in Workers, tasks' = tasks, ft' = [ft EXCEPT ![w] = NoTask]
  PROVE  FiberInOnePlace'
BY SchedulerAssumption DEF FiberInOnePlace, TypeOK, NoTask, AllFibers

LEMMA PlaceAppended ==
  ASSUME TypeOK, FiberInOnePlace, NEW e, tasks' = Append(tasks, e),
         \A i \in DOMAIN tasks : e.fib \in Fibers => tasks[i].fib # e.fib,
         \A u \in Workers : e.fib \in Fibers => ft'[u].fib # e.fib,
         \A u \in Workers : ft'[u].fib \in Fibers => ft'[u].fib = ft[u].fib
  PROVE  FiberInOnePlace'
<1>1. tasks \in Seq(Entries)
  BY DEF TypeOK
<1>2. DOMAIN tasks' = 1 .. Len(tasks) + 1 /\ DOMAIN tasks = 1 .. Len(tasks) /\ Len(tasks) \in Nat
  BY <1>1
<1>3. \A i \in DOMAIN tasks' : tasks'[i] = IF i = Len(tasks) + 1 THEN e ELSE tasks[i]
  BY <1>1
<1>4. ASSUME NEW f \in Fibers, NEW i \in DOMAIN tasks', NEW j \in DOMAIN tasks', tasks'[i].fib = f, tasks'[j].fib = f
      PROVE  i = j
  BY <1>2, <1>3, <1>4 DEF FiberInOnePlace
<1>5. ASSUME NEW f \in Fibers, NEW w \in Workers, NEW u \in Workers, ft'[w].fib = f, ft'[u].fib = f
      PROVE  w = u
  BY <1>5 DEF FiberInOnePlace
<1>6. ASSUME NEW f \in Fibers, NEW i \in DOMAIN tasks', NEW w \in Workers, tasks'[i].fib = f
      PROVE  ft'[w].fib # f
  BY <1>2, <1>3, <1>6 DEF FiberInOnePlace
<1> QED
  BY <1>4, <1>5, <1>6 DEF FiberInOnePlace

LEMMA PlaceStep ==
  ASSUME TypeOK, TaskInv, AddedInv, FiberInOnePlace, Next
  PROVE  FiberInOnePlace'
<1>0. None \notin Fibers /\ tasks \in Seq(Entries) /\ ft \in [Workers -> Entries]
  BY SchedulerAssumption DEF AllFibers, TypeOK
<1>1. ASSUME NEW w \in Workers, Loop(w) \/ Hold(w) PROVE FiberInOnePlace'
  BY <1>1, PlaceDropped DEF Loop, Hold
<1>2. ASSUME NEW w \in Workers, Scan(w) PROVE FiberInOnePlace'
  <2>1. CASE Take(w)
    <3>1. pc[w] = "scan" /\ ft[w] = NoTask
      BY <1>2 DEF Scan, TaskInv
    <3>2. PICK i \in 1 .. Len(tasks) :
             /\ ft' = [ft EXCEPT ![w] = tasks[i]]
             /\ DOMAIN tasks' = 1 .. Len(tasks) - 1
             /\ \A j \in 1 .. Len(tasks) - 1 : tasks'[j] = IF j < i THEN tasks[j] ELSE tasks[j + 1]
      BY <2>1, <3>1, TakeMoves
    <3>3. DOMAIN tasks = 1 .. Len(tasks) /\ Len(tasks) \in Nat
      BY <1>0
    <3> DEFINE old(j) == IF j < i THEN j ELSE j + 1
    <3>4. \A j \in DOMAIN tasks' : old(j) \in DOMAIN tasks /\ old(j) # i /\ tasks'[j] = tasks[old(j)]
      BY <3>2, <3>3
    <3>5. \A j, k \in DOMAIN tasks' : old(j) = old(k) => j = k
      BY <3>2, <3>3
    <3>6. ft'[w] = tasks[i] /\ \A u \in Workers \ {w} : ft'[u] = ft[u]
      BY <1>0, <3>2
    <3> HIDE DEF old
    <3>7. i \in DOMAIN tasks
      BY <3>3
    <3> QED
      BY <3>4, <3>5, <3>6, <3>7 DEF FiberInOnePlace
  <2> QED
    BY <1>2, <2>1 DEF Scan, TakeNothing, FiberInOnePlace
<1>3. ASSUME NEW w \in Workers, Readd(w) PROVE FiberInOnePlace'
  <2> DEFINE e == FiberTask(Runner(w), None)
  <2>1. tasks' = Append(tasks, e) /\ ft' = [ft EXCEPT ![w] = NoTask]
    BY <1>3 DEF Readd
  <2>2. e.fib \in Fibers => ft[w].fib = e.fib
    BY SchedulerAssumption DEF FiberTask, Runner
  <2>3. \A u \in Workers : ft'[u].fib \in Fibers => u # w /\ ft'[u] = ft[u]
    BY <1>0, <2>1 DEF NoTask
  <2> HIDE DEF e
  <2>4. /\ \A i \in DOMAIN tasks : e.fib \in Fibers => tasks[i].fib # e.fib
        /\ \A u \in Workers : e.fib \in Fibers => ft'[u].fib # e.fib
    BY <2>2, <2>3 DEF FiberInOnePlace
  <2> QED
    BY <2>1, <2>3, <2>4, PlaceAppended
<1>4. ASSUME NEW x \in Fibers \cup Funs, AddTask(x) PROVE FiberInOnePlace'
  <2>1. ft' = ft /\ x \notin added
    BY <1>4 DEF AddTask
  <2>2. PICK e : tasks' = Append(tasks, e) /\ (e.fib \in Fibers => e.fib = x)
    BY <1>0, <1>4 DEF AddTask, Push, FiberTask, FuncTask
  <2>3. /\ \A i \in DOMAIN tasks : e.fib \in Fibers => tasks[i].fib # e.fib
        /\ \A u \in Workers : e.fib \in Fibers => ft[u].fib # e.fib
    BY <2>1, <2>2 DEF AddedInv
  <2> QED
    BY <2>1, <2>2, <2>3, PlaceAppended
<1>5. ASSUME NEW f \in Fibers, Resume(f) PROVE FiberInOnePlace'
  <2>1. /\ ft' = ft /\ tasks' = Append(tasks, FiberTask(f, None)) /\ FiberTask(f, None).fib = f
        /\ \A u \in Workers : ft[u].fib # f
        /\ \A i \in DOMAIN tasks : tasks[i].fib # f
    BY <1>5 DEF Resume, Push, FiberTask
  <2> QED
    BY <2>1, PlaceAppended
<1>6. CASE UNCHANGED <<tasks, ft, added>>
  BY <1>6 DEF FiberInOnePlace
<1> QED
  BY <1>1, <1>2, <1>3, <1>4, <1>5, <1>6, TaskFrame

----------------------------------------------------------------------------
\* Start() and Stop().

\* Nobody adds a task before the scheduler is up.
LEMMA NoTasksYet ==
  ASSUME TypeOK, TaskInv, MainInv, Next, mainPc \in {"create", "await", "poll"}
  PROVE  tasks' = <<>> /\ \A w \in Workers : ft'[w] = NoTask
<1>1. tasks = <<>> /\ \A w \in Workers : ft[w] = NoTask
  BY DEF MainInv
<1>2. \A w \in Workers : pc[w] \notin {"run", "readd", "hold"}
  BY <1>1 DEF TaskInv
<1>3. ASSUME NEW w \in Workers, Loop(w) \/ Scan(w)
      PROVE  tasks' = <<>> /\ \A u \in Workers : ft'[u] = NoTask
  <2>1. ~ Take(w)
    BY <1>1 DEF Take
  <2> QED
    BY <1>1, <1>3, <2>1 DEF Loop, Scan, TakeNothing, TypeOK
<1>4. ASSUME NEW w \in Workers PROVE ~ (Readd(w) \/ Hold(w))
  BY <1>2 DEF Readd, Hold
<1>5. ~ UserActive
  BY <1>2 DEF UserActive
<1> QED
  BY <1>1, <1>3, <1>4, <1>5, TaskFrame DEF AddTask, Resume

LEMMA MainInvStep ==
  ASSUME TypeOK, TaskInv, MainInv, Next
  PROVE  MainInv'
<1>1. CASE UNCHANGED <<mainPc, newest, stopping>>
  BY <1>1, NoTasksYet DEF MainInv
<1>2. ASSUME NEW w \in Workers, StartThread(w) PROVE MainInv'
  BY <1>2, NoTasksYet DEF StartThread, MainInv
<1>3. CASE StartNext
  BY <1>3, NoTasksYet DEF StartNext, MainInv
<1>4. CASE StartEnds
  BY <1>4 DEF StartEnds, MainInv
<1>5. CASE StopSet \/ StopCount \/ StopNotified \/ StopEnds
  BY <1>5 DEF StopSet, StopCount, StopNotified, StopEnds, MainInv
<1> QED
  BY <1>1, <1>2, <1>3, <1>4, <1>5, MainFrame

----------------------------------------------------------------------------
\* The counters.

LEMMA CountUp ==
  ASSUME NEW S \in SUBSET Workers, NEW w \in Workers, w \notin S
  PROVE  Cardinality(S \cup {w}) = Cardinality(S) + 1
BY SchedulerAssumption, FS_Subset, FS_AddElement

LEMMA CountDown ==
  ASSUME NEW S \in SUBSET Workers, NEW w \in S
  PROVE  Cardinality(S \ {w}) = Cardinality(S) - 1
BY SchedulerAssumption, FS_Subset, FS_RemoveElement

LEMMA CountNat ==
  ASSUME NEW S \in SUBSET Workers
  PROVE  Cardinality(S) \in Nat
BY SchedulerAssumption, FS_Subset, FS_CardinalityType

\* The steps that enter and leave a task or the idle fibre.
LEMMA CountFrame ==
  ASSUME Next, TypeOK, TaskInv
  PROVE  \/ UNCHANGED <<active, idle, ActiveSet, IdleSet>>
         \/ \E w \in Workers : Scan(w) \/ Dispatch(w) \/ After(w) \/ IdleOut(w)
<1> USE DEF ActiveSet, IdleSet, Busy, Idling, NoTask, Goto, TypeOK, TaskInv, runVars
<1>1. ASSUME NEW w \in Workers, Tickle(w) \/ Switch(w) \/ Finish(w) \/ Yield(w) \/ Out(w)
      PROVE  UNCHANGED <<active, idle, ActiveSet, IdleSet>>
  BY <1>1 DEF Tickle, Switch, Finish, Yield, Out
<1>2. ASSUME NEW w \in Workers, Loop(w) \/ Readd(w) \/ Hold(w) \/ ResetCb(w) \/ IdleTest(w) \/ IdleWait(w) \/ End(w)
      PROVE  UNCHANGED <<active, idle, ActiveSet, IdleSet>>
  BY <1>2 DEF Loop, Readd, Hold, ResetCb, IdleTest, IdleWait, End
<1>3. ASSUME NEW w \in Workers, ThreadSignals(w) PROVE UNCHANGED <<active, idle, ActiveSet, IdleSet>>
  BY <1>3 DEF ThreadSignals
<1>4. CASE UNCHANGED <<active, idle, pc, ft>>
  BY <1>4
<1> QED
  BY <1>1, <1>2, <1>3, <1>4 DEF Next, WorkerStep, MainStep, ThreadBegins, Crash, Spurious, StartThread,
    StopDelete, StartNext, StartEnds, StopCount, StopNotify, StopNotified, StopEnds, StopSet, AddTask, Resume

LEMMA CountsStep ==
  ASSUME TypeOK, TaskInv, CountsExact, Next
  PROVE  CountsExact'
<1>0. /\ active = Cardinality(ActiveSet) /\ idle = Cardinality(IdleSet)
      /\ ActiveSet \in SUBSET Workers /\ IdleSet \in SUBSET Workers
      /\ CountsExact' <=> active' = Cardinality(ActiveSet') /\ idle' = Cardinality(IdleSet')
  BY DEF CountsExact, ActiveSet, IdleSet, Busy, Idling
<1> USE DEF Goto, TypeOK
<1>1. ASSUME NEW w \in Workers, Scan(w) PROVE CountsExact'
  <2>1. w \notin ActiveSet /\ ft[w] = NoTask /\ idle' = idle
    BY <1>1 DEF Scan, TaskInv, ActiveSet
  <2>2. IdleSet' = IdleSet
    BY <1>1 DEF Scan, Take, TakeNothing, IdleSet, Idling
  <2>3. CASE Take(w)
    <3>1. active' = active + 1 /\ pc[w] = "scan"
      BY <1>1, <2>3 DEF Take, Scan
    <3>2. PICK i \in DOMAIN tasks : ft' = [ft EXCEPT ![w] = tasks[i]]
      BY <2>3 DEF Take
    <3>3. tasks[i] # NoTask
      BY <3>2 DEF TaskInv, IsTask, NoTask
    <3>4. ActiveSet' = ActiveSet \cup {w}
      BY <2>3, <3>1, <3>2, <3>3 DEF Take, ActiveSet, Busy
    <3> QED
      BY <1>0, <2>1, <2>2, <3>1, <3>4, CountUp
  <2>4. CASE TakeNothing(w)
    <3>1. ActiveSet' = ActiveSet /\ active' = active
      BY <1>1, <2>1, <2>4 DEF TakeNothing, Scan, ActiveSet, Busy
    <3> QED
      BY <1>0, <2>1, <2>2, <3>1
  <2> QED
    BY <1>1, <2>3, <2>4 DEF Scan
<1>2. ASSUME NEW w \in Workers, Dispatch(w) PROVE CountsExact'
  <2>0. pc[w] = "dispatch" /\ ft' = ft
    BY <1>2 DEF Dispatch
  <2>1. CASE DispatchIdle(w)
    <3>1. ft[w] = NoTask /\ idle' = idle + 1 /\ active' = active /\ pc' = [pc EXCEPT ![w] = "idleTest"]
      BY <2>1 DEF DispatchIdle
    <3>2. ActiveSet' = ActiveSet /\ IdleSet' = IdleSet \cup {w} /\ w \notin IdleSet
      BY <2>0, <3>1 DEF ActiveSet, IdleSet, Busy, Idling
    <3> QED
      BY <1>0, <3>1, <3>2, CountUp
  <2>2. CASE (DispatchFiber(w) \/ DispatchFunc(w)) /\ idle' = idle
    <3>1. w \in ActiveSet
      BY <2>0, <2>2 DEF ActiveSet, Busy, DispatchFiber, DispatchFunc, NoTask
    <3>2. IdleSet' = IdleSet
      BY <2>0, <2>2 DEF IdleSet, Idling, DispatchFiber, DispatchFunc, Enters
    <3>3. CASE active' = active - 1 /\ pc' = [pc EXCEPT ![w] = "loop"]
      <4>1. ActiveSet' = ActiveSet \ {w}
        BY <2>0, <3>3 DEF ActiveSet, Busy
      <4> QED
        BY <1>0, <2>2, <3>1, <3>2, <3>3, <4>1, CountDown
    <3>4. CASE active' = active /\ pc' \in {[pc EXCEPT ![w] = l] : l \in {"switch", "after"}}
      <4>1. ActiveSet' = ActiveSet
        BY <2>0, <3>1, <3>4 DEF ActiveSet, Busy
      <4> QED
        BY <1>0, <2>2, <3>2, <3>4, <4>1
    <3> QED
      BY <2>2, <3>3, <3>4 DEF DispatchFiber, DispatchFunc, Enters
  <2> QED
    BY <1>2, <2>1, <2>2 DEF Dispatch
<1>3. ASSUME NEW w \in Workers, After(w) PROVE CountsExact'
  <2>1. w \in ActiveSet /\ active' = active - 1 /\ UNCHANGED <<idle, ft>>
    BY <1>3 DEF After, ActiveSet, Busy, TaskInv
  <2>2. PICK l \in {"readd", "reset", "loop", "hold"} : pc' = [pc EXCEPT ![w] = l]
    BY <1>3 DEF After
  <2>3. ActiveSet' = ActiveSet \ {w} /\ IdleSet' = IdleSet
    BY <1>3, <2>1, <2>2 DEF After, ActiveSet, IdleSet, Busy, Idling
  <2> QED
    BY <1>0, <2>1, <2>3, CountDown
<1>4. ASSUME NEW w \in Workers, IdleOut(w) PROVE CountsExact'
  <2>1. w \in IdleSet /\ idle' = idle - 1 /\ active' = active
    BY <1>4 DEF IdleOut, IdleSet, Idling
  <2>2. ActiveSet' = ActiveSet /\ IdleSet' = IdleSet \ {w}
    BY <1>4 DEF IdleOut, ActiveSet, IdleSet, Busy, Idling
  <2> QED
    BY <1>0, <2>1, <2>2, CountDown
<1> QED
  BY <1>0, <1>1, <1>2, <1>3, <1>4, CountFrame

----------------------------------------------------------------------------
\* Type correctness.

LEMMA FiberTypeStep ==
  ASSUME TypeOK, Next
  PROVE  FiberTypeOK'
<1>1. \A w \in Workers : Runner(w) \in AllFibers /\ w \in AllFibers /\ ft[w].fun \in Funs \cup {None}
  BY DEF Runner, AllFibers, TypeOK, Entries
<1>2. /\ fibState \in [AllFibers -> States] /\ fun \in [AllFibers -> Fibers \cup Funs \cup {None}]
      /\ cur \in [Workers -> AllFibers \cup {None}]
  BY DEF TypeOK, FiberTypeOK
<1>3. ASSUME NEW w \in Workers, Dispatch(w) \/ ResetCb(w) PROVE FiberTypeOK'
  BY <1>1, <1>2, <1>3 DEF Dispatch, DispatchFiber, DispatchFunc, DispatchIdle, ResetCb, Reset, fiberVars,
    FiberTypeOK, States
<1>4. ASSUME NEW w \in Workers, Switch(w) \/ Finish(w) \/ Yield(w) \/ Out(w) \/ Hold(w) \/ End(w) PROVE FiberTypeOK'
  BY <1>1, <1>2, <1>4 DEF Switch, SwapIn, Finish, Yield, Leave, Out, SwapOut, Hold, End, FiberTypeOK, States
<1>5. CASE UNCHANGED fiberVars
  BY <1>2, <1>5 DEF fiberVars, FiberTypeOK
<1> QED
  BY <1>3, <1>4, <1>5 DEF Next, WorkerStep, MainStep, ThreadBegins, ThreadSignals, Loop, Scan, Tickle,
    Crash, After, Readd, IdleTest, IdleWait, IdleOut, Spurious, StartThread, StopDelete, StartNext,
    StartEnds, StopCount, StopNotify, StopNotified, StopEnds, StopSet, AddTask, Resume

LEMMA ThreadTypeStep ==
  ASSUME TypeOK, ThreadInv, MainInv, Next
  PROVE  ThreadTypeOK'
<1> USE DEF TypeOK, ThreadTypeOK
<1>1. ASSUME NEW w \in Workers, ThreadBegins(w) \/ End(w) \/ StartThread(w) \/ StopDelete(w) PROVE ThreadTypeOK'
  BY <1>1 DEF ThreadBegins, Enter, End, Term, StartThread, Construct, StopDelete, Delete
<1>2. ASSUME NEW w \in Workers, ThreadSignals(w) PROVE ThreadTypeOK'
  BY <1>2 DEF ThreadSignals, Signal, ThreadInv
<1>3. CASE StartNext
  BY <1>3 DEF StartNext, Constructed, MainInv
<1>4. CASE UNCHANGED threadVars
  BY <1>4 DEF threadVars
<1> QED
  BY <1>1, <1>2, <1>3, <1>4, ThreadFrame

LEMMA TaskTypeStep ==
  ASSUME TypeOK, Next
  PROVE  tasks' \in Seq(Entries) /\ ft' \in [Workers -> Entries]
<1>0. tasks \in Seq(Entries) /\ ft \in [Workers -> Entries] /\ NoTask \in Entries
  BY DEF TypeOK, NoTask, Entries
<1>1. ASSUME NEW w \in Workers, Loop(w) \/ Hold(w) PROVE tasks' \in Seq(Entries) /\ ft' \in [Workers -> Entries]
  BY <1>0, <1>1 DEF Loop, Hold
<1>2. ASSUME NEW w \in Workers, Scan(w) PROVE tasks' \in Seq(Entries) /\ ft' \in [Workers -> Entries]
  <2>1. CASE Take(w)
    BY <1>0, <1>2, <2>1, TakeMoves DEF Scan
  <2> QED
    BY <1>0, <1>2, <2>1 DEF Scan, TakeNothing
<1>3. ASSUME NEW w \in Workers, Readd(w) PROVE tasks' \in Seq(Entries) /\ ft' \in [Workers -> Entries]
  <2>1. FiberTask(Runner(w), None) \in Entries
    BY <1>0 DEF FiberTask, Runner, Entries, AllFibers
  <2> QED
    BY <1>0, <1>3, <2>1 DEF Readd
<1>4. ASSUME NEW x \in Fibers \cup Funs, AddTask(x) PROVE tasks' \in Seq(Entries) /\ ft' \in [Workers -> Entries]
  <2>1. (IF x \in Fibers THEN FiberTask(x, Target[x]) ELSE FuncTask(x, Target[x])) \in Entries
    BY SchedulerAssumption DEF FiberTask, FuncTask, Entries, AllFibers
  <2> QED
    BY <1>0, <1>4, <2>1 DEF AddTask, Push
<1>5. ASSUME NEW f \in Fibers, Resume(f) PROVE tasks' \in Seq(Entries) /\ ft' \in [Workers -> Entries]
  <2>1. FiberTask(f, None) \in Entries
    BY DEF FiberTask, Entries, AllFibers
  <2> QED
    BY <1>0, <1>5, <2>1 DEF Resume, Push
<1> QED
  BY <1>0, <1>1, <1>2, <1>3, <1>4, <1>5, TaskFrame

PcType ==
  pc \in [Workers -> {"off", "loop", "scan", "tickle", "dispatch", "switch", "run", "out",
                      "after", "readd", "hold", "reset", "idleTest", "idleWait", "asleep"}]

LEMMA PcTypeStep ==
  ASSUME TypeOK, Next
  PROVE  PcType'
<1>0. PcType
  BY DEF TypeOK, PcType
<1>1. ASSUME NEW w \in Workers, ThreadBegins(w) \/ ThreadSignals(w) \/ End(w) \/ StartThread(w) \/ StopDelete(w)
      PROVE  PcType'
  BY <1>0, <1>1 DEF PcType, ThreadBegins, ThreadSignals, End, StartThread, StopDelete, Goto, runVars
<1>2. CASE StartNext \/ UNCHANGED pc
  BY <1>0, <1>2 DEF PcType, StartNext, runVars
<1>3. ASSUME NEW w \in Workers, NEW l \in Busy \cup Idling \cup {"loop", "scan", "readd", "hold", "reset"}, Goto(w, l)
      PROVE  PcType'
  BY <1>0, <1>3 DEF PcType, Goto, Busy, Idling
<1> QED
  BY <1>1, <1>2, <1>3, ThreadFrame

LEMMA TypeStep ==
  ASSUME TypeOK, ThreadInv, MainInv, TaskInv, CountsExact, IdsPublished, Next
  PROVE  TypeOK'
<1>1. active' \in Nat /\ idle' \in Nat
  BY CountsStep, CountNat DEF CountsExact
<1>2. waiting' \in SUBSET Workers
  BY WaitFrame DEF IdleWait, TypeOK
<1>3. ids' \in SUBSET (Workers \cup {NoId})
  BY IdsStep DEF IdsPublished
<1>4. /\ stopping' \in BOOLEAN /\ newest' \in Workers \cup {None}
      /\ mainPc' \in {"create", "await", "poll", "up", "count", "notify", "join", "stopped"}
  BY MainFrame DEF TypeOK, StartThread, StartNext, StartEnds, StopSet, StopCount, StopNotified, StopEnds
<1>5. wakes' \in Nat /\ late' \in SUBSET Workers
  BY DEF Next, WorkerStep, MainStep, mainVars, TypeOK, ThreadBegins, ThreadSignals, Loop, Scan, Take, TakeNothing, Tickle, Dispatch, DispatchFiber,
      DispatchFunc, DispatchIdle, Switch, Crash, Finish, Out, After, Readd, Hold, ResetCb, IdleTest,
      IdleWait, IdleOut, End, Yield, Spurious, StartThread, StopDelete, StartNext, StartEnds, StopCount,
      StopNotify, StopNotified, StopEnds, StopSet, AddTask, Resume
<1>6. yields' \in Nat /\ spurious' \in Nat /\ added' \in SUBSET (Fibers \cup Funs)
  BY DEF Next, WorkerStep, MainStep, userVars, TypeOK, ThreadBegins, ThreadSignals, Loop, Scan, Take, TakeNothing, Tickle, Dispatch, DispatchFiber,
      DispatchFunc, DispatchIdle, Switch, Crash, Finish, Out, After, Readd, Hold, ResetCb, IdleTest,
      IdleWait, IdleOut, End, Yield, Spurious, StartThread, StopDelete, StartNext, StartEnds, StopCount,
      StopNotify, StopNotified, StopEnds, StopSet, AddTask, Resume
<1>7. crashed' \in BOOLEAN /\ missed' \in BOOLEAN
  BY DEF Next, WorkerStep, MainStep, userVars, runVars, TypeOK, Push, ThreadBegins, ThreadSignals, Loop, Scan, Take, TakeNothing, Tickle, Dispatch, DispatchFiber,
      DispatchFunc, DispatchIdle, Switch, Crash, Finish, Out, After, Readd, Hold, ResetCb, IdleTest,
      IdleWait, IdleOut, End, Yield, Spurious, StartThread, StopDelete, StartNext, StartEnds, StopCount,
      StopNotify, StopNotified, StopEnds, StopSet, AddTask, Resume
<1>8. PcType' /\ FiberTypeOK' /\ ThreadTypeOK' /\ tasks' \in Seq(Entries) /\ ft' \in [Workers -> Entries]
  BY PcTypeStep, FiberTypeStep, ThreadTypeStep, TaskTypeStep
<1> QED
  BY <1>1, <1>2, <1>3, <1>4, <1>5, <1>6, <1>7, <1>8 DEF TypeOK, PcType

----------------------------------------------------------------------------
\* A task for anybody and the threads that will look for it.

\* AddTask() wakes a thread or finds one awake, or else has missed one.
LEMMA PushWakes ==
  ASSUME TypeOK, ThreadInv, WaitInv, NEW e, Push(e), UNCHANGED <<thState, pc, ft>>, ~ missed'
  PROVE  \E w \in Workers : Awake(w)'
<1>1. CASE waiting = {}
  BY <1>1 DEF Push, Notify, Awake
<1>2. CASE waiting # {}
  <2>1. PICK w \in waiting : waiting' = waiting \ {w}
    BY <1>2 DEF Push, Notify
  <2>2. w \in Workers /\ pc[w] = "asleep" /\ thState[w] = "EXEC"
    BY DEF WaitInv, ThreadInv, TypeOK
  <2> QED
    BY <2>1, <2>2 DEF Awake
<1> QED
  BY <1>1, <1>2

\* What is left to a thread that found nothing to take is being executed.
LEMMA NothingIsExecuted ==
  ASSUME TypeOK, TaskInv, RunInv, ThreadInv, WaitInv, NEW w \in Workers, Scan(w), TakeNothing(w),
         \E i \in DOMAIN tasks : tasks[i].th = None
  PROVE  \E u \in Workers : Awake(u)'
<1>1. PICK i \in DOMAIN tasks : tasks[i].th = None
  OBVIOUS
<1>2. Executing(tasks[i])
  BY <1>1 DEF TakeNothing, Candidates, ForOthers
<1>3. tasks[i].fib \in AllFibers /\ fibState[tasks[i].fib] = "EXEC"
  <2>1. tasks[i] \in Entries
    BY DEF TypeOK
  <2> QED
    BY <1>2, <2>1 DEF Executing, Entries
<1>4. PICK u \in Workers : pc[u] = "run"
  BY <1>3 DEF RunInv
<1>5. u # w /\ thState[u] = "EXEC" /\ u \notin waiting
  BY <1>4 DEF Scan, ThreadInv, WaitInv
<1> QED
  BY <1>4, <1>5 DEF Awake, Scan, TakeNothing, Goto, TypeOK, threadVars

\* A thread that is awake stays awake, or looks at the list first.
LEMMA StaysAwake ==
  ASSUME TypeOK, TaskInv, ThreadInv, WaitInv, NEW v \in Workers, Awake(v), Next, ~ stopping
  PROVE  Awake(v)' \/ (Scan(v) /\ TakeNothing(v))
<1>1. /\ thState \in [Workers -> {"none", "INIT", "EXEC", "TERM", "deleted"}]
      /\ \A w \in Workers : pc' = [pc EXCEPT ![w] = pc'[w]] => \A u \in Workers \ {w} : pc'[u] = pc[u]
  BY DEF TypeOK, ThreadTypeOK
<1>2. v \notin waiting'
  BY WaitFrame DEF IdleWait, Awake
<1>3. thState'[v] = "EXEC"
  BY <1>1, ThreadFrame DEF Awake, ThreadBegins, Enter, ThreadSignals, Signal, End, StartThread, Construct,
    StopDelete, Delete, StartNext, Constructed, threadVars
<1>4. ASSUME NEW w \in Workers, Scan(w), Take(w) PROVE Awake(v)'
  <2>0. PICK i \in DOMAIN tasks : ft' = [ft EXCEPT ![w] = tasks[i]]
    BY <1>4 DEF Take
  <2>1. tasks[i] # NoTask
    BY <2>0 DEF TaskInv, IsTask, NoTask
  <2>2. pc' \in {[pc EXCEPT ![w] = "tickle"], [pc EXCEPT ![w] = "dispatch"]} /\ pc[w] = "scan"
    BY <1>4 DEF Take, Scan, Goto
  <2> QED
    BY <1>2, <1>3, <2>0, <2>1, <2>2 DEF Awake, TypeOK
<1>5. ASSUME NEW w \in Workers, Scan(w), TakeNothing(w), w # v PROVE Awake(v)'
  BY <1>2, <1>3, <1>5 DEF Awake, TypeOK, TakeNothing, Goto
<1>6. ASSUME NEW w \in Workers, ~ Scan(w), WorkerStep(w) \/ Yield(w) \/ Spurious(w) PROVE Awake(v)'
  BY <1>2, <1>3, <1>6 DEF Awake, TypeOK, Goto, WorkerStep, runVars, Enters, NoTask,
    ThreadBegins, ThreadSignals, Loop, Tickle, Dispatch, DispatchFiber, DispatchFunc, DispatchIdle, Switch,
    Crash, Finish, Out, After, Readd, Hold, ResetCb, IdleTest, IdleWait, IdleOut, End, Yield, Spurious
<1>7. CASE UNCHANGED <<pc, ft>>
  BY <1>2, <1>3, <1>7 DEF Awake
<1> QED
  BY <1>4, <1>5, <1>6, <1>7 DEF Next, MainStep, runVars, Scan, WorkerStep, StartThread, StopDelete, StartNext,
    StartEnds, StopCount, StopNotify, StopNotified, StopEnds, StopSet, AddTask, Resume

LEMMA StrandStep ==
  ASSUME TypeOK, ThreadInv, TaskInv, RunInv, WaitInv, MainInv, OnlyTheRaceStrands, Next
  PROVE  OnlyTheRaceStrands'
<1> SUFFICES ASSUME NEW k \in DOMAIN tasks', tasks'[k].th = None, mainPc' = "up", ~ missed'
             PROVE  \E w \in Workers : Awake(w)'
  BY DEF OnlyTheRaceStrands
<1>1. ASSUME NEW x \in Fibers \cup Funs, AddTask(x) PROVE \E w \in Workers : Awake(w)'
  BY <1>1, PushWakes DEF AddTask, threadVars
<1>2. ASSUME NEW f \in Fibers, Resume(f) PROVE \E w \in Workers : Awake(w)'
  BY <1>2, PushWakes DEF Resume, threadVars
<1>3. ASSUME NEW w \in Workers, Readd(w) PROVE \E u \in Workers : Awake(u)'
  <2>1. pc[w] = "readd" /\ thState[w] = "EXEC" /\ w \notin waiting
    BY <1>3 DEF Readd, ThreadInv, WaitInv
  <2> QED
    BY <1>3, <2>1 DEF Readd, Goto, Notify, Awake, TypeOK, threadVars
<1>4. CASE StartEnds
  <2>1. tasks' = <<>>
    BY <1>4, NoTasksYet DEF StartEnds
  <2> QED
    BY <2>1
<1>5. CASE ~ StartEnds /\ (\A x \in Fibers \cup Funs : ~ AddTask(x)) /\ (\A f \in Fibers : ~ Resume(f))
           /\ \A w \in Workers : ~ Readd(w)
  <2>1. mainPc = "up" /\ ~ stopping
    BY <1>5, MainFrame DEF StartThread, StartNext, StopSet, StopCount, StopNotified, StopEnds, MainInv
  <2>2. ~ missed
    BY <1>5 DEF Next, WorkerStep, MainStep, userVars, ThreadBegins, ThreadSignals, Loop, Scan, Tickle,
      Dispatch, Switch, Crash, Finish, Out, After, Hold, ResetCb, IdleTest, IdleWait, IdleOut, End, Yield,
      Spurious, StartThread, StopDelete, StartNext, StopCount, StopNotify, StopNotified, StopEnds, StopSet
  <2>3. \E i \in DOMAIN tasks : tasks[i].th = None
    <3>1. CASE UNCHANGED tasks
      BY <3>1
    <3>2. ASSUME NEW w \in Workers, Scan(w) PROVE \E i \in DOMAIN tasks : tasks[i].th = None
      <4>1. CASE Take(w)
        <5>1. PICK i \in 1 .. Len(tasks) :
                 /\ DOMAIN tasks' = 1 .. Len(tasks) - 1
                 /\ \A j \in 1 .. Len(tasks) - 1 : tasks'[j] = IF j < i THEN tasks[j] ELSE tasks[j + 1]
          BY <3>2, <4>1, TakeMoves DEF Scan
        <5>2. DOMAIN tasks = 1 .. Len(tasks) /\ Len(tasks) \in Nat
          BY DEF TypeOK
        <5>3. k \in DOMAIN tasks /\ k + 1 \in DOMAIN tasks /\ tasks'[k] \in {tasks[k], tasks[k + 1]}
          BY <5>1, <5>2
        <5> QED
          BY <5>3
      <4> QED
        BY <3>2, <4>1 DEF Scan, TakeNothing
    <3> QED
      BY <1>5, <3>1, <3>2, TaskFrame DEF Loop, Hold
  <2>4. PICK v \in Workers : Awake(v)
    BY <2>1, <2>2, <2>3 DEF OnlyTheRaceStrands
  <2> QED
    BY <2>1, <2>3, <2>4, StaysAwake, NothingIsExecuted
<1> QED
  BY <1>1, <1>2, <1>3, <1>4, <1>5

----------------------------------------------------------------------------
\* The theorems.

LEMMA InitInv ==
  ASSUME Init
  PROVE  Inv
<1> USE DEF Init, FiberInit, ThreadInit
<1>1. TypeOK
  <2>1. FiberTypeOK /\ ThreadTypeOK
    BY DEF FiberTypeOK, ThreadTypeOK, States, AllFibers
  <2>2. tasks \in Seq(Entries) /\ ft \in [Workers -> Entries]
    BY DEF NoTask, Entries
  <2> QED
    BY <2>1, <2>2, SchedulerAssumption DEF TypeOK
<1>2. CountsExact
  <2>1. {w \in Workers : ft[w] # NoTask /\ pc[w] \in Busy} = {} /\ {w \in Workers : pc[w] \in Idling} = {}
    BY DEF Busy, Idling
  <2> QED
    BY <2>1, FS_EmptySet DEF CountsExact, Busy, Idling
<1>3. AddedInv /\ FiberInOnePlace
  BY SchedulerAssumption DEF AddedInv, FiberInOnePlace, NoTask, AllFibers
<1> QED
  BY <1>1, <1>2, <1>3 DEF Inv, ThreadInv, IdsPublished, TaskInv, RunInv, WaitInv, MainInv, OnlyTheRaceStrands

LEMMA NextInv ==
  ASSUME Inv, [Next]_vars
  PROVE  Inv'
<1>1. CASE Next
  BY <1>1, TypeStep, ThreadStep, IdsStep, TaskStep, CountsStep, AddedStep, PlaceStep, RunStep, WaitStep,
    MainInvStep, StrandStep DEF Inv
<1>2. CASE UNCHANGED vars
  BY <1>2 DEF Inv, vars, fiberVars, threadVars, runVars, mainVars, userVars, TypeOK, FiberTypeOK,
    ThreadTypeOK, ThreadInv, IdsPublished, TaskInv, CountsExact, AddedInv, FiberInOnePlace, RunInv, WaitInv,
    MainInv, OnlyTheRaceStrands, Awake
<1> QED
  BY <1>1, <1>2

LEMMA Invariant == Spec => []Inv
BY InitInv, NextInv, PTL DEF Spec, SafeSpec

\* The state of the scheduler, of its threads and fibres is well typed: the
\* counts, which the code changes outside of the mutex, never go below zero, and
\* the semaphore of a thread is signalled once.
THEOREM TypeCorrect == Spec => []TypeOK
<1>1. Inv => TypeOK
  BY DEF Inv
<1> QED
  BY <1>1, Invariant, PTL

\* Start() collects the id of a thread only after the thread wrote it, although
\* neither writes or reads it under a lock.
THEOREM IdsArePublished == Spec => []IdsPublished
<1>1. Inv => IdsPublished
  BY DEF Inv
<1> QED
  BY <1>1, Invariant, PTL

\* A user's fibre is in the list once or in the hands of one thread, however
\* the threads race for the list and whatever yields.
THEOREM OnePlace == Spec => []FiberInOnePlace
<1>1. Inv => FiberInOnePlace
  BY DEF Inv
<1> QED
  BY <1>1, Invariant, PTL

\* The counts of active and idle threads by which Start() and Stop() decide
\* are exact in every reachable state, on each of the paths of Run().
THEOREM CountsAreExact == Spec => []CountsExact
<1>1. Inv => CountsExact
  BY DEF Inv
<1> QED
  BY <1>1, Invariant, PTL

\* The race between the test of the list and the wait is the only way to leave
\* a task for anybody to threads that all sleep.
THEOREM NoOtherRaceStrands == Spec => []OnlyTheRaceStrands
<1>1. Inv => OnlyTheRaceStrands
  BY DEF Inv
<1> QED
  BY <1>1, Invariant, PTL
=============================================================================
