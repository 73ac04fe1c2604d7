----------------------------- MODULE Scheduler -----------------------------
(***************************************************************************)
(* gdres::Scheduler (fiber/scheduler.h, scheduler.cpp): N threads run the  *)
(* fibres and functions of one task list.                                  *)
(*                                                                         *)
(* mainPc   create   in Start(), before the next thread                    *)
(*          await    in the constructor of the thread `newest`             *)
(*          poll     in Start(), until all threads are idle                *)
(*          up       between Start() and Stop()                            *)
(*          count    in Stop(), m_stopping set                             *)
(*          notify   in Stop(), `wakes` notifications to go                *)
(*          join     in Stop(), deleting the threads                       *)
(*          stopped                                                        *)
(* pc       off      outside Run()                                         *)
(*          loop, scan, tickle, dispatch    Run() up to SwapIn()           *)
(*          switch   in SwapIn(), past its test                            *)
(*          run      on the stack of cur[w], which may give up the thread  *)
(*          out      the fibre changed its state, before the switch        *)
(*          after, readd, hold, reset       Run() after SwapIn()           *)
(*          idleTest, idleWait, asleep      the idle fibre                 *)
(*                                                                         *)
(* The idle fibre never leaves its thread, so its state is pc.  A section  *)
(* under m_mutex is one step.  The use of the caller's thread (useCaller)  *)
(* is not modelled.                                                        *)
(***************************************************************************)
EXTENDS Integers, Sequences, FiniteSets

CONSTANTS
  Workers,     \* the threads
  Fibers, Funs, None, NoId,
  Target,      \* the thread a task is meant for, or None
  Yielders,    \* the fibres and functions that may yield
  MaxYields, MaxSpurious

VARIABLES
  fibState, fun, cur, thState, id, sem,
  tasks, pc, ft, waiting, active, idle, stopping, mainPc, newest, ids, wakes, crashed,
  added,            \* the user's tasks that were added
  yields, spurious, \* what is left of the bounds
  missed,           \* the last AddTask() found nobody waiting and nobody awake
  late              \* threads between the test in Idle() and the wait when Stop() began

INSTANCE Fiber
INSTANCE WThread

ASSUME SchedulerAssumption ==
  /\ IsFiniteSet(Workers)
  /\ Fibers \cap Workers = {} /\ Fibers \cap Funs = {}
  /\ None \notin AllFibers \cup Funs
  /\ NoId \notin Workers /\ MaxYields \in Nat /\ MaxSpurious \in Nat
  /\ Target \in [Fibers \cup Funs -> Workers \cup {None}]

fiberVars == <<fibState, fun, cur>>
threadVars == <<thState, id, sem>>
runVars == <<tasks, pc, ft, waiting, active, idle, crashed>>
mainVars == <<stopping, mainPc, newest, ids, wakes, late>>
userVars == <<added, yields, spurious, missed>>
vars == <<fiberVars, threadVars, runVars, mainVars, userVars>>

NoTask == [th |-> None, fib |-> None, fun |-> None]
FiberTask(f, t) == [th |-> t, fib |-> f, fun |-> None]
FuncTask(g, t) == [th |-> t, fib |-> None, fun |-> g]

Init ==
  /\ FiberInit /\ ThreadInit
  /\ tasks = <<>> /\ waiting = {} /\ active = 0 /\ idle = 0
  /\ pc = [w \in Workers |-> "off"] /\ ft = [w \in Workers |-> NoTask]
  /\ stopping = FALSE /\ mainPc = "create" /\ newest = None /\ ids = {} /\ wakes = 0
  /\ crashed = FALSE
  /\ added = {} /\ yields = MaxYields /\ spurious = MaxSpurious
  /\ missed = FALSE /\ late = {}

Goto(w, l) == pc' = [pc EXCEPT ![w] = l]

\* notify_one()
Notify ==
  \/ waiting = {} /\ UNCHANGED waiting
  \/ \E w \in waiting : waiting' = waiting \ {w}

\* A thread that will look at the list again before it waits.
Awake(w) ==
  /\ thState[w] = "EXEC"
  /\ pc[w] \notin {"idleTest", "idleWait"}
  /\ ~ (pc[w] \in {"tickle", "dispatch"} /\ ft[w] = NoTask)
  /\ w \notin waiting

----------------------------------------------------------------------------
\* Run(): taking a task.

\* The test of m_stopping.  The end of Run() deletes cbFiber, and the thread ends.
Loop(w) ==
  /\ pc[w] = "loop" /\ ~ stopping
  /\ ft' = [ft EXCEPT ![w] = NoTask]
  /\ Goto(w, "scan")
  /\ UNCHANGED <<fiberVars, threadVars, tasks, waiting, active, idle, crashed, mainVars, userVars>>

End(w) ==
  /\ pc[w] = "loop" /\ stopping
  /\ fibState' = [fibState EXCEPT ![w] = "FREED"]
  /\ Term(w)
  /\ Goto(w, "off")
  /\ UNCHANGED <<fun, cur, tasks, ft, waiting, active, idle, crashed, mainVars, userVars>>

\* The iterator passes over the tasks of other threads and executing fibres.
ForOthers(w, e) == e.th # None /\ e.th # w
Executing(e) == e.fib # None /\ fibState[e.fib] = "EXEC"
Candidates(w) == {i \in DOMAIN tasks : ~ ForOthers(w, tasks[i]) /\ ~ Executing(tasks[i])}
IsFirst(w, i) == i \in Candidates(w) /\ \A j \in Candidates(w) : i <= j

Without(s, i) == [j \in 1 .. Len(s) - 1 |-> IF j < i THEN s[j] ELSE s[j + 1]]

\* A mutant: the task stays in the list.
TakeCopy(w) ==
  \E i \in DOMAIN tasks :
    /\ IsFirst(w, i)
    /\ UNCHANGED tasks
    /\ ft' = [ft EXCEPT ![w] = tasks[i]]
    /\ active' = active + 1
    /\ Goto(w, "dispatch")

Take(w) ==
  \E i \in DOMAIN tasks :
    /\ IsFirst(w, i)
    /\ tasks' = Without(tasks, i)
    /\ ft' = [ft EXCEPT ![w] = tasks[i]]
    /\ active' = active + 1
    /\ Goto(w, IF i < Len(tasks) \/ \E j \in 1 .. i : ForOthers(w, tasks[j])
               THEN "tickle" ELSE "dispatch")


TakeNothing(w) ==
  /\ Candidates(w) = {}
  /\ Goto(w, IF \E j \in DOMAIN tasks : ForOthers(w, tasks[j]) THEN "tickle" ELSE "dispatch")
  /\ UNCHANGED <<tasks, ft, active>>

Scan(w) ==
  /\ pc[w] = "scan"
  /\ Take(w) \/ TakeNothing(w)
  /\ UNCHANGED <<fiberVars, threadVars, waiting, idle, crashed, mainVars, userVars>>

Tickle(w) ==
  /\ pc[w] = "tickle"
  /\ Notify
  /\ Goto(w, "dispatch")
  /\ UNCHANGED <<fiberVars, threadVars, tasks, ft, active, idle, crashed, mainVars, userVars>>

----------------------------------------------------------------------------
\* Run(): executing it.

\* The fibre that executes thread w's task.
Runner(w) == IF ft[w].fib # None THEN ft[w].fib ELSE w

\* The tests of Run() and SwapIn(): a fibre that ended is dropped, one that
\* executes is not swapped in.
Enters(f) == IF fibState[f] = "EXEC" THEN "after" ELSE "switch"

DispatchFiber(w) ==
  /\ ft[w].fib # None
  /\ IF fibState[ft[w].fib] = "TERM"
     THEN active' = active - 1 /\ Goto(w, "loop")
     ELSE Goto(w, Enters(ft[w].fib)) /\ UNCHANGED active
  /\ UNCHANGED fiberVars

DispatchFunc(w) ==
  /\ ft[w].fun # None
  /\ Reset(w, ft[w].fun)
  /\ Goto(w, IF Resettable(w) THEN "switch" ELSE Enters(w))
  /\ UNCHANGED active

\* No task: SwapIn() of the idle fibre.
DispatchIdle(w) ==
  /\ ft[w] = NoTask
  /\ idle' = idle + 1
  /\ Goto(w, "idleTest")
  /\ UNCHANGED <<fiberVars, active>>

Dispatch(w) ==
  /\ pc[w] = "dispatch"
  /\ \/ (DispatchFiber(w) \/ DispatchFunc(w)) /\ UNCHANGED idle
     \/ DispatchIdle(w)
  /\ UNCHANGED <<threadVars, tasks, ft, waiting, crashed, mainVars, userVars>>

Switch(w) ==
  /\ pc[w] = "switch"
  /\ ~ Unusable(Runner(w))
  /\ SwapIn(w, Runner(w))
  /\ Goto(w, "run")
  /\ UNCHANGED <<threadVars, tasks, ft, waiting, active, idle, crashed, mainVars, userVars>>

Crash(w) ==
  /\ pc[w] = "switch"
  /\ Unusable(Runner(w))
  /\ crashed' = TRUE
  /\ UNCHANGED <<fiberVars, threadVars, tasks, pc, ft, waiting, active, idle, mainVars, userVars>>

Finish(w) ==
  /\ pc[w] = "run"
  /\ Leave(w, "TERM")
  /\ Goto(w, "out")
  /\ UNCHANGED <<threadVars, tasks, ft, waiting, active, idle, crashed, mainVars, userVars>>

Yield(w) ==
  /\ pc[w] = "run"
  /\ yields > 0 /\ fun[cur[w]] \in Yielders
  /\ yields' = yields - 1
  /\ Leave(w, "READY") \/ Leave(w, "HOLD")
  /\ Goto(w, "out")
  /\ UNCHANGED <<threadVars, tasks, ft, waiting, active, idle, crashed, mainVars,
                 added, spurious, missed>>

Out(w) ==
  /\ pc[w] = "out"
  /\ SwapOut(w)
  /\ Goto(w, "after")
  /\ UNCHANGED <<threadVars, tasks, ft, waiting, active, idle, crashed, mainVars, userVars>>

\* A mutant: a fibre that will go on still counts as active.
AfterEnded(w) ==
  /\ pc[w] = "after"
  /\ LET s == fibState[Runner(w)] IN
     /\ active' = IF s = "READY" THEN active ELSE active - 1
     /\ Goto(w, IF s = "READY" THEN "readd"
                ELSE IF ft[w].fib = None THEN "reset"
                ELSE IF s = "TERM" THEN "loop" ELSE "hold")
  /\ UNCHANGED <<fiberVars, threadVars, tasks, ft, waiting, idle, crashed, mainVars, userVars>>

After(w) ==
  /\ pc[w] = "after"
  /\ active' = active - 1
  /\ LET s == fibState[Runner(w)] IN
     Goto(w, IF s = "READY" THEN "readd"
             ELSE IF ft[w].fib = None THEN "reset"
             ELSE IF s = "TERM" THEN "loop" ELSE "hold")
  /\ UNCHANGED <<fiberVars, threadVars, tasks, ft, waiting, idle, crashed, mainVars, userVars>>

\* A mutant: a fibre that yielded is kept on hold.
ReaddNever(w) ==
  /\ pc[w] = "readd"
  /\ Goto(w, IF ft[w].fib = None THEN "reset" ELSE "hold")
  /\ UNCHANGED <<fiberVars, threadVars, tasks, ft, waiting, active, idle, crashed, mainVars, userVars>>

\* AddTask(ft.fiber), AddTask(cbFiber): the target thread is forgotten.
Readd(w) ==
  /\ pc[w] = "readd"
  /\ tasks' = Append(tasks, FiberTask(Runner(w), None))
  /\ Notify
  /\ Goto(w, IF ft[w].fib = None THEN "reset" ELSE "loop")
  /\ ft' = [ft EXCEPT ![w] = NoTask]
  /\ UNCHANGED <<fiberVars, threadVars, active, idle, crashed, mainVars, userVars>>

Hold(w) ==
  /\ pc[w] = "hold"
  /\ fibState' = [fibState EXCEPT ![ft[w].fib] = "HOLD"]
  /\ Goto(w, "loop")
  /\ ft' = [ft EXCEPT ![w] = NoTask]
  /\ UNCHANGED <<fun, cur, threadVars, tasks, waiting, active, idle, crashed, mainVars, userVars>>

ResetCb(w) ==
  /\ pc[w] = "reset"
  /\ Reset(w, None)
  /\ Goto(w, "loop")
  /\ UNCHANGED <<threadVars, tasks, ft, waiting, active, idle, crashed, mainVars, userVars>>

----------------------------------------------------------------------------
\* Run() without a task: the idle fibre.

IdleTest(w) ==
  /\ pc[w] = "idleTest" /\ ~ stopping
  /\ Goto(w, "idleWait")
  /\ UNCHANGED <<fiberVars, threadVars, tasks, ft, waiting, active, idle, crashed, mainVars, userVars>>

\* isIdle.wait(): there is no predicate, the list may have changed.
IdleWait(w) ==
  /\ pc[w] = "idleWait"
  /\ waiting' = waiting \cup {w}
  /\ Goto(w, "asleep")
  /\ UNCHANGED <<fiberVars, threadVars, tasks, ft, active, idle, crashed, mainVars, userVars>>

Spurious(w) ==
  /\ w \in waiting /\ spurious > 0
  /\ waiting' = waiting \ {w}
  /\ spurious' = spurious - 1
  /\ UNCHANGED <<fiberVars, threadVars, tasks, pc, ft, active, idle, crashed, mainVars,
                 added, yields, missed>>

\* Back to Run(), after the wait or at the end of Idle().
IdleOut(w) ==
  /\ \/ pc[w] = "asleep" /\ w \notin waiting
     \/ pc[w] = "idleTest" /\ stopping
  /\ idle' = idle - 1
  /\ Goto(w, "loop")
  /\ UNCHANGED <<fiberVars, threadVars, tasks, ft, waiting, active, crashed, mainVars, userVars>>

----------------------------------------------------------------------------
\* Start(), Stop() and the users of AddTask().

ThreadBegins(w) ==
  /\ pc[w] = "off"
  /\ Enter(w)
  /\ UNCHANGED <<fiberVars, runVars, mainVars, userVars>>

\* Run() of the thread signals and calls Run() of the scheduler.
ThreadSignals(w) ==
  /\ pc[w] = "off" /\ thState[w] = "EXEC"
  /\ Signal(w)
  /\ Goto(w, "loop")
  /\ UNCHANGED <<fiberVars, tasks, ft, waiting, active, idle, crashed, mainVars, userVars>>

StartThread(w) ==
  /\ mainPc = "create"
  /\ Construct(w)
  /\ mainPc' = "await" /\ newest' = w
  /\ UNCHANGED <<fiberVars, runVars, stopping, ids, wakes, late, userVars>>

StartNext ==
  /\ mainPc = "await"
  /\ Constructed(newest)
  /\ ids' = ids \cup {id[newest]}
  /\ mainPc' = IF \E w \in Workers : thState[w] = "none" THEN "create" ELSE "poll"
  /\ newest' = None
  /\ UNCHANGED <<fiberVars, runVars, stopping, wakes, late, userVars>>

StartEnds ==
  /\ mainPc = "poll"
  /\ idle = Cardinality(Workers)
  /\ mainPc' = "up"
  /\ UNCHANGED <<fiberVars, threadVars, runVars, stopping, newest, ids, wakes, late, userVars>>

StopSet ==
  /\ mainPc = "up"
  /\ stopping' = TRUE
  /\ mainPc' = "count"
  /\ late' = {w \in Workers : pc[w] = "idleWait"}
  /\ UNCHANGED <<fiberVars, threadVars, runVars, newest, ids, wakes, userVars>>

\* A mutant: the threads that execute tasks are counted, not the idle ones.
StopCountActive ==
  /\ mainPc = "count"
  /\ wakes' = active
  /\ mainPc' = "notify"
  /\ UNCHANGED <<fiberVars, threadVars, runVars, stopping, newest, ids, late, userVars>>

StopCount ==
  /\ mainPc = "count"
  /\ wakes' = idle
  /\ mainPc' = "notify"
  /\ UNCHANGED <<fiberVars, threadVars, runVars, stopping, newest, ids, late, userVars>>

\* A mutant: one notification too many.
StopNotifyOneMore ==
  /\ mainPc = "notify" /\ wakes >= 0
  /\ Notify
  /\ wakes' = wakes - 1
  /\ UNCHANGED <<fiberVars, threadVars, tasks, pc, ft, active, idle, crashed,
                 stopping, mainPc, newest, ids, late, userVars>>

StopNotify ==
  /\ mainPc = "notify" /\ wakes > 0
  /\ Notify
  /\ wakes' = wakes - 1
  /\ UNCHANGED <<fiberVars, threadVars, tasks, pc, ft, active, idle, crashed,
                 stopping, mainPc, newest, ids, late, userVars>>

StopNotified ==
  /\ mainPc = "notify" /\ wakes = 0
  /\ mainPc' = "join"
  /\ UNCHANGED <<fiberVars, threadVars, runVars, stopping, newest, ids, wakes, late, userVars>>

StopDelete(w) ==
  /\ mainPc = "join"
  /\ Delete(w)
  /\ UNCHANGED <<fiberVars, runVars, mainVars, userVars>>

StopEnds ==
  /\ mainPc = "join"
  /\ \A w \in Workers : thState[w] = "deleted"
  /\ mainPc' = "stopped"
  /\ UNCHANGED <<fiberVars, threadVars, runVars, stopping, newest, ids, wakes, late, userVars>>

\* The tasks are added by the thread that started the scheduler and by tasks.
UserActive == mainPc = "up" \/ \E w \in Workers : pc[w] = "run"

\* A mutant: nobody is notified.
PushQuietly(e) ==
  /\ tasks' = Append(tasks, e)
  /\ missed' = (waiting = {} /\ \A w \in Workers : ~ Awake(w))
  /\ UNCHANGED waiting

\* AddTask(): both steps under m_mutex.
Push(e) ==
  /\ tasks' = Append(tasks, e)
  /\ missed' = (waiting = {} /\ \A w \in Workers : ~ Awake(w))
  /\ Notify

AddTask(x) ==
  /\ UserActive
  /\ x \notin added
  /\ Push(IF x \in Fibers THEN FiberTask(x, Target[x]) ELSE FuncTask(x, Target[x]))
  /\ added' = added \cup {x}
  /\ UNCHANGED <<fiberVars, threadVars, pc, ft, active, idle, crashed, mainVars, yields, spurious>>

\* A user adds a fibre on hold again, after the scheduler has let go of it.
Resume(f) ==
  /\ UserActive
  /\ f \in added /\ fibState[f] = "HOLD"
  /\ \A w \in Workers : ft[w].fib # f
  /\ \A i \in DOMAIN tasks : tasks[i].fib # f
  /\ Push(FiberTask(f, None))
  /\ UNCHANGED <<fiberVars, threadVars, pc, ft, active, idle, crashed, mainVars,
                 added, yields, spurious>>

----------------------------------------------------------------------------

WorkerStep(w) ==
  \/ ThreadBegins(w) \/ ThreadSignals(w)
  \/ Loop(w) \/ Scan(w) \/ Tickle(w) \/ Dispatch(w) \/ Switch(w) \/ Crash(w)
  \/ Finish(w) \/ Out(w) \/ After(w) \/ Readd(w) \/ Hold(w) \/ ResetCb(w)
  \/ IdleTest(w) \/ IdleWait(w) \/ IdleOut(w) \/ End(w)

MainStep ==
  \/ \E w \in Workers : StartThread(w) \/ StopDelete(w)
  \/ StartNext \/ StartEnds
  \/ StopCount \/ StopNotify \/ StopNotified \/ StopEnds

Next ==
  /\ ~ crashed
  /\ \/ \E w \in Workers : WorkerStep(w) \/ Yield(w) \/ Spurious(w)
     \/ MainStep \/ StopSet
     \/ \E x \in Fibers \cup Funs : AddTask(x)
     \/ \E f \in Fibers : Resume(f)

Fairness ==
  /\ \A w \in Workers : WF_vars(~ crashed /\ WorkerStep(w))
  /\ WF_vars(~ crashed /\ MainStep)

SafeSpec == Init /\ [][Next]_vars
Spec == SafeSpec /\ Fairness

----------------------------------------------------------------------------

Entries == [th : Workers \cup {None}, fib : AllFibers \cup {None}, fun : Funs \cup {None}]

TypeOK ==
  /\ FiberTypeOK /\ ThreadTypeOK
  /\ tasks \in Seq(Entries)
  /\ pc \in [Workers -> {"off", "loop", "scan", "tickle", "dispatch", "switch", "run", "out",
                         "after", "readd", "hold", "reset", "idleTest", "idleWait", "asleep"}]
  /\ ft \in [Workers -> Entries]
  /\ waiting \in SUBSET Workers /\ late \in SUBSET Workers
  /\ active \in Nat /\ idle \in Nat /\ wakes \in Nat
  /\ stopping \in BOOLEAN /\ crashed \in BOOLEAN /\ missed \in BOOLEAN
  /\ mainPc \in {"create", "await", "poll", "up", "count", "notify", "join", "stopped"}
  /\ newest \in Workers \cup {None}
  /\ ids \in SUBSET (Workers \cup {NoId})
  /\ added \in SUBSET (Fibers \cup Funs)
  /\ yields \in Nat /\ spurious \in Nat

\* The constructor of a thread returns only after the thread published its id:
\* Start() collects the ids of the threads it started, none of them empty.
IdsPublished == ids \subseteq Workers

\* A user's fibre is in one place: once in the list or in the hands of one
\* thread, so that no two threads run it and READY fibres are not queued twice.
FiberInOnePlace ==
  \A f \in Fibers :
    /\ \A i, j \in DOMAIN tasks : tasks[i].fib = f /\ tasks[j].fib = f => i = j
    /\ \A w, u \in Workers : ft[w].fib = f /\ ft[u].fib = f => w = u
    /\ \A i \in DOMAIN tasks, w \in Workers : tasks[i].fib = f => ft[w].fib # f

\* m_activeThreadCnt and m_idleThreadCnt, which are changed outside of the
\* mutex, count the threads with a task and those in the idle fibre; Start()
\* and Stop() decide by the latter.
CountsExact ==
  /\ active = Cardinality({w \in Workers :
       ft[w] # NoTask /\ pc[w] \in {"tickle", "dispatch", "switch", "run", "out", "after"}})
  /\ idle = Cardinality({w \in Workers : pc[w] \in {"idleTest", "idleWait", "asleep"}})

\* A task anybody may take is left to threads that all sleep or are about to
\* sleep only if that was already so when the last task was added: every other
\* wake-up arrives, although the wait has no predicate.
OnlyTheRaceStrands ==
  (\E i \in DOMAIN tasks : tasks[i].th = None) /\ mainPc = "up" /\ ~ missed
    => \E w \in Workers : Awake(w)

\* Start() returns.  Stop() notifies often enough and returns, unless a thread
\* sleeps that was past the test in Idle(), and not yet waiting, when Stop() set
\* m_stopping.
StartAndStopReturn ==
  /\ <>(mainPc = "up" \/ crashed)
  /\ stopping ~> mainPc = "stopped" \/ crashed \/ (mainPc = "join" /\ waiting \cap late # {})

\* A fibre that yields READY runs again, whoever sleeps.
YieldedResumes ==
  \A f \in Fibers : fibState[f] = "READY" ~> fibState[f] = "EXEC" \/ stopping \/ crashed
=============================================================================
