----------------------------- MODULE ModulTimer -----------------------------
(***************************************************************************)
(* gdres::ModulTimerMgr (modulmgr/modul_timer.h, modul_timer.cpp): a       *)
(* TimerMgr with a fixed ThreadPool.  The loop Run() is a task of the pool *)
(* and adds the callbacks that are due as further tasks.                   *)
(*                                                                         *)
(* The pool is what ThreadPool shows a fixed pool to be: a queue whose     *)
(* tasks are each executed by one of the threads that are not in Run().    *)
(* Its destruction is another matter: Destroy() of a fixed pool uses a     *)
(* null pointer, and waits for no thread.                                  *)
(*                                                                         *)
(*   loopPc   queued    Run() waits in the pool                            *)
(*            test      at while (!m_stopping)                             *)
(*            sleep     in SLEEPMS()                                       *)
(*            scan      before GetCbList()                                 *)
(*            add       adding cbs to the pool                             *)
(*            done                                                         *)
(*   stopPc   running, delete (m_stopping set), stopped                    *)
(***************************************************************************)
EXTENDS Integers, Sequences, FiniteSets

CONSTANTS
  Timers, Cycle, Recurring, Addresses,
  None,
  MaxQueued    \* callbacks in the pool before the clock stops for them

VARIABLES
  at, left, inSet, given, since,
  loopPc, cbs,
  queue,      \* callbacks in the pool's queue
  last,       \* the callback a thread of the pool took last, in this tick
  run,        \* callbacks of one-shot timers executed so far
  stopping, stopPc, crashed

INSTANCE TimerMgr

ASSUME TimerAssumption ==
  /\ IsFiniteSet(Timers)
  /\ Addresses \subseteq Nat \ {0}
  /\ Cycle \in [Timers -> Nat \ {0}]
  /\ Recurring \subseteq Timers
  /\ None \notin Timers
  /\ MaxQueued \in Nat

timerVars == <<at, left, inSet, given, since>>
poolVars == <<queue, last, run>>
vars == <<timerVars, loopPc, cbs, poolVars, stopping, stopPc, crashed>>

Init ==
  /\ TimerInit
  /\ loopPc = "queued" /\ cbs = <<>>
  /\ queue = <<>> /\ last = None /\ run = {}
  /\ stopping = FALSE /\ stopPc = "running" /\ crashed = FALSE

\* The pool is deleted in Stop().
PoolDeleted == stopPc = "stopped"

----------------------------------------------------------------------------
\* Run()

\* A thread of the pool begins the task, or one that took it before the pool was
\* deleted.
LoopBegins ==
  /\ loopPc = "queued"
  /\ loopPc' = "test"
  /\ UNCHANGED <<timerVars, cbs, poolVars, stopping, stopPc, crashed>>

\* A mutant: no test.
TestNever ==
  /\ loopPc = "test"
  /\ cbs' = <<>>
  /\ loopPc' = "sleep"
  /\ UNCHANGED <<timerVars, poolVars, stopping, stopPc, crashed>>

Test ==
  /\ loopPc = "test"
  /\ cbs' = <<>>
  /\ loopPc' = IF stopping THEN "done" ELSE "sleep"
  /\ UNCHANGED <<timerVars, poolVars, stopping, stopPc, crashed>>

\* The clock; a sleep takes at least one tick.
Tick ==
  /\ Len(queue) < MaxQueued
  /\ Pass
  /\ loopPc' = IF loopPc = "sleep" THEN "scan" ELSE loopPc
  /\ last' = None
  /\ UNCHANGED <<cbs, queue, run, stopping, stopPc, crashed>>

\* The order in which the set is walked.
ByAddress(T) ==
  CHOOSE s \in [1 .. Cardinality(T) -> T] :
    \A i, j \in DOMAIN s : i < j => at[s[i]] < at[s[j]]

Scan ==
  /\ loopPc = "scan"
  /\ GetCbList(Prefix)
  /\ cbs' = ByAddress(Prefix)
  /\ loopPc' = IF Prefix = {} THEN "test" ELSE "add"
  /\ UNCHANGED <<poolVars, stopping, stopPc, crashed>>

\* A mutant: one callback per scan.
AddFirst ==
  /\ loopPc = "add"
  /\ queue' = IF PoolDeleted THEN queue ELSE Append(queue, Head(cbs))
  /\ cbs' = <<>>
  /\ loopPc' = "test"
  /\ UNCHANGED <<timerVars, last, run, stopping, stopPc, crashed>>

\* m_pool->AddTask(); if the pool is deleted, its memory may still be intact.
Add ==
  /\ loopPc = "add"
  /\ queue' = IF PoolDeleted THEN queue ELSE Append(queue, Head(cbs))
  /\ cbs' = Tail(cbs)
  /\ loopPc' = IF Tail(cbs) = <<>> THEN "test" ELSE "add"
  /\ UNCHANGED <<timerVars, last, run, stopping, stopPc, crashed>>

LoopStep == LoopBegins \/ Test \/ Scan \/ Add

----------------------------------------------------------------------------
\* The pool, the users, Stop()

Execute ==
  /\ ~ PoolDeleted /\ queue # <<>>
  /\ last' = Head(queue)
  /\ queue' = Tail(queue)
  /\ run' = run \cup ({Head(queue)} \ Recurring)
  /\ UNCHANGED <<timerVars, loopPc, cbs, stopping, stopPc, crashed>>

AddTimer(t) ==
  /\ Create(t)
  /\ UNCHANGED <<loopPc, cbs, poolVars, stopping, stopPc, crashed>>

AddTimerInsert(t) ==
  /\ Insert(t)
  /\ UNCHANGED <<loopPc, cbs, poolVars, stopping, stopPc, crashed>>

StopSet ==
  /\ stopPc = "running"
  /\ stopping' = TRUE
  /\ stopPc' = "delete"
  /\ UNCHANGED <<timerVars, loopPc, cbs, poolVars, crashed>>

\* delete m_pool: undefined for a fixed pool, as ThreadPool shows; the process
\* dies, or it goes on and the tasks not begun are dropped.
StopDelete ==
  /\ stopPc = "delete"
  /\ stopPc' = "stopped" /\ queue' = <<>>
  /\ crashed' \in BOOLEAN
  /\ UNCHANGED <<timerVars, loopPc, cbs, last, run, stopping>>

\* The loop, or the destructor's second Stop(), uses the deleted pool.
Crash ==
  /\ PoolDeleted
  /\ crashed' = TRUE
  /\ UNCHANGED <<timerVars, loopPc, cbs, poolVars, stopping, stopPc>>

Next ==
  /\ ~ crashed
  /\ \/ LoopStep \/ Tick
     \/ Execute
     \/ \E t \in Timers : AddTimer(t) \/ AddTimerInsert(t)
     \/ StopSet \/ StopDelete \/ Crash

\* The loop was not begun and the pool is gone: nobody needs to begin it.
Dropped == loopPc = "queued" /\ PoolDeleted

Fairness ==
  /\ WF_vars(~ crashed /\ ~ Dropped /\ LoopStep) /\ WF_vars(~ crashed /\ Tick)
  /\ WF_vars(~ crashed /\ Execute)
  /\ WF_vars(~ crashed /\ \E t \in Timers : AddTimerInsert(t))
  /\ WF_vars(~ crashed /\ StopDelete)

SafeSpec == Init /\ [][Next]_vars
Spec == SafeSpec /\ Fairness

----------------------------------------------------------------------------

TypeOK ==
  /\ TimerTypeOK
  /\ loopPc \in {"queued", "test", "sleep", "scan", "add", "done"}
  /\ cbs \in Seq(Timers) /\ queue \in Seq(Timers) /\ last \in Timers \cup {None}
  /\ run \in SUBSET Timers
  /\ stopping \in BOOLEAN /\ crashed \in BOOLEAN
  /\ stopPc \in {"running", "delete", "stopped"}

\* No callback comes early: a timer the scan hands out has run its whole
\* interval, since AddTimer() or since it was handed out last, although the
\* scan comes late and the next interval is counted from the scan, by a clock
\* that goes on steadily (README, section 2).
NeverEarly == [][\A t \in Timers :
  (t \in inSet /\ Scan /\ t \in Prefix) => since[t] >= Cycle[t]]_vars

\* A one-shot timer leaves the set when it is handed out, its callback is in
\* one place and runs once; a timer in the set has an address of its own.
OneShotOnce ==
  /\ \A t, u \in inSet : at[t] = at[u] => t = u
  /\ \A t \in Timers \ Recurring :
       Cardinality({i \in DOMAIN cbs : cbs[i] = t}) + Cardinality({i \in DOMAIN queue : queue[i] = t})
         + (IF t \in inSet THEN 1 ELSE 0) + (IF t \in run THEN 1 ELSE 0) <= 1

\* Every timer fires, a recurring one again and again, although one that is
\* due waits behind the timers with lower addresses until they are due as well
\* (README 1.3).
TimersFire ==
  \A t \in Timers :
    t \in given \ run ~> last = t \/ stopping \/ crashed

\* Stop() ends the loop, or drops it with the pool before it begins, or the loop
\* dies of the pool that Stop() deleted.
StopEndsLoop == stopping ~> loopPc = "done" \/ Dropped \/ crashed
=============================================================================
