----------------------------- MODULE ModulBase -----------------------------
(***************************************************************************)
(* gdres::ModulBase (modulmgr/modul_base.h, modul_base.cpp): a module, its *)
(* message queue, its semaphore and its thread.                            *)
(*                                                                         *)
(* Any thread posts with MsgPush(): push() and, if that succeeds, WakeUp().*)
(* The module's thread is in Run(): wait for the semaphore, take one       *)
(* message, process it.  Somebody may call Stop(), which also deletes the  *)
(* queue.  The semaphore is the counter that Semaphore.tla shows it to be. *)
(*                                                                         *)
(*   runPc   test    at while (!m_stopping)                                *)
(*           wait    in m_sem.wait()                                       *)
(*           take    m_sem.wait() returned, before take()'s check          *)
(*           locked  in take(), past its check                             *)
(*           process take() returned a message                             *)
(*           done    Run() returned                                        *)
(*   stopPc  running, wake (m_stopping set), delete (signalled), stopped   *)
(***************************************************************************)
EXTENDS MsgQueue

VARIABLES
  waking,     \* senders whose push() succeeded, before their WakeUp()
  sem,        \* m_sem's count
  stopping,   \* m_stopping
  runPc,      \* the module's thread
  current,    \* recvMsg, or NoMsg
  stopPc,     \* the thread in Stop()
  crashed     \* the process died of an access to the deleted queue

modulVars == <<waking, sem, stopping, runPc, current, stopPc, crashed>>
allVars == <<vars, modulVars>>

\* m_msgQ is deleted at the end of Stop().
QueueDeleted == stopPc = "stopped"

ModulInit ==
  /\ Init
  /\ waking = {} /\ sem = 0 /\ stopping = FALSE
  /\ runPc = "test" /\ current = NoMsg
  /\ stopPc = "running" /\ crashed = FALSE

----------------------------------------------------------------------------
\* MsgPush(): the two steps of push(), then WakeUp() if the message is in.

Push(s, m) ==
  /\ s \notin waking
  /\ PushCheck(s, m) \/ PushFull(s, m)
  /\ UNCHANGED modulVars

\* A mutant: WakeUp() whatever push() returned.
PushFailedWakes(s) ==
  /\ PushRefuse(s)
  /\ waking' = waking \cup {s}
  /\ UNCHANGED <<sem, stopping, runPc, current, stopPc, crashed>>

PushFailed(s) == PushRefuse(s) /\ UNCHANGED modulVars

\* A mutant: no WakeUp() while the module has tokens left.
PushDoneLazy(s) ==
  /\ PushInsert(s)
  /\ waking' = IF size = 0 THEN waking \cup {s} ELSE waking
  /\ UNCHANGED <<sem, stopping, runPc, current, stopPc, crashed>>

PushDone(s) ==
  /\ PushInsert(s)
  /\ waking' = waking \cup {s}
  /\ UNCHANGED <<sem, stopping, runPc, current, stopPc, crashed>>

WakeUp(s) ==
  /\ s \in waking
  /\ waking' = waking \ {s}
  /\ sem' = sem + 1
  /\ UNCHANGED <<vars, stopping, runPc, current, stopPc, crashed>>

----------------------------------------------------------------------------
\* Run()

RunTest ==
  /\ runPc = "test"
  /\ runPc' = IF stopping THEN "done" ELSE "wait"
  /\ UNCHANGED <<vars, waking, sem, stopping, current, stopPc, crashed>>

\* A mutant: the thread does not wait.
NoWait == TRUE

Signalled == sem > 0

RunWait ==
  /\ runPc = "wait"
  /\ Signalled
  /\ sem' = sem - 1
  /\ runPc' = "take"
  /\ UNCHANGED <<vars, waking, stopping, current, stopPc, crashed>>

RunTakeNull ==
  /\ runPc = "take"
  /\ TakeNull
  /\ runPc' = "test"
  /\ UNCHANGED <<waking, sem, stopping, current, stopPc, crashed>>

RunTakeCheck ==
  /\ runPc = "take"
  /\ TakeCheck
  /\ runPc' = "locked"
  /\ UNCHANGED <<waking, sem, stopping, current, stopPc, crashed>>

RunTakeRemove ==
  /\ runPc = "locked"
  /\ TakeRemove
  /\ current' = Front
  /\ runPc' = IF current' = NoMsg THEN "test" ELSE "process"
  /\ UNCHANGED <<waking, sem, stopping, stopPc, crashed>>

\* ProcessMsg() is the derived module's; the queue plays no part in it.
RunProcess ==
  /\ runPc = "process"
  /\ current' = NoMsg
  /\ runPc' = "test"
  /\ UNCHANGED <<vars, waking, sem, stopping, stopPc, crashed>>

----------------------------------------------------------------------------
\* Stop().  One thread stops the module: the test of m_stopping is a step with its
\* assignment.  Two that both pass it would delete m_msgQ twice.

StopSet ==
  /\ stopPc = "running"
  /\ stopping' = TRUE
  /\ stopPc' = "wake"
  /\ UNCHANGED <<vars, waking, sem, runPc, current, crashed>>

\* A mutant: the wake-up is forgotten.
StopNoWakeUp ==
  /\ stopPc = "wake"
  /\ stopPc' = "delete"
  /\ UNCHANGED <<vars, waking, sem, stopping, runPc, current, crashed>>

StopWakeUp ==
  /\ stopPc = "wake"
  /\ sem' = sem + 1
  /\ stopPc' = "delete"
  /\ UNCHANGED <<vars, waking, stopping, runPc, current, crashed>>

StopDelete ==
  /\ stopPc = "delete"
  /\ stopPc' = "stopped"
  /\ UNCHANGED <<vars, waking, sem, stopping, runPc, current, crashed>>

\* A thread in push() or take() touches the deleted queue: undefined.  Either
\* the memory is still intact, which is what the actions above do, or the
\* process dies.
Crash ==
  /\ QueueDeleted
  /\ runPc \in {"take", "locked"} \/ \E s \in Senders : pending[s] # NoMsg
  /\ crashed' = TRUE
  /\ UNCHANGED <<vars, waking, sem, stopping, runPc, current, stopPc>>

----------------------------------------------------------------------------

RunStep ==
  \/ RunTest \/ RunWait \/ RunTakeNull \/ RunTakeCheck \/ RunTakeRemove
  \/ RunProcess

SenderStep(s) == PushDone(s) \/ PushFailed(s) \/ WakeUp(s)

StopStep == StopWakeUp \/ StopDelete

ModulNext ==
  /\ ~ crashed
  /\ \/ \E s \in Senders : SenderStep(s) \/ \E m \in Msgs : Push(s, m)
     \/ RunStep
     \/ StopSet \/ StopStep
     \/ Crash

\* Every thread that is inside a function runs on.  Nobody owes a message or
\* a Stop().
Fairness ==
  /\ WF_allVars(~ crashed /\ RunStep)
  /\ \A s \in Senders : WF_allVars(~ crashed /\ SenderStep(s))
  /\ WF_allVars(~ crashed /\ StopStep)

ModulSafeSpec == ModulInit /\ [][ModulNext]_allVars
ModulSpec == ModulSafeSpec /\ Fairness

----------------------------------------------------------------------------

ModulTypeOK ==
  /\ TypeOK
  /\ waking \in SUBSET Senders
  /\ sem \in Nat
  /\ stopping \in BOOLEAN
  /\ runPc \in {"test", "wait", "take", "locked", "process", "done"}
  /\ current \in Msgs \cup {NoMsg}
  /\ stopPc \in {"running", "wake", "delete", "stopped"}
  /\ crashed \in BOOLEAN

\* Tokens and messages match until Stop(): each accepted message has its own
\* WakeUp(), pending, counted by the semaphore or in the hand of the thread,
\* so no message waits without a token and no wake-up finds the queue empty.
TokenBalance ==
  ~ stopping =>
    size = sem + Cardinality(waking) + (IF runPc \in {"take", "locked"} THEN 1 ELSE 0)

\* Every message the queue accepted is taken and processed, unless the module
\* is stopped: the sleeping thread is always woken for it (README 1.4).
MessagesProcessed ==
  \A m \in Msgs :
    fate[m] = "queued" ~> stopping \/ (fate[m] = "taken" /\ current # m)

\* Stop() ends the module's thread, wherever the thread was; or the thread, or
\* a sender, dies of the queue Stop() deleted under it.
StopEndsRun == stopping ~> runPc = "done" \/ crashed
=============================================================================
