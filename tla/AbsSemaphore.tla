---------------------------- MODULE AbsSemaphore ----------------------------
(***************************************************************************)
(* What the callers of gdres::Semaphore (parts/lock.h) rely on: a number   *)
(* of permits, signal() adds one, wait() returns by consuming one.         *)
(* Mutex, condition variable and wake-ups are invisible at this level.     *)
(***************************************************************************)
EXTENDS Naturals

CONSTANT Procs      \* the threads that call the semaphore

VARIABLES permits,  \* Semaphore::count
          waiters   \* threads that are inside wait()

vars == <<permits, waiters>>

Init == permits = 0 /\ waiters = {}

\* signal() takes effect.
Signal == permits' = permits + 1 /\ UNCHANGED waiters

\* p enters wait().
BeginWait(p) ==
  /\ p \notin waiters
  /\ waiters' = waiters \cup {p}
  /\ UNCHANGED permits

\* wait() returns to p.
EndWait(p) ==
  /\ p \in waiters
  /\ permits > 0
  /\ permits' = permits - 1
  /\ waiters' = waiters \ {p}

Next == Signal \/ \E p \in Procs : BeginWait(p) \/ EndWait(p)

\* While there are a permit and a waiter, some wait() returns.
Progress == WF_vars(\E p \in Procs : EndWait(p))

SafeSpec == Init /\ [][Next]_vars
Spec == SafeSpec /\ Progress
=============================================================================
