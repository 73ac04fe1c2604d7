----------------------------- MODULE LockUsers -----------------------------
(***************************************************************************)
(* What gdres::Semaphore and gdres::RdWrLock (parts/lock.h) have in common *)
(* in their models: the threads that call them, the place of each in the   *)
(* function it is in, and the integer both classes call count.  Semaphore  *)
(* and RdWrLock extend this module with their own mutexes and say what the *)
(* places are.                                                             *)
(***************************************************************************)
EXTENDS FiniteSets, Integers

CONSTANTS Procs,    \* the threads that call the lock
          NoProc    \* the owner of a mutex nobody holds

ASSUME ProcsAssumption == NoProc \notin Procs /\ IsFiniteSet(Procs)

VARIABLES count,    \* permits in Semaphore, readers in RdWrLock
          pc        \* the place of each thread

\* The threads at one of these places.
At(places) == {p \in Procs : pc[p] \in places}

\* The thread goes on to another place, the others stay where they are.
Goto(p, place) == pc' = [pc EXCEPT ![p] = place]
=============================================================================
