------------------------------- MODULE Fiber -------------------------------
(***************************************************************************)
(* gdres::Fiber (fiber/fiber.h, fiber.cpp): fibres with their own stack,   *)
(* swapped in and out of the threads that run them.                        *)
(*                                                                         *)
(* A user's fibre has its function for life and is named like it.  Every   *)
(* thread w of the scheduler has a fibre of its own, cbFiber, named w, to  *)
(* which Reset() gives one function after the other.  The state EXCEPT is  *)
(* never assigned.  The main fibre of a thread is the thread outside of    *)
(* any fibre: cur = None.  The context a fibre is left in is saved when    *)
(* the thread switches away from it: while cur[w] = f, f's stack is in     *)
(* use.                                                                    *)
(***************************************************************************)
CONSTANTS Workers, Fibers, Funs, None

VARIABLES
  fibState,   \* fibState of every fibre; "FREED" after delete
  fun,        \* func: a function, or None
  cur         \* g_nowFiber of each thread, None for its main fibre

AllFibers == Fibers \cup Workers

States == {"INIT", "HOLD", "EXEC", "TERM", "READY", "FREED"}

FiberInit ==
  /\ fibState = [f \in AllFibers |-> "INIT"]
  /\ fun = [f \in AllFibers |-> IF f \in Fibers THEN f ELSE None]
  /\ cur = [w \in Workers |-> None]

\* Reset() does nothing to a fibre that has started and not ended.
Resettable(f) == fibState[f] \in {"TERM", "INIT"}

Reset(f, g) ==
  /\ fun' = IF Resettable(f) THEN [fun EXCEPT ![f] = g] ELSE fun
  /\ fibState' = IF Resettable(f) THEN [fibState EXCEPT ![f] = "INIT"] ELSE fibState
  /\ UNCHANGED cur

\* SwapIn() past its test: the thread is on f's stack now.
SwapIn(w, f) ==
  /\ fibState' = [fibState EXCEPT ![f] = "EXEC"]
  /\ cur' = [cur EXCEPT ![w] = f]
  /\ UNCHANGED fun

\* Swapping f in is undefined if another thread is still on f's stack, if f
\* ended (it would return from MainFunc(), to nowhere), if it is deleted, or if
\* it starts with an empty function.
Unusable(f) ==
  \/ \E u \in Workers : cur[u] = f
  \/ fibState[f] \in {"TERM", "FREED"}
  \/ fun[f] = None

\* The running fibre gives up the thread: MainFunc() after its function,
\* YieldToReady(), YieldToHold().  The state changes first, the switch follows.
Leave(w, s) ==
  /\ fibState' = [fibState EXCEPT ![cur[w]] = s]
  /\ UNCHANGED <<fun, cur>>

SwapOut(w) ==
  /\ cur' = [cur EXCEPT ![w] = None]
  /\ UNCHANGED <<fibState, fun>>

FiberTypeOK ==
  /\ fibState \in [AllFibers -> States]
  /\ fun \in [AllFibers -> Fibers \cup Funs \cup {None}]
  /\ cur \in [Workers -> AllFibers \cup {None}]
=============================================================================
