---------------------------- MODULE MCScheduler ----------------------------
(***************************************************************************)
(* TLC instance of Scheduler: one function is meant for one thread.        *)
(***************************************************************************)
EXTENDS Scheduler, TLC

CONSTANTS w1, g1

MCTarget == [x \in Fibers \cup Funs |-> IF x = g1 THEN w1 ELSE None]
=============================================================================
