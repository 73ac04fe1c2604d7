---------------------------- MODULE MCModulTimer ----------------------------
(***************************************************************************)
(* TLC instance of ModulTimer: two recurring timers with different         *)
(* intervals and a one-shot timer, in any order of addresses.              *)
(***************************************************************************)
EXTENDS ModulTimer

CONSTANTS ta, tb, tc

MCCycle == [t \in Timers |-> IF t = tb THEN 3 ELSE IF t = ta THEN 2 ELSE 1]
=============================================================================
