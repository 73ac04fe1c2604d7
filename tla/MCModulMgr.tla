----------------------------- MODULE MCModulMgr -----------------------------
(***************************************************************************)
(* TLC instance of ModulMgr: three module objects, two of which were given *)
(* the same ID, and the two vectors of one and of both IDs.                *)
(***************************************************************************)
EXTENDS ModulMgr

CONSTANTS o1, o2, o3, i1, i2

MCIdOf == [o \in {o1, o2, o3} |-> IF o = o3 THEN i2 ELSE i1]
MCTargets == {<<i1, i2>>}
=============================================================================
