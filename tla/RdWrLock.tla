------------------------------ MODULE RdWrLock ------------------------------
(***************************************************************************)
(* gdres::RdWrLock (parts/lock.h, parts/lock.cpp): a readers-writer lock   *)
(* made of two std::mutexes and a count of readers.  The first reader      *)
(* takes writeMtx for all readers and the last one frees it, which need    *)
(* not be the same thread: writeMtx records who locked it.                 *)
(*                                                                         *)
(*   out       holds nothing                                               *)
(*   rd_lock   in rdlock(), at readMtx.lock()                              *)
(*   rd_first  in rdlock(), readMtx held, first reader, at writeMtx.lock() *)
(*   reading   rdlock() returned                                           *)
(*   rd_unlock in rdunlock(), at readMtx.lock()                            *)
(*   wr_lock   in wrlock(), at writeMtx.lock()                             *)
(*   writing   wrlock() returned                                           *)
(***************************************************************************)
EXTENDS LockUsers

VARIABLES readMtx, writeMtx

rwVars == <<pc, readMtx, writeMtx, count>>

RwPCs == {"out", "rd_lock", "rd_first", "reading", "rd_unlock",
          "wr_lock", "writing"}

\* The threads RdWrLock::count counts.
Counted == At({"rd_first", "reading", "rd_unlock"})

RwInit ==
  /\ pc = [p \in Procs |-> "out"]
  /\ readMtx = NoProc
  /\ writeMtx = NoProc
  /\ count = 0

----------------------------------------------------------------------------
\* Readers.  What is done between readMtx.lock() and readMtx.unlock() is one
\* step, unless the thread may have to wait for writeMtx in between.

CallRdLock(p) ==
  /\ pc[p] = "out"
  /\ Goto(p, "rd_lock")
  /\ UNCHANGED <<readMtx, writeMtx, count>>

FirstReader == count + 1 = 1

\* ++count, by the first reader: it keeps readMtx while it waits for writeMtx.
RdLockFirst(p) ==
  /\ pc[p] = "rd_lock"
  /\ readMtx = NoProc
  /\ FirstReader
  /\ count' = count + 1
  /\ readMtx' = p
  /\ Goto(p, "rd_first")
  /\ UNCHANGED writeMtx

RdLockWriteMtx(p) ==
  /\ pc[p] = "rd_first"
  /\ writeMtx = NoProc
  /\ writeMtx' = p
  /\ readMtx' = NoProc
  /\ Goto(p, "reading")
  /\ UNCHANGED count

\* A mutant: only the first reader is counted.
RdLockNextUncounted(p) ==
  /\ pc[p] = "rd_lock"
  /\ readMtx = NoProc
  /\ ~ FirstReader
  /\ Goto(p, "reading")
  /\ UNCHANGED <<readMtx, writeMtx, count>>

\* ++count, by a reader that is not the first.
RdLockNext(p) ==
  /\ pc[p] = "rd_lock"
  /\ readMtx = NoProc
  /\ ~ FirstReader
  /\ count' = count + 1
  /\ Goto(p, "reading")
  /\ UNCHANGED <<readMtx, writeMtx>>

CallRdUnlock(p) ==
  /\ pc[p] = "reading"
  /\ Goto(p, "rd_unlock")
  /\ UNCHANGED <<readMtx, writeMtx, count>>

\* Mutants: every reader frees writeMtx; count-- == 0 in place of --count == 0.
AnyReader == TRUE
PostDecrement == count = 0

LastReader == count - 1 = 0

RdUnlock(p) ==
  /\ pc[p] = "rd_unlock"
  /\ readMtx = NoProc
  /\ count' = count - 1
  /\ writeMtx' = IF LastReader THEN NoProc ELSE writeMtx
  /\ Goto(p, "out")
  /\ UNCHANGED readMtx

----------------------------------------------------------------------------
\* Writers.

CallWrLock(p) ==
  /\ pc[p] = "out"
  /\ Goto(p, "wr_lock")
  /\ UNCHANGED <<readMtx, writeMtx, count>>

WrLock(p) ==
  /\ pc[p] = "wr_lock"
  /\ writeMtx = NoProc
  /\ writeMtx' = p
  /\ Goto(p, "writing")
  /\ UNCHANGED <<readMtx, count>>

WrUnlock(p) ==
  /\ pc[p] = "writing"
  /\ writeMtx' = NoProc
  /\ Goto(p, "out")
  /\ UNCHANGED <<readMtx, count>>

----------------------------------------------------------------------------

\* The steps of a thread inside one of the four functions.
RwStep(p) ==
  \/ RdLockFirst(p) \/ RdLockWriteMtx(p) \/ RdLockNext(p) \/ RdUnlock(p)
  \/ WrLock(p)

\* The user of the lock asks for it and gives it back.
RwUser(p) == CallRdLock(p) \/ CallRdUnlock(p) \/ CallWrLock(p) \/ WrUnlock(p)

RwNext == \E p \in Procs : RwStep(p) \/ RwUser(p)

RwSafeSpec == RwInit /\ [][RwNext]_rwVars

\* A thread inside a function is scheduled; nobody owes a call.
RwSpec == RwSafeSpec /\ \A p \in Procs : WF_rwVars(RwStep(p))

----------------------------------------------------------------------------

RwTypeOK ==
  /\ pc \in [Procs -> RwPCs]
  /\ readMtx \in Procs \cup {NoProc}
  /\ writeMtx \in Procs \cup {NoProc}
  /\ count \in Nat

\* A writer is alone: while a thread is between wrlock() and wrunlock() no
\* other one is, and none is between rdlock() and rdunlock().
Exclusion ==
  \A p, q \in Procs :
    pc[p] = "writing" /\ p # q => pc[q] \notin {"reading", "writing"}

RwAbs == INSTANCE AbsRdWrLock WITH
           wantRead  <- At({"rd_lock", "rd_first"}),
           wantWrite <- At({"wr_lock"}),
           readers   <- At({"reading"}),
           writers   <- At({"writing"})

\* RdWrLock implements the readers-writer lock: exclusion, and no deadlock
\* between the two mutexes (when nobody bars the way, somebody gets in).
ImplementsRdWrLock == RwAbs!Spec
AbsRwSafeSpec == RwAbs!SafeSpec
=============================================================================
