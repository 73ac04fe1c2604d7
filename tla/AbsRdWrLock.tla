---------------------------- MODULE AbsRdWrLock ----------------------------
(***************************************************************************)
(* What the callers of gdres::RdWrLock (parts/lock.h) rely on: any number  *)
(* of readers or one writer.  A thread asks for the lock (want), has it    *)
(* (readers, writers), and gives it back.                                  *)
(***************************************************************************)
EXTENDS Naturals

CONSTANT Procs

VARIABLES wantRead, wantWrite, readers, writers

vars == <<wantRead, wantWrite, readers, writers>>

Init == wantRead = {} /\ wantWrite = {} /\ readers = {} /\ writers = {}

Idle(p) == p \notin wantRead \cup wantWrite \cup readers \cup writers

AskRead(p) ==
  /\ Idle(p)
  /\ wantRead' = wantRead \cup {p}
  /\ UNCHANGED <<wantWrite, readers, writers>>

AskWrite(p) ==
  /\ Idle(p)
  /\ wantWrite' = wantWrite \cup {p}
  /\ UNCHANGED <<wantRead, readers, writers>>

BeginRead(p) ==
  /\ p \in wantRead /\ writers = {}
  /\ wantRead' = wantRead \ {p}
  /\ readers' = readers \cup {p}
  /\ UNCHANGED <<wantWrite, writers>>

BeginWrite(p) ==
  /\ p \in wantWrite /\ writers = {} /\ readers = {}
  /\ wantWrite' = wantWrite \ {p}
  /\ writers' = {p}
  /\ UNCHANGED <<wantRead, readers>>

EndRead(p) ==
  /\ p \in readers
  /\ readers' = readers \ {p}
  /\ UNCHANGED <<wantRead, wantWrite, writers>>

EndWrite(p) ==
  /\ p \in writers
  /\ writers' = writers \ {p}
  /\ UNCHANGED <<wantRead, wantWrite, readers>>

Enter == \E p \in Procs : BeginRead(p) \/ BeginWrite(p)

Next == Enter \/ \E p \in Procs :
          AskRead(p) \/ AskWrite(p) \/ EndRead(p) \/ EndWrite(p)

SafeSpec == Init /\ [][Next]_vars

\* While somebody could be let in, somebody is let in.
Spec == SafeSpec /\ WF_vars(Enter)
=============================================================================
