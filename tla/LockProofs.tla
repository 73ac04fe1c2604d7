----------------------------- MODULE LockProofs -----------------------------
(***************************************************************************)
(* Proofs about the locks of parts/lock.h, for every finite set of         *)
(* threads.                                                                *)
(*                                                                         *)
(* Semaphore: type correctness, mutual exclusion, no lost wake-up, and the *)
(* safety part of the implementation of AbsSemaphore.                      *)
(*                                                                         *)
(* RdWrLock: type correctness, that a writer is alone, and the safety part *)
(* of the implementation of AbsRdWrLock.                                   *)
(***************************************************************************)
EXTENDS Semaphore, RdWrLock, FiniteSetTheorems, TLAPS

\* The inductive invariant: NoLostWakeup needs nothing but the types and the
\* mutex, since a thread blocks only after it saw count <= 0 under the mutex.
IInv == TypeOK /\ MutexOwned /\ NoLostWakeup

\* The sets of threads that NoLostWakeup counts are finite.
LEMMA AtFinite ==
  ASSUME NEW S
  PROVE  IsFiniteSet(At(S)) /\ Cardinality(At(S)) \in Nat
BY ProcsAssumption, FS_Subset, FS_CardinalityType DEF At

\* A thread that moves to l leaves the sets that do not hold l and enters
\* those that do; the number of threads there changes by at most one.
LEMMA MoveCount ==
  ASSUME TypeOK, NEW p \in Procs, NEW l, Goto(p, l), NEW S
  PROVE  Cardinality(At(S)') = Cardinality(At(S))
                                 - (IF pc[p] \in S THEN 1 ELSE 0)
                                 + (IF l \in S THEN 1 ELSE 0)
<1> DEFINE Rest == At(S) \ {p}
<1>1. IsFiniteSet(Rest) /\ Cardinality(Rest) \in Nat /\ p \notin Rest
  BY AtFinite, FS_Subset, FS_CardinalityType
<1>2. Cardinality(Rest \cup {p}) = Cardinality(Rest) + 1
  BY <1>1, FS_AddElement
<1>3. At(S) = IF pc[p] \in S THEN Rest \cup {p} ELSE Rest
  BY DEF At
<1>4. At(S)' = IF l \in S THEN Rest \cup {p} ELSE Rest
  BY DEF At, Goto, TypeOK
<1>5. /\ Cardinality(At(S)) = Cardinality(Rest) + (IF pc[p] \in S THEN 1 ELSE 0)
      /\ Cardinality(At(S)') = Cardinality(Rest) + (IF l \in S THEN 1 ELSE 0)
  <2>1. Cardinality(Rest) + 0 = Cardinality(Rest)
    BY <1>1
  <2> QED
    BY <1>2, <1>3, <1>4, <2>1
<1> HIDE DEF Rest
<1> QED
  BY <1>1, <1>5

\* Every thread starts outside, with the mutex free.
LEMMA TypeInit == Init => IInv
<1> SUFFICES ASSUME Init PROVE IInv
  OBVIOUS
<1>1. TypeOK
  BY DEF Init, TypeOK, PCs
<1>2. MutexOwned
  BY ProcsAssumption DEF Init, MutexOwned
<1>3. Blocked = {}
  BY DEF Init, Blocked, At
<1> QED
  BY <1>1, <1>2, <1>3 DEF IInv, NoLostWakeup

\* The types, and the mutex's ownership by the thread in the critical section.
LEMMA TypeStep == TypeOK /\ MutexOwned /\ [Next]_vars => TypeOK' /\ MutexOwned'
<1> SUFFICES ASSUME TypeOK, MutexOwned, [Next]_vars
             PROVE  TypeOK' /\ MutexOwned'
  OBVIOUS
<1> USE ProcsAssumption DEF TypeOK, MutexOwned, PCs
<1>1. ASSUME NEW p \in Procs, CallSignal(p) PROVE TypeOK' /\ MutexOwned'
  BY <1>1 DEF CallSignal, Goto
<1>2. ASSUME NEW p \in Procs, CallWait(p) PROVE TypeOK' /\ MutexOwned'
  BY <1>2 DEF CallWait, Goto
<1>3. ASSUME NEW p \in Procs, SignalLock(p) PROVE TypeOK' /\ MutexOwned'
  BY <1>3 DEF SignalLock, Acquire, Goto
<1>4. ASSUME NEW p \in Procs, SignalIncrement(p) PROVE TypeOK' /\ MutexOwned'
  BY <1>4 DEF SignalIncrement, Goto
<1>5. ASSUME NEW p \in Procs, SignalNotify(p) PROVE TypeOK' /\ MutexOwned'
  BY <1>5 DEF SignalNotify, Release, Goto, MustNotify, Blocked, At
<1>6. ASSUME NEW p \in Procs, WaitLock(p) PROVE TypeOK' /\ MutexOwned'
  BY <1>6 DEF WaitLock, Acquire, Goto
<1>7. ASSUME NEW p \in Procs, WaitBlock(p) PROVE TypeOK' /\ MutexOwned'
  BY <1>7 DEF WaitBlock, Release, Goto
<1>8. ASSUME NEW p \in Procs, WaitTake(p) PROVE TypeOK' /\ MutexOwned'
  BY <1>8 DEF WaitTake, Release, Goto, MustBlock
<1>9. ASSUME NEW p \in Procs, SpuriousWakeup(p) PROVE TypeOK' /\ MutexOwned'
  BY <1>9 DEF SpuriousWakeup, Goto
<1>10. CASE UNCHANGED vars
  BY <1>10 DEF vars
<1> QED
  BY <1>1, <1>2, <1>3, <1>4, <1>5, <1>6, <1>7, <1>8, <1>9, <1>10
  DEF Next, Step

\* Each step keeps a permit from being stranded.  Blocking threads have seen
\* count <= 0; a signal's increment is paid for by its own pending notify, and
\* the notify by the thread it wakes.
LEMMA WakeupStep == IInv /\ [Next]_vars => NoLostWakeup'
<1> SUFFICES ASSUME IInv, [Next]_vars
             PROVE  NoLostWakeup'
  OBVIOUS
<1> DEFINE Notifiers == At({"s_notify"})
           A == Cardinality(Awake)
           N == Cardinality(Notifiers)
<1>0. /\ A \in Nat /\ N \in Nat /\ A' \in Nat /\ N' \in Nat
      /\ TypeOK /\ MutexOwned /\ NoLostWakeup /\ TypeOK'
      /\ count \in Nat /\ count' \in Nat
  <2>1. TypeOK'
    BY TypeStep DEF IInv
  <2>2. A \in Nat /\ N \in Nat
    BY AtFinite DEF Awake
  <2>3. A' \in Nat /\ N' \in Nat
    <3>1. \A S \in SUBSET PCs : IsFiniteSet(At(S)') /\ Cardinality(At(S)') \in Nat
      BY ProcsAssumption, FS_Subset, FS_CardinalityType DEF At
    <3> QED
      BY <3>1 DEF Awake, PCs
  <2> QED
    BY <2>1, <2>2, <2>3 DEF IInv, TypeOK
<1>1. ASSUME NEW p \in Procs, CallSignal(p) PROVE NoLostWakeup'
  <2>1. A' = A /\ N' = N
    BY <1>0, <1>1, MoveCount DEF CallSignal, Awake
  <2>2. Blocked' = Blocked
    BY <1>0, <1>1 DEF CallSignal, Goto, Blocked, At, TypeOK
  <2> QED
    BY <1>0, <1>1, <2>1, <2>2 DEF CallSignal, NoLostWakeup
<1>2. ASSUME NEW p \in Procs, CallWait(p) PROVE NoLostWakeup'
  <2>1. A' = A + 1 /\ N' = N
    BY <1>0, <1>2, MoveCount DEF CallWait, Awake
  <2>2. Blocked' = Blocked
    BY <1>0, <1>2 DEF CallWait, Goto, Blocked, At, TypeOK
  <2> QED
    BY <1>0, <1>2, <2>1, <2>2 DEF CallWait, NoLostWakeup
<1>3. ASSUME NEW p \in Procs, SignalLock(p) PROVE NoLostWakeup'
  <2>1. A' = A /\ N' = N
    BY <1>0, <1>3, MoveCount DEF SignalLock, Awake
  <2>2. Blocked' = Blocked
    BY <1>0, <1>3 DEF SignalLock, Goto, Blocked, At, TypeOK
  <2> QED
    BY <1>0, <1>3, <2>1, <2>2 DEF SignalLock, NoLostWakeup
<1>4. ASSUME NEW p \in Procs, SignalIncrement(p) PROVE NoLostWakeup'
  <2>1. A' = A /\ N' = N + 1
    BY <1>0, <1>4, MoveCount DEF SignalIncrement, Awake
  <2>2. Blocked' = Blocked
    BY <1>0, <1>4 DEF SignalIncrement, Goto, Blocked, At, TypeOK
  <2> QED
    BY <1>0, <1>4, <2>1, <2>2 DEF SignalIncrement, NoLostWakeup
<1>5. ASSUME NEW p \in Procs, SignalNotify(p) PROVE NoLostWakeup'
  <2>1. CASE Blocked = {}
    BY <1>0, <1>5, <2>1 DEF SignalNotify, Goto, Blocked, At, TypeOK, NoLostWakeup
  <2>2. CASE Blocked # {}
    <3>1. PICK q \in Blocked : pc' = [pc EXCEPT ![p] = "out", ![q] = "w_relock"]
      BY <1>5, <2>2 DEF SignalNotify, MustNotify
    <3>2. q \in Procs /\ pc[q] = "blocked" /\ pc[p] = "s_notify" /\ p # q
      BY <1>5 DEF Blocked, At, SignalNotify
    <3>3. A' = A + 1
      <4>1. Awake' = Awake \cup {q} /\ q \notin Awake
        BY <1>0, <3>1, <3>2 DEF Awake, At, TypeOK
      <4> QED
        BY <4>1, AtFinite, FS_AddElement DEF Awake
    <3>4. N' = N - 1
      <4>1. Notifiers' = Notifiers \ {p} /\ p \in Notifiers
        BY <1>0, <3>1, <3>2 DEF At, TypeOK
      <4>2. IsFiniteSet(Notifiers)
        BY AtFinite
      <4> QED
        BY <4>1, <4>2, FS_RemoveElement
    <3>5. count' = count
      BY <1>5 DEF SignalNotify
    <3> QED
      BY <1>0, <2>2, <3>3, <3>4, <3>5 DEF NoLostWakeup
  <2> QED
    BY <2>1, <2>2
<1>6. ASSUME NEW p \in Procs, WaitLock(p) PROVE NoLostWakeup'
  <2>1. A' = A /\ N' = N
    BY <1>0, <1>6, MoveCount DEF WaitLock, Awake
  <2>2. Blocked' = Blocked
    BY <1>0, <1>6 DEF WaitLock, Goto, Blocked, At, TypeOK
  <2> QED
    BY <1>0, <1>6, <2>1, <2>2 DEF WaitLock, NoLostWakeup
<1>7. ASSUME NEW p \in Procs, WaitBlock(p) PROVE NoLostWakeup'
  <2>1. count' = 0
    BY <1>0, <1>7 DEF WaitBlock, MustBlock
  <2> QED
    BY <1>0, <2>1 DEF NoLostWakeup
<1>8. ASSUME NEW p \in Procs, WaitTake(p) PROVE NoLostWakeup'
  <2>1. A' = A - 1 /\ N' = N
    BY <1>0, <1>8, MoveCount DEF WaitTake, Awake
  <2>2. Blocked' = Blocked /\ count' = count - 1
    BY <1>0, <1>8 DEF WaitTake, Goto, Blocked, At, TypeOK
  <2> QED
    BY <1>0, <2>1, <2>2 DEF NoLostWakeup
<1>9. ASSUME NEW p \in Procs, SpuriousWakeup(p) PROVE NoLostWakeup'
  <2>1. A' = A + 1 /\ N' = N
    BY <1>0, <1>9, MoveCount DEF SpuriousWakeup, Awake
  <2>2. Blocked # {} /\ count' = count
    BY <1>9 DEF SpuriousWakeup, Blocked, At
  <2> QED
    BY <1>0, <2>1, <2>2 DEF NoLostWakeup
<1>10. CASE UNCHANGED vars
  BY <1>0, <1>10 DEF vars, NoLostWakeup, Blocked, Awake, At
<1> QED
  BY <1>1, <1>2, <1>3, <1>4, <1>5, <1>6, <1>7, <1>8, <1>9, <1>10
  DEF Next, Step

\* The invariant holds of every behaviour, fair or not.
LEMMA Inductive == SafeSpec => []IInv
<1>1. IInv /\ [Next]_vars => IInv'
  BY TypeStep, WakeupStep DEF IInv
<1> QED
  BY <1>1, TypeInit, PTL DEF SafeSpec

\* The variables of signal() and wait() stay within their types.
THEOREM TypeCorrect == Spec => []TypeOK
<1>1. IInv => TypeOK
  BY DEF IInv
<1> QED
  BY <1>1, Inductive, PTL DEF Spec

\* At most one thread at a time is between the lock and the unlock of
\* signal() or wait(), and it is the mutex's owner (lock.cpp 68-83).
THEOREM MutualExclusion == Spec => []MutexOwned
<1>1. IInv => MutexOwned
  BY DEF IInv
<1> QED
  BY <1>1, Inductive, PTL DEF Spec

\* No permit is stranded while a thread is blocked in cond.wait(), for any
\* number of threads and signals.
THEOREM PermitsAreFetched == Spec => []NoLostWakeup
<1>1. IInv => NoLostWakeup
  BY DEF IInv
<1> QED
  BY <1>1, Inductive, PTL DEF Spec

\* Which threads are waiting changes only at the call and the return of wait().
LEMMA WaitingMove ==
  ASSUME TypeOK, NEW p \in Procs, NEW l, Goto(p, l)
  PROVE  Waiting' = (Waiting \ {p}) \cup
                    (IF l \in {"blocked", "w_lock", "w_test", "w_relock"}
                       THEN {p} ELSE {})
BY DEF Waiting, Blocked, Awake, At, Goto, TypeOK

\* Every step is a step of the abstract semaphore or leaves it unchanged.
LEMMA StepSimulation == TypeOK /\ [Next]_vars => [Abs!Next]_(Abs!vars)
<1> SUFFICES ASSUME TypeOK, [Next]_vars
             PROVE  [Abs!Next]_(Abs!vars)
  OBVIOUS
<1> DEFINE Stutter == count' = count /\ Waiting' = Waiting
<1>1. Stutter => UNCHANGED Abs!vars
  BY DEF Abs!vars
<1>2. ASSUME NEW p \in Procs, CallWait(p) PROVE Abs!BeginWait(p)
  BY <1>2, WaitingMove
  DEF CallWait, Abs!BeginWait, Waiting, Blocked, Awake, At
<1>3. ASSUME NEW p \in Procs, SignalIncrement(p) PROVE Abs!Signal
  BY <1>3, WaitingMove
  DEF SignalIncrement, Abs!Signal, Waiting, Blocked, Awake, At
<1>4. ASSUME NEW p \in Procs, WaitTake(p) PROVE Abs!EndWait(p)
  <2>1. Waiting' = Waiting \ {p} /\ p \in Waiting
    BY <1>4, WaitingMove DEF WaitTake, Waiting, Blocked, Awake, At
  <2>2. count > 0 /\ count' = count - 1
    BY <1>4 DEF WaitTake, MustBlock, TypeOK
  <2> QED
    BY <2>1, <2>2 DEF Abs!EndWait
<1>5. ASSUME NEW p \in Procs, CallSignal(p) \/ SignalLock(p) PROVE Stutter
  BY <1>5, WaitingMove
  DEF CallSignal, SignalLock, Waiting, Blocked, Awake, At
<1>6. ASSUME NEW p \in Procs, SignalNotify(p) PROVE Stutter
  <2>1. Waiting' = Waiting
    BY <1>6 DEF SignalNotify, Goto, TypeOK, Waiting, Blocked, Awake, At
  <2> QED
    BY <1>6, <2>1 DEF SignalNotify
<1>7. ASSUME NEW p \in Procs, WaitLock(p) \/ WaitBlock(p) \/ SpuriousWakeup(p)
      PROVE  Stutter
  BY <1>7, WaitingMove
  DEF WaitLock, WaitBlock, SpuriousWakeup, Waiting, Blocked, Awake, At
<1>8. CASE UNCHANGED vars
  BY <1>8 DEF vars, Abs!vars, Waiting, Blocked, Awake, At
<1> QED
  BY <1>1, <1>2, <1>3, <1>4, <1>5, <1>6, <1>7, <1>8
  DEF Next, Step, Abs!Next

\* Semaphore implements the counting semaphore its callers reason with: each
\* return of wait() consumes one permit that a signal() produced.
THEOREM Refinement == Spec => AbsSafeSpec
<1>1. Init => Abs!Init
  BY DEF Init, Abs!Init, Waiting, Blocked, Awake, At
<1>2. IInv => TypeOK
  BY DEF IInv
<1> QED
  BY <1>1, <1>2, StepSimulation, Inductive, PTL
  DEF Spec, SafeSpec, AbsSafeSpec, Abs!SafeSpec

----------------------------------------------------------------------------
\* RdWrLock

\* The reader count is exact, a first reader waiting for writeMtx is the only
\* counted one and keeps the others out with readMtx, and writeMtx stays
\* locked from the first reader's entry to the last one's exit.
CountExact == count = Cardinality(Counted)

FirstReaderAlone ==
  /\ \A p \in Procs : pc[p] = "rd_first" <=> readMtx = p
  /\ \A p \in Procs : pc[p] = "rd_first" => Counted = {p}

WriteMtxHeld ==
  /\ \A p \in Procs : pc[p] = "writing" => writeMtx = p
  /\ \A p \in Procs : pc[p] \in {"reading", "rd_unlock"} =>
       writeMtx # NoProc /\ \A q \in Procs : pc[q] # "writing"

RwInv == RwTypeOK /\ CountExact /\ FirstReaderAlone /\ WriteMtxHeld

\* Nobody is counted at the start.
LEMMA RwInvInit == RwInit => RwInv
<1> SUFFICES ASSUME RwInit PROVE RwInv
  OBVIOUS
<1>1. Counted = {}
  BY DEF RwInit, Counted, At
<1>2. CountExact
  BY <1>1, FS_EmptySet DEF RwInit, CountExact
<1> QED
  BY <1>2, ProcsAssumption
  DEF RwInit, RwInv, RwTypeOK, RwPCs, FirstReaderAlone, WriteMtxHeld

\* The counted threads are finitely many, and the count is zero exactly when
\* there are none.
LEMMA CountedFinite ==
  /\ IsFiniteSet(Counted)
  /\ Cardinality(Counted) \in Nat
  /\ Cardinality(Counted) = 0 <=> Counted = {}
BY ProcsAssumption, FS_Subset, FS_CardinalityType, FS_EmptySet DEF Counted, At

\* A thread that moves to l is counted afterwards exactly if l is one of the
\* counted places.
LEMMA MoveCounted ==
  ASSUME RwTypeOK, NEW p \in Procs, NEW l, Goto(p, l)
  PROVE  Counted' = IF l \in {"rd_first", "reading", "rd_unlock"}
                      THEN Counted \cup {p} ELSE Counted \ {p}
BY DEF Counted, At, Goto, RwTypeOK

\* One more reader, or one reader less, moves the count by one.
LEMMA CountStep ==
  ASSUME NEW p
  PROVE  /\ p \notin Counted =>
              Cardinality(Counted \cup {p}) = Cardinality(Counted) + 1
         /\ p \in Counted =>
              Cardinality(Counted \ {p}) = Cardinality(Counted) - 1
BY CountedFinite, FS_AddElement, FS_RemoveElement

\* The invariant is inductive.
LEMMA RwInvStep == RwInv /\ [RwNext]_rwVars => RwInv'
<1> SUFFICES ASSUME RwInv, [RwNext]_rwVars PROVE RwInv'
  OBVIOUS
<1> USE ProcsAssumption
<1>0. RwTypeOK /\ CountExact /\ FirstReaderAlone /\ WriteMtxHeld
  BY DEF RwInv
<1>1. ASSUME NEW p \in Procs, CallRdLock(p) PROVE RwInv'
  <2>1. Counted' = Counted
    BY <1>0, <1>1, MoveCounted DEF CallRdLock, Counted, At
  <2> QED
    BY <1>0, <1>1, <2>1 DEF CallRdLock, Goto, RwInv, RwTypeOK, RwPCs, CountExact,
       FirstReaderAlone, WriteMtxHeld
<1>2. ASSUME NEW p \in Procs, RdLockFirst(p) PROVE RwInv'
  <2>1. Counted = {}
    BY <1>0, <1>2, CountedFinite
    DEF RdLockFirst, FirstReader, CountExact, RwTypeOK
  <2>2. Counted' = {p}
    BY <1>0, <1>2, <2>1, MoveCounted DEF RdLockFirst
  <2>3. CountExact'
    <3>1. Counted' = Counted \cup {p} /\ p \notin Counted
      BY <2>1, <2>2
    <3> QED
      BY <1>0, <1>2, <3>1, CountStep DEF RdLockFirst, CountExact
  <2>4. RwTypeOK' /\ WriteMtxHeld'
    BY <1>0, <1>2 DEF RdLockFirst, Goto, RwTypeOK, RwPCs, WriteMtxHeld
  <2>5. FirstReaderAlone'
    BY <1>0, <1>2, <2>2 DEF RdLockFirst, Goto, RwTypeOK, FirstReaderAlone
  <2> QED
    BY <2>3, <2>4, <2>5 DEF RwInv
<1>3. ASSUME NEW p \in Procs, RdLockWriteMtx(p) PROVE RwInv'
  <2>1. Counted' = Counted
    BY <1>0, <1>3, MoveCounted DEF RdLockWriteMtx, Counted, At
  <2>2. \A q \in Procs : pc[q] # "writing"
    BY <1>0, <1>3 DEF RdLockWriteMtx, WriteMtxHeld
  <2> QED
    BY <1>0, <1>3, <2>1, <2>2 DEF RdLockWriteMtx, Goto, RwInv, RwTypeOK, RwPCs,
       CountExact, FirstReaderAlone, WriteMtxHeld
<1>4. ASSUME NEW p \in Procs, RdLockNext(p) PROVE RwInv'
  <2>1. PICK q \in Procs : pc[q] \in {"reading", "rd_unlock"}
    BY <1>0, <1>4, CountedFinite
    DEF RdLockNext, FirstReader, CountExact, RwTypeOK, Counted, At,
        FirstReaderAlone
  <2>2. Counted' = Counted \cup {p} /\ p \notin Counted
    BY <1>0, <1>4, MoveCounted DEF RdLockNext, Counted, At
  <2>3. CountExact'
    BY <1>0, <1>4, <2>2, CountStep DEF RdLockNext, CountExact
  <2>4. RwTypeOK'
    BY <1>0, <1>4 DEF RdLockNext, Goto, RwTypeOK, RwPCs
  <2>5. FirstReaderAlone'
    BY <1>0, <1>4 DEF RdLockNext, Goto, RwTypeOK, FirstReaderAlone
  <2>6. WriteMtxHeld'
    BY <1>0, <1>4, <2>1 DEF RdLockNext, Goto, RwTypeOK, WriteMtxHeld
  <2> QED
    BY <2>3, <2>4, <2>5, <2>6 DEF RwInv
<1>5. ASSUME NEW p \in Procs, CallRdUnlock(p) PROVE RwInv'
  <2>1. Counted' = Counted
    BY <1>0, <1>5, MoveCounted DEF CallRdUnlock, Counted, At
  <2> QED
    BY <1>0, <1>5, <2>1 DEF CallRdUnlock, Goto, RwInv, RwTypeOK, RwPCs, CountExact,
       FirstReaderAlone, WriteMtxHeld
<1>6. ASSUME NEW p \in Procs, RdUnlock(p) PROVE RwInv'
  <2>1. Counted' = Counted \ {p} /\ p \in Counted
    BY <1>0, <1>6, MoveCounted DEF RdUnlock, Counted, At
  <2>2. CountExact' /\ count' \in Nat
    BY <1>0, <1>6, <2>1, CountStep, CountedFinite, FS_RemoveElement
    DEF RdUnlock, CountExact
  <2>3. RwTypeOK'
    BY <1>0, <1>6, <2>2 DEF RdUnlock, Goto, RwTypeOK, RwPCs
  <2>4. FirstReaderAlone'
    BY <1>0, <1>6 DEF RdUnlock, Goto, RwTypeOK, FirstReaderAlone
  <2>5. WriteMtxHeld'
    <3>1. CASE LastReader
      <4>1. Counted' = {}
        BY <1>0, <2>1, <3>1, CountedFinite, CountStep, FS_RemoveElement,
           FS_EmptySet
        DEF CountExact, LastReader
      <4> QED
        BY <1>0, <1>6, <4>1 DEF RdUnlock, Goto, RwTypeOK, WriteMtxHeld, Counted, At
    <3>2. CASE ~ LastReader
      BY <1>0, <1>6, <3>2 DEF RdUnlock, Goto, RwTypeOK, WriteMtxHeld
    <3> QED
      BY <3>1, <3>2
  <2> QED
    BY <2>2, <2>3, <2>4, <2>5 DEF RwInv
<1>7. ASSUME NEW p \in Procs, CallWrLock(p) PROVE RwInv'
  <2>1. Counted' = Counted
    BY <1>0, <1>7, MoveCounted DEF CallWrLock, Counted, At
  <2> QED
    BY <1>0, <1>7, <2>1 DEF CallWrLock, Goto, RwInv, RwTypeOK, RwPCs, CountExact,
       FirstReaderAlone, WriteMtxHeld
<1>8. ASSUME NEW p \in Procs, WrLock(p) PROVE RwInv'
  <2>1. Counted' = Counted
    BY <1>0, <1>8, MoveCounted DEF WrLock, Counted, At
  <2> QED
    BY <1>0, <1>8, <2>1 DEF WrLock, Goto, RwInv, RwTypeOK, RwPCs, CountExact,
       FirstReaderAlone, WriteMtxHeld
<1>9. ASSUME NEW p \in Procs, WrUnlock(p) PROVE RwInv'
  <2>1. Counted' = Counted
    BY <1>0, <1>9, MoveCounted DEF WrUnlock, Counted, At
  <2> QED
    BY <1>0, <1>9, <2>1 DEF WrUnlock, Goto, RwInv, RwTypeOK, RwPCs, CountExact,
       FirstReaderAlone, WriteMtxHeld
<1>10. CASE UNCHANGED rwVars
  BY <1>0, <1>10 DEF rwVars, RwInv, RwTypeOK, CountExact, FirstReaderAlone,
     WriteMtxHeld, Counted, At
<1> QED
  BY <1>1, <1>2, <1>3, <1>4, <1>5, <1>6, <1>7, <1>8, <1>9, <1>10
  DEF RwNext, RwStep, RwUser

\* The mutex owners and the reader count stay within their types: the count
\* never goes below zero.
THEOREM RwTypeCorrect == RwSpec => []RwTypeOK
<1>1. RwInv => RwTypeOK
  BY DEF RwInv
<1> QED
  BY <1>1, RwInvInit, RwInvStep, PTL DEF RwSpec, RwSafeSpec

\* A thread between wrlock() and wrunlock() is alone, for any number of
\* readers and writers.
THEOREM WriterAlone == RwSpec => []Exclusion
<1>1. RwInv => Exclusion
  BY ProcsAssumption DEF RwInv, WriteMtxHeld, Exclusion
<1> QED
  BY <1>1, RwInvInit, RwInvStep, PTL DEF RwSpec, RwSafeSpec

\* Every step is a step of the abstract lock or leaves it unchanged: a reader is
\* in when rdlock() has writeMtx or finds other readers there, and out again
\* when it calls rdunlock().
LEMMA RwStepSimulation == RwInv /\ [RwNext]_rwVars => [RwAbs!Next]_(RwAbs!vars)
<1> SUFFICES ASSUME RwInv, [RwNext]_rwVars
             PROVE  [RwAbs!Next]_(RwAbs!vars)
  OBVIOUS
<1> DEFINE WantRead == At({"rd_lock", "rd_first"})
           WantWrite == At({"wr_lock"})
           Readers == At({"reading"})
           Writers == At({"writing"})
           Stutter == /\ WantRead' = WantRead /\ WantWrite' = WantWrite
                      /\ Readers' = Readers /\ Writers' = Writers
<1>0. RwTypeOK /\ CountExact /\ FirstReaderAlone /\ WriteMtxHeld
  BY DEF RwInv
<1>1. Stutter => UNCHANGED RwAbs!vars
  BY DEF RwAbs!vars
<1>2. ASSUME NEW p \in Procs, CallRdLock(p) PROVE RwAbs!AskRead(p)
  BY <1>0, <1>2 DEF Goto, RwTypeOK, CallRdLock, RwAbs!AskRead, RwAbs!Idle, At
<1>3. ASSUME NEW p \in Procs, CallWrLock(p) PROVE RwAbs!AskWrite(p)
  BY <1>0, <1>3 DEF Goto, RwTypeOK, CallWrLock, RwAbs!AskWrite, RwAbs!Idle, At
<1>4. ASSUME NEW p \in Procs, RdLockWriteMtx(p) PROVE RwAbs!BeginRead(p)
  <2>1. Writers = {}
    BY <1>0, <1>4, ProcsAssumption DEF RdLockWriteMtx, WriteMtxHeld, At
  <2> QED
    BY <1>0, <1>4, <2>1 DEF Goto, RwTypeOK, RdLockWriteMtx, RwAbs!BeginRead, At
<1>5. ASSUME NEW p \in Procs, RdLockNext(p) PROVE RwAbs!BeginRead(p)
  <2>1. PICK q \in Procs : pc[q] \in {"reading", "rd_unlock"}
    <3>1. Counted # {}
      BY <1>0, <1>5, CountedFinite DEF RdLockNext, FirstReader, CountExact
    <3>2. \A q \in Procs : pc[q] # "rd_first"
      BY <1>0, <1>5, ProcsAssumption DEF RdLockNext, FirstReaderAlone
    <3> QED
      BY <3>1, <3>2 DEF Counted, At
  <2>2. Writers = {}
    BY <1>0, <2>1 DEF WriteMtxHeld, At
  <2> QED
    BY <1>0, <1>5, <2>2 DEF Goto, RwTypeOK, RdLockNext, RwAbs!BeginRead, At
<1>6. ASSUME NEW p \in Procs, WrLock(p) PROVE RwAbs!BeginWrite(p)
  <2>1. Writers = {} /\ Readers = {}
    BY <1>0, <1>6, ProcsAssumption DEF WrLock, WriteMtxHeld, At
  <2>2. Writers' = {p}
    BY <1>0, <1>6, <2>1 DEF Goto, RwTypeOK, WrLock, At
  <2> QED
    BY <1>0, <1>6, <2>1, <2>2 DEF WrLock, Goto, RwTypeOK, RwAbs!BeginWrite, At
<1>7. ASSUME NEW p \in Procs, CallRdUnlock(p) PROVE RwAbs!EndRead(p)
  BY <1>0, <1>7 DEF CallRdUnlock, Goto, RwTypeOK, RwAbs!EndRead, At
<1>8. ASSUME NEW p \in Procs, WrUnlock(p) PROVE RwAbs!EndWrite(p)
  BY <1>0, <1>8 DEF WrUnlock, Goto, RwTypeOK, RwAbs!EndWrite, At
<1>9. ASSUME NEW p \in Procs, RdLockFirst(p) \/ RdUnlock(p) PROVE Stutter
  BY <1>0, <1>9 DEF RdLockFirst, RdUnlock, Goto, RwTypeOK, At
<1>10. CASE UNCHANGED rwVars
  BY <1>10 DEF rwVars, RwAbs!vars, At
<1> QED
  BY <1>1, <1>2, <1>3, <1>4, <1>5, <1>6, <1>7, <1>8, <1>9, <1>10
  DEF RwNext, RwStep, RwUser, RwAbs!Next, RwAbs!Enter

\* RdWrLock implements the readers-writer lock its callers reason with: whoever
\* gets in finds nobody in its way, at the very step that lets it in.
THEOREM RwRefinement == RwSpec => AbsRwSafeSpec
<1>1. RwInit => RwAbs!Init
  BY DEF RwInit, RwAbs!Init, At
<1> QED
  BY <1>1, RwStepSimulation, RwInvInit, RwInvStep, PTL
  DEF RwSpec, RwSafeSpec, AbsRwSafeSpec, RwAbs!SafeSpec
=============================================================================
