--------------------------- MODULE ModulMgrProofs ---------------------------
(***************************************************************************)
(* Proofs about ModulMgr, for every set of IDs, modules and posters: type  *)
(* correctness, that a registration is taken back by UnRegister() only,    *)
(* and that the life of a module's thread encloses its registration, as    *)
(* long as no two owners remove modules of the same ID.                    *)
(***************************************************************************)
EXTENDS ModulMgr, SequenceTheorems, TLAPS

\* A poster on its way to a module has an ID left to post to.
TodoLeft == \A p \in Posters : ppc[p] # "idle" => todo[p] # <<>>

\* Register() starts the thread, once.
Unstarted == {"new", "check", "thread", "failed"}
ThreadAge == \A o \in Mods : thread[o] = "none" <=> own[o] \in Unstarted

\* What is in the map has a thread.
Threaded == \A i \in Ids : map[i] # None => thread[map[i]] # "none"

\* UnRegister() erases an entry whose ModInfo it deleted, and nobody else
\* can be about to erase the same entry.
Erasing == {"elock", "erase"}
FreedFirst == \A o \in Mods : own[o] \in Erasing => Victim(o) \in freed
OneEraser ==
  \A o, q \in Mods :
    own[o] \in Erasing /\ own[q] \in Erasing /\ IdOf[o] = IdOf[q] => o = q

IInv ==
  TypeOK /\ TodoLeft /\ ThreadAge /\ Threaded /\ FreedFirst /\ OneEraser

----------------------------------------------------------------------------
\* Types.

\* The initial state is well typed.
LEMMA TypesInit == Init => TypeOK
<1> SUFFICES ASSUME Init PROVE TypeOK
  OBVIOUS
<1>1. /\ map \in [Ids -> Mods \cup {None}] /\ readers \in Nat
      /\ writer \in Mods \cup {None}
      /\ stopped \in SUBSET Mods /\ freed \in SUBSET Mods /\ timers \in SUBSET Mods
      /\ todo \in [Posters -> Seq(Ids)] /\ sent \in [Posters -> Nat]
  BY DEF Init
<1>2. /\ own = [o \in Mods |-> "new"] /\ thread = [o \in Mods |-> "none"]
      /\ ppc = [p \in Posters |-> "idle"]
      /\ missed = [p \in Posters |-> FALSE] /\ crashed = FALSE
  BY DEF Init
<1> QED
  BY <1>1, <1>2 DEF TypeOK

\* The owners' steps keep the types.
LEMMA OwnerTypes ==
  ASSUME TypeOK, NEW o \in Mods, OwnerCall(o) \/ OwnerStep(o) \/ RunEnds(o)
  PROVE  TypeOK'
<1> USE ConstantsAssumption DEF TypeOK, OwnGoto, mgrVars, posterVars
<1>0. IdOf[o] \in Ids
  OBVIOUS
<1>1. CASE RegisterCall(o) \/ RegisterCheck(o)
  BY <1>1 DEF RegisterCall, RegisterCheck
<1>2. CASE RegisterThread(o)
  BY <1>2 DEF RegisterThread
<1>3. CASE RegisterLock(o)
  BY <1>3 DEF RegisterLock
<1>4. CASE RegisterWrite(o)
  BY <1>0, <1>4 DEF RegisterWrite, Emplace
<1>5. CASE RegisterTimer(o)
  BY <1>5 DEF RegisterTimer
<1>6. CASE StopModul(o)
  BY <1>6 DEF StopModul
<1>7. CASE RunEnds(o)
  BY <1>7 DEF RunEnds
<1>8. CASE UnRegisterCall(o) \/ UnRegisterFind(o) \/ UnRegisterJoin(o)
  BY <1>8 DEF UnRegisterCall, UnRegisterFind, UnRegisterJoin
<1>9. CASE UnRegisterFree(o)
  BY <1>9 DEF UnRegisterFree
<1>10. CASE UnRegisterLock(o)
  BY <1>10 DEF UnRegisterLock
<1>11. CASE UnRegisterErase(o)
  BY <1>0, <1>11 DEF UnRegisterErase
<1> QED
  BY <1>1, <1>2, <1>3, <1>4, <1>5, <1>6, <1>7, <1>8, <1>9, <1>10, <1>11
  DEF OwnerCall, OwnerStep

\* What is left of a sequence without its head.
LEMMA TailLeft ==
  ASSUME NEW S, NEW q \in Seq(S), q # <<>>
  PROVE  Tail(q) \in Seq(S) /\ (Len(q) > 1 => Tail(q) # <<>>)
<1>1. Tail(q) \in Seq(S) /\ Len(Tail(q)) = Len(q) - 1 /\ Len(q) \in Nat
  OBVIOUS
<1>2. Tail(q) = <<>> <=> Len(Tail(q)) = 0
  BY <1>1, EmptySeq
<1> QED
  BY <1>1, <1>2

\* The posters' steps keep the types, and never look for an ID that is not
\* there.
LEMMA PosterTypes ==
  ASSUME TypeOK, TodoLeft, NEW p \in Posters, PosterCall(p) \/ PosterStep(p)
  PROVE  TypeOK' /\ TodoLeft'
<1> DEFINE PPCs == {"idle", "scan", "find", "call"}
<1> USE ConstantsAssumption DEF TypeOK, TodoLeft, PostGoto, mgrVars
<1>1. ASSUME NEW i \in Ids, PostOne(p, i) PROVE TypeOK' /\ TodoLeft'
  BY <1>1 DEF PostOne
<1>2. ASSUME NEW ids \in Targets, PostMany(p, ids) PROVE TypeOK' /\ TodoLeft'
  BY <1>2 DEF PostMany
<1>3. CASE ScanOk(p)
  BY <1>3 DEF ScanOk
<1>4. CASE ScanFails(p)
  BY <1>4 DEF ScanFails
<1>5. CASE PostFound(p)
  BY <1>5 DEF PostFound
<1>6. ASSUME NextId(p), ppc[p] # "idle"
      PROVE  /\ todo' \in [Posters -> Seq(Ids)] /\ ppc' \in [Posters -> PPCs]
             /\ TodoLeft'
  <2> DEFINE q == todo[p]
  <2>1. /\ q \in Seq(Ids) /\ q # <<>> /\ todo' = [todo EXCEPT ![p] = Tail(q)]
        /\ ppc' = [ppc EXCEPT ![p] = IF Len(q) > 1 THEN "find" ELSE "idle"]
    BY <1>6 DEF NextId
  <2> HIDE DEF q
  <2>2. Tail(q) \in Seq(Ids) /\ (Len(q) > 1 => Tail(q) # <<>>)
    BY <2>1, TailLeft
  <2>3. todo' \in [Posters -> Seq(Ids)] /\ ppc' \in [Posters -> PPCs]
    BY <2>1, <2>2
  <2> QED
    BY <2>1, <2>2, <2>3
<1>7. CASE PostNotFound(p)
  BY <1>6, <1>7 DEF PostNotFound
<1>8. CASE PostCall(p)
  BY <1>6, <1>8 DEF PostCall
<1> QED
  BY <1>1, <1>2, <1>3, <1>4, <1>5, <1>7, <1>8 DEF PosterCall, PosterStep

----------------------------------------------------------------------------
\* Registration and removal.

\* What the owners' steps do to the map, the threads and the deleted
\* ModInfos: all the rest of the invariant is about these.
LEMMA OwnerInv ==
  ASSUME IInv, NEW o \in Mods, OwnerCall(o) \/ OwnerStep(o) \/ RunEnds(o)
  PROVE  ThreadAge' /\ Threaded' /\ FreedFirst' /\ OneEraser'
<1>0. /\ TypeOK /\ ThreadAge /\ Threaded /\ FreedFirst /\ OneEraser
      /\ TypeOK' /\ IdOf \in [Mods -> Ids] /\ None \notin Mods
  BY ConstantsAssumption, OwnerTypes DEF IInv
<1> USE <1>0 DEF TypeOK, OwnGoto, Unstarted, Erasing, Victim
<1>1. ASSUME UNCHANGED <<map, freed, thread>>,
             own' = [own EXCEPT ![o] = own'[o]],
             own[o] \in Unstarted <=> own'[o] \in Unstarted,
             own'[o] \in Erasing => own[o] \in Erasing
      PROVE  ThreadAge' /\ Threaded' /\ FreedFirst' /\ OneEraser'
  <2>1. \A q \in Mods \ {o} : own'[q] = own[q]
    BY <1>1
  <2>2. ThreadAge'
    BY <1>1, <2>1 DEF ThreadAge
  <2>3. Threaded'
    BY <1>1 DEF Threaded
  <2>4. FreedFirst'
    BY <1>1, <2>1 DEF FreedFirst
  <2>5. OneEraser'
    BY <1>1, <2>1 DEF OneEraser
  <2> QED
    BY <2>2, <2>3, <2>4, <2>5
<1>2. ASSUME \/ RegisterCall(o) \/ RegisterCheck(o) \/ RegisterLock(o)
             \/ RegisterTimer(o) \/ UnRegisterCall(o) \/ UnRegisterFind(o)
             \/ UnRegisterJoin(o) \/ UnRegisterLock(o)
      PROVE  ThreadAge' /\ Threaded' /\ FreedFirst' /\ OneEraser'
  <2>1. /\ UNCHANGED <<map, freed, thread>>
        /\ own' = [own EXCEPT ![o] = own'[o]]
        /\ own[o] \in Unstarted <=> own'[o] \in Unstarted
        /\ own'[o] \in Erasing => own[o] \in Erasing
    BY <1>2
    DEF RegisterCall, RegisterCheck, RegisterLock, RegisterTimer, UnRegisterCall,
        UnRegisterFind, UnRegisterJoin, UnRegisterLock
  <2> QED
    BY <1>1, <2>1
<1>3. CASE StopModul(o)
  BY <1>3 DEF StopModul, ThreadAge, Threaded, FreedFirst, OneEraser
<1>4. CASE RegisterThread(o)
  BY <1>4 DEF RegisterThread, ThreadAge, Threaded, FreedFirst, OneEraser
<1>5. CASE RunEnds(o)
  BY <1>5 DEF RunEnds, ThreadAge, Threaded, FreedFirst, OneEraser
<1>6. CASE RegisterWrite(o)
  <2>1. /\ own[o] = "write" /\ own' = [own EXCEPT ![o] = "timer"]
        /\ UNCHANGED <<freed, thread>>
        /\ \A i \in Ids : map'[i] = map[i] \/ (map[i] = None /\ map'[i] = o)
    BY <1>6 DEF RegisterWrite, Emplace
  <2>2. ThreadAge' /\ OneEraser' /\ thread[o] # "none"
    BY <2>1 DEF ThreadAge, OneEraser
  <2>3. Threaded'
    BY <2>1, <2>2 DEF Threaded
  <2>4. FreedFirst'
    <3> SUFFICES ASSUME NEW q \in Mods, own'[q] \in Erasing
                 PROVE  map'[IdOf[q]] \in freed
      BY <2>1 DEF FreedFirst
    <3>1. own[q] \in Erasing
      BY <2>1
    <3>2. map[IdOf[q]] \in freed /\ map[IdOf[q]] # None
      BY <3>1 DEF FreedFirst
    <3> QED
      BY <2>1, <3>2
  <2> QED
    BY <2>2, <2>3, <2>4
<1>7. CASE UnRegisterFree(o)
  <2>1. /\ own[o] = "free" /\ own' = [own EXCEPT ![o] = "elock"]
        /\ Victim(o) \notin freed /\ freed' = freed \cup {Victim(o)}
        /\ UNCHANGED <<map, thread>>
    BY <1>7 DEF UnRegisterFree
  <2>2. ThreadAge' /\ Threaded'
    BY <2>1 DEF ThreadAge, Threaded
  <2>3. FreedFirst'
    BY <2>1 DEF FreedFirst
  <2>4. \A q \in Mods : own[q] \in Erasing => IdOf[q] # IdOf[o]
    BY <2>1 DEF FreedFirst
  <2>5. OneEraser'
    BY <2>1, <2>4 DEF OneEraser
  <2> QED
    BY <2>2, <2>3, <2>5
<1>8. CASE UnRegisterErase(o)
  <2>1. /\ own[o] = "erase" /\ own' = [own EXCEPT ![o] = "gone"]
        /\ map' = [map EXCEPT ![IdOf[o]] = None]
        /\ UNCHANGED <<freed, thread>>
    BY <1>8 DEF UnRegisterErase
  <2>2. ThreadAge' /\ Threaded' /\ OneEraser'
    BY <2>1 DEF ThreadAge, Threaded, OneEraser
  <2>3. FreedFirst'
    BY <2>1 DEF FreedFirst, OneEraser
  <2> QED
    BY <2>2, <2>3
<1> QED
  BY <1>2, <1>3, <1>4, <1>5, <1>6, <1>7, <1>8 DEF OwnerCall, OwnerStep

\* The rest of the invariant does not look at what posters, and a process that
\* dies, change.
LEMMA Untouched ==
  ASSUME IInv, UNCHANGED <<map, mgrVars>>
  PROVE  ThreadAge' /\ Threaded' /\ FreedFirst' /\ OneEraser'
BY DEF IInv, mgrVars, ThreadAge, Threaded, FreedFirst, OneEraser, Victim

\* Every step keeps the invariant.
LEMMA InvStep == IInv /\ [Next]_vars => IInv'
<1> SUFFICES ASSUME IInv, [Next]_vars PROVE IInv'
  OBVIOUS
<1>0. TypeOK /\ TodoLeft
  BY DEF IInv
<1>1. ASSUME NEW o \in Mods, OwnerCall(o) \/ OwnerStep(o) \/ RunEnds(o)
      PROVE  IInv'
  <2>1. UNCHANGED posterVars
    BY <1>1
    DEF OwnerCall, OwnerStep, RunEnds, RegisterCall, RegisterCheck,
        RegisterThread, RegisterLock, RegisterWrite, RegisterTimer, StopModul,
        UnRegisterCall, UnRegisterFind, UnRegisterJoin, UnRegisterFree,
        UnRegisterLock, UnRegisterErase
  <2>2. TypeOK' /\ TodoLeft'
    BY <1>0, <1>1, <2>1, OwnerTypes DEF TodoLeft, posterVars
  <2> QED
    BY <1>1, <2>2, OwnerInv DEF IInv
<1>2. ASSUME NEW p \in Posters, PosterCall(p) \/ PosterStep(p) PROVE IInv'
  <2>1. UNCHANGED <<map, mgrVars>>
    BY <1>2
    DEF PosterCall, PosterStep, PostOne, PostMany, ScanOk, ScanFails, PostFound,
        PostNotFound, PostCall
  <2> QED
    BY <1>0, <1>2, <2>1, PosterTypes, Untouched DEF IInv
<1>3. ASSUME Crash \/ UNCHANGED vars PROVE IInv'
  <2>1. UNCHANGED <<map, mgrVars, posterVars>>
    BY <1>3 DEF Crash, vars, mgrVars, posterVars
  <2>2. TodoLeft'
    BY <1>0, <2>1 DEF TodoLeft, posterVars
  <2>3. TypeOK'
    <3>1. CASE Crash
      BY <1>0, <3>1 DEF Crash, TypeOK, mgrVars, posterVars
    <3>2. CASE UNCHANGED vars
      BY <1>0, <3>2 DEF TypeOK, vars
    <3> QED
      BY <1>3, <3>1, <3>2
  <2> QED
    BY <2>1, <2>2, <2>3, Untouched DEF IInv
<1> QED
  BY <1>1, <1>2, <1>3 DEF Next

\* The registry starts empty.
LEMMA InvInit == Init => IInv
<1> SUFFICES ASSUME Init PROVE IInv
  OBVIOUS
<1>1. /\ map = [i \in Ids |-> None]
      /\ own = [o \in Mods |-> "new"] /\ thread = [o \in Mods |-> "none"]
      /\ ppc = [p \in Posters |-> "idle"]
  BY DEF Init
<1>2. TodoLeft /\ ThreadAge /\ Threaded /\ FreedFirst /\ OneEraser
  BY <1>1, ConstantsAssumption
  DEF TodoLeft, ThreadAge, Unstarted, Threaded, FreedFirst, OneEraser, Erasing
<1> QED
  BY <1>2, TypesInit DEF IInv

\* The invariant holds in every reachable state.
LEMMA Inductive == Spec => []IInv
<1> QED
  BY InvInit, InvStep, PTL DEF Spec, SafeSpec

----------------------------------------------------------------------------

\* The registry's state is well typed; in particular PostMsg() never goes on to
\* an ID that its vector does not have.
THEOREM TypeCorrect == Spec => []TypeOK
<1>1. IInv => TypeOK
  BY DEF IInv
<1> QED
  BY <1>1, Inductive, PTL

\* However many owners race between Register()'s unlocked count() and its
\* emplace(), and between UnRegister()'s look-ups and its erase(): an ID that
\* is taken stays with its module until UnRegister() deleted that module's
\* ModInfo (modul_mgr.cpp 40-56, 78-83).
THEOREM RegistrationsStay == Spec => RegistrationStable
<1>1. IInv /\ [Next]_vars =>
        [\A i \in Ids : map[i] # None /\ map'[i] # map[i] =>
           map'[i] = None /\ map[i] \in freed]_vars
  <2> SUFFICES ASSUME IInv, Next, NEW i \in Ids,
                      map[i] # None, map'[i] # map[i]
               PROVE  map'[i] = None /\ map[i] \in freed
    OBVIOUS
  <2>0. map \in [Ids -> Mods \cup {None}] /\ FreedFirst
    BY DEF IInv, TypeOK
  <2>1. ASSUME NEW o \in Mods, UnRegisterErase(o)
        PROVE  map'[i] = None /\ map[i] \in freed
    BY <2>0, <2>1 DEF UnRegisterErase, FreedFirst, Erasing, Victim
  <2>2. ASSUME NEW o \in Mods, RegisterWrite(o) PROVE FALSE
    BY <2>0, <2>2 DEF RegisterWrite, Emplace
  <2>3. ASSUME NEW o \in Mods,
               OwnerCall(o) \/ OwnerStep(o) \/ RunEnds(o)
        PROVE  UnRegisterErase(o) \/ RegisterWrite(o)
    BY <2>3
    DEF OwnerCall, OwnerStep, RunEnds, RegisterCall, RegisterCheck,
        RegisterThread, RegisterLock, RegisterTimer, StopModul, UnRegisterCall,
        UnRegisterFind, UnRegisterJoin, UnRegisterFree, UnRegisterLock
  <2>4. ASSUME NEW p \in Posters, PosterCall(p) \/ PosterStep(p) PROVE FALSE
    BY <2>4
    DEF PosterCall, PosterStep, PostOne, PostMany, ScanOk, ScanFails, PostFound,
        PostNotFound, PostCall
  <2>5. CASE Crash
    BY <2>5 DEF Crash
  <2> QED
    BY <2>1, <2>2, <2>3, <2>4, <2>5 DEF Next
<1> QED
  BY <1>1, Inductive, PTL DEF Spec, SafeSpec, RegistrationStable

----------------------------------------------------------------------------
\* The lives of threads and registrations, when no two owners remove modules
\* of the same ID.

OneRemover == \A o, q \in Removable : IdOf[o] = IdOf[q] => o = q

\* Between its join and its delete, UnRegister() has the same module in hand,
\* and that module's thread has ended.
Leaving == {"find", "join", "free", "elock", "erase", "gone"}
OnlyRemovable == \A o \in Mods : own[o] \in Leaving => o \in Removable
Joined ==
  \A o \in Mods :
    own[o] = "free" => Victim(o) \in Mods /\ thread[Victim(o)] = "ended"
FreedEnded == \A o \in freed : thread[o] = "ended"

LifeInv == OnlyRemovable /\ Joined /\ FreedEnded

\* A thread that ended does not run again.
LEMMA EndedStays ==
  ASSUME IInv, NEW o \in Mods, OwnerCall(o) \/ OwnerStep(o) \/ RunEnds(o),
         NEW m \in Mods, thread[m] = "ended"
  PROVE  thread'[m] = "ended"
<1>0. TypeOK /\ ThreadAge
  BY DEF IInv
<1>1. CASE RegisterThread(o)
  <2>1. own[o] = "thread" /\ thread' = [thread EXCEPT ![o] = "run"]
    BY <1>1 DEF RegisterThread
  <2>2. m # o
    BY <1>0, <2>1 DEF ThreadAge, Unstarted
  <2> QED
    BY <1>0, <2>1, <2>2 DEF TypeOK
<1>2. CASE RunEnds(o)
  BY <1>0, <1>2 DEF RunEnds, TypeOK
<1>3. ASSUME ~ RegisterThread(o), ~ RunEnds(o) PROVE thread' = thread
  BY <1>3
  DEF OwnerCall, OwnerStep, RegisterCall, RegisterCheck, RegisterLock,
      RegisterWrite, RegisterTimer, StopModul, UnRegisterCall, UnRegisterFind,
      UnRegisterJoin, UnRegisterFree, UnRegisterLock, UnRegisterErase
<1> QED
  BY <1>1, <1>2, <1>3

\* A step of an owner that neither joins, deletes nor erases.
LEMMA LifeKept ==
  ASSUME OneRemover, IInv, LifeInv, NEW o \in Mods,
         OwnerCall(o) \/ OwnerStep(o) \/ RunEnds(o),
         freed' = freed,
         \A i \in Ids : map[i] # None => map'[i] = map[i],
         \A q \in Mods : own'[q] = "free" => own[q] = "free",
         \A q \in Mods : own'[q] \in Leaving => q \in Removable
  PROVE  LifeInv'
<1>0. /\ TypeOK /\ OnlyRemovable /\ Joined /\ FreedEnded
      /\ IdOf \in [Mods -> Ids] /\ None \notin Mods /\ freed \subseteq Mods
  BY ConstantsAssumption DEF IInv, LifeInv, TypeOK
<1>1. OnlyRemovable'
  BY DEF OnlyRemovable, Leaving
<1>2. FreedEnded'
  BY <1>0, EndedStays DEF FreedEnded
<1>3. Joined'
  <2> SUFFICES ASSUME NEW q \in Mods, own'[q] = "free"
               PROVE  map'[IdOf[q]] \in Mods /\ thread'[map'[IdOf[q]]] = "ended"
    BY DEF Joined, Victim
  <2>1. map[IdOf[q]] \in Mods /\ thread[map[IdOf[q]]] = "ended"
    BY <1>0 DEF Joined, Victim
  <2>2. map'[IdOf[q]] = map[IdOf[q]]
    BY <1>0, <2>1
  <2> QED
    BY <2>1, <2>2, EndedStays
<1> QED
  BY <1>1, <1>2, <1>3 DEF LifeInv

\* Every step of an owner keeps the lives in order.
LEMMA LifeOwner ==
  ASSUME OneRemover, IInv, LifeInv, NEW o \in Mods,
         OwnerCall(o) \/ OwnerStep(o) \/ RunEnds(o)
  PROVE  LifeInv'
<1>0. /\ TypeOK /\ OnlyRemovable /\ Joined /\ FreedEnded
      /\ IdOf \in [Mods -> Ids] /\ None \notin Mods /\ freed \subseteq Mods
  BY ConstantsAssumption DEF IInv, LifeInv, TypeOK
<1>1. ASSUME \/ RegisterCall(o) \/ RegisterCheck(o) \/ RegisterThread(o)
             \/ RegisterLock(o) \/ RegisterTimer(o) \/ StopModul(o)
             \/ UnRegisterCall(o) \/ UnRegisterFind(o) \/ UnRegisterLock(o)
             \/ RunEnds(o)
      PROVE  LifeInv'
  <2>1. /\ freed' = freed /\ map' = map
        /\ \/ own' = own
           \/ \E l : /\ own' = [own EXCEPT ![o] = l] /\ l # "free"
                     /\ l \in Leaving => o \in Removable
    BY <1>0, <1>1
    DEF RegisterCall, RegisterCheck, RegisterThread, RegisterLock, RegisterTimer,
        StopModul, UnRegisterCall, UnRegisterFind, UnRegisterLock, RunEnds, OwnGoto,
        OnlyRemovable, Leaving
  <2>2. \A q \in Mods : /\ own'[q] = "free" => own[q] = "free"
                        /\ own'[q] \in Leaving => q \in Removable
    BY <1>0, <2>1 DEF TypeOK, OnlyRemovable
  <2> QED
    BY <2>1, <2>2, LifeKept
<1>2. CASE RegisterWrite(o)
  <2>1. /\ freed' = freed /\ own' = [own EXCEPT ![o] = "timer"]
        /\ \A i \in Ids : map[i] # None => map'[i] = map[i]
    BY <1>0, <1>2 DEF RegisterWrite, Emplace, OwnGoto, TypeOK
  <2>2. \A q \in Mods : /\ own'[q] = "free" => own[q] = "free"
                        /\ own'[q] \in Leaving => q \in Removable
    BY <1>0, <2>1 DEF TypeOK, OnlyRemovable, Leaving
  <2> QED
    BY <2>1, <2>2, LifeKept
<1>3. CASE UnRegisterJoin(o)
  <2>1. /\ own[o] = "join" /\ own' = [own EXCEPT ![o] = "free"]
        /\ Victim(o) \in Mods /\ thread[Victim(o)] = "ended"
        /\ UNCHANGED <<map, thread, freed>>
    BY <1>3 DEF UnRegisterJoin, Joinable, OwnGoto
  <2>2. OnlyRemovable'
    BY <1>0, <2>1 DEF OnlyRemovable, Leaving, TypeOK
  <2>3. Joined' /\ FreedEnded'
    BY <1>0, <2>1 DEF Joined, FreedEnded, TypeOK, Victim
  <2> QED
    BY <2>2, <2>3 DEF LifeInv
<1>4. CASE UnRegisterFree(o)
  <2>1. /\ own[o] = "free" /\ own' = [own EXCEPT ![o] = "elock"]
        /\ freed' = freed \cup {Victim(o)} /\ UNCHANGED <<map, thread>>
    BY <1>4 DEF UnRegisterFree, OwnGoto
  <2>2. OnlyRemovable'
    BY <1>0, <2>1 DEF OnlyRemovable, Leaving, TypeOK
  <2>3. Joined' /\ FreedEnded'
    BY <1>0, <2>1 DEF Joined, FreedEnded, TypeOK, Victim
  <2> QED
    BY <2>2, <2>3 DEF LifeInv
<1>5. CASE UnRegisterErase(o)
  <2>1. /\ own[o] = "erase" /\ own' = [own EXCEPT ![o] = "gone"]
        /\ map' = [map EXCEPT ![IdOf[o]] = None]
        /\ UNCHANGED <<thread, freed>>
    BY <1>5 DEF UnRegisterErase, OwnGoto
  <2>2. OnlyRemovable' /\ FreedEnded'
    BY <1>0, <2>1 DEF OnlyRemovable, FreedEnded, Leaving, TypeOK
  <2>3. \A q \in Mods : own[q] = "free" => IdOf[q] # IdOf[o]
    BY <1>0, <2>1 DEF OnlyRemovable, Leaving, OneRemover
  <2>4. Joined'
    BY <1>0, <2>1, <2>3 DEF Joined, TypeOK, Victim
  <2> QED
    BY <2>2, <2>4 DEF LifeInv
<1> QED
  BY <1>1, <1>2, <1>3, <1>4, <1>5 DEF OwnerCall, OwnerStep

\* Posters and a process that dies touch nothing of this.
LEMMA LifeStep == OneRemover /\ IInv /\ LifeInv /\ [Next]_vars => LifeInv'
<1> SUFFICES ASSUME OneRemover, IInv, LifeInv, [Next]_vars PROVE LifeInv'
  OBVIOUS
<1>1. ASSUME NEW o \in Mods, OwnerCall(o) \/ OwnerStep(o) \/ RunEnds(o)
      PROVE  LifeInv'
  BY <1>1, LifeOwner
<1>2. ASSUME \/ \E p \in Posters : PosterCall(p) \/ PosterStep(p)
             \/ Crash \/ UNCHANGED vars
      PROVE  UNCHANGED <<map, mgrVars>>
  BY <1>2
  DEF PosterCall, PosterStep, PostOne, PostMany, ScanOk, ScanFails, PostFound,
      PostNotFound, PostCall, Crash, vars, mgrVars
<1>3. ASSUME UNCHANGED <<map, mgrVars>> PROVE LifeInv'
  BY <1>3
  DEF mgrVars, LifeInv, OnlyRemovable, Joined, FreedEnded, Victim
<1> QED
  BY <1>1, <1>2, <1>3 DEF Next

\* A module to which a message can be routed has its thread, and what
\* UnRegister() deleted belongs to a thread that ended (modul_mgr.cpp 48, 78-79).
\* Two owners that remove modules of one ID at a time break the second half:
\* one of them deletes the module registered after the other's erase().
THEOREM ThreadsCoverInfos == OneRemover => (Spec => []ThreadCoversInfo)
<1> SUFFICES ASSUME OneRemover PROVE Spec => []ThreadCoversInfo
  OBVIOUS
<1>1. Init => LifeInv
  BY DEF Init, LifeInv, OnlyRemovable, Leaving, Joined, FreedEnded
<1>2. IInv /\ LifeInv /\ [Next]_vars => LifeInv'
  BY LifeStep
<1>3. IInv /\ LifeInv => ThreadCoversInfo
  BY DEF IInv, LifeInv, Threaded, FreedEnded, ThreadCoversInfo
<1> QED
  BY <1>1, <1>2, <1>3, Inductive, PTL DEF Spec, SafeSpec
=============================================================================
