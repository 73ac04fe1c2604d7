------------------------------ MODULE ModulMgr ------------------------------
(***************************************************************************)
(* gdres::ModulMgr (modulmgr/modul_mgr.h, modul_mgr.cpp): the registry of  *)
(* modules, m_mods, and the routing of messages to them.                   *)
(*                                                                         *)
(* Each module object has an owner, the thread that constructs it: Init()  *)
(* registers it once, and later the owner may Stop() and UnRegister() it.  *)
(* Posters are the other threads, which send messages.  FindModulId() and  *)
(* the insertions and erasures are under the RdWrLock, shown in RdWrLock   *)
(* to be one; Register()'s count(), UnRegister()'s and PostMsg()'s         *)
(* m_mods[...] are not.  A read of the map while another thread changes it *)
(* is a data race: the thread reads the old state or the process dies.     *)
(*                                                                         *)
(*   own  new, check, thread, lock, write, timer, up | failed    Register  *)
(*        find, join, free, elock, erase, gone                   UnRegister*)
(*   ppc  idle, scan (many ids), find, call                      PostMsg   *)
(***************************************************************************)
EXTENDS Integers, Sequences, FiniteSets

CONSTANTS
  Ids,           \* module IDs
  Mods,          \* module objects
  IdOf,          \* Mods -> Ids
  Posters,
  Targets,       \* the vectors of IDs PostMsg() is called with, none empty
  Stoppable,     \* the modules whose owner calls Stop() before UnRegister()
  Removable,     \* the modules whose owner calls UnRegister()
  None,          \* no module, no thread
  MaxReaders     \* bound of the model on readers

ASSUME ConstantsAssumption ==
  /\ IdOf \in [Mods -> Ids]
  /\ Targets \subseteq Seq(Ids) \ {<<>>}
  /\ Stoppable \subseteq Mods /\ Removable \subseteq Mods
  /\ None \notin Mods

VARIABLES
  map,       \* m_mods: Ids -> the registered module, or None
  readers,   \* m_wrMtx: number of rdlock() not given back
  writer,    \* m_wrMtx: the owner that holds the write lock, or None
  own,       \* each owner
  thread,    \* ModInfo::th: none, run (in Run()), ended
  stopped,   \* m_stopping of the modules
  freed,     \* the modules whose ModInfo was deleted
  timers,    \* the modules whose default timer was added
  ppc, todo, \* each poster, and the IDs it has still to send to
  sent,      \* history: messages delivered in this call of PostMsg()
  missed,    \* history: an ID was not found in this call
  crashed

vars == <<map, readers, writer, own, thread, stopped, freed, timers,
          ppc, todo, sent, missed, crashed>>
mgrVars    == <<own, thread, stopped, freed, timers>>
posterVars == <<ppc, todo, sent, missed>>

Init ==
  /\ map = [i \in Ids |-> None]
  /\ readers = 0 /\ writer = None
  /\ own = [o \in Mods |-> "new"]
  /\ thread = [o \in Mods |-> "none"]
  /\ stopped = {} /\ freed = {} /\ timers = {}
  /\ ppc = [p \in Posters |-> "idle"]
  /\ todo = [p \in Posters |-> <<>>]
  /\ sent = [p \in Posters |-> 0]
  /\ missed = [p \in Posters |-> FALSE]
  /\ crashed = FALSE

\* When m_wrMtx lets a reader or a writer in.
MayRead  == writer = None
MayWrite == writer = None /\ readers = 0

\* m_mods is being changed.
InFlux == writer # None

OwnGoto(o, l) == own' = [own EXCEPT ![o] = l]
PostGoto(p, l) == ppc' = [ppc EXCEPT ![p] = l]

----------------------------------------------------------------------------
\* Register()

RegisterCall(o) ==
  /\ own[o] = "new"
  /\ OwnGoto(o, "check")
  /\ UNCHANGED <<map, readers, writer, thread, stopped, freed, timers,
                 posterVars, crashed>>

\* count(), without the lock.
RegisterCheck(o) ==
  /\ own[o] = "check"
  /\ OwnGoto(o, IF map[IdOf[o]] # None THEN "failed" ELSE "thread")
  /\ UNCHANGED <<map, readers, writer, thread, stopped, freed, timers,
                 posterVars, crashed>>

\* The Thread's constructor returns once the thread runs.
RegisterThread(o) ==
  /\ own[o] = "thread"
  /\ thread' = [thread EXCEPT ![o] = "run"]
  /\ OwnGoto(o, "lock")
  /\ UNCHANGED <<map, readers, writer, stopped, freed, timers, posterVars,
                 crashed>>

RegisterLock(o) ==
  /\ own[o] = "lock"
  /\ MayWrite
  /\ writer' = o
  /\ OwnGoto(o, "write")
  /\ UNCHANGED <<map, readers, thread, stopped, freed, timers, posterVars,
                 crashed>>

\* A mutant: m_mods[id] = modInfo.
Assign(o) == map' = [map EXCEPT ![IdOf[o]] = o]

\* emplace() leaves an entry alone that is there already.
Emplace(o) ==
  map' = [map EXCEPT ![IdOf[o]] = IF @ = None THEN o ELSE @]

\* A mutant: wrunlock() is forgotten.
RegisterWriteKeepsLock(o) ==
  /\ own[o] = "write"
  /\ Emplace(o)
  /\ OwnGoto(o, "timer")
  /\ UNCHANGED <<readers, writer, thread, stopped, freed, timers, posterVars,
                 crashed>>

RegisterWrite(o) ==
  /\ own[o] = "write"
  /\ Emplace(o)
  /\ writer' = None
  /\ OwnGoto(o, "timer")
  /\ UNCHANGED <<readers, thread, stopped, freed, timers, posterVars, crashed>>

RegisterTimer(o) ==
  /\ own[o] = "timer"
  /\ timers' = timers \cup {o}
  /\ OwnGoto(o, "up")
  /\ UNCHANGED <<map, readers, writer, thread, stopped, freed, posterVars,
                 crashed>>

----------------------------------------------------------------------------
\* Stop() by the owner, and the end of Run() it brings about (ModulBase).

StopModul(o) ==
  /\ o \in Stoppable \ stopped
  /\ own[o] = "up"
  /\ stopped' = stopped \cup {o}
  /\ UNCHANGED <<map, readers, writer, own, thread, freed, timers, posterVars,
                 crashed>>

RunEnds(o) ==
  /\ thread[o] = "run" /\ o \in stopped
  /\ thread' = [thread EXCEPT ![o] = "ended"]
  /\ UNCHANGED <<map, readers, writer, own, stopped, freed, timers,
                 posterVars, crashed>>

----------------------------------------------------------------------------
\* UnRegister(IdOf[o]), called by o's owner.  The module it removes is the
\* one the map holds, which need not be o.

UnRegisterCall(o) ==
  /\ o \in Removable /\ own[o] = "up"
  /\ o \in Stoppable => o \in stopped
  /\ OwnGoto(o, "find")
  /\ UNCHANGED <<map, readers, writer, thread, stopped, freed, timers,
                 posterVars, crashed>>

UnRegisterFind(o) ==
  /\ own[o] = "find"
  /\ MayRead
  /\ OwnGoto(o, IF map[IdOf[o]] = None THEN "gone" ELSE "join")
  /\ UNCHANGED <<map, readers, writer, thread, stopped, freed, timers,
                 posterVars, crashed>>

Victim(o) == map[IdOf[o]]

\* A mutant: the module's thread is not waited for.
NotRunning == {"none", "run", "ended"}

\* The states in which ~Thread()'s join() returns.
Joinable == {"ended"}

\* delete th joins the module's thread: nothing here makes it end.
UnRegisterJoin(o) ==
  /\ own[o] = "join"
  /\ Victim(o) \in Mods \ freed
  /\ thread[Victim(o)] \in Joinable
  /\ OwnGoto(o, "free")
  /\ UNCHANGED <<map, readers, writer, thread, stopped, freed, timers,
                 posterVars, crashed>>

UnRegisterFree(o) ==
  /\ own[o] = "free"
  /\ Victim(o) \in Mods \ freed
  /\ freed' = freed \cup {Victim(o)}
  /\ OwnGoto(o, "elock")
  /\ UNCHANGED <<map, readers, writer, thread, stopped, timers, posterVars,
                 crashed>>

UnRegisterLock(o) ==
  /\ own[o] = "elock"
  /\ MayWrite
  /\ writer' = o
  /\ OwnGoto(o, "erase")
  /\ UNCHANGED <<map, readers, thread, stopped, freed, timers, posterVars,
                 crashed>>

UnRegisterErase(o) ==
  /\ own[o] = "erase"
  /\ map' = [map EXCEPT ![IdOf[o]] = None]
  /\ writer' = None
  /\ OwnGoto(o, "gone")
  /\ UNCHANGED <<readers, thread, stopped, freed, timers, posterVars, crashed>>

----------------------------------------------------------------------------
\* PostMsg() to one ID, and to a vector of IDs: the vector is scanned under
\* the read lock, then each ID gets a PostMsg() of its own.

PostOne(p, i) ==
  /\ ppc[p] = "idle"
  /\ todo' = [todo EXCEPT ![p] = <<i>>]
  /\ sent' = [sent EXCEPT ![p] = 0]
  /\ missed' = [missed EXCEPT ![p] = FALSE]
  /\ PostGoto(p, "find")
  /\ UNCHANGED <<map, readers, writer, mgrVars, crashed>>

PostMany(p, ids) ==
  /\ ppc[p] = "idle"
  /\ readers < MaxReaders
  /\ todo' = [todo EXCEPT ![p] = ids]
  /\ sent' = [sent EXCEPT ![p] = 0]
  /\ missed' = [missed EXCEPT ![p] = FALSE]
  /\ PostGoto(p, "scan")
  /\ UNCHANGED <<map, readers, writer, mgrVars, crashed>>

Unknown(p) == \E j \in 1..Len(todo[p]) : map[todo[p][j]] = None

\* A mutant: rdunlock() is called once too often.
ScanOkUnlocksTwice(p) ==
  /\ ppc[p] = "scan"
  /\ MayRead /\ ~ Unknown(p)
  /\ readers' = readers - 1
  /\ PostGoto(p, "find")
  /\ UNCHANGED <<map, writer, mgrVars, todo, sent, missed, crashed>>

ScanOk(p) ==
  /\ ppc[p] = "scan"
  /\ MayRead /\ ~ Unknown(p)
  /\ PostGoto(p, "find")
  /\ UNCHANGED <<map, readers, writer, mgrVars, todo, sent, missed, crashed>>

\* The early return keeps the read lock.
ScanFails(p) ==
  /\ ppc[p] = "scan"
  /\ MayRead /\ Unknown(p)
  /\ readers' = readers + 1
  /\ missed' = [missed EXCEPT ![p] = TRUE]
  /\ todo' = [todo EXCEPT ![p] = <<>>]
  /\ PostGoto(p, "idle")
  /\ UNCHANGED <<map, writer, mgrVars, sent, crashed>>

\* On to the next ID of the vector, or back to the caller.
NextId(p) ==
  /\ todo' = [todo EXCEPT ![p] = Tail(@)]
  /\ PostGoto(p, IF Len(todo[p]) > 1 THEN "find" ELSE "idle")

PostFound(p) ==
  /\ ppc[p] = "find"
  /\ MayRead /\ map[Head(todo[p])] # None
  /\ PostGoto(p, "call")
  /\ UNCHANGED <<map, readers, writer, mgrVars, todo, sent, missed, crashed>>

PostNotFound(p) ==
  /\ ppc[p] = "find"
  /\ MayRead /\ map[Head(todo[p])] = None
  /\ missed' = [missed EXCEPT ![p] = TRUE]
  /\ NextId(p)
  /\ UNCHANGED <<map, readers, writer, mgrVars, sent, crashed>>

\* notifyItf() of what the map holds now, which may be a deleted ModInfo.
PostCall(p) ==
  /\ ppc[p] = "call"
  /\ map[Head(todo[p])] # None
  /\ sent' = [sent EXCEPT ![p] = @ + 1]
  /\ NextId(p)
  /\ UNCHANGED <<map, readers, writer, mgrVars, missed, crashed>>

----------------------------------------------------------------------------

\* A thread uses m_mods[...] without the lock while the map is being changed,
\* or finds no ModInfo there, or a deleted one.
Crash ==
  /\ \/ \E o \in Mods :
          \/ own[o] \in {"check", "join", "free"} /\ InFlux
          \/ own[o] \in {"join", "free"} /\ Victim(o) \notin Mods \ freed
     \/ \E p \in Posters :
          /\ ppc[p] = "call"
          /\ InFlux \/ map[Head(todo[p])] \notin Mods \ freed
  /\ crashed' = TRUE
  /\ UNCHANGED <<map, readers, writer, mgrVars, posterVars>>

OwnerStep(o) ==
  \/ RegisterCheck(o) \/ RegisterThread(o) \/ RegisterLock(o)
  \/ RegisterWrite(o) \/ RegisterTimer(o)
  \/ UnRegisterFind(o) \/ UnRegisterJoin(o) \/ UnRegisterFree(o)
  \/ UnRegisterLock(o) \/ UnRegisterErase(o)

OwnerCall(o) == RegisterCall(o) \/ StopModul(o) \/ UnRegisterCall(o)

PosterStep(p) ==
  ScanOk(p) \/ ScanFails(p) \/ PostFound(p) \/ PostNotFound(p) \/ PostCall(p)

PosterCall(p) ==
  (\E i \in Ids : PostOne(p, i)) \/ (\E ids \in Targets : PostMany(p, ids))

Next ==
  /\ ~ crashed
  /\ \/ \E o \in Mods : OwnerCall(o) \/ OwnerStep(o) \/ RunEnds(o)
     \/ \E p \in Posters : PosterCall(p) \/ PosterStep(p)
     \/ Crash

\* Threads inside a function run on, and Run() returns after Stop() (shown in
\* ModulBase).  Nobody owes a call.
Fairness ==
  /\ \A o \in Mods : WF_vars(~ crashed /\ OwnerStep(o))
  /\ \A o \in Mods : WF_vars(~ crashed /\ RunEnds(o))
  /\ \A p \in Posters : WF_vars(~ crashed /\ PosterStep(p))

SafeSpec == Init /\ [][Next]_vars
Spec == SafeSpec /\ Fairness

----------------------------------------------------------------------------

TypeOK ==
  /\ map \in [Ids -> Mods \cup {None}]
  /\ readers \in Nat
  /\ writer \in Mods \cup {None}
  /\ own \in [Mods -> {"new", "check", "thread", "lock", "write", "timer", "up",
                       "failed", "find", "join", "free", "elock", "erase", "gone"}]
  /\ thread \in [Mods -> {"none", "run", "ended"}]
  /\ stopped \in SUBSET Mods /\ freed \in SUBSET Mods /\ timers \in SUBSET Mods
  /\ ppc \in [Posters -> {"idle", "scan", "find", "call"}]
  /\ todo \in [Posters -> Seq(Ids)]
  /\ sent \in [Posters -> Nat]
  /\ missed \in [Posters -> BOOLEAN]
  /\ crashed \in BOOLEAN

\* The life of a registration encloses the life of its thread: a module that
\* a message can be routed to has its thread, and what UnRegister() deletes
\* belongs to a thread that ended.
ThreadCoversInfo ==
  /\ \A i \in Ids : map[i] # None => thread[map[i]] # "none"
  /\ \A o \in freed : thread[o] = "ended"

\* Register() never takes an ID away from a module that has it, however late
\* it comes after its unlocked count(): an entry goes only by UnRegister().
RegistrationStable ==
  [][\A i \in Ids : map[i] # None /\ map'[i] # map[i] =>
       map'[i] = None /\ map[i] \in freed]_vars

Registering == {"check", "thread", "lock", "write", "timer"}
Removing    == {"free", "elock", "erase"}

\* Register() returns, and so does UnRegister() once the module's thread has
\* ended: the lock is always given back, unless some PostMsg() to a vector
\* with an unknown ID has kept a read lock.
CallsReturn ==
  \A o \in Mods :
    own[o] \in Registering \cup Removing ~>
      own[o] \in {"up", "failed", "gone"} \/ readers > 0 \/ crashed

\* Register() and UnRegister() are supported whatever was posted before
\* (README 1.5 (1)): the call returns.
RegisterReturns ==
  \A o \in Mods :
    own[o] \in Registering ~> own[o] \in {"up", "failed"} \/ crashed

\* If one ID of the vector is not found, nothing is sent (modul_mgr.cpp 105).
AllOrNothing == \A p \in Posters : ~ (missed[p] /\ sent[p] > 0)
=============================================================================
