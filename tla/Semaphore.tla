----------------------------- MODULE Semaphore -----------------------------
(***************************************************************************)
(* gdres::Semaphore (parts/lock.h, parts/lock.cpp): a counting semaphore   *)
(* made of a std::mutex, a std::condition_variable and an int.             *)
(*                                                                         *)
(* A thread's pc names where it is:                                        *)
(*   out       in neither function                                         *)
(*   s_lock    in signal(), at the constructor of the unique_lock          *)
(*   s_inc     in signal(), mutex held, before count++                     *)
(*   s_notify  in signal(), mutex held, before notify_one() and the unlock *)
(*   w_lock    in wait(), at the constructor of the unique_lock            *)
(*   w_test    in wait(), mutex held, at the condition of the while        *)
(*   blocked   in cond.wait(), mutex released, not notified yet            *)
(*   w_relock  in cond.wait(), notified, taking the mutex again            *)
(***************************************************************************)
EXTENDS LockUsers

CONSTANT MaxCount    \* bound of the model on count

ASSUME MaxCountAssumption == MaxCount \in Nat

VARIABLE mtx         \* Semaphore::mtx: its owner, or NoProc

vars == <<pc, mtx, count>>

PCs == {"out", "s_lock", "s_inc", "s_notify",
        "w_lock", "w_test", "blocked", "w_relock"}

Blocked  == At({"blocked"})
Awake    == At({"w_lock", "w_test", "w_relock"})
Waiting  == Blocked \cup Awake
Signalling == At({"s_lock", "s_inc"})

Init ==
  /\ pc = [p \in Procs |-> "out"]
  /\ mtx = NoProc
  /\ count = 0

Acquire(p) == mtx = NoProc /\ mtx' = p
Release(p) == mtx = p /\ mtx' = NoProc

----------------------------------------------------------------------------
\* signal()

CallSignal(p) ==
  /\ pc[p] = "out"
  /\ count + Cardinality(Signalling) < MaxCount
  /\ Goto(p, "s_lock")
  /\ UNCHANGED <<mtx, count>>

SignalLock(p) ==
  /\ pc[p] = "s_lock"
  /\ Acquire(p)
  /\ Goto(p, "s_inc")
  /\ UNCHANGED count

SignalIncrement(p) ==
  /\ pc[p] = "s_inc"
  /\ count' = count + 1
  /\ Goto(p, "s_notify")
  /\ UNCHANGED mtx

\* A mutant: notify only when the count leaves zero.
NotifyFirstOnly == count = 1

\* signal() notifies whatever the count is.
MustNotify == TRUE

\* notify_one() wakes any one of the blocked threads, if there is one; the
\* unique_lock's destructor then frees the mutex.
SignalNotify(p) ==
  /\ pc[p] = "s_notify"
  /\ Release(p)
  /\ IF Blocked # {} /\ MustNotify
       THEN \E q \in Blocked : pc' = [pc EXCEPT ![p] = "out", ![q] = "w_relock"]
       ELSE Goto(p, "out")
  /\ UNCHANGED count

----------------------------------------------------------------------------
\* wait()

CallWait(p) ==
  /\ pc[p] = "out"
  /\ Goto(p, "w_lock")
  /\ UNCHANGED <<mtx, count>>

\* A mutant: if in place of while, a woken thread takes without testing again.
WaitLockIf(p) ==
  \/ /\ pc[p] = "w_lock"
     /\ Acquire(p)
     /\ Goto(p, "w_test")
     /\ UNCHANGED count
  \/ /\ pc[p] = "w_relock"
     /\ mtx = NoProc
     /\ count' = count - 1
     /\ Goto(p, "out")
     /\ UNCHANGED mtx

\* The mutex is taken on entry, and again inside cond.wait() after a wake-up;
\* either way the while condition is evaluated next.
WaitLock(p) ==
  /\ pc[p] \in {"w_lock", "w_relock"}
  /\ Acquire(p)
  /\ Goto(p, "w_test")
  /\ UNCHANGED count

MustBlock == count <= 0

\* cond.wait(lck) gives up the mutex and blocks in one step.
WaitBlock(p) ==
  /\ pc[p] = "w_test"
  /\ MustBlock
  /\ Release(p)
  /\ Goto(p, "blocked")
  /\ UNCHANGED count

\* A mutant: wait() forgets count--.
WaitTakeFree(p) ==
  /\ pc[p] = "w_test"
  /\ ~ MustBlock
  /\ Release(p)
  /\ Goto(p, "out")
  /\ UNCHANGED count

WaitTake(p) ==
  /\ pc[p] = "w_test"
  /\ ~ MustBlock
  /\ count' = count - 1
  /\ Release(p)
  /\ Goto(p, "out")

\* The standard lets cond.wait() return without a notification.
SpuriousWakeup(p) ==
  /\ pc[p] = "blocked"
  /\ Goto(p, "w_relock")
  /\ UNCHANGED <<mtx, count>>

----------------------------------------------------------------------------

\* The steps of a thread that is inside one of the functions.
Step(p) ==
  \/ SignalLock(p) \/ SignalIncrement(p) \/ SignalNotify(p)
  \/ WaitLock(p) \/ WaitBlock(p) \/ WaitTake(p)

Next ==
  \E p \in Procs : CallSignal(p) \/ CallWait(p) \/ Step(p) \/ SpuriousWakeup(p)

SafeSpec == Init /\ [][Next]_vars

\* A thread inside a function is scheduled.  Nobody is obliged to call
\* signal(), and no spurious wake-up is owed to anyone.
Spec == SafeSpec /\ \A p \in Procs : WF_vars(Step(p))

----------------------------------------------------------------------------

TypeOK ==
  /\ pc \in [Procs -> PCs]
  /\ mtx \in Procs \cup {NoProc}
  /\ count \in Nat

\* The mutex is owned by exactly the thread that is between a lock and an
\* unlock of signal() or wait() (lock.cpp 68-83).
MutexOwned ==
  \A p \in Procs : pc[p] \in {"s_inc", "s_notify", "w_test"} <=> mtx = p

\* No lost wake-up: while some thread is blocked in cond.wait(), every permit
\* is matched by a thread that is awake and will test the count, or by a
\* signal() that has still to notify.  Signals arriving faster than the woken
\* threads get the mutex back must not leave a permit nobody is coming for.
NoLostWakeup ==
  Blocked # {} =>
    count <= Cardinality(Awake) + Cardinality(At({"s_notify"}))

\* The permits seen by callers are the count, and the waiters the threads in
\* wait(); the mutex, the wake-ups and their retries are stuttering.
Abs == INSTANCE AbsSemaphore WITH permits <- count, waiters <- Waiting

\* Semaphore implements the counting semaphore its callers use: wait()
\* returns only by consuming a permit a signal() produced, and as long as
\* there are a permit and a waiter some wait() does return.
ImplementsSemaphore == Abs!Spec
AbsSafeSpec == Abs!SafeSpec

=============================================================================
