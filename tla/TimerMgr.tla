------------------------------ MODULE TimerMgr ------------------------------
(***************************************************************************)
(* gdres::TimerMgr (timer/timer.h, timer.cpp): the timers and the scan for *)
(* the ones that are due.                                                  *)
(*                                                                         *)
(* m_timers is a set of pointers, so it is walked by address; at[t] is the *)
(* address a timer got from new.  Only m_occur minus the clock matters:    *)
(* left[t] is what is left of the interval in ticks, zero when the timer   *)
(* is due.  Cancel(), Refresh() and Reset() are stubs.                     *)
(***************************************************************************)
EXTENDS Integers

CONSTANTS
  Timers,      \* calls of AddTimer(), each with its callback
  Cycle,       \* the interval of each
  Recurring,   \* those that are recurring
  Addresses    \* where a timer may be allocated

VARIABLES
  at,       \* address of each timer; 0 before new, and after delete
  left,     \* m_occur
  inSet,    \* m_timers
  given,    \* timers whose AddTimer() was called
  since     \* ticks since the timer was started, at most its interval

TimerInit ==
  /\ at = [t \in Timers |-> 0]
  /\ left = [t \in Timers |-> 0]
  /\ inSet = {} /\ given = {}
  /\ since = [t \in Timers |-> 0]

\* new Timer: the interval runs from here.  Memory freed before is used again.
Create(t) ==
  /\ t \notin given
  /\ \E a \in Addresses :
       (\A u \in Timers : at[u] # a) /\ at' = [at EXCEPT ![t] = a]
  /\ left' = [left EXCEPT ![t] = Cycle[t]]
  /\ given' = given \cup {t}
  /\ UNCHANGED <<inSet, since>>

\* m_timers.insert() under the write lock.
Insert(t) ==
  /\ at[t] # 0 /\ t \notin inSet
  /\ inSet' = inSet \cup {t}
  /\ UNCHANGED <<at, left, given, since>>

\* The loop over m_timers stops at the first timer that is not due.
Prefix == {t \in inSet : \A u \in inSet : at[u] <= at[t] => left[u] = 0}

\* A mutant: the next interval starts when the last one ended, as if the scan
\* had come in time.
RearmSkipping(t) == IF since[t] >= Cycle[t] THEN Cycle[t] - 1 ELSE Cycle[t]

Rearm(t) == Cycle[t]

\* A mutant: no timer is erased.
GoneNever(T) == {}

Gone(T) == T \ Recurring

\* GetCbList() under the write lock, with the prefix T of the set.
GetCbList(T) ==
  /\ inSet' = inSet \ Gone(T)
  /\ at' = [t \in Timers |-> IF t \in Gone(T) THEN 0 ELSE at[t]]
  /\ left' = [t \in Timers |-> IF t \in T \cap Recurring THEN Rearm(t) ELSE left[t]]
  /\ since' = [t \in Timers |-> IF t \in T \cap Recurring THEN 0 ELSE since[t]]
  /\ UNCHANGED given

Elapsed(n) == IF n > 0 THEN n - 1 ELSE 0

\* The clock moves on.
Pass ==
  /\ left' = [t \in Timers |-> Elapsed(left[t])]
  /\ since' = [t \in Timers |->
                 IF at[t] # 0 /\ since[t] < Cycle[t] THEN since[t] + 1 ELSE since[t]]
  /\ UNCHANGED <<at, inSet, given>>

TimerTypeOK ==
  /\ at \in [Timers -> Addresses \cup {0}]
  /\ left \in [Timers -> Nat]
  /\ inSet \in SUBSET Timers /\ given \in SUBSET Timers
  /\ since \in [Timers -> Nat]
=============================================================================
