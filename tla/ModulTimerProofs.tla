-------------------------- MODULE ModulTimerProofs --------------------------
(***************************************************************************)
(* Theorems about ModulTimer, for any timers, intervals and addresses and  *)
(* any size of the pool: no callback comes early, and the callback of a    *)
(* one-shot timer is in one place and runs once.                           *)
(***************************************************************************)
EXTENDS ModulTimer, FiniteSetTheorems, SequenceTheorems, WellFoundedInduction, TLAPS

\* A timer that exists has what is missing of its interval still before it; at
\* least that, for the clock may have stopped counting since.
RestAhead == \A t \in Timers : at[t] # 0 => left[t] + since[t] >= Cycle[t]

\* The scan finds only timers that exist.
SetExists == \A t \in inSet : at[t] # 0

IInv == TimerTypeOK /\ RestAhead /\ SetExists

LEMMA Values ==
  /\ \A t \in Timers : Cycle[t] \in Nat \ {0}
  /\ \A a \in Addresses : a \in Nat \ {0}
  BY TimerAssumption

LEMMA InvInit == Init => IInv
  BY DEF Init, TimerInit, IInv, TimerTypeOK, RestAhead, SetExists

\* A timer that is due, and before which all are, has nothing left.
LEMMA PrefixDue == ASSUME IInv, NEW t \in Prefix PROVE t \in Timers /\ left[t] = 0
<1>1. t \in inSet /\ t \in Timers /\ at[t] \in Nat
  BY Values DEF Prefix, IInv, TimerTypeOK
<1> QED
  BY <1>1 DEF Prefix

LEMMA CreateKeeps == ASSUME IInv, NEW t \in Timers, Create(t) PROVE IInv'
<1>1. PICK a \in Addresses : at' = [at EXCEPT ![t] = a]
  BY DEF Create
<1>2. a # 0 /\ Cycle[t] \in Nat
  BY Values
<1>3. TimerTypeOK'
  BY <1>1, <1>2 DEF IInv, TimerTypeOK, Create
<1>4. RestAhead'
  BY <1>1, <1>2 DEF IInv, TimerTypeOK, RestAhead, Create
<1>5. SetExists'
  BY <1>1, <1>2 DEF IInv, TimerTypeOK, SetExists, Create
<1> QED
  BY <1>3, <1>4, <1>5 DEF IInv

LEMMA InsertKeeps == ASSUME IInv, NEW t \in Timers, Insert(t) PROVE IInv'
  BY DEF IInv, TimerTypeOK, RestAhead, SetExists, Insert

\* One tick less is left, and one more has passed, unless the count has reached
\* the interval.
LEMMA PassKeeps == ASSUME IInv, Pass PROVE IInv'
<1>1. TimerTypeOK'
  BY DEF IInv, TimerTypeOK, Pass, Elapsed
<1>2. RestAhead'
  BY Values DEF IInv, TimerTypeOK, RestAhead, Pass, Elapsed
<1>3. SetExists'
  BY DEF IInv, SetExists, Pass
<1> QED
  BY <1>1, <1>2, <1>3 DEF IInv

\* A recurring timer starts its interval anew; the others are gone.
LEMMA GetCbListKeeps == ASSUME IInv, GetCbList(Prefix) PROVE IInv'
<1>1. TimerTypeOK'
  BY Values DEF IInv, TimerTypeOK, GetCbList, Gone, Rearm
<1>2. RestAhead'
  BY Values DEF IInv, TimerTypeOK, RestAhead, GetCbList, Gone, Rearm
<1>3. SetExists'
  BY DEF IInv, TimerTypeOK, SetExists, GetCbList
<1> QED
  BY <1>1, <1>2, <1>3 DEF IInv

LEMMA Untouched == ASSUME IInv, UNCHANGED timerVars PROVE IInv'
  BY DEF IInv, TimerTypeOK, RestAhead, SetExists, timerVars

LEMMA InvNext == IInv /\ [Next]_vars => IInv'
<1> SUFFICES ASSUME IInv, [Next]_vars PROVE IInv'
  OBVIOUS
<1>1. CASE LoopBegins \/ Test \/ Add
  BY <1>1, Untouched DEF LoopBegins, Test, Add
<1>2. CASE Scan
  BY <1>2, GetCbListKeeps DEF Scan
<1>3. CASE Tick
  BY <1>3, PassKeeps DEF Tick
<1>4. CASE Execute \/ StopSet \/ StopDelete \/ Crash
  BY <1>4, Untouched DEF Execute, StopSet, StopDelete, Crash
<1>5. ASSUME NEW t \in Timers, AddTimer(t) \/ AddTimerInsert(t) PROVE IInv'
  BY <1>5, CreateKeeps, InsertKeeps DEF AddTimer, AddTimerInsert
<1>6. CASE UNCHANGED vars
  BY <1>6, Untouched DEF vars
<1> QED
  BY <1>1, <1>2, <1>3, <1>4, <1>5, <1>6 DEF Next, LoopStep

\* No callback comes early: the scan hands out a timer only when a whole
\* interval has passed since AddTimer() or since it handed it out last, for any
\* timers, and however late the scan comes.
THEOREM CallbacksInTime == Spec => NeverEarly
<1>1. IInv /\ [Next]_vars =>
        [\A t \in Timers : (t \in inSet /\ Scan /\ t \in Prefix) => since[t] >= Cycle[t]]_vars
  <2> SUFFICES ASSUME IInv, NEW t \in Timers, t \in inSet, t \in Prefix
               PROVE  since[t] >= Cycle[t]
    OBVIOUS
  <2>1. left[t] = 0 /\ at[t] # 0
    BY PrefixDue DEF IInv, SetExists
  <2> QED
    BY <2>1, Values DEF IInv, TimerTypeOK, RestAhead
<1> QED
  BY <1>1, InvInit, InvNext, PTL DEF Spec, SafeSpec, NeverEarly

----------------------------------------------------------------------------
\* The order of a scan. A set of timers with addresses of their own can be
\* walked by address: take the lowest, and the others in their order behind it.

InOrder(s, T) ==
  /\ s \in [1 .. Cardinality(T) -> T]
  /\ \A i, j \in DOMAIN s : i < j => at[s[i]] < at[s[j]]

AddressesApart(T) == \A t, u \in T : at[t] = at[u] => t = u

LEMMA LowestExists ==
  ASSUME TimerTypeOK, NEW T \in SUBSET Timers, T # {}
  PROVE  \E m \in T : \A u \in T : at[m] <= at[u]
<1> DEFINE A == {at[t] : t \in T}
<1>1. \A t \in T : at[t] \in Nat
  BY Values DEF TimerTypeOK
<1>2. A \subseteq Nat /\ A # {}
  BY <1>1
<1>3. PICK a \in A : \A b \in A : ~ (<<b, a>> \in OpToRel(<, Nat))
  <2> HIDE DEF A
  <2> QED
    BY <1>2, NatLessThanWellFounded, WFMin
<1>4. \A b \in A : ~ (b < a)
  BY <1>2, <1>3 DEF OpToRel
<1> QED
  BY <1>1, <1>4

\* m before s.
LEMMA LowestFirst ==
  ASSUME TimerTypeOK, NEW T \in SUBSET Timers, AddressesApart(T),
         NEW m \in T, \A u \in T : at[m] <= at[u],
         NEW s, InOrder(s, T \ {m})
  PROVE  \E r : InOrder(r, T)
<1> DEFINE n == Cardinality(T)
           r == [i \in 1 .. n |-> IF i = 1 THEN m ELSE s[i - 1]]
<1>1. IsFiniteSet(T)
  BY TimerAssumption, FS_Subset
<1>2. n \in Nat /\ Cardinality(T \ {m}) = n - 1
  BY <1>1, FS_RemoveElement, FS_CardinalityType
<1>3. /\ s \in [1 .. n - 1 -> T \ {m}]
      /\ \A i, j \in 1 .. n - 1 : i < j => at[s[i]] < at[s[j]]
  BY <1>2 DEF InOrder
<1>4. \A t \in T : at[t] \in Nat
  BY Values DEF TimerTypeOK
<1> HIDE DEF n
<1>5. \A i \in 1 .. n : i # 1 => i - 1 \in 1 .. n - 1
  BY <1>2
<1>6. r \in [1 .. n -> T]
  BY <1>3, <1>5
<1>7. ASSUME NEW i \in 1 .. n, NEW j \in 1 .. n, i < j PROVE at[r[i]] < at[r[j]]
  <2>1. j # 1 /\ j - 1 \in 1 .. n - 1 /\ r[j] = s[j - 1] /\ r[j] \in T \ {m}
    BY <1>2, <1>3, <1>7
  <2>2. CASE i = 1
    <3>1. at[m] <= at[r[j]] /\ at[m] # at[r[j]]
      BY <2>1 DEF AddressesApart
    <3> QED
      BY <2>1, <2>2, <3>1, <1>4
  <2>3. CASE i # 1
    <3>1. i - 1 \in 1 .. n - 1 /\ i - 1 < j - 1 /\ r[i] = s[i - 1]
      BY <1>2, <2>3, <1>7
    <3> QED
      BY <2>1, <3>1, <1>3
  <2> QED
    BY <2>2, <2>3
<1>8. DOMAIN r = 1 .. n
  OBVIOUS
<1> HIDE DEF r
<1>9. InOrder(r, T)
  BY <1>6, <1>7, <1>8 DEF InOrder, n
<1> QED
  BY <1>9

\* Over the sizes of the sets: none is the smallest that has no such order.
LEMMA OrderExists ==
  ASSUME TimerTypeOK, NEW S \in SUBSET Timers, AddressesApart(S)
  PROVE  \E s : InOrder(s, S)
<1> DEFINE Sets == {T \in SUBSET Timers : AddressesApart(T)}
           Bad == {T \in Sets : ~ \E s : InOrder(s, T)}
           Sizes == {Cardinality(T) : T \in Bad}
<1>1. \A T \in Sets : IsFiniteSet(T) /\ Cardinality(T) \in Nat
  BY TimerAssumption, FS_Subset, FS_CardinalityType
<1>2. Sizes \subseteq Nat
  BY <1>1
<1>3. SUFFICES ASSUME Sizes # {} PROVE FALSE
  OBVIOUS
<1>4. PICK n \in Sizes : \A k \in Sizes : ~ (<<k, n>> \in OpToRel(<, Nat))
  <2> HIDE DEF Sizes
  <2> QED
    BY <1>2, <1>3, NatLessThanWellFounded, WFMin
<1>5. \A k \in Sizes : ~ (k < n)
  BY <1>2, <1>4 DEF OpToRel
<1>6. PICK T \in Bad : n = Cardinality(T)
  OBVIOUS
<1>7. CASE T = {}
  <2>1. Cardinality(T) = 0
    BY <1>7, FS_EmptySet
  <2>2. InOrder([i \in 1 .. 0 |-> i], T)
    BY <2>1 DEF InOrder
  <2> QED
    BY <2>2
<1>8. CASE T # {}
  <2>1. PICK m \in T : \A u \in T : at[m] <= at[u]
    BY <1>8, LowestExists
  <2>2. T \ {m} \in Sets
    BY DEF AddressesApart
  <2>3. Cardinality(T \ {m}) = n - 1 /\ n \in Nat
    BY <1>1, <1>6, FS_RemoveElement
  <2>4. T \ {m} \notin Bad
    BY <1>5, <2>3
  <2>5. PICK s : InOrder(s, T \ {m})
    BY <2>2, <2>4
  <2>6. \E r : InOrder(r, T)
    BY <2>1, <2>5, LowestFirst
  <2> QED
    BY <2>6
<1> QED
  BY <1>7, <1>8

LEMMA ByAddressInOrder ==
  ASSUME TimerTypeOK, NEW S \in SUBSET Timers, AddressesApart(S)
  PROVE  InOrder(ByAddress(S), S)
  BY OrderExists DEF InOrder, ByAddress
----------------------------------------------------------------------------
\* Where a callback is.

LoopInv == (cbs # <<>>) <=> (loopPc = "add")

\* No two timers have one address, and one that exists was given.
AliveInv ==
  /\ \A t, u \in Timers : at[t] # 0 /\ at[t] = at[u] => t = u
  /\ \A t \in Timers : at[t] # 0 => t \in given
  /\ SetExists

\* The callback of a one-shot timer is twice in no list, and a list has no
\* callback of a timer that is still there or that has run.
ListOnce(s) ==
  \A i \in DOMAIN s : s[i] \notin Recurring =>
    /\ \A j \in DOMAIN s : s[i] = s[j] => i = j
    /\ s[i] \in given \ run /\ at[s[i]] = 0

OneListOnly ==
  \A i \in DOMAIN cbs, j \in DOMAIN queue : cbs[i] = queue[j] => cbs[i] \in Recurring

RanOnce == \A t \in run : t \notin Recurring /\ t \in given /\ at[t] = 0

Places == ListOnce(cbs) /\ ListOnce(queue) /\ OneListOnly /\ RanOnce

PInv == TypeOK /\ LoopInv /\ AliveInv /\ Places

LEMMA PlacesInit == Init => PInv
<1> SUFFICES ASSUME Init PROVE PInv
  OBVIOUS
<1>1. cbs \in Seq(Timers) /\ queue \in Seq(Timers) /\ DOMAIN cbs = {} /\ DOMAIN queue = {}
  BY EmptySeq DEF Init
<1>2. TypeOK
  BY <1>1, InvInit DEF Init, TypeOK, IInv, TimerInit
<1>3. LoopInv /\ AliveInv
  BY DEF Init, TimerInit, LoopInv, AliveInv, SetExists
<1>4. Places
  BY <1>1 DEF Init, Places, ListOnce, OneListOnly, RanOnce
<1> QED
  BY <1>2, <1>3, <1>4 DEF PInv

\* A new timer has an address no other has; it was not given, and is in no list.
LEMMA AddTimerPlaces ==
  ASSUME IInv, PInv, IInv', NEW t \in Timers, AddTimer(t)
  PROVE  PInv'
<1>1. PICK a \in Addresses : (\A u \in Timers : at[u] # a) /\ at' = [at EXCEPT ![t] = a]
  BY DEF AddTimer, Create
<1>2. /\ t \notin given /\ given' = given \cup {t} /\ inSet' = inSet
      /\ UNCHANGED <<loopPc, cbs, queue, last, run, stopping, stopPc, crashed>>
  BY DEF AddTimer, Create, poolVars
<1>3. TypeOK'
  BY <1>2 DEF PInv, TypeOK, IInv
<1>4. LoopInv'
  BY <1>2 DEF PInv, LoopInv
<1>5. at \in [Timers -> Addresses \cup {0}]
  BY DEF IInv, TimerTypeOK
<1>6. AliveInv'
  <2>1. \A u, v \in Timers : at'[u] # 0 /\ at'[u] = at'[v] => u = v
    BY <1>1, <1>5 DEF PInv, AliveInv
  <2>2. \A u \in Timers : at'[u] # 0 => u \in given'
    BY <1>1, <1>2, <1>5 DEF PInv, AliveInv
  <2> QED
    BY <2>1, <2>2 DEF AliveInv, IInv
<1>7. Places'
  <2>1. /\ \A i \in DOMAIN cbs : cbs[i] \in Timers
        /\ \A i \in DOMAIN queue : queue[i] \in Timers
        /\ run \subseteq Timers
    BY DEF PInv, TypeOK
  <2>2. \A u \in Timers : u \in given => u # t /\ at'[u] = at[u] /\ u \in given'
    BY <1>1, <1>2, <1>5
  <2>3. ListOnce(cbs)' /\ ListOnce(queue)'
    BY <1>2, <2>1, <2>2 DEF PInv, Places, ListOnce
  <2>4. OneListOnly' /\ RanOnce'
    BY <1>2, <2>1, <2>2 DEF PInv, Places, OneListOnly, RanOnce
  <2> QED
    BY <2>3, <2>4 DEF Places
<1> QED
  BY <1>3, <1>4, <1>6, <1>7 DEF PInv

\* What does not touch the lists, the addresses or the timers given.
LEMMA PlacesUntouched ==
  ASSUME IInv, PInv, IInv', TypeOK', UNCHANGED <<at, given, cbs, queue, run>>, LoopInv'
  PROVE  PInv'
<1>1. AliveInv'
  BY DEF PInv, AliveInv, IInv
<1>2. Places'
  BY DEF PInv, Places, ListOnce, OneListOnly, RanOnce
<1> QED
  BY <1>1, <1>2 DEF PInv

\* The scan moves the one-shot timers of the prefix from the set to the list,
\* which is empty before: each once, for the order is strict.
LEMMA ScanPlaces ==
  ASSUME IInv, PInv, IInv', Scan
  PROVE  PInv'
<1> DEFINE P == Prefix
<1>1. P \subseteq inSet /\ P \subseteq Timers /\ IsFiniteSet(P)
  BY TimerAssumption, FS_Subset DEF Prefix, IInv, TimerTypeOK
<1>2. AddressesApart(P)
  BY <1>1 DEF AddressesApart, PInv, AliveInv, SetExists
<1>3. InOrder(cbs', P)
  BY <1>1, <1>2, ByAddressInOrder DEF IInv, Scan
<1>4. /\ loopPc = "scan" /\ loopPc' = (IF P = {} THEN "test" ELSE "add")
      /\ UNCHANGED <<queue, last, run, stopping, stopPc, crashed, given>>
      /\ inSet' = inSet \ Gone(P)
      /\ at' = [t \in Timers |-> IF t \in Gone(P) THEN 0 ELSE at[t]]
  BY DEF Scan, GetCbList, poolVars
<1> HIDE DEF P
<1>5. Cardinality(P) \in Nat /\ (Cardinality(P) = 0 <=> P = {})
  BY <1>1, FS_CardinalityType, FS_EmptySet
<1>6. /\ cbs' \in Seq(P) /\ Len(cbs') = Cardinality(P) /\ DOMAIN cbs' = 1 .. Cardinality(P)
      /\ \A i \in DOMAIN cbs' : cbs'[i] \in P
  BY <1>3, <1>5 DEF InOrder
<1>7. TypeOK'
  <2>1. cbs' \in Seq(Timers)
    BY <1>1, <1>6
  <2> QED
    BY <1>4, <2>1 DEF PInv, TypeOK, IInv
<1>8. LoopInv'
  BY <1>4, <1>5, <1>6 DEF LoopInv
<1>9. \A t \in Timers : at'[t] # 0 => at'[t] = at[t]
  BY <1>4
<1>10. AliveInv'
  BY <1>4, <1>9 DEF PInv, AliveInv, IInv
<1>11. ListOnce(cbs)'
  <2> SUFFICES ASSUME NEW i \in DOMAIN cbs', cbs'[i] \notin Recurring
               PROVE  /\ \A j \in DOMAIN cbs' : cbs'[i] = cbs'[j] => i = j
                      /\ cbs'[i] \in given' \ run' /\ at'[cbs'[i]] = 0
    BY DEF ListOnce
  <2>1. cbs'[i] \in P /\ at[cbs'[i]] # 0 /\ at'[cbs'[i]] = 0
    BY <1>1, <1>4, <1>6 DEF Gone, PInv, AliveInv, SetExists
  <2>2. cbs'[i] \in given' \ run'
    BY <1>1, <1>4, <2>1 DEF PInv, AliveInv, Places, RanOnce
  <2>3. ASSUME NEW j \in DOMAIN cbs', cbs'[i] = cbs'[j] PROVE i = j
    <3>1. at[cbs'[i]] \in Nat /\ at[cbs'[j]] \in Nat /\ at[cbs'[i]] = at[cbs'[j]]
      BY <1>1, <1>6, <2>3, Values DEF IInv, TimerTypeOK
    <3>2. i \in Nat /\ j \in Nat
      BY <1>5, <1>6
    <3>3. ~ (i < j) /\ ~ (j < i)
      BY <1>3, <3>1 DEF InOrder
    <3> QED
      BY <3>2, <3>3
  <2> QED
    BY <2>1, <2>2, <2>3
<1>12. ListOnce(queue)' /\ RanOnce'
  <2>1. (\A i \in DOMAIN queue : queue[i] \in Timers) /\ run \subseteq Timers
    BY DEF PInv, TypeOK
  <2>2. \A t \in Timers : at[t] = 0 => at'[t] = 0
    BY <1>4
  <2> QED
    BY <1>4, <2>1, <2>2 DEF PInv, Places, ListOnce, RanOnce
<1>13. OneListOnly'
  <2> SUFFICES ASSUME NEW i \in DOMAIN cbs', NEW j \in DOMAIN queue,
                      cbs'[i] = queue[j], cbs'[i] \notin Recurring
               PROVE  FALSE
    BY <1>4 DEF OneListOnly
  <2>1. at[cbs'[i]] # 0
    BY <1>1, <1>6 DEF PInv, AliveInv, SetExists
  <2>2. at[queue[j]] = 0
    BY DEF PInv, Places, ListOnce
  <2> QED
    BY <2>1, <2>2
<1> QED
  BY <1>7, <1>8, <1>10, <1>11, <1>12, <1>13 DEF PInv, Places

\* A list without its head.
LEMMA TailFacts ==
  ASSUME NEW s \in Seq(Timers), s # <<>>
  PROVE  /\ Tail(s) \in Seq(Timers) /\ 1 \in DOMAIN s /\ Head(s) = s[1] /\ Head(s) \in Timers
         /\ \A i \in DOMAIN Tail(s) :
              i \in Nat /\ i + 1 \in DOMAIN s /\ i + 1 # 1 /\ Tail(s)[i] = s[i + 1]
<1>1. Len(s) \in Nat /\ Len(s) >= 1 /\ DOMAIN s = 1 .. Len(s)
  OBVIOUS
<1>2. Tail(s) \in Seq(Timers) /\ Len(Tail(s)) = Len(s) - 1
  OBVIOUS
<1>3. DOMAIN Tail(s) = 1 .. Len(s) - 1 /\ \A i \in 1 .. Len(s) - 1 : Tail(s)[i] = s[i + 1]
  OBVIOUS
<1>4. Head(s) = s[1] /\ Head(s) \in Timers
  OBVIOUS
<1> QED
  BY <1>1, <1>2, <1>3, <1>4

LEMMA TailOnce ==
  ASSUME NEW s \in Seq(Timers), s # <<>>, ListOnce(s)
  PROVE  ListOnce(Tail(s))
<1> SUFFICES ASSUME NEW i \in DOMAIN Tail(s), Tail(s)[i] \notin Recurring
             PROVE  /\ \A j \in DOMAIN Tail(s) : Tail(s)[i] = Tail(s)[j] => i = j
                    /\ Tail(s)[i] \in given \ run /\ at[Tail(s)[i]] = 0
  BY DEF ListOnce
<1>1. i + 1 \in DOMAIN s /\ Tail(s)[i] = s[i + 1]
  BY TailFacts
<1>2. ASSUME NEW j \in DOMAIN Tail(s), Tail(s)[i] = Tail(s)[j] PROVE i = j
  <2>1. j + 1 \in DOMAIN s /\ s[i + 1] = s[j + 1] /\ i \in Nat /\ j \in Nat
    BY <1>2, TailFacts
  <2>2. i + 1 = j + 1
    BY <1>1, <2>1 DEF ListOnce
  <2> QED
    BY <2>1, <2>2
<1> QED
  BY <1>1, <1>2 DEF ListOnce

\* The head is not behind it as well.
LEMMA HeadNotInTail ==
  ASSUME NEW s \in Seq(Timers), s # <<>>, ListOnce(s),
         NEW i \in DOMAIN Tail(s), Head(s) \notin Recurring
  PROVE  Tail(s)[i] # Head(s)
<1>1. /\ 1 \in DOMAIN s /\ Head(s) = s[1]
      /\ i + 1 \in DOMAIN s /\ i + 1 # 1 /\ Tail(s)[i] = s[i + 1]
  BY TailFacts
<1> QED
  BY <1>1 DEF ListOnce

\* The loop takes a callback from its list and puts it behind the queue, or
\* nowhere when the pool is deleted.
LEMMA AddPlaces ==
  ASSUME IInv, PInv, IInv', Add
  PROVE  PInv'
<1> DEFINE h == Head(cbs)
<1>1. /\ cbs \in Seq(Timers) /\ cbs # <<>> /\ queue \in Seq(Timers) /\ run \subseteq Timers
  BY DEF PInv, TypeOK, LoopInv, Add
<1>2. /\ cbs' = Tail(cbs) /\ loopPc' = (IF Tail(cbs) = <<>> THEN "test" ELSE "add")
      /\ queue' = (IF PoolDeleted THEN queue ELSE Append(queue, h))
      /\ UNCHANGED <<at, given, inSet, last, run, stopping, stopPc, crashed>>
  BY DEF Add, timerVars
<1>3. /\ h \in Timers /\ Tail(cbs) \in Seq(Timers)
      /\ 1 \in DOMAIN cbs /\ h = cbs[1]
  BY <1>1, TailFacts
<1>4. /\ Append(queue, h) \in Seq(Timers)
      /\ DOMAIN Append(queue, h) = DOMAIN queue \cup {Len(queue) + 1}
      /\ \A i \in DOMAIN queue : Append(queue, h)[i] = queue[i]
      /\ Append(queue, h)[Len(queue) + 1] = h
      /\ Len(queue) + 1 \notin DOMAIN queue
  BY <1>1, <1>3
<1>5. TypeOK'
  BY <1>2, <1>3, <1>4 DEF PInv, TypeOK, IInv
<1>6. LoopInv'
  BY <1>2 DEF LoopInv
<1>7. AliveInv'
  BY <1>2 DEF PInv, AliveInv, IInv
<1>8. ListOnce(cbs)
  BY DEF PInv, Places
<1>9. ListOnce(Tail(cbs))
  BY <1>1, <1>8, TailOnce
<1>10. ListOnce(cbs)'
  BY <1>2, <1>9 DEF ListOnce
<1>11. h \notin Recurring => h \in given \ run /\ at[h] = 0 /\ \A i \in DOMAIN queue : queue[i] # h
  BY <1>3 DEF PInv, Places, ListOnce, OneListOnly
<1>12. ListOnce(queue)'
  <2> DEFINE q == Append(queue, h)
  <2>1. ListOnce(q)
    <3> HIDE DEF q, h
    <3>1. /\ \A i \in DOMAIN q : i = Len(queue) + 1 \/ i \in DOMAIN queue
          /\ \A i \in DOMAIN queue : q[i] = queue[i]
          /\ q[Len(queue) + 1] = h
      BY <1>4 DEF q
    <3>2. ListOnce(queue)
      BY DEF PInv, Places
    <3>3. ASSUME NEW i \in DOMAIN q, q[i] \notin Recurring, NEW j \in DOMAIN q, q[i] = q[j] PROVE i = j
      <4>1. CASE i \in DOMAIN queue /\ j \in DOMAIN queue
        BY <3>1, <3>2, <3>3, <4>1 DEF ListOnce
      <4>2. CASE i = Len(queue) + 1 /\ j = Len(queue) + 1
        BY <4>2
      <4>3. CASE i = Len(queue) + 1 /\ j \in DOMAIN queue
        BY <3>1, <3>3, <4>3, <1>11
      <4>4. CASE i \in DOMAIN queue /\ j = Len(queue) + 1
        BY <3>1, <3>3, <4>4, <1>11
      <4> QED
        BY <3>1, <4>1, <4>2, <4>3, <4>4
    <3>4. ASSUME NEW i \in DOMAIN q, q[i] \notin Recurring PROVE q[i] \in given \ run /\ at[q[i]] = 0
      BY <3>1, <3>2, <3>4, <1>11 DEF ListOnce
    <3> QED
      BY <3>3, <3>4 DEF ListOnce
  <2>2. ListOnce(queue)
    BY DEF PInv, Places
  <2> QED
    BY <1>2, <2>1, <2>2 DEF ListOnce
<1>13. OneListOnly'
  <2> DEFINE r == Tail(cbs)
             q == Append(queue, h)
  <2>1. \A i \in DOMAIN r : /\ r[i] \notin Recurring /\ h \notin Recurring => r[i] # h
                            /\ \E k \in DOMAIN cbs : r[i] = cbs[k]
    BY <1>1, <1>8, HeadNotInTail, TailFacts
  <2>2. /\ \A j \in DOMAIN q : j \in DOMAIN queue \/ j = Len(queue) + 1
        /\ \A j \in DOMAIN queue : q[j] = queue[j]
        /\ q[Len(queue) + 1] = h
    BY <1>4
  <2> HIDE DEF r, q, h
  <2>3. \A i \in DOMAIN r, j \in DOMAIN queue : r[i] = queue[j] => r[i] \in Recurring
    BY <2>1 DEF PInv, Places, OneListOnly
  <2>4. \A i \in DOMAIN r, j \in DOMAIN q : r[i] = q[j] => r[i] \in Recurring
    BY <2>1, <2>2, <2>3
  <2>5. cbs' = r /\ (queue' = queue \/ queue' = q)
    BY <1>2 DEF r, q, h
  <2> QED
    BY <2>3, <2>4, <2>5 DEF OneListOnly
<1>14. RanOnce'
  BY <1>2 DEF PInv, Places, RanOnce
<1> QED
  BY <1>5, <1>6, <1>7, <1>10, <1>12, <1>13, <1>14 DEF PInv, Places

\* A thread of the pool takes the head of the queue and runs it.
LEMMA ExecutePlaces ==
  ASSUME IInv, PInv, IInv', Execute
  PROVE  PInv'
<1> DEFINE h == Head(queue)
<1>1. queue \in Seq(Timers) /\ queue # <<>> /\ run \subseteq Timers /\ cbs \in Seq(Timers)
  BY DEF PInv, TypeOK, Execute
<1>2. /\ queue' = Tail(queue) /\ last' = h /\ run' = run \cup ({h} \ Recurring)
      /\ UNCHANGED <<at, given, inSet, loopPc, cbs, stopping, stopPc, crashed>>
  BY DEF Execute, timerVars
<1>3. h \in Timers /\ Tail(queue) \in Seq(Timers) /\ 1 \in DOMAIN queue /\ h = queue[1]
  BY <1>1, TailFacts
<1>4. TypeOK'
  BY <1>2, <1>3 DEF PInv, TypeOK, IInv
<1>5. LoopInv'
  BY <1>2 DEF PInv, LoopInv
<1>6. AliveInv'
  BY <1>2 DEF PInv, AliveInv, IInv
<1>7. ListOnce(queue)
  BY DEF PInv, Places
<1>8. h \notin Recurring => h \in given /\ at[h] = 0
  BY <1>3, <1>7 DEF ListOnce
<1>9. RanOnce'
  BY <1>2, <1>8 DEF PInv, Places, RanOnce
<1> DEFINE r == Tail(queue)
<1>10. ListOnce(r)
  BY <1>1, <1>7, TailOnce
<1>11. \A i \in DOMAIN r : h \notin Recurring => r[i] # h
  BY <1>1, <1>7, HeadNotInTail
<1>12. \A i \in DOMAIN r : \E k \in DOMAIN queue : r[i] = queue[k]
  BY <1>1, TailFacts
<1>13. \A i \in DOMAIN cbs : h \notin Recurring => cbs[i] # h
  BY <1>3 DEF PInv, Places, OneListOnly
<1>14. queue' = r
  BY <1>2
<1> HIDE DEF r, h
<1>15. ListOnce(queue)'
  <2>1. ASSUME NEW i \in DOMAIN r, r[i] \notin Recurring
        PROVE  (\A j \in DOMAIN r : r[i] = r[j] => i = j) /\ r[i] \in given' \ run' /\ at'[r[i]] = 0
    <3>1. r[i] # h
      BY <1>11, <2>1
    <3> QED
      BY <1>2, <1>10, <2>1, <3>1 DEF ListOnce
  <2> QED
    BY <1>14, <2>1 DEF ListOnce
<1>16. ListOnce(cbs)'
  <2>1. ListOnce(cbs)
    BY DEF PInv, Places
  <2> QED
    BY <1>2, <1>13, <2>1 DEF ListOnce
<1>17. OneListOnly'
  BY <1>2, <1>12, <1>14 DEF PInv, Places, OneListOnly
<1> QED
  BY <1>4, <1>5, <1>6, <1>9, <1>15, <1>16, <1>17 DEF PInv, Places

\* The pool is deleted with its queue.
LEMMA StopDeletePlaces ==
  ASSUME IInv, PInv, IInv', StopDelete
  PROVE  PInv'
<1>1. /\ queue' = <<>> /\ stopPc' = "stopped" /\ crashed' \in BOOLEAN
      /\ UNCHANGED <<at, given, inSet, loopPc, cbs, last, run, stopping>>
  BY DEF StopDelete, timerVars
<1>2. queue' \in Seq(Timers) /\ DOMAIN queue' = {}
  BY <1>1, EmptySeq
<1>3. TypeOK'
  BY <1>1, <1>2 DEF PInv, TypeOK, IInv
<1>4. LoopInv' /\ AliveInv'
  BY <1>1 DEF PInv, LoopInv, AliveInv, IInv
<1>5. Places'
  BY <1>1, <1>2 DEF PInv, Places, ListOnce, OneListOnly, RanOnce
<1> QED
  BY <1>3, <1>4, <1>5 DEF PInv

LEMMA PlacesNext == IInv /\ PInv /\ [Next]_vars => PInv'
<1> SUFFICES ASSUME IInv, PInv, [Next]_vars PROVE PInv'
  OBVIOUS
<1>1. IInv'
  BY InvNext
<1>2. CASE LoopBegins \/ Test
  <2>1. cbs = <<>>
    BY <1>2 DEF PInv, LoopInv, LoopBegins, Test
  <2>2. UNCHANGED <<at, given, inSet, cbs, queue, last, run, stopping, stopPc, crashed>>
        /\ loopPc' \in {"test", "sleep", "done"}
    BY <1>2, <2>1 DEF LoopBegins, Test, timerVars, poolVars
  <2>3. TypeOK' /\ LoopInv'
    BY <1>1, <2>1, <2>2 DEF PInv, TypeOK, LoopInv, IInv
  <2> QED
    BY <1>1, <2>2, <2>3, PlacesUntouched
<1>3. CASE Scan
  BY <1>1, <1>3, ScanPlaces
<1>4. CASE Add
  BY <1>1, <1>4, AddPlaces
<1>5. CASE Tick
  <2>1. UNCHANGED <<at, given, inSet, cbs, queue, run, stopping, stopPc, crashed>> /\ last' = None
        /\ loopPc' = IF loopPc = "sleep" THEN "scan" ELSE loopPc
    BY <1>5 DEF Tick, Pass
  <2>2. TypeOK' /\ LoopInv'
    BY <1>1, <2>1 DEF PInv, TypeOK, LoopInv, IInv
  <2> QED
    BY <1>1, <2>1, <2>2, PlacesUntouched
<1>6. CASE Execute
  BY <1>1, <1>6, ExecutePlaces
<1>7. ASSUME NEW t \in Timers, AddTimer(t) PROVE PInv'
  BY <1>1, <1>7, AddTimerPlaces
<1>8. ASSUME NEW t \in Timers, AddTimerInsert(t) PROVE PInv'
  <2>1. UNCHANGED <<at, given, loopPc, cbs, queue, last, run, stopping, stopPc, crashed>>
    BY <1>8 DEF AddTimerInsert, Insert, poolVars
  <2>2. TypeOK' /\ LoopInv'
    BY <1>1, <2>1 DEF PInv, TypeOK, LoopInv, IInv
  <2> QED
    BY <1>1, <2>1, <2>2, PlacesUntouched
<1>9. CASE StopSet \/ Crash \/ UNCHANGED vars
  <2>1. /\ UNCHANGED <<at, given, inSet, loopPc, cbs, queue, last, run>>
        /\ stopping' \in BOOLEAN /\ crashed' \in BOOLEAN
        /\ stopPc' \in {"running", "delete", "stopped"}
    BY <1>9 DEF StopSet, Crash, vars, timerVars, poolVars, PInv, TypeOK
  <2>2. TypeOK' /\ LoopInv'
    BY <1>1, <2>1 DEF PInv, TypeOK, LoopInv, IInv
  <2> QED
    BY <1>1, <2>1, <2>2, PlacesUntouched
<1>10. CASE StopDelete
  BY <1>1, <1>10, StopDeletePlaces
<1> QED
  BY <1>2, <1>3, <1>4, <1>5, <1>6, <1>7, <1>8, <1>9, <1>10 DEF Next, LoopStep

\* How often a callback that is once at most in a list is in it.
LEMMA CountInList ==
  ASSUME NEW s, NEW t, \A i, j \in DOMAIN s : s[i] = t /\ s[j] = t => i = j
  PROVE  Cardinality({i \in DOMAIN s : s[i] = t}) = IF \E i \in DOMAIN s : s[i] = t THEN 1 ELSE 0
<1>1. CASE \E i \in DOMAIN s : s[i] = t
  <2>1. PICK i \in DOMAIN s : s[i] = t
    BY <1>1
  <2>2. {k \in DOMAIN s : s[k] = t} = {i}
    BY <2>1
  <2> QED
    BY <1>1, <2>2, FS_Singleton
<1>2. CASE ~ \E i \in DOMAIN s : s[i] = t
  <2>1. {k \in DOMAIN s : s[k] = t} = {}
    BY <1>2
  <2> QED
    BY <1>2, <2>1, FS_EmptySet
<1> QED
  BY <1>1, <1>2

LEMMA PlacesGiveOnce == IInv /\ PInv => OneShotOnce
<1> SUFFICES ASSUME IInv, PInv PROVE OneShotOnce
  OBVIOUS
<1>1. \A t, u \in inSet : at[t] = at[u] => t = u
  BY DEF PInv, AliveInv, SetExists, IInv, TimerTypeOK
<1>2. ASSUME NEW t \in Timers \ Recurring
      PROVE  Cardinality({i \in DOMAIN cbs : cbs[i] = t}) + Cardinality({i \in DOMAIN queue : queue[i] = t})
               + (IF t \in inSet THEN 1 ELSE 0) + (IF t \in run THEN 1 ELSE 0) <= 1
  <2> DEFINE inCbs == \E i \in DOMAIN cbs : cbs[i] = t
             inQueue == \E i \in DOMAIN queue : queue[i] = t
             c == Cardinality({i \in DOMAIN cbs : cbs[i] = t})
             q == Cardinality({i \in DOMAIN queue : queue[i] = t})
  <2>1. c = IF inCbs THEN 1 ELSE 0
    <3>1. \A i, j \in DOMAIN cbs : cbs[i] = t /\ cbs[j] = t => i = j
      BY DEF PInv, Places, ListOnce
    <3> QED
      BY <3>1, CountInList
  <2>2. q = IF inQueue THEN 1 ELSE 0
    <3>1. \A i, j \in DOMAIN queue : queue[i] = t /\ queue[j] = t => i = j
      BY DEF PInv, Places, ListOnce
    <3> QED
      BY <3>1, CountInList
  <2>3. /\ inCbs => ~ inQueue /\ t \notin inSet /\ t \notin run
        /\ inQueue => t \notin inSet /\ t \notin run
        /\ t \in inSet => t \notin run
    BY DEF PInv, Places, ListOnce, OneListOnly, RanOnce, AliveInv, SetExists
  <2> HIDE DEF c, q, inCbs, inQueue
  <2>4. c + q + (IF t \in inSet THEN 1 ELSE 0) + (IF t \in run THEN 1 ELSE 0) <= 1
    BY <2>1, <2>2, <2>3
  <2> QED
    BY <2>4 DEF c, q
<1> QED
  BY <1>1, <1>2 DEF OneShotOnce

\* Type correctness: in particular the two lists hold nothing but timers.
THEOREM TypeCorrect == Spec => []TypeOK
<1>1. PInv => TypeOK
  BY DEF PInv
<1> QED
  BY <1>1, InvInit, InvNext, PlacesInit, PlacesNext, PTL DEF Spec, SafeSpec

\* A one-shot timer's callback is in one place and runs once, and the timers in
\* the set have addresses of their own, in whatever order they are allocated
\* and walked, and also when the pool is deleted under the loop.
THEOREM OneShotRunsOnce == Spec => []OneShotOnce
  BY InvInit, InvNext, PlacesInit, PlacesNext, PlacesGiveOnce, PTL DEF Spec, SafeSpec
============================================================================
