-------------------------- MODULE ModulBaseProofs --------------------------
(***************************************************************************)
(* Proofs about MsgQueue and about ModulBase, which extends it, for every  *)
(* set of senders and of messages and every capacity.                      *)
(*                                                                         *)
(* Of the queue: type correctness, the bound on the overshoot, that m_size *)
(* and the containers agree with what was accepted, and the order of       *)
(* delivery.  Of the module: messages and wake-ups match until Stop(), and *)
(* the queue is used as MsgQueue specifies it.                             *)
(***************************************************************************)
EXTENDS ModulBase, FiniteSetTheorems, TLAPS

\* take() is past its check only while there is something to take: one thread
\* takes, and pushes only add.
TakerFindsOne == taking => size > 0

\* A message past push()'s check is held by one sender and is in no container.
HeldOnce ==
  /\ \A s \in Pushing : fate[pending[s]] = "pushed"
  /\ \A s, t \in Pushing : pending[s] = pending[t] => s = t

\* Both queues are in the order of arrival, so that no message is in one twice.
Sorted(f, q) == \A i, j \in 1..Len(q) : i < j => f[q[i]] < f[q[j]]
InOrder ==
  /\ Sorted(stamp, general) /\ Sorted(stamp, important)
  /\ \A m \in Msgs : stamp[m] <= clock

\* The senders past the check count against the capacity in advance.
Reserved == size + Cardinality(Pushing) <= Capacity + Cardinality(Senders) - 1

IInv ==
  /\ TypeOK /\ TakerFindsOne /\ HeldOnce /\ InOrder
  /\ Accounting /\ IsFiniteSet(Queued)

----------------------------------------------------------------------------
\* Sequences and the sets of their elements.

\* Appending adds one element.
LEMMA ElemsAppend ==
  ASSUME NEW S, NEW q \in Seq(S), NEW m \in S
  PROVE  Elems(Append(q, m)) = Elems(q) \cup {m}
<1>1. /\ Len(Append(q, m)) = Len(q) + 1 /\ Len(q) \in Nat
      /\ \A i \in 1..Len(q) : Append(q, m)[i] = q[i]
      /\ Append(q, m)[Len(q) + 1] = m
  OBVIOUS
<1>2. 1..(Len(q) + 1) = 1..Len(q) \cup {Len(q) + 1}
  BY <1>1
<1> QED
  BY <1>1, <1>2 DEF Elems

\* Removing the head of a queue in order removes exactly that element, and
\* leaves the queue in order.
LEMMA ElemsTail ==
  ASSUME NEW S, NEW q \in Seq(S), q # <<>>, \A m \in S : stamp[m] \in Nat,
         Sorted(stamp, q)
  PROVE  /\ Elems(Tail(q)) = Elems(q) \ {Head(q)}
         /\ Head(q) \in S /\ Head(q) \in Elems(q)
         /\ Tail(q) \in Seq(S) /\ Len(Tail(q)) = Len(q) - 1
         /\ \A x \in Elems(Tail(q)) : stamp[Head(q)] < stamp[x]
         /\ Sorted(stamp, Tail(q))
<1>1. /\ Len(q) \in Nat /\ Len(q) > 0 /\ Head(q) = q[1]
      /\ Tail(q) \in Seq(S) /\ Len(Tail(q)) = Len(q) - 1
      /\ \A i \in 1..(Len(q) - 1) : Tail(q)[i] = q[i + 1]
      /\ \A i \in 1..Len(q) : q[i] \in S
  OBVIOUS
<1>2. \A i \in 2..Len(q) : stamp[q[1]] < stamp[q[i]]
  BY <1>1 DEF Sorted
<1>3. Elems(Tail(q)) = {q[i] : i \in 2..Len(q)}
  <2>1. \A x : x \in Elems(Tail(q)) => x \in {q[i] : i \in 2..Len(q)}
    BY <1>1 DEF Elems
  <2>2. ASSUME NEW i \in 2..Len(q) PROVE q[i] \in Elems(Tail(q))
    <3>1. i - 1 \in 1..(Len(q) - 1) /\ Tail(q)[i - 1] = q[i]
      BY <1>1
    <3> QED
      BY <1>1, <3>1 DEF Elems
  <2> QED
    BY <2>1, <2>2
<1>4. Elems(q) = {q[1]} \cup {q[i] : i \in 2..Len(q)}
  <2>1. 1..Len(q) = {1} \cup 2..Len(q)
    BY <1>1
  <2> QED
    BY <2>1 DEF Elems
<1>5. q[1] \notin {q[i] : i \in 2..Len(q)}
  BY <1>1, <1>2
<1>6. Sorted(stamp, Tail(q))
  BY <1>1 DEF Sorted
<1> QED
  BY <1>1, <1>2, <1>3, <1>4, <1>5, <1>6

----------------------------------------------------------------------------
\* The invariant holds initially and is kept by each action.

\* What the constants' assumptions say of the three levels.
LEMMA Levels ==
  /\ GeneralMsgs \subseteq Msgs /\ ImportantMsgs \subseteq Msgs
  /\ ImmediateMsgs \subseteq Msgs /\ NoMsg \notin Msgs
  /\ GeneralMsgs \cap ImportantMsgs = {}
  /\ ImmediateMsgs \cap GeneralMsgs = {}
  /\ ImmediateMsgs \cap ImportantMsgs = {}
  /\ OtherMsgs \cap GeneralMsgs = {}
  /\ OtherMsgs \cap ImportantMsgs = {}
  /\ OtherMsgs \cap ImmediateMsgs = {}
BY MsgsAssumption DEF Msgs

\* The queue starts empty.
LEMMA InvInit == Init => IInv
<1> SUFFICES ASSUME Init PROVE IInv
  OBVIOUS
<1>1. TypeOK /\ TakerFindsOne
  <2>1. <<>> \in Seq(GeneralMsgs) /\ <<>> \in Seq(ImportantMsgs)
    OBVIOUS
  <2> QED
    BY <2>1 DEF Init, TypeOK, TakerFindsOne
<1>2. HeldOnce
  BY DEF Init, HeldOnce, Pushing
<1>3. InOrder
  BY DEF Init, InOrder, Sorted
<1>4. Queued = {} /\ Contents = {}
  BY DEF Init, Queued, Contents, Elems
<1>5. IsFiniteSet(Queued) /\ Cardinality(Queued) = 0
  BY <1>4, FS_EmptySet
<1>6. Accounting
  BY <1>4, <1>5 DEF Init, Accounting
<1> QED
  BY <1>1, <1>2, <1>3, <1>5, <1>6 DEF IInv

\* A message stays in order when it is appended with the newest stamp.
LEMMA SortedAppend ==
  ASSUME IInv, NEW q \in Seq(Msgs), Sorted(stamp, q), NEW m \in Msgs, m \notin Elems(q),
         clock' = clock + 1, stamp' = [stamp EXCEPT ![m] = clock']
  PROVE  Sorted(stamp', q) /\ Sorted(stamp', Append(q, m))
<1> DEFINE r == Append(q, m)
<1>1. /\ Len(q) \in Nat /\ Len(r) = Len(q) + 1
      /\ \A i \in 1..Len(q) : r[i] = q[i] /\ q[i] \in Msgs /\ q[i] # m
      /\ r[Len(q) + 1] = m
  BY DEF Elems
<1>2. /\ \A x \in Msgs : stamp[x] \in Nat /\ stamp[x] <= clock
      /\ clock \in Nat /\ stamp'[m] = clock + 1
      /\ \A x \in Msgs \ {m} : stamp'[x] = stamp[x]
  BY DEF IInv, TypeOK, InOrder
<1>3. \A i \in 1..Len(q) : stamp'[q[i]] = stamp[q[i]] /\ stamp[q[i]] <= clock
  BY <1>1, <1>2
<1>4. \A i, j \in 1..Len(q) : i < j => stamp'[q[i]] < stamp'[q[j]]
  BY <1>3 DEF Sorted
<1>5. ASSUME NEW i \in 1..Len(r), NEW j \in 1..Len(r), i < j
      PROVE  stamp'[r[i]] < stamp'[r[j]]
  <2>1. i \in 1..Len(q)
    BY <1>1, <1>5
  <2>2. CASE j \in 1..Len(q)
    BY <1>1, <1>4, <1>5, <2>1, <2>2
  <2>3. CASE j = Len(q) + 1
    BY <1>1, <1>2, <1>3, <2>1, <2>3
  <2> QED
    BY <1>1, <2>2, <2>3
<1> QED
  BY <1>4, <1>5 DEF Sorted

\* A sender past the check holds a message that is in no container.
LEMMA HeldOutside ==
  ASSUME IInv, NEW s \in Senders, pending[s] # NoMsg
  PROVE  /\ pending[s] \in Msgs /\ s \in Pushing
         /\ fate[pending[s]] = "pushed" /\ pending[s] \notin Queued
         /\ pending[s] \notin Elems(general) /\ pending[s] \notin Elems(important)
         /\ pending[s] # immediate
<1>1. /\ pending[s] \in Msgs /\ s \in Pushing
      /\ fate[pending[s]] = "pushed" /\ pending[s] \notin Queued
  BY DEF IInv, TypeOK, HeldOnce, Pushing, Queued
<1> QED
  BY <1>1 DEF IInv, Accounting, Contents

\* push() puts its message in the container of its level, at the end.
LEMMA InsertStep ==
  ASSUME IInv, NEW s \in Senders, PushInsert(s)
  PROVE  IInv'
<1> DEFINE m == pending[s]
<1>1. /\ m \in Msgs /\ s \in Pushing /\ fate[m] = "pushed" /\ m \notin Queued
      /\ m \notin Elems(general) /\ m \notin Elems(important)
      /\ m # immediate /\ m # NoMsg
  BY HeldOutside DEF PushInsert
<1>2. /\ size' = size + 1 /\ taking' = taking /\ clock' = clock + 1
      /\ pending' = [pending EXCEPT ![s] = NoMsg]
      /\ fate' = [fate EXCEPT ![m] = "queued"]
      /\ stamp' = [stamp EXCEPT ![m] = clock']
      /\ StoreGeneral(m) \/ StoreImportant(m) \/ StoreImmediate(m)
  BY DEF PushInsert, Becomes
<1>3. TypeOK /\ TakerFindsOne /\ HeldOnce /\ InOrder /\ Accounting
      /\ IsFiniteSet(Queued)
  BY DEF IInv
<1> HIDE DEF m
<1>4. TypeOK'
  <2>1. /\ size' \in Nat /\ clock' \in Nat /\ stamp' \in [Msgs -> Nat]
        /\ pending' \in [Senders -> Msgs \cup {NoMsg}]
        /\ fate' \in [Msgs -> {"new", "pushed", "queued", "refused", "taken"}]
        /\ taking' \in BOOLEAN
    BY <1>1, <1>2, <1>3 DEF TypeOK
  <2>2. /\ general' \in Seq(GeneralMsgs) /\ important' \in Seq(ImportantMsgs)
        /\ immediate' \in ImmediateMsgs \cup {NoMsg}
    <3>1. /\ m \in GeneralMsgs => Append(general, m) \in Seq(GeneralMsgs)
          /\ m \in ImportantMsgs => Append(important, m) \in Seq(ImportantMsgs)
      BY <1>3 DEF TypeOK
    <3>2. /\ general \in Seq(GeneralMsgs) /\ important \in Seq(ImportantMsgs)
          /\ immediate \in ImmediateMsgs \cup {NoMsg}
      BY <1>3 DEF TypeOK
    <3> QED
      BY <1>2, <3>1, <3>2 DEF StoreGeneral, StoreImportant, StoreImmediate
  <2> QED
    BY <2>1, <2>2 DEF TypeOK
<1>5. TakerFindsOne'
  BY <1>2, <1>3 DEF TypeOK, TakerFindsOne
<1>6. HeldOnce'
  <2>1. Pushing' = Pushing \ {s}
    BY <1>2, <1>3 DEF Pushing, TypeOK
  <2>2. \A t \in Pushing \ {s} : pending'[t] = pending[t] /\ pending[t] # m
                                   /\ pending[t] \in Msgs
    BY <1>1, <1>2, <1>3 DEF TypeOK, Pushing, HeldOnce, m
  <2> QED
    BY <1>2, <1>3, <2>1, <2>2 DEF HeldOnce, TypeOK
<1>7. Queued' = Queued \cup {m}
  BY <1>1, <1>2, <1>3 DEF Queued, TypeOK
<1>8. IsFiniteSet(Queued') /\ Cardinality(Queued') = Cardinality(Queued) + 1
  BY <1>1, <1>3, <1>7, FS_AddElement
<1>9. general \in Seq(Msgs) /\ important \in Seq(Msgs)
  BY <1>3, Levels DEF TypeOK
<1>10. /\ Sorted(stamp', general') /\ Sorted(stamp', important')
       /\ Contents' = Contents \cup {m}
       /\ size' = Len(general') + Len(important')
                    + (IF immediate' = NoMsg THEN 0 ELSE 1)
  <2>1. ASSUME NEW q \in Seq(Msgs), Sorted(stamp, q), m \notin Elems(q)
        PROVE  /\ Sorted(stamp', q) /\ Sorted(stamp', Append(q, m))
               /\ Elems(Append(q, m)) = Elems(q) \cup {m}
               /\ Len(Append(q, m)) = Len(q) + 1 /\ Len(q) \in Nat
    <3>1. Sorted(stamp', q) /\ Sorted(stamp', Append(q, m))
      BY <1>1, <1>2, <2>1, SortedAppend
    <3>2. Elems(Append(q, m)) = Elems(q) \cup {m}
      BY <1>1, <2>1, ElemsAppend
    <3> QED
      BY <3>1, <3>2
  <2>2. /\ Sorted(stamp', general) /\ Sorted(stamp', important)
        /\ Sorted(stamp', Append(general, m))
        /\ Sorted(stamp', Append(important, m))
    BY <1>1, <1>3, <1>9, <2>1 DEF InOrder
  <2>3. /\ Elems(Append(general, m)) = Elems(general) \cup {m}
        /\ Elems(Append(important, m)) = Elems(important) \cup {m}
        /\ Len(Append(general, m)) = Len(general) + 1 /\ Len(general) \in Nat
        /\ Len(Append(important, m)) = Len(important) + 1
        /\ Len(important) \in Nat
    BY <1>1, <1>3, <1>9, <2>1 DEF InOrder
  <2>4. Sorted(stamp', general') /\ Sorted(stamp', important')
    BY <1>2, <2>2 DEF StoreGeneral, StoreImportant, StoreImmediate
  <2>5. Contents' = Contents \cup {m}
    <3>1. Contents' = Elems(general') \cup Elems(important')
                        \cup ({immediate'} \ {NoMsg})
      BY DEF Contents, Elems
    <3> QED
      BY <1>1, <1>2, <2>3, <3>1
      DEF StoreGeneral, StoreImportant, StoreImmediate, Contents
  <2>6. size' = Len(general') + Len(important')
                  + (IF immediate' = NoMsg THEN 0 ELSE 1)
    BY <1>1, <1>2, <1>3, <2>3
    DEF StoreGeneral, StoreImportant, StoreImmediate, Accounting
  <2> QED
    BY <2>4, <2>5, <2>6
<1>11. \A x \in Msgs : stamp'[x] <= clock'
  BY <1>1, <1>2, <1>3 DEF TypeOK, InOrder
<1>12. Accounting'
  BY <1>2, <1>3, <1>7, <1>8, <1>10 DEF Accounting
<1> QED
  BY <1>4, <1>5, <1>6, <1>8, <1>10, <1>11, <1>12 DEF IInv, InOrder

\* What take() finds under the lock: a message that was queued, of the highest
\* level there is, and the oldest of its level.
LEMMA FrontFirst ==
  ASSUME IInv, taking
  PROVE  /\ Front \in Queued /\ Front # NoMsg
         /\ \A x \in Queued \ {Front} :
              \/ Rank(x) < Rank(Front)
              \/ Rank(x) = Rank(Front) /\ stamp[x] > stamp[Front]
<1>1. /\ general \in Seq(GeneralMsgs) /\ important \in Seq(ImportantMsgs)
      /\ immediate \in ImmediateMsgs \cup {NoMsg}
      /\ stamp \in [Msgs -> Nat]
      /\ Sorted(stamp, general) /\ Sorted(stamp, important)
      /\ Contents = Queued
      /\ size > 0
      /\ size = Len(general) + Len(important) + (IF immediate = NoMsg THEN 0 ELSE 1)
  BY DEF IInv, TypeOK, TakerFindsOne, InOrder, Accounting
<1>2. /\ Elems(general) \subseteq GeneralMsgs
      /\ Elems(important) \subseteq ImportantMsgs
  BY <1>1 DEF Elems
<1>3. /\ \A x \in Elems(general) : Rank(x) = 0
      /\ \A x \in Elems(important) : Rank(x) = 1
      /\ immediate # NoMsg => Rank(immediate) = 2
  BY <1>1, <1>2, Levels DEF Rank
<1>4. CASE immediate # NoMsg
  <2>1. Front = immediate
    BY <1>4 DEF Front
  <2> QED
    BY <1>1, <1>3, <1>4, <2>1 DEF Contents
<1>5. CASE immediate = NoMsg /\ important # <<>>
  <2>1. Front = Head(important)
    BY <1>5 DEF Front
  <2>2. /\ Head(important) \in Elems(important)
        /\ \A x \in Elems(important) \ {Head(important)} :
             stamp[Head(important)] < stamp[x]
    BY <1>1, <1>5, ElemsTail, Levels
  <2>3. \A x \in Queued : x \in Elems(important) \/ x \in Elems(general)
    BY <1>1, <1>5 DEF Contents
  <2>4. \A x \in Msgs : stamp[x] \in Nat
    BY <1>1
  <2>5. Front \in Msgs /\ Elems(important) \subseteq Msgs
    BY <1>2, <2>1, <2>2, Levels
  <2>6. Front \in Queued /\ Front # NoMsg
    BY <1>1, <2>1, <2>2, <2>5, Levels DEF Contents
  <2> QED
    BY <1>3, <2>1, <2>2, <2>3, <2>4, <2>5, <2>6
<1>6. CASE immediate = NoMsg /\ important = <<>>
  <2>1. general # <<>>
    BY <1>1, <1>6
  <2>2. Front = Head(general)
    BY <1>6, <2>1 DEF Front
  <2>3. /\ Head(general) \in Elems(general)
        /\ \A x \in Elems(general) \ {Head(general)} :
             stamp[Head(general)] < stamp[x]
    BY <1>1, <2>1, ElemsTail, Levels
  <2>4. Elems(important) = {}
    BY <1>6 DEF Elems
  <2>5. Queued = Elems(general)
    BY <1>1, <1>6, <2>4 DEF Contents
  <2>6. Front \in Msgs /\ Elems(general) \subseteq Msgs
    BY <1>2, <2>2, <2>3, Levels
  <2> QED
    BY <1>1, <1>3, <2>2, <2>3, <2>5, <2>6, Levels
<1> QED
  BY <1>4, <1>5, <1>6

\* take() removes the front from its container, and nothing else.
LEMMA RemoveStep ==
  ASSUME IInv, TakeRemove
  PROVE  IInv'
<1>1. /\ taking /\ taking' = FALSE /\ immediate' = NoMsg
      /\ important' = Drop(important) /\ general' = Drop(general)
      /\ size' = size - 1
      /\ pending' = pending /\ stamp' = stamp /\ clock' = clock
  BY DEF TakeRemove
<1>2. /\ TypeOK /\ TakerFindsOne /\ HeldOnce /\ InOrder /\ Accounting
      /\ IsFiniteSet(Queued)
  BY DEF IInv
<1>3. Front \in Queued /\ Front # NoMsg /\ Front \in Msgs
  BY <1>1, FrontFirst DEF Queued
<1>4. fate' = [fate EXCEPT ![Front] = "taken"]
  BY <1>3 DEF TakeRemove
<1>5. Queued' = Queued \ {Front}
  BY <1>2, <1>3, <1>4 DEF Queued, TypeOK
<1>6. IsFiniteSet(Queued') /\ Cardinality(Queued') = Cardinality(Queued) - 1
  BY <1>2, <1>3, <1>5, FS_RemoveElement
<1>7. /\ general \in Seq(GeneralMsgs) /\ important \in Seq(ImportantMsgs)
      /\ immediate \in ImmediateMsgs \cup {NoMsg}
      /\ Sorted(stamp, general) /\ Sorted(stamp, important)
      /\ \A m \in Msgs : stamp[m] \in Nat
  BY <1>2 DEF TypeOK, InOrder
<1>8. ASSUME NEW S \in SUBSET Msgs, NEW q \in Seq(S), Sorted(stamp, q)
      PROVE  Drop(q) \in Seq(S) /\ Sorted(stamp, Drop(q))
  <2>1. CASE q # <<>> /\ Head(q) = Front
    BY <1>7, <1>8, <2>1, ElemsTail DEF Drop
  <2>2. CASE q # <<>> /\ Head(q) # Front
    BY <1>8, <2>2 DEF Drop
  <2>3. CASE q = <<>>
    BY <1>8, <2>3 DEF Drop
  <2> QED
    BY <2>1, <2>2, <2>3
<1>9. /\ general' \in Seq(GeneralMsgs) /\ important' \in Seq(ImportantMsgs)
      /\ Sorted(stamp, general') /\ Sorted(stamp, important')
  BY <1>1, <1>7, <1>8, Levels
<1>10. /\ Elems(general) \subseteq GeneralMsgs
       /\ Elems(important) \subseteq ImportantMsgs
       /\ general # <<>> => Head(general) \in GeneralMsgs
       /\ important # <<>> => Head(important) \in ImportantMsgs
  BY <1>7 DEF Elems
<1>11. /\ Elems(general') = Elems(general) \ {Front}
       /\ Elems(important') = Elems(important) \ {Front}
       /\ ({immediate'} \ {NoMsg}) = ({immediate} \ {NoMsg}) \ {Front}
       /\ Len(general') + Len(important')
            = Len(general) + Len(important)
                + (IF immediate = NoMsg THEN 0 ELSE 1) - 1
  <2>0. /\ Len(general) \in Nat /\ Len(important) \in Nat
        /\ general \in Seq(Msgs) /\ important \in Seq(Msgs)
    BY <1>7, Levels
  <2>1. CASE immediate # NoMsg
    <3>1. Front = immediate /\ Front \in ImmediateMsgs
      BY <1>7, <2>1 DEF Front
    <3>2. Drop(general) = general /\ Drop(important) = important
      BY <1>10, <3>1, Levels DEF Drop
    <3> QED
      BY <1>1, <1>10, <2>0, <2>1, <3>1, <3>2, Levels
  <2>2. CASE immediate = NoMsg /\ important # <<>>
    <3>1. Front = Head(important) /\ Front \in ImportantMsgs
      BY <1>10, <2>2 DEF Front
    <3>2. Drop(general) = general /\ Drop(important) = Tail(important)
      BY <1>10, <2>2, <3>1, Levels DEF Drop
    <3>3. /\ Elems(Tail(important)) = Elems(important) \ {Front}
          /\ Len(Tail(important)) = Len(important) - 1
      BY <1>7, <2>2, <3>1, ElemsTail, Levels
    <3> QED
      BY <1>1, <1>10, <2>0, <2>2, <3>1, <3>2, <3>3, Levels
  <2>3. CASE immediate = NoMsg /\ important = <<>>
    <3>1. general # <<>>
      BY <1>1, <1>2, <2>3 DEF TakerFindsOne, Accounting
    <3>2. Front = Head(general) /\ Front \in GeneralMsgs
      BY <1>10, <2>3, <3>1 DEF Front
    <3>3. Drop(important) = important /\ Drop(general) = Tail(general)
      BY <2>3, <3>1, <3>2 DEF Drop
    <3>4. /\ Elems(Tail(general)) = Elems(general) \ {Front}
          /\ Len(Tail(general)) = Len(general) - 1
      BY <1>7, <3>1, <3>2, ElemsTail, Levels
    <3> QED
      BY <1>1, <1>10, <2>0, <2>3, <3>2, <3>3, <3>4, Levels
  <2> QED
    BY <2>1, <2>2, <2>3
<1>12. Contents' = Contents \ {Front}
  <2>1. Contents' = Elems(general') \cup Elems(important')
                      \cup ({immediate'} \ {NoMsg})
    BY DEF Contents, Elems
  <2> QED
    BY <1>11, <2>1 DEF Contents
<1>13. Accounting'
  <2>1. size' = Len(general') + Len(important')
                  + (IF immediate' = NoMsg THEN 0 ELSE 1)
    <3>1. Len(general') \in Nat /\ Len(important') \in Nat
      BY <1>9
    <3> QED
      BY <1>1, <1>2, <1>11, <3>1 DEF Accounting
  <2> QED
    BY <1>1, <1>2, <1>5, <1>6, <1>12, <2>1 DEF Accounting
<1>14. TypeOK'
  <2>1. size' \in Nat
    BY <1>1, <1>2 DEF TypeOK, TakerFindsOne
  <2>2. fate' \in [Msgs -> {"new", "pushed", "queued", "refused", "taken"}]
    BY <1>2, <1>3, <1>4 DEF TypeOK
  <2> QED
    BY <1>1, <1>2, <1>9, <2>1, <2>2 DEF TypeOK
<1>15. HeldOnce'
  <2>1. \A s \in Pushing : fate'[pending[s]] = "pushed"
    BY <1>2, <1>3, <1>4 DEF HeldOnce, Pushing, TypeOK, Queued
  <2> QED
    BY <1>1, <1>2, <2>1 DEF HeldOnce, Pushing
<1> QED
  BY <1>1, <1>2, <1>6, <1>9, <1>13, <1>14, <1>15
  DEF IInv, TakerFindsOne, InOrder

\* A step that touches no container, and only messages not queued, keeps the
\* accounting and the order.
LEMMA OutsideQueue ==
  ASSUME IInv, UNCHANGED <<queue, stamp, clock>>, Queued' = Queued
  PROVE  InOrder' /\ Accounting' /\ IsFiniteSet(Queued)'
BY DEF IInv, queue, InOrder, Accounting, Contents, Elems, Sorted

\* Every action keeps the invariant.
LEMMA InvStep == IInv /\ [Next]_vars => IInv'
<1> SUFFICES ASSUME IInv, [Next]_vars
             PROVE  IInv'
  OBVIOUS
<1>0. TypeOK /\ TakerFindsOne /\ HeldOnce /\ Accounting
  BY DEF IInv
<1>1. ASSUME NEW s \in Senders, NEW m \in Msgs, PushCheck(s, m) PROVE IInv'
  <2>1. Queued' = Queued
    BY <1>0, <1>1 DEF PushCheck, Becomes, Queued, TypeOK
  <2>2. TypeOK' /\ TakerFindsOne'
    BY <1>0, <1>1 DEF PushCheck, Becomes, queue, TypeOK, TakerFindsOne
  <2>3. HeldOnce'
    <3>1. Pushing' = Pushing \cup {s}
      BY <1>0, <1>1, MsgsAssumption DEF PushCheck, Pushing, TypeOK
    <3>2. pending'[s] = m /\ fate'[m] = "pushed"
      BY <1>0, <1>1 DEF PushCheck, Becomes, TypeOK
    <3>3. \A t \in Pushing \ {s} :
            /\ pending'[t] = pending[t] /\ pending[t] \in Msgs
            /\ pending[t] # m /\ fate'[pending[t]] = "pushed"
      BY <1>0, <1>1 DEF PushCheck, Becomes, Pushing, HeldOnce, TypeOK
    <3> QED
      BY <1>0, <3>1, <3>2, <3>3 DEF HeldOnce, Pushing
  <2>4. InOrder' /\ Accounting' /\ IsFiniteSet(Queued)'
    BY <1>1, <2>1, OutsideQueue DEF PushCheck
  <2> QED
    BY <2>2, <2>3, <2>4 DEF IInv
<1>2. ASSUME NEW s \in Senders, NEW m \in Msgs, PushFull(s, m) PROVE IInv'
  <2>1. Queued' = Queued
    BY <1>0, <1>2 DEF PushFull, Becomes, Queued, TypeOK
  <2>2. TypeOK' /\ TakerFindsOne'
    BY <1>0, <1>2 DEF PushFull, Becomes, queue, TypeOK, TakerFindsOne
  <2>3. HeldOnce'
    BY <1>0, <1>2 DEF PushFull, Becomes, Pushing, HeldOnce, TypeOK
  <2>4. InOrder' /\ Accounting' /\ IsFiniteSet(Queued)'
    BY <1>2, <2>1, OutsideQueue DEF PushFull
  <2> QED
    BY <2>2, <2>3, <2>4 DEF IInv
<1>3. ASSUME NEW s \in Senders, PushInsert(s) PROVE IInv'
  BY <1>3, InsertStep
<1>4. ASSUME NEW s \in Senders, PushRefuse(s) PROVE IInv'
  <2>0. pending[s] \in Msgs /\ s \in Pushing /\ fate[pending[s]] = "pushed"
    BY <1>4, HeldOutside DEF PushRefuse
  <2>1. Queued' = Queued
    BY <1>0, <1>4, <2>0 DEF PushRefuse, Becomes, Queued, TypeOK
  <2>2. TypeOK' /\ TakerFindsOne'
    BY <1>0, <1>4, <2>0
    DEF PushRefuse, Becomes, queue, TypeOK, TakerFindsOne
  <2>3. HeldOnce'
    <3>1. Pushing' = Pushing \ {s}
      BY <1>0, <1>4 DEF PushRefuse, Pushing, TypeOK
    <3>2. \A t \in Pushing \ {s} :
            /\ pending'[t] = pending[t] /\ pending[t] # pending[s]
            /\ fate'[pending[t]] = "pushed"
      BY <1>0, <1>4, <2>0 DEF PushRefuse, Becomes, Pushing, HeldOnce, TypeOK
    <3> QED
      BY <1>0, <3>1, <3>2 DEF HeldOnce
  <2>4. InOrder' /\ Accounting' /\ IsFiniteSet(Queued)'
    BY <1>4, <2>1, OutsideQueue DEF PushRefuse
  <2> QED
    BY <2>2, <2>3, <2>4 DEF IInv
<1>5. ASSUME TakeNull \/ UNCHANGED vars PROVE IInv'
  <2>1. UNCHANGED vars
    BY <1>5 DEF TakeNull
  <2> QED
    <3>1. TypeOK' /\ TakerFindsOne'
      BY <1>0, <2>1 DEF vars, TypeOK, TakerFindsOne
    <3>2. HeldOnce' /\ Queued' = Queued
      BY <1>0, <2>1 DEF vars, HeldOnce, Pushing, Queued
    <3>3. InOrder' /\ Accounting' /\ IsFiniteSet(Queued)'
      BY <2>1, <3>2, OutsideQueue DEF vars, queue
    <3> QED
      BY <3>1, <3>2, <3>3 DEF IInv
<1>6. CASE TakeCheck
  <2>1. TypeOK' /\ TakerFindsOne'
    BY <1>0, <1>6
    DEF TakeCheck, Something, queue, history, TypeOK, TakerFindsOne
  <2>2. HeldOnce' /\ Queued' = Queued
    BY <1>0, <1>6 DEF TakeCheck, history, HeldOnce, Pushing, Queued
  <2>3. InOrder' /\ Accounting' /\ IsFiniteSet(Queued)'
    BY <1>6, <2>2, OutsideQueue DEF TakeCheck, history
  <2> QED
    BY <2>1, <2>2, <2>3 DEF IInv
<1>7. CASE TakeRemove
  BY <1>7, RemoveStep
<1> QED
  BY <1>1, <1>2, <1>3, <1>4, <1>5, <1>6, <1>7 DEF Next

\* The invariant holds in every reachable state.
LEMMA Inductive == Spec => []IInv
<1> QED
  BY InvInit, InvStep, PTL DEF Spec

----------------------------------------------------------------------------

\* The queue's state is well typed; in particular m_size, which take()
\* decrements whatever it found, never goes below zero.
THEOREM TypeCorrect == Spec => []TypeOK
<1>1. IInv => TypeOK
  BY DEF IInv
<1> QED
  BY <1>1, Inductive, PTL

\* m_size, the containers and the messages accepted and not taken agree: no
\* message is lost, delivered twice or counted wrongly (msgqueue.cpp 27-84).
THEOREM CountsAgree == Spec => []Accounting
<1>1. IInv => Accounting
  BY DEF IInv
<1> QED
  BY <1>1, Inductive, PTL

\* Messages are delivered by level and, within a level, in the order in which
\* push() took them in.
THEOREM DeliveredInOrder == Spec => DeliveryOrder
<1>1. IInv /\ [Next]_vars =>
        [\A m, x \in Msgs :
           /\ fate[m] = "queued" /\ fate'[m] = "taken"
           /\ fate[x] = "queued" /\ x # m
           => \/ Rank(x) < Rank(m)
              \/ Rank(x) = Rank(m) /\ stamp[x] > stamp[m]]_vars
  <2> SUFFICES ASSUME IInv, Next,
                      NEW m \in Msgs, NEW x \in Msgs,
                      fate[m] = "queued", fate'[m] = "taken",
                      fate[x] = "queued", x # m
               PROVE  \/ Rank(x) < Rank(m)
                      \/ Rank(x) = Rank(m) /\ stamp[x] > stamp[m]
    OBVIOUS
  <2>1. taking /\ m = Front
    <3>1. fate \in [Msgs -> {"new", "pushed", "queued", "refused", "taken"}]
      BY DEF IInv, TypeOK
    <3>2. ASSUME NEW s \in Senders, NEW n \in Msgs, PushCheck(s, n) \/ PushFull(s, n)
          PROVE  FALSE
      BY <3>1, <3>2 DEF PushCheck, PushFull, Becomes
    <3>3. ASSUME NEW s \in Senders, PushInsert(s) \/ PushRefuse(s)
          PROVE  FALSE
      BY <3>1, <3>3 DEF PushInsert, PushRefuse, Becomes
    <3>4. ASSUME TakeNull \/ TakeCheck PROVE FALSE
      BY <3>4 DEF TakeNull, TakeCheck, vars, history
    <3>5. CASE TakeRemove
      BY <3>1, <3>5 DEF TakeRemove
    <3> QED
      BY <3>2, <3>3, <3>4, <3>5 DEF Next
  <2> QED
    BY <2>1, FrontFirst DEF Queued
<1> QED
  BY <1>1, Inductive, PTL DEF Spec, DeliveryOrder

----------------------------------------------------------------------------

\* A sender counts one less than the others against the capacity: it was let
\* through while there was room.
LEMMA ReservedStep == TypeOK /\ Reserved /\ [Next]_vars => Reserved'
<1> SUFFICES ASSUME TypeOK, Reserved, [Next]_vars
             PROVE  Reserved'
  OBVIOUS
<1>1. /\ IsFiniteSet(Senders) /\ Capacity \in Nat /\ Cardinality(Senders) \in Nat
      /\ size \in Nat
      /\ \A S \in SUBSET Senders : /\ IsFiniteSet(S) /\ Cardinality(S) \in Nat
                                   /\ Cardinality(S) <= Cardinality(Senders)
  BY SendersAssumption, CapacityAssumption, FS_CardinalityType, FS_Subset
  DEF TypeOK
<1>2. /\ IsFiniteSet(Pushing) /\ Cardinality(Pushing) \in Nat
      /\ Pushing' \in SUBSET Senders
  BY <1>1 DEF Pushing
<1>3. ASSUME NEW s \in Senders, NEW m \in Msgs, PushCheck(s, m) PROVE Reserved'
  <2>1. size' = size /\ size < Capacity
    BY <1>1, <1>3, CapacityAssumption DEF PushCheck, Full, queue
  <2>2. Cardinality(Pushing') <= Cardinality(Senders) /\ Cardinality(Pushing') \in Nat
    BY <1>1, <1>2
  <2> QED
    BY <1>1, <2>1, <2>2 DEF Reserved
<1>4. ASSUME NEW s \in Senders, PushInsert(s) \/ PushRefuse(s) PROVE Reserved'
  <2>1. s \in Pushing /\ Pushing' = Pushing \ {s}
    BY <1>4 DEF PushInsert, PushRefuse, Pushing, TypeOK
  <2>2. Cardinality(Pushing') = Cardinality(Pushing) - 1
    BY <1>2, <2>1, FS_RemoveElement
  <2>3. size' = size + 1 \/ size' = size
    BY <1>4 DEF PushInsert, PushRefuse, queue
  <2> QED
    BY <1>1, <1>2, <2>2, <2>3 DEF Reserved
<1>5. ASSUME \/ \E s \in Senders, m \in Msgs : PushFull(s, m)
             \/ TakeNull \/ TakeCheck \/ TakeRemove \/ UNCHANGED vars
      PROVE  Reserved'
  <2>1. pending' = pending
    BY <1>5 DEF PushFull, TakeNull, TakeCheck, TakeRemove, vars
  <2>2. size' = size \/ size' = size - 1
    BY <1>5 DEF PushFull, TakeNull, TakeCheck, TakeRemove, vars, queue
  <2>3. Pushing' = Pushing
    BY <2>1 DEF Pushing
  <2> QED
    BY <1>1, <1>2, <2>2, <2>3 DEF Reserved
<1> QED
  BY <1>3, <1>4, <1>5 DEF Next

\* The queue exceeds its capacity by less than the number of senders, although
\* push() tests the capacity before it takes the lock (msgqueue.cpp 29).
THEOREM CapacityOvershoot == Spec => []OvershootBounded
<1>1. Init => Reserved
  <2> SUFFICES ASSUME Init PROVE Reserved
    OBVIOUS
  <2>1. Pushing = {} /\ size = 0
    BY DEF Init, Pushing
  <2>2. Cardinality(Senders) \in Nat /\ Cardinality(Senders) # 0
    BY SendersAssumption, FS_CardinalityType, FS_EmptySet
  <2> QED
    BY <2>1, <2>2, CapacityAssumption, FS_EmptySet DEF Reserved
<1>2. TypeOK /\ Reserved => OvershootBounded
  <2> SUFFICES ASSUME TypeOK, Reserved PROVE OvershootBounded
    OBVIOUS
  <2>1. Cardinality(Pushing) \in Nat /\ Cardinality(Senders) \in Nat
    BY SendersAssumption, FS_CardinalityType, FS_Subset DEF Pushing
  <2> QED
    BY <2>1, CapacityAssumption DEF TypeOK, Reserved, OvershootBounded
<1> QED
  BY <1>1, <1>2, ReservedStep, TypeCorrect, PTL DEF Spec

----------------------------------------------------------------------------
\* The module.

\* What the balance of tokens needs of the types.
TokenTypes ==
  /\ waking \in SUBSET Senders
  /\ sem \in Nat
  /\ stopping \in BOOLEAN
  /\ pending \in [Senders -> Msgs \cup {NoMsg}]

\* A sender is in one push() or one WakeUp() at a time.
OneCall == \A s \in waking : pending[s] = NoMsg

\* Stop() wakes the thread only after it set m_stopping.
StopMarked == stopPc # "running" => stopping

TokenInv == TokenTypes /\ OneCall /\ StopMarked /\ TokenBalance

ModulTypes ==
  /\ waking \in SUBSET Senders
  /\ sem \in Nat
  /\ stopping \in BOOLEAN
  /\ runPc \in {"test", "wait", "take", "locked", "process", "done"}
  /\ current \in Msgs \cup {NoMsg}
  /\ stopPc \in {"running", "wake", "delete", "stopped"}
  /\ crashed \in BOOLEAN

ModulInv == ModulTypes /\ IInv

----------------------------------------------------------------------------
\* Tokens and messages.

\* Nothing is queued, and nobody is to be woken.
LEMMA TokenInit == ModulInit => TokenInv
<1> SUFFICES ASSUME ModulInit PROVE TokenInv
  OBVIOUS
<1>1. Cardinality({}) = 0
  BY FS_EmptySet
<1>2. /\ waking = {} /\ sem = 0 /\ stopping = FALSE /\ runPc = "test" /\ size = 0
      /\ stopPc = "running"
      /\ pending = [s \in Senders |-> NoMsg]
  BY DEF ModulInit, Init
<1>3. TokenTypes /\ OneCall /\ StopMarked
  BY <1>2 DEF TokenTypes, OneCall, StopMarked
<1>4. TokenBalance
  BY <1>1, <1>2 DEF TokenBalance
<1> QED
  BY <1>3, <1>4 DEF TokenInv

\* Any set of senders about to wake the module is finite.
LEMMA WakingFinite ==
  ASSUME TokenTypes
  PROVE  IsFiniteSet(waking) /\ Cardinality(waking) \in Nat
BY SendersAssumption, FS_Subset, FS_CardinalityType DEF TokenTypes

\* Every step keeps the balance: a push pays for its message with a WakeUp()
\* of its own, a wait() moves a token to the thread's hand, and take() spends
\* it with the message.
LEMMA TokenStep == TokenInv /\ [ModulNext]_allVars => TokenInv'
<1> SUFFICES ASSUME TokenInv, [ModulNext]_allVars PROVE TokenInv'
  OBVIOUS
<1>0. /\ TokenTypes /\ OneCall /\ StopMarked /\ TokenBalance
      /\ IsFiniteSet(waking) /\ Cardinality(waking) \in Nat
  BY WakingFinite DEF TokenInv
<1>1. ASSUME NEW s \in Senders, NEW m \in Msgs, Push(s, m) PROVE TokenInv'
  BY <1>0, <1>1
  DEF TokenInv, TokenTypes, OneCall, StopMarked, TokenBalance, Push, modulVars, Msgs,
      PushCheck, PushFull, queue
<1>2. ASSUME NEW s \in Senders, PushDone(s) PROVE TokenInv'
  <2>1. /\ pending[s] # NoMsg /\ pending' = [pending EXCEPT ![s] = NoMsg]
        /\ size' = size + 1 /\ waking' = waking \cup {s}
        /\ UNCHANGED <<sem, stopping, runPc, stopPc>>
    BY <1>2 DEF PushDone, PushInsert
  <2>2. s \notin waking
    BY <1>0, <2>1 DEF OneCall
  <2>3. Cardinality(waking') = Cardinality(waking) + 1
    BY <1>0, <2>1, <2>2, FS_AddElement
  <2>4. TokenBalance'
    BY <1>0, <2>1, <2>3 DEF TokenBalance, TokenTypes
  <2>5. TokenTypes' /\ OneCall' /\ StopMarked'
    BY <1>0, <2>1 DEF TokenTypes, OneCall, StopMarked
  <2> QED
    BY <2>4, <2>5 DEF TokenInv
<1>3. ASSUME NEW s \in Senders, PushFailed(s) PROVE TokenInv'
  BY <1>0, <1>3
  DEF TokenInv, TokenTypes, OneCall, StopMarked, TokenBalance, PushFailed, modulVars,
      PushRefuse, queue
<1>4. ASSUME NEW s \in Senders, WakeUp(s) PROVE TokenInv'
  <2>1. /\ s \in waking /\ waking' = waking \ {s} /\ sem' = sem + 1
        /\ UNCHANGED <<pending, size, stopping, runPc, stopPc>>
    BY <1>4 DEF WakeUp, vars
  <2>2. Cardinality(waking') = Cardinality(waking) - 1
    BY <1>0, <2>1, FS_RemoveElement
  <2> QED
    BY <1>0, <2>1, <2>2
    DEF TokenInv, TokenTypes, OneCall, StopMarked, TokenBalance
<1>5. ASSUME RunTest \/ RunProcess \/ StopDelete \/ Crash \/ UNCHANGED allVars
      PROVE  TokenInv'
  BY <1>0, <1>5
  DEF RunTest, RunProcess, StopDelete, Crash, allVars, modulVars, vars, TokenInv,
      TokenTypes, OneCall, StopMarked, TokenBalance
<1>6. ASSUME RunWait PROVE TokenInv'
  BY <1>0, <1>6
  DEF RunWait, Signalled, vars, TokenInv, TokenTypes, OneCall, StopMarked, TokenBalance
<1>7. ASSUME RunTakeNull PROVE TokenInv'
  <2>1. /\ runPc = "take" /\ size = 0
        /\ UNCHANGED <<pending, size, waking, sem, stopping, stopPc>>
    BY <1>7 DEF RunTakeNull, TakeNull, Something, vars
  <2>2. stopping
    BY <1>0, <2>1 DEF TokenBalance, TokenTypes
  <2> QED
    BY <1>0, <2>1, <2>2 DEF TokenInv, TokenTypes, OneCall, StopMarked, TokenBalance
<1>8. ASSUME RunTakeCheck PROVE TokenInv'
  BY <1>0, <1>8
  DEF RunTakeCheck, TakeCheck, queue, TokenInv, TokenTypes, OneCall,
      StopMarked, TokenBalance
<1>9. ASSUME RunTakeRemove PROVE TokenInv'
  <2>1. /\ runPc = "locked" /\ runPc' \in {"test", "process"}
        /\ size' = size - 1
        /\ UNCHANGED <<pending, waking, sem, stopping, stopPc>>
    BY <1>9 DEF RunTakeRemove, TakeRemove
  <2> QED
    BY <1>0, <2>1 DEF TokenInv, TokenTypes, OneCall, StopMarked, TokenBalance
<1>10. ASSUME StopSet \/ StopWakeUp PROVE TokenInv'
  <2>1. CASE StopSet
    BY <1>0, <2>1
    DEF StopSet, vars, TokenInv, TokenTypes, OneCall, StopMarked, TokenBalance
  <2>2. CASE StopWakeUp
    BY <1>0, <2>2
    DEF StopWakeUp, vars, TokenInv, TokenTypes, OneCall, StopMarked, TokenBalance
  <2> QED
    BY <1>10, <2>1, <2>2
<1> QED
  BY <1>1, <1>2, <1>3, <1>4, <1>5, <1>6, <1>7, <1>8, <1>9, <1>10
  DEF ModulNext, RunStep, SenderStep, StopStep

\* Until Stop() every accepted message has its own wake-up, pending, counted
\* by the semaphore or in the hand of the thread: none waits without a token,
\* and no wake-up finds the queue empty (modul_base.cpp 52-60, 87-95).
THEOREM WakeUpsMatch == ModulSpec => []TokenBalance
<1>1. TokenInv => TokenBalance
  BY DEF TokenInv
<1> QED
  BY <1>1, TokenInit, TokenStep, PTL DEF ModulSpec, ModulSafeSpec

----------------------------------------------------------------------------
\* Types.

\* The module starts with an empty queue.
LEMMA QueueInit == ModulInit => Init
BY DEF ModulInit

\* Every step of the module is a step of the queue, or leaves it alone.
LEMMA QueueNext == [ModulNext]_allVars => [Next]_vars
<1> SUFFICES ASSUME [ModulNext]_allVars PROVE [Next]_vars
  OBVIOUS
<1>1. ASSUME NEW s \in Senders, NEW m \in Msgs, Push(s, m) PROVE Next
  BY <1>1 DEF Push, Next
<1>2. ASSUME NEW s \in Senders, PushDone(s) \/ PushFailed(s) PROVE Next
  BY <1>2 DEF PushDone, PushFailed, Next
<1>3. ASSUME RunTakeNull \/ RunTakeCheck \/ RunTakeRemove PROVE Next
  BY <1>3 DEF RunTakeNull, RunTakeCheck, RunTakeRemove, Next
<1>4. ASSUME \/ \E s \in Senders : WakeUp(s)
             \/ RunTest \/ RunWait \/ RunProcess
             \/ StopSet \/ StopStep \/ Crash \/ UNCHANGED allVars
      PROVE  UNCHANGED vars
  BY <1>4
  DEF WakeUp, RunTest, RunWait, RunProcess, StopSet, StopStep, StopWakeUp,
      StopDelete, Crash, allVars
<1> QED
  BY <1>1, <1>2, <1>3, <1>4 DEF ModulNext, RunStep, SenderStep

\* A module uses its queue as MsgQueue specifies it: with any number of senders
\* and one thread that takes, whatever Stop() and the wake-ups do.  So what is
\* proved of MsgQueue holds of the queue of a module.
THEOREM ModulUsesQueue == ModulSpec => Spec
BY QueueInit, QueueNext, PTL DEF ModulSpec, ModulSafeSpec, Spec

\* What take() returns is a message or null.
LEMMA FrontType ==
  ASSUME IInv
  PROVE  Front \in Msgs \cup {NoMsg}
<1>1. /\ general \in Seq(GeneralMsgs) /\ important \in Seq(ImportantMsgs)
      /\ immediate \in ImmediateMsgs \cup {NoMsg}
  BY DEF IInv, TypeOK
<1>2. /\ general # <<>> => Head(general) \in GeneralMsgs
      /\ important # <<>> => Head(important) \in ImportantMsgs
  BY <1>1
<1> QED
  BY <1>1, <1>2 DEF Front, Msgs

\* Every step keeps the types of the module's own state.
LEMMA TypesStep == ModulTypes /\ IInv /\ [ModulNext]_allVars => ModulTypes'
<1> SUFFICES ASSUME ModulTypes, IInv, [ModulNext]_allVars PROVE ModulTypes'
  OBVIOUS
<1>1. ASSUME NEW s \in Senders,
             (\E m \in Msgs : Push(s, m)) \/ SenderStep(s)
      PROVE  ModulTypes'
  BY <1>1
  DEF ModulTypes, Push, SenderStep, PushDone, PushFailed, WakeUp, modulVars
<1>2. CASE RunStep
  <2>1. CASE RunTakeRemove
    BY <2>1, FrontType DEF ModulTypes, RunTakeRemove
  <2>2. CASE RunTest \/ RunWait \/ RunTakeNull \/ RunTakeCheck \/ RunProcess
    BY <2>2
    DEF ModulTypes, RunTest, RunWait, Signalled, RunTakeNull, RunTakeCheck,
        RunProcess
  <2> QED
    BY <1>2, <2>1, <2>2 DEF RunStep
<1>3. ASSUME StopSet \/ StopStep PROVE ModulTypes'
  <2>1. CASE StopSet
    BY <2>1 DEF ModulTypes, StopSet
  <2>2. CASE StopWakeUp
    BY <2>2 DEF ModulTypes, StopWakeUp
  <2>3. CASE StopDelete
    BY <2>3 DEF ModulTypes, StopDelete
  <2> QED
    BY <1>3, <2>1, <2>2, <2>3 DEF StopStep
<1>4. CASE Crash
  BY <1>4 DEF ModulTypes, Crash
<1>5. CASE UNCHANGED allVars
  BY <1>5 DEF ModulTypes, allVars, modulVars
<1> QED
  BY <1>1, <1>2, <1>3, <1>4, <1>5 DEF ModulNext

\* The module's state, the queue's with it, is well typed: what the thread
\* takes is a message or null, and take() never drives m_size below zero, since
\* a wake-up that finds no message ends in take()'s test (modul_base.cpp 54-92).
THEOREM ModulTypeCorrect == ModulSpec => []ModulTypeOK
<1>1. ModulInit => ModulInv
  <2> SUFFICES ASSUME ModulInit PROVE ModulInv
    OBVIOUS
  <2>1. ModulTypes
    BY DEF ModulInit, ModulTypes
  <2> QED
    BY <2>1, QueueInit, InvInit DEF ModulInv
<1>2. ModulInv /\ [ModulNext]_allVars => ModulInv'
  BY QueueNext, InvStep, TypesStep DEF ModulInv
<1>3. ModulInv => ModulTypeOK
  BY DEF ModulInv, IInv, ModulTypes, ModulTypeOK
<1> QED
  BY <1>1, <1>2, <1>3, PTL DEF ModulSpec, ModulSafeSpec
============================================================================
