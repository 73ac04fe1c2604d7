------------------------------ MODULE MsgQueue ------------------------------
(***************************************************************************)
(* gdres::MsgQueue (modulmgr/msgqueue.h, msgqueue.cpp): the message queue  *)
(* of a module.  Any thread pushes; one thread, the module's, takes.       *)
(* Both functions read the atomic m_size before they take m_mtx, so what   *)
(* they saw may be stale once they hold it: each is two steps here.        *)
(*                                                                         *)
(* A message is a pointer that is pushed once.  fate, stamp and clock are  *)
(* history: where each message is, and in which order push() took them in. *)
(***************************************************************************)
EXTENDS Integers, Sequences, FiniteSets

CONSTANTS
  Senders,                                     \* the threads that push
  GeneralMsgs, ImportantMsgs, ImmediateMsgs,   \* messages of each MsgLevel
  OtherMsgs,                                   \* messages of no MsgLevel
  NoMsg,                                       \* nullptr
  Capacity                                     \* m_capacity

Msgs == GeneralMsgs \cup ImportantMsgs \cup ImmediateMsgs \cup OtherMsgs

ASSUME SendersAssumption == IsFiniteSet(Senders) /\ Senders # {}
ASSUME CapacityAssumption == Capacity \in Nat
ASSUME MsgsAssumption ==
  /\ NoMsg \notin Msgs
  /\ GeneralMsgs \cap ImportantMsgs = {}
  /\ ImmediateMsgs \cap (GeneralMsgs \cup ImportantMsgs) = {}
  /\ OtherMsgs \cap (GeneralMsgs \cup ImportantMsgs \cup ImmediateMsgs) = {}

\* The order of MsgLevel: GENERAL < IMPORTANCE < IMMEDIATE.
Rank(m) == IF m \in ImmediateMsgs THEN 2 ELSE IF m \in ImportantMsgs THEN 1 ELSE 0

VARIABLES
  general,    \* m_genaralMsgs
  important,  \* m_importantMsgs
  immediate,  \* m_imMsg, a message or NoMsg
  size,       \* m_size
  pending,    \* Senders -> the message a push() past its capacity check holds
  taking,     \* take() is past its check of m_size
  fate,       \* Msgs -> new, pushed (past the check), queued, refused, taken
  stamp,      \* Msgs -> the value of clock when the message was queued
  clock       \* number of messages queued so far

queue   == <<general, important, immediate, size>>
history == <<fate, stamp, clock>>
vars    == <<general, important, immediate, size, pending, taking, fate, stamp, clock>>

Elems(q) == {q[i] : i \in 1..Len(q)}

\* The messages the three containers hold.
Contents ==
  Elems(general) \cup Elems(important) \cup ({immediate} \ {NoMsg})

Queued == {m \in Msgs : fate[m] = "queued"}
Pushing == {s \in Senders : pending[s] # NoMsg}

Init ==
  /\ general = <<>> /\ important = <<>> /\ immediate = NoMsg /\ size = 0
  /\ pending = [s \in Senders |-> NoMsg]
  /\ taking = FALSE
  /\ fate = [m \in Msgs |-> "new"]
  /\ stamp = [m \in Msgs |-> 0]
  /\ clock = 0

Becomes(m, f) == fate' = [fate EXCEPT ![m] = f]

----------------------------------------------------------------------------
\* push()

\* A mutant: one message too many passes the check.
FullLate == size > Capacity

Full == size >= Capacity

\* The capacity is checked without the lock.
PushCheck(s, m) ==
  /\ pending[s] = NoMsg /\ fate[m] = "new"
  /\ ~ Full
  /\ pending' = [pending EXCEPT ![s] = m]
  /\ Becomes(m, "pushed")
  /\ UNCHANGED <<queue, taking, stamp, clock>>

PushFull(s, m) ==
  /\ pending[s] = NoMsg /\ fate[m] = "new"
  /\ Full
  /\ Becomes(m, "refused")
  /\ UNCHANGED <<queue, pending, taking, stamp, clock>>

\* Under the lock the message goes to the container of its level; a second
\* immediate message, or one of no level, is turned down.
StoreGeneral(m) ==
  /\ m \in GeneralMsgs
  /\ general' = Append(general, m)
  /\ UNCHANGED <<important, immediate>>

StoreImportant(m) ==
  /\ m \in ImportantMsgs
  /\ important' = Append(important, m)
  /\ UNCHANGED <<general, immediate>>

\* A mutant: m_imMsg is overwritten.
StoreImmediateAlways(m) ==
  /\ m \in ImmediateMsgs
  /\ immediate' = m
  /\ UNCHANGED <<general, important>>

StoreImmediate(m) ==
  /\ m \in ImmediateMsgs
  /\ immediate = NoMsg
  /\ immediate' = m
  /\ UNCHANGED <<general, important>>

TurnedDown(m) == m \in OtherMsgs \/ (m \in ImmediateMsgs /\ immediate # NoMsg)

PushInsert(s) ==
  LET m == pending[s] IN
  /\ m # NoMsg
  /\ StoreGeneral(m) \/ StoreImportant(m) \/ StoreImmediate(m)
  /\ size' = size + 1
  /\ pending' = [pending EXCEPT ![s] = NoMsg]
  /\ Becomes(m, "queued")
  /\ clock' = clock + 1
  /\ stamp' = [stamp EXCEPT ![m] = clock']
  /\ UNCHANGED taking

PushRefuse(s) ==
  LET m == pending[s] IN
  /\ m # NoMsg
  /\ TurnedDown(m)
  /\ pending' = [pending EXCEPT ![s] = NoMsg]
  /\ Becomes(m, "refused")
  /\ UNCHANGED <<queue, taking, stamp, clock>>

----------------------------------------------------------------------------
\* take()

\* A mutant: take() goes for the lock whatever m_size says.
Anything == TRUE

Something == size # 0

\* m_size is checked without the lock; nullptr is returned when it is zero.
TakeNull ==
  /\ ~ taking /\ ~ Something
  /\ UNCHANGED vars

TakeCheck ==
  /\ ~ taking /\ Something
  /\ taking' = TRUE
  /\ UNCHANGED <<queue, pending, history>>

\* A mutant: the general messages are looked at before the important ones.
FrontGeneralFirst ==
  CASE immediate # NoMsg -> immediate
    [] immediate = NoMsg /\ general # <<>> -> Head(general)
    [] immediate = NoMsg /\ general = <<>> /\ important # <<>> -> Head(important)
    [] OTHER -> NoMsg

\* The message take() removes under the lock: by level, then by age.
Front ==
  CASE immediate # NoMsg -> immediate
    [] immediate = NoMsg /\ important # <<>> -> Head(important)
    [] immediate = NoMsg /\ important = <<>> /\ general # <<>> -> Head(general)
    [] OTHER -> NoMsg

Drop(q) == IF q # <<>> /\ Head(q) = Front THEN Tail(q) ELSE q

\* m_size is decremented even if nothing was found.
TakeRemove ==
  /\ taking
  /\ immediate' = NoMsg
  /\ important' = Drop(important)
  /\ general' = Drop(general)
  /\ size' = size - 1
  /\ taking' = FALSE
  /\ fate' = IF Front = NoMsg THEN fate ELSE [fate EXCEPT ![Front] = "taken"]
  /\ UNCHANGED <<pending, stamp, clock>>

----------------------------------------------------------------------------

Next ==
  \/ \E s \in Senders :
       \/ \E m \in Msgs : PushCheck(s, m) \/ PushFull(s, m)
       \/ PushInsert(s)
       \/ PushRefuse(s)
  \/ TakeNull \/ TakeCheck \/ TakeRemove

Spec == Init /\ [][Next]_vars

----------------------------------------------------------------------------

TypeOK ==
  /\ general \in Seq(GeneralMsgs)
  /\ important \in Seq(ImportantMsgs)
  /\ immediate \in ImmediateMsgs \cup {NoMsg}
  /\ size \in Nat
  /\ pending \in [Senders -> Msgs \cup {NoMsg}]
  /\ taking \in BOOLEAN
  /\ fate \in [Msgs -> {"new", "pushed", "queued", "refused", "taken"}]
  /\ stamp \in [Msgs -> Nat]
  /\ clock \in Nat

\* No accepted message is lost, duplicated or miscounted: m_size, read without
\* the lock by push() and take(), is the number of messages accepted and not
\* yet taken, and the containers hold exactly these.
Accounting ==
  /\ Contents = Queued
  /\ size = Len(general) + Len(important) + (IF immediate = NoMsg THEN 0 ELSE 1)
  /\ size = Cardinality(Queued)

\* The unlocked capacity check lets the queue grow past its capacity, but by
\* no more than one message for each further thread caught between the check
\* and the lock.
OvershootBounded == size <= Capacity + Cardinality(Senders) - 1

\* take() never overtakes: everything that stays in the queue is of a lower
\* level than the message removed, or of its level and was queued after it.
DeliveryOrder ==
  [][\A m, x \in Msgs :
       /\ fate[m] = "queued" /\ fate'[m] = "taken"
       /\ fate[x] = "queued" /\ x # m
       => \/ Rank(x) < Rank(m)
          \/ Rank(x) = Rank(m) /\ stamp[x] > stamp[m]]_vars

\* The queue never holds more messages than its capacity (msgdata.h 18, and
\* the comment of push(), which fails when the queue is full).
WithinCapacity == size <= Capacity

\* push() fails only because the queue is full (msgqueue.cpp 24).
RefusedMeansFull ==
  [][\A m \in Msgs : fate[m] # "refused" /\ fate'[m] = "refused" => Full]_vars
=============================================================================
