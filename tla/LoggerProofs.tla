---------------------------- MODULE LoggerProofs ----------------------------
(***************************************************************************)
(* Proofs about Logger, for any threads, appenders, formatters and         *)
(* patterns: outside of SetFormatter() and AddAppender() every appender of *)
(* the logger has a formatter that exists, and every line that an appender *)
(* writes is whole, uninterrupted by its others, or cut and reported.      *)
(***************************************************************************)
EXTENDS Logger, SequenceTheorems, TLAPS

PCs == {"idle", "walk", "reopen", "stamp", "format", "write", "update", "adopt", "push"}

TypeInv ==
  /\ pc \in [Threads -> PCs]
  /\ rest \in [Threads -> Seq(Appenders)]
  /\ DOMAIN todo = Threads
  /\ DOMAIN event = Threads
  /\ lock \in [Appenders \cup {Root} -> Threads \cup {None}]
  /\ appenders \in Seq(Appenders)
  /\ formatter \in Formatters
  /\ fmt \in [Appenders -> Formatters \cup {None}]
  /\ DOMAIN items = Formatters
  /\ used \subseteq Formatters \cup Appenders

\* The thread that writes holds the lock of its appender, the one in
\* SetFormatter() or AddAppender() the logger's; no other lock is held.
LockInv ==
  /\ \A t \in Threads : pc[t] \in {"reopen", "stamp", "format", "write"} => rest[t] # <<>>
  /\ \A t \in Threads : pc[t] = "write" => lock[Head(rest[t])] = t
  /\ \A t \in Threads, a \in Appenders :
       lock[a] = t => pc[t] = "write" /\ a = Head(rest[t])
  /\ \A t \in Threads : lock[Root] = t <=> pc[t] \in {"update", "adopt", "push"}

\* Once added, an appender stays known; no two entries are the same.
ListInv ==
  /\ \A i \in DOMAIN appenders : appenders[i] \in used
  /\ \A i, j \in DOMAIN appenders : appenders[i] = appenders[j] => i = j

HasFormatter(a) == fmt[a] # None /\ items[fmt[a]] # None

\* The formatters that exist. One the user gave to an appender not added yet is
\* not the logger's, so SetFormatter() does not delete it.
FormatterInv ==
  /\ items[formatter] # None /\ formatter \in used
  /\ \A a \in Appenders : fmt[a] # None => fmt[a] \in used
  /\ \A a \in Appenders : a \notin used /\ fmt[a] # None => HasFormatter(a) /\ fmt[a] # formatter

\* SetFormatter() still has to visit the appenders without a formatter, and
\* AddAppender() gives its appender one before it is added.
ChangeInv ==
  /\ lock[Root] = None => \A i \in DOMAIN appenders : HasFormatter(appenders[i])
  /\ \A t \in Threads : pc[t] = "update" =>
       /\ \A i \in DOMAIN appenders :
            HasFormatter(appenders[i]) \/ (\E j \in DOMAIN rest[t] : rest[t][j] = appenders[i])
       /\ \A j \in DOMAIN rest[t] : rest[t][j] \in used
  /\ \A t \in Threads : pc[t] \in {"adopt", "push"} =>
       /\ \A i \in DOMAIN appenders : HasFormatter(appenders[i]) /\ appenders[i] # rest[t][1]
       /\ Len(rest[t]) = 1 /\ rest[t][1] \in used
       /\ pc[t] = "push" => HasFormatter(rest[t][1])

FInv == TypeInv /\ LockInv /\ ListInv /\ FormatterInv /\ ChangeInv

----------------------------------------------------------------------------

LEMMA NoneApart ==
  /\ None \notin Threads /\ None \notin Formatters /\ Root \notin Appenders
  /\ \A f \in Formatters : f \notin Appenders /\ Items(Pattern[f]) # None
  BY LoggerAssumption

\* A list without its head.
LEMMA TailFacts ==
  ASSUME NEW s \in Seq(Appenders), s # <<>>
  PROVE  /\ Tail(s) \in Seq(Appenders) /\ 1 \in DOMAIN s /\ Head(s) = s[1] /\ Head(s) \in Appenders
         /\ DOMAIN Tail(s) \subseteq Nat /\ \A i \in DOMAIN Tail(s) : i + 1 \in DOMAIN s /\ Tail(s)[i] = s[i + 1]
         /\ \A i \in DOMAIN s : i \in Nat /\ (i = 1 \/ i - 1 \in DOMAIN Tail(s))
<1>1. Len(s) \in Nat /\ Len(s) >= 1 /\ DOMAIN s = 1 .. Len(s)
  OBVIOUS
<1>2. Tail(s) \in Seq(Appenders) /\ Len(Tail(s)) = Len(s) - 1
  OBVIOUS
<1>3. DOMAIN Tail(s) = 1 .. Len(s) - 1 /\ \A i \in 1 .. Len(s) - 1 : Tail(s)[i] = s[i + 1]
  OBVIOUS
<1>4. Head(s) = s[1] /\ Head(s) \in Appenders
  OBVIOUS
<1> QED
  BY <1>1, <1>2, <1>3, <1>4

\* erase(): the others keep their order.
LEMMA RemoveAtFacts ==
  ASSUME NEW s \in Seq(Appenders), NEW i \in DOMAIN s
  PROVE  /\ RemoveAt(s, i) \in Seq(Appenders)
         /\ \A k \in DOMAIN RemoveAt(s, i) :
              /\ k \in Nat /\ k \in DOMAIN s /\ k + 1 \in DOMAIN s
              /\ RemoveAt(s, i)[k] = IF k < i THEN s[k] ELSE s[k + 1]
<1> DEFINE p == SubSeq(s, 1, i - 1)
           q == SubSeq(s, i + 1, Len(s))
           r == RemoveAt(s, i)
<1>1. p \in Seq(Appenders) /\ Len(p) = i - 1 /\ \A j \in 1 .. i - 1 : p[j] = s[j]
  OBVIOUS
<1>2. q \in Seq(Appenders) /\ Len(q) = Len(s) - i /\ \A j \in 1 .. Len(s) - i : q[j] = s[i + j]
  OBVIOUS
<1>3. r = p \o q
  BY DEF RemoveAt
<1>4. i \in 1 .. Len(s) /\ Len(s) \in Nat /\ DOMAIN s = 1 .. Len(s)
  OBVIOUS
<1> HIDE DEF p, q, r
<1>5. r \in Seq(Appenders) /\ Len(r) = Len(s) - 1 /\ DOMAIN r = 1 .. Len(s) - 1
  <2>1. r \in Seq(Appenders) /\ Len(r) = Len(p) + Len(q)
    BY <1>1, <1>2, <1>3, ConcatProperties
  <2>2. Len(r) = Len(s) - 1
    BY <1>1, <1>2, <1>4, <2>1
  <2> QED
    BY <2>1, <2>2, LenProperties
<1>6. \A j \in 1 .. Len(s) - 1 : r[j] = IF j < i THEN p[j] ELSE q[j - (i - 1)]
  <2>1. \A j \in 1 .. Len(p) + Len(q) : r[j] = IF j <= Len(p) THEN p[j] ELSE q[j - Len(p)]
    BY <1>1, <1>2, <1>3, ConcatProperties
  <2> QED
    BY <1>1, <1>2, <1>4, <2>1
<1>7. \A j \in 1 .. Len(s) - 1 : j >= i => q[j - (i - 1)] = s[j + 1]
  BY <1>2, <1>4
<1>8. \A j \in 1 .. Len(s) - 1 : r[j] = IF j < i THEN s[j] ELSE s[j + 1]
  BY <1>1, <1>4, <1>6, <1>7
<1>9. \A k \in 1 .. Len(s) - 1 : k \in Nat /\ k \in 1 .. Len(s) /\ k + 1 \in 1 .. Len(s)
  BY <1>4
<1>10. \A k \in DOMAIN r :
         /\ k \in Nat /\ k \in DOMAIN s /\ k + 1 \in DOMAIN s
         /\ r[k] = IF k < i THEN s[k] ELSE s[k + 1]
  BY <1>4, <1>5, <1>8, <1>9
<1>11. r \in Seq(Appenders)
  BY <1>5
<1> QED
  BY Zenon, <1>10, <1>11 DEF r

\* push_back().
LEMMA PushFacts ==
  ASSUME NEW S, NEW s \in Seq(S), NEW r \in Seq(S), Len(r) = 1
  PROVE  /\ DOMAIN (s \o r) = DOMAIN s \cup {Len(s) + 1} /\ Len(s) + 1 \notin DOMAIN s
         /\ \A i \in DOMAIN s : (s \o r)[i] = s[i]
         /\ (s \o r)[Len(s) + 1] = r[1]
<1> DEFINE c == s \o r
           n == Len(s)
<1>1. /\ c \in Seq(S) /\ Len(c) = n + Len(r)
      /\ \A i \in 1 .. n + Len(r) : c[i] = IF i <= n THEN s[i] ELSE r[i - n]
  BY ConcatProperties
<1>2. n \in Nat /\ DOMAIN s = 1 .. n /\ DOMAIN c = 1 .. Len(c)
  BY <1>1, LenProperties
<1> HIDE DEF c, n
<1>3. (\A i \in 1 .. n : c[i] = s[i]) /\ c[n + 1] = r[1]
  BY <1>1, <1>2
<1>4. 1 .. n + 1 = (1 .. n) \cup {n + 1} /\ n + 1 \notin 1 .. n
  BY <1>2
<1>5. Len(c) = n + 1
  BY <1>1
<1> QED
  BY <1>2, <1>3, <1>4, <1>5 DEF c, n

LEMMA TypeStep == FInv /\ [Next]_vars => TypeInv'
<1> SUFFICES ASSUME FInv, [Next]_vars PROVE TypeInv'
  OBVIOUS
<1> USE DEF PCs
<1>1. TypeInv /\ LockInv
  BY DEF FInv
<1>2. ASSUME NEW t \in Threads, rest[t] # <<>> PROVE Tail(rest[t]) \in Seq(Appenders) /\ Head(rest[t]) \in Appenders
  BY <1>1, <1>2, TailFacts DEF TypeInv
<1>3. ASSUME NEW t \in Threads, LogStep(t) PROVE TypeInv'
  <2>1. CASE LogEnds(t) \/ Visit(t) \/ ReOpen(t) \/ Stamp(t)
    BY <1>1, <1>2, <2>1 DEF LogEnds, Visit, ReOpen, Stamp, TypeInv, At, Goto, Rest, listVars
  <2>2. CASE Format(t)
    BY <1>1, <1>2, <2>2 DEF Format, TypeInv, At, Goto, Lock, listVars
  <2>3. CASE Item(t)
    BY <1>1, <1>2, <2>3 DEF Item, TypeInv, At, listVars
  <2>4. CASE Written(t)
    BY <1>1, <1>2, <2>4, NoneApart DEF Written, TypeInv, LockInv, At, Goto, Rest, Unlock, listVars
  <2> QED
    BY <1>3, <2>1, <2>2, <2>3, <2>4 DEF LogStep
<1>4. ASSUME NEW t \in Threads, NEW v \in Levels, Log(t, v) PROVE TypeInv'
  BY <1>1, <1>4 DEF Log, TypeInv, At, Goto, Rest, listVars
<1>5. ASSUME NEW t \in Threads, ChangeStep(t) PROVE TypeInv'
  <2>1. CASE Update(t)
    BY <1>1, <1>2, <2>1 DEF Update, TypeInv, At, Rest
  <2>2. CASE Updated(t)
    BY <1>1, <2>2 DEF Updated, TypeInv, At, Goto, Unlock, listVars
  <2>3. CASE Adopt(t)
    BY <1>1, <2>3 DEF Adopt, TypeInv, At, Goto
  <2>4. CASE Push(t)
    <3>1. appenders \o rest[t] \in Seq(Appenders) /\ <<>> \in Seq(Appenders)
      BY <1>1, EmptySeq DEF TypeInv
    <3> QED
      BY <1>1, <2>4, <3>1 DEF Push, TypeInv, At, Goto, Rest, Unlock
  <2> QED
    BY <1>5, <2>1, <2>2, <2>3, <2>4 DEF ChangeStep
<1>6. ASSUME NEW t \in Threads, ChangeBegins(t) PROVE TypeInv'
  <2>1. ASSUME NEW f \in Formatters, SetFormatter(t, f) PROVE TypeInv'
    BY <1>1, <2>1 DEF SetFormatter, MayChange, TypeInv, Goto, Rest, Lock
  <2>2. ASSUME NEW a \in Appenders, AddAppender(t, a) PROVE TypeInv'
    <3>1. <<a>> \in Seq(Appenders)
      OBVIOUS
    <3> QED
      BY <1>1, <2>2, <3>1 DEF AddAppender, MayChange, TypeInv, Goto, Rest, Lock
  <2>3. ASSUME NEW i \in DOMAIN appenders, DelAppender(t, i) PROVE TypeInv'
    <3>1. RemoveAt(appenders, i) \in Seq(Appenders)
      BY <1>1, RemoveAtFacts DEF TypeInv
    <3> QED
      BY <1>1, <2>3, <3>1 DEF DelAppender, Delete, MayChange, TypeInv, threadVars
  <2>4. CASE ClearAppender(t)
    <3>1. <<>> \in Seq(Appenders)
      BY EmptySeq
    <3> QED
      BY <1>1, <2>4, <3>1 DEF ClearAppender, Delete, MayChange, TypeInv, threadVars
  <2>5. ASSUME NEW a \in Appenders, NEW f \in Formatters, AppenderSetFormatter(t, a, f) PROVE TypeInv'
    BY <1>1, <2>5 DEF AppenderSetFormatter, MayChange, TypeInv, threadVars
  <2>6. ASSUME NEW l \in Appenders \cup {Root}, NEW v \in Levels, SetLevel(t, l, v) PROVE TypeInv'
    BY <1>1, <2>6 DEF SetLevel, MayChange, TypeInv, threadVars
  <2> QED
    BY <1>6, <2>1, <2>2, <2>3, <2>4, <2>5, <2>6 DEF ChangeBegins
<1>7. CASE Tick \/ UNCHANGED vars
  BY <1>1, <1>7 DEF Tick, vars, threadVars, listVars, TypeInv
<1> QED
  BY <1>3, <1>4, <1>5, <1>6, <1>7 DEF Next

\* A lock that is taken was free, and one that is given back was the thread's.
LEMMA LockStep == FInv /\ [Next]_vars => LockInv'
<1> SUFFICES ASSUME FInv, [Next]_vars PROVE LockInv'
  OBVIOUS
<1> USE NoneApart
<1>1. /\ TypeInv /\ LockInv
      /\ pc \in [Threads -> PCs] /\ rest \in [Threads -> Seq(Appenders)]
      /\ lock \in [Appenders \cup {Root} -> Threads \cup {None}]
  BY DEF FInv, TypeInv
<1>2. \A t \in Threads : rest[t] # <<>> => Head(rest[t]) \in Appenders
  BY <1>1, TailFacts
<1>3. ASSUME NEW t \in Threads, LogStep(t) PROVE LockInv'
  <2>1. CASE LogEnds(t) \/ Visit(t)
    BY <1>1, <2>1 DEF LogEnds, Visit, LockInv, At, Goto, Rest
  <2>2. CASE ReOpen(t) \/ Stamp(t)
    BY <1>1, <2>2 DEF ReOpen, Stamp, LockInv, At, Goto, Rest
  <2>3. CASE Format(t)
    BY <1>1, <1>2, <2>3 DEF Format, LockInv, At, Goto, Lock
  <2>4. CASE Item(t)
    BY <1>1, <2>4 DEF Item, LockInv, At
  <2>5. CASE Written(t)
    BY <1>1, <1>2, <2>5 DEF Written, LockInv, At, Goto, Rest, Unlock
  <2> QED
    BY <1>3, <2>1, <2>2, <2>3, <2>4, <2>5 DEF LogStep
<1>4. ASSUME NEW t \in Threads, NEW v \in Levels, Log(t, v) PROVE LockInv'
  BY <1>1, <1>4 DEF Log, LockInv, At, Goto, Rest
<1>5. ASSUME NEW t \in Threads, ChangeStep(t) PROVE LockInv'
  <2>1. CASE Update(t)
    BY <1>1, <2>1 DEF Update, LockInv, At, Rest
  <2>2. CASE Updated(t)
    BY <1>1, <2>2 DEF Updated, LockInv, At, Goto, Unlock
  <2>3. CASE Adopt(t)
    BY <1>1, <2>3 DEF Adopt, LockInv, At, Goto
  <2>4. CASE Push(t)
    BY <1>1, <2>4 DEF Push, LockInv, At, Goto, Rest, Unlock
  <2> QED
    BY <1>5, <2>1, <2>2, <2>3, <2>4 DEF ChangeStep
<1>6. ASSUME NEW t \in Threads, ChangeBegins(t) PROVE LockInv'
  <2>1. ASSUME NEW p \in {"update", "adopt", "push"}, NEW r,
               pc[t] = "idle", Goto(t, p), Rest(t, r), Lock(Root, t)
        PROVE  LockInv'
    BY <1>1, <2>1 DEF LockInv, Goto, Rest, Lock
  <2>3. ASSUME NEW f \in Formatters, SetFormatter(t, f) PROVE LockInv'
    BY <2>1, <2>3 DEF SetFormatter, MayChange, At
  <2>4. ASSUME NEW a \in Appenders, AddAppender(t, a) PROVE LockInv'
    BY <2>1, <2>4 DEF AddAppender, MayChange, At
  <2>2. CASE UNCHANGED threadVars
    BY <1>1, <2>2 DEF threadVars, LockInv
  <2> QED
    BY <1>6, <2>2, <2>3, <2>4 DEF ChangeBegins, DelAppender, ClearAppender, Delete, AppenderSetFormatter, SetLevel
<1>7. CASE Tick \/ UNCHANGED vars
  BY <1>1, <1>7 DEF Tick, vars, threadVars, LockInv
<1> QED
  BY <1>3, <1>4, <1>5, <1>6, <1>7 DEF Next

\* The steps that change no list, no formatter and none of what is done about
\* them.
LEMMA ListsUntouched ==
  ASSUME FInv, [Next]_vars
  PROVE  \/ UNCHANGED <<appenders, formatter, fmt, items, used>>
         \/ \E t \in Threads : \/ \E f \in Formatters : SetFormatter(t, f)
                               \/ \E a \in Appenders : AddAppender(t, a)
                               \/ \E a \in Appenders, f \in Formatters : AppenderSetFormatter(t, a, f)
                               \/ \E i \in DOMAIN appenders : DelAppender(t, i)
                               \/ ClearAppender(t)
                               \/ Update(t) \/ Adopt(t) \/ Push(t)
<1> DEFINE Same == UNCHANGED <<appenders, formatter, fmt, items, used>>
<1>1. ASSUME NEW t \in Threads, LogStep(t) PROVE Same
  BY <1>1 DEF LogStep, LogEnds, Visit, ReOpen, Stamp, Format, Item, Written, listVars
<1>2. ASSUME NEW t \in Threads, NEW v \in Levels, Log(t, v) PROVE Same
  BY <1>2 DEF Log, listVars
<1>3. ASSUME NEW t \in Threads, Updated(t) \/ (\E l \in Appenders \cup {Root}, v \in Levels : SetLevel(t, l, v))
      PROVE  Same
  BY <1>3 DEF Updated, SetLevel, listVars
<1>4. CASE Tick \/ UNCHANGED vars
  BY <1>4 DEF Tick, listVars, vars
<1> QED
  BY <1>1, <1>2, <1>3, <1>4 DEF Next, ChangeStep, ChangeBegins

\* An appender is added once. Those taken out leave the order of the others.
LEMMA ListStep == FInv /\ [Next]_vars => ListInv'
<1> SUFFICES ASSUME FInv, [Next]_vars PROVE ListInv'
  OBVIOUS
<1>1. TypeInv /\ ListInv /\ ChangeInv
  BY DEF FInv
<1>2. CASE UNCHANGED <<appenders, used>>
  BY <1>1, <1>2 DEF ListInv
<1>3. ASSUME NEW t \in Threads,
             \/ \E f \in Formatters : SetFormatter(t, f)
             \/ \E a \in Appenders : AddAppender(t, a)
             \/ \E a \in Appenders, f \in Formatters : AppenderSetFormatter(t, a, f)
             \/ Update(t) \/ Adopt(t)
      PROVE  ListInv'
  BY <1>1, <1>3 DEF SetFormatter, AddAppender, AppenderSetFormatter, Update, Adopt, ListInv
<1>4. ASSUME NEW t \in Threads, NEW i \in DOMAIN appenders, DelAppender(t, i) PROVE ListInv'
  <2>1. appenders' = RemoveAt(appenders, i) /\ used' = used /\ i \in Nat
    BY <1>1, <1>4 DEF DelAppender, Delete, TypeInv
  <2>2. \A k \in DOMAIN appenders' :
          /\ k \in Nat /\ k \in DOMAIN appenders /\ k + 1 \in DOMAIN appenders
          /\ appenders'[k] = IF k < i THEN appenders[k] ELSE appenders[k + 1]
    BY <1>1, <2>1, RemoveAtFacts DEF TypeInv
  <2>3. \A k \in DOMAIN appenders' : appenders'[k] \in used'
    BY <1>1, <2>1, <2>2 DEF ListInv
  <2>4. ASSUME NEW k \in DOMAIN appenders', NEW m \in DOMAIN appenders', appenders'[k] = appenders'[m]
        PROVE  k = m
    <3>1. (IF k < i THEN k ELSE k + 1) = (IF m < i THEN m ELSE m + 1)
      BY <1>1, <2>2, <2>4 DEF ListInv
    <3> QED
      BY <2>1, <2>2, <3>1
  <2> QED
    BY <2>3, <2>4 DEF ListInv
<1>5. ASSUME NEW t \in Threads, ClearAppender(t) PROVE ListInv'
  <2>1. DOMAIN appenders' = {}
    BY <1>5, EmptySeq DEF ClearAppender, Delete
  <2> QED
    BY <2>1 DEF ListInv
<1>6. ASSUME NEW t \in Threads, Push(t) PROVE ListInv'
  <2>1. /\ Len(rest[t]) = 1 /\ rest[t][1] \in used /\ rest[t] \in Seq(Appenders)
        /\ \A i \in DOMAIN appenders : appenders[i] # rest[t][1]
        /\ appenders \in Seq(Appenders)
    BY <1>1, <1>6 DEF ChangeInv, TypeInv, Push, At
  <2>2. appenders' = appenders \o rest[t] /\ used' = used
    BY <1>6 DEF Push
  <2>3. /\ DOMAIN appenders' = DOMAIN appenders \cup {Len(appenders) + 1}
        /\ \A i \in DOMAIN appenders : appenders'[i] = appenders[i]
        /\ appenders'[Len(appenders) + 1] = rest[t][1]
        /\ Len(appenders) + 1 \notin DOMAIN appenders
    BY <2>1, <2>2, PushFacts
  <2>4. \A k \in DOMAIN appenders' : appenders'[k] \in used'
    BY <1>1, <2>1, <2>2, <2>3 DEF ListInv
  <2>5. \A k, m \in DOMAIN appenders' : appenders'[k] = appenders'[m] => k = m
    BY <1>1, <2>1, <2>3 DEF ListInv
  <2> QED
    BY <2>4, <2>5 DEF ListInv
<1> QED
  BY <1>2, <1>3, <1>4, <1>5, <1>6, ListsUntouched

\* SetFormatter() deletes the logger's formatter alone; a formatter the user
\* gives to an appender is new.
LEMMA FormatterStep == FInv /\ [Next]_vars => FormatterInv'
<1> SUFFICES ASSUME FInv, [Next]_vars PROVE FormatterInv'
  OBVIOUS
<1> USE NoneApart
<1>1. TypeInv /\ LockInv /\ ListInv /\ FormatterInv /\ ChangeInv
  BY DEF FInv
<1>2. CASE UNCHANGED <<formatter, fmt, items, used>>
  BY <1>1, <1>2 DEF FormatterInv, HasFormatter
<1>3. ASSUME NEW t \in Threads, NEW f \in Formatters, SetFormatter(t, f) PROVE FormatterInv'
  BY <1>1, <1>3 DEF SetFormatter, FormatterInv, HasFormatter, TypeInv
<1>4. ASSUME NEW t \in Threads, NEW a \in Appenders, AddAppender(t, a) PROVE FormatterInv'
  BY <1>1, <1>4 DEF AddAppender, FormatterInv, HasFormatter, TypeInv
<1>5. ASSUME NEW t \in Threads, NEW a \in Appenders, NEW f \in Formatters, AppenderSetFormatter(t, a, f)
      PROVE  FormatterInv'
  BY <1>1, <1>5 DEF AppenderSetFormatter, FormatterInv, HasFormatter, TypeInv
<1>6. ASSUME NEW t \in Threads, Update(t) PROVE FormatterInv'
  <2>1. Head(rest[t]) \in Appenders /\ UNCHANGED <<formatter, items, used>>
        /\ fmt' = [fmt EXCEPT ![Head(rest[t])] = formatter]
    BY <1>1, <1>6, TailFacts DEF Update, TypeInv
  <2>2. Head(rest[t]) \in used
    BY <1>1, <1>6, TailFacts DEF Update, At, TypeInv, ChangeInv
  <2> QED
    BY <1>1, <2>1, <2>2 DEF FormatterInv, HasFormatter, TypeInv
<1>7. ASSUME NEW t \in Threads, Adopt(t) PROVE FormatterInv'
  BY <1>1, <1>7 DEF Adopt, At, FormatterInv, HasFormatter, TypeInv, ChangeInv
<1>8. ASSUME NEW t \in Threads,
             (\E i \in DOMAIN appenders : DelAppender(t, i)) \/ ClearAppender(t) \/ Push(t)
      PROVE  FormatterInv'
  BY <1>2, <1>8 DEF DelAppender, ClearAppender, Delete, Push
<1> QED
  BY <1>2, <1>3, <1>4, <1>5, <1>6, <1>7, <1>8, ListsUntouched

\* Steps of threads that change neither lists nor formatters, and of which those
\* in SetFormatter() or AddAppender() make no step.
LEMMA ChangeUntouched ==
  ASSUME ChangeInv, UNCHANGED <<appenders, fmt, items, used>>, lock'[Root] = lock[Root],
         \A u \in Threads : pc'[u] \in {"update", "adopt", "push"} => pc'[u] = pc[u] /\ rest'[u] = rest[u]
  PROVE  ChangeInv'
BY DEF ChangeInv, HasFormatter

\* Only the holder of the logger's lock is in SetFormatter() or AddAppender().
LEMMA OneChanger ==
  ASSUME LockInv, NEW t \in Threads, lock[Root] \in {t, None}, NEW u \in Threads, u # t
  PROVE  pc[u] \notin {"update", "adopt", "push"}
BY NoneApart DEF LockInv

LEMMA ChangeStepKeeps == FInv /\ [Next]_vars => ChangeInv'
<1> SUFFICES ASSUME FInv, [Next]_vars PROVE ChangeInv'
  OBVIOUS
<1> USE NoneApart
<1>1. TypeInv /\ LockInv /\ ListInv /\ FormatterInv /\ ChangeInv
  BY DEF FInv
<1>2. /\ pc \in [Threads -> PCs] /\ rest \in [Threads -> Seq(Appenders)]
      /\ lock \in [Appenders \cup {Root} -> Threads \cup {None}]
      /\ appenders \in Seq(Appenders) /\ formatter \in Formatters
      /\ fmt \in [Appenders -> Formatters \cup {None}] /\ DOMAIN items = Formatters
  BY <1>1 DEF TypeInv
<1>3. /\ \A t \in Threads : rest[t] # <<>> => Head(rest[t]) \in Appenders
      /\ \A i \in DOMAIN appenders : appenders[i] \in Appenders
  BY <1>2, TailFacts
<1>4. ASSUME NEW t \in Threads, LogStep(t) PROVE ChangeInv'
  <2>1. /\ UNCHANGED <<appenders, fmt, items, used>> /\ lock'[Root] = lock[Root]
        /\ pc'[t] \notin {"update", "adopt", "push"}
        /\ \A u \in Threads : u # t => pc'[u] = pc[u] /\ rest'[u] = rest[u]
    <3>1. CASE LogEnds(t) \/ Visit(t) \/ ReOpen(t) \/ Stamp(t)
      BY <1>2, <3>1 DEF LogEnds, Visit, ReOpen, Stamp, At, Goto, Rest, listVars
    <3>2. CASE Format(t)
      BY <1>1, <1>2, <1>3, <3>2 DEF Format, LockInv, At, Goto, Lock, listVars
    <3>3. CASE Item(t)
      BY <1>2, <3>3 DEF Item, At, listVars
    <3>4. CASE Written(t)
      BY <1>1, <1>2, <1>3, <3>4 DEF Written, LockInv, At, Goto, Rest, Unlock, listVars
    <3> QED
      BY <1>4, <3>1, <3>2, <3>3, <3>4 DEF LogStep
  <2> QED
    BY <1>1, <2>1, ChangeUntouched
<1>5. ASSUME NEW t \in Threads, NEW v \in Levels, Log(t, v) PROVE ChangeInv'
  BY <1>1, <1>2, <1>5, ChangeUntouched DEF Log, At, Goto, Rest, listVars
<1>6. ASSUME NEW t \in Threads, Update(t) PROVE ChangeInv'
  <2> DEFINE h == Head(rest[t])
  <2>1. /\ pc[t] = "update" /\ rest[t] # <<>> /\ h \in Appenders
        /\ fmt' = [fmt EXCEPT ![h] = formatter] /\ rest' = [rest EXCEPT ![t] = Tail(rest[t])]
        /\ UNCHANGED <<pc, lock, appenders, formatter, items, used>>
    BY <1>3, <1>6 DEF Update, At, Rest
  <2>2. lock[Root] = t /\ \A u \in Threads : u # t => pc[u] \notin {"update", "adopt", "push"}
    BY <1>1, <2>1, OneChanger DEF LockInv
  <2>3. h = rest[t][1]
    BY <1>2, <2>1, TailFacts
  <2> HIDE DEF h
  <2>4. \A i \in DOMAIN appenders : appenders[i] = h => HasFormatter(appenders[i])'
    BY <1>1, <1>2, <2>1 DEF HasFormatter, FormatterInv
  <2>5. \A i \in DOMAIN appenders : HasFormatter(appenders[i]) => HasFormatter(appenders[i])'
    BY <1>1, <1>2, <1>3, <2>1, <2>4 DEF HasFormatter, FormatterInv
  <2>6. ASSUME NEW i \in DOMAIN appenders, NEW j \in DOMAIN rest[t], rest[t][j] = appenders[i]
        PROVE  HasFormatter(appenders[i])' \/ \E k \in DOMAIN rest'[t] : rest'[t][k] = appenders[i]
    <3>1. CASE j = 1
      BY <2>3, <2>4, <2>6, <3>1
    <3>2. CASE j # 1
      <4>1. j - 1 \in DOMAIN Tail(rest[t]) /\ j \in Nat
        BY <1>2, <2>1, <3>2, TailFacts
      <4>2. Tail(rest[t])[j - 1] = rest[t][(j - 1) + 1]
        BY <1>2, <2>1, <4>1, TailFacts
      <4>3. Tail(rest[t])[j - 1] = appenders[i]
        BY <2>6, <4>1, <4>2
      <4> QED
        BY <1>2, <2>1, <4>1, <4>3
    <3> QED
      BY <3>1, <3>2
  <2>7. \A k \in DOMAIN rest'[t] : rest'[t][k] \in used'
    <3>1. \A k \in DOMAIN Tail(rest[t]) : k + 1 \in DOMAIN rest[t] /\ Tail(rest[t])[k] = rest[t][k + 1]
      BY <1>2, <2>1, TailFacts
    <3> QED
      BY <1>1, <1>2, <2>1, <3>1 DEF ChangeInv
  <2>8. \A i \in DOMAIN appenders' :
          HasFormatter(appenders[i])' \/ \E k \in DOMAIN rest'[t] : rest'[t][k] = appenders'[i]
    BY <1>1, <2>1, <2>5, <2>6 DEF ChangeInv
  <2> QED
    BY <2>1, <2>2, <2>7, <2>8 DEF ChangeInv
<1>7. ASSUME NEW t \in Threads, Updated(t) PROVE ChangeInv'
  <2>1. /\ pc[t] = "update" /\ rest[t] = <<>> /\ pc' = [pc EXCEPT ![t] = "idle"] /\ UNCHANGED rest
        /\ UNCHANGED <<appenders, fmt, items, used>>
    BY <1>7 DEF Updated, At, Goto, listVars
  <2>2. \A u \in Threads : u # t => pc[u] \notin {"update", "adopt", "push"}
    BY <1>1, <2>1, OneChanger DEF LockInv
  <2>3. \A i \in DOMAIN appenders : HasFormatter(appenders[i])
    BY <1>1, <2>1 DEF ChangeInv
  <2> QED
    BY <1>2, <2>1, <2>2, <2>3 DEF ChangeInv, HasFormatter
<1>8. ASSUME NEW t \in Threads, Adopt(t) PROVE ChangeInv'
  <2> DEFINE a == rest[t][1]
  <2>1. /\ pc[t] = "adopt" /\ pc' = [pc EXCEPT ![t] = "push"] /\ fmt' = [fmt EXCEPT ![a] = formatter]
        /\ UNCHANGED <<rest, lock, appenders, items, used>>
    BY <1>8 DEF Adopt, At, Goto
  <2>2. lock[Root] = t /\ \A u \in Threads : u # t => pc[u] \notin {"update", "adopt", "push"}
    BY <1>1, <2>1, OneChanger DEF LockInv
  <2>3. /\ Len(rest[t]) = 1 /\ a \in used /\ a \in Appenders
        /\ \A i \in DOMAIN appenders : HasFormatter(appenders[i]) /\ appenders[i] # a
    BY <1>1, <1>2, <2>1 DEF ChangeInv
  <2>4. HasFormatter(a)' /\ \A i \in DOMAIN appenders : HasFormatter(appenders[i])'
    BY <1>1, <1>2, <1>3, <2>1, <2>3 DEF HasFormatter, FormatterInv
  <2> QED
    BY <1>2, <2>1, <2>2, <2>3, <2>4 DEF ChangeInv
<1>9. ASSUME NEW t \in Threads, Push(t) PROVE ChangeInv'
  <2>1. /\ pc[t] = "push" /\ pc' = [pc EXCEPT ![t] = "idle"] /\ appenders' = appenders \o rest[t]
        /\ rest' = [rest EXCEPT ![t] = <<>>] /\ UNCHANGED <<fmt, items, used>>
    BY <1>9 DEF Push, At, Goto, Rest
  <2>2. \A u \in Threads : u # t => pc[u] \notin {"update", "adopt", "push"}
    BY <1>1, <2>1, OneChanger DEF LockInv
  <2>3. /\ Len(rest[t]) = 1 /\ HasFormatter(rest[t][1])
        /\ \A i \in DOMAIN appenders : HasFormatter(appenders[i])
    BY <1>1, <2>1 DEF ChangeInv
  <2>4. \A i \in DOMAIN appenders' : \/ i \in DOMAIN appenders /\ appenders'[i] = appenders[i]
                                     \/ appenders'[i] = rest[t][1]
    <3>1. rest[t] \in Seq(Appenders) /\ Len(rest[t]) = 1
      BY <1>2, <2>3
    <3> QED
      BY <1>2, <2>1, <3>1, PushFacts
  <2>5. \A i \in DOMAIN appenders' : HasFormatter(appenders[i])'
    BY <2>1, <2>3, <2>4 DEF HasFormatter
  <2> QED
    BY <1>2, <2>1, <2>2, <2>5 DEF ChangeInv
<1>10. ASSUME NEW t \in Threads, NEW f \in Formatters, SetFormatter(t, f) PROVE ChangeInv'
  <2>1. /\ pc' = [pc EXCEPT ![t] = "update"] /\ rest' = [rest EXCEPT ![t] = appenders]
        /\ lock[Root] = None /\ lock' = [lock EXCEPT ![Root] = t]
        /\ UNCHANGED appenders /\ used \subseteq used'
    BY <1>10 DEF SetFormatter, Goto, Rest, Lock
  <2>2. \A u \in Threads : u # t => pc[u] \notin {"update", "adopt", "push"}
    BY <1>1, <2>1, OneChanger
  <2> QED
    BY <1>1, <1>2, <2>1, <2>2 DEF ChangeInv, ListInv
<1>11. ASSUME NEW t \in Threads, NEW a \in Appenders, AddAppender(t, a) PROVE ChangeInv'
  <2>1. /\ rest' = [rest EXCEPT ![t] = <<a>>] /\ a \notin used /\ used' = used \cup {a}
        /\ pc' = [pc EXCEPT ![t] = IF fmt[a] = None THEN "adopt" ELSE "push"]
        /\ lock[Root] = None /\ lock' = [lock EXCEPT ![Root] = t]
        /\ UNCHANGED <<appenders, fmt, items>>
    BY <1>11 DEF AddAppender, Goto, Rest, Lock
  <2>2. \A u \in Threads : u # t => pc[u] \notin {"update", "adopt", "push"}
    BY <1>1, <2>1, OneChanger
  <2>3. \A i \in DOMAIN appenders : HasFormatter(appenders[i]) /\ appenders[i] # a
    BY <1>1, <2>1 DEF ChangeInv, ListInv
  <2>4. fmt[a] # None => HasFormatter(a)
    BY <1>1, <2>1 DEF FormatterInv
  <2>5. Len(<<a>>) = 1 /\ <<a>>[1] = a
    OBVIOUS
  <2> QED
    BY <1>2, <2>1, <2>2, <2>3, <2>4, <2>5 DEF ChangeInv, HasFormatter
<1>12. ASSUME NEW t \in Threads, (\E i \in DOMAIN appenders : DelAppender(t, i)) \/ ClearAppender(t)
       PROVE  ChangeInv'
  <2>1. lock[Root] = None /\ UNCHANGED <<pc, rest, lock, fmt, items, used>>
    BY <1>12 DEF DelAppender, ClearAppender, Delete, threadVars
  <2>2. \A u \in Threads : pc[u] \notin {"update", "adopt", "push"}
    BY <1>1, <2>1 DEF LockInv
  <2>3. \A k \in DOMAIN appenders' : \E i \in DOMAIN appenders : appenders'[k] = appenders[i]
    <3>1. ASSUME NEW i \in DOMAIN appenders, DelAppender(t, i) 
          PROVE  \A k \in DOMAIN appenders' : \E m \in DOMAIN appenders : appenders'[k] = appenders[m]
      BY <1>2, <3>1, RemoveAtFacts DEF DelAppender, Delete
    <3>2. CASE ClearAppender(t)
      BY <3>2, EmptySeq DEF ClearAppender, Delete
    <3> QED
      BY <1>12, <3>1, <3>2
  <2>4. \A i \in DOMAIN appenders : HasFormatter(appenders[i])
    BY <1>1, <2>1 DEF ChangeInv
  <2> QED
    BY <2>1, <2>2, <2>3, <2>4 DEF ChangeInv, HasFormatter
<1>13. ASSUME NEW t \in Threads, NEW a \in Appenders, NEW f \in Formatters, AppenderSetFormatter(t, a, f)
       PROVE  ChangeInv'
  <2>1. /\ UNCHANGED <<pc, rest, lock, appenders>> /\ fmt' = [fmt EXCEPT ![a] = f]
        /\ items' = [items EXCEPT ![f] = Items(Pattern[f])] /\ used \subseteq used'
    BY <1>13 DEF AppenderSetFormatter, threadVars
  <2>2. \A b \in Appenders : HasFormatter(b) => HasFormatter(b)'
    BY <1>2, <2>1 DEF HasFormatter
  <2>3. \A u \in Threads : pc[u] \in {"adopt", "push"} => rest[u][1] \in Appenders
    BY <1>1, <1>2 DEF ChangeInv
  <2> QED
    BY <1>1, <1>3, <2>1, <2>2, <2>3 DEF ChangeInv
<1>14. ASSUME NEW t \in Threads, NEW l \in Appenders \cup {Root}, NEW v \in Levels, SetLevel(t, l, v)
       PROVE  ChangeInv'
  BY <1>1, <1>14, ChangeUntouched DEF SetLevel, threadVars
<1>15. CASE Tick \/ UNCHANGED vars
  BY <1>1, <1>15, ChangeUntouched DEF Tick, vars, threadVars, listVars
<1> QED
  BY <1>4, <1>5, <1>6, <1>7, <1>8, <1>9, <1>10, <1>11, <1>12, <1>13, <1>14, <1>15
  DEF Next, ChangeStep, ChangeBegins

LEMMA FInit == Init => FInv
<1> SUFFICES ASSUME Init PROVE FInv
  OBVIOUS
<1> USE NoneApart
<1>1. Style \in Formatters
  BY LoggerAssumption DEF Style
<1>2. /\ appenders \in Seq(Appenders)
      /\ \A i, j \in DOMAIN appenders : appenders[i] = appenders[j] => i = j
      /\ \A i \in DOMAIN appenders : appenders[i] \in Appenders /\ appenders[i] \in Range(appenders)
      /\ Range(appenders) \subseteq Appenders
  BY LoggerAssumption DEF Init, Range
<1>3. <<>> \in Seq(Appenders)
  BY EmptySeq
<1>4. TypeInv
  BY <1>1, <1>2, <1>3 DEF Init, TypeInv, PCs
<1>5. LockInv
  BY <1>4 DEF Init, LockInv
<1>6. ListInv
  BY <1>2 DEF Init, ListInv
<1>7. \A a \in Appenders : fmt[a] # None => a \in used /\ fmt[a] = Style /\ items[Style] # None
  BY <1>1, <1>2 DEF Init
<1>8. \A i \in DOMAIN appenders : HasFormatter(appenders[i])
  BY <1>1, <1>2 DEF Init, HasFormatter
<1>9. FormatterInv
  BY <1>1, <1>7 DEF Init, FormatterInv
<1>10. ChangeInv
  BY <1>8 DEF Init, ChangeInv
<1> QED
  BY <1>4, <1>5, <1>6, <1>9, <1>10 DEF FInv

LEMMA FNext == FInv /\ [Next]_vars => FInv'
BY TypeStep, LockStep, ListStep, FormatterStep, ChangeStepKeeps DEF FInv

\* Only in SetFormatter() and AddAppender() may an appender of the logger have
\* no formatter or a deleted one, for any threads that log and change the
\* logger, any appenders and any formatters: Log() never formats with a null
\* pointer but in that window (log.cpp 230-244).
THEOREM FormattersExist == Spec => []FormatterCurrent
<1>1. FInv => FormatterCurrent
  <2> SUFFICES ASSUME FInv PROVE FormatterCurrent
    OBVIOUS
  <2>1. items[formatter] # None
    BY DEF FInv, FormatterInv
  <2>2. lock[Root] = None => \A i \in DOMAIN appenders : HasFormatter(appenders[i])
    BY DEF FInv, ChangeInv
  <2> QED
    BY <2>1, <2>2 DEF FormatterCurrent, HasFormatter, Range
<1> QED
  BY <1>1, FInit, FNext, PTL DEF Spec
----------------------------------------------------------------------------
\* Lines

\* The lines are told apart by their numbers.
IdInv ==
  /\ lines \in Nat
  /\ \A t \in Threads : Walking(t) => event[t].id \in 1 .. lines
  /\ \A t, u \in Threads : Walking(t) /\ Walking(u) /\ event[t].id = event[u].id => t = u
  /\ \A a \in Appenders : \A i \in DOMAIN sink[a] : sink[a][i].id \in 1 .. lines

SinkInv ==
  /\ DOMAIN sink = Appenders
  /\ \A a \in Appenders : sink[a] \in Seq(Range(sink[a]))

\* A thread has written nothing yet to the appenders before it, each of which is
\* there once, but to the one it writes to; what it wrote there comes last.
WalkInv ==
  \A t \in Threads : Walking(t) =>
    /\ \A i, j \in DOMAIN rest[t] : rest[t][i] = rest[t][j] => i = j
    /\ \A i \in DOMAIN rest[t] :
         \/ pc[t] = "write" /\ i = 1
         \/ (\A k \in DOMAIN sink[rest[t][i]] : sink[rest[t][i]][k].id # event[t].id)
    /\ pc[t] = "write" =>
         \A k, m \in DOMAIN sink[rest[t][1]] :
           k <= m /\ sink[rest[t][1]][k].id = event[t].id => sink[rest[t][1]][m].id = event[t].id

\* No line in an appender is interrupted by another.
LinesApart == \A a \in Appenders : Apart(sink[a])

LInv == FInv /\ IdInv /\ SinkInv /\ WalkInv /\ LinesApart

LEMMA AppendFacts ==
  ASSUME NEW s, s \in Seq(Range(s)), NEW e
  PROVE  /\ Append(s, e) \in Seq(Range(Append(s, e)))
         /\ Len(s) \in Nat /\ Len(Append(s, e)) = Len(s) + 1 /\ DOMAIN s = 1 .. Len(s)
         /\ DOMAIN Append(s, e) = 1 .. Len(s) + 1
         /\ \A i \in 1 .. Len(s) : Append(s, e)[i] = s[i]
         /\ Append(s, e)[Len(s) + 1] = e
<1> DEFINE S == Range(s) \cup {e}
           c == Append(s, e)
<1>1. s \in Seq(S) /\ e \in S
  <2>1. Range(s) \subseteq S
    OBVIOUS
  <2> HIDE DEF S
  <2>2. \A i \in 1 .. Len(s) : s[i] \in S
    BY <2>1, LenProperties
  <2>3. s \in [1 .. Len(s) -> S] /\ Len(s) \in Nat
    BY <2>2, LenProperties
  <2>4. s \in Seq(S)
    BY <2>3
  <2> QED
    BY <2>4 DEF S
<1> HIDE DEF S
<1>2. /\ c \in Seq(S) /\ Len(c) = Len(s) + 1 /\ Len(s) \in Nat /\ DOMAIN s = 1 .. Len(s)
      /\ \A i \in 1 .. Len(s) : c[i] = s[i]
      /\ c[Len(s) + 1] = e
  BY <1>1, AppendProperties, LenProperties
<1> HIDE DEF c
<1>3. Len(c) \in Nat /\ DOMAIN c = 1 .. Len(c) /\ c \in [1 .. Len(c) -> S]
  BY <1>2, LenProperties
<1>4. c \in [1 .. Len(c) -> Range(c)]
  BY <1>3 DEF Range
<1>5. c \in Seq(Range(c))
  BY <1>3, <1>4
<1> QED
  BY <1>2, <1>3, <1>5 DEF c

\* The next item of the line of t.
Entry(t) == [id |-> event[t].id, item |-> Head(todo[t])]

\* Item() writes the item, finds out that the file has an error, or that nothing
\* can be written to it.
LEMMA ItemFacts ==
  ASSUME FInv, SinkInv, NEW t \in Threads, Item(t)
  PROVE  /\ UNCHANGED <<pc, rest, event, lock, lines, errors>>
         /\ pc[t] = "write" /\ rest[t] # <<>> /\ rest[t][1] \in Appenders /\ lock[rest[t][1]] = t
         /\ todo[t] # <<>> /\ todo' = [todo EXCEPT ![t] = Tail(todo[t])]
         /\ LET a == rest[t][1] IN
            \/ /\ sink' = [sink EXCEPT ![a] = Append(sink[a], Entry(t))]
               /\ stream[a] = "good" /\ stream' = stream
            \/ sink' = sink /\ stream' = [stream EXCEPT ![a] = "bad"]
            \/ sink' = sink /\ stream' = stream /\ stream[a] # "good"
<1> DEFINE a == Head(rest[t])
<1>1. /\ UNCHANGED <<pc, rest, event, lock, lines, errors>> /\ pc[t] = "write"
      /\ todo[t] # <<>> /\ todo' = [todo EXCEPT ![t] = Tail(todo[t])]
      /\ \/ sink' = [sink EXCEPT ![a] = Append(sink[a], Entry(t))] /\ stream[a] = "good" /\ stream' = stream
         \/ sink' = sink /\ stream' = [stream EXCEPT ![a] = "bad"]
         \/ sink' = sink /\ stream' = stream /\ stream[a] # "good"
  BY DEF Item, At, SinkInv, FInv, TypeInv, Entry, fileVars
<1>2. rest[t] # <<>> /\ lock[a] = t /\ rest[t] \in Seq(Appenders)
  BY <1>1 DEF FInv, LockInv, TypeInv
<1>3. a = rest[t][1] /\ a \in Appenders
  BY <1>2, TailFacts
<1> HIDE DEF a
<1> QED
  BY <1>1, <1>2, <1>3

\* The steps that write nothing begin no line, end one, or go on with it.
LEMMA NothingWritten ==
  ASSUME [Next]_vars
  PROVE  \/ \E t \in Threads : Item(t)
         \/ \E t \in Threads, v \in Levels : Log(t, v)
         \/ /\ UNCHANGED <<sink, event, lines>>
            /\ \/ \E t \in Threads : \/ LogEnds(t) \/ Visit(t) \/ ReOpen(t) \/ Stamp(t)
                                     \/ Format(t) \/ Written(t)
               \/ \E t \in Threads : ChangeStep(t) \/ ChangeBegins(t)
               \/ UNCHANGED <<pc, rest>>
<1> DEFINE Same == UNCHANGED <<sink, event, lines>>
<1>1. ASSUME NEW t \in Threads, LogStep(t) PROVE Item(t) \/ Same
  BY <1>1 DEF LogStep, LogEnds, Visit, ReOpen, Stamp, Format, Written
<1>2. ASSUME NEW t \in Threads, ChangeStep(t) PROVE Same
  BY <1>2 DEF ChangeStep, Update, Updated, Adopt, Push
<1>3. ASSUME NEW t \in Threads, ChangeBegins(t) PROVE Same
  BY <1>3 DEF ChangeBegins, SetFormatter, AddAppender, DelAppender, ClearAppender, Delete,
       AppenderSetFormatter, SetLevel, threadVars
<1>4. CASE Tick \/ UNCHANGED vars
  BY <1>4 DEF Tick, vars, threadVars
<1> QED
  BY <1>1, <1>2, <1>3, <1>4 DEF Next, LogStep

\* Who changes the logger is not in Log().
LEMMA ChangerIdle ==
  ASSUME FInv, NEW t \in Threads, ChangeStep(t) \/ ChangeBegins(t)
  PROVE  /\ ~ Walking(t) /\ ~ Walking(t)'
         /\ \A u \in Threads : u # t => pc'[u] = pc[u] /\ rest'[u] = rest[u]
<1>1. pc \in [Threads -> PCs] /\ rest \in [Threads -> Seq(Appenders)]
  BY DEF FInv, TypeInv
<1>2. CASE ChangeStep(t)
  BY <1>1, <1>2 DEF ChangeStep, Update, Updated, Adopt, Push, At, Goto, Rest, Walking
<1>3. CASE ChangeBegins(t)
  BY <1>1, <1>3 DEF ChangeBegins, SetFormatter, AddAppender, DelAppender, ClearAppender, Delete,
       AppenderSetFormatter, SetLevel, MayChange, At, Goto, Rest, Walking, threadVars
<1> QED
  BY <1>2, <1>3

\* r is s with the item e at its end.
Wrote(s, r, e) ==
  /\ Len(s) \in Nat /\ DOMAIN s = 1 .. Len(s)
  /\ r \in Seq(Range(r)) /\ Len(r) = Len(s) + 1 /\ DOMAIN r = 1 .. Len(s) + 1
  /\ \A i \in 1 .. Len(s) : r[i] = s[i]
  /\ r[Len(s) + 1] = e

LEMMA SinksAfterItem ==
  ASSUME FInv, SinkInv, NEW t \in Threads, Item(t)
  PROVE  /\ DOMAIN sink' = Appenders /\ Entry(t).id = event[t].id
         /\ \A a \in Appenders : \/ sink'[a] = sink[a]
                                 \/ a = rest[t][1] /\ Wrote(sink[a], sink'[a], Entry(t))
<1>1. Entry(t).id = event[t].id
  BY DEF Entry
<1>2. CASE sink' = sink
  BY <1>1, <1>2 DEF SinkInv
<1>3. CASE sink' = [sink EXCEPT ![rest[t][1]] = Append(sink[rest[t][1]], Entry(t))]
  <2>1. DOMAIN sink = Appenders /\ rest[t][1] \in Appenders
        /\ sink[rest[t][1]] \in Seq(Range(sink[rest[t][1]]))
    BY ItemFacts DEF SinkInv
  <2> DEFINE s == sink[rest[t][1]]
             r == Append(s, Entry(t))
  <2>2. Wrote(s, r, Entry(t))
    BY <2>1, AppendFacts DEF Wrote
  <2>3. DOMAIN sink' = Appenders /\ \A a \in Appenders : sink'[a] = IF a = rest[t][1] THEN r ELSE sink[a]
    BY <1>3, <2>1
  <2> QED
    BY <1>1, <2>2, <2>3
<1> QED
  BY <1>2, <1>3, ItemFacts

LEMMA IdStep == LInv /\ [Next]_vars => IdInv'
<1> SUFFICES ASSUME LInv, [Next]_vars PROVE IdInv'
  OBVIOUS
<1>1. /\ FInv /\ IdInv /\ SinkInv /\ lines \in Nat /\ DOMAIN event = Threads
      /\ pc \in [Threads -> PCs] /\ rest \in [Threads -> Seq(Appenders)]
  BY DEF LInv, FInv, TypeInv, IdInv
<1>2. ASSUME NEW t \in Threads, Item(t) PROVE IdInv'
  <2>1. UNCHANGED <<pc, event, lines>> /\ pc[t] = "write"
    BY <1>1, <1>2, ItemFacts
  <2>2. event[t].id \in 1 .. lines
    BY <1>1, <2>1 DEF IdInv, Walking
  <2>3. \A a \in Appenders : \A i \in DOMAIN sink'[a] : sink'[a][i].id \in 1 .. lines'
    <3> SUFFICES ASSUME NEW a \in Appenders PROVE \A i \in DOMAIN sink'[a] : sink'[a][i].id \in 1 .. lines
      BY <2>1
    <3>1. \A i \in DOMAIN sink[a] : sink[a][i].id \in 1 .. lines
      BY <1>1 DEF IdInv
    <3>2. CASE sink'[a] = sink[a]
      BY <3>1, <3>2
    <3>3. CASE Wrote(sink[a], sink'[a], Entry(t))
      BY <2>2, <3>1, <3>3 DEF Wrote, Entry
    <3> QED
      BY <1>1, <1>2, <3>2, <3>3, SinksAfterItem
  <2> QED
    BY <1>1, <2>1, <2>3 DEF IdInv, Walking
<1>3. ASSUME NEW t \in Threads, NEW v \in Levels, Log(t, v) PROVE IdInv'
  BY <1>1, <1>3 DEF Log, IdInv, Walking, At, Goto
<1>4. ASSUME NEW t \in Threads, UNCHANGED <<sink, event, lines>>,
             LogEnds(t) \/ Visit(t) \/ ReOpen(t) \/ Stamp(t) \/ Format(t) \/ Written(t)
      PROVE  IdInv'
  <2>1. \A u \in Threads : Walking(u)' => Walking(u)
    BY <1>1, <1>4 DEF LogEnds, Visit, ReOpen, Stamp, Format, Written, At, Goto, Walking
  <2> QED
    BY <1>1, <1>4, <2>1 DEF IdInv
<1>5. ASSUME NEW t \in Threads, UNCHANGED <<sink, event, lines>>, ChangeStep(t) \/ ChangeBegins(t)
      PROVE  IdInv'
  BY <1>1, <1>5, ChangerIdle DEF IdInv, Walking
<1>6. CASE UNCHANGED <<sink, event, lines, pc, rest>>
  BY <1>1, <1>6 DEF IdInv, Walking
<1> QED
  BY <1>2, <1>3, <1>4, <1>5, <1>6, NothingWritten

LEMMA SinkStep == LInv /\ [Next]_vars => SinkInv'
<1> SUFFICES ASSUME LInv, [Next]_vars PROVE SinkInv'
  OBVIOUS
<1>1. FInv /\ SinkInv
  BY DEF LInv
<1>2. ASSUME NEW t \in Threads, Item(t) PROVE SinkInv'
  BY <1>1, <1>2, SinksAfterItem DEF SinkInv, Wrote
<1>3. CASE sink' = sink
  BY <1>1, <1>3 DEF SinkInv
<1> QED
  BY <1>2, <1>3, NothingWritten DEF Log

\* What the thread wrote to its appender comes last: its next item does not
\* follow another line's.
LEMMA ApartStep == LInv /\ [Next]_vars => LinesApart'
<1> SUFFICES ASSUME LInv, [Next]_vars PROVE LinesApart'
  OBVIOUS
<1>1. FInv /\ SinkInv /\ WalkInv /\ LinesApart
  BY DEF LInv
<1>2. ASSUME NEW t \in Threads, Item(t), NEW a \in Appenders PROVE Apart(sink'[a])
  <2> DEFINE s == sink[a]
             r == sink'[a]
  <2>1. CASE r = s
    BY <1>1, <2>1 DEF LinesApart
  <2>2. CASE a = rest[t][1] /\ Wrote(s, r, Entry(t))
    <3>1. \A k, m \in DOMAIN s : k <= m /\ s[k].id = event[t].id => s[m].id = event[t].id
      BY <1>1, <1>2, <2>2, ItemFacts DEF WalkInv, Walking
    <3>2. Apart(s)
      BY <1>1 DEF LinesApart
    <3> HIDE DEF s, r
    <3>3. /\ Len(s) \in Nat /\ DOMAIN s = 1 .. Len(s) /\ Len(r) = Len(s) + 1
          /\ \A k \in 1 .. Len(s) : r[k] = s[k]
          /\ r[Len(s) + 1].id = event[t].id
      BY <2>2 DEF Wrote, Entry
    <3>4. ASSUME NEW i \in 1 .. Len(s), r[i + 1].id # r[i].id, NEW j \in 1 .. i
          PROVE  r[j].id # r[i + 1].id
      <4>1. CASE i = Len(s)
        BY <3>1, <3>3, <3>4, <4>1
      <4>2. CASE i # Len(s)
        <5> DEFINE n == Len(s)
        <5>1. n \in Nat /\ i \in 1 .. n /\ i # n
          BY <3>3, <4>2
        <5> HIDE DEF n
        <5>2. i \in 1 .. n - 1 /\ i + 1 \in 1 .. n /\ j \in 1 .. n
          BY <5>1
        <5>3. r[i] = s[i] /\ r[i + 1] = s[i + 1] /\ r[j] = s[j]
          BY <3>3, <5>1, <5>2 DEF n
        <5> QED
          BY <3>2, <3>4, <5>2, <5>3 DEF Apart, n
      <4> QED
        BY <4>1, <4>2
    <3>5. Apart(r)
      BY <3>3, <3>4 DEF Apart
    <3> QED
      BY <3>5 DEF r
  <2> QED
    BY <1>1, <1>2, <2>1, <2>2, SinksAfterItem
<1>3. CASE sink' = sink
  BY <1>1, <1>3 DEF LinesApart
<1> QED
  BY <1>2, <1>3, NothingWritten DEF Log, LinesApart

\* The holder of the appender's lock alone writes to it, and the line is new to
\* the appenders that follow: none is in the list twice.
LEMMA WalkStep == LInv /\ [Next]_vars => WalkInv'
<1> SUFFICES ASSUME LInv, [Next]_vars PROVE WalkInv'
  OBVIOUS
<1>1. /\ FInv /\ IdInv /\ SinkInv /\ WalkInv /\ ListInv /\ LockInv
      /\ pc \in [Threads -> PCs] /\ rest \in [Threads -> Seq(Appenders)]
      /\ appenders \in Seq(Appenders) /\ DOMAIN event = Threads
  BY DEF LInv, FInv, TypeInv
<1>2. \A t \in Threads : \A i \in DOMAIN rest[t] : rest[t][i] \in Appenders
  BY <1>1
<1>3. ASSUME NEW t \in Threads, Item(t) PROVE WalkInv'
  <2>1. /\ UNCHANGED <<pc, rest, event>> /\ pc[t] = "write" /\ lock[rest[t][1]] = t
        /\ rest[t][1] \in Appenders
    BY <1>1, <1>3, ItemFacts
  <2>2. \A a \in Appenders : \/ sink'[a] = sink[a]
                             \/ a = rest[t][1] /\ Wrote(sink[a], sink'[a], Entry(t))
    BY <1>1, <1>3, SinksAfterItem
  <2> SUFFICES ASSUME NEW u \in Threads, Walking(u)
               PROVE  /\ \A i, j \in DOMAIN rest[u] : rest[u][i] = rest[u][j] => i = j
                      /\ \A i \in DOMAIN rest[u] :
                           \/ pc[u] = "write" /\ i = 1
                           \/ \A k \in DOMAIN sink'[rest[u][i]] : sink'[rest[u][i]][k].id # event[u].id
                      /\ pc[u] = "write" =>
                           \A k, m \in DOMAIN sink'[rest[u][1]] :
                             k <= m /\ sink'[rest[u][1]][k].id = event[u].id
                               => sink'[rest[u][1]][m].id = event[u].id
    BY <2>1 DEF WalkInv, Walking
  <2>3. \A i, j \in DOMAIN rest[u] : rest[u][i] = rest[u][j] => i = j
    BY <1>1 DEF WalkInv
  <2>4. ASSUME NEW i \in DOMAIN rest[u], ~ (pc[u] = "write" /\ i = 1), NEW k \in DOMAIN sink'[rest[u][i]]
        PROVE  sink'[rest[u][i]][k].id # event[u].id
    <3> DEFINE s == sink[rest[u][i]]
               r == sink'[rest[u][i]]
    <3>1. \A m \in DOMAIN s : s[m].id # event[u].id
      BY <1>1, <2>4 DEF WalkInv
    <3>2. CASE r = s
      BY <3>1, <3>2
    <3>3. CASE rest[u][i] = rest[t][1] /\ Wrote(s, r, Entry(t))
      <4>1. u # t
        <5>1. SUFFICES ASSUME u = t PROVE FALSE
          OBVIOUS
        <5>2. 1 \in DOMAIN rest[t]
          BY <1>1, <1>3, ItemFacts, TailFacts
        <5> QED
          BY <2>1, <2>3, <2>4, <3>3, <5>1, <5>2
      <4>2. event[t].id # event[u].id
        BY <1>1, <2>1, <4>1 DEF IdInv, Walking
      <4> HIDE DEF s
      <4>3. \A m \in DOMAIN r : r[m].id # event[u].id
        BY <3>1, <3>3, <4>2 DEF Wrote, Entry
      <4> QED
        BY <2>4, <4>3
    <3> QED
      BY <1>2, <2>2, <3>2, <3>3
  <2>5. ASSUME pc[u] = "write" 
        PROVE  \A k, m \in DOMAIN sink'[rest[u][1]] :
                 k <= m /\ sink'[rest[u][1]][k].id = event[u].id => sink'[rest[u][1]][m].id = event[u].id
    <3> DEFINE s == sink[rest[u][1]]
               r == sink'[rest[u][1]]
    <3>1. \A k, m \in DOMAIN s : k <= m /\ s[k].id = event[u].id => s[m].id = event[u].id
      BY <1>1, <2>5 DEF WalkInv
    <3>2. CASE r = s
      BY <3>1, <3>2
    <3>3. CASE rest[u][1] = rest[t][1] /\ Wrote(s, r, Entry(t))
      <4>1. lock[rest[u][1]] = u
        BY <1>1, <2>5, TailFacts DEF LockInv
      <4>2. u = t
        BY <2>1, <3>3, <4>1
      <4> HIDE DEF s, r
      <4>3. \A k, m \in DOMAIN r : k <= m /\ r[k].id = event[u].id => r[m].id = event[u].id
        BY <3>1, <3>3, <4>2 DEF Wrote, Entry
      <4> QED
        BY <4>3 DEF r
    <3>4. rest[u][1] \in Appenders
      BY <1>1, <2>5, TailFacts DEF LockInv
    <3> QED
      BY <2>2, <3>2, <3>3, <3>4
  <2> QED
    BY <2>3, <2>4, <2>5
<1> DEFINE Walks == {"walk", "reopen", "stamp", "format", "write"}
           W(p, r, id) ==
             /\ \A i, j \in DOMAIN r : r[i] = r[j] => i = j
             /\ \A i \in DOMAIN r :
                  (p = "write" /\ i = 1) \/ (\A k \in DOMAIN sink[r[i]] : sink[r[i]][k].id # id)
             /\ p = "write" => \A k, m \in DOMAIN sink[r[1]] :
                                 k <= m /\ sink[r[1]][k].id = id => sink[r[1]][m].id = id
<1>8. \A u \in Threads : pc[u] \in Walks => W(pc[u], rest[u], event[u].id)
  BY <1>1 DEF WalkInv, Walking
<1>9. ASSUME sink' = sink, \A u \in Threads : pc'[u] \in Walks => W(pc'[u], rest'[u], event'[u].id)
      PROVE  WalkInv'
  BY <1>9 DEF WalkInv, Walking
<1>10. ASSUME NEW p \in {"walk", "reopen", "stamp", "format"}, NEW r, NEW id,
              \A i, j \in DOMAIN r : r[i] = r[j] => i = j,
              \A i \in DOMAIN r : \A k \in DOMAIN sink[r[i]] : sink[r[i]][k].id # id
       PROVE  W(p, r, id)
  BY <1>10
<1>11. ASSUME NEW p \in {"walk", "reopen", "stamp", "format"}, NEW r, NEW id, W(p, r, id)
       PROVE  /\ \A i, j \in DOMAIN r : r[i] = r[j] => i = j
              /\ \A i \in DOMAIN r : \A k \in DOMAIN sink[r[i]] : sink[r[i]][k].id # id
              /\ \A q \in Walks : (1 \in DOMAIN r \/ q # "write") => W(q, r, id)
  BY <1>11
<1> HIDE DEF W
<1>4. ASSUME NEW t \in Threads, NEW v \in Levels, Log(t, v) PROVE WalkInv'
  <2>1. /\ sink' = sink /\ pc[t] = "idle" /\ DOMAIN pc' = Threads /\ lines' = lines + 1
        /\ event' = [event EXCEPT ![t] = [id |-> lines + 1, level |-> v, time |-> clock]]
        /\ pc'[t] \in {"idle", "walk"} /\ (pc'[t] = "walk" => rest'[t] = appenders)
        /\ \A u \in Threads : u # t => pc'[u] = pc[u] /\ rest'[u] = rest[u]
    BY <1>1, <1>4 DEF Log, At, Goto, Rest
  <2>2. event'[t].id = lines + 1 /\ \A u \in Threads : u # t => event'[u] = event[u]
    BY <1>1, <2>1
  <2>3. \A a \in Appenders : \A k \in DOMAIN sink[a] : sink[a][k].id # lines + 1
    BY <1>1 DEF IdInv
  <2>4. /\ \A i, j \in DOMAIN appenders : appenders[i] = appenders[j] => i = j
        /\ \A i \in DOMAIN appenders : appenders[i] \in Appenders
    BY <1>1 DEF ListInv
  <2>5. W("walk", appenders, lines + 1)
    BY <1>10, <2>3, <2>4
  <2> QED
    BY <1>8, <1>9, <2>1, <2>2, <2>5
<1>5. ASSUME NEW t \in Threads, UNCHANGED <<sink, event>>,
             LogEnds(t) \/ Visit(t) \/ ReOpen(t) \/ Stamp(t) \/ Format(t) \/ Written(t)
      PROVE  WalkInv'
  <2>1. \A u \in Threads : u # t => pc'[u] = pc[u] /\ rest'[u] = rest[u]
    BY <1>1, <1>5 DEF LogEnds, Visit, ReOpen, Stamp, Format, Written, At, Goto, Rest
  <2>2. CASE LogEnds(t) \/ ReOpen(t) \/ Stamp(t) \/ Format(t) \/ (Visit(t) /\ UNCHANGED rest)
    <3>1. /\ rest' = rest /\ pc[t] \in {"walk", "reopen", "stamp", "format"}
          /\ pc'[t] \in Walks \cup {"idle"}
      BY <1>1, <2>2 DEF LogEnds, Visit, ReOpen, Stamp, Format, At, Goto
    <3>2. 1 \in DOMAIN rest[t] \/ pc'[t] # "write"
      BY <1>1, <2>2, TailFacts DEF LogEnds, Visit, ReOpen, Stamp, Format, At, Goto, LockInv
    <3>3. pc'[t] \in Walks => W(pc'[t], rest[t], event[t].id)
      BY <1>8, <1>11, <3>1, <3>2
    <3> QED
      BY <1>5, <1>8, <1>9, <2>1, <3>1, <3>3
  <2>3. CASE (Visit(t) /\ rest' # rest) \/ Written(t)
    <3>1. /\ pc[t] \in {"walk", "write"} /\ pc'[t] = "walk" /\ rest[t] # <<>> /\ rest'[t] = Tail(rest[t])
      BY <1>1, <2>3 DEF Visit, Written, At, Goto, Rest, LockInv
    <3> DEFINE q == Tail(rest[t])
    <3>2. \A i \in DOMAIN q : i \in Nat /\ i # 0 /\ i + 1 \in DOMAIN rest[t] /\ q[i] = rest[t][i + 1]
      BY <1>1, <3>1, TailFacts
    <3>3. \A i, j \in DOMAIN q : q[i] = q[j] => i = j
      <4>1. \A i, j \in DOMAIN rest[t] : rest[t][i] = rest[t][j] => i = j
        BY <1>1, <3>1 DEF WalkInv, Walking
      <4> QED
        BY <3>2, <4>1
    <3>4. \A i \in DOMAIN q : \A k \in DOMAIN sink[q[i]] : sink[q[i]][k].id # event[t].id
      <4>1. \A i \in DOMAIN rest[t] : \/ i = 1
                                      \/ \A k \in DOMAIN sink[rest[t][i]] : sink[rest[t][i]][k].id # event[t].id
        BY <1>1, <3>1 DEF WalkInv, Walking
      <4> SUFFICES ASSUME NEW i \in DOMAIN q
                   PROVE  \A k \in DOMAIN sink[q[i]] : sink[q[i]][k].id # event[t].id
        OBVIOUS
      <4>2. i + 1 \in DOMAIN rest[t] /\ q[i] = rest[t][i + 1] /\ i + 1 # 1
        BY <3>2
      <4> QED
        BY <4>1, <4>2
    <3>5. W("walk", q, event[t].id)
      BY <1>10, <3>3, <3>4
    <3> QED
      BY <1>5, <1>8, <1>9, <2>1, <3>1, <3>5
  <2> QED
    BY <1>5, <2>2, <2>3
<1>6. ASSUME NEW t \in Threads, UNCHANGED <<sink, event>>, ChangeStep(t) \/ ChangeBegins(t)
      PROVE  WalkInv'
  <2>1. pc'[t] \notin Walks /\ \A u \in Threads : u # t => pc'[u] = pc[u] /\ rest'[u] = rest[u]
    BY <1>1, <1>6, ChangerIdle DEF Walking
  <2> QED
    BY <1>6, <1>8, <1>9, <2>1
<1>7. CASE UNCHANGED <<sink, event, pc, rest>>
  BY <1>1, <1>7 DEF WalkInv, Walking
<1> QED
  BY <1>3, <1>4, <1>5, <1>6, <1>7, NothingWritten

LEMMA LInit == Init => LInv
<1> SUFFICES ASSUME Init PROVE LInv
  OBVIOUS
<1>1. FInv
  BY FInit
<1>2. \A a \in Appenders : sink[a] = <<>> /\ DOMAIN sink[a] = {} /\ Len(sink[a]) = 0
  BY EmptySeq DEF Init
<1>3. SinkInv
  BY <1>2, EmptySeq DEF Init, SinkInv
<1>4. IdInv
  BY <1>2 DEF Init, IdInv, Walking
<1>5. WalkInv
  BY DEF Init, WalkInv, Walking
<1>6. LinesApart
  BY <1>2 DEF LinesApart, Apart
<1> QED
  BY <1>1, <1>3, <1>4, <1>5, <1>6 DEF LInv

LEMMA LNext == LInv /\ [Next]_vars => LInv'
BY FNext, IdStep, SinkStep, WalkStep, ApartStep DEF LInv

\* Among the items one appender writes no line is interrupted by another, however
\* many threads log and whatever they do to the logger meanwhile: Log() holds the
\* appender's lock from the first item of a line to the last (log.cpp 582-589,
\* 608-621), and the vector it walks without a lock has each appender once.
THEOREM LinesNeverMix == Spec => []LinesApart
<1>1. LInv => LinesApart
  BY DEF LInv
<1> QED
  BY <1>1, LInit, LNext, PTL DEF Spec

----------------------------------------------------------------------------
\* Whole lines

\* The formatters that exist have the items of their pattern, and the appenders
\* Log() comes to have been given one.
FormatsInv ==
  /\ \A f \in Formatters : items[f] \in {None, Items(Pattern[f])}
  /\ \A i \in DOMAIN appenders : fmt[appenders[i]] # None
  /\ \A t \in Threads : Walking(t) => \A i \in DOMAIN rest[t] : fmt[rest[t][i]] # None
  /\ stream \in [Appenders -> {"good", "failed", "bad"}]

\* From i to j, s has the items of f from the first on.
Follows(s, i, j, f) ==
  \A k \in i .. j : /\ k + 1 - i \in DOMAIN Items(Pattern[f])
                    /\ s[k].item = Items(Pattern[f])[k + 1 - i]

Full(s, i, j, f) == Follows(s, i, j, f) /\ j + 1 - i = Len(Items(Pattern[f]))

\* The lines in s are full, but the last may be cut if it is one of ids.
Cut(s, ids) ==
  \A i, j \in DOMAIN s : IsLine(s, i, j) =>
    \E f \in Formatters :
      \/ Full(s, i, j, f)
      \/ Follows(s, i, j, f) /\ j = Len(s) /\ s[j].id \in ids

\* The lines the appender a is given now, and those after which it reported that
\* its file had an error.
Open(a) ==
  {id \in 1 .. lines :
     \/ stream[a] = "bad" /\ Reported(a, id)
     \/ \E t \in Threads : pc[t] = "write" /\ rest[t][1] = a /\ event[t].id = id}

CutInv == \A a \in Appenders : Cut(sink[a], Open(a))

\* q is what is left of the items I after n of them.
Left(q, I, n) ==
  /\ q \in Seq(Range(I)) /\ Len(q) + n = Len(I)
  /\ \A k \in DOMAIN q : q[k] = I[n + k]

\* What s has of the line id, which it has from i on, and what is left of it are
\* the items of f.
Halfway(s, q, id, f, i) ==
  /\ i \in 1 .. Len(s) + 1
  /\ \A k \in i .. Len(s) : s[k].id = id
  /\ i = 1 \/ s[i - 1].id # id
  /\ Follows(s, i, Len(s), f)
  /\ Left(q, Items(Pattern[f]), Len(s) + 1 - i)

\* A line is in a good stream with what is left of it, and not in one that
\* could not be opened.
Writing(s, st, q, id) ==
  /\ st = "failed" => \A k \in DOMAIN s : s[k].id # id
  /\ st = "good" => \E f \in Formatters, i \in 1 .. Len(s) + 1 : Halfway(s, q, id, f, i)

WriteInv ==
  ~ crashed => \A t \in Threads : pc[t] = "write" =>
    Writing(sink[rest[t][1]], stream[rest[t][1]], todo[t], event[t].id)

WInv == LInv /\ FormatsInv /\ CutInv /\ WriteInv

LEMMA ItemsFacts ==
  ASSUME NEW f \in Formatters
  PROVE  LET I == Items(Pattern[f]) IN
           I \in Seq(Range(I)) /\ Len(I) \in Nat /\ DOMAIN I = 1 .. Len(I)
<1> DEFINE I == Items(Pattern[f])
<1>1. I \in Seq(Range(I))
  BY LoggerAssumption
<1> HIDE DEF I
<1>2. Len(I) \in Nat /\ DOMAIN I = 1 .. Len(I)
  BY <1>1, LenProperties
<1> QED
  BY <1>1, <1>2 DEF I

LEMMA CutGrows ==
  ASSUME NEW s, NEW P, NEW Q, P \subseteq Q, Cut(s, P)
  PROVE  Cut(s, Q)
BY DEF Cut

\* The formatter begins a line.
LEMMA LineBegins ==
  ASSUME NEW s, Len(s) \in Nat, DOMAIN s = 1 .. Len(s), NEW st, NEW id, NEW f \in Formatters,
         \A k \in DOMAIN s : s[k].id # id
  PROVE  Writing(s, st, Items(Pattern[f]), id)
<1> DEFINE I == Items(Pattern[f])
           i == Len(s) + 1
<1>1. I \in Seq(Range(I)) /\ Len(I) \in Nat /\ DOMAIN I = 1 .. Len(I)
  BY ItemsFacts
<1> HIDE DEF I
<1>2. Left(I, I, 0)
  BY <1>1 DEF Left
<1>3. i \in 1 .. Len(s) + 1 /\ i .. Len(s) = {} /\ Len(s) + 1 - i = 0 /\ (i = 1 \/ i - 1 \in DOMAIN s)
  OBVIOUS
<1> HIDE DEF i
<1>4. Halfway(s, I, id, f, i)
  BY <1>2, <1>3 DEF Halfway, Follows, I
<1> QED
  BY <1>3, <1>4 DEF Writing, I

\* An item is written to the line.
LEMMA LineGoesOn ==
  ASSUME NEW s, NEW r, NEW e, NEW q, NEW id, NEW f \in Formatters, NEW i \in 1 .. Len(s) + 1,
         Wrote(s, r, e), Halfway(s, q, id, f, i), q # <<>>, e.id = id, e.item = Head(q)
  PROVE  Halfway(r, Tail(q), id, f, i)
<1> DEFINE I == Items(Pattern[f])
           n == Len(s)
<1>1. Len(I) \in Nat /\ DOMAIN I = 1 .. Len(I)
  BY ItemsFacts
<1>2. q \in Seq(Range(I)) /\ Len(q) + (n + 1 - i) = Len(I) /\ \A k \in DOMAIN q : q[k] = I[n + 1 - i + k]
  BY DEF Halfway, Left
<1>3. /\ n \in Nat /\ Len(r) = n + 1 /\ r[n + 1] = e /\ \A k \in 1 .. n : r[k] = s[k]
  BY DEF Wrote
<1> HIDE DEF I
<1>4. /\ Len(q) \in Nat /\ Len(q) >= 1 /\ DOMAIN q = 1 .. Len(q) /\ Head(q) = q[1]
      /\ Tail(q) \in Seq(Range(I)) /\ Len(Tail(q)) = Len(q) - 1
      /\ DOMAIN Tail(q) = 1 .. Len(q) - 1
      /\ \A k \in 1 .. Len(q) - 1 : Tail(q)[k] = q[k + 1]
  <2> DEFINE S == Range(I)
             p == Tail(q)
  <2>1. q \in Seq(S)
    BY <1>2
  <2> HIDE DEF S
  <2>2. /\ Len(q) \in Nat /\ Len(q) >= 1 /\ DOMAIN q = 1 .. Len(q) /\ Head(q) = q[1]
        /\ p \in Seq(S) /\ Len(p) = Len(q) - 1 /\ DOMAIN p = 1 .. Len(p)
        /\ \A k \in 1 .. Len(q) - 1 : p[k] = q[k + 1]
    BY <2>1
  <2> QED
    BY <2>2 DEF S
<1> HIDE DEF n
<1>5. Left(Tail(q), I, Len(r) + 1 - i)
  <2>1. Len(Tail(q)) + (Len(r) + 1 - i) = Len(I)
    <3> DEFINE u == Len(q)
               v == Len(Tail(q))
               w == Len(I)
               x == Len(r)
    <3>1. u \in Nat /\ v = u - 1 /\ u + (n + 1 - i) = w /\ x = n + 1 /\ n \in Nat /\ i \in Nat
      BY <1>2, <1>3, <1>4 DEF n
    <3> HIDE DEF u, v, w, x
    <3>2. v + (x + 1 - i) = w
      BY <3>1
    <3> QED
      BY <3>2 DEF v, w, x
  <2>2. \A k \in DOMAIN Tail(q) : Tail(q)[k] = I[(Len(r) + 1 - i) + k]
    <3> SUFFICES ASSUME NEW k \in 1 .. Len(q) - 1 PROVE Tail(q)[k] = I[(Len(r) + 1 - i) + k]
      BY <1>4
    <3>1. Tail(q)[k] = I[(n + 1 - i) + (k + 1)]
      BY <1>2, <1>4
    <3>2. (n + 1 - i) + (k + 1) = (Len(r) + 1 - i) + k
      BY <1>3, <1>4 DEF n
    <3> QED
      BY <3>1, <3>2
  <2> QED
    BY <1>4, <2>1, <2>2 DEF Left
<1>6. Follows(r, i, Len(r), f)
  <2>1. \A k \in i .. n : k + 1 - i \in DOMAIN I /\ r[k].item = I[k + 1 - i]
    BY <1>3 DEF Halfway, Follows, I, n
  <2>2. n + 2 - i \in DOMAIN I /\ r[n + 1].item = I[n + 2 - i]
    <3>1. n + 2 - i \in DOMAIN I
      BY <1>1, <1>2, <1>3, <1>4 DEF n
    <3>2. r[n + 1].item = I[(n + 1 - i) + 1]
      BY <1>2, <1>3, <1>4
    <3>3. (n + 1 - i) + 1 = n + 2 - i
      BY <1>3 DEF n
    <3> QED
      BY <3>1, <3>2, <3>3
  <2>3. \A k \in i .. Len(r) : k \in i .. n \/ (k = n + 1 /\ k + 1 - i = n + 2 - i)
    BY <1>3 DEF n
  <2> QED
    BY <2>1, <2>2, <2>3 DEF Follows, I
<1>7. /\ i \in 1 .. Len(r) + 1 /\ (i = 1 \/ r[i - 1].id # id)
      /\ \A k \in i .. Len(r) : r[k].id = id
  <2>1. \A k \in i .. n : s[k].id = id
    BY DEF Halfway, n
  <2>2. i = 1 \/ s[i - 1].id # id
    BY DEF Halfway
  <2>3. i \in 1 .. n + 1
    BY DEF n
  <2> QED
    BY <1>3, <2>1, <2>2, <2>3
<1> QED
  BY <1>5, <1>6, <1>7 DEF Halfway, I

\* A line in s that is not the last is full, and stays so.
LEMMA LinesStay ==
  ASSUME NEW s, NEW r, NEW e, NEW q, NEW id, NEW f \in Formatters, NEW i \in 1 .. Len(s) + 1,
         Wrote(s, r, e), Halfway(s, q, id, f, i), q # <<>>, e.id = id, e.item = Head(q),
         NEW ids, id \in ids, ids \subseteq {id}, Cut(s, ids)
  PROVE  Cut(r, ids)
<1>0. \A c, d \in DOMAIN s : IsLine(s, c, d) =>
        \E g \in Formatters : Full(s, c, d, g) \/ (Follows(s, c, d, g) /\ d = Len(s) /\ s[d].id \in ids)
  BY DEF Cut
<1> DEFINE n == Len(s)
<1>1. /\ n \in Nat /\ DOMAIN s = 1 .. n /\ Len(r) = n + 1 /\ DOMAIN r = 1 .. n + 1 /\ r[n + 1] = e
      /\ \A k \in 1 .. n : r[k] = s[k]
  BY DEF Wrote
<1>2. /\ i \in 1 .. n + 1 /\ (i = 1 \/ s[i - 1].id # id) /\ \A k \in i .. n : s[k].id = id
  BY DEF Halfway
<1>3. Halfway(r, Tail(q), id, f, i)
  BY LineGoesOn
<1> HIDE DEF n
<1> SUFFICES ASSUME NEW a \in 1 .. n + 1, NEW b \in 1 .. n + 1, IsLine(r, a, b)
             PROVE  \E g \in Formatters :
                      \/ Full(r, a, b, g)
                      \/ Follows(r, a, b, g) /\ b = Len(r) /\ r[b].id \in ids
  BY <1>1 DEF Cut
<1>4. /\ a <= b /\ \A k \in a .. b : r[k].id = r[a].id
      /\ a = 1 \/ r[a - 1].id # r[a].id
      /\ b = n + 1 \/ r[b + 1].id # r[b].id
  BY <1>1 DEF IsLine
<1>5. CASE b = n + 1
  <2>1. r[b].id = id /\ r[a].id = id
    BY <1>1, <1>4, <1>5
  <2>2. a = i
    <3>1. ~ a < i
      <4>1. SUFFICES ASSUME a < i PROVE FALSE
        OBVIOUS
      <4>2. i - 1 \in a .. b /\ i - 1 \in 1 .. n /\ i # 1
        BY <1>1, <1>2, <1>5, <4>1
      <4> QED
        BY <1>1, <1>2, <1>4, <2>1, <4>2
    <3>2. ~ i < a
      <4>1. SUFFICES ASSUME i < a PROVE FALSE
        OBVIOUS
      <4>2. a - 1 \in i .. n /\ a - 1 \in 1 .. n /\ a # 1
        BY <1>1, <1>2, <1>5, <4>1
      <4> QED
        BY <1>1, <1>2, <1>4, <2>1, <4>2
    <3> QED
      BY <1>2, <3>1, <3>2
  <2>3. Follows(r, a, b, f)
    BY <1>1, <1>3, <1>5, <2>2 DEF Halfway
  <2> QED
    BY <1>1, <1>5, <2>1, <2>3
<1>6. CASE b < n + 1
  <2>1. /\ a \in 1 .. n /\ b \in 1 .. n
        /\ \A k \in a .. b : k \in 1 .. n
    BY <1>1, <1>4, <1>6
  <2>2. IsLine(s, a, b)
    <3>1. a <= b /\ \A k \in a .. b : s[k].id = s[a].id
      BY <1>1, <1>4, <2>1
    <3>2. a = 1 \/ s[a - 1].id # s[a].id
      <4>1. a = 1 \/ a - 1 \in 1 .. n
        BY <1>1, <2>1
      <4> QED
        BY <1>1, <1>4, <2>1, <4>1
    <3>3. b = n \/ s[b + 1].id # s[b].id
      <4>1. b = n \/ b + 1 \in 1 .. n
        BY <1>1, <2>1
      <4> QED
        BY <1>1, <1>4, <1>6, <2>1, <4>1
    <3> QED
      BY <3>1, <3>2, <3>3 DEF IsLine, n
  <2>3. ~ (b = n /\ s[b].id \in ids)
    BY <1>1, <1>4, <1>6, <2>1
  <2>4. PICK g \in Formatters : Full(s, a, b, g)
    <3>1. a \in DOMAIN s /\ b \in DOMAIN s
      BY <1>1, <2>1
    <3>2. \E g \in Formatters :
            Full(s, a, b, g) \/ (Follows(s, a, b, g) /\ b = Len(s) /\ s[b].id \in ids)
      BY <1>0, <2>2, <3>1
    <3> QED
      BY <2>3, <3>2 DEF n
  <2>5. Full(r, a, b, g)
    BY <1>1, <2>1, <2>4 DEF Full, Follows
  <2> QED
    BY <2>5
<1> QED
  BY <1>1, <1>5, <1>6

\* The line of which nothing is left is full.
LEMMA LineEnds ==
  ASSUME NEW s, Len(s) \in Nat, DOMAIN s = 1 .. Len(s), NEW st \in {"good", "failed"}, NEW id,
         Writing(s, st, <<>>, id), NEW ids, ids \subseteq {id}, Cut(s, ids)
  PROVE  Cut(s, {})
<1> SUFFICES ASSUME NEW a \in DOMAIN s, IsLine(s, a, Len(s)), Len(s) \in DOMAIN s, s[Len(s)].id = id
             PROVE  \E g \in Formatters : Full(s, a, Len(s), g)
  BY DEF Cut
<1> DEFINE n == Len(s)
<1>1. st = "good"
  BY DEF Writing
<1>2. PICK f \in Formatters, i \in 1 .. n + 1 : Halfway(s, <<>>, id, f, i)
  BY <1>1 DEF Writing
<1>3. /\ i \in 1 .. n + 1 /\ (i = 1 \/ s[i - 1].id # id) /\ \A k \in i .. n : s[k].id = id
      /\ Follows(s, i, n, f) /\ Len(<<>>) + (n + 1 - i) = Len(Items(Pattern[f]))
  BY <1>2 DEF Halfway, Left
<1>4. /\ a <= n /\ \A k \in a .. n : s[k].id = s[a].id
      /\ a = 1 \/ s[a - 1].id # s[a].id
  BY DEF IsLine
<1> HIDE DEF n
<1>5. n \in Nat /\ DOMAIN s = 1 .. n /\ s[n].id = id /\ a \in 1 .. n /\ s[a].id = id
  BY <1>4 DEF n
<1>6. ~ a < i
  <2>1. SUFFICES ASSUME a < i PROVE FALSE
    OBVIOUS
  <2>2. i - 1 \in a .. n /\ i # 1
    BY <1>3, <1>5, <2>1
  <2> QED
    BY <1>3, <1>4, <1>5, <2>2
<1>7. ~ i < a
  <2>1. SUFFICES ASSUME i < a PROVE FALSE
    OBVIOUS
  <2>2. a - 1 \in i .. n /\ a # 1
    BY <1>3, <1>5, <2>1
  <2> QED
    BY <1>3, <1>4, <1>5, <2>2
<1>8. a = i
  BY <1>3, <1>5, <1>6, <1>7
<1>9. Len(<<>>) = 0
  BY EmptySeq
<1>10. Full(s, a, n, f)
  <2>1. n + 1 - a = Len(Items(Pattern[f]))
    <3> DEFINE m == Len(Items(Pattern[f]))
    <3>1. 0 + (n + 1 - i) = m
      BY <1>3, <1>9
    <3> HIDE DEF m
    <3>2. n + 1 - a = m
      BY <1>3, <1>5, <1>8, <3>1
    <3> QED
      BY <3>2 DEF m
  <2> QED
    BY <1>3, <1>8, <2>1 DEF Full
<1> QED
  BY <1>10 DEF n

----------------------------------------------------------------------------

\* Log() goes through the appenders it began with, in their order.
LEMMA RestAfter ==
  ASSUME FInv, SinkInv, [Next]_vars, NEW t \in Threads, Walking(t)'
  PROVE  \/ rest'[t] = appenders
         \/ Walking(t) /\ rest'[t] = rest[t]
         \/ Walking(t) /\ rest[t] # <<>> /\ rest'[t] = Tail(rest[t])
<1>1. LockInv /\ pc \in [Threads -> PCs] /\ rest \in [Threads -> Seq(Appenders)]
  BY DEF FInv, TypeInv
<1>2. ASSUME NEW u \in Threads, Item(u) PROVE Walking(t) /\ rest'[t] = rest[t]
  BY <1>2, ItemFacts DEF Walking
<1>3. ASSUME NEW u \in Threads, NEW v \in Levels, Log(u, v)
      PROVE  rest'[t] = appenders \/ (Walking(t) /\ rest'[t] = rest[t])
  BY <1>1, <1>3 DEF Log, At, Goto, Rest, Walking
<1>4. ASSUME NEW u \in Threads,
             LogEnds(u) \/ Visit(u) \/ ReOpen(u) \/ Stamp(u) \/ Format(u) \/ Written(u)
      PROVE  /\ Walking(t)
             /\ rest'[t] = rest[t] \/ (rest[t] # <<>> /\ rest'[t] = Tail(rest[t]))
  BY <1>1, <1>4 DEF LogEnds, Visit, ReOpen, Stamp, Format, Written, At, Goto, Rest, Walking, LockInv
<1>5. ASSUME NEW u \in Threads, ChangeStep(u) \/ ChangeBegins(u) PROVE Walking(t) /\ rest'[t] = rest[t]
  BY <1>5, ChangerIdle DEF Walking
<1>6. CASE UNCHANGED <<pc, rest>>
  BY <1>6 DEF Walking
<1> QED
  BY <1>2, <1>3, <1>4, <1>5, <1>6, NothingWritten

LEMMA StreamsUntouched ==
  ASSUME [Next]_vars
  PROVE  stream' = stream \/ (\E t \in Threads : ReOpen(t) \/ Item(t))
<1> DEFINE Same == stream' = stream
<1>1. ASSUME NEW t \in Threads, LogStep(t) PROVE Same \/ ReOpen(t) \/ Item(t)
  BY <1>1 DEF LogStep, LogEnds, Visit, Stamp, Format, Written, fileVars
<1>2. ASSUME NEW t \in Threads, NEW v \in Levels, Log(t, v) PROVE Same
  BY <1>2 DEF Log, fileVars
<1>3. ASSUME NEW t \in Threads, ChangeStep(t) PROVE Same
  BY <1>3 DEF ChangeStep, Update, Updated, Adopt, Push, fileVars
<1>4. ASSUME NEW t \in Threads, ChangeBegins(t) PROVE Same
  BY <1>4 DEF ChangeBegins, SetFormatter, AddAppender, DelAppender, ClearAppender, Delete,
       AppenderSetFormatter, SetLevel, fileVars
<1>5. CASE Tick \/ UNCHANGED vars
  BY <1>5 DEF Tick, fileVars, vars
<1> QED
  BY <1>1, <1>2, <1>3, <1>4, <1>5 DEF Next

\* A formatter is never taken from an appender, and has its pattern's items as
\* long as it exists.
LEMMA FormatsStep == WInv /\ [Next]_vars => FormatsInv'
<1> SUFFICES ASSUME WInv, [Next]_vars PROVE FormatsInv'
  OBVIOUS
<1> USE NoneApart
<1>1. /\ FInv /\ SinkInv /\ FormatsInv /\ ChangeInv /\ ListInv /\ FormatterInv
      /\ pc \in [Threads -> PCs] /\ rest \in [Threads -> Seq(Appenders)]
      /\ appenders \in Seq(Appenders) /\ formatter \in Formatters
      /\ fmt \in [Appenders -> Formatters \cup {None}] /\ DOMAIN items = Formatters
  BY DEF WInv, LInv, FInv, TypeInv
<1>2. /\ \A t \in Threads : \A i \in DOMAIN rest[t] : rest[t][i] \in Appenders
      /\ \A i \in DOMAIN appenders : appenders[i] \in Appenders
  BY <1>1
<1>3. \A f \in Formatters : items'[f] \in {None, Items(Pattern[f])}
  <2>1. ASSUME NEW t \in Threads, NEW f \in Formatters, SetFormatter(t, f) \/ (\E a \in Appenders : AppenderSetFormatter(t, a, f))
        PROVE  \A g \in Formatters : items'[g] \in {None, Items(Pattern[g])}
    BY <1>1, <2>1 DEF SetFormatter, AppenderSetFormatter, FormatsInv
  <2>2. ASSUME NEW t \in Threads,
               \/ \E a \in Appenders : AddAppender(t, a)
               \/ \E i \in DOMAIN appenders : DelAppender(t, i)
               \/ ClearAppender(t) \/ Update(t) \/ Adopt(t) \/ Push(t)
        PROVE  items' = items
    BY <2>2 DEF AddAppender, DelAppender, ClearAppender, Delete, Update, Adopt, Push
  <2> QED
    BY <1>1, <2>1, <2>2, ListsUntouched DEF FormatsInv
<1>4. \A a \in Appenders : fmt[a] # None => fmt'[a] # None
  <2>1. ASSUME NEW t \in Threads, Update(t) PROVE \A a \in Appenders : fmt[a] # None => fmt'[a] # None
    BY <1>1, <2>1 DEF Update
  <2>2. ASSUME NEW t \in Threads, Adopt(t) PROVE \A a \in Appenders : fmt[a] # None => fmt'[a] # None
    BY <1>1, <2>2 DEF Adopt
  <2>3. ASSUME NEW t \in Threads, NEW b \in Appenders, NEW f \in Formatters, AppenderSetFormatter(t, b, f)
        PROVE  \A a \in Appenders : fmt[a] # None => fmt'[a] # None
    BY <1>1, <2>3 DEF AppenderSetFormatter
  <2>4. ASSUME NEW t \in Threads,
               \/ \E f \in Formatters : SetFormatter(t, f)
               \/ \E a \in Appenders : AddAppender(t, a)
               \/ \E i \in DOMAIN appenders : DelAppender(t, i)
               \/ ClearAppender(t) \/ Push(t)
        PROVE  fmt' = fmt
    BY <2>4 DEF SetFormatter, AddAppender, DelAppender, ClearAppender, Delete, Push
  <2> QED
    BY <1>1, <2>1, <2>2, <2>3, <2>4, ListsUntouched
<1>5. \A i \in DOMAIN appenders' : appenders'[i] \in Appenders /\ fmt[appenders'[i]] # None
  <2>1. CASE appenders' = appenders
    BY <1>1, <1>2, <2>1 DEF FormatsInv
  <2>2. ASSUME NEW t \in Threads, NEW i \in DOMAIN appenders, DelAppender(t, i)
        PROVE  \A k \in DOMAIN appenders' : appenders'[k] \in Appenders /\ fmt[appenders'[k]] # None
    <3>1. \A k \in DOMAIN appenders' : \E m \in DOMAIN appenders : appenders'[k] = appenders[m]
      BY <1>1, <2>2, RemoveAtFacts DEF DelAppender, Delete
    <3> QED
      BY <1>1, <1>2, <3>1 DEF FormatsInv
  <2>3. ASSUME NEW t \in Threads, ClearAppender(t) PROVE DOMAIN appenders' = {}
    BY <2>3, EmptySeq DEF ClearAppender, Delete
  <2>4. ASSUME NEW t \in Threads, Push(t)
        PROVE  \A k \in DOMAIN appenders' : appenders'[k] \in Appenders /\ fmt[appenders'[k]] # None
    <3>1. /\ pc[t] = "push" /\ appenders' = appenders \o rest[t] /\ Len(rest[t]) = 1
          /\ HasFormatter(rest[t][1]) /\ rest[t] \in Seq(Appenders) /\ rest[t][1] \in Appenders
      BY <1>1, <2>4 DEF Push, At, ChangeInv
    <3>2. \A k \in DOMAIN appenders' : \/ k \in DOMAIN appenders /\ appenders'[k] = appenders[k]
                                       \/ appenders'[k] = rest[t][1]
      BY <1>1, <3>1, PushFacts
    <3> QED
      BY <1>1, <1>2, <3>1, <3>2 DEF FormatsInv, HasFormatter
  <2>5. ASSUME NEW t \in Threads,
               \/ \E f \in Formatters : SetFormatter(t, f)
               \/ \E a \in Appenders : AddAppender(t, a)
               \/ \E a \in Appenders, f \in Formatters : AppenderSetFormatter(t, a, f)
               \/ Update(t) \/ Adopt(t)
        PROVE  appenders' = appenders
    BY <2>5 DEF SetFormatter, AddAppender, AppenderSetFormatter, Update, Adopt
  <2> QED
    BY <1>1, <2>1, <2>2, <2>3, <2>4, <2>5, ListsUntouched
<1>6. ASSUME NEW t \in Threads, Walking(t)' PROVE \A i \in DOMAIN rest'[t] : fmt'[rest'[t][i]] # None
  <2>1. CASE rest'[t] = appenders
    BY <1>1, <1>2, <1>4, <2>1 DEF FormatsInv
  <2>2. CASE Walking(t) /\ rest'[t] = rest[t]
    BY <1>1, <1>2, <1>4, <2>2 DEF FormatsInv
  <2>3. CASE Walking(t) /\ rest[t] # <<>> /\ rest'[t] = Tail(rest[t])
    <3>1. \A i \in DOMAIN Tail(rest[t]) : i + 1 \in DOMAIN rest[t] /\ Tail(rest[t])[i] = rest[t][i + 1]
      BY <1>1, <2>3, TailFacts
    <3>2. \A i \in DOMAIN rest[t] : fmt'[rest[t][i]] # None
      BY <1>1, <1>2, <1>4, <2>3 DEF FormatsInv
    <3> QED
      BY <2>3, <3>1, <3>2
  <2> QED
    BY <1>1, <1>6, <2>1, <2>2, <2>3, RestAfter
<1>7. stream' \in [Appenders -> {"good", "failed", "bad"}]
  <2>1. stream \in [Appenders -> {"good", "failed", "bad"}]
    BY <1>1 DEF FormatsInv
  <2>2. ASSUME NEW t \in Threads, ReOpen(t) PROVE stream' \in [Appenders -> {"good", "failed", "bad"}]
    BY <2>1, <2>2 DEF ReOpen, Opened
  <2>3. ASSUME NEW t \in Threads, Item(t) PROVE stream' \in [Appenders -> {"good", "failed", "bad"}]
    BY <2>1, <2>3 DEF Item, fileVars
  <2> QED
    BY <2>1, <2>2, <2>3, StreamsUntouched
<1> QED
  BY <1>3, <1>4, <1>5, <1>6, <1>7 DEF FormatsInv

\* A step that neither begins the writing of a line, nor ends it, nor writes.
Calm ==
  /\ UNCHANGED <<sink, todo, errors>> /\ lines' \in Nat /\ lines <= lines'
  /\ \A a \in Appenders : stream[a] = "bad" => stream'[a] = "bad"
  /\ \A t \in Threads : pc'[t] = "write" <=> pc[t] = "write"
  /\ \A t \in Threads : pc[t] = "write" =>
       rest'[t] = rest[t] /\ event'[t] = event[t] /\ stream'[rest[t][1]] = stream[rest[t][1]]

LEMMA CalmOrNot ==
  ASSUME WInv, [Next]_vars
  PROVE  Calm \/ (\E t \in Threads : Format(t) \/ Item(t) \/ Written(t))
<1>1. /\ FInv /\ SinkInv /\ LockInv /\ pc \in [Threads -> PCs] /\ rest \in [Threads -> Seq(Appenders)]
      /\ DOMAIN event = Threads /\ stream \in [Appenders -> {"good", "failed", "bad"}] /\ lines \in Nat
  BY DEF WInv, LInv, FInv, TypeInv, FormatsInv, IdInv
<1>2. ASSUME NEW t \in Threads, ReOpen(t) PROVE Calm
  <2> DEFINE a == Head(rest[t])
  <2>1. /\ UNCHANGED <<sink, todo, errors, rest, event, lines>> /\ pc[t] = "reopen" /\ pc' = [pc EXCEPT ![t] = "stamp"]
        /\ lock[a] = None /\ \E ok \in BOOLEAN : stream' = [stream EXCEPT ![a] = Opened(stream[a], ok)]
    BY <1>1, <1>2 DEF ReOpen, At, Goto
  <2>2. \A u \in Threads : pc[u] = "write" => rest[u][1] \in Appenders /\ lock[rest[u][1]] = u
    BY <1>1, TailFacts DEF LockInv
  <2>3. \A u \in Threads : pc[u] = "write" => rest[u][1] # a
    BY <2>1, <2>2, NoneApart
  <2> HIDE DEF a
  <2>4. \A b \in Appenders : b # a => stream'[b] = stream[b]
    BY <1>1, <2>1
  <2>5. \A b \in Appenders : stream[b] = "bad" => stream'[b] = "bad"
    BY <1>1, <2>1 DEF Opened
  <2> QED
    BY <1>1, <2>1, <2>2, <2>3, <2>4, <2>5 DEF Calm
<1>3. ASSUME NEW t \in Threads, LogEnds(t) \/ Visit(t) \/ Stamp(t) PROVE Calm
  BY <1>1, <1>3 DEF LogEnds, Visit, Stamp, At, Goto, Rest, fileVars, Calm
<1>4. ASSUME NEW t \in Threads, NEW v \in Levels, Log(t, v) PROVE Calm
  BY <1>1, <1>4 DEF Log, At, Goto, Rest, fileVars, Calm
<1>5. ASSUME NEW t \in Threads, ChangeStep(t) \/ ChangeBegins(t) PROVE Calm
  <2>1. UNCHANGED <<sink, event, lines, todo, stream, errors>>
    BY <1>5 DEF ChangeStep, Update, Updated, Adopt, Push, ChangeBegins, SetFormatter, AddAppender,
       DelAppender, ClearAppender, Delete, AppenderSetFormatter, SetLevel, threadVars, fileVars
  <2>2. /\ pc[t] # "write" /\ pc'[t] # "write"
        /\ \A u \in Threads : u # t => pc'[u] = pc[u] /\ rest'[u] = rest[u]
    BY <1>1, <1>5, ChangerIdle DEF Walking
  <2> QED
    BY <1>1, <2>1, <2>2 DEF Calm
<1>6. CASE Tick \/ UNCHANGED vars
  BY <1>1, <1>6 DEF Tick, vars, threadVars, fileVars, Calm
<1> QED
  BY <1>2, <1>3, <1>4, <1>5, <1>6 DEF Next, LogStep

\* The threads that write have an appender each.
LEMMA WriterFacts ==
  ASSUME FInv
  PROVE  /\ \A t \in Threads : pc[t] = "write" =>
              rest[t] # <<>> /\ rest[t][1] \in Appenders /\ lock[rest[t][1]] = t /\ Head(rest[t]) = rest[t][1]
         /\ \A t, u \in Threads : pc[t] = "write" /\ pc[u] = "write" /\ rest[t][1] = rest[u][1] => t = u
<1>1. LockInv /\ rest \in [Threads -> Seq(Appenders)]
  BY DEF FInv, TypeInv
<1>2. \A t \in Threads : pc[t] = "write" =>
        rest[t] # <<>> /\ rest[t][1] \in Appenders /\ lock[rest[t][1]] = t /\ Head(rest[t]) = rest[t][1]
  BY <1>1, TailFacts DEF LockInv
<1> QED
  BY <1>2

\* The only line an appender without an error is given is its writer's.
LEMMA OpenLine ==
  ASSUME FInv, IdInv, NEW t \in Threads, pc[t] = "write", stream[rest[t][1]] # "bad"
  PROVE  Open(rest[t][1]) = {event[t].id}
<1>1. event[t].id \in 1 .. lines
  BY DEF IdInv, Walking
<1> QED
  BY <1>1, WriterFacts DEF Open

LEMMA SinkFacts ==
  ASSUME SinkInv, NEW a \in Appenders
  PROVE  sink[a] \in Seq(Range(sink[a])) /\ Len(sink[a]) \in Nat /\ DOMAIN sink[a] = 1 .. Len(sink[a])
<1> DEFINE s == sink[a]
           S == Range(s)
<1>1. s \in Seq(S)
  BY DEF SinkInv
<1> HIDE DEF s, S
<1>2. Len(s) \in Nat /\ DOMAIN s = 1 .. Len(s)
  BY <1>1, LenProperties
<1> QED
  BY <1>1, <1>2 DEF s, S

\* While nothing is written the lines stay as they are.
LEMMA CalmKeeps ==
  ASSUME WInv, Calm, ~ crashed' => ~ crashed
  PROVE  CutInv' /\ WriteInv'
<1>1. FInv /\ IdInv /\ CutInv /\ WriteInv /\ lines \in Nat
  BY DEF WInv, LInv, IdInv
<1>2. ASSUME NEW a \in Appenders PROVE Cut(sink'[a], Open(a)')
  <2>1. Open(a) \subseteq Open(a)'
    BY <1>1 DEF Open, Reported, Calm
  <2>2. sink'[a] = sink[a] /\ Cut(sink[a], Open(a))
    BY <1>1 DEF CutInv, Calm
  <2>3. Cut(sink[a], Open(a)')
    BY <2>1, <2>2, CutGrows
  <2> QED
    BY <2>2, <2>3
<1>3. WriteInv'
  BY <1>1 DEF WriteInv, Calm
<1> QED
  BY <1>2, <1>3 DEF CutInv

\* The last line of a written item was the writer's, and every other is full.
LEMMA ItemKeeps ==
  ASSUME WInv, NEW t \in Threads, Item(t), ~ crashed
  PROVE  CutInv' /\ WriteInv'
<1> DEFINE id == event[t].id
<1>0. PICK a \in Appenders : a = rest[t][1]
  BY WriterFacts DEF WInv, LInv, Item, At
<1>1. /\ FInv /\ IdInv /\ SinkInv /\ CutInv /\ WriteInv
      /\ stream \in [Appenders -> {"good", "failed", "bad"}] /\ DOMAIN todo = Threads
  BY DEF WInv, LInv, FInv, TypeInv, FormatsInv
<1>2. /\ UNCHANGED <<pc, rest, event, lines, errors>> /\ pc[t] = "write" /\ a \in Appenders
      /\ todo[t] # <<>> /\ todo' = [todo EXCEPT ![t] = Tail(todo[t])]
      /\ \/ sink' = [sink EXCEPT ![a] = Append(sink[a], Entry(t))] /\ stream[a] = "good" /\ stream' = stream
         \/ sink' = sink /\ stream' = [stream EXCEPT ![a] = "bad"]
         \/ sink' = sink /\ stream' = stream /\ stream[a] # "good"
  BY <1>0, <1>1, ItemFacts
<1>3. /\ \A u \in Threads : pc[u] = "write" => rest[u][1] \in Appenders
      /\ \A u \in Threads : pc[u] = "write" /\ u # t => rest[u][1] # a
  BY <1>0, <1>1, <1>2, WriterFacts
<1>4. \A b \in Appenders : b # a => sink'[b] = sink[b] /\ stream'[b] = stream[b]
  BY <1>0, <1>1, <1>2 DEF SinkInv
<1>5. \A u \in Threads : u # t => todo'[u] = todo[u]
  BY <1>0, <1>1, <1>2
<1>6. todo'[t] = Tail(todo[t])
  BY <1>0, <1>1, <1>2
<1>7. Writing(sink[a], stream[a], todo[t], id)
  BY <1>0, <1>1, <1>2 DEF WriteInv
<1>8. \A b \in Appenders : stream'[b] = stream[b] => Open(b)' = Open(b)
  BY <1>0, <1>2 DEF Open, Reported
<1> HIDE DEF id
<1>9. Cut(sink'[a], Open(a)') /\ Writing(sink'[a], stream'[a], Tail(todo[t]), id)
  <2>1. CASE sink' = [sink EXCEPT ![a] = Append(sink[a], Entry(t))] /\ stream[a] = "good" /\ stream' = stream
    <3>1. PICK f \in Formatters, i \in 1 .. Len(sink[a]) + 1 : Halfway(sink[a], todo[t], id, f, i)
      BY <1>7, <2>1 DEF Writing
    <3>2. Wrote(sink[a], sink'[a], Entry(t)) /\ Entry(t).id = id /\ Entry(t).item = Head(todo[t])
      <4>1. sink'[a] = Append(sink[a], Entry(t)) /\ sink[a] \in Seq(Range(sink[a]))
        BY <1>0, <1>1, <1>2, <2>1 DEF SinkInv
      <4> QED
        BY <4>1, AppendFacts DEF Wrote, Entry, id
    <3>3. Open(a) = {id}
      BY <1>0, <1>1, <1>2, <2>1, OpenLine DEF id
    <3>4. Cut(sink[a], {id})
      BY <1>0, <1>1, <1>2, <3>3 DEF CutInv
    <3>5. Cut(sink'[a], {id})
      BY <1>0, <1>2, <3>1, <3>2, <3>4, LinesStay
    <3>6. Halfway(sink'[a], Tail(todo[t]), id, f, i)
      BY <1>0, <1>2, <3>1, <3>2, LineGoesOn
    <3>7. Open(a)' = {id}
      BY <1>0, <1>2, <1>8, <2>1, <3>3
    <3>8. i \in 1 .. Len(sink'[a]) + 1
      BY <3>6 DEF Halfway
    <3>9. Writing(sink'[a], "good", Tail(todo[t]), id)
      BY <3>6, <3>8 DEF Writing
    <3> QED
      BY <2>1, <3>5, <3>7, <3>9
  <2>2. CASE sink' = sink /\ stream' = [stream EXCEPT ![a] = "bad"]
    <3>1. stream'[a] = "bad"
      BY <1>0, <1>1, <1>2, <2>2
    <3>2. Open(a) \subseteq Open(a)'
      BY <1>0, <1>2, <3>1 DEF Open, Reported
    <3>3. Cut(sink[a], Open(a))
      BY <1>0, <1>1, <1>2 DEF CutInv
    <3>4. Cut(sink[a], Open(a)')
      BY <3>2, <3>3, CutGrows
    <3> QED
      BY <2>2, <3>1, <3>4 DEF Writing
  <2>3. CASE sink' = sink /\ stream' = stream /\ stream[a] # "good"
    <3>1. Open(a)' = Open(a) /\ Cut(sink[a], Open(a))
      BY <1>0, <1>1, <1>2, <1>8, <2>3 DEF CutInv
    <3> QED
      BY <1>7, <2>3, <3>1 DEF Writing
  <2> QED
    BY <1>0, <1>2, <2>1, <2>2, <2>3
<1>10. CutInv'
  <2> SUFFICES ASSUME NEW b \in Appenders PROVE Cut(sink'[b], Open(b)')
    BY DEF CutInv
  <2>1. CASE b = a
    BY <1>9, <2>1
  <2>2. CASE b # a
    <3>1. Open(b)' = Open(b) /\ sink'[b] = sink[b] /\ Cut(sink[b], Open(b))
      BY <1>0, <1>1, <1>4, <1>8, <2>2 DEF CutInv
    <3> QED
      BY <3>1
  <2> QED
    BY <2>1, <2>2
<1>11. WriteInv'
  <2> SUFFICES ASSUME NEW u \in Threads, pc[u] = "write"
               PROVE  Writing(sink'[rest[u][1]], stream'[rest[u][1]], todo'[u], event[u].id)
    BY <1>0, <1>2 DEF WriteInv
  <2>1. CASE u = t
    BY <1>0, <1>6, <1>9, <2>1 DEF id
  <2>2. CASE u # t
    <3>1. Writing(sink[rest[u][1]], stream[rest[u][1]], todo[u], event[u].id)
      BY <1>0, <1>1 DEF WriteInv
    <3>2. sink'[rest[u][1]] = sink[rest[u][1]] /\ stream'[rest[u][1]] = stream[rest[u][1]] /\ todo'[u] = todo[u]
      BY <1>0, <1>3, <1>4, <1>5, <2>2
    <3> QED
      BY <3>1, <3>2
  <2> QED
    BY <2>1, <2>2
<1> QED
  BY <1>10, <1>11

\* Nothing of the line is in the appender when the formatter begins it.
LEMMA FormatKeeps ==
  ASSUME WInv, NEW t \in Threads, Format(t), ~ crashed
  PROVE  CutInv' /\ WriteInv'
<1> DEFINE a == Head(rest[t])
           id == event[t].id
<1>1. /\ FInv /\ IdInv /\ SinkInv /\ WalkInv /\ FormatsInv /\ CutInv /\ WriteInv /\ LockInv /\ FormatterInv
      /\ pc \in [Threads -> PCs] /\ rest \in [Threads -> Seq(Appenders)] /\ DOMAIN todo = Threads
      /\ fmt \in [Appenders -> Formatters \cup {None}]
  BY DEF WInv, LInv, FInv, TypeInv
<1>2. /\ UNCHANGED <<rest, event, lines, sink, stream, errors>> /\ pc[t] = "format"
      /\ pc' = [pc EXCEPT ![t] = "write"]
      /\ todo' = [todo EXCEPT ![t] = IF items[fmt[a]] = None THEN <<>> ELSE items[fmt[a]]]
      /\ crashed' = (items[fmt[a]] = None)
  BY DEF Format, At, Goto, fileVars
<1>3. rest[t] # <<>> /\ a = rest[t][1] /\ a \in Appenders /\ 1 \in DOMAIN rest[t]
  BY <1>1, <1>2, TailFacts DEF LockInv
<1>4. fmt[a] \in Formatters /\ \A k \in DOMAIN sink[a] : sink[a][k].id # id
  <2>1. fmt[a] # None
    BY <1>1, <1>2, <1>3 DEF FormatsInv, Walking
  <2>2. \A k \in DOMAIN sink[a] : sink[a][k].id # id
    BY <1>1, <1>2, <1>3 DEF WalkInv, Walking
  <2> QED
    BY <1>1, <1>3, <2>1, <2>2
<1>5. \A u \in Threads : u # t => pc'[u] = pc[u] /\ todo'[u] = todo[u]
  BY <1>1, <1>2
<1> HIDE DEF a, id
<1>6. \A b \in Appenders : Open(b) \subseteq Open(b)'
  BY <1>1, <1>2 DEF Open, Reported
<1>7. CutInv'
  <2> SUFFICES ASSUME NEW b \in Appenders PROVE Cut(sink[b], Open(b)')
    BY <1>2 DEF CutInv
  <2>1. Cut(sink[b], Open(b))
    BY <1>1 DEF CutInv
  <2> QED
    BY <1>6, <2>1, CutGrows
<1>8. ASSUME ~ crashed' PROVE Writing(sink[a], stream[a], todo'[t], id)
  <2>1. todo'[t] = Items(Pattern[fmt[a]])
    <3>1. items[fmt[a]] # None /\ items[fmt[a]] \in {None, Items(Pattern[fmt[a]])}
      BY <1>1, <1>2, <1>4, <1>8 DEF FormatsInv
    <3> QED
      BY <1>1, <1>2, <3>1
  <2>2. Writing(sink[a], stream[a], Items(Pattern[fmt[a]]), id)
    BY <1>1, <1>3, <1>4, SinkFacts, LineBegins
  <2> QED
    BY <2>1, <2>2
<1>9. WriteInv'
  <2> SUFFICES ASSUME ~ crashed', NEW u \in Threads, pc'[u] = "write"
               PROVE  Writing(sink[rest[u][1]], stream[rest[u][1]], todo'[u], event[u].id)
    BY <1>2 DEF WriteInv
  <2>1. CASE u = t
    BY <1>3, <1>8, <2>1 DEF id
  <2>2. CASE u # t
    <3>1. Writing(sink[rest[u][1]], stream[rest[u][1]], todo[u], event[u].id)
      BY <1>1, <1>5, <2>2 DEF WriteInv
    <3> QED
      BY <1>5, <2>2, <3>1
  <2> QED
    BY <2>1, <2>2
<1> QED
  BY <1>7, <1>9

\* The line is full when the thread gives back the appender's lock.
LEMMA WrittenKeeps ==
  ASSUME WInv, NEW t \in Threads, Written(t), ~ crashed
  PROVE  CutInv' /\ WriteInv'
<1> DEFINE id == event[t].id
<1>0. PICK a \in Appenders : a = rest[t][1]
  BY WriterFacts DEF WInv, LInv, Written, At
<1>1. /\ FInv /\ IdInv /\ SinkInv /\ CutInv /\ WriteInv
      /\ stream \in [Appenders -> {"good", "failed", "bad"}]
      /\ pc \in [Threads -> PCs] /\ rest \in [Threads -> Seq(Appenders)]
  BY DEF WInv, LInv, FInv, TypeInv, FormatsInv
<1>2. /\ UNCHANGED <<event, lines, sink, stream, todo, crashed>> /\ pc[t] = "write" /\ todo[t] = <<>>
      /\ pc' = [pc EXCEPT ![t] = "walk"] /\ \A u \in Threads : u # t => rest'[u] = rest[u]
      /\ Report(Head(rest[t]), id)
  BY <1>0, <1>1 DEF Written, At, Goto, Rest
<1>3. a \in Appenders /\ Head(rest[t]) = a
  BY <1>0, <1>1, <1>2, WriterFacts
<1>4. pc'[t] = "walk" /\ \A u \in Threads : u # t => pc'[u] = pc[u]
  BY <1>0, <1>1, <1>2
<1> HIDE DEF id
<1>5. errors \subseteq errors'
  BY <1>2 DEF Report
<1>6. \A b, l : Reported(b, l) => Reported(b, l)'
  BY <1>5 DEF Reported
<1>7. \A l : stream[a] # "good" /\ l = id => Reported(a, l)'
  <2>1. ASSUME stream[a] # "good" PROVE \E e \in errors' : e.file = a /\ e.line = id
    <3> DEFINE new == [file |-> a, line |-> id, at |-> [o \in Stdouts |-> Len(sink[o])]]
    <3>1. new \in errors'
      BY <1>2, <1>3, <2>1 DEF Report
    <3>2. new.file = a /\ new.line = id
      OBVIOUS
    <3> QED
      BY <3>1, <3>2
  <2> QED
    BY <2>1 DEF Reported
<1>8. Cut(sink[a], Open(a)')
  <2>1. CASE stream[a] = "bad"
    <3>1. Open(a) \subseteq Open(a)'
      <4> SUFFICES ASSUME NEW l \in Open(a) PROVE l \in Open(a)'
        OBVIOUS
      <4>1. l \in 1 .. lines /\ (Reported(a, l) \/ l = id)
        BY <1>0, <1>1, <1>2, WriterFacts DEF Open, id
      <4>2. Reported(a, l)'
        BY <1>6, <1>7, <2>1, <4>1
      <4> QED
        BY <1>2, <2>1, <4>1, <4>2 DEF Open
    <3>2. Cut(sink[a], Open(a))
      BY <1>0, <1>1, <1>3 DEF CutInv
    <3> QED
      BY <3>1, <3>2, CutGrows
  <2>2. CASE stream[a] # "bad"
    <3>1. Open(a) = {id}
      BY <1>0, <1>1, <1>2, <2>2, OpenLine DEF id
    <3>2. Cut(sink[a], {id})
      BY <1>0, <1>1, <1>3, <3>1 DEF CutInv
    <3>3. Writing(sink[a], stream[a], <<>>, id)
      BY <1>0, <1>1, <1>2 DEF WriteInv, id
    <3>4. stream[a] \in {"good", "failed"}
      BY <1>0, <1>1, <1>3, <2>2
    <3>5. Cut(sink[a], {})
      <4>1. Len(sink[a]) \in Nat /\ DOMAIN sink[a] = 1 .. Len(sink[a])
        BY <1>0, <1>1, <1>3, SinkFacts
      <4> QED
        BY <3>2, <3>3, <3>4, <4>1, LineEnds
    <3> QED
      BY <3>5, CutGrows
  <2> QED
    BY <2>1, <2>2
<1>9. CutInv'
  <2> SUFFICES ASSUME NEW b \in Appenders PROVE Cut(sink[b], Open(b)')
    BY <1>0, <1>2 DEF CutInv
  <2>1. CASE b = a
    BY <1>8, <2>1
  <2>2. CASE b # a
    <3>1. Open(b) \subseteq Open(b)'
      BY <1>0, <1>2, <1>4, <1>6, <2>2 DEF Open
    <3>2. Cut(sink[b], Open(b))
      BY <1>0, <1>1 DEF CutInv
    <3> QED
      BY <3>1, <3>2, CutGrows
  <2> QED
    BY <2>1, <2>2
<1>10. WriteInv'
  BY <1>0, <1>1, <1>2, <1>4 DEF WriteInv
<1> QED
  BY <1>9, <1>10

LEMMA WInit == Init => WInv
<1> SUFFICES ASSUME Init PROVE WInv
  OBVIOUS
<1>1. LInv
  BY LInit
<1>2. Style \in Formatters
  BY LoggerAssumption DEF Style
<1>3. \A a \in Appenders : DOMAIN sink[a] = {}
  BY EmptySeq DEF Init
<1>4. \A i \in DOMAIN appenders : appenders[i] \in Appenders /\ appenders[i] \in Range(appenders)
  BY LoggerAssumption DEF Init, Range
<1>5. FormatsInv
  <2>1. \A f \in Formatters : items[f] \in {None, Items(Pattern[f])}
    BY DEF Init
  <2>2. \A i \in DOMAIN appenders : fmt[appenders[i]] # None
    BY <1>2, <1>4, NoneApart DEF Init
  <2>3. stream \in [Appenders -> {"good", "failed", "bad"}]
    BY DEF Init
  <2>4. \A t \in Threads : ~ Walking(t)
    BY DEF Init, Walking
  <2> QED
    BY <2>1, <2>2, <2>3, <2>4 DEF FormatsInv
<1>6. CutInv
  BY <1>3 DEF CutInv, Cut
<1>7. WriteInv
  BY DEF Init, WriteInv
<1> QED
  BY <1>1, <1>5, <1>6, <1>7 DEF WInv

LEMMA WNext == WInv /\ [Next]_vars => WInv'
<1> SUFFICES ASSUME WInv, [Next]_vars PROVE WInv'
  OBVIOUS
<1>1. LInv' /\ FormatsInv'
  BY LNext, FormatsStep DEF WInv
<1>2. CASE UNCHANGED vars
  <2>1. ~ crashed' => ~ crashed
    BY <1>2 DEF vars
  <2>2. Calm
    BY <1>2 DEF Calm, vars, threadVars, fileVars, WInv, LInv, IdInv
  <2> QED
    BY <1>1, <2>1, <2>2, CalmKeeps DEF WInv
<1>3. CASE Next
  <2>1. ~ crashed
    BY <1>3 DEF Next
  <2>2. CutInv' /\ WriteInv'
    BY <2>1, CalmOrNot, CalmKeeps, ItemKeeps, FormatKeeps, WrittenKeeps
  <2> QED
    BY <1>1, <2>2 DEF WInv
<1> QED
  BY <1>2, <1>3

\* Every line an appender wrote has the items of one formatter, from the first to
\* the last; only the last line may be cut, while it is written or after the
\* file had an error that was reported for it.
LinesComplete ==
  \A a \in Appenders : \A i, j \in DOMAIN sink[a] : IsLine(sink[a], i, j) =>
    \E f \in Formatters :
      \/ Full(sink[a], i, j, f)
      \/ /\ Follows(sink[a], i, j, f) /\ j = Len(sink[a])
         /\ lock[a] # None \/ (stream[a] = "bad" /\ Reported(a, sink[a][j].id))

LEMMA CutLines == WInv => LinesComplete
<1> SUFFICES ASSUME WInv PROVE LinesComplete
  OBVIOUS
<1>1. FInv /\ CutInv
  BY DEF WInv, LInv
<1> SUFFICES ASSUME NEW a \in Appenders, NEW i \in DOMAIN sink[a], NEW j \in DOMAIN sink[a],
                    IsLine(sink[a], i, j)
             PROVE  \E f \in Formatters :
                      \/ Full(sink[a], i, j, f)
                      \/ /\ Follows(sink[a], i, j, f) /\ j = Len(sink[a])
                         /\ lock[a] # None \/ (stream[a] = "bad" /\ Reported(a, sink[a][j].id))
  BY DEF LinesComplete
<1>2. PICK f \in Formatters :
        \/ Full(sink[a], i, j, f)
        \/ Follows(sink[a], i, j, f) /\ j = Len(sink[a]) /\ sink[a][j].id \in Open(a)
  BY <1>1 DEF CutInv, Cut
<1>3. \A id \in Open(a) : lock[a] # None \/ (stream[a] = "bad" /\ Reported(a, id))
  BY <1>1, WriterFacts, NoneApart DEF Open
<1> QED
  BY <1>2, <1>3

\* What a thread began to write to an appender it writes to the end with the
\* formatter it began with, or not at all: whoever changes the formatter waits
\* for the appender's lock, and ReOpen() too, which leaves a stream that had an
\* error as it is.  A line cut by an error was reported (log.cpp 608-636).
THEOREM LinesAreComplete == Spec => []LinesComplete
BY CutLines, WInit, WNext, PTL DEF Spec

\* If the patterns are read without an error, every line an appender wrote spells
\* the pattern of one formatter and none is interrupted by another line of that
\* appender, for any threads, levels, appenders, formatters and patterns.  It is
\* said of each appender, not of std::cout: see ErrorsApart.
THEOREM LinesAreWhole ==
  ASSUME \A f \in Formatters : Spelled(Pattern[f])
  PROVE  Spec => []LinesWhole
<1>1. WInv => LinesWhole
  <2> SUFFICES ASSUME WInv, NEW a \in Appenders
               PROVE  /\ Apart(sink[a])
                      /\ \A i, j \in DOMAIN sink[a] : IsLine(sink[a], i, j) =>
                           \/ FlattenSeq([k \in 1 .. j + 1 - i |-> Source(sink[a][i + k - 1].item)])
                                \in {Pattern[f] : f \in Formatters}
                           \/ /\ j = Len(sink[a])
                              /\ lock[a] # None \/ (stream[a] = "bad" /\ Reported(a, sink[a][j].id))
    BY DEF LinesWhole
  <2>1. Apart(sink[a])
    BY DEF WInv, LInv, LinesApart
  <2>2. ASSUME NEW i \in DOMAIN sink[a], NEW j \in DOMAIN sink[a], NEW f \in Formatters,
               Full(sink[a], i, j, f)
        PROVE  FlattenSeq([k \in 1 .. j + 1 - i |-> Source(sink[a][i + k - 1].item)]) = Pattern[f]
    <3> DEFINE I == Items(Pattern[f])
               L == [k \in 1 .. j + 1 - i |-> Source(sink[a][i + k - 1].item)]
               M == [k \in DOMAIN I |-> Source(I[k])]
    <3>1. i \in Nat /\ j \in Nat /\ DOMAIN I = 1 .. Len(I) /\ j + 1 - i = Len(I)
      BY <2>2, ItemsFacts, SinkFacts DEF Full, WInv, LInv
    <3>2. \A k \in i .. j : sink[a][k].item = I[k + 1 - i]
      BY <2>2 DEF Full, Follows
    <3> HIDE DEF I
    <3>3. \A k \in 1 .. j + 1 - i : sink[a][i + k - 1].item = I[k]
      <4> SUFFICES ASSUME NEW k \in 1 .. j + 1 - i PROVE sink[a][i + k - 1].item = I[k]
        OBVIOUS
      <4>1. i + k - 1 \in i .. j /\ (i + k - 1) + 1 - i = k
        BY <3>1
      <4> QED
        BY <3>2, <4>1
    <3>4. L = M
      <4>1. DOMAIN I = 1 .. j + 1 - i
        BY <3>1
      <4> QED
        BY <3>3, <4>1
    <3>5. Pattern[f] = FlattenSeq(M)
      BY DEF Spelled, I
    <3> HIDE DEF L, M
    <3>6. FlattenSeq(L) = Pattern[f]
      BY <3>4, <3>5
    <3> QED
      BY <3>6 DEF L
  <2>3. LinesComplete
    BY CutLines
  <2>4. ASSUME NEW i \in DOMAIN sink[a], NEW j \in DOMAIN sink[a], IsLine(sink[a], i, j)
        PROVE  \/ FlattenSeq([k \in 1 .. j + 1 - i |-> Source(sink[a][i + k - 1].item)])
                    \in {Pattern[f] : f \in Formatters}
               \/ /\ j = Len(sink[a])
                  /\ lock[a] # None \/ (stream[a] = "bad" /\ Reported(a, sink[a][j].id))
    <3>1. \/ \E f \in Formatters : Full(sink[a], i, j, f)
          \/ /\ j = Len(sink[a])
             /\ lock[a] # None \/ (stream[a] = "bad" /\ Reported(a, sink[a][j].id))
      BY <2>3, <2>4 DEF LinesComplete
    <3>2. CASE \E f \in Formatters : Full(sink[a], i, j, f)
      BY <2>2, <3>2
    <3> QED
      BY <3>1, <3>2
  <2> QED
    BY <2>1, <2>4
<1> QED
  BY <1>1, WInit, WNext, PTL DEF Spec
=============================================================================
