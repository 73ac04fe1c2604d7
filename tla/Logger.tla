------------------------------- MODULE Logger -------------------------------
(***************************************************************************)
(* gdres::Logger and its appenders (log/log.h, log.cpp): threads that log  *)
(* lines while others change the formatters, the levels and the appenders. *)
(*                                                                         *)
(* Logger::Log() walks the appenders without the logger's lock; each       *)
(* appender writes its line under its own.  Both locks are SpinLocks.      *)
(*                                                                         *)
(*   pc[t]   idle                                                          *)
(*           walk     in the loop of Log(), before rest[t][1]              *)
(*           reopen   before ReOpen()        stamp   before lastTime = now *)
(*           format   before the lock of the appender                      *)
(*           write    holds it, todo[t] is left of the line                *)
(*           update   in SetFormatter(), before the lock of rest[t][1]     *)
(*           adopt    in AddAppender(), after GetFormatter() of rest[t][1] *)
(***************************************************************************)
EXTENDS Integers, Sequences, SequencesExt, FiniteSets, LogFormat

CONSTANTS
  Threads,
  Stdouts, Files,  \* the appenders; no two Files have one path
  Added,           \* what appenders the logger may have from the start
  Formatters, Pattern,
  Levels,
  Root, None,      \* the logger; nobody
  ReopenTime,      \* 3 seconds
  MaxTime, MaxLines, MaxChanges, MaxFaults

Appenders == Stdouts \cup Files

\* The appenders of the start are new, each in the list once.  A formatter's
\* items are a vector.
ASSUME LoggerAssumption ==
  /\ Formatters # {} /\ Formatters \cap Appenders = {} /\ Stdouts \cap Files = {}
  /\ Root \notin Appenders /\ None \notin Threads \cup Formatters
  /\ \A f \in Formatters :
       LET I == Items(Pattern[f]) IN I # None /\ I \in Seq(Range(I))
  /\ Added \subseteq Seq(Appenders)
  /\ \A s \in Added : \A i, j \in DOMAIN s : s[i] = s[j] => i = j
  /\ MaxTime \in Nat /\ MaxLines \in Nat /\ MaxChanges \in Nat /\ MaxFaults \in Nat

Style == CHOOSE f \in Formatters : TRUE

VARIABLES
  pc, rest, todo,
  event,       \* the line a thread logs: [id, level, time]
  lock,        \* holder of each SpinLock
  appenders, formatter,
  level,       \* level of the logger and of each appender
  fmt,         \* formatter of each appender
  items,       \* the items of each formatter; None before new and after delete
  used,        \* formatters created and appenders added so far
  sink,        \* what each appender wrote: [id, item]; Stdouts write to std::cout
  errors,      \* the "error" on std::cout: [file, line, at], see Written
  stream,      \* the stream written to: good, failed (not open), bad (open, an error)
  lastTime, clock,
  lines, changes, faults,
  crashed

threadVars == <<pc, rest, todo, event, lock>>
listVars == <<appenders, formatter, level, fmt, items, used, changes>>
fileVars == <<stream, lastTime, faults, errors>>
vars == <<threadVars, listVars, sink, fileVars, clock, lines, crashed>>

\* LoggerSingle: the logger with its appenders, before any thread logs.  A
\* stream is good or failed by whether the file could be opened.
Init ==
  /\ pc = [t \in Threads |-> "idle"]
  /\ rest = [t \in Threads |-> <<>>] /\ todo = [t \in Threads |-> <<>>]
  /\ event = [t \in Threads |-> [id |-> 0, level |-> 0, time |-> 0]]
  /\ lock = [l \in Appenders \cup {Root} |-> None]
  /\ appenders \in Added
  /\ formatter = Style
  /\ items = [f \in Formatters |-> IF f = Style THEN Items(Pattern[f]) ELSE None]
  /\ used = {Style} \cup Range(appenders)
  /\ level = [l \in Appenders \cup {Root} |-> Min(Levels)]
  /\ fmt = [a \in Appenders |-> IF a \in Range(appenders) THEN Style ELSE None]
  /\ sink = [a \in Appenders |-> <<>>]
  /\ stream \in [Appenders -> {"good", "failed"}]
  /\ \A a \in Stdouts : stream[a] = "good"
  /\ lastTime = [f \in Files |-> 0] /\ errors = {} /\ clock = ReopenTime
  /\ lines = 0 /\ changes = 0 /\ faults = 0
  /\ crashed = FALSE

At(t, p) == pc[t] = p
Goto(t, p) == pc' = [pc EXCEPT ![t] = p]
Rest(t, s) == rest' = [rest EXCEPT ![t] = s]
Lock(l, t) == lock[l] = None /\ lock' = [lock EXCEPT ![l] = t]
Unlock(l) == lock' = [lock EXCEPT ![l] = None]

Walking(t) == pc[t] \in {"walk", "reopen", "stamp", "format", "write"}

----------------------------------------------------------------------------
\* Logging

\* A LOG statement: the event, then the destructor of its LogEventWrap.
Log(t, v) ==
  /\ At(t, "idle") /\ lines < MaxLines
  /\ lines' = lines + 1
  /\ event' = [event EXCEPT ![t] = [id |-> lines + 1, level |-> v, time |-> clock]]
  /\ IF v >= level[Root] THEN Goto(t, "walk") /\ Rest(t, appenders)
                           ELSE UNCHANGED <<pc, rest>>
  /\ UNCHANGED <<todo, lock, listVars, sink, fileVars, clock, crashed>>

LogEnds(t) ==
  /\ At(t, "walk") /\ rest[t] = <<>>
  /\ Goto(t, "idle")
  /\ UNCHANGED <<rest, todo, event, lock, listVars, sink, fileVars, clock, lines, crashed>>

DueReopen(t, a) == a \in Files /\ event[t].time >= lastTime[a] + ReopenTime

\* The level of the appender, and for a file whether to open it again: no lock.
Visit(t) ==
  /\ At(t, "walk") /\ rest[t] # <<>>
  /\ LET a == Head(rest[t]) IN
       IF event[t].level < level[a]
         THEN Rest(t, Tail(rest[t])) /\ UNCHANGED pc
         ELSE Goto(t, IF DueReopen(t, a) THEN "reopen" ELSE "format") /\ UNCHANGED rest
  /\ UNCHANGED <<todo, event, lock, listVars, sink, fileVars, clock, lines, crashed>>

\* A mutant: the stream is closed whatever its state.
OpenAgain(s, ok) == IF ok THEN "good" ELSE "failed"

\* ReOpen() closes only a stream that is good; open() of one that is open
\* fails and does not clear the error.  OpenForWrite() tries twice: ok.
Opened(s, ok) == IF s = "bad" THEN "bad" ELSE IF ok THEN "good" ELSE "failed"

ReOpen(t) ==
  LET a == Head(rest[t]) IN
  /\ At(t, "reopen") /\ lock[a] = None
  /\ \E ok \in BOOLEAN :
       /\ ok \/ faults < MaxFaults
       /\ faults' = IF ok THEN faults ELSE faults + 1
       /\ stream' = [stream EXCEPT ![a] = Opened(@, ok)]
  /\ Goto(t, "stamp")
  /\ UNCHANGED <<rest, todo, event, lock, listVars, sink, lastTime, errors, clock, lines,
                 crashed>>

Stamp(t) ==
  /\ At(t, "stamp")
  /\ lastTime' = [lastTime EXCEPT ![Head(rest[t])] = event[t].time]
  /\ Goto(t, "format")
  /\ UNCHANGED <<rest, todo, event, lock, listVars, sink, stream, faults, errors, clock, lines,
                 crashed>>

\* A mutant: the line is written without the lock.
FormatUnlocked(t) ==
  LET a == Head(rest[t]) IN
  /\ At(t, "format")
  /\ todo' = [todo EXCEPT ![t] = IF items[fmt[a]] = None THEN <<>> ELSE items[fmt[a]]]
  /\ crashed' = (items[fmt[a]] = None)
  /\ Goto(t, "write")
  /\ UNCHANGED <<rest, event, lock, listVars, sink, fileVars, clock, lines>>

\* The appender's lock, then formatter->Format().
Format(t) ==
  LET a == Head(rest[t]) IN
  /\ At(t, "format") /\ Lock(a, t)
  /\ todo' = [todo EXCEPT ![t] = IF items[fmt[a]] = None THEN <<>> ELSE items[fmt[a]]]
  /\ crashed' = (items[fmt[a]] = None)
  /\ Goto(t, "write")
  /\ UNCHANGED <<rest, event, listVars, sink, fileVars, clock, lines>>

\* One item.  A stream that is not good takes nothing; the write may fail, and
\* the items of a formatter that was deleted are gone.
Item(t) ==
  LET a == Head(rest[t]) IN
  /\ At(t, "write") /\ todo[t] # <<>>
  /\ crashed' = (items[fmt[a]] = None)
  /\ todo' = [todo EXCEPT ![t] = Tail(@)]
  /\ \/ /\ stream[a] = "good"
        /\ sink' = [sink EXCEPT ![a] = Append(@, [id |-> event[t].id, item |-> Head(todo[t])])]
        /\ UNCHANGED fileVars
     \/ /\ a \in Files /\ stream[a] = "good" /\ faults < MaxFaults
        /\ faults' = faults + 1
        /\ stream' = [stream EXCEPT ![a] = "bad"]
        /\ UNCHANGED <<sink, lastTime, errors>>
     \/ /\ stream[a] # "good"
        /\ UNCHANGED <<sink, fileVars>>
  /\ UNCHANGED <<pc, rest, event, lock, listVars, clock, lines>>

\* Format() says whether its stream is good.  If not, "error" goes to std::cout,
\* which no lock guards: it comes after the first at[o] items of each o in Stdouts.
Report(a, id) ==
  errors' = IF stream[a] = "good" THEN errors
            ELSE errors \cup {[file |-> a, line |-> id, at |-> [o \in Stdouts |-> Len(sink[o])]]}

\* A mutant: the lock is kept.
WrittenLocked(t) ==
  /\ At(t, "write") /\ todo[t] = <<>>
  /\ Report(Head(rest[t]), event[t].id)
  /\ Rest(t, Tail(rest[t]))
  /\ Goto(t, "walk")
  /\ UNCHANGED <<todo, event, lock, listVars, sink, stream, lastTime, faults, clock, lines, crashed>>

Written(t) ==
  /\ At(t, "write") /\ todo[t] = <<>>
  /\ Report(Head(rest[t]), event[t].id)
  /\ Unlock(Head(rest[t]))
  /\ Rest(t, Tail(rest[t]))
  /\ Goto(t, "walk")
  /\ UNCHANGED <<todo, event, listVars, sink, stream, lastTime, faults, clock, lines, crashed>>

Tick ==
  /\ clock < MaxTime
  /\ clock' \in clock + 1 .. MaxTime
  /\ UNCHANGED <<threadVars, listVars, sink, fileVars, lines, crashed>>

LogStep(t) ==
  \/ LogEnds(t) \/ Visit(t) \/ ReOpen(t) \/ Stamp(t)
  \/ Format(t) \/ Item(t) \/ Written(t)

----------------------------------------------------------------------------
\* Changes

MayChange(t) == At(t, "idle") /\ changes < MaxChanges /\ changes' = changes + 1

\* Log() walks the vector without a lock; to take an element out meanwhile is
\* fatal, to add one is so when the vector is moved.
Walked == \E t \in Threads : Walking(t)

\* An appender that was not deleted.
Exists(a) ==
  \/ a \in Range(appenders) \/ a \notin used
  \/ \E t \in Threads : pc[t] \in {"adopt", "push"} /\ rest[t] = <<a>>

\* SetFormatter(): the old formatter is deleted before the appenders have the
\* new one.
SetFormatter(t, f) ==
  /\ MayChange(t) /\ f \notin used /\ Lock(Root, t)
  /\ used' = used \cup {f}
  /\ formatter' = f /\ items' = [items EXCEPT ![formatter] = None, ![f] = Items(Pattern[f])]
  /\ Rest(t, appenders) /\ Goto(t, "update")
  /\ UNCHANGED <<todo, event, appenders, level, fmt, sink, fileVars, clock, lines, crashed>>

\* A mutant: SetFormatter() leaves the appenders alone.
UpdateNone(t) ==
  /\ At(t, "update") /\ rest[t] # <<>>
  /\ Rest(t, <<>>)
  /\ UNCHANGED <<pc, todo, event, lock, listVars, sink, fileVars, clock, lines, crashed>>

\* hasFormatter is never set: the formatter an appender was given goes as well.
Update(t) ==
  /\ At(t, "update") /\ rest[t] # <<>> /\ lock[Head(rest[t])] = None
  /\ fmt' = [fmt EXCEPT ![Head(rest[t])] = formatter]
  /\ Rest(t, Tail(rest[t]))
  /\ UNCHANGED <<pc, todo, event, lock, appenders, formatter, level, items, used, changes, sink,
                 fileVars, clock, lines, crashed>>

Updated(t) ==
  /\ At(t, "update") /\ rest[t] = <<>>
  /\ Unlock(Root) /\ Goto(t, "idle")
  /\ UNCHANGED <<rest, todo, event, listVars, sink, fileVars, clock, lines, crashed>>

AddAppender(t, a) ==
  /\ MayChange(t) /\ Lock(Root, t)
  /\ a \notin used /\ used' = used \cup {a}
  /\ Rest(t, <<a>>)
  /\ Goto(t, IF fmt[a] = None THEN "adopt" ELSE "push")
  /\ UNCHANGED <<todo, event, appenders, formatter, level, fmt, items, sink, fileVars,
                 clock, lines, crashed>>

\* GetFormatter() said null: the logger's, whatever the appender has by now.
Adopt(t) ==
  /\ At(t, "adopt") /\ lock[rest[t][1]] = None
  /\ fmt' = [fmt EXCEPT ![rest[t][1]] = formatter]
  /\ Goto(t, "push")
  /\ UNCHANGED <<rest, todo, event, lock, appenders, formatter, level, items, used, changes, sink,
                 fileVars, clock, lines, crashed>>

Push(t) ==
  /\ At(t, "push")
  /\ appenders' = appenders \o rest[t]
  /\ crashed' \in {FALSE, Walked}
  /\ Rest(t, <<>>) /\ Unlock(Root) /\ Goto(t, "idle")
  /\ UNCHANGED <<todo, event, formatter, level, fmt, items, used, changes, sink, fileVars,
                 clock, lines>>

\* DelAppender() of one, or ClearAppender(): the appenders are deleted.  When a
\* thread walks the vector, what it does next is undefined: nothing is said of it.
Delete(t, s) ==
  /\ MayChange(t) /\ lock[Root] = None
  /\ appenders' = s
  /\ crashed' = Walked
  /\ UNCHANGED <<threadVars, formatter, level, fmt, items, used, sink, fileVars, clock, lines>>

\* i is where the loop finds the appender.
DelAppender(t, i) == Delete(t, RemoveAt(appenders, i))
ClearAppender(t) == appenders # <<>> /\ Delete(t, <<>>)

\* LogAppender::SetFormatter(); the formatter is the caller's.
AppenderSetFormatter(t, a, f) ==
  /\ MayChange(t) /\ f \notin used /\ Exists(a) /\ lock[a] = None
  /\ used' = used \cup {f} /\ items' = [items EXCEPT ![f] = Items(Pattern[f])]
  /\ fmt' = [fmt EXCEPT ![a] = f]
  /\ UNCHANGED <<threadVars, appenders, formatter, level, sink, fileVars, clock, lines, crashed>>

\* SetLevel() of the logger or, under its lock, of an appender.
SetLevel(t, l, v) ==
  /\ MayChange(t) /\ v # level[l] /\ (l = Root \/ (Exists(l) /\ lock[l] = None))
  /\ level' = [level EXCEPT ![l] = v]
  /\ UNCHANGED <<threadVars, appenders, formatter, fmt, items, used, sink, fileVars, clock, lines,
                 crashed>>

ChangeBegins(t) ==
  \/ \E f \in Formatters : SetFormatter(t, f)
  \/ \E a \in Appenders : AddAppender(t, a)
  \/ \E i \in DOMAIN appenders : DelAppender(t, i)
  \/ \E a \in Appenders, f \in Formatters : AppenderSetFormatter(t, a, f)
  \/ \E l \in Appenders \cup {Root}, v \in Levels : SetLevel(t, l, v)
  \/ ClearAppender(t)

ChangeStep(t) == Update(t) \/ Updated(t) \/ Adopt(t) \/ Push(t)

Next ==
  /\ ~ crashed
  /\ \/ \E t \in Threads : LogStep(t) \/ ChangeStep(t) \/ ChangeBegins(t)
     \/ \E t \in Threads, v \in Levels : Log(t, v)
     \/ Tick

Fairness == \A t \in Threads : WF_vars(~ crashed /\ (LogStep(t) \/ ChangeStep(t)))

Spec == Init /\ [][Next]_vars /\ Fairness

----------------------------------------------------------------------------

\* What an item stands for in its pattern.
Source(x) ==
  IF x.kind = "text" THEN x.text
  ELSE <<"%">> \o x.text \o (IF x.fmt = <<>> THEN <<>> ELSE <<"{">> \o x.fmt \o <<"}">>)

\* A pattern read without an error: its items say all there is in it.
Spelled(p) == p = FlattenSeq([k \in DOMAIN Items(p) |-> Source(Items(p)[k])])

\* No line in s is interrupted by another.
Apart(s) ==
  \A i \in 1 .. Len(s) - 1 :
    s[i + 1].id # s[i].id => \A j \in 1 .. i : s[j].id # s[i + 1].id

\* s has a line from i to j.
IsLine(s, i, j) ==
  /\ i <= j /\ \A k \in i .. j : s[k].id = s[i].id
  /\ i = 1 \/ s[i - 1].id # s[i].id
  /\ j = Len(s) \/ s[j + 1].id # s[j].id

Reported(a, id) == \E e \in errors : e.file = a /\ e.line = id

\* Among the items one appender writes (all of its file; its share of std::cout)
\* the lines of two threads never mix, and a line is there whole, from the first
\* character of a formatter's pattern to the last, or not at all because the
\* file was not open.  Only the last may be cut: it is being written, or the
\* file had an error, which was reported for this line and after which ReOpen()
\* never gives the file another.
LinesWhole ==
  \A a \in Appenders :
    /\ Apart(sink[a])
    /\ \A i, j \in DOMAIN sink[a] : IsLine(sink[a], i, j) =>
         \/ FlattenSeq([k \in 1 .. j + 1 - i |-> Source(sink[a][i + k - 1].item)])
              \in {Pattern[f] : f \in Formatters}
         \/ /\ j = Len(sink[a])
            /\ lock[a] # None \/ (stream[a] = "bad" /\ Reported(a, sink[a][j].id))

\* Refuted: an "error" never comes within a line of std::cout.
ErrorsApart ==
  \A e \in errors, o \in Stdouts :
    \A i \in DOMAIN sink[o] : i = e.at[o] /\ i < Len(sink[o]) => sink[o][i].id # sink[o][i + 1].id

\* Only in SetFormatter() and AddAppender() may an appender of the logger have
\* no formatter, or one that was deleted.
FormatterCurrent ==
  /\ items[formatter] # None
  /\ lock[Root] = None => \A a \in Range(appenders) : fmt[a] # None /\ items[fmt[a]] # None

\* A call of Log(), SetFormatter() or AddAppender() returns: the locks of the
\* logger and the appenders never make two threads wait for each other.
LogReturns == \A t \in Threads : ~ At(t, "idle") ~> At(t, "idle") \/ crashed
=============================================================================
