\* Two threads log two lines and make one change; the clock passes the time to
\* open the file again once, and one open or write fails.
SPECIFICATION Spec
CONSTANTS
  t1 = t1
  t2 = t2
  out = out
  file = file
  f1 = f1
  f2 = f2
  Threads = {t1, t2}
  Stdouts = {out}
  Files = {file}
  Added <- MCAdded
  Formatters = {f1, f2}
  Pattern <- MCPattern
  Letters <- MCLetters
  Levels = {1, 2}
  Root = Root
  None = None
  ReopenTime = 1
  MaxTime = 1
  MaxLines = 2
  MaxChanges = 2
  MaxFaults = 1
INVARIANTS LinesWhole FormatterCurrent
PROPERTIES LogReturns
\* The bounds end every behaviour, and so does a use of deleted memory.
CHECK_DEADLOCK FALSE
