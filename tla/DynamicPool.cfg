SPECIFICATION Spec
CONSTANTS
  Initial = {t1}
  Spare = {t2, t3}
  MaxNum = 3
  Tasks = {k1, k2}
  NoTask = NoTask
  MaxTokens = 2
INVARIANTS TypeOK TokensCoverTasks WakesEveryWorker
PROPERTIES DestroyEndsWorkers
CHECK_DEADLOCK FALSE
