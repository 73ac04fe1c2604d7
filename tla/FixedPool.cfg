SPECIFICATION Spec
CONSTANTS
  Initial = {t1, t2}
  Spare = {t3}
  MaxNum = 2
  Tasks = {k1, k2, k3}
  NoTask = NoTask
  MaxTokens = 6
PROPERTIES TasksRun
CHECK_DEADLOCK FALSE
