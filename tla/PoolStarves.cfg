SPECIFICATION Spec
CONSTANTS
  Initial = {t1}
  Spare = {t2}
  MaxNum = 2
  Tasks = {k1, k2, k3}
  NoTask = NoTask
  MaxTokens = 5
CHECK_DEADLOCK FALSE
PROPERTIES DynamicTasksRun
