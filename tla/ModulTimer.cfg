SPECIFICATION Spec
CONSTANTS
  ta = ta
  tb = tb
  tc = tc
  Timers = {ta, tb, tc}
  Recurring = {ta, tb}
  Cycle <- MCCycle
  Addresses = {1, 2, 3}
  None = None
  MaxQueued = 2
INVARIANTS OneShotOnce
PROPERTIES NeverEarly TimersFire StopEndsLoop
CHECK_DEADLOCK FALSE
