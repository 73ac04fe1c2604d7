SPECIFICATION Spec
CONSTANTS
  Procs = {p1, p2, p3, p4}
  NoProc = NoProc
  MaxCount = 3
INVARIANTS TypeOK NoLostWakeup
PROPERTIES ImplementsSemaphore
