SPECIFICATION RwSpec
CONSTANTS
  Procs = {p1, p2, p3, p4}
  NoProc = NoProc
INVARIANTS RwTypeOK Exclusion
PROPERTIES ImplementsRdWrLock
