SPECIFICATION Spec
CONSTANTS
  o1 = o1
  o2 = o2
  o3 = o3
  i1 = i1
  i2 = i2
  Ids = {i1, i2}
  Mods = {o1, o2, o3}
  IdOf <- MCIdOf
  Posters = {p1}
  Targets <- MCTargets
  Stoppable = {o1, o3}
  Removable = {o1, o3}
  None = None
  MaxReaders = 1
INVARIANTS TypeOK ThreadCoversInfo
PROPERTIES RegistrationStable CallsReturn
CHECK_DEADLOCK FALSE
