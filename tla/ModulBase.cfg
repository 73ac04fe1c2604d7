SPECIFICATION ModulSpec
CONSTANTS
  Senders = {s1, s2}
  GeneralMsgs = {g1, g2}
  ImportantMsgs = {}
  ImmediateMsgs = {m1, m2}
  OtherMsgs = {}
  NoMsg = NoMsg
  Capacity = 2
CHECK_DEADLOCK FALSE
INVARIANTS ModulTypeOK TokenBalance
PROPERTIES MessagesProcessed StopEndsRun
