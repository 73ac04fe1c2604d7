SPECIFICATION Spec
CONSTANTS
  Senders = {s1, s2, s3}
  GeneralMsgs = {g1, g2}
  ImportantMsgs = {i1, i2}
  ImmediateMsgs = {m1, m2}
  OtherMsgs = {x1}
  NoMsg = NoMsg
  Capacity = 2
INVARIANTS TypeOK Accounting OvershootBounded
PROPERTIES DeliveryOrder
