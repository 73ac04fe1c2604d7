\* One server, two clients.  A login arrives in pieces, and two and a half at
\* once; the server's buffer holds two replies, and the client's window as much.
SPECIFICATION Spec
CONSTANTS
  c1 = c1
  c2 = c2
  s1 = s1
  Clients = {c1, c2}
  Order <- MCOrder
  None = None
  LoginLen = 2
  RetLen = 1
  RecvSize = 5
  SendSize = 2
  UpMax = 4
  DownMax = 2
  MayLeave = {c1, c2}
  Logins <- MCLogins
INVARIANTS FramesKept ClientsCounted
PROPERTIES LoginsProcessed
\* A client stops after its last login.
CHECK_DEADLOCK FALSE
