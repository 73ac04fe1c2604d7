----------------------------- MODULE ClientCell -----------------------------
(***************************************************************************)
(* One TCP connection: the program's client WTcpClient (socket_client.h,   *)
(* socket_client.cpp) and the server's ClientCell (client_cell.h,          *)
(* client_cell.cpp), with a window of bytes in each direction between.     *)
(*                                                                         *)
(* All logins have one length and one header, but may differ in the rest;  *)
(* a byte of one is modelled by the login's number.  All replies are alike *)
(* (ret is 1), so that it is enough to count their bytes.  send() blocks;  *)
(* it puts bytes as they arrive, and recv() takes what has arrived.        *)
(*                                                                         *)
(*   client[c]  off, pending (not yet accepted), run (in OnRun()),         *)
(*              gone (closed its socket)                                   *)
(***************************************************************************)
EXTENDS Integers, Sequences, SequencesExt

CONSTANTS
  Clients,
  LoginLen, RetLen,        \* sizeof(LogIn), sizeof(LogInRet)
  RecvSize, SendSize,      \* RECV_BUFF_SIZE, SEND_BUFF_SIZE
  UpMax, DownMax,          \* bytes the connection holds in each direction
  Logins,                  \* how many logins each client sends
  MayLeave                 \* the clients that may end

VARIABLES
  client,
  left,          \* bytes of the login that is being sent
  logins,        \* logins the client sent
  up,            \* bytes on their way to the server
  recvMsgBuff,   \* bytes received; recvLastPos is its length
  packs,         \* logins processed
  sendLastPos,   \* bytes in sendMsgBuff
  out,           \* bytes that send() of the server has left to write
  down,          \* bytes on their way to the client
  lastPos,       \* bytes in recvBuff of the client
  rets,          \* replies the client processed
  overlapped,    \* history: clients a memcpy() of the server overlapped for
  mixed          \* history: clients of which it processed what was not a login sent

clientVars == <<client, left, logins, lastPos, rets>>
\* The two sides send while the other does not read.  They go on if a client
\* that is at last in send() finds room for its login, and the server that is
\* in send() meanwhile finds room for its buffer; it sends no second one before
\* it reads again.
ASSUME WindowAssumption ==
  /\ {LoginLen, RetLen, RecvSize, SendSize, UpMax, DownMax} \subseteq Nat \ {0}
  /\ UpMax >= LoginLen /\ RecvSize >= 2 * LoginLen - 1
  /\ DownMax >= SendSize
  /\ (RecvSize \div LoginLen) * RetLen <= SendSize
  /\ MayLeave \subseteq Clients /\ Logins \in [Clients -> Nat]

cellVars == <<recvMsgBuff, packs, sendLastPos, out, overlapped, mixed>>

CellInit ==
  /\ client = [c \in Clients |-> "off"]
  /\ left = [c \in Clients |-> 0] /\ logins = [c \in Clients |-> 0]
  /\ up = [c \in Clients |-> <<>>] /\ down = [c \in Clients |-> 0]
  /\ recvMsgBuff = [c \in Clients |-> <<>>] /\ packs = [c \in Clients |-> 0]
  /\ sendLastPos = [c \in Clients |-> 0] /\ out = [c \in Clients |-> 0]
  /\ lastPos = [c \in Clients |-> 0] /\ rets = [c \in Clients |-> 0]
  /\ overlapped = {} /\ mixed = {}

Least(a, b) == IF a < b THEN a ELSE b

----------------------------------------------------------------------------
\* WTcpClient

\* InitSocket() and ConnectServer().
Connect(c) ==
  /\ client[c] = "off"
  /\ client' = [client EXCEPT ![c] = "pending"]
  /\ UNCHANGED <<left, logins, up, down, lastPos, rets, cellVars>>

Running(c) == client[c] \in {"pending", "run"} /\ left[c] = 0

\* OnRun() reads when there is something to read: RecvMsg() cuts what it has
\* into replies.  Its memcpy() may overlap too, but of replies that are alike
\* every byte is the same as the one a length behind.
OnRecv(c) ==
  /\ Running(c) /\ down[c] > 0
  /\ LET n == Least(down[c], RecvSize - lastPos[c]) IN
       /\ down' = [down EXCEPT ![c] = @ - n]
       /\ lastPos' = [lastPos EXCEPT ![c] = (@ + n) % RetLen]
       /\ rets' = [rets EXCEPT ![c] = @ + (lastPos[c] + n) \div RetLen]
  /\ UNCHANGED <<client, left, logins, up, cellVars>>

\* and sends a login when there is not.
OnSend(c) ==
  /\ Running(c) /\ down[c] = 0 /\ logins[c] < Logins[c]
  /\ left' = [left EXCEPT ![c] = LoginLen]
  /\ logins' = [logins EXCEPT ![c] = @ + 1]
  /\ UNCHANGED <<client, up, down, lastPos, rets, cellVars>>

\* send() waits for room.
Put(c) ==
  /\ client[c] # "gone" /\ left[c] > 0
  /\ \E n \in 1 .. Least(left[c], UpMax - Len(up[c])) :
       /\ up' = [up EXCEPT ![c] = @ \o [i \in 1 .. n |-> logins[c]]]
       /\ left' = [left EXCEPT ![c] = @ - n]
  /\ UNCHANGED <<client, logins, down, lastPos, rets, cellVars>>

\* The client ends.  What it sent arrives before the end of the stream, unless
\* it had not read everything: then the connection is reset.
Leave(c) ==
  /\ c \in MayLeave /\ client[c] = "run"
  /\ client' = [client EXCEPT ![c] = "gone"]
  /\ left' = [left EXCEPT ![c] = 0]
  /\ up' = [up EXCEPT ![c] = IF down[c] > 0 THEN <<>> ELSE @]
  /\ down' = [down EXCEPT ![c] = 0]
  /\ UNCHANGED <<logins, lastPos, rets, cellVars>>

ClientStep(c) == OnRecv(c) \/ OnSend(c) \/ Put(c)

----------------------------------------------------------------------------
\* ClientCell

\* select() reports it: something to read, or the end of the stream.
Readable(c) == up[c] # <<>> \/ client[c] = "gone"

\* recv() in RecvMsg(); it takes nothing at the end of the stream.
Recv(c) ==
  /\ up[c] # <<>> /\ Len(recvMsgBuff[c]) < RecvSize
  /\ LET n == Least(Len(up[c]), RecvSize - Len(recvMsgBuff[c])) IN
       /\ recvMsgBuff' = [recvMsgBuff EXCEPT ![c] = @ \o SubSeq(up[c], 1, n)]
       /\ up' = [up EXCEPT ![c] = SubSeq(@, n + 1, Len(@))]
  /\ UNCHANGED <<clientVars, down, packs, sendLastPos, out, overlapped, mixed>>

RecvFails(c) == up[c] = <<>> \/ Len(recvMsgBuff[c]) = RecvSize

\* A mutant: the part of the reply that did not fit is sent again.
SentTwice(n) == Least(n, SendSize - 1)

\* SendMsg() with n bytes in the buffer and the reply: a full buffer is sent,
\* the rest stays for the next time.
Sent(n) == n % SendSize

\* memcpy() of what follows the first n bytes of b to its beginning.  If that
\* is more than n bytes the two regions overlap, which is undefined: copied in
\* one order or another, a byte comes from its place in any later login.
Copied(b, n) ==
  {r \in [1 .. Len(b) - n -> Range(b)] :
     \A i \in DOMAIN r : \E j \in i + n .. Len(b) : (j - i) % n = 0 /\ r[i] = b[j]}

\* The loop of RecvMsg(): PrcMsg() answers a login that is there entirely.  One
\* that is mixed of two has the header, and so the length, of any.
PrcMsg(c) ==
  LET b == recvMsgBuff[c]
      n == sendLastPos[c] + RetLen
  IN
  /\ out[c] = 0 /\ Len(b) >= LoginLen
  /\ \E r \in Copied(b, LoginLen) : recvMsgBuff' = [recvMsgBuff EXCEPT ![c] = r]
  /\ packs' = [packs EXCEPT ![c] = @ + 1]
  /\ sendLastPos' = [sendLastPos EXCEPT ![c] = Sent(n)]
  /\ out' = [out EXCEPT ![c] = SendSize * (n \div SendSize)]
  /\ overlapped' = IF Len(b) > 2 * LoginLen THEN overlapped \cup {c} ELSE overlapped
  /\ mixed' = IF \A i \in 1 .. LoginLen : b[i] = packs[c] + 1 THEN mixed ELSE mixed \cup {c}
  /\ UNCHANGED <<clientVars, up, down>>

RecvEnds(c) == out[c] = 0 /\ Len(recvMsgBuff[c]) < LoginLen

\* send() waits for room.
FlushOut(c) ==
  /\ out[c] > 0 /\ client[c] # "gone"
  /\ \E n \in 1 .. Least(out[c], DownMax - down[c]) :
       /\ down' = [down EXCEPT ![c] = @ + n]
       /\ out' = [out EXCEPT ![c] = @ - n]
  /\ UNCHANGED <<clientVars, up, recvMsgBuff, packs, sendLastPos, overlapped, mixed>>

\* Once the client is gone nobody reads it, or it fails: then the reply it was
\* sent for is dropped and the buffer is what it was before.
FlushFails(c) ==
  /\ out[c] > 0 /\ client[c] = "gone"
  /\ out' = [out EXCEPT ![c] = 0]
  /\ \/ UNCHANGED sendLastPos
     \/ /\ out[c] = SendSize
        /\ sendLastPos' = [sendLastPos EXCEPT ![c] = @ + SendSize - RetLen]
  /\ UNCHANGED <<clientVars, up, down, recvMsgBuff, packs, overlapped, mixed>>

Flush(c) == FlushOut(c) \/ FlushFails(c)

----------------------------------------------------------------------------

\* However send() and recv() cut the two streams, every byte a client sent is
\* of a login processed, or in the buffers or on its way behind no more than one
\* that is not complete, and the replies come whole, but the last wait in
\* sendMsgBuff.  The logins processed are those sent, in their order, unless more
\* than two were in recvMsgBuff at a time and the memcpy() behind one overlapped.
FramesKept ==
  \A c \in Clients :
    /\ client[c] # "gone" =>
         /\ logins[c] * LoginLen =
              packs[c] * LoginLen + Len(recvMsgBuff[c]) + Len(up[c]) + left[c]
         /\ packs[c] * RetLen =
              rets[c] * RetLen + lastPos[c] + down[c] + out[c] + sendLastPos[c]
         /\ sendLastPos[c] < SendSize /\ lastPos[c] < RetLen
    /\ c \in mixed => c \in overlapped

\* Refuted: the logins processed are the logins sent, for RecvMsg() is to take
\* one after the other from recvMsgBuff (client_cell.cpp 92).
LoginsAsSent == mixed = {}
=============================================================================
