-------------------------- MODULE TcpServerProofs --------------------------
(***************************************************************************)
(* Theorems about TcpServer, for any number of clients and servers, and    *)
(* any sizes that satisfy WindowAssumption: the framing of the two         *)
(* streams, and where a client is between accept() and the end of its      *)
(* connection.                                                             *)
(***************************************************************************)
EXTENDS TcpServer, SequenceTheorems, WellFoundedInduction, TLAPS

LEMMA Sizes == LoginLen \in Nat \ {0} /\ RetLen \in Nat \ {0} /\ SendSize \in Nat \ {0}
  BY WindowAssumption

LEMMA SizesInt == RecvSize \in Int /\ UpMax \in Int /\ DownMax \in Int
  BY WindowAssumption

\* What the remainder and the quotient of a buffer's fill add up to.
LEMMA Division ==
  ASSUME NEW n \in Int, NEW k \in Nat \ {0}
  PROVE  /\ n \div k \in Int /\ n % k \in Int
         /\ n = k * (n \div k) + (n % k)
         /\ 0 <= n % k /\ n % k < k
  OBVIOUS

\* One more message of a length, or several.
LEMMA Distributes ==
  ASSUME NEW a \in Int, NEW b \in Int, NEW k \in Int
  PROVE  (a + b) * k = a * k + k * b /\ (a + 1) * k = a * k + k
  OBVIOUS

\* How many bytes are on their way to the server, and in recvMsgBuff.
upLen == [c \in Clients |-> Len(up[c])]
recvLastPos == [c \in Clients |-> Len(recvMsgBuff[c])]

counters == <<recvLastPos, packs, sendLastPos, out>>

Bytes ==
  /\ up \in [Clients -> Seq(Int)] /\ recvMsgBuff \in [Clients -> Seq(Int)]

\* The counters are numbers.
Counts ==
  /\ left \in [Clients -> Int] /\ logins \in [Clients -> Int]
  /\ upLen \in [Clients -> Int] /\ down \in [Clients -> Int]
  /\ recvLastPos \in [Clients -> Int] /\ packs \in [Clients -> Int]
  /\ sendLastPos \in [Clients -> Int] /\ out \in [Clients -> Int]
  /\ lastPos \in [Clients -> Int] /\ rets \in [Clients -> Int]
  /\ DOMAIN client = Clients

\* The part of FramesKept that is about how many bytes are where.
Balanced ==
  \A c \in Clients : client[c] # "gone" =>
    /\ logins[c] * LoginLen = packs[c] * LoginLen + recvLastPos[c] + upLen[c] + left[c]
    /\ packs[c] * RetLen =
         rets[c] * RetLen + lastPos[c] + down[c] + out[c] + sendLastPos[c]
    /\ sendLastPos[c] < SendSize /\ lastPos[c] < RetLen

IInv == Counts /\ Balanced

LEMMA InvInit == Init => Bytes /\ IInv
<1> SUFFICES ASSUME Init PROVE Bytes /\ IInv
  OBVIOUS
<1>1. Bytes /\ upLen = [c \in Clients |-> 0] /\ recvLastPos = [c \in Clients |-> 0]
  BY DEF Init, CellInit, Bytes, upLen, recvLastPos
<1> QED
  BY <1>1, Sizes DEF Init, CellInit, IInv, Counts, Balanced

\* A step that leaves the streams as they are leaves their lengths.
LEMMA SameLength ==
  /\ UNCHANGED up => UNCHANGED upLen
  /\ UNCHANGED recvMsgBuff => UNCHANGED recvLastPos
  BY DEF upLen, recvLastPos

LEMMA SameCounters == UNCHANGED cellVars => UNCHANGED counters
  BY SameLength DEF cellVars, counters

----------------------------------------------------------------------------
\* The client's side.

LEMMA ConnectKeeps == ASSUME IInv, NEW c \in Clients, Connect(c) PROVE IInv'
  BY Sizes, SameLength, SameCounters DEF IInv, Counts, Balanced, Connect, counters

LEMMA OnRecvKeeps == ASSUME IInv, NEW c \in Clients, OnRecv(c) PROVE IInv'
<1> DEFINE n == Least(down[c], RecvSize - lastPos[c])
<1>1. n \in Int
  BY SizesInt DEF IInv, Counts, Least
<1> DEFINE m == lastPos[c] + n
<1>2. m \in Int /\ rets[c] \in Int /\ RetLen \in Nat \ {0} /\ RetLen \in Int
  BY <1>1, Sizes DEF IInv, Counts
<1>3. /\ m \div RetLen \in Int /\ m % RetLen \in Int
      /\ m = RetLen * (m \div RetLen) + (m % RetLen)
      /\ 0 <= m % RetLen /\ m % RetLen < RetLen
  <2> HIDE DEF m
  <2> QED BY <1>2, Division
<1>4. (rets[c] + (m \div RetLen)) * RetLen = rets[c] * RetLen + RetLen * (m \div RetLen)
  <2> HIDE DEF m
  <2> DEFINE q == m \div RetLen
  <2>1. q \in Int
    BY <1>3
  <2> HIDE DEF q
  <2>2. (rets[c] + q) * RetLen = rets[c] * RetLen + RetLen * q
    BY <1>2, <2>1, Distributes
  <2> QED BY <2>2 DEF q
<1>5. /\ down' = [down EXCEPT ![c] = @ - n]
      /\ lastPos' = [lastPos EXCEPT ![c] = m % RetLen]
      /\ rets' = [rets EXCEPT ![c] = @ + (m \div RetLen)]
      /\ UNCHANGED <<client, left, logins, upLen, counters>>
  BY SameLength, SameCounters DEF OnRecv
<1> HIDE DEF n, m
<1>6. Counts'
  BY <1>1, <1>2, <1>3, <1>5 DEF IInv, Counts, counters
<1>7. ASSUME NEW d \in Clients, client'[d] # "gone"
      PROVE  /\ logins'[d] * LoginLen = packs'[d] * LoginLen + recvLastPos'[d] + upLen'[d] + left'[d]
             /\ packs'[d] * RetLen =
                  rets'[d] * RetLen + lastPos'[d] + down'[d] + out'[d] + sendLastPos'[d]
             /\ sendLastPos'[d] < SendSize /\ lastPos'[d] < RetLen
  BY <1>1, <1>2, <1>3, <1>4, <1>5, <1>7 DEF m, IInv, Counts, Balanced, counters
<1> QED
  BY <1>6, <1>7 DEF IInv, Balanced

LEMMA OnSendKeeps == ASSUME IInv, NEW c \in Clients, OnSend(c) PROVE IInv'
<1>1. LoginLen \in Int /\ \A d \in Clients : logins[d] \in Int
  BY Sizes DEF IInv, Counts
<1>2. \A d \in Clients : (logins[d] + 1) * LoginLen = logins[d] * LoginLen + LoginLen
  BY <1>1, Distributes
<1> UNCHANGED <<upLen, counters>>
  BY SameLength, SameCounters DEF OnSend
<1>3. Counts'
  BY <1>1 DEF IInv, Counts, OnSend, counters
<1>4. Balanced'
  BY <1>1, <1>2 DEF IInv, Counts, Balanced, OnSend, Running, counters
<1> QED
  BY <1>3, <1>4 DEF IInv

LEMMA Joined ==
  ASSUME NEW a \in Seq(Int), NEW b \in Seq(Int)
  PROVE  /\ a \o b \in Seq(Int) /\ Len(a \o b) = Len(a) + Len(b)
         /\ \A i \in 1 .. Len(a) + Len(b) :
              (a \o b)[i] = IF i <= Len(a) THEN a[i] ELSE b[i - Len(a)]
  OBVIOUS

\* n bytes of a login follow those that are on their way.
LEMMA Followed ==
  ASSUME NEW b \in Seq(Int), NEW n \in Nat, NEW q \in Int
  PROVE  LET r == b \o [i \in 1 .. n |-> q] IN
           /\ r \in Seq(Int) /\ Len(r) = Len(b) + n
           /\ \A i \in 1 .. Len(b) + n : r[i] = IF i <= Len(b) THEN b[i] ELSE q
<1> DEFINE t == [i \in 1 .. n |-> q]
<1>1. t \in Seq(Int) /\ Len(t) = n /\ \A i \in 1 .. n : t[i] = q
  OBVIOUS
<1> HIDE DEF t
<1>2. /\ b \o t \in Seq(Int) /\ Len(b \o t) = Len(b) + n
      /\ \A i \in 1 .. Len(b) + n : (b \o t)[i] = IF i <= Len(b) THEN b[i] ELSE t[i - Len(b)]
  BY <1>1, Joined
<1>3. \A i \in 1 .. Len(b) + n : i > Len(b) => i - Len(b) \in 1 .. n
  OBVIOUS
<1> QED
  BY <1>1, <1>2, <1>3 DEF t

LEMMA PutSends ==
  ASSUME Bytes, Counts, NEW c \in Clients, Put(c)
  PROVE  \E n \in 1 .. left[c] :
           /\ up' = [up EXCEPT ![c] = up[c] \o [i \in 1 .. n |-> logins[c]]]
           /\ left' = [left EXCEPT ![c] = @ - n]
           /\ Bytes'
           /\ upLen' = [upLen EXCEPT ![c] = @ + n]
<1>1. PICK n \in 1 .. Least(left[c], UpMax - Len(up[c])) :
             /\ up' = [up EXCEPT ![c] = @ \o [i \in 1 .. n |-> logins[c]]]
             /\ left' = [left EXCEPT ![c] = @ - n]
  BY DEF Put
<1>2. up[c] \in Seq(Int) /\ left[c] \in Int /\ logins[c] \in Int /\ Len(up[c]) \in Int
  BY DEF Bytes, Counts
<1>3. n \in 1 .. left[c] /\ n \in Nat
  BY <1>2, SizesInt DEF Least
<1> DEFINE r == up[c] \o [i \in 1 .. n |-> logins[c]]
<1>4. r \in Seq(Int) /\ Len(r) = Len(up[c]) + n
  BY <1>2, <1>3, Followed
<1>5. up' = [up EXCEPT ![c] = r]
  BY <1>1
<1> HIDE DEF r
<1>6. Bytes'
  BY <1>4, <1>5 DEF Bytes, Put, cellVars
<1>7. upLen' = [upLen EXCEPT ![c] = @ + n]
  BY <1>4, <1>5 DEF Bytes, upLen
<1> QED
  BY <1>1, <1>3, <1>5, <1>6, <1>7 DEF r

LEMMA PutKeeps == ASSUME Bytes, IInv, NEW c \in Clients, Put(c) PROVE IInv'
<1>1. PICK n \in 1 .. left[c] :
             /\ left' = [left EXCEPT ![c] = @ - n]
             /\ upLen' = [upLen EXCEPT ![c] = @ + n]
  BY PutSends DEF IInv
<1> n \in Int
  OBVIOUS
<1> UNCHANGED <<client, logins, down, lastPos, rets, counters>>
  BY SameCounters DEF Put
<1>2. Counts'
  BY <1>1 DEF IInv, Counts, counters
<1>3. Balanced'
  BY <1>1, Sizes DEF IInv, Counts, Balanced, counters
<1> QED
  BY <1>2, <1>3 DEF IInv

LEMMA LeaveKeeps == ASSUME Bytes, IInv, NEW c \in Clients, Leave(c) PROVE Bytes' /\ IInv'
<1>1. Bytes'
  BY DEF Bytes, Leave, cellVars
<1>2. upLen' \in [Clients -> Int] /\ \A d \in Clients : d # c => upLen'[d] = upLen[d]
  BY <1>1 DEF Bytes, upLen, Leave
<1> UNCHANGED <<logins, lastPos, rets, counters>>
  BY SameCounters DEF Leave
<1>3. /\ left' = [left EXCEPT ![c] = 0] /\ down' = [down EXCEPT ![c] = 0]
      /\ client' = [client EXCEPT ![c] = "gone"]
  BY DEF Leave
<1>4. Counts'
  BY <1>2, <1>3 DEF IInv, Counts, counters
<1>5. Balanced'
  BY <1>2, <1>3 DEF IInv, Counts, Balanced, counters
<1> QED
  BY <1>1, <1>4, <1>5 DEF IInv

----------------------------------------------------------------------------
\* The server's side.

\* The first n of the bytes b on their way come behind those in a.
LEMMA Moved ==
  ASSUME NEW a \in Seq(Int), NEW b \in Seq(Int), NEW n \in 1 .. Len(b)
  PROVE  LET x == a \o SubSeq(b, 1, n)
             y == SubSeq(b, n + 1, Len(b))
         IN  /\ x \in Seq(Int) /\ Len(x) = Len(a) + n
             /\ y \in Seq(Int) /\ Len(y) = Len(b) - n
             /\ \A i \in 1 .. Len(a) + Len(b) : (x \o y)[i] = (a \o b)[i]
<1> DEFINE t == SubSeq(b, 1, n)
           y == SubSeq(b, n + 1, Len(b))
           x == a \o t
<1>1. t \in Seq(Int) /\ Len(t) = n /\ \A i \in 1 .. n : t[i] = b[i]
  OBVIOUS
<1>2. y \in Seq(Int) /\ Len(y) = Len(b) - n /\ \A i \in 1 .. Len(b) - n : y[i] = b[n + i]
  OBVIOUS
<1>3. Len(a) \in Nat /\ Len(b) \in Nat /\ n \in Nat /\ n <= Len(b)
  OBVIOUS
<1> HIDE DEF t, y
<1>4. /\ x \in Seq(Int) /\ Len(x) = Len(a) + n
      /\ \A i \in 1 .. Len(a) + n : x[i] = IF i <= Len(a) THEN a[i] ELSE t[i - Len(a)]
  BY <1>1, Joined
<1>5. \A i \in 1 .. Len(a) + n : i > Len(a) => x[i] = b[i - Len(a)]
  BY <1>1, <1>3, <1>4
<1> HIDE DEF x
<1>6. \A i \in 1 .. Len(a) + Len(b) : (a \o b)[i] = IF i <= Len(a) THEN a[i] ELSE b[i - Len(a)]
  BY Joined
<1>7. Len(x) + Len(y) = Len(a) + Len(b)
  BY <1>2, <1>3, <1>4
<1>8. \A i \in 1 .. Len(a) + Len(b) :
        (x \o y)[i] = IF i <= Len(a) + n THEN x[i] ELSE y[i - (Len(a) + n)]
  <2>1. \A i \in 1 .. Len(x) + Len(y) : (x \o y)[i] = IF i <= Len(x) THEN x[i] ELSE y[i - Len(x)]
    BY <1>2, <1>4, Joined
  <2> QED
    BY <1>4, <1>7, <2>1
<1>9. \A i \in 1 .. Len(a) + Len(b) : (x \o y)[i] = (a \o b)[i]
  <2> SUFFICES ASSUME NEW i \in 1 .. Len(a) + Len(b) PROVE (x \o y)[i] = (a \o b)[i]
    OBVIOUS
  <2>1. CASE i <= Len(a) + n
    <3>1. (x \o y)[i] = x[i]
      BY <1>8, <2>1
    <3> i \in 1 .. Len(a) + n
      BY <1>3, <2>1
    <3>2. CASE i <= Len(a)
      BY <1>4, <1>6, <3>1, <3>2
    <3>3. CASE ~ (i <= Len(a))
      <4>1. i > Len(a)
        BY <1>3, <3>3
      <4> QED
        BY <1>5, <1>6, <3>1, <3>3, <4>1
    <3> QED
      BY <3>2, <3>3
  <2>2. CASE ~ (i <= Len(a) + n)
    <3>1. i - (Len(a) + n) \in 1 .. Len(b) - n
      BY <1>3, <2>2
    <3>2. y[i - (Len(a) + n)] = b[n + (i - (Len(a) + n))]
      BY <1>2, <3>1
    <3>3. n + (i - (Len(a) + n)) = i - Len(a) /\ ~ (i <= Len(a))
      BY <1>3, <2>2
    <3> QED
      BY <1>6, <1>8, <2>2, <3>2, <3>3
  <2> QED
    BY <2>1, <2>2
<1> QED
  BY <1>2, <1>4, <1>9 DEF x, y, t

\* How many bytes recv() takes.
Taken(c) == Least(Len(up[c]), RecvSize - Len(recvMsgBuff[c]))

LEMMA RecvTakes ==
  ASSUME Bytes, NEW c \in Clients, Recv(c)
  PROVE  /\ Taken(c) \in 1 .. Len(up[c])
         /\ recvMsgBuff' = [recvMsgBuff EXCEPT ![c] = recvMsgBuff[c] \o SubSeq(up[c], 1, Taken(c))]
         /\ up' = [up EXCEPT ![c] = SubSeq(up[c], Taken(c) + 1, Len(up[c]))]
         /\ Bytes'
         /\ recvLastPos' = [recvLastPos EXCEPT ![c] = @ + Taken(c)]
         /\ upLen' = [upLen EXCEPT ![c] = @ - Taken(c)]
<1> DEFINE n == Taken(c)
           x == recvMsgBuff[c] \o SubSeq(up[c], 1, n)
           y == SubSeq(up[c], n + 1, Len(up[c]))
<1>1. /\ up[c] # <<>> /\ Len(recvMsgBuff[c]) < RecvSize
      /\ recvMsgBuff' = [recvMsgBuff EXCEPT ![c] = x]
      /\ up' = [up EXCEPT ![c] = y]
  BY DEF Recv, Taken
<1>2. up[c] \in Seq(Int) /\ recvMsgBuff[c] \in Seq(Int)
  BY DEF Bytes
<1>3. Len(up[c]) \in Nat /\ Len(up[c]) >= 1 /\ Len(recvMsgBuff[c]) \in Nat
  BY <1>1, <1>2, EmptySeq
<1>4. n \in 1 .. Len(up[c])
  BY <1>1, <1>3, SizesInt DEF Taken, Least
<1>5. /\ x \in Seq(Int) /\ Len(x) = Len(recvMsgBuff[c]) + n
      /\ y \in Seq(Int) /\ Len(y) = Len(up[c]) - n
  BY <1>2, <1>4, Moved
<1> HIDE DEF n, x, y
<1>6. Bytes'
  BY <1>1, <1>5 DEF Bytes
<1>7. /\ recvLastPos' = [recvLastPos EXCEPT ![c] = @ + n]
      /\ upLen' = [upLen EXCEPT ![c] = @ - n]
  BY <1>1, <1>5 DEF Bytes, recvLastPos, upLen
<1> QED
  BY <1>1, <1>4, <1>6, <1>7 DEF n, x, y

LEMMA RecvKeeps == ASSUME Bytes, IInv, NEW c \in Clients, Recv(c) PROVE IInv'
<1> DEFINE n == Taken(c)
<1>1. n \in Int
  BY RecvTakes DEF IInv
<1>2. /\ upLen' = [upLen EXCEPT ![c] = @ - n]
      /\ recvLastPos' = [recvLastPos EXCEPT ![c] = @ + n]
      /\ UNCHANGED <<clientVars, down, packs, sendLastPos, out>>
  BY RecvTakes DEF Recv
<1> HIDE DEF n
<1>3. Counts'
  BY <1>1, <1>2 DEF IInv, Counts, clientVars
<1>4. Balanced'
  BY <1>1, <1>2, Sizes DEF IInv, Counts, Balanced, clientVars
<1> QED
  BY <1>3, <1>4 DEF IInv

\* Whatever memcpy() makes of b, it is one login shorter.
LEMMA CopiedTyped ==
  ASSUME NEW b \in Seq(Int), NEW n \in Nat, n <= Len(b), NEW r \in Copied(b, n)
  PROVE  r \in Seq(Int) /\ Len(r) = Len(b) - n
<1>1. r \in [1 .. Len(b) - n -> Range(b)]
  BY DEF Copied
<1>2. Range(b) \subseteq Int
  BY DEF Range
<1> DEFINE k == Len(b) - n
<1>3. k \in Nat /\ r \in [1 .. k -> Int]
  BY <1>1, <1>2
<1> HIDE DEF k
<1>4. r \in Seq(Int) /\ Len(r) = k
  BY <1>3
<1> QED
  BY <1>4 DEF k

LEMMA PrcMsgCopies ==
  ASSUME Bytes, NEW c \in Clients, PrcMsg(c)
  PROVE  /\ \E r \in Copied(recvMsgBuff[c], LoginLen) :
              r \in Seq(Int) /\ recvMsgBuff' = [recvMsgBuff EXCEPT ![c] = r]
         /\ Bytes'
         /\ recvLastPos' = [recvLastPos EXCEPT ![c] = @ - LoginLen]
<1>1. PICK r \in Copied(recvMsgBuff[c], LoginLen) : recvMsgBuff' = [recvMsgBuff EXCEPT ![c] = r]
  BY DEF PrcMsg
<1>2. r \in Seq(Int) /\ Len(r) = Len(recvMsgBuff[c]) - LoginLen
  BY Sizes, CopiedTyped DEF PrcMsg, Bytes
<1>3. Bytes'
  BY <1>1, <1>2 DEF Bytes, PrcMsg
<1>4. recvLastPos' = [recvLastPos EXCEPT ![c] = @ - LoginLen]
  BY <1>1, <1>2 DEF Bytes, recvLastPos
<1> QED
  BY <1>1, <1>2, <1>3, <1>4

\* A login is processed: its bytes leave recvMsgBuff, and its reply fills
\* sendMsgBuff, of which full buffers go to out.
LEMMA PrcMsgKeeps == ASSUME Bytes, IInv, NEW c \in Clients, PrcMsg(c) PROVE IInv'
<1> DEFINE n == sendLastPos[c] + RetLen
<1>1. /\ LoginLen \in Int /\ RetLen \in Int /\ SendSize \in Int
      /\ \A d \in Clients : packs[d] \in Int
  BY Sizes DEF IInv, Counts
<1>2. n \in Int
  BY <1>1 DEF IInv, Counts
<1>3. /\ n \div SendSize \in Int /\ n % SendSize \in Int
      /\ n = SendSize * (n \div SendSize) + (n % SendSize)
      /\ n % SendSize < SendSize
  <2> HIDE DEF n
  <2> QED BY <1>2, Sizes, Division
<1>4. /\ out[c] = 0
      /\ recvLastPos' = [recvLastPos EXCEPT ![c] = @ - LoginLen]
      /\ packs' = [packs EXCEPT ![c] = @ + 1]
      /\ UNCHANGED <<clientVars, upLen, down>>
  BY PrcMsgCopies, SameLength DEF PrcMsg
<1> DEFINE sent == SendSize * (n \div SendSize)
           kept == n % SendSize
<1>5. /\ sent \in Int /\ kept \in Int /\ kept < SendSize
      /\ sendLastPos[c] + RetLen = sent + kept
  BY <1>1, <1>3
<1>6. \A d \in Clients : /\ (packs[d] + 1) * LoginLen = packs[d] * LoginLen + LoginLen
                         /\ (packs[d] + 1) * RetLen = packs[d] * RetLen + RetLen
  BY <1>1, Distributes
<1>7. /\ sendLastPos' = [sendLastPos EXCEPT ![c] = kept]
      /\ out' = [out EXCEPT ![c] = sent]
  BY DEF PrcMsg, Sent
<1> HIDE DEF n, sent, kept
<1>8. Counts'
  BY <1>1, <1>4, <1>5, <1>7 DEF IInv, Counts, clientVars
<1>9. ASSUME NEW d \in Clients, client'[d] # "gone"
      PROVE  /\ logins'[d] * LoginLen = packs'[d] * LoginLen + recvLastPos'[d] + upLen'[d] + left'[d]
             /\ packs'[d] * RetLen =
                  rets'[d] * RetLen + lastPos'[d] + down'[d] + out'[d] + sendLastPos'[d]
             /\ sendLastPos'[d] < SendSize /\ lastPos'[d] < RetLen
  <2>1. CASE d # c
    BY <1>4, <1>7, <1>9, <2>1 DEF IInv, Counts, Balanced, clientVars
  <2>2. CASE d = c
    <3>1. /\ packs'[c] = packs[c] + 1 /\ recvLastPos'[c] = recvLastPos[c] - LoginLen
          /\ out[c] = 0 /\ out'[c] = sent /\ sendLastPos'[c] = kept
      BY <1>4, <1>7 DEF IInv, Counts
    <3>2. (packs[c] + 1) * LoginLen = packs[c] * LoginLen + LoginLen
      BY <1>6
    <3>3. (packs[c] + 1) * RetLen = packs[c] * RetLen + RetLen
      BY <1>6
    <3>4. logins'[c] * LoginLen = packs'[c] * LoginLen + recvLastPos'[c] + upLen'[c] + left'[c]
      BY <1>1, <1>4, <1>9, <2>2, <3>1, <3>2 DEF IInv, Counts, Balanced, clientVars
    <3>5. packs'[c] * RetLen =
            rets'[c] * RetLen + lastPos'[c] + down'[c] + out'[c] + sendLastPos'[c]
      BY <1>1, <1>4, <1>5, <1>9, <2>2, <3>1, <3>3 DEF IInv, Counts, Balanced, clientVars
    <3>6. sendLastPos'[c] < SendSize /\ lastPos'[c] < RetLen
      BY <1>4, <1>5, <1>9, <2>2, <3>1 DEF IInv, Balanced, clientVars
    <3> QED
      BY <2>2, <3>4, <3>5, <3>6
  <2> QED
    BY <2>1, <2>2
<1> QED
  BY <1>8, <1>9 DEF IInv, Balanced

LEMMA FlushOutKeeps == ASSUME IInv, NEW c \in Clients, FlushOut(c) PROVE IInv'
<1>1. PICK n \in 1 .. Least(out[c], DownMax - down[c]) :
             /\ down' = [down EXCEPT ![c] = @ + n]
             /\ out' = [out EXCEPT ![c] = @ - n]
  BY DEF FlushOut
<1> n \in Int
  OBVIOUS
<1> UNCHANGED <<upLen, recvLastPos>>
  BY SameLength DEF FlushOut
<1>2. Counts'
  BY <1>1 DEF IInv, Counts, FlushOut, clientVars
<1>3. Balanced'
  BY <1>1, Sizes DEF IInv, Counts, Balanced, FlushOut, clientVars
<1> QED
  BY <1>2, <1>3 DEF IInv

LEMMA FlushFailsKeeps == ASSUME IInv, NEW c \in Clients, FlushFails(c) PROVE IInv'
<1> UNCHANGED <<upLen, recvLastPos>>
  BY SameLength DEF FlushFails
<1>1. Counts'
  BY Sizes DEF IInv, Counts, FlushFails, clientVars
<1>2. Balanced'
  BY DEF IInv, Counts, Balanced, FlushFails, clientVars
<1> QED
  BY <1>1, <1>2 DEF IInv

\* Accept() makes a client that waits for it one that is served.
LEMMA AcceptKeeps == ASSUME IInv, NEW c \in Clients, Accept(c) PROVE IInv'
<1> UNCHANGED <<upLen, counters>>
  BY SameLength, SameCounters DEF Accept
<1>1. Counts'
  BY DEF IInv, Counts, Accept, counters
<1>2. Balanced'
  BY DEF IInv, Counts, Balanced, Accept, counters
<1> QED
  BY <1>1, <1>2 DEF IInv

LEMMA Untouched ==
  ASSUME Bytes, IInv, UNCHANGED <<clientVars, recvMsgBuff, packs, sendLastPos, out, up, down>>
  PROVE  Bytes' /\ IInv'
<1> UNCHANGED <<upLen, recvLastPos>>
  BY SameLength
<1> QED
  BY DEF Bytes, IInv, Counts, Balanced, clientVars

\* What the steps do to a value that is no client the invariant does not see.
LEMMA NoClient ==
  ASSUME Bytes, IInv, NEW c, c \notin Clients, Recv(c) \/ PrcMsg(c) \/ Flush(c)
  PROVE  Bytes' /\ IInv'
<1>1. UNCHANGED clientVars
  BY DEF Recv, PrcMsg, Flush, FlushOut, FlushFails
<1>2. UNCHANGED <<up, down>>
  BY DEF Bytes, IInv, Counts, Recv, PrcMsg, Flush, FlushOut, FlushFails
<1>3. UNCHANGED <<recvMsgBuff, packs, sendLastPos, out>>
  BY DEF Bytes, IInv, Counts, Recv, PrcMsg, Flush, FlushOut, FlushFails
<1> QED
  BY <1>1, <1>2, <1>3, Untouched

LEMMA FlushBytes == ASSUME Bytes, NEW c, Flush(c) PROVE Bytes'
  BY DEF Bytes, Flush, FlushOut, FlushFails

LEMMA OtherBytes ==
  ASSUME Bytes, NEW c, Connect(c) \/ OnRecv(c) \/ OnSend(c) \/ Accept(c)
  PROVE  Bytes'
  BY DEF Bytes, Connect, OnRecv, OnSend, Accept, cellVars

LEMMA RunStepKeeps == ASSUME Bytes, IInv, NEW s \in Servers, RunStep(s) PROVE Bytes' /\ IInv'
<1>1. CASE RecvBegins(s)
  BY <1>1, RecvTakes, RecvKeeps, NoClient DEF RecvBegins
<1>2. CASE Process(s)
  BY <1>2, PrcMsgCopies, PrcMsgKeeps, FlushBytes, FlushOutKeeps, FlushFailsKeeps, NoClient
     DEF Process, Flush
<1>3. CASE Test(s) \/ Wait(s) \/ Select(s) \/ Pass(s)
  BY <1>3, Untouched DEF Test, Wait, Select, Pass, cellVars
<1>4. CASE RecvFailed(s) \/ RecvReturns(s) \/ ProcessEnds(s)
  BY <1>4, Untouched DEF RecvFailed, RecvReturns, ProcessEnds, cellVars
<1> QED
  BY <1>1, <1>2, <1>3, <1>4 DEF RunStep

----------------------------------------------------------------------------

LEMMA InvNext == Bytes /\ IInv /\ [Next]_vars => Bytes' /\ IInv'
<1> SUFFICES ASSUME Bytes, IInv, [Next]_vars PROVE Bytes' /\ IInv'
  OBVIOUS
<1>1. CASE \E c \in Clients : ConnectionStep(c)
  <2>1. PICK c \in Clients : ConnectionStep(c)
    BY <1>1
  <2>2. CASE ClientStep(c)
    BY <2>2, OtherBytes, OnRecvKeeps, OnSendKeeps, PutSends, PutKeeps DEF ClientStep, IInv
  <2>3. CASE Connect(c) \/ Leave(c)
    BY <2>3, OtherBytes, ConnectKeeps, LeaveKeeps
  <2> QED
    BY <2>1, <2>2, <2>3 DEF ConnectionStep, ClientProceeds
<1>2. CASE AcceptStep
  BY <1>2, OtherBytes, AcceptKeeps, Untouched DEF AcceptStep, AddClient, cellVars
<1>3. CASE \E s \in Servers : RunStep(s)
  BY <1>3, RunStepKeeps
<1>4. CASE UNCHANGED vars
  BY <1>4, Untouched DEF vars, cellVars
<1> QED
  BY <1>1, <1>2, <1>3, <1>4 DEF Next

----------------------------------------------------------------------------
\* Which login a byte is of.

\* What the server has or is about to receive of a client, in order.
Stream(c) == recvMsgBuff[c] \o up[c]

\* Byte k of all that a client sends is of its login q.
Within(q, k) == (q - 1) * LoginLen < k /\ k <= q * LoginLen

InOrder ==
  \A c \in Clients : c \notin overlapped =>
    \A i \in 1 .. Len(recvMsgBuff[c]) + Len(up[c]) :
      Within(Stream(c)[i], packs[c] * LoginLen + i)

LeftBounded == \A c \in Clients : left[c] \in 0 .. LoginLen

MixedOverlapped == \A c \in Clients : c \in mixed => c \in overlapped

Contents == InOrder /\ LeftBounded /\ MixedOverlapped

LEMMA Monotone ==
  ASSUME NEW a \in Int, NEW b \in Int, NEW k \in Nat \ {0}, a < b
  PROVE  a * k + k <= b * k
<1> DEFINE d == b - a - 1
<1>1. d \in Nat /\ b = (a + 1) + d
  OBVIOUS
<1> HIDE DEF d
<1>2. k * d >= 0
  BY <1>1
<1>3. ((a + 1) + d) * k = (a + 1) * k + k * d
  BY <1>1, Distributes
<1>4. (a + 1) * k = a * k + k
  BY Distributes
<1> DEFINE x == k * d
           y == a * k
<1>5. x \in Int /\ y \in Int
  BY <1>1
<1> QED
  BY <1>1, <1>2, <1>3, <1>4, <1>5

LEMMA OneLogin ==
  ASSUME NEW p \in Int, NEW q \in Int, NEW k \in Int, Within(p, k), Within(q, k)
  PROVE  p = q
<1> DEFINE x == (p - 1) * LoginLen
           y == (q - 1) * LoginLen
           u == p * LoginLen
           v == q * LoginLen
<1>1. x \in Int /\ y \in Int /\ u \in Int /\ v \in Int
  BY Sizes
<1>2. x < k /\ k <= u /\ y < k /\ k <= v
  BY DEF Within
<1>3. p < q => u + LoginLen <= v /\ u <= y
  <2> SUFFICES ASSUME p < q PROVE u + LoginLen <= v /\ u <= y
    OBVIOUS
  <2>1. u + LoginLen <= v
    BY Sizes, Monotone
  <2>2. CASE p < q - 1
    <3>1. u + LoginLen <= y
      BY <2>2, Sizes, Monotone
    <3> QED
      BY <1>1, <2>1, <3>1, Sizes
  <2>3. CASE p = q - 1
    BY <1>1, <2>1, <2>3
  <2> QED
    BY <2>2, <2>3
<1>4. q < p => v <= x
  <2> SUFFICES ASSUME q < p PROVE v <= x
    OBVIOUS
  <2>1. CASE q < p - 1
    <3>1. v + LoginLen <= x
      BY <2>1, Sizes, Monotone
    <3> QED
      BY <1>1, <3>1, Sizes
  <2>2. CASE q = p - 1
    BY <1>1, <2>2
  <2> QED
    BY <2>1, <2>2
<1> HIDE DEF x, y, u, v
<1> QED
  BY <1>1, <1>2, <1>3, <1>4

\* Between one and two lengths, a whole number of lengths is one.
LEMMA OneLength ==
  ASSUME NEW x \in Int, NEW k \in Nat \ {0}, k <= x, x < k + k, x % k = 0
  PROVE  x = k
<1> DEFINE q == x \div k
<1>1. q \in Int /\ x = k * q
  BY Division
<1> HIDE DEF q
<1>2. ~ (q < 1)
  <2> SUFFICES ASSUME q < 1 PROVE FALSE
    OBVIOUS
  <2>1. q * k + k <= 1 * k
    BY <1>1, Monotone
  <2> QED
    BY <1>1, <2>1
<1>3. ~ (1 < q)
  <2> SUFFICES ASSUME 1 < q PROVE FALSE
    OBVIOUS
  <2>1. 1 * k + k <= q * k
    BY <1>1, Monotone
  <2> QED
    BY <1>1, <2>1
<1>4. q = 1
  BY <1>1, <1>2, <1>3
<1> QED
  BY <1>1, <1>4

\* As long as memcpy() does not overlap it moves every byte by a length.
LEMMA CopiedExact ==
  ASSUME NEW b \in Seq(Int), NEW n \in Nat \ {0}, n <= Len(b), Len(b) <= 2 * n,
         NEW r \in Copied(b, n), NEW i \in 1 .. Len(b) - n
  PROVE  r[i] = b[i + n]
<1>1. DOMAIN r = 1 .. Len(b) - n
  BY DEF Copied
<1>2. PICK j \in i + n .. Len(b) : (j - i) % n = 0 /\ r[i] = b[j]
  BY <1>1 DEF Copied
<1>3. Len(b) \in Nat
  OBVIOUS
<1>4. j - i \in Int /\ n <= j - i /\ j - i < n + n
  BY <1>2, <1>3
<1>5. j - i = n
  BY <1>2, <1>4, OneLength
<1>6. j = i + n
  BY <1>2, <1>5
<1> QED
  BY <1>2, <1>6

LEMMA StreamIs ==
  ASSUME Bytes, NEW c \in Clients
  PROVE  /\ recvMsgBuff[c] \in Seq(Int) /\ up[c] \in Seq(Int)
         /\ Len(recvMsgBuff[c]) \in Nat /\ Len(up[c]) \in Nat
         /\ \A i \in 1 .. Len(recvMsgBuff[c]) + Len(up[c]) :
              /\ Stream(c)[i] \in Int
              /\ Stream(c)[i] = IF i <= Len(recvMsgBuff[c]) THEN recvMsgBuff[c][i]
                                ELSE up[c][i - Len(recvMsgBuff[c])]
<1>1. recvMsgBuff[c] \in Seq(Int) /\ up[c] \in Seq(Int)
  BY DEF Bytes
<1>2. Stream(c) \in Seq(Int) /\ Len(Stream(c)) = Len(recvMsgBuff[c]) + Len(up[c])
  BY <1>1, Joined DEF Stream
<1>3. \A i \in 1 .. Len(Stream(c)) : Stream(c)[i] \in Int
  <2> DEFINE t == Stream(c)
  <2>1. t \in Seq(Int)
    BY <1>2
  <2> HIDE DEF t
  <2>2. \A i \in 1 .. Len(t) : t[i] \in Int
    BY <2>1
  <2> QED
    BY <2>2 DEF t
<1>4. \A i \in 1 .. Len(recvMsgBuff[c]) + Len(up[c]) :
        Stream(c)[i] = IF i <= Len(recvMsgBuff[c]) THEN recvMsgBuff[c][i]
                       ELSE up[c][i - Len(recvMsgBuff[c])]
  BY <1>1, Joined DEF Stream
<1>5. Len(recvMsgBuff[c]) \in Nat /\ Len(up[c]) \in Nat
  BY <1>1
<1> QED
  BY <1>1, <1>2, <1>3, <1>4, <1>5

\* A client whose bytes a step leaves alone.
LEMMA SameStream ==
  ASSUME Contents, NEW c \in Clients, c \notin overlapped,
         recvMsgBuff'[c] = recvMsgBuff[c], up'[c] = up[c], packs'[c] = packs[c],
         NEW i \in 1 .. Len(recvMsgBuff'[c]) + Len(up'[c])
  PROVE  Within(Stream(c)'[i], packs'[c] * LoginLen + i)
<1>1. Stream(c)' = Stream(c)
  BY DEF Stream
<1>2. i \in 1 .. Len(recvMsgBuff[c]) + Len(up[c])
  OBVIOUS
<1> QED
  BY <1>1, <1>2 DEF Contents, InOrder

LEMMA SameContents ==
  ASSUME Contents, UNCHANGED <<recvMsgBuff, up, packs, overlapped, mixed>>, LeftBounded'
  PROVE  Contents'
<1>1. InOrder'
  BY SameStream DEF InOrder
<1>2. MixedOverlapped'
  BY DEF Contents, MixedOverlapped
<1> QED
  BY <1>1, <1>2 DEF Contents

LEMMA PutOrders == ASSUME Bytes, IInv, Contents, NEW c \in Clients, Put(c) PROVE Contents'
<1>1. PICK n \in 1 .. left[c] :
             /\ up' = [up EXCEPT ![c] = up[c] \o [i \in 1 .. n |-> logins[c]]]
             /\ left' = [left EXCEPT ![c] = @ - n]
  BY PutSends DEF IInv
<1> DEFINE b == recvMsgBuff[c]
           u == up[c]
           v == u \o [i \in 1 .. n |-> logins[c]]
           L == LoginLen
<1>2. left[c] \in 0 .. L /\ left \in [Clients -> Int] /\ logins[c] \in Int /\ packs[c] \in Int /\ L \in Nat \ {0}
  BY Sizes DEF Contents, LeftBounded, IInv, Counts
<1>3. n \in Nat /\ n >= 1 /\ n <= left[c] /\ left[c] <= L
  BY <1>2
<1>4. b \in Seq(Int) /\ u \in Seq(Int) /\ Len(b) \in Nat /\ Len(u) \in Nat
  BY StreamIs
<1>5. /\ v \in Seq(Int) /\ Len(v) = Len(u) + n
      /\ \A i \in 1 .. Len(u) + n : v[i] = IF i <= Len(u) THEN u[i] ELSE logins[c]
  BY <1>2, <1>3, <1>4, Followed
<1>6. /\ UNCHANGED <<client, logins, recvMsgBuff, packs, overlapped, mixed>>
      /\ client[c] # "gone"
  BY DEF Put, cellVars
<1>7. logins[c] * L = packs[c] * L + Len(b) + Len(u) + left[c]
  BY <1>6 DEF IInv, Balanced, recvLastPos, upLen
<1>8. (logins[c] - 1) * L = logins[c] * L - L
  <2> DEFINE m == logins[c] - 1
  <2>1. m \in Int /\ logins[c] = m + 1
    BY <1>2
  <2> HIDE DEF m
  <2>2. (m + 1) * L = m * L + L /\ m * L \in Int
    BY <1>2, <2>1, Distributes
  <2>3. logins[c] * L = m * L + L
    BY <2>1, <2>2
  <2> HIDE DEF L
  <2>4. m * L = logins[c] * L - L
    BY <1>2, <2>2, <2>3
  <2> QED
    BY <2>4 DEF m
<1>9. up'[c] = v
  BY <1>1 DEF Bytes
<1>10. \A d \in Clients : d # c => up'[d] = up[d] /\ left'[d] = left[d]
  BY <1>1, <1>2 DEF Bytes
<1> DEFINE x == packs[c] * L
           y == logins[c] * L
<1>11. x \in Int /\ y \in Int
  BY <1>2
<1> DEFINE lb == Len(b)
           lu == Len(u)
<1>110. lb \in Nat /\ lu \in Nat /\ y = x + lb + lu + left[c]
  BY <1>4, <1>7
<1>12. ASSUME c \notin overlapped, NEW i \in 1 .. lb + (lu + n)
       PROVE  Within((b \o v)[i], packs[c] * LoginLen + i)
  <2>1. (b \o v)[i] = IF i <= lb THEN b[i] ELSE v[i - lb]
    <3> HIDE DEF b, v, u
    <3> QED
      BY <1>4, <1>5, Joined
  <2>2. CASE i <= lb + lu
    <3>1. i \in 1 .. lb + lu
      <4> HIDE DEF lb, lu
      <4> QED
        BY <1>110, <2>2
    <3>2. Stream(c)[i] = IF i <= lb THEN b[i] ELSE u[i - lb]
      BY <3>1, StreamIs
    <3>3. ~ (i <= lb) => i - lb \in 1 .. lu + n /\ i - lb <= lu
      <4> HIDE DEF lb, lu
      <4> QED
        BY <1>3, <1>110, <2>2
    <3>4. ~ (i <= lb) => v[i - lb] = u[i - lb]
      BY <1>5, <3>3
    <3>5. (b \o v)[i] = Stream(c)[i]
      <4> HIDE DEF lb, lu, b, u, v
      <4> QED
        BY <2>1, <3>2, <3>4
    <3> QED
      BY <1>12, <3>1, <3>5 DEF Contents, InOrder
  <2>3. CASE ~ (i <= lb + lu)
    <3>1. /\ ~ (i <= lb) /\ i - lb \in 1 .. lu + n /\ ~ (i - lb <= lu)
          /\ i <= lb + lu + n /\ i >= lb + lu + 1 /\ i \in Int
      <4> HIDE DEF lb, lu
      <4> QED
        BY <1>3, <1>110, <2>3
    <3>2. (b \o v)[i] = logins[c]
      BY <1>5, <2>1, <3>1
    <3>3. y - L < x + i /\ x + i <= y
      <4> HIDE DEF x, y, lb, lu, L
      <4> QED
        BY <1>2, <1>3, <1>11, <1>110, <3>1
    <3> QED
      BY <1>8, <3>2, <3>3 DEF Within
  <2> QED
    BY <2>2, <2>3
<1>13. InOrder'
  <2> SUFFICES ASSUME NEW d \in Clients, d \notin overlapped',
                      NEW i \in 1 .. Len(recvMsgBuff'[d]) + Len(up'[d])
               PROVE  Within(Stream(d)'[i], packs'[d] * LoginLen + i)
    BY DEF InOrder
  <2>1. CASE d # c
    BY <1>6, <1>10, <2>1, SameStream
  <2>2. CASE d = c
    <3>1. recvMsgBuff'[d] = b /\ packs'[d] = packs[c] /\ Stream(d)' = b \o v /\ c \notin overlapped
      BY <1>6, <1>9, <2>2 DEF Stream
    <3>2. i \in 1 .. Len(b) + (Len(u) + n)
      BY <1>5, <1>9, <2>2, <3>1
    <3> QED
      BY <1>12, <3>1, <3>2
  <2> QED
    BY <2>1, <2>2
<1>14. LeftBounded'
  <2>1. left'[c] = left[c] - n
    BY <1>1, <1>2
  <2>2. left'[c] \in 0 .. LoginLen
    BY <1>2, <1>3, <2>1
  <2> QED
    BY <1>10, <2>2 DEF Contents, LeftBounded
<1> QED
  BY <1>6, <1>13, <1>14 DEF Contents, MixedOverlapped

LEMMA OnSendOrders == ASSUME IInv, Contents, NEW c \in Clients, OnSend(c) PROVE Contents'
<1>1. LeftBounded'
  BY Sizes DEF Contents, LeftBounded, IInv, Counts, OnSend
<1> QED
  BY <1>1, SameContents DEF OnSend, cellVars

LEMMA LeaveOrders == ASSUME Bytes, IInv, Contents, NEW c \in Clients, Leave(c) PROVE Contents'
<1>1. /\ UNCHANGED <<recvMsgBuff, packs, overlapped, mixed>>
      /\ left' = [left EXCEPT ![c] = 0]
      /\ up' = [up EXCEPT ![c] = <<>>] \/ UNCHANGED up
  BY DEF Leave, cellVars, Bytes
<1>2. LeftBounded'
  BY <1>1, Sizes DEF Contents, LeftBounded, IInv, Counts
<1>3. CASE UNCHANGED up
  BY <1>1, <1>2, <1>3, SameContents
<1>4. CASE up' = [up EXCEPT ![c] = <<>>]
  <2>1. Bytes'
    BY LeaveKeeps
  <2>2. InOrder'
    <3> SUFFICES ASSUME NEW d \in Clients, d \notin overlapped',
                        NEW i \in 1 .. Len(recvMsgBuff'[d]) + Len(up'[d])
                 PROVE  Within(Stream(d)'[i], packs'[d] * LoginLen + i)
      BY DEF InOrder
    <3>1. CASE d # c
      BY <1>1, <1>4, <3>1, SameStream DEF Bytes
    <3>2. CASE d = c
      <4> DEFINE lb == Len(recvMsgBuff[c])
                 lu == Len(up[c])
      <4>1. up'[c] = <<>> /\ recvMsgBuff'[c] = recvMsgBuff[c] /\ Len(up'[c]) = 0
        BY <1>1, <1>4 DEF Bytes
      <4>2. lb \in Nat /\ lu \in Nat /\ i \in 1 .. lb + 0
        BY <3>2, <4>1, StreamIs
      <4>3. i \in 1 .. lb /\ i \in 1 .. lb + lu /\ i <= lb
        <5> HIDE DEF lb, lu
        <5> QED
          BY <4>2
      <4>4. Stream(c)[i] = recvMsgBuff[c][i]
        BY <4>3, StreamIs
      <4>5. recvMsgBuff[c] \in Seq(Int) /\ <<>> \in Seq(Int)
        BY DEF Bytes
      <4>6. Stream(c)'[i] = recvMsgBuff[c][i]
        <5>1. Stream(c)' = recvMsgBuff[c] \o <<>>
          BY <4>1 DEF Stream
        <5> QED
          BY <4>3, <4>5, <5>1, Joined
      <4> QED
        BY <1>1, <3>2, <4>3, <4>4, <4>6 DEF Contents, InOrder
    <3> QED
      BY <3>1, <3>2
  <2> QED
    BY <1>1, <1>2, <2>2 DEF Contents, MixedOverlapped
<1> QED
  BY <1>1, <1>3, <1>4

LEMMA RecvOrders == ASSUME Bytes, IInv, Contents, NEW c \in Clients, Recv(c) PROVE Contents'
<1> DEFINE n == Taken(c)
           x == recvMsgBuff[c] \o SubSeq(up[c], 1, n)
           y == SubSeq(up[c], n + 1, Len(up[c]))
           lb == Len(recvMsgBuff[c])
           lu == Len(up[c])
<1>1. /\ n \in 1 .. lu
      /\ recvMsgBuff' = [recvMsgBuff EXCEPT ![c] = x]
      /\ up' = [up EXCEPT ![c] = y]
  BY RecvTakes
<1>2. lb \in Nat /\ lu \in Nat /\ recvMsgBuff[c] \in Seq(Int) /\ up[c] \in Seq(Int)
  BY StreamIs
<1>3. /\ Len(x) = lb + n /\ Len(y) = lu - n
      /\ \A i \in 1 .. lb + lu : (x \o y)[i] = Stream(c)[i]
  BY <1>1, <1>2, Moved DEF Stream
<1>4. UNCHANGED <<left, packs, overlapped, mixed>>
  BY DEF Recv, clientVars
<1>5. recvMsgBuff'[c] = x /\ up'[c] = y
  BY <1>1 DEF Bytes
<1>6. \A d \in Clients : d # c => recvMsgBuff'[d] = recvMsgBuff[d] /\ up'[d] = up[d]
  BY <1>1 DEF Bytes
<1>7. InOrder'
  <2> SUFFICES ASSUME NEW d \in Clients, d \notin overlapped',
                      NEW i \in 1 .. Len(recvMsgBuff'[d]) + Len(up'[d])
               PROVE  Within(Stream(d)'[i], packs'[d] * LoginLen + i)
    BY DEF InOrder
  <2>1. CASE d # c
    BY <1>4, <1>6, <2>1, SameStream
  <2>2. CASE d = c
    <3>1. i \in 1 .. (lb + n) + (lu - n)
      BY <1>3, <1>5, <2>2
    <3>2. i \in 1 .. lb + lu
      <4> HIDE DEF lb, lu, n
      <4> QED
        BY <1>1, <1>2, <3>1
    <3>3. Stream(d)' = x \o y
      BY <1>5, <2>2 DEF Stream
    <3> QED
      BY <1>3, <1>4, <2>2, <3>2, <3>3 DEF Contents, InOrder
  <2> QED
    BY <2>1, <2>2
<1> QED
  BY <1>4, <1>7 DEF Contents, LeftBounded, MixedOverlapped

\* The login processed is the next that was sent, and what moves up behind it
\* follows; unless memcpy() overlaps, now or before.
LEMMA PrcMsgOrders == ASSUME Bytes, IInv, Contents, NEW c \in Clients, PrcMsg(c) PROVE Contents'
<1> DEFINE b == recvMsgBuff[c]
           u == up[c]
           lb == Len(b)
           lu == Len(u)
           L == LoginLen
           x == packs[c] * L
<1>1. PICK r \in Copied(b, L) : r \in Seq(Int) /\ recvMsgBuff' = [recvMsgBuff EXCEPT ![c] = r]
  BY PrcMsgCopies
<1>2. /\ lb \in Nat /\ lu \in Nat /\ b \in Seq(Int) /\ u \in Seq(Int)
      /\ L \in Nat \ {0} /\ L <= lb /\ packs[c] \in Int /\ x \in Int
  <2>1. lb \in Nat /\ lu \in Nat /\ b \in Seq(Int) /\ u \in Seq(Int)
    BY StreamIs
  <2>2. L \in Nat \ {0} /\ packs[c] \in Int
    BY Sizes DEF IInv, Counts
  <2>3. L <= lb
    BY <2>1, <2>2 DEF PrcMsg
  <2>4. x \in Int
    BY <2>2
  <2> QED
    BY <2>1, <2>2, <2>3, <2>4
<1>3. /\ UNCHANGED <<left, up>>
      /\ packs' = [packs EXCEPT ![c] = @ + 1]
      /\ overlapped' = IF lb > 2 * L THEN overlapped \cup {c} ELSE overlapped
      /\ mixed' = IF \A i \in 1 .. L : b[i] = packs[c] + 1 THEN mixed ELSE mixed \cup {c}
  BY DEF PrcMsg, clientVars
<1>4. packs'[c] = packs[c] + 1 /\ \A d \in Clients : d # c => packs'[d] = packs[d]
  BY <1>3 DEF IInv, Counts
<1>5. recvMsgBuff'[c] = r /\ \A d \in Clients : d # c => recvMsgBuff'[d] = recvMsgBuff[d]
  BY <1>1 DEF Bytes
<1>6. (packs[c] + 1) * L = x + L
  BY <1>2, Distributes
<1>7. MixedOverlapped'
  <2>1. ASSUME c \notin overlapped PROVE \A i \in 1 .. L : b[i] = packs[c] + 1
    <3> SUFFICES ASSUME NEW i \in 1 .. L PROVE b[i] = packs[c] + 1
      OBVIOUS
    <3>1. i \in 1 .. lb /\ i \in 1 .. lb + lu /\ i <= lb
      <4> HIDE DEF lb, lu, L
      <4> QED
        BY <1>2
    <3>2. Stream(c)[i] = b[i] /\ b[i] \in Int
      BY <3>1, StreamIs
    <3>3. Within(b[i], x + i)
      BY <2>1, <3>1, <3>2 DEF Contents, InOrder
    <3>4. Within(packs[c] + 1, x + i)
      <4>1. (packs[c] + 1) - 1 = packs[c]
        BY <1>2
      <4>2. x < x + i /\ x + i <= x + L
        <5> HIDE DEF x, L
        <5> QED
          BY <1>2
      <4> QED
        BY <1>6, <4>1, <4>2 DEF Within
    <3>5. packs[c] + 1 \in Int /\ x + i \in Int
      <4> HIDE DEF x, L
      <4> QED
        BY <1>2
    <3> QED
      BY <3>2, <3>3, <3>4, <3>5, OneLogin
  <2>2. overlapped \subseteq overlapped'
    BY <1>3
  <2> QED
    BY <1>3, <2>1, <2>2 DEF Contents, MixedOverlapped
<1>8. ASSUME c \notin overlapped', NEW i \in 1 .. (lb - L) + lu
      PROVE  Within((r \o u)[i], (x + L) + i)
  <2>1. c \notin overlapped /\ lb <= 2 * L
    BY <1>2, <1>3, <1>8
  <2>2. Len(r) = lb - L
    BY <1>2, CopiedTyped
  <2>3. (r \o u)[i] = IF i <= lb - L THEN r[i] ELSE u[i - (lb - L)]
    <3>1. \A j \in 1 .. Len(r) + lu : (r \o u)[j] = IF j <= Len(r) THEN r[j] ELSE u[j - Len(r)]
      BY <1>1, <1>2, Joined
    <3> QED
      BY <2>2, <3>1
  <2>4. i + L \in 1 .. lb + lu
    <3> HIDE DEF lb, lu, L
    <3> QED
      BY <1>2
  <2>5. Stream(c)[i + L] = IF i + L <= lb THEN b[i + L] ELSE u[(i + L) - lb]
    BY <2>4, StreamIs
  <2>6. (r \o u)[i] = Stream(c)[i + L]
    <3>1. CASE i <= lb - L
      <4>1. i \in 1 .. lb - L /\ i + L <= lb
        <5> HIDE DEF lb, lu, L
        <5> QED
          BY <1>2, <3>1
      <4>2. r[i] = b[i + L]
        BY <1>1, <1>2, <2>1, <4>1, CopiedExact
      <4> QED
        BY <2>3, <2>5, <3>1, <4>1, <4>2
    <3>2. CASE ~ (i <= lb - L)
      <4>1. ~ (i + L <= lb) /\ i - (lb - L) = (i + L) - lb
        <5> HIDE DEF lb, lu, L
        <5> QED
          BY <1>2, <3>2
      <4> QED
        BY <2>3, <2>5, <3>2, <4>1
    <3> QED
      BY <3>1, <3>2
  <2>7. x + (i + L) = (x + L) + i
    <3> HIDE DEF x, L, lb, lu
    <3> QED
      BY <1>2
  <2>8. Within(Stream(c)[i + L], x + (i + L))
    BY <2>1, <2>4 DEF Contents, InOrder
  <2> QED
    BY <2>6, <2>7, <2>8
<1>9. InOrder'
  <2> SUFFICES ASSUME NEW d \in Clients, d \notin overlapped',
                      NEW i \in 1 .. Len(recvMsgBuff'[d]) + Len(up'[d])
               PROVE  Within(Stream(d)'[i], packs'[d] * LoginLen + i)
    BY DEF InOrder
  <2>1. CASE d # c
    <3>1. d \notin overlapped
      BY <1>3
    <3> QED
      BY <1>3, <1>4, <1>5, <2>1, <3>1, SameStream
  <2>2. CASE d = c
    <3>1. Stream(d)' = r \o u /\ Len(r) = lb - L
      BY <1>2, <1>3, <1>5, <2>2, CopiedTyped DEF Stream
    <3>2. i \in 1 .. (lb - L) + lu
      BY <1>3, <1>5, <2>2, <3>1
    <3>3. packs'[d] * LoginLen = x + L
      BY <1>4, <1>6, <2>2
    <3> QED
      BY <1>8, <2>2, <3>1, <3>2, <3>3
  <2> QED
    BY <2>1, <2>2
<1> QED
  BY <1>3, <1>7, <1>9 DEF Contents, LeftBounded

LEMMA FlushOrders == ASSUME Contents, NEW c, Flush(c) PROVE Contents'
<1>1. UNCHANGED <<recvMsgBuff, up, packs, overlapped, mixed, left>>
  BY DEF Flush, FlushOut, FlushFails, clientVars
<1> QED
  BY <1>1, SameContents DEF Contents, LeftBounded

\* What the steps do to a value that is no client.
LEMMA NoClientOrders ==
  ASSUME Bytes, IInv, Contents, NEW c, c \notin Clients, Recv(c) \/ PrcMsg(c)
  PROVE  Contents'
<1>1. UNCHANGED <<left, recvMsgBuff, up, packs>>
  BY DEF Bytes, IInv, Counts, Recv, PrcMsg, clientVars
<1>2. \A d \in Clients : /\ d \in overlapped' <=> d \in overlapped
                         /\ d \in mixed' <=> d \in mixed
  BY DEF Recv, PrcMsg
<1>3. InOrder'
  BY <1>1, <1>2, SameStream DEF InOrder
<1> QED
  BY <1>1, <1>2, <1>3 DEF Contents, LeftBounded, MixedOverlapped

LEMMA SameOrders ==
  ASSUME Contents, UNCHANGED <<left, up, cellVars>> PROVE Contents'
<1>1. LeftBounded'
  BY DEF Contents, LeftBounded
<1> QED
  BY <1>1, SameContents DEF cellVars

LEMMA ContentsInit == Init => Contents
<1> SUFFICES ASSUME Init PROVE Contents
  OBVIOUS
<1>1. \A c \in Clients : recvMsgBuff[c] = <<>> /\ up[c] = <<>> /\ left[c] = 0
  BY DEF Init, CellInit
<1>2. InOrder
  <2>1. \A c \in Clients : Len(recvMsgBuff[c]) = 0 /\ Len(up[c]) = 0
    BY <1>1
  <2>2. ASSUME NEW c \in Clients, NEW i \in 1 .. Len(recvMsgBuff[c]) + Len(up[c]) PROVE FALSE
    <3>1. i \in 1 .. 0 + 0
      BY <2>1
    <3> QED
      BY <3>1
  <2> QED
    BY <2>2 DEF InOrder
<1>3. MixedOverlapped
  BY DEF Init, CellInit, MixedOverlapped
<1> QED
  BY <1>1, <1>2, <1>3, Sizes DEF Contents, LeftBounded

LEMMA RunStepOrders ==
  ASSUME Bytes, IInv, Contents, NEW s \in Servers, RunStep(s) PROVE Contents'
<1>1. CASE RecvBegins(s)
  BY <1>1, RecvOrders, NoClientOrders DEF RecvBegins
<1>2. CASE Process(s)
  BY <1>2, PrcMsgOrders, FlushOrders, NoClientOrders DEF Process
<1>3. CASE Test(s) \/ Wait(s) \/ Select(s) \/ Pass(s)
  BY <1>3, SameOrders DEF Test, Wait, Select, Pass, clientVars
<1>4. CASE RecvFailed(s) \/ RecvReturns(s) \/ ProcessEnds(s)
  BY <1>4, SameOrders DEF RecvFailed, RecvReturns, ProcessEnds, clientVars
<1> QED
  BY <1>1, <1>2, <1>3, <1>4 DEF RunStep

LEMMA ContentsNext == Bytes /\ IInv /\ Contents /\ [Next]_vars => Contents'
<1> SUFFICES ASSUME Bytes, IInv, Contents, [Next]_vars PROVE Contents'
  OBVIOUS
<1>1. CASE \E c \in Clients : ConnectionStep(c)
  <2>1. PICK c \in Clients : ConnectionStep(c)
    BY <1>1
  <2>2. CASE OnSend(c) \/ Put(c) \/ Leave(c)
    BY <2>2, OnSendOrders, PutOrders, LeaveOrders
  <2>3. CASE OnRecv(c) \/ Connect(c)
    BY <2>3, SameOrders DEF OnRecv, Connect
  <2> QED
    BY <2>1, <2>2, <2>3 DEF ConnectionStep, ClientProceeds, ClientStep
<1>2. CASE AcceptStep
  BY <1>2, SameOrders DEF AcceptStep, AddClient, Accept, clientVars
<1>3. CASE \E s \in Servers : RunStep(s)
  BY <1>3, RunStepOrders
<1>4. CASE UNCHANGED vars
  BY <1>4, SameOrders DEF vars, clientVars
<1> QED
  BY <1>1, <1>2, <1>3, <1>4 DEF Next

\* Framing, for all sizes and windows that satisfy WindowAssumption: send() and
\* recv() cut the two streams anywhere, in SendMsg(), in RecvMsg() of both sides
\* and between, no byte is lost, replies come whole, and the logins processed
\* are those sent, in order, of every client for which the memcpy() of RecvMsg()
\* never overlapped.
THEOREM Framing == Spec => []FramesKept
<1>1. Init => Bytes /\ IInv /\ Contents
  BY InvInit, ContentsInit
<1>2. Bytes /\ IInv /\ Contents /\ [Next]_vars => (Bytes /\ IInv /\ Contents)'
  BY InvNext, ContentsNext
<1>3. Bytes /\ IInv /\ Contents => FramesKept
  BY DEF IInv, Balanced, Contents, MixedOverlapped, FramesKept, recvLastPos, upLen
<1> QED
  BY <1>1, <1>2, <1>3, PTL DEF Spec

----------------------------------------------------------------------------
\* Where a client is.

\* The clients of each server, in the order in which it will have them.
Held == [s \in Servers |-> clients[s] \o clientsBuff[s]]

PlacesTyped ==
  /\ clients \in [Servers -> Seq(Clients)] /\ clientsBuff \in [Servers -> Seq(Clients)]
  /\ clientsNum \in [Servers -> Int]
  /\ adding = None \/ adding \in [client : Clients, server : Servers]

IterTyped ==
  /\ DOMAIN pc = Servers /\ iter \in [Servers -> Nat]
  /\ \A s \in Servers : pc[s] \in {"process", "recv"} => iter[s] >= 1

ListsTyped == PlacesTyped /\ IterTyped /\ DOMAIN client = Clients

Counted ==
  \A s \in Servers :
    clientsNum[s] = Len(clients[s]) + Len(clientsBuff[s])
                      + (IF adding # None /\ adding.server = s THEN 1 ELSE 0)

\* No two places in the lists hold one client.
Placed ==
  \A s, u \in Servers : \A i \in DOMAIN Held[s], j \in DOMAIN Held[u] :
    Held[s][i] = Held[u][j] => s = u /\ i = j

Accepted(c) == client[c] \in {"run", "gone"}

\* Whom a server has, or is about to get, was accepted; it is not about to get
\* one that is in a list.
Served ==
  /\ \A s \in Servers : \A i \in DOMAIN Held[s] : Accepted(Held[s][i])
  /\ adding # None =>
       /\ Accepted(adding.client)
       /\ \A s \in Servers : \A i \in DOMAIN Held[s] : Held[s][i] # adding.client

LInv == ListsTyped /\ Counted /\ Placed /\ Served

\* The last of the servers that have fewer clients is one of them.
LEMMA MaxIn ==
  ASSUME NEW n \in Nat, NEW S \in SUBSET (1 .. n), S # {}
  PROVE  Max(S) \in S
<1> DEFINE T == {n - i : i \in S}
<1>1. T \subseteq Nat /\ T # {}
  <2>1. T \subseteq Nat
    OBVIOUS
  <2>2. PICK i \in S : TRUE
    OBVIOUS
  <2>3. n - i \in T
    OBVIOUS
  <2> QED
    BY <2>1, <2>3
<1>2. PICK m \in T : \A y \in T : ~ (<<y, m>> \in OpToRel(<, Nat))
  <2> HIDE DEF T
  <2> QED
    BY <1>1, NatLessThanWellFounded, WFMin
<1>3. \A y \in T : ~ (y < m)
  BY <1>1, <1>2 DEF OpToRel
<1>4. \A y \in S : n - m >= y
  BY <1>1, <1>3
<1>5. n - m \in S
  BY <1>1
<1>6. \E x \in S : \A y \in S : x >= y
  BY <1>4, <1>5
<1> QED
  BY <1>6 DEF Max

LEMMA ChosenIsServer == Chosen \in Servers
<1> DEFINE fewer == {i \in DOMAIN Order : clientsNum[Order[i]] < clientsNum[Order[1]]}
<1>1. DOMAIN Order = 1 .. Len(Order) /\ Len(Order) \in Nat \ {0} /\ \A i \in DOMAIN Order : Order[i] \in Servers
  BY ServersAssumption, EmptySeq
<1>2. CASE fewer = {}
  BY <1>1, <1>2 DEF Chosen
<1>3. CASE fewer # {}
  <2>1. fewer \in SUBSET (1 .. Len(Order))
    BY <1>1
  <2>2. Max(fewer) \in fewer
    BY <1>1, <1>3, <2>1, MaxIn
  <2> QED
    BY <1>1, <1>3, <2>2 DEF Chosen
<1> QED
  BY <1>2, <1>3

\* erase(): the other elements keep their order.
LEMMA RemoveAtProperties ==
  ASSUME NEW S, NEW a \in Seq(S), NEW b \in Seq(S), NEW i \in 1 .. Len(a)
  PROVE  /\ RemoveAt(a, i) \in Seq(S) /\ Len(RemoveAt(a, i)) = Len(a) - 1
         /\ DOMAIN (RemoveAt(a, i) \o b) = 1 .. Len(a) + Len(b) - 1
         /\ \A j \in DOMAIN (RemoveAt(a, i) \o b) :
              (RemoveAt(a, i) \o b)[j] = IF j < i THEN (a \o b)[j] ELSE (a \o b)[j + 1]
<1> DEFINE p == SubSeq(a, 1, i - 1)
           q == SubSeq(a, i + 1, Len(a))
           r == RemoveAt(a, i)
<1>1. p \in Seq(S) /\ Len(p) = i - 1 /\ \A j \in 1 .. i - 1 : p[j] = a[j]
  OBVIOUS
<1>2. q \in Seq(S) /\ Len(q) = Len(a) - i /\ \A j \in 1 .. Len(a) - i : q[j] = a[i + j]
  OBVIOUS
<1>3. /\ r \in Seq(S) /\ Len(r) = Len(a) - 1
      /\ \A j \in 1 .. Len(a) - 1 : r[j] = IF j < i THEN a[j] ELSE a[j + 1]
  <2>1. r = p \o q
    BY DEF RemoveAt
  <2> HIDE DEF p, q, r
  <2>2. r \in Seq(S) /\ Len(r) = Len(a) - 1
    BY <1>1, <1>2, <2>1
  <2>3. \A j \in 1 .. Len(a) - 1 : r[j] = IF j < i THEN p[j] ELSE q[j - (i - 1)]
    BY <1>1, <1>2, <2>1
  <2>4. \A j \in 1 .. Len(a) - 1 : j >= i => q[j - (i - 1)] = a[j + 1]
    BY <1>2
  <2> QED
    BY SMTT(30), <1>1, <2>2, <2>3, <2>4
<1> HIDE DEF p, q, r
<1>4. /\ DOMAIN (r \o b) = 1 .. Len(a) + Len(b) - 1
      /\ \A j \in 1 .. Len(a) + Len(b) - 1 :
           (r \o b)[j] = IF j <= Len(a) - 1 THEN r[j] ELSE b[j - Len(a) + 1]
  BY <1>3
<1>5. \A j \in 1 .. Len(a) + Len(b) : (a \o b)[j] = IF j <= Len(a) THEN a[j] ELSE b[j - Len(a)]
  OBVIOUS
<1>6. \A j \in 1 .. Len(a) + Len(b) - 1 : (r \o b)[j] = IF j < i THEN (a \o b)[j] ELSE (a \o b)[j + 1]
  BY <1>3, <1>4, <1>5
<1> QED
  BY <1>3, <1>4, <1>6 DEF r

LEMMA HeldTyped ==
  ASSUME ListsTyped
  PROVE  \A s \in Servers : Held[s] \in Seq(Clients) /\ DOMAIN Held[s] = 1 .. Len(clients[s]) + Len(clientsBuff[s])
BY DEF ListsTyped, PlacesTyped, IterTyped, Held

\* Only these steps move a client.
LEMMA ListsFrame ==
  ASSUME Next
  PROVE  \/ UNCHANGED <<clients, clientsBuff, clientsNum, adding>>
         \/ (\E c \in Clients : Accept(c)) \/ AddClient
         \/ \E s \in Servers : Select(s) \/ RecvFailed(s)
BY DEF Next, ConnectionStep, ClientProceeds, AcceptStep, RunStep, serverVars, Test, Wait, Pass, RecvBegins,
  Process, RecvReturns, ProcessEnds

\* A client that was accepted stays accepted, and Accept() takes one that was not.
LEMMA StaysAccepted ==
  ASSUME ListsTyped, Next
  PROVE  DOMAIN client' = Clients /\ \A c \in Clients : Accepted(c) => Accepted(c)'
<1> USE DEF Accepted, ListsTyped, PlacesTyped, IterTyped
<1>1. ASSUME NEW c \in Clients, ConnectionStep(c) PROVE DOMAIN client' = Clients /\ \A d \in Clients : Accepted(d) => Accepted(d)'
  BY <1>1 DEF ConnectionStep, ClientProceeds, ClientStep, OnRecv, OnSend, Put, Connect, Leave
<1>2. ASSUME NEW c \in Clients, Accept(c) PROVE DOMAIN client' = Clients /\ \A d \in Clients : Accepted(d) => Accepted(d)'
  BY <1>2 DEF Accept
<1>3. ASSUME AddClient \/ \E s \in Servers : RunStep(s) PROVE UNCHANGED client
  BY <1>3 DEF AddClient, RunStep, clientVars, Test, Wait, Select, Pass, RecvBegins, RecvFailed, Process,
       FlushOut, FlushFails,
    RecvReturns, ProcessEnds, Recv, PrcMsg, Flush
<1> QED
  BY <1>1, <1>2, <1>3 DEF Next, AcceptStep

LEMMA TypedStep ==
  ASSUME ListsTyped, Next
  PROVE  ListsTyped'
<1>1. PlacesTyped'
  <2>1. ASSUME NEW c \in Clients, Accept(c) PROVE PlacesTyped'
    BY <2>1, ChosenIsServer DEF Accept, serverVars, ListsTyped, PlacesTyped, IterTyped
  <2>2. CASE AddClient
    BY <2>2 DEF AddClient, ListsTyped, PlacesTyped, IterTyped
  <2>3. ASSUME NEW s \in Servers, Select(s) PROVE PlacesTyped'
    BY <2>3 DEF Select, MoveClien, ListsTyped, PlacesTyped, IterTyped
  <2>4. ASSUME NEW s \in Servers, RecvFailed(s) PROVE PlacesTyped'
    <3>1. clients[s] \in Seq(Clients) /\ iter[s] \in 1 .. Len(clients[s])
      BY <2>4 DEF RecvFailed, InList, ListsTyped, PlacesTyped, IterTyped
    <3>2. RemoveAt(clients[s], iter[s]) \in Seq(Clients)
      BY <3>1, RemoveAtProperties
    <3> QED
      BY <2>4, <3>2 DEF RecvFailed, Removed, ListsTyped, PlacesTyped, IterTyped
  <2> QED
    BY <2>1, <2>2, <2>3, <2>4, ListsFrame DEF ListsTyped, PlacesTyped, IterTyped
<1>2. IterTyped'
  <2>1. ASSUME NEW s \in Servers, RunStep(s) PROVE IterTyped'
    BY <2>1 DEF RunStep, serverVars, Goto, ListsTyped, PlacesTyped, IterTyped, Test, Wait, Select, Pass, RecvBegins, RecvFailed,
      Process, RecvReturns, ProcessEnds
  <2>2. CASE AddClient
    BY <2>2 DEF AddClient, ListsTyped, PlacesTyped, IterTyped
  <2>3. CASE UNCHANGED <<pc, iter>>
    BY <2>3 DEF ListsTyped, PlacesTyped, IterTyped
  <2> QED
    BY <2>1, <2>2, <2>3 DEF Next, AcceptStep, Accept, ConnectionStep, ClientProceeds, serverVars
<1> QED
  BY <1>1, <1>2, StaysAccepted DEF ListsTyped, PlacesTyped, IterTyped

LEMMA AcceptPlaces == ASSUME LInv, Next, NEW c \in Clients, Accept(c) PROVE (Counted /\ Placed /\ Served)'
<1>1. /\ client[c] = "pending" /\ adding = None /\ adding' = [client |-> c, server |-> Chosen] /\ adding' # None
      /\ UNCHANGED <<clients, clientsBuff>> /\ Held' = Held
  BY ServersAssumption, ChosenIsServer DEF Accept, serverVars, Held
<1>2. \A s \in Servers : Held'[s] = Held[s]
  BY <1>1 DEF Held
<1>3. \A s \in Servers : \A i \in DOMAIN Held[s] : Held[s][i] \in Clients
  <2>1. \A s \in Servers : Held[s] \in Seq(Clients)
    BY HeldTyped DEF LInv
  <2> QED
    BY <2>1
<1>4. Counted'
  BY <1>1, ChosenIsServer DEF Accept, LInv, ListsTyped, PlacesTyped, IterTyped, Counted
<1>5. Placed'
  BY <1>2 DEF LInv, Placed
<1>6. \A s \in Servers : \A i \in DOMAIN Held[s] : Accepted(Held[s][i])' /\ Held[s][i] # c
  BY <1>1, <1>3, StaysAccepted DEF LInv, Served, Accepted
<1>7. Accepted(c)'
  BY DEF Accept, Accepted, LInv, ListsTyped, PlacesTyped, IterTyped
<1>8. Served'
  BY <1>1, <1>2, <1>6, <1>7 DEF Served, Accepted
<1> QED
  BY <1>4, <1>5, <1>8

LEMMA AppendedProperties ==
  ASSUME NEW S, NEW l \in Seq(S), NEW b \in Seq(S), NEW c \in S
  PROVE  LET n == Len(l) + Len(b) + 1 IN
         /\ n \in Nat /\ DOMAIN (l \o b) = 1 .. n - 1 /\ DOMAIN (l \o Append(b, c)) = 1 .. n
         /\ \A i \in 1 .. n : (l \o Append(b, c))[i] = IF i = n THEN c ELSE (l \o b)[i]
<1> DEFINE n == Len(l) + Len(b) + 1
           x == Append(b, c)
<1>1. n \in Nat /\ DOMAIN (l \o b) = 1 .. n - 1
  OBVIOUS
<1>2. x \in Seq(S) /\ Len(x) = Len(b) + 1 /\ \A i \in 1 .. Len(b) + 1 : x[i] = IF i = Len(b) + 1 THEN c ELSE b[i]
  OBVIOUS
<1> HIDE DEF x
<1>3. DOMAIN (l \o x) = 1 .. n
  BY <1>2
<1>4. \A i \in 1 .. n : (l \o x)[i] = IF i <= Len(l) THEN l[i] ELSE x[i - Len(l)]
  BY <1>2
<1>5. \A i \in 1 .. n - 1 : (l \o b)[i] = IF i <= Len(l) THEN l[i] ELSE b[i - Len(l)]
  OBVIOUS
<1>6. \A i \in 1 .. n : (l \o x)[i] = IF i = n THEN c ELSE (l \o b)[i]
  <2> SUFFICES ASSUME NEW i \in 1 .. n PROVE (l \o x)[i] = IF i = n THEN c ELSE (l \o b)[i]
    OBVIOUS
  <2>1. CASE i <= Len(l)
    BY <1>4, <1>5, <2>1
  <2>2. CASE i > Len(l) /\ i < n
    <3>1. i \in 1 .. n - 1 /\ i - Len(l) \in 1 .. Len(b)
      BY <2>2
    <3> QED
      BY <1>2, <1>4, <1>5, <2>2, <3>1
  <2>3. CASE i = n
    BY <1>2, <1>4, <2>3
  <2> QED
    <3>1. Len(l) \in Int /\ n \in Int /\ i \in Int /\ i <= n
      BY <1>1
    <3>2. i <= Len(l) \/ (i > Len(l) /\ i < n) \/ i = n
      <4> HIDE DEF n
      <4> QED
        BY <3>1
    <3> QED
      BY <2>1, <2>2, <2>3, <3>2
<1> QED
  BY <1>1, <1>3, <1>6 DEF x

LEMMA AddClientPlaces == ASSUME LInv, Next, AddClient PROVE (Counted /\ Placed /\ Served)'
<1> DEFINE a == adding.server
           c == adding.client
<1>1. a \in Servers /\ c \in Clients /\ adding # None /\ adding' = None
  BY DEF AddClient, LInv, ListsTyped, PlacesTyped, IterTyped
<1>2. /\ clients[a] \in Seq(Clients) /\ clientsBuff[a] \in Seq(Clients)
      /\ clientsBuff' = [clientsBuff EXCEPT ![a] = Append(@, c)] /\ UNCHANGED <<clients, clientsNum>>
  BY <1>1 DEF AddClient, LInv, ListsTyped, PlacesTyped, IterTyped
<1>3. \A s \in Servers : /\ clientsBuff'[s] = IF s = a THEN Append(clientsBuff[s], c) ELSE clientsBuff[s]
                         /\ clientsBuff[s] \in Seq(Clients) /\ clients[s] \in Seq(Clients)
  BY <1>2 DEF LInv, ListsTyped, PlacesTyped, IterTyped
<1>4. clientsNum \in [Servers -> Int]
  BY DEF LInv, ListsTyped, PlacesTyped, IterTyped
<1> HIDE DEF a, c
<1>5. Counted'
  <2> SUFFICES ASSUME NEW s \in Servers
               PROVE  clientsNum'[s] = Len(clients'[s]) + Len(clientsBuff'[s]) + 0
    BY <1>1 DEF Counted
  <2>0. Len(clients[s]) \in Nat /\ Len(clientsBuff[s]) \in Nat
    BY <1>3
  <2>1. clients' = clients /\ clientsNum' = clientsNum
    BY <1>2
  <2>2. CASE s = a
    <3>1. clientsNum[s] = Len(clients[s]) + Len(clientsBuff[s]) + 1
      BY <1>1, <2>2 DEF LInv, Counted, a
    <3>2. clientsBuff'[s] = Append(clientsBuff[s], c) /\ clientsBuff[s] \in Seq(Clients)
      BY <1>3, <2>2
    <3>3. Len(clientsBuff'[s]) = Len(clientsBuff[s]) + 1
      BY <1>1, <3>2, AppendProperties
    <3>4. clientsNum'[s] = clientsNum[s] /\ Len(clients'[s]) = Len(clients[s])
      BY <2>1
    <3> DEFINE k == Len(clients[s])
               m == Len(clientsBuff[s])
    <3>5. k \in Int /\ m \in Int
      BY <2>0
    <3>6. clientsNum'[s] = k + m + 1 /\ Len(clients'[s]) = k /\ Len(clientsBuff'[s]) = m + 1
      BY <3>1, <3>3, <3>4
    <3> HIDE DEF k, m
    <3> QED
      BY <3>5, <3>6
  <2>3. CASE s # a
    <3>1. clientsNum[s] = Len(clients[s]) + Len(clientsBuff[s]) + 0
      BY <1>1, <2>3 DEF LInv, Counted, a
    <3>2. clientsBuff'[s] = clientsBuff[s]
      BY <1>3, <2>3
    <3> QED
      BY <2>0, <2>1, <3>1, <3>2
  <2> QED
    BY <2>2, <2>3
<1>6. \A s \in Servers \ {a} : Held'[s] = Held[s]
  <2> SUFFICES ASSUME NEW s \in Servers \ {a} PROVE Held'[s] = Held[s]
    OBVIOUS
  <2>1. clientsBuff'[s] = clientsBuff[s] /\ clients' = clients
    BY <1>2, <1>3
  <2> QED
    BY <2>1 DEF Held
<1> DEFINE n == Len(clients[a]) + Len(clientsBuff[a]) + 1
<1>7. /\ n \in Nat /\ DOMAIN Held[a] = 1 .. n - 1 /\ DOMAIN Held'[a] = 1 .. n
      /\ \A i \in 1 .. n : Held'[a][i] = IF i = n THEN c ELSE Held[a][i]
  <2>1. clients'[a] = clients[a] /\ clientsBuff'[a] = Append(clientsBuff[a], c)
    BY <1>1, <1>2, <1>3
  <2>2. Held'[a] = clients[a] \o Append(clientsBuff[a], c) /\ Held[a] = clients[a] \o clientsBuff[a]
    BY <1>1, <2>1 DEF Held
  <2> DEFINE l == clients[a]
             b == clientsBuff[a]
  <2>3. l \in Seq(Clients) /\ b \in Seq(Clients) /\ n = Len(l) + Len(b) + 1
    BY <1>2
  <2>4. Held'[a] = l \o Append(b, c) /\ Held[a] = l \o b
    BY <2>2
  <2> HIDE DEF l, b, n
  <2>5. /\ n \in Nat /\ DOMAIN (l \o b) = 1 .. n - 1 /\ DOMAIN (l \o Append(b, c)) = 1 .. n
        /\ \A i \in 1 .. n : (l \o Append(b, c))[i] = IF i = n THEN c ELSE (l \o b)[i]
    BY <1>1, <2>3, AppendedProperties
  <2> QED
    BY <2>4, <2>5
<1> HIDE DEF n
<1>8. \A s \in Servers : \A i \in DOMAIN Held[s] : Held[s][i] # c /\ Held[s][i] \in Clients
  <2>1. \A s \in Servers : \A i \in DOMAIN Held[s] : Held[s][i] # c
    BY <1>1 DEF LInv, Served, c
  <2>2. \A s \in Servers : Held[s] \in Seq(Clients)
    BY HeldTyped DEF LInv
  <2> QED
    BY <2>1, <2>2
<1>9. Placed'
  <2> SUFFICES ASSUME NEW s \in Servers, NEW u \in Servers, NEW i \in DOMAIN Held'[s], NEW j \in DOMAIN Held'[u],
                      Held'[s][i] = Held'[u][j]
               PROVE  s = u /\ i = j
    BY DEF Placed
  <2>1. CASE s # a /\ u # a
    BY <1>6, <2>1 DEF LInv, Placed
  <2>2. CASE s = a /\ u # a
    BY <1>6, <1>7, <1>8, <2>2 DEF LInv, Placed
  <2>3. CASE s # a /\ u = a
    BY <1>6, <1>7, <1>8, <2>3 DEF LInv, Placed
  <2>4. CASE s = a /\ u = a
    <3>1. i \in 1 .. n /\ j \in 1 .. n /\ Held'[a][i] = Held'[a][j]
      BY <1>7, <2>4
    <3>2. \A k \in 1 .. n - 1 : k \in DOMAIN Held[a] /\ Held[a][k] # c
      BY <1>1, <1>7, <1>8
    <3>3. \A k, l \in 1 .. n - 1 : Held[a][k] = Held[a][l] => k = l
      BY <1>1, <1>7 DEF LInv, Placed
    <3>4. i = j
      BY <1>7, <3>1, <3>2, <3>3
    <3> QED
      BY <2>4, <3>4
  <2> QED
    BY <2>1, <2>2, <2>3, <2>4
<1>10. Served'
  <2>1. Accepted(c)
    BY <1>1 DEF LInv, Served, c
  <2>2. ASSUME NEW s \in Servers, NEW i \in DOMAIN Held'[s] PROVE Held'[s][i] \in Clients /\ Accepted(Held'[s][i])
    <3>1. CASE s # a
      BY <1>6, <1>8, <3>1 DEF LInv, Served
    <3>2. CASE s = a
      <4>1. i \in 1 .. n /\ Held'[s] = Held'[a]
        BY <1>7, <3>2
      <4>2. CASE i = n
        BY <1>1, <1>7, <2>1, <4>1, <4>2
      <4>3. CASE i # n
        <5>1. i \in DOMAIN Held[a] /\ Held'[a][i] = Held[a][i]
          BY <1>7, <4>1, <4>3
        <5>2. Held[a][i] \in Clients /\ Accepted(Held[a][i])
          BY <1>1, <1>8, <5>1 DEF LInv, Served
        <5> QED
          BY <4>1, <5>1, <5>2
      <4> QED
        BY <4>2, <4>3
    <3> QED
      BY <3>1, <3>2
  <2>3. \A d \in Clients : Accepted(d) => Accepted(d)'
    BY StaysAccepted DEF LInv
  <2> QED
    BY <1>1, <2>2, <2>3 DEF Served, Accepted
<1> QED
  BY <1>5, <1>9, <1>10

\* MoveClien() leaves every client with its server, in the same order.
LEMMA SelectPlaces == ASSUME LInv, Next, NEW s \in Servers, Select(s) PROVE (Counted /\ Placed /\ Served)'
<1>1. clients \in [Servers -> Seq(Clients)] /\ clientsBuff \in [Servers -> Seq(Clients)]
  BY DEF LInv, ListsTyped, PlacesTyped
<1>2. /\ clients' = [clients EXCEPT ![s] = clients[s] \o clientsBuff[s]] /\ clientsBuff' = [clientsBuff EXCEPT ![s] = <<>>]
      /\ UNCHANGED <<clientsNum, adding>>
  BY <1>1 DEF Select, MoveClien
<1>3. ASSUME NEW u \in Servers
      PROVE  /\ Len(clients'[u]) + Len(clientsBuff'[u]) = Len(clients[u]) + Len(clientsBuff[u])
             /\ clients'[u] \o clientsBuff'[u] = clients[u] \o clientsBuff[u]
  <2>1. CASE u = s
    <3> DEFINE l == clients[s]
               b == clientsBuff[s]
    <3>1. l \in Seq(Clients) /\ b \in Seq(Clients)
      BY <1>1
    <3>2. clients'[u] = l \o b /\ clientsBuff'[u] = <<>> /\ clients[u] = l /\ clientsBuff[u] = b
      BY <1>1, <1>2, <2>1
    <3> HIDE DEF l, b
    <3>3. Len(l \o b) + Len(<<>>) = Len(l) + Len(b)
      BY <3>1, EmptySeq
    <3>4. (l \o b) \o <<>> = l \o b
      BY <3>1, ConcatProperties, ConcatEmptySeq
    <3> QED
      BY <3>2, <3>3, <3>4
  <2>2. CASE u # s
    BY <1>1, <1>2, <2>2
  <2> QED
    BY <2>1, <2>2
<1>4. Held' = Held
  BY <1>3 DEF Held
<1>5. Counted'
  <2> SUFFICES ASSUME NEW u \in Servers
               PROVE  clientsNum'[u] = Len(clients'[u]) + Len(clientsBuff'[u])
                                        + (IF adding' # None /\ adding'.server = u THEN 1 ELSE 0)
    BY DEF Counted
  <2>1. clientsNum[u] = Len(clients[u]) + Len(clientsBuff[u]) + (IF adding # None /\ adding.server = u THEN 1 ELSE 0)
    BY DEF LInv, Counted
  <2>2. adding' = adding /\ clientsNum' = clientsNum
    BY <1>2
  <2> QED
    BY <1>3, <2>1, <2>2
<1>6. Placed'
  BY <1>4 DEF LInv, Placed
<1>7. \A u \in Servers : \A i \in DOMAIN Held[u] : Accepted(Held[u][i])'
  <2>1. \A u \in Servers : Held[u] \in Seq(Clients)
    BY HeldTyped DEF LInv
  <2>2. \A u \in Servers : \A i \in DOMAIN Held[u] : Held[u][i] \in Clients /\ Accepted(Held[u][i])
    BY <2>1 DEF LInv, Served
  <2>3. \A c \in Clients : Accepted(c) => Accepted(c)'
    BY StaysAccepted DEF LInv
  <2> QED
    BY <1>4, <2>2, <2>3 DEF Accepted
<1>8. adding # None => Accepted(adding.client)'
  <2>1. ASSUME adding # None PROVE adding.client \in Clients /\ Accepted(adding.client)
    BY <2>1 DEF LInv, Served, ListsTyped, PlacesTyped
  <2>2. \A c \in Clients : Accepted(c) => Accepted(c)'
    BY StaysAccepted DEF LInv
  <2> QED
    BY <1>2, <2>1, <2>2 DEF Accepted
<1>9. Served'
  BY <1>2, <1>4, <1>7, <1>8 DEF LInv, Served, Accepted
<1> QED
  BY <1>5, <1>6, <1>9

\* A client that is gone is erased; the others stay where they are.
LEMMA RecvFailedPlaces == ASSUME LInv, Next, NEW s \in Servers, RecvFailed(s) PROVE (Counted /\ Placed /\ Served)'
<1> DEFINE l == clients[s]
           b == clientsBuff[s]
           k == iter[s]
<1>1. /\ clients \in [Servers -> Seq(Clients)] /\ clientsBuff \in [Servers -> Seq(Clients)]
      /\ clientsNum \in [Servers -> Int]
  BY DEF LInv, ListsTyped, PlacesTyped
<1>2. l \in Seq(Clients) /\ b \in Seq(Clients) /\ k \in 1 .. Len(l)
  BY <1>1 DEF RecvFailed, InList, LInv, ListsTyped, IterTyped
<1>3. /\ clients' = [clients EXCEPT ![s] = RemoveAt(l, k)] /\ clientsNum' = [clientsNum EXCEPT ![s] = @ - 1]
      /\ UNCHANGED <<clientsBuff, adding>>
  BY <1>1 DEF RecvFailed, Removed
<1>4. Held'[s] = RemoveAt(l, k) \o b /\ Held[s] = l \o b
  BY <1>1, <1>3 DEF Held
<1> HIDE DEF l, b, k
<1>5. /\ Len(RemoveAt(l, k)) = Len(l) - 1 /\ Len(l) \in Nat /\ Len(b) \in Nat /\ k \in Nat
      /\ DOMAIN Held[s] = 1 .. Len(l) + Len(b) /\ DOMAIN Held'[s] = 1 .. Len(l) + Len(b) - 1
      /\ \A j \in DOMAIN Held'[s] : Held'[s][j] = IF j < k THEN Held[s][j] ELSE Held[s][j + 1]
  <2>1. DOMAIN (l \o b) = 1 .. Len(l) + Len(b)
    BY <1>2
  <2> QED
    BY <1>2, <1>4, <2>1, RemoveAtProperties
<1>6. \A u \in Servers \ {s} : Held'[u] = Held[u]
  <2> SUFFICES ASSUME NEW u \in Servers \ {s} PROVE Held'[u] = Held[u]
    OBVIOUS
  <2>1. clients'[u] = clients[u] /\ clientsBuff' = clientsBuff
    BY <1>1, <1>3
  <2> QED
    BY <2>1 DEF Held
<1>7. Counted'
  <2> SUFFICES ASSUME NEW u \in Servers
               PROVE  clientsNum'[u] = Len(clients'[u]) + Len(clientsBuff'[u])
                                        + (IF adding' # None /\ adding'.server = u THEN 1 ELSE 0)
    BY DEF Counted
  <2> DEFINE e == IF adding # None /\ adding.server = u THEN 1 ELSE 0
  <2>1. clientsNum[u] = Len(clients[u]) + Len(clientsBuff[u]) + e
    BY DEF LInv, Counted
  <2>2. adding' = adding /\ clientsBuff' = clientsBuff /\ e \in Int
    BY <1>3
  <2> HIDE DEF e
  <2>3. CASE u = s
    <3>1. clients'[u] = RemoveAt(l, k) /\ clientsNum'[u] = clientsNum[u] - 1
      BY <1>1, <1>3, <2>3
    <3>2. Len(clients'[u]) = Len(l) - 1
      BY <1>5, <3>1
    <3>3. clientsNum[u] = Len(l) + Len(b) + e /\ clientsBuff'[u] = b
      BY <2>1, <2>2, <2>3 DEF l, b
    <3>4. clientsNum'[u] = Len(clients'[u]) + Len(clientsBuff'[u]) + e
      BY <1>5, <2>2, <3>1, <3>2, <3>3
    <3>5. e = IF adding' # None /\ adding'.server = u THEN 1 ELSE 0
      BY <2>2 DEF e
    <3> QED
      BY <3>4, <3>5
  <2>4. CASE u # s
    BY <1>1, <1>3, <2>1, <2>2, <2>4 DEF e
  <2> QED
    BY <2>3, <2>4
<1> DEFINE old(u, j) == IF u = s /\ j >= k THEN j + 1 ELSE j
<1>8. ASSUME NEW u \in Servers, NEW j \in DOMAIN Held'[u]
      PROVE  j \in Int /\ old(u, j) \in DOMAIN Held[u] /\ Held'[u][j] = Held[u][old(u, j)]
  <2>1. CASE u = s
    BY <1>5, <2>1
  <2>2. CASE u # s
    <3>1. DOMAIN Held[u] = 1 .. Len(clients[u]) + Len(clientsBuff[u])
      BY HeldTyped DEF LInv
    <3>2. Held'[u] = Held[u] /\ old(u, j) = j
      BY <1>6, <2>2
    <3>3. j \in DOMAIN Held[u]
      BY <3>2
    <3>4. j \in Int
      BY <3>1, <3>3
    <3> QED
      BY <3>2, <3>3, <3>4
  <2> QED
    BY <2>1, <2>2
<1>9. \A u \in Servers : \A i, j \in Int : old(u, i) = old(u, j) => i = j
  BY <1>5
<1> HIDE DEF old
<1>10. Placed'
  <2> SUFFICES ASSUME NEW v \in Servers, NEW u \in Servers, NEW i \in DOMAIN Held'[v], NEW j \in DOMAIN Held'[u],
                      Held'[v][i] = Held'[u][j]
               PROVE  v = u /\ i = j
    BY DEF Placed
  <2>1. Held[v][old(v, i)] = Held[u][old(u, j)] /\ old(v, i) \in DOMAIN Held[v] /\ old(u, j) \in DOMAIN Held[u]
    BY <1>8
  <2>2. v = u /\ old(v, i) = old(u, j)
    BY <2>1 DEF LInv, Placed
  <2> QED
    BY <1>8, <1>9, <2>2
<1>11. Served'
  <2>1. \A c \in Clients : Accepted(c) => Accepted(c)'
    BY StaysAccepted DEF LInv
  <2>2. \A u \in Servers : Held[u] \in Seq(Clients)
    BY HeldTyped DEF LInv
  <2>3. \A u \in Servers : \A i \in DOMAIN Held[u] : Held[u][i] \in Clients /\ Accepted(Held[u][i])
    BY <2>2 DEF LInv, Served
  <2>4. ASSUME NEW u \in Servers, NEW j \in DOMAIN Held'[u] PROVE Accepted(Held[u][j])'
    BY <1>8, <2>1, <2>3 DEF Accepted
  <2>5. ASSUME adding # None PROVE adding.client \in Clients /\ Accepted(adding.client)
    BY <2>5 DEF LInv, Served, ListsTyped, PlacesTyped
  <2>6. ASSUME adding # None, NEW u \in Servers, NEW j \in DOMAIN Held'[u] PROVE Held'[u][j] # adding.client
    BY <1>8, <2>6 DEF LInv, Served
  <2>7. adding' # None => Accepted(adding.client)'
    BY <1>3, <2>1, <2>5 DEF Accepted
  <2> QED
    BY <1>3, <2>4, <2>6, <2>7 DEF Served
<1> QED
  BY <1>7, <1>10, <1>11

LEMMA UnmovedPlaces ==
  ASSUME LInv, Next, UNCHANGED <<clients, clientsBuff, clientsNum, adding>> PROVE (Counted /\ Placed /\ Served)'
<1>1. Held' = Held
  BY DEF Held
<1>2. Counted' /\ Placed'
  BY ZenonT(40), <1>1 DEF LInv, Counted, Placed
<1>3. \A c \in Clients : Accepted(c) => Accepted(c)'
  BY StaysAccepted DEF LInv
<1>4. \A u \in Servers : Held[u] \in Seq(Clients)
  BY HeldTyped DEF LInv
<1>5. \A u \in Servers : \A i \in DOMAIN Held[u] : Held[u][i] \in Clients /\ Accepted(Held[u][i])
  BY <1>4 DEF LInv, Served
<1>6. adding # None => adding.client \in Clients /\ Accepted(adding.client)
  BY DEF LInv, Served, ListsTyped, PlacesTyped
<1>7. Served'
  BY <1>1, <1>3, <1>5, <1>6 DEF LInv, Served, Accepted
<1> QED
  BY <1>2, <1>7

----------------------------------------------------------------------------

LEMMA LInvInit == Init => LInv
<1> SUFFICES ASSUME Init PROVE LInv
  OBVIOUS
<1> USE DEF Init, CellInit
<1>1. ListsTyped
  BY DEF ListsTyped, PlacesTyped, IterTyped
<1>2. Held = [s \in Servers |-> <<>>]
  BY EmptySeq, ConcatEmptySeq DEF Held
<1>3. Counted
  BY EmptySeq DEF Counted
<1>4. Placed /\ Served
  <2>1. \A s \in Servers : DOMAIN Held[s] = {}
    BY <1>2
  <2>2. Placed
    BY <2>1 DEF Placed
  <2>3. adding = None
    OBVIOUS
  <2> QED
    BY <2>1, <2>2, <2>3 DEF Served
<1> QED
  BY <1>1, <1>3, <1>4 DEF LInv

LEMMA LInvNext == LInv /\ [Next]_vars => LInv'
<1> SUFFICES ASSUME LInv, [Next]_vars PROVE LInv'
  OBVIOUS
<1>1. CASE Next
  <2>1. ListsTyped'
    BY <1>1, TypedStep DEF LInv
  <2>2. (Counted /\ Placed /\ Served)'
    BY <1>1, ListsFrame, AcceptPlaces, AddClientPlaces, SelectPlaces, RecvFailedPlaces, UnmovedPlaces
  <2> QED
    BY <2>1, <2>2 DEF LInv
<1>2. CASE UNCHANGED vars
  <2>1. UNCHANGED <<client, pc, iter, clients, clientsBuff, clientsNum, adding>>
    BY <1>2 DEF vars, clientVars, serverVars
  <2>2. Held' = Held
    BY <2>1 DEF Held
  <2>3. ListsTyped'
    BY <2>1 DEF LInv, ListsTyped, PlacesTyped, IterTyped
  <2>4. Counted' /\ Placed'
    BY ZenonT(40), <2>1, <2>2 DEF LInv, Counted, Placed
  <2>5. Served'
    BY <2>1, <2>2 DEF LInv, Served, Accepted
  <2> QED
    BY <2>3, <2>4, <2>5 DEF LInv
<1> QED
  BY <1>1, <1>2

\* A client that was accepted is with one server, once, in whatever order
\* Accept(), AddClient(), MoveClien() and RecvMsg() of the servers' threads
\* come, and the counter by which Accept() chooses a server is exact.
THEOREM EachWithOneServer == Spec => []ClientsCounted
<1>1. LInv => ClientsCounted
  <2> SUFFICES ASSUME LInv PROVE ClientsCounted
    OBVIOUS
  <2>1. \A s \in Servers : Held[s] = clients[s] \o clientsBuff[s]
    BY DEF Held
  <2>2. \A s \in Servers : IsInjective(Held[s])
    BY DEF LInv, Placed, IsInjective
  <2>3. \A s, u \in Servers : s # u => Range(Held[s]) \cap Range(Held[u]) = {}
    BY DEF LInv, Placed, Range
  <2> QED
    BY <2>1, <2>2, <2>3 DEF LInv, Counted, ClientsCounted
<1> QED
  BY LInvInit, LInvNext, <1>1, PTL DEF Spec
============================================================================
