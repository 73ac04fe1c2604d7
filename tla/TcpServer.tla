----------------------------- MODULE TcpServer -----------------------------
(***************************************************************************)
(* The TCP server (WSocket/tcp_socket/tcp_server.cpp, cell_server.cpp):    *)
(* TcpServer accepts clients and gives each to one of its CellServers,     *)
(* whose threads serve them with select().                                 *)
(*                                                                         *)
(* Stop() is not part of it: it deletes the CellServers while their        *)
(* threads run (README 2).  So IsRun() is true and isExit false.  The      *)
(* accept() and select() of the system do not fail.                        *)
(*                                                                         *)
(*   pc[s]   loop     in Run(), at the test for clients                    *)
(*           wait     found none, before it locks and waits                *)
(*           asleep   in isEmpty.wait()                                    *)
(*           select   before MoveClien() and select()                      *)
(*           process  in ProcessMsg(), at iter                             *)
(*           recv     in RecvMsg() of the client at iter                   *)
(***************************************************************************)
EXTENDS Integers, Sequences, SequencesExt, ClientCell

CONSTANTS
  Order,    \* the vector servers
  None

Servers == Range(Order)

\* Start() makes at least one server.
ASSUME ServersAssumption ==
  /\ Order \in Seq(Servers) /\ Order # <<>>
  /\ None \notin [client : Clients, server : Servers]

VARIABLES
  pc, iter,
  ready,        \* fdRead after select()
  clients, clientsBuff, clientsNum,
  adding        \* what Accept() is about to add to clientsBuff: [client, server]

serverVars == <<pc, iter, ready, clients>>
vars == <<clientVars, cellVars, up, down, serverVars, clientsBuff, clientsNum, adding>>

Init ==
  /\ CellInit
  /\ pc = [s \in Servers |-> "loop"] /\ iter = [s \in Servers |-> 0]
  /\ ready = [s \in Servers |-> {}]
  /\ clients = [s \in Servers |-> <<>>] /\ clientsBuff = [s \in Servers |-> <<>>]
  /\ clientsNum = [s \in Servers |-> 0]
  /\ adding = None

Goto(s, p) == pc' = [pc EXCEPT ![s] = p]

----------------------------------------------------------------------------
\* TcpServer::Accept()

\* min is not brought up to date: of the servers with fewer clients than the
\* first, the last one is taken.
Chosen ==
  LET fewer == {i \in DOMAIN Order : clientsNum[Order[i]] < clientsNum[Order[1]]}
  IN Order[IF fewer = {} THEN 1 ELSE Max(fewer)]

\* accept(), and AddClient() up to the lock.  That c is also appended to the
\* server's own list of clients is left out: nothing reads the list, and the
\* OnLeave() that should remove c from it does nothing.
Accept(c) ==
  /\ adding = None /\ client[c] = "pending"
  /\ client' = [client EXCEPT ![c] = "run"]
  /\ adding' = [client |-> c, server |-> Chosen]
  /\ clientsNum' = [clientsNum EXCEPT ![Chosen] = @ + 1]
  /\ UNCHANGED <<left, logins, lastPos, rets, cellVars, up, down, serverVars, clientsBuff>>

\* AddClient() under the lock: notify_all() finds a thread that sleeps.
AddClient ==
  /\ adding # None
  /\ clientsBuff' = [clientsBuff EXCEPT ![adding.server] = Append(@, adding.client)]
  /\ adding' = None
  /\ pc' = [pc EXCEPT ![adding.server] = IF @ = "asleep" THEN "loop" ELSE @]
  /\ UNCHANGED <<clientVars, cellVars, up, down, iter, ready, clients, clientsNum>>

----------------------------------------------------------------------------
\* CellServer::Run()

\* A mutant: it waits for new clients even if it has some.
TestBuff(s) ==
  /\ pc[s] = "loop"
  /\ Goto(s, IF clientsBuff[s] = <<>> THEN "wait" ELSE "select")
  /\ UNCHANGED <<clientVars, cellVars, up, down, iter, ready, clients, clientsBuff, clientsNum, adding>>

\* Without the lock.
Test(s) ==
  /\ pc[s] = "loop"
  /\ Goto(s, IF clientsBuff[s] = <<>> /\ clients[s] = <<>> THEN "wait" ELSE "select")
  /\ UNCHANGED <<clientVars, cellVars, up, down, iter, ready, clients, clientsBuff, clientsNum, adding>>

Wait(s) ==
  /\ pc[s] = "wait"
  /\ Goto(s, "asleep")
  /\ UNCHANGED <<clientVars, cellVars, up, down, iter, ready, clients, clientsBuff, clientsNum, adding>>

\* MoveClien(), under the lock.
MoveClien(s) ==
  /\ clients' = [clients EXCEPT ![s] = @ \o clientsBuff[s]]
  /\ clientsBuff' = [clientsBuff EXCEPT ![s] = <<>>]

\* select() on all clients; with none readable it times out.
Select(s) ==
  LET r == {c \in Range(clients[s] \o clientsBuff[s]) : Readable(c)} IN
  /\ pc[s] = "select"
  /\ MoveClien(s)
  /\ ready' = [ready EXCEPT ![s] = r]
  /\ Goto(s, IF r = {} THEN "loop" ELSE "process")
  /\ iter' = [iter EXCEPT ![s] = 1]
  /\ UNCHANGED <<clientVars, cellVars, up, down, clientsNum, adding>>

Current(s) == clients[s][iter[s]]
InList(s) == iter[s] <= Len(clients[s])

\* ProcessMsg(): a client that is not ready.
Pass(s) ==
  /\ pc[s] = "process" /\ InList(s) /\ Current(s) \notin ready[s]
  /\ iter' = [iter EXCEPT ![s] = @ + 1]
  /\ UNCHANGED <<clientVars, cellVars, up, down, pc, ready, clients, clientsBuff, clientsNum, adding>>

\* One that has sent something.
RecvBegins(s) ==
  /\ pc[s] = "process" /\ InList(s) /\ Current(s) \in ready[s]
  /\ Recv(Current(s))
  /\ Goto(s, "recv")
  /\ UNCHANGED <<iter, ready, clients, clientsBuff, clientsNum, adding>>

\* A mutant: the number of clients is left as it is.
RemovedUncounted(s) == UNCHANGED clientsNum

Removed(s) == clientsNum' = [clientsNum EXCEPT ![s] = @ - 1]

\* One that is gone: deleted and erased.  erase() returns the next client and
\* the loop increments past it.
RecvFailed(s) ==
  /\ pc[s] = "process" /\ InList(s) /\ Current(s) \in ready[s]
  /\ RecvFails(Current(s))
  /\ clients' = [clients EXCEPT ![s] = RemoveAt(@, iter[s])]
  /\ Removed(s)
  /\ iter' = [iter EXCEPT ![s] = @ + 1]
  /\ UNCHANGED <<clientVars, cellVars, up, down, pc, ready, clientsBuff, adding>>

\* In RecvMsg().
Process(s) ==
  /\ pc[s] = "recv"
  /\ PrcMsg(Current(s)) \/ Flush(Current(s))
  /\ UNCHANGED <<serverVars, clientsBuff, clientsNum, adding>>

RecvReturns(s) ==
  /\ pc[s] = "recv" /\ RecvEnds(Current(s))
  /\ Goto(s, "process")
  /\ iter' = [iter EXCEPT ![s] = @ + 1]
  /\ UNCHANGED <<clientVars, cellVars, up, down, ready, clients, clientsBuff, clientsNum, adding>>

ProcessEnds(s) ==
  /\ pc[s] = "process" /\ ~ InList(s)
  /\ Goto(s, "loop")
  /\ UNCHANGED <<clientVars, cellVars, up, down, iter, ready, clients, clientsBuff, clientsNum, adding>>

RunStep(s) ==
  \/ Test(s) \/ Wait(s) \/ Select(s)
  \/ Pass(s) \/ RecvBegins(s) \/ RecvFailed(s) \/ Process(s) \/ RecvReturns(s) \/ ProcessEnds(s)

----------------------------------------------------------------------------

ClientProceeds(c) ==
  ClientStep(c) /\ UNCHANGED <<serverVars, clientsBuff, clientsNum, adding>>

AcceptStep == AddClient \/ \E c \in Clients : Accept(c)

ConnectionStep(c) ==
  \/ ClientProceeds(c)
  \/ /\ Connect(c) \/ Leave(c)
     /\ UNCHANGED <<serverVars, clientsBuff, clientsNum, adding>>

Next ==
  \/ \E c \in Clients : ConnectionStep(c)
  \/ AcceptStep
  \/ \E s \in Servers : RunStep(s)

Fairness ==
  /\ \A c \in Clients : WF_vars(ClientProceeds(c))
  /\ WF_vars(AcceptStep)
  /\ \A s \in Servers : WF_vars(RunStep(s))

Spec == Init /\ [][Next]_vars /\ Fairness

----------------------------------------------------------------------------

\* A client is with one server, in one of its lists once, and the number of
\* clients by which Accept() chooses is the number of those it has.
ClientsCounted ==
  /\ \A s \in Servers :
       clientsNum[s] = Len(clients[s]) + Len(clientsBuff[s])
                         + (IF adding # None /\ adding.server = s THEN 1 ELSE 0)
  /\ \A s \in Servers : IsInjective(clients[s] \o clientsBuff[s])
  /\ \A s, u \in Servers : s # u =>
       Range(clients[s] \o clientsBuff[s]) \cap Range(clients[u] \o clientsBuff[u]) = {}

\* AddClient() came between the test of Run() and its wait: the notification is
\* lost, and the client is not served until the server gets another.
Stranded(c) == \E s \in Servers : pc[s] = "asleep" /\ c \in Range(clientsBuff[s])

\* Every login is processed, although RecvMsg() of one client may block in
\* send() and its client in its own, and ProcessMsg() passes over clients.
LoginsProcessed == \A c \in {d \in Clients : Logins[d] > 0} :
  packs[c] < logins[c] ~> packs[c] = logins[c] \/ client[c] = "gone" \/ Stranded(c)
=============================================================================
