---------------------------- MODULE MCTcpServer ----------------------------
(***************************************************************************)
(* The constants of the run of TcpServer: one server with two clients that *)
(* both send.  Four logins of c1 fill the server's buffer twice, so that   *)
(* send() to c1 blocks while c2 waits to be read.                          *)
(***************************************************************************)
EXTENDS TcpServer

CONSTANTS c1, c2, s1

MCOrder == <<s1>>
MCLogins == [c \in Clients |-> IF c = c1 THEN 4 ELSE 1]
============================================================================
