----------------------------- MODULE MC_Services -----------------------------
(* The libraries and examples that talk to something outside the program:  *)
(* a MySQL server, a memcache server, an HTTP server, the other end of a   *)
(* descriptor, the clients of the echo server.  They share nothing, so     *)
(* each is checked alone: part says which one a behaviour runs and the     *)
(* others stay in their first state.                                       *)
EXTENDS MysqlConn, Memcache, CurlPost, TimedIo, EchoMan

VARIABLE part

Repeated(n, c) == [i \in 1 .. n |-> c]

(* Values that fit a char of CharBits bits, and values that do not.        *)
MCValues == {Repeated(0, "a"), Repeated(2, "b"), Repeated(3, "c"),
             Repeated(5, "d"), Repeated(9, "e")}

(* Pieces that fit the first buffer of a result, fill it, and do not fit.  *)
MCChunks == {<<>>, Repeated(1, "a"), Repeated(2, "b"), Repeated(4, "c")}

ServiceVars == <<part, mysqlVars, mcVars, curlVars, ioVars, echoVars>>

ServiceInit ==
  /\ part \in {"mysql", "memcache", "curl", "io", "echo"}
  /\ MysqlInit /\ McInit /\ CurlInit /\ IoInit /\ EchoInit

ServiceNext ==
  /\ UNCHANGED part
  /\ \/ /\ part = "mysql" /\ MysqlNext
        /\ UNCHANGED <<mcVars, curlVars, ioVars, echoVars>>
     \/ /\ part = "memcache" /\ McNext
        /\ UNCHANGED <<mysqlVars, curlVars, ioVars, echoVars>>
     \/ /\ part = "curl" /\ CurlNext
        /\ UNCHANGED <<mysqlVars, mcVars, ioVars, echoVars>>
     \/ /\ part = "io" /\ IoNext
        /\ UNCHANGED <<mysqlVars, mcVars, curlVars, echoVars>>
     \/ /\ part = "echo" /\ EchoNext
        /\ UNCHANGED <<mysqlVars, mcVars, curlVars, ioVars>>

ServiceSpec == ServiceInit /\ [][ServiceNext]_ServiceVars
=============================================================================
