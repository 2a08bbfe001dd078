--------------------------- MODULE MC_ServerEpoll ---------------------------
(* The master of server_epoll with small tables.                           *)
EXTENDS ServerEpoll
=============================================================================
