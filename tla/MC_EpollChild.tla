--------------------------- MODULE MC_EpollChild ---------------------------
(* A session of server_epoll with small buffers.                           *)
EXTENDS EpollChild
=============================================================================
