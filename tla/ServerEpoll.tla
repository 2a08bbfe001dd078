---------------------------- MODULE ServerEpoll ----------------------------
(***************************************************************************)
(* The master process of samples/server_epoll: server.c.                   *)
(*                                                                         *)
(* It shares the table of clients, the creation of a child and the signal  *)
(* handler with ctserver.c, whose definitions serve here too.  It differs  *)
(* in what it does with its events: there is one listening socket, a       *)
(* failed accept makes no child, and what a child writes to its pipe is    *)
(* read until the pipe is empty or at its end.                             *)
(***************************************************************************)
EXTENDS CtServer

ASSUME OneListener == Cardinality(Listeners) = 1

(* The table of clients, the listening socket in the epoll set, no child.  *)
ServerInit == Init

(* The same handler as in ctserver.c: it, too, returns at the first child  *)
(* that was killed.                                                        *)
server_sigchld_exit == sigchld_exit

(* A registration whose condition has passed by the time of the call is    *)
(* taken off the ready list and not reported: the data that made a pipe    *)
(* ready may have been read with earlier data.                             *)
server_epoll_wait ==
  LET ready == {f \in FD : watch[f] = "ready"}
      due   == {f \in ready : Mask(f) # {}}
  IN /\ batch = {}
     /\ ready # {}
     /\ \E B \in SUBSET due :
          /\ \/ B = due /\ Cardinality(B) <= MaxConnect + 1
             \/ Cardinality(B) = MaxConnect + 1
          /\ batch' = {[fd |-> f, obj |-> fds[f], mask |-> Mask(f)] : f \in B}
          /\ watch' = [f \in FD |-> IF f \in B \cup (ready \ due)
                                      THEN "idle" ELSE watch[f]]
     /\ UNCHANGED <<fds, clients, running, blocked, sigchld, procs, net>>

ServerErr(e) == HandleErr(e)

(* Mutant of exit_child_with_sockfd: the index is not looked up.           *)
exit_child_first(sockfd) ==
  LET idx == Lowest(Slots)
  IN /\ Close({sockfd} \cup UNION {CleanedFds(i) : i \in idx})
     /\ clients' = [i \in Slots |-> IF i \in idx THEN Idle ELSE clients[i]]

(* Mutant of exit_child_with_sockfd: the entry is looked up after the      *)
(* descriptor was closed and its number forgotten.                         *)
exit_child_lost(sockfd) ==
  /\ Close({sockfd})
  /\ UNCHANGED clients

(* clean_client_with_idx for the entry of the pipe, if one is found, and   *)
(* the pipe itself is closed.                                              *)
exit_child_with_sockfd(sockfd) ==
  LET idx == get_idx_with_sockfd(sockfd)
  IN /\ Close({sockfd} \cup UNION {CleanedFds(i) : i \in idx})
     /\ clients' = [i \in Slots |-> IF i \in idx THEN Idle ELSE clients[i]]

ChildEvent(e) ==
  /\ "ERR" \notin e.mask
  /\ e.fd \notin Listeners
  /\ Handled(e)
  /\ UNCHANGED <<sigchld, kid, forked, net>>

(* The child whose pipe read() reads, empty if it fails with EBADF.        *)
Reads(e) == {k \in Kids : fds[e.fd] = Rd(k)}

(* Mutant of ReadAll: one read() per event, as in ctserver.c none.         *)
ReadNothing(e) ==
  /\ ChildEvent(e)
  /\ "IN" \in e.mask
  /\ \E k \in Reads(e) : kid[k] \in Alive
  /\ UNCHANGED <<table, wrote>>

(* EPOLLIN on a child's pipe whose child lives: read() until EAGAIN.       *)
ReadAll(e) ==
  /\ ChildEvent(e)
  /\ "IN" \in e.mask
  /\ \E k \in Reads(e) : kid[k] \in Alive
  /\ wrote' = wrote \ Reads(e)
  /\ UNCHANGED table

(* The same when the child has gone, before or after the event was         *)
(* reported: read() comes to the end of the pipe, or fails.                *)
ReadToEnd(e) ==
  /\ ChildEvent(e)
  /\ "IN" \in e.mask
  /\ \A k \in Reads(e) : kid[k] \notin Alive
  /\ exit_child_with_sockfd(e.fd)
  /\ running' = running - 1
  /\ wrote' = wrote \ Reads(e)

(* EPOLLHUP alone.                                                         *)
HangUp(e) ==
  /\ ChildEvent(e)
  /\ e.mask = {"HUP"}
  /\ exit_child_with_sockfd(e.fd)
  /\ running' = running - 1
  /\ UNCHANGED wrote

(* accept() returns the descriptor c, or it fails and nothing is done.     *)
ServerAccept(e, c) == AcceptEvent(e, c)

ServerNoAccept(e) ==
  /\ ServerAccept(e, NoFd)
  /\ UNCHANGED <<table, procs>>

ServerFull(e) ==
  /\ \E c \in FD : ServerAccept(e, c)
  /\ get_idle_idx_from_clients = {}
  /\ UNCHANGED <<table, procs>>

(* A pipe or the fork fails; the entry keeps used = 1.                     *)
ServerNoChild(e) ==
  \E c \in FD :
    LET S == FreeFds \ {c}
    IN /\ ServerAccept(e, c)
       /\ \/ PipeFds(S) = {}
          \/ \E p1 \in PipeFds(S) : PipeFds(S \ {p1[1], p1[2]}) = {}
          \/ "fork" \in Faults
       /\ \E i \in get_idle_idx_from_clients :
            clients' = [clients EXCEPT ![i] = [@ EXCEPT !.used = TRUE, !.fd = c]]
       /\ UNCHANGED <<fds, watch, running, procs>>

create_child_and_exec(i, c, p1, p2) == create_child(i, c, MasterEnds(p1, p2))

ServerChild(e) ==
  /\ \E c \in FD :
       LET S == FreeFds \ {c}
       IN /\ ServerAccept(e, c)
          /\ \E i \in get_idle_idx_from_clients, p1 \in PipeFds(S) :
               \E p2 \in PipeFds(S \ {p1[1], p1[2]}) :
                 create_child_and_exec(i, c, p1, p2)
  /\ running' = running + 1
  /\ UNCHANGED wrote

-----------------------------------------------------------------------------
ServerHandler ==
  \E e \in batch :
    \/ ServerErr(e)
    \/ ReadAll(e) \/ ReadToEnd(e)
    \/ HangUp(e)
    \/ ServerNoAccept(e)
    \/ ServerFull(e)
    \/ ServerNoChild(e)
    \/ ServerChild(e)

ServerNext ==
  \/ Environment
  \/ server_sigchld_exit
  \/ server_epoll_wait
  \/ ServerHandler

ServerFairness ==
  /\ WF_vars(server_sigchld_exit)
  /\ WF_vars(server_epoll_wait)
  /\ WF_vars(ServerHandler)
  /\ \A k \in Kids : WF_vars(ChildZombie(k))
  /\ \A k \in Kids : WF_vars(kid[k] = "dying" /\ ChildEnd(k))

ServerSpec == ServerInit /\ [][ServerNext]_vars

ServerFairSpec == ServerSpec /\ ServerFairness
-----------------------------------------------------------------------------
(* The entry of every child that has terminated is released, also when it  *)
(* exits right after it has written, so that its output and its hang-up    *)
(* are reported as one event.                                              *)
AllReleased ==
  \A k \in Kids :
    kid[k] \in {"ended", "killed"} ~> \A i \in Slots : clients[i].pid # k

(* What a child writes to the pipe is read, also when the edge of a second *)
(* write falls between two events of a batch.                              *)
OutputRead == \A k \in Kids : k \in wrote ~> k \notin wrote
=============================================================================
