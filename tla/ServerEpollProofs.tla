------------------------- MODULE ServerEpollProofs -------------------------
(***************************************************************************)
(* Proofs about the master of server_epoll.                                *)
(*                                                                         *)
(* It keeps the invariant of ctserver.c, with which it shares the table of *)
(* clients.  Since there is one listening socket, no assumption about      *)
(* EPOLLERR is needed: closing it frees a number below FirstFd, but also   *)
(* ends the creation of descriptors.  Steps that ctserver.c takes as well  *)
(* are reduced to its lemmas; those that read the pipe, that accept no     *)
(* connection or that wait for events differ and are proved here.          *)
(***************************************************************************)
EXTENDS ServerEpoll, CtServerProofs

(* The condition of the shared lemmas.                                     *)
LEMMA OneSocket == ErrorsHarmless
BY OneListener DEF ErrorsHarmless

-----------------------------------------------------------------------------
(* Steps that are steps of ctserver.c.                                     *)

(* EPOLLHUP alone, an accept for which no entry, no pipe or no process is  *)
(* left, and one that makes a child.                                       *)
LEMMA SharedSteps ==
  ASSUME NEW e \in batch
  PROVE  /\ HangUp(e) => HandleHup(e)
         /\ ServerFull(e) => AcceptFull(e)
         /\ ServerNoChild(e) => AcceptNoChild(e)
         /\ ServerChild(e) => AcceptChild(e)
<1>1. HangUp(e) => HandleHup(e)
  BY DEF HangUp, HandleHup, ChildEvent, exit_child_with_sockfd, procs
<1>2. ServerFull(e) => AcceptFull(e)
  BY DEF ServerFull, ServerAccept, AcceptFull
<1>3. ServerNoChild(e) => AcceptNoChild(e)
  <2> SUFFICES ASSUME ServerNoChild(e) PROVE AcceptNoChild(e)
    OBVIOUS
  <2>1. PICK c \in FD : ServerNoChild(e)!(c)
    BY DEF ServerNoChild
  <2> QED BY <2>1 DEF ServerAccept, AcceptNoChild
<1>4. ServerChild(e) => AcceptChild(e)
  <2> SUFFICES ASSUME ServerChild(e) PROVE AcceptChild(e)
    OBVIOUS
  <2>1. PICK c \in FD :
          /\ AcceptEvent(e, c)
          /\ \E i \in get_idle_idx_from_clients, p1 \in PipeFds(FreeFds \ {c}) :
               \E p2 \in PipeFds((FreeFds \ {c}) \ {p1[1], p1[2]}) :
                 create_child(i, c, MasterEnds(p1, p2))
    BY DEF ServerChild, ServerAccept, create_child_and_exec
  <2>2. running' = running + 1 /\ UNCHANGED wrote
    BY DEF ServerChild
  <2>3. c \in FD \cup {NoFd}
    OBVIOUS
  <2> QED BY <2>1, <2>2, <2>3 DEF AcceptChild
<1> QED BY <1>1, <1>2, <1>3, <1>4

(* A step of ctserver.c, when it is one.                                   *)
Shared ==
  \/ Environment
  \/ sigchld_exit
  \/ \E e \in batch : \/ HandleErr(e)
                      \/ HandleHup(e)
                      \/ AcceptFull(e)
                      \/ AcceptNoChild(e)
                      \/ AcceptChild(e)

(* The steps of server.c, those that are its own named.                    *)
LEMMA Split ==
  ASSUME [ServerNext]_vars
  PROVE  \/ Shared
         \/ server_epoll_wait
         \/ \E e \in batch : ReadAll(e) \/ ReadToEnd(e) \/ ServerNoAccept(e)
         \/ UNCHANGED vars
BY SharedSteps DEF ServerNext, ServerHandler, server_sigchld_exit, ServerErr,
                   Shared

(* What is shared are steps of ctserver.c.                                 *)
LEMMA SharedNext == Shared => Next
BY DEF Shared, Next, Master, Handler

-----------------------------------------------------------------------------
(* Steps of its own.                                                       *)

(* read() comes to the end of the pipe only if its child has terminated.   *)
LEMMA EndReleases ==
  ASSUME IInv, NEW e \in batch, ReadToEnd(e)
  PROVE  Released(e)
<1>1. e.fd \notin Listeners
  BY DEF ReadToEnd, ChildEvent
<1>2. PICK i \in Slots :
        /\ clients[i].pid \in Kids
        /\ e.obj = Rd(clients[i].pid)
        /\ fds[e.fd] = Rd(clients[i].pid)
  BY <1>1, HupIsChild
<1>3. kid[clients[i].pid] \notin Alive
  BY <1>2 DEF ReadToEnd, Reads
<1>4. kid[e.obj.id] \notin Alive
  BY <1>2, <1>3 DEF Rd
<1> QED BY <1>1, <1>4 DEF ReadToEnd, ChildEvent, Handled, Released, net,
                          exit_child_with_sockfd

(* The types in the steps of its own.                                      *)
LEMMA OwnTypes ==
  ASSUME TypeOK,
         \/ server_epoll_wait
         \/ \E e \in batch : ReadAll(e) \/ ReadToEnd(e) \/ ServerNoAccept(e)
  PROVE  TypeOK'
<1> USE LimitsAssumption, ListenersAssumption
<1> USE DEF TypeOK, table, procs, net
<1>1. CASE server_epoll_wait
  <2>1. PICK B \in SUBSET FD, C \in SUBSET FD :
          /\ batch' = {[fd |-> f, obj |-> fds[f], mask |-> Mask(f)] : f \in B}
          /\ watch' = [f \in FD |-> IF f \in C THEN "idle" ELSE watch[f]]
    <3>1. PICK B \in SUBSET FD :
            /\ batch' = {[fd |-> f, obj |-> fds[f], mask |-> Mask(f)] : f \in B}
            /\ watch' = [f \in FD |->
                 IF f \in B \cup ({g \in FD : watch[g] = "ready"} \
                                  {g \in {h \in FD : watch[h] = "ready"} :
                                     Mask(g) # {}})
                   THEN "idle" ELSE watch[f]]
      BY <1>1 DEF server_epoll_wait
    <3>2. B \cup ({g \in FD : watch[g] = "ready"} \
                  {g \in {h \in FD : watch[h] = "ready"} : Mask(g) # {}})
            \in SUBSET FD
      OBVIOUS
    <3> QED BY <3>1, <3>2
  <2>2. \A f \in FD : Mask(f) \in SUBSET {"IN", "HUP", "ERR"}
    BY DEF Mask
  <2>3. batch' \in SUBSET Event
    BY <2>1, <2>2 DEF Event
  <2> QED BY <1>1, <2>1, <2>3 DEF server_epoll_wait
<1>2. ASSUME NEW e \in batch, ReadAll(e) PROVE TypeOK'
  <2>1. blocked' \in BOOLEAN /\ batch' \in SUBSET Event
    BY <1>2 DEF ReadAll, ChildEvent, Handled
  <2>2. wrote' \in SUBSET Kids
    BY <1>2 DEF ReadAll
  <2> QED BY <1>2, <2>1, <2>2 DEF ReadAll, ChildEvent
<1>3. ASSUME NEW e \in batch, ReadToEnd(e) PROVE TypeOK'
  <2>1. fds' \in [FD -> Object] /\ watch' \in [FD -> {"no", "idle", "ready"}]
    BY <1>3 DEF ReadToEnd, exit_child_with_sockfd, Close, Object, Free
  <2>2. clients' \in [Slots -> Client]
    BY <1>3 DEF ReadToEnd, exit_child_with_sockfd, Idle, Client
  <2>3. running' \in Int
    BY <1>3 DEF ReadToEnd
  <2>4. blocked' \in BOOLEAN /\ batch' \in SUBSET Event
    BY <1>3 DEF ReadToEnd, ChildEvent, Handled
  <2>5. wrote' \in SUBSET Kids
    BY <1>3 DEF ReadToEnd
  <2> QED BY <1>3, <2>1, <2>2, <2>3, <2>4, <2>5 DEF ReadToEnd, ChildEvent
<1>4. ASSUME NEW e \in batch, ServerNoAccept(e) PROVE TypeOK'
  <2>1. AcceptEvent(e, NoFd) /\ UNCHANGED <<table, procs>>
    BY <1>4 DEF ServerNoAccept, ServerAccept
  <2>2. blocked' \in BOOLEAN /\ batch' \in SUBSET Event
    BY <2>1 DEF AcceptEvent, Handled
  <2>3. backlog' \in [Listeners -> Nat]
    BY <2>1 DEF AcceptEvent, Accept
  <2> QED BY <2>1, <2>2, <2>3 DEF AcceptEvent
<1> QED BY <1>1, <1>2, <1>3, <1>4

(* No step breaks the invariant of ctserver.c.                             *)
LEMMA ServerStep == IInv /\ [ServerNext]_vars => IInv'
<1> SUFFICES ASSUME IInv, [ServerNext]_vars PROVE IInv'
  OBVIOUS
<1>1. CASE Shared
  BY <1>1, SharedNext, OneSocket, IInvStep
<1>2. CASE UNCHANGED vars
  BY <1>2, OneSocket, IInvStep
<1>3. CASE server_epoll_wait
  <2>1. TypeOK'
    BY <1>3, OwnTypes DEF IInv
  <2>2. UNCHANGED <<fds, clients, forked, kid, erred, errs>>
    BY <1>3 DEF server_epoll_wait, procs, net
  <2>3. PICK B \in SUBSET {f \in FD : watch[f] = "ready"} :
          batch' = {[fd |-> f, obj |-> fds[f], mask |-> Mask(f)] : f \in B}
    BY <1>3 DEF server_epoll_wait
  <2>4. \A f \in FD : watch'[f] # "no" => watch[f] # "no"
    BY <1>3 DEF server_epoll_wait
  <2> QED BY <2>1, <2>2, <2>3, <2>4, ReportStep
<1>4. ASSUME NEW e \in batch, ReadAll(e) PROVE IInv'
  <2>1. TypeOK'
    BY <1>4, OwnTypes DEF IInv
  <2>2. /\ UNCHANGED <<fds, clients, forked, kid, watch, erred, errs>>
        /\ batch' \subseteq batch
    BY <1>4 DEF ReadAll, ChildEvent, Handled, table, net
  <2> QED BY <2>1, <2>2, QuietStep
<1>5. ASSUME NEW e \in batch, ReadToEnd(e) PROVE IInv'
  <2>1. TypeOK'
    BY <1>5, OwnTypes DEF IInv
  <2> QED BY <1>5, <2>1, EndReleases, ReleaseStep
<1>6. ASSUME NEW e \in batch, ServerNoAccept(e) PROVE IInv'
  <2>1. TypeOK'
    BY <1>6, OwnTypes DEF IInv
  <2>2. /\ UNCHANGED <<fds, clients, forked, kid, watch, erred, errs>>
        /\ batch' \subseteq batch
    BY <1>6 DEF ServerNoAccept, ServerAccept, AcceptEvent, Handled, table, procs
  <2> QED BY <2>1, <2>2, QuietStep
<1> QED BY <1>1, <1>2, <1>3, <1>4, <1>5, <1>6, Split

(* The invariant of ctserver.c holds for server.c, whatever calls fail and *)
(* however many EPOLLERR events are reported.                              *)
THEOREM ServerInvariance == ServerSpec => []IInv
BY IInvInit, ServerStep, PTL DEF ServerSpec, ServerInit

(* As long as a child lives, the master keeps its entry and both ends of   *)
(* its pipes: no clean-up of another child, by EPOLLHUP or at the end of   *)
(* what read() finds, closes them.                                         *)
THEOREM ServerSessionsSafe == ServerSpec => []SessionKeepsPipes
BY KeepsPipes, ServerInvariance, PTL

(* The events that wait in the batch are about open descriptors, those     *)
(* they were reported for, although a handler reads until EAGAIN and may   *)
(* close descriptors meanwhile.                                            *)
THEOREM ServerEventsAreFresh == ServerSpec => []EventsFresh
BY Fresh, ServerInvariance, PTL

(* clean_client_with_idx closes no descriptor of others through the number *)
(* of the connection that the entry keeps.                                 *)
THEOREM ServerStaleFdsHarmless == ServerSpec => []StaleFdHarmless
BY Harmless, ServerInvariance, PTL

(* No error path of the accept handler loses a pipe end.                   *)
THEOREM ServerNoLeak == ServerSpec => []NoFdLeak
BY LeakFree, ServerInvariance, PTL

-----------------------------------------------------------------------------
(* epoll_num_running and the session pool.                                 *)

(* Steps of its own that release nothing leave the entries, the number and *)
(* the children alone.                                                     *)
LEMMA OwnFrame ==
  ASSUME \/ server_epoll_wait
         \/ \E e \in batch : ReadAll(e) \/ ServerNoAccept(e)
         \/ UNCHANGED vars
  PROVE  UNCHANGED <<clients, running, kid>>
BY DEF server_epoll_wait, ReadAll, ChildEvent, ServerNoAccept, table, procs, vars

(* epoll_num_running is the number of entries with a child: every path     *)
(* that takes one from it has found the entry of its pipe.                 *)
THEOREM ServerRunningCounted == ServerSpec => []RunningCount
<1>1. IInv /\ RunningCount /\ [ServerNext]_vars => RunningCount'
  <2> SUFFICES ASSUME IInv, RunningCount, [ServerNext]_vars
               PROVE  RunningCount'
    OBVIOUS
  <2>1. CASE Shared
    BY <2>1, SharedNext, CountStep
  <2>2. ASSUME NEW e \in batch, ReadToEnd(e) PROVE RunningCount'
    BY <2>2, EndReleases, ReleaseCount
  <2>3. ASSUME UNCHANGED <<clients, running, kid>> PROVE RunningCount'
    BY <2>3 DEF RunningCount
  <2> QED BY <2>1, <2>2, <2>3, OwnFrame, Split
<1> QED
  BY <1>1, CountInit, ServerInvariance, PTL DEF ServerSpec, ServerInit

(* Here, too, clients_t is a pool of sessions: an entry serves one child   *)
(* at a time and is taken from it only after the child has terminated,     *)
(* also when its output and its hang-up are one event.                     *)
THEOREM ServerPoolImplemented == ServerSpec => ImplementsPool
<1>1. IInv /\ [ServerNext]_vars => [Pool!PoolNext]_(Pool!poolVars)
  <2> SUFFICES ASSUME IInv, [ServerNext]_vars
               PROVE  [Pool!PoolNext]_(Pool!poolVars)
    OBVIOUS
  <2>1. CASE Shared
    BY <2>1, SharedNext, PoolStep
  <2>2. ASSUME NEW e \in batch, ReadToEnd(e)
        PROVE  \E i \in Slots : Pool!Release(i)
    BY <2>2, EndReleases, PoolRelease
  <2>3. ASSUME UNCHANGED <<clients, running, kid>>
        PROVE  UNCHANGED Pool!poolVars
    BY <2>3, PoolStutter DEF Pool!poolVars
  <2> QED BY <2>1, <2>2, <2>3, OwnFrame, Split DEF Pool!PoolNext
<1> QED
  BY <1>1, PoolStart, ServerInvariance, PTL
  DEF ServerSpec, ServerInit, ImplementsPool, Pool!PoolSpec
=============================================================================
