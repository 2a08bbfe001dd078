------------------------------ MODULE CtServer ------------------------------
(***************************************************************************)
(* The master process of samples/ctproxy: ctserver.c.                      *)
(*                                                                         *)
(* The master waits in epoll_wait for two kinds of descriptors, its        *)
(* listening sockets and one pipe per child process, and keeps one entry   *)
(* of the array clients_t per session.  It accepts a connection, makes two *)
(* pipes, forks a child that relays the connection, and releases the entry *)
(* when the child's end of the pipe hangs up.                              *)
(*                                                                         *)
(* Descriptors are modelled as numbers in a table, allocated lowest first  *)
(* as POSIX prescribes, because the code keeps numbers of descriptors it   *)
(* has closed and closes them again.                                       *)
(*                                                                         *)
(* One event of a batch is handled in one step: the process has one thread *)
(* and SIGCHLD, its only signal handler that returns, is blocked meanwhile.*)
(* Everything else (clients, children, signals) interleaves with it.       *)
(***************************************************************************)
EXTENDS Integers, FiniteSets

CONSTANTS
  MaxConnect,   \* cmax_connect: entries of clients_t that are ever used
  FirstFd,      \* lowest number that no permanent descriptor occupies
  MaxFd,        \* RLIMIT_NOFILE: descriptor numbers are below it
  Listeners,    \* listen_socks: the numbers of the listening sockets
  MaxConns,     \* bound: connections made by clients in a behaviour
  MaxErrs,      \* bound: EPOLLERR events reported on listening sockets
  Faults,       \* the calls that may fail (besides running out of numbers)
  ChildWrites,  \* TRUE: a child may write to its standard output
  ChildCrashes  \* TRUE: a child may be killed by a signal

ASSUME LimitsAssumption ==
  /\ MaxConnect \in Nat \ {0}
  /\ FirstFd \in Nat \ {0}
  /\ MaxFd \in Nat
  /\ FirstFd < MaxFd
  /\ MaxConns \in Nat
  /\ MaxErrs \in Nat

ASSUME ListenersAssumption == Listeners \subseteq 0 .. FirstFd - 1

ASSUME FaultsAssumption ==
  /\ Faults \subseteq {"accept", "fork", "exec", "epoll_ctl"}
  /\ ChildWrites \in BOOLEAN
  /\ ChildCrashes \in BOOLEAN

FD    == 0 .. MaxFd - 1
NoFd  == -1
Slots == 0 .. MaxConnect - 1
Kids  == 1 .. MaxConns
NoPid == -1

(* What a descriptor number denotes in the master: a permanent descriptor, *)
(* the read end of the pipe from child k, or the write end of the pipe to  *)
(* child k.                                                                *)
Free  == [kind |-> "free", id |-> 0]
Perm  == [kind |-> "perm", id |-> 0]
Rd(k) == [kind |-> "rd", id |-> k]
Wr(k) == [kind |-> "wr", id |-> k]
Object == [kind : {"free", "perm", "rd", "wr"}, id : Nat]

(* Life of a child process.  "dying": the fork succeeded but the child     *)
(* gives up before exec.  "ended" and "killed": its descriptors are closed *)
(* and SIGCHLD is not sent yet.  "zombie" and "crashed": waitpid can see   *)
(* it.                                                                     *)
KidState == {"none", "run", "dying", "ended", "killed",
             "zombie", "crashed", "reaped"}
Alive    == {"run", "dying"}

VARIABLES
  fds,       \* descriptor table of the master
  clients,   \* clients_t
  watch,     \* epoll: is the number registered, and on the ready list
  batch,     \* events returned by epoll_wait and not handled yet
  running,   \* epoll_num_running
  blocked,   \* SIGCHLD is in the signal mask between two events
  sigchld,   \* SIGCHLD is pending
  kid,       \* state of each child process
  forked,    \* number of children created so far
  wrote,     \* children whose output sits unread in the pipe
  backlog,   \* connections waiting in the queue of each listening socket
  erred,     \* listening sockets with an error condition
  conns,     \* number of connections made so far
  errs       \* number of error conditions so far

vars == <<fds, clients, watch, batch, running, blocked, sigchld, kid, forked,
          wrote, backlog, erred, conns, errs>>

table == <<fds, clients, watch, running>>
procs == <<kid, forked, wrote>>
net   == <<backlog, erred, conns, errs>>

(* struct client_st: what is left of it when the text fields are ignored.  *)
Client == [used : BOOLEAN, pid : Kids \cup {NoPid}, fd : FD \cup {NoFd},
           pfd_r : FD \cup {NoFd}, pfd_w : FD \cup {NoFd}]

Event == [fd : FD, obj : Object, mask : SUBSET {"IN", "HUP", "ERR"}]

(* Mutant of Idle: pid is reset to 0, not to -1.                           *)
IdlePidZero == [used |-> FALSE, pid |-> 0, fd |-> NoFd,
                pfd_r |-> NoFd, pfd_w |-> NoFd]

(* An entry of clients_t after init_client_with_idx.                       *)
Idle == [used |-> FALSE, pid |-> NoPid, fd |-> NoFd,
         pfd_r |-> NoFd, pfd_w |-> NoFd]

Init ==
  /\ fds = [f \in FD |-> IF f < FirstFd THEN Perm ELSE Free]
  /\ clients = [i \in Slots |-> Idle]
  /\ watch = [f \in FD |-> IF f \in Listeners THEN "idle" ELSE "no"]
  /\ batch = {}
  /\ running = 0
  /\ blocked = FALSE
  /\ sigchld = FALSE
  /\ kid = [k \in Kids |-> "none"]
  /\ forked = 0
  /\ wrote = {}
  /\ backlog = [l \in Listeners |-> 0]
  /\ erred = {}
  /\ conns = 0
  /\ errs = 0

-----------------------------------------------------------------------------
(* The kernel's side: descriptor numbers, pipes and epoll.                 *)

FreeFds == {f \in FD : fds[f] = Free}

Lowest(S) == {f \in S : \A g \in S : f <= g}

(* The results of pipe() when the numbers in S are free: empty if it fails.*)
PipeFds(S) ==
  {p \in S \X S : p[1] \in Lowest(S) /\ p[2] \in Lowest(S \ {p[1]})}

(* close() of every number in S; numbers that are not open are ignored.    *)
Close(S) ==
  /\ fds' = [f \in FD |-> IF f \in S THEN Free ELSE fds[f]]
  /\ watch' = [f \in FD |-> IF f \in S THEN "no" ELSE watch[f]]

(* A state change of the object obj puts its registrations on the ready    *)
(* list.                                                                   *)
Wake(F) ==
  watch' = [f \in FD |-> IF f \in F /\ watch[f] = "idle"
                           THEN "ready" ELSE watch[f]]

FdsOf(obj) == {f \in FD : fds[f] = obj}

(* The event mask epoll_wait computes for number f.                        *)
Mask(f) ==
  IF f \in Listeners
    THEN (IF f \in erred THEN {"ERR"} ELSE {}) \cup
         (IF backlog[f] > 0 THEN {"IN"} ELSE {})
    ELSE (IF fds[f].id \in wrote THEN {"IN"} ELSE {}) \cup
         (IF kid[fds[f].id] \in Alive THEN {} ELSE {"HUP"})

-----------------------------------------------------------------------------
(* Clients and children.                                                   *)

Connect(l) ==
  /\ conns < MaxConns
  /\ fds[l] = Perm
  /\ conns' = conns + 1
  /\ backlog' = [backlog EXCEPT ![l] = @ + 1]
  /\ Wake({l})
  /\ UNCHANGED <<fds, clients, running, batch, blocked, sigchld, procs,
                 erred, errs>>

SocketError(l) ==
  /\ errs < MaxErrs
  /\ fds[l] = Perm
  /\ errs' = errs + 1
  /\ erred' = erred \cup {l}
  /\ Wake({l})
  /\ UNCHANGED <<fds, clients, running, batch, blocked, sigchld, procs,
                 backlog, conns>>

(* The child writes to descriptor 1.  ctchild does so by accident, when    *)
(* connect_to_back_server fails in getaddrinfo and returns 1, which main   *)
(* takes for the descriptor of the back server.                            *)
ChildWrite(k) ==
  /\ ChildWrites
  /\ kid[k] = "run"
  /\ k \notin wrote
  /\ wrote' = wrote \cup {k}
  /\ Wake(FdsOf(Rd(k)))
  /\ UNCHANGED <<fds, clients, running, batch, blocked, sigchld, kid, forked,
                 net>>

(* A process that terminates closes its descriptors first ...              *)
ChildEnd(k) ==
  /\ kid[k] \in Alive
  /\ kid' \in {[kid EXCEPT ![k] = s] :
                 s \in {"ended"} \cup IF ChildCrashes THEN {"killed"} ELSE {}}
  /\ Wake(FdsOf(Rd(k)))
  /\ UNCHANGED <<fds, clients, running, batch, blocked, sigchld, forked,
                 wrote, net>>

(* ... and becomes a zombie, with SIGCHLD sent to the parent, afterwards.  *)
ChildZombie(k) ==
  /\ kid[k] \in {"ended", "killed"}
  /\ kid' = [kid EXCEPT ![k] = IF @ = "ended" THEN "zombie" ELSE "crashed"]
  /\ sigchld' = TRUE
  /\ UNCHANGED <<table, batch, blocked, forked, wrote, net>>

-----------------------------------------------------------------------------
(* The master.                                                             *)

Zombies == {k \in Kids : kid[k] \in {"zombie", "crashed"}}
Crashed == {k \in Kids : kid[k] = "crashed"}

(* Mutant of Reapable: "if" for "while", one child per signal.             *)
ReapableOnce == {{z} : z \in Zombies}

(* The sets of children one run of sigchld_exit may collect: waitpid       *)
(* returns them in any order, and the loop is left after the first that    *)
(* was killed by a signal.                                                 *)
Reapable ==
  {R \in SUBSET Zombies :
     \/ R = Zombies /\ Crashed = {}
     \/ \E c \in Crashed : R \cap Crashed = {c}}

sigchld_exit ==
  /\ sigchld
  /\ ~blocked
  /\ sigchld' = FALSE
  /\ \E R \in Reapable :
       kid' = [k \in Kids |-> IF k \in R THEN "reaped" ELSE kid[k]]
  /\ UNCHANGED <<table, batch, blocked, forked, wrote, net>>

(* epoll_wait with room for max_connect + 1 events.  An edge-triggered     *)
(* registration leaves the ready list when it is reported.                 *)
epoll_wait ==
  LET ready == {f \in FD : watch[f] = "ready"}
  IN /\ batch = {}
     /\ ready # {}
     /\ \E B \in SUBSET ready :
          /\ \/ B = ready /\ Cardinality(B) <= MaxConnect + 1
             \/ Cardinality(B) = MaxConnect + 1
          /\ batch' = {[fd |-> f, obj |-> fds[f], mask |-> Mask(f)] : f \in B}
          /\ watch' = [f \in FD |-> IF f \in B THEN "idle" ELSE watch[f]]
     /\ UNCHANGED <<fds, clients, running, blocked, sigchld, procs, net>>

(* An event is taken from the batch; sig_childblock at the start of its    *)
(* handler and sig_childunblock at next_epoll leave SIGCHLD unblocked.     *)
Handled(e) ==
  /\ batch' = batch \ {e}
  /\ blocked' = FALSE

(* EPOLLERR: the descriptor is closed and "continue" skips                 *)
(* sig_childunblock.                                                       *)
HandleErr(e) ==
  /\ "ERR" \in e.mask
  /\ batch' = batch \ {e}
  /\ blocked' = TRUE
  /\ Close({e.fd})
  /\ backlog' = [l \in Listeners |-> IF l = e.fd THEN 0 ELSE backlog[l]]
  /\ erred' = erred \ {e.fd}
  /\ UNCHANGED <<clients, running, sigchld, procs, conns, errs>>

(* EPOLLIN on a child's pipe: the entry is looked up for the log, and      *)
(* nothing is read.                                                        *)
HandleChildData(e) ==
  /\ "ERR" \notin e.mask
  /\ "IN" \in e.mask
  /\ e.fd \notin Listeners
  /\ Handled(e)
  /\ UNCHANGED <<table, sigchld, procs, net>>

(* Mutant of get_idx_with_sockfd: the other pipe of the entry is compared. *)
get_idx_with_pfd_w(sockfd) ==
  Lowest({i \in Slots : clients[i].pfd_w = sockfd /\ clients[i].used})

(* Lookups return a set with the index that was found, empty for -1.       *)
get_idx_with_sockfd(sockfd) ==
  Lowest({i \in Slots : clients[i].pfd_r = sockfd /\ clients[i].used})

(* Mutant of CleanedFds: off by one, the neighbour's descriptors.          *)
CleanedFdsNext(i) ==
  LET j == (i + 1) % MaxConnect
  IN {clients[j].fd, clients[j].pfd_r, clients[j].pfd_w} \ {NoFd}

(* The numbers clean_client_with_idx closes.                               *)
CleanedFds(i) ==
  {clients[i].fd, clients[i].pfd_r, clients[i].pfd_w} \ {NoFd}

(* EPOLLHUP alone: the child has gone.  The entry, if one is found, is     *)
(* cleaned; the reported number is closed in any case.                     *)
HandleHup(e) ==
  LET idx == get_idx_with_sockfd(e.fd)
  IN /\ e.mask = {"HUP"}
     /\ e.fd \notin Listeners
     /\ Handled(e)
     /\ Close({e.fd} \cup UNION {CleanedFds(i) : i \in idx})
     /\ clients' = [i \in Slots |-> IF i \in idx THEN Idle ELSE clients[i]]
     /\ running' = running - 1
     /\ UNCHANGED <<sigchld, procs, net>>

(* Mutant of get_idle_idx_from_clients: the test of used is missing.       *)
get_first_idx_from_clients == Lowest(Slots)

get_idle_idx_from_clients == Lowest({i \in Slots : ~ clients[i].used})

(* The accept loop on listening socket l leaves connfd = c: a new          *)
(* descriptor, or -1.  A failure leaves the connection in the queue (no    *)
(* number is free, no buffers) or loses it (aborted by the client).        *)
Accept(l, c) ==
  \/ /\ c \in Lowest(FreeFds)
     /\ backlog[l] > 0
     /\ backlog' = [backlog EXCEPT ![l] = @ - 1]
  \/ /\ c = NoFd
     /\ FreeFds = {} \/ "accept" \in Faults
     /\ \/ UNCHANGED backlog
        \/ /\ FreeFds # {} /\ backlog[l] > 0
           /\ backlog' = [backlog EXCEPT ![l] = @ - 1]

AcceptEvent(e, c) ==
  /\ "ERR" \notin e.mask
  /\ "IN" \in e.mask
  /\ e.fd \in Listeners
  /\ Accept(e.fd, c)
  /\ Handled(e)
  /\ UNCHANGED <<sigchld, erred, conns, errs>>

(* No entry is idle: "system error" is written and connfd closed.          *)
AcceptFull(e) ==
  /\ \E c \in FD \cup {NoFd} : AcceptEvent(e, c)
  /\ get_idle_idx_from_clients = {}
  /\ UNCHANGED <<table, procs>>

(* Mutant of AcceptNoChild: pfd1 is not closed when what follows it fails. *)
AcceptNoChildKeepsPipe(e) ==
  \E c \in FD \cup {NoFd} :
    LET S == FreeFds \ {c}
    IN /\ AcceptEvent(e, c)
       /\ \E i \in get_idle_idx_from_clients :
            clients' = [clients EXCEPT ![i] = [@ EXCEPT !.used = TRUE, !.fd = c]]
       /\ \E p1 \in PipeFds(S) :
            /\ PipeFds(S \ {p1[1], p1[2]}) = {} \/ "fork" \in Faults
            /\ fds' = [fds EXCEPT ![p1[2]] = Wr(0), ![p1[1]] = Rd(0)]
       /\ UNCHANGED <<watch, running, procs>>

(* A pipe or the fork fails.  All descriptors are closed again; the entry  *)
(* keeps used = 1 and the number of the closed connection.                 *)
AcceptNoChild(e) ==
  \E c \in FD \cup {NoFd} :
    LET S == FreeFds \ {c}
    IN /\ AcceptEvent(e, c)
       /\ \/ PipeFds(S) = {}
          \/ \E p1 \in PipeFds(S) : PipeFds(S \ {p1[1], p1[2]}) = {}
          \/ "fork" \in Faults
       /\ \E i \in get_idle_idx_from_clients :
            clients' = [clients EXCEPT ![i] = [@ EXCEPT !.used = TRUE, !.fd = c]]
       /\ UNCHANGED <<fds, watch, running, procs>>

(* Mutant of MasterEnds: the ends of the pipe to the child are swapped.    *)
MasterEndsSwapped(pfd1, pfd2) == [r |-> pfd2[1], w |-> pfd1[1]]

(* The ends the master keeps: it writes to pfd1[1], reads from pfd2[0], and *)
(* closes pfd1[0] and pfd2[1].                                             *)
MasterEnds(pfd1, pfd2) == [r |-> pfd2[1], w |-> pfd1[2]]

(* create_child_and_exec_with_idx_clientfd succeeds for entry i, with the  *)
(* pipe ends p.  The master closes connfd, whose number c stays in the     *)
(* entry.  The child gives up at once when connfd is -1, since fd_move     *)
(* fails, or when exec fails.                                              *)
create_child(i, c, p) ==
  LET k == forked + 1
  IN /\ k \in Kids
     /\ forked' = k
     /\ \E s \in (IF c # NoFd THEN {"run"} ELSE {}) \cup
                 (IF c = NoFd \/ "exec" \in Faults THEN {"dying"} ELSE {}) :
          kid' = [kid EXCEPT ![k] = s]
     /\ fds' = [fds EXCEPT ![p.w] = Wr(k), ![p.r] = Rd(k)]
     /\ clients' = [clients EXCEPT ![i] = [used |-> TRUE, pid |-> k, fd |-> c,
                                           pfd_r |-> p.r, pfd_w |-> p.w]]
     /\ \E r \in {"idle"} \cup IF "epoll_ctl" \in Faults THEN {"no"} ELSE {} :
          watch' = [watch EXCEPT ![p.r] = r]

AcceptChild(e) ==
  /\ \E c \in FD \cup {NoFd} :
       LET S == FreeFds \ {c}
       IN /\ AcceptEvent(e, c)
          /\ \E i \in get_idle_idx_from_clients, p1 \in PipeFds(S) :
               \E p2 \in PipeFds(S \ {p1[1], p1[2]}) :
                 create_child(i, c, MasterEnds(p1, p2))
  /\ running' = running + 1
  /\ UNCHANGED wrote

-----------------------------------------------------------------------------
Environment ==
  \/ \E l \in Listeners : Connect(l) \/ SocketError(l)
  \/ \E k \in Kids : ChildWrite(k) \/ ChildEnd(k) \/ ChildZombie(k)

Handler ==
  \E e \in batch :
    \/ HandleErr(e)
    \/ HandleChildData(e)
    \/ HandleHup(e)
    \/ AcceptFull(e)
    \/ AcceptNoChild(e)
    \/ AcceptChild(e)

Master == sigchld_exit \/ epoll_wait \/ Handler

Next == Environment \/ Master

(* The master's process is scheduled and its pending signal delivered; a   *)
(* process that has begun to terminate, or that has no program to run,     *)
(* finishes.  Clients and running children owe nothing.                    *)
Fairness ==
  /\ WF_vars(sigchld_exit)
  /\ WF_vars(epoll_wait)
  /\ WF_vars(Handler)
  /\ \A k \in Kids : WF_vars(ChildZombie(k))
  /\ \A k \in Kids : WF_vars(kid[k] = "dying" /\ ChildEnd(k))

Spec == Init /\ [][Next]_vars

FairSpec == Spec /\ Fairness
-----------------------------------------------------------------------------
(* Properties.                                                             *)

TypeOK ==
  /\ fds \in [FD -> Object]
  /\ clients \in [Slots -> Client]
  /\ watch \in [FD -> {"no", "idle", "ready"}]
  /\ batch \in SUBSET Event
  /\ running \in Int
  /\ blocked \in BOOLEAN
  /\ sigchld \in BOOLEAN
  /\ kid \in [Kids -> KidState]
  /\ forked \in 0 .. MaxConns
  /\ wrote \in SUBSET Kids
  /\ backlog \in [Listeners -> Nat]
  /\ erred \in SUBSET Listeners
  /\ conns \in 0 .. MaxConns
  /\ errs \in 0 .. MaxErrs

(* A session is never cut from outside: as long as a child lives, the      *)
(* master keeps an entry for it in clients_t and both its pipe ends open,  *)
(* whatever numbers the other entries' clean-ups close.                    *)
SessionKeepsPipes ==
  \A k \in Kids :
    kid[k] \in Alive =>
      \E i \in Slots :
        /\ clients[i].used
        /\ clients[i].pid = k
        /\ clients[i].pfd_r \in FdsOf(Rd(k))
        /\ clients[i].pfd_w \in FdsOf(Wr(k))

(* An event that waits in the batch still is about the descriptor it was   *)
(* reported for: no earlier event of the batch closed its number or let it *)
(* be taken by another pipe.                                               *)
EventsFresh == \A e \in batch : fds[e.fd] = e.obj

(* The numbers of closed connections that clients_t keeps in fd, and that  *)
(* clean_client_with_idx closes once more, denote nothing.                 *)
StaleFdHarmless ==
  \A i \in Slots : clients[i].fd # NoFd => clients[i].fd \in FreeFds

(* No error path loses a descriptor: every pipe end that is open in the    *)
(* master belongs to the entry in use of its child.                        *)
NoFdLeak ==
  \A f \in FD :
    fds[f].kind \in {"rd", "wr"} =>
      \E i \in Slots :
        /\ clients[i].used
        /\ clients[i].pid = fds[f].id
        /\ f \in {clients[i].pfd_r, clients[i].pfd_w}

(* epoll_num_running counts the entries that have a child.                 *)
RunningCount ==
  running = Cardinality({i \in Slots : clients[i].pid # NoPid})

(* The entry of a child that has terminated is released, whether it exited *)
(* or was killed, provided it left no output in the pipe.                  *)
SlotsReleased ==
  \A k \in Kids :
    kid[k] \in {"ended", "killed"} /\ k \notin wrote
      ~> \A i \in Slots : clients[i].pid # k

(* In a behaviour without crashes every child that has terminated is       *)
(* collected, so that none remains a zombie, although signals merge and    *)
(* are blocked during a handler.                                           *)
AllReaped ==
  [](Crashed = {}) => \A k \in Kids : k \in Zombies ~> kid[k] = "reaped"

(* Every connection that a client made is taken out of the queue.          *)
AllAccepted == \A l \in Listeners : backlog[l] > 0 ~> backlog[l] = 0

-----------------------------------------------------------------------------
(* The master implements a pool of sessions: entry i is the place, the     *)
(* child is the session, and an entry in use without a child is lost.      *)
Holder ==
  [i \in Slots |-> IF clients[i].pid # NoPid THEN clients[i].pid
                   ELSE IF clients[i].used THEN -1 ELSE 0]

Over == {k \in Kids : kid[k] \notin Alive \cup {"none"}}

Pool == INSTANCE SessionPool
          WITH Places <- Slots, Sessions <- Kids, Nobody <- 0, Lost <- -1,
               holder <- Holder, over <- Over

(* An entry is given to one child at a time, and taken away from it only   *)
(* after the child has terminated: clients_t as get_idle_idx_from_clients, *)
(* create_child_and_exec_with_idx_clientfd and clean_client_with_idx       *)
(* handle it is a session pool.                                            *)
ImplementsPool == Pool!PoolSpec
=============================================================================
