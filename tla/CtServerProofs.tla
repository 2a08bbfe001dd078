--------------------------- MODULE CtServerProofs ---------------------------
(***************************************************************************)
(* Proofs about the master of ctproxy for any number of entries, listening *)
(* sockets, descriptors and connections.                                   *)
(*                                                                         *)
(* The heart is the argument why closing the stale number clients_t[i].fd  *)
(* is harmless.  The permanent descriptors occupy the numbers below        *)
(* FirstFd, so the first descriptor that an event handler creates always   *)
(* gets number FirstFd; it is connfd or, if accept failed, pfd1[0], and    *)
(* the handler closes both.  Hence FirstFd is free between two events, and *)
(* it is the only number the entries ever keep.                            *)
(***************************************************************************)
EXTENDS CtServer, TLAPS, FiniteSetTheorems

(* EPOLLERR closes a listening socket and so frees a number below FirstFd. *)
(* That is harmless when the socket was the only one, because no more      *)
(* descriptors are created then.                                           *)
SingleListener == \E l : Listeners = {l}

ErrorsHarmless == MaxErrs = 0 \/ Cardinality(Listeners) = 1

(* The permanent descriptors stay where they are, except the only          *)
(* listening socket, and the number after them is free.                    *)
Gap ==
  /\ \A f \in FD : fds[f] = Perm => f < FirstFd
  /\ \A f \in FD : f < FirstFd => \/ fds[f] = Perm
                                  \/ fds[f] = Free /\ Listeners = {f}
  /\ fds[FirstFd] = Free

(* No permanent descriptor has been closed.                                *)
NoneClosed == \A f \in FD : f < FirstFd => fds[f] = Perm

(* What an entry of clients_t holds, by its state: idle, in use without a  *)
(* child (one of the failures of create_child_and_exec_with_idx_clientfd), *)
(* or in use for child pid.                                                *)
Entries ==
  \A i \in Slots :
    /\ clients[i].fd \in {NoFd, FirstFd}
    /\ clients[i].used \/ clients[i] = Idle
    /\ clients[i].pid = NoPid =>
         clients[i].pfd_r = NoFd /\ clients[i].pfd_w = NoFd
    /\ clients[i].pid # NoPid =>
         /\ clients[i].used
         /\ clients[i].pid <= forked
         /\ clients[i].pfd_r \in FD
         /\ clients[i].pfd_w \in FD
         /\ fds[clients[i].pfd_r] = Rd(clients[i].pid)
         /\ fds[clients[i].pfd_w] = Wr(clients[i].pid)

OneEntryPerChild ==
  \A i, j \in Slots :
    clients[i].pid = clients[j].pid /\ clients[i].pid # NoPid => i = j

(* Every open pipe end belongs to an entry, under the right name.          *)
Owned ==
  \A f \in FD :
    /\ fds[f].kind = "rd" =>
         \E i \in Slots : clients[i].pid = fds[f].id /\ clients[i].pfd_r = f
    /\ fds[f].kind = "wr" =>
         \E i \in Slots : clients[i].pid = fds[f].id /\ clients[i].pfd_w = f

Children ==
  \A k \in Kids :
    /\ kid[k] = "none" <=> k > forked
    /\ kid[k] \in Alive => \E i \in Slots : clients[i].pid = k

(* Only listening sockets and read ends are registered.                    *)
Watchable(f) == (f \in Listeners /\ fds[f] = Perm) \/ fds[f].kind = "rd"

Watches == \A f \in FD : watch[f] # "no" => Watchable(f)

(* The events of a batch are about different descriptors, which are still  *)
(* the ones they were reported for; a hang-up is only reported for a child *)
(* that has terminated.                                                    *)
Events ==
  /\ \A e \in batch :
       /\ fds[e.fd] = e.obj
       /\ Watchable(e.fd)
       /\ "ERR" \in e.mask => e.fd \in Listeners /\ SingleListener
       /\ "HUP" \in e.mask => e.fd \notin Listeners /\ kid[e.obj.id] \notin Alive
  /\ \A e1, e2 \in batch : e1.fd = e2.fd => e1 = e2

Errors == SingleListener \/ (erred = {} /\ errs = 0)

IInv ==
  /\ TypeOK
  /\ Gap
  /\ Entries
  /\ OneEntryPerChild
  /\ Owned
  /\ Children
  /\ Watches
  /\ Events
  /\ Errors
-----------------------------------------------------------------------------
(* Descriptor numbers.                                                     *)

(* The listening sockets are permanent descriptors.                        *)
LEMMA ListenerNumber ==
  ASSUME NEW l \in Listeners
  PROVE  l \in FD /\ l < FirstFd
<1>1. l \in 0 .. FirstFd - 1
  BY ListenersAssumption
<1> QED BY <1>1, LimitsAssumption DEF FD

(* pipe() returns two different numbers that were free, lowest first.      *)
LEMMA PipeResult ==
  ASSUME NEW S, NEW p \in PipeFds(S)
  PROVE  /\ p[1] \in Lowest(S)
         /\ p[1] \in S
         /\ p[2] \in S
         /\ p[1] # p[2]
BY DEF PipeFds, Lowest

(* Between two events the next descriptor to be created gets FirstFd.      *)
LEMMA LowestFree ==
  ASSUME TypeOK, Gap, NoneClosed
  PROVE  Lowest(FreeFds) = {FirstFd}
<1>1. FirstFd \in FD /\ FD \subseteq Int
  BY LimitsAssumption DEF FD
<1>2. FirstFd \in FreeFds
  BY <1>1 DEF Gap, FreeFds
<1>3. \A g \in FreeFds : g \in FD /\ FirstFd <= g
  <2> SUFFICES ASSUME NEW g \in FreeFds
               PROVE  g \in FD /\ FirstFd <= g
    OBVIOUS
  <2>1. g \in FD /\ fds[g] # Perm
    BY DEF FreeFds, Free, Perm
  <2>2. ~ (g < FirstFd)
    BY <2>1 DEF NoneClosed
  <2> QED BY <2>1, <2>2, <1>1
<1>4. \A g \in FreeFds : (\A h \in FreeFds : g <= h) => g = FirstFd
  BY <1>1, <1>2, <1>3
<1> QED BY <1>2, <1>3, <1>4 DEF Lowest

(* connfd is -1 or FirstFd.                                                *)
LEMMA AcceptResult ==
  ASSUME TypeOK, Gap, NoneClosed, NEW e, NEW c, AcceptEvent(e, c)
  PROVE  c \in {NoFd, FirstFd}
BY LowestFree DEF AcceptEvent, Accept

(* The two pipe ends the master keeps are free and are not FirstFd.        *)
LEMMA KeptEnds ==
  ASSUME TypeOK, Gap, NoneClosed,
         NEW c \in {NoFd, FirstFd},
         NEW p1 \in PipeFds(FreeFds \ {c}),
         NEW p2 \in PipeFds((FreeFds \ {c}) \ {p1[1], p1[2]})
  PROVE  /\ p1[2] \in FD /\ fds[p1[2]] = Free /\ p1[2] # FirstFd
         /\ p2[1] \in FD /\ fds[p2[1]] = Free /\ p2[1] # FirstFd
         /\ p1[2] # p2[1]
<1>1. /\ p1[1] \in Lowest(FreeFds \ {c})
      /\ p1[1] # p1[2]
      /\ p1[2] \in FreeFds \ {c}
  BY PipeResult
<1>2. p2[1] \in FreeFds \ {c} /\ p2[1] # p1[1] /\ p2[1] # p1[2]
  BY PipeResult
<1>3. c = FirstFd \/ p1[1] = FirstFd
  <2>1. CASE c = FirstFd
    BY <2>1
  <2>2. CASE c = NoFd
    <3>1. FreeFds \ {c} = FreeFds
      BY <2>2 DEF FreeFds, FD, NoFd
    <3> QED BY <1>1, <3>1, LowestFree
  <2> QED BY <2>1, <2>2
<1> QED BY <1>1, <1>2, <1>3 DEF FreeFds

(* The child is created for an idle entry and the numbers of its pipe ends *)
(* exist.                                                                  *)
LEMMA ChildEnds ==
  ASSUME NEW e, AcceptChild(e)
  PROVE  \E c \in FD \cup {NoFd}, i \in Slots, p \in [r : FD, w : FD] :
           /\ AcceptEvent(e, c)
           /\ create_child(i, c, p)
           /\ ~ clients[i].used
           /\ TypeOK /\ Gap /\ NoneClosed /\ c \in {NoFd, FirstFd} =>
                /\ fds[p.r] = Free /\ p.r # FirstFd
                /\ fds[p.w] = Free /\ p.w # FirstFd
                /\ p.r # p.w
<1>1. PICK c \in FD \cup {NoFd} :
        /\ AcceptEvent(e, c)
        /\ \E i \in get_idle_idx_from_clients, p1 \in PipeFds(FreeFds \ {c}) :
             \E p2 \in PipeFds((FreeFds \ {c}) \ {p1[1], p1[2]}) :
               create_child(i, c, MasterEnds(p1, p2))
  BY DEF AcceptChild
<1>2. PICK i \in get_idle_idx_from_clients, p1 \in PipeFds(FreeFds \ {c}) :
        \E p2 \in PipeFds((FreeFds \ {c}) \ {p1[1], p1[2]}) :
          create_child(i, c, MasterEnds(p1, p2))
  BY <1>1
<1>a. PICK p2 \in PipeFds((FreeFds \ {c}) \ {p1[1], p1[2]}) :
        create_child(i, c, MasterEnds(p1, p2))
  BY <1>2
<1>b. i \in Slots /\ ~ clients[i].used
  BY DEF get_idle_idx_from_clients, Lowest
<1>3. p1[2] \in FD /\ p2[1] \in FD
  BY PipeResult DEF FreeFds
<1>4. MasterEnds(p1, p2) \in [r : FD, w : FD]
  BY <1>3 DEF MasterEnds
<1>5. ASSUME TypeOK, Gap, NoneClosed, c \in {NoFd, FirstFd}
      PROVE  /\ p1[2] \in FD /\ fds[p1[2]] = Free /\ p1[2] # FirstFd
             /\ p2[1] \in FD /\ fds[p2[1]] = Free /\ p2[1] # FirstFd
             /\ p1[2] # p2[1]
  BY <1>5, KeptEnds
<1> DEFINE p == MasterEnds(p1, p2)
<1>6. p.r = p2[1] /\ p.w = p1[2]
  BY DEF MasterEnds
<1> QED BY <1>1, <1>a, <1>b, <1>4, <1>5, <1>6

(* An entry that is taken for the connection c.                            *)
LEMMA EntryTaken ==
  ASSUME NEW r \in Client, NEW c \in FD \cup {NoFd}
  PROVE  [r EXCEPT !.used = TRUE, !.fd = c] \in Client
BY DEF Client

-----------------------------------------------------------------------------
(* Type correctness: the initial state, and one step per action.           *)
LEMMA TypeInit == Init => TypeOK
<1> USE LimitsAssumption, ListenersAssumption
<1> SUFFICES ASSUME Init PROVE TypeOK
  OBVIOUS
<1>1. fds \in [FD -> Object]
  BY DEF Init, Object, Perm, Free
<1>2. clients \in [Slots -> Client]
  BY DEF Init, Idle, Client
<1>3. /\ watch \in [FD -> {"no", "idle", "ready"}]
      /\ kid \in [Kids -> KidState]
      /\ backlog \in [Listeners -> Nat]
  BY DEF Init, KidState
<1>4. blocked \in BOOLEAN /\ sigchld \in BOOLEAN
  BY DEF Init
<1>5. /\ running \in Int
      /\ forked \in 0 .. MaxConns
      /\ conns \in 0 .. MaxConns
      /\ errs \in 0 .. MaxErrs
  BY DEF Init
<1>6. /\ batch \in SUBSET Event
      /\ wrote \in SUBSET Kids
      /\ erred \in SUBSET Listeners
  BY DEF Init
<1> QED BY <1>1, <1>2, <1>3, <1>4, <1>5, <1>6 DEF TypeOK

(* No action of the clients, the children or the master breaks a type.     *)
LEMMA TypeStep == TypeOK /\ [Next]_vars => TypeOK'
<1> USE LimitsAssumption, ListenersAssumption
<1> SUFFICES ASSUME TypeOK, [Next]_vars PROVE TypeOK'
  OBVIOUS
<1> USE DEF TypeOK, table, procs, net
<1>1. ASSUME NEW l \in Listeners, Connect(l) PROVE TypeOK'
  BY <1>1 DEF Connect, Wake
<1>2. ASSUME NEW l \in Listeners, SocketError(l) PROVE TypeOK'
  BY <1>2 DEF SocketError, Wake
<1>3. ASSUME NEW k \in Kids, ChildWrite(k) PROVE TypeOK'
  BY <1>3 DEF ChildWrite, Wake
<1>4. ASSUME NEW k \in Kids, ChildEnd(k) PROVE TypeOK'
  BY <1>4 DEF ChildEnd, Wake, KidState
<1>5. ASSUME NEW k \in Kids, ChildZombie(k) PROVE TypeOK'
  BY <1>5 DEF ChildZombie, KidState
<1>6. CASE sigchld_exit
  BY <1>6 DEF sigchld_exit, KidState
<1>7. CASE epoll_wait
  <2>1. PICK B \in SUBSET FD :
          /\ batch' = {[fd |-> f, obj |-> fds[f], mask |-> Mask(f)] : f \in B}
          /\ watch' = [f \in FD |-> IF f \in B THEN "idle" ELSE watch[f]]
    BY <1>7 DEF epoll_wait
  <2>2. \A f \in FD : Mask(f) \in SUBSET {"IN", "HUP", "ERR"}
    BY DEF Mask
  <2>3. batch' \in SUBSET Event
    BY <2>1, <2>2 DEF Event
  <2> QED BY <1>7, <2>1, <2>3 DEF epoll_wait
<1>8. ASSUME NEW e \in batch, HandleErr(e) PROVE TypeOK'
  BY <1>8 DEF HandleErr, Close, Object, Free
<1>9. ASSUME NEW e \in batch, HandleChildData(e) PROVE TypeOK'
  BY <1>9 DEF HandleChildData, Handled
<1>10. ASSUME NEW e \in batch, HandleHup(e) PROVE TypeOK'
  <2>1. fds' \in [FD -> Object] /\ watch' \in [FD -> {"no", "idle", "ready"}]
    BY <1>10 DEF HandleHup, Close, Object, Free
  <2>2. clients' \in [Slots -> Client]
    BY <1>10 DEF HandleHup, Idle, Client
  <2>3. running' \in Int
    BY <1>10 DEF HandleHup
  <2>4. blocked' \in BOOLEAN /\ batch' \in SUBSET Event
    BY <1>10 DEF HandleHup, Handled
  <2> QED BY <1>10, <2>1, <2>2, <2>3, <2>4 DEF HandleHup
<1>11. ASSUME NEW e \in batch, NEW c, AcceptEvent(e, c)
       PROVE  /\ batch' \in SUBSET Event
              /\ blocked' \in BOOLEAN
              /\ sigchld' \in BOOLEAN
              /\ backlog' \in [Listeners -> Nat]
              /\ erred' \in SUBSET Listeners
              /\ conns' \in 0 .. MaxConns
              /\ errs' \in 0 .. MaxErrs
  <2>1. blocked' \in BOOLEAN /\ sigchld' \in BOOLEAN
    BY <1>11 DEF AcceptEvent, Handled
  <2>2. backlog' \in [Listeners -> Nat]
    BY <1>11 DEF AcceptEvent, Accept
  <2>3. batch' \in SUBSET Event
    BY <1>11 DEF AcceptEvent, Handled
  <2> QED BY <1>11, <2>1, <2>2, <2>3 DEF AcceptEvent
<1>12. ASSUME NEW e \in batch, AcceptFull(e) PROVE TypeOK'
  BY <1>11, <1>12 DEF AcceptFull
<1>13. ASSUME NEW e \in batch, AcceptNoChild(e) PROVE TypeOK'
  <2>1. PICK c \in FD \cup {NoFd} :
          /\ AcceptEvent(e, c)
          /\ \E i \in get_idle_idx_from_clients :
               clients' = [clients EXCEPT ![i] = [@ EXCEPT !.used = TRUE, !.fd = c]]
          /\ UNCHANGED <<fds, watch, running, procs>>
    BY <1>13 DEF AcceptNoChild
  <2>2. PICK i \in Slots :
          clients' = [clients EXCEPT ![i] = [@ EXCEPT !.used = TRUE, !.fd = c]]
    BY <2>1 DEF get_idle_idx_from_clients, Lowest
  <2>3. clients' \in [Slots -> Client]
    <3>1. [clients[i] EXCEPT !.used = TRUE, !.fd = c] \in Client
      BY EntryTaken
    <3> QED BY <2>2, <3>1
  <2> QED BY <1>11, <2>1, <2>3
<1>14. ASSUME NEW e \in batch, AcceptChild(e) PROVE TypeOK'
  <2>1. PICK c \in FD \cup {NoFd}, i \in Slots, p \in [r : FD, w : FD] :
          AcceptEvent(e, c) /\ create_child(i, c, p)
    BY <1>14, ChildEnds
  <2>2. forked + 1 \in Nat
    OBVIOUS
  <2>3. fds' \in [FD -> Object]
    BY <2>1, <2>2 DEF create_child, Object, Wr, Rd
  <2>4. clients' \in [Slots -> Client]
    BY <2>1 DEF create_child, Client
  <2>5. /\ watch' \in [FD -> {"no", "idle", "ready"}]
        /\ kid' \in [Kids -> KidState]
        /\ forked' \in 0 .. MaxConns
    BY <2>1 DEF create_child, KidState, Kids
  <2> QED BY <1>11, <1>14, <2>1, <2>3, <2>4, <2>5 DEF AcceptChild
<1> QED
  BY <1>1, <1>2, <1>3, <1>4, <1>5, <1>6, <1>7, <1>8, <1>9, <1>10, <1>12,
     <1>13, <1>14 DEF Next, Environment, Master, Handler, vars

(* Every variable keeps its type, with any bounds and any faults.          *)
THEOREM TypeCorrect == Spec => []TypeOK
BY TypeInit, TypeStep, PTL DEF Spec

-----------------------------------------------------------------------------
(* The inductive invariant.                                                *)
LEMMA IInvInit == Init => IInv
<1> SUFFICES ASSUME Init PROVE IInv
  OBVIOUS
<1> USE LimitsAssumption, ListenersAssumption
<1>1. TypeOK
  BY TypeInit
<1>2. Gap
  <2>1. FirstFd \in FD /\ ~ (FirstFd < FirstFd)
    BY DEF FD
  <2>2. \A f \in FD : fds[f] = IF f < FirstFd THEN Perm ELSE Free
    BY DEF Init
  <2>3. Perm # Free
    BY DEF Perm, Free
  <2> QED BY <2>1, <2>2, <2>3 DEF Gap
<1>3. Entries /\ OneEntryPerChild
  BY DEF Init, Entries, OneEntryPerChild, Idle, NoFd, NoPid
<1>4. Owned
  BY DEF Init, Owned, Perm, Free
<1>5. Children
  BY DEF Init, Children, Alive, Kids
<1>6. Watches
  BY DEF Init, Watches, Watchable, FD
<1>7. Events
  BY DEF Init, Events
<1>8. Errors
  BY DEF Init, Errors
<1> QED BY <1>1, <1>2, <1>3, <1>4, <1>5, <1>6, <1>7, <1>8 DEF IInv

(* Steps that leave the tables alone.                                      *)
LEMMA TableFrame ==
  ASSUME IInv, UNCHANGED <<fds, clients, forked>>
  PROVE  Gap' /\ Entries' /\ OneEntryPerChild' /\ Owned'
BY DEF IInv, Gap, Entries, OneEntryPerChild, Owned

(* Steps that move registrations to the ready list.                        *)
LEMMA WakeFrame ==
  ASSUME IInv, UNCHANGED fds, NEW F, Wake(F)
  PROVE  Watches'
BY DEF IInv, TypeOK, Watches, Watchable, Wake

(* An error is reported only when there is one listening socket.           *)
LEMMA OnlyOne ==
  ASSUME ErrorsHarmless, MaxErrs # 0
  PROVE  SingleListener
<1>1. IsFiniteSet(0 .. FirstFd - 1)
  BY FS_Interval, LimitsAssumption
<1>2. IsFiniteSet(Listeners)
  BY <1>1, FS_Subset, ListenersAssumption
<1> QED BY <1>2, FS_Singleton DEF ErrorsHarmless, SingleListener

(* Steps that change no table and at most take an event off the batch.     *)
LEMMA QuietStep ==
  ASSUME IInv, TypeOK', batch' \subseteq batch,
         UNCHANGED <<fds, clients, forked, kid, watch, erred, errs>>
  PROVE  IInv'
<1>1. Children' /\ Watches' /\ Events' /\ Errors'
  BY DEF IInv, Children, Watches, Events, Watchable, Errors
<1> QED BY <1>1, TableFrame DEF IInv

(* Clients and children.                                                   *)
LEMMA EnvironmentStep ==
  ASSUME IInv, ErrorsHarmless, Environment
  PROVE  IInv'
<1>0. TypeOK'
  BY TypeStep DEF IInv, Next
<1>1. ASSUME NEW l \in Listeners, Connect(l) PROVE IInv'
  <2>1. UNCHANGED <<fds, clients, forked, kid, batch, erred, errs>> /\ Wake({l})
    BY <1>1 DEF Connect, procs
  <2>2. Children' /\ Events' /\ Errors'
    BY <2>1 DEF IInv, Children, Events, Watchable, Errors
  <2> QED BY <1>0, <2>1, <2>2, TableFrame, WakeFrame DEF IInv
<1>2. ASSUME NEW l \in Listeners, SocketError(l) PROVE IInv'
  <2>1. UNCHANGED <<fds, clients, forked, kid, batch>> /\ Wake({l})
    BY <1>2 DEF SocketError, procs
  <2>2. Children' /\ Events'
    BY <2>1 DEF IInv, Children, Events, Watchable
  <2>3. MaxErrs # 0
    <3>1. errs \in 0 .. MaxErrs /\ errs < MaxErrs
      BY <1>2 DEF SocketError, IInv, TypeOK
    <3> QED BY <3>1, LimitsAssumption
  <2>4. Errors'
    BY <2>3, OnlyOne DEF Errors, SingleListener
  <2> QED BY <1>0, <2>1, <2>2, <2>4, TableFrame, WakeFrame DEF IInv
<1>3. ASSUME NEW k \in Kids, ChildWrite(k) PROVE IInv'
  <2>1. UNCHANGED <<fds, clients, forked, kid, batch, erred, errs>>
        /\ Wake(FdsOf(Rd(k)))
    BY <1>3 DEF ChildWrite, net
  <2>2. Children' /\ Events' /\ Errors'
    BY <2>1 DEF IInv, Children, Events, Watchable, Errors
  <2> QED BY <1>0, <2>1, <2>2, TableFrame, WakeFrame DEF IInv
<1>4. ASSUME NEW k \in Kids, ChildEnd(k) PROVE IInv'
  <2>1. UNCHANGED <<fds, clients, forked, batch, erred, errs>>
        /\ Wake(FdsOf(Rd(k)))
    BY <1>4 DEF ChildEnd, net
  <2>2. PICK s \in {"ended", "killed"} : kid' = [kid EXCEPT ![k] = s]
    BY <1>4 DEF ChildEnd
  <2>3. Children'
    BY <1>4, <2>1, <2>2 DEF ChildEnd, IInv, TypeOK, Children, Alive
  <2>4. Events' /\ Errors'
    BY <2>1, <2>2 DEF IInv, TypeOK, Events, Watchable, Alive, Errors
  <2> QED BY <1>0, <2>1, <2>3, <2>4, TableFrame, WakeFrame DEF IInv
<1>5. ASSUME NEW k \in Kids, ChildZombie(k) PROVE IInv'
  <2>1. UNCHANGED <<fds, clients, forked, batch, watch, erred, errs>>
    BY <1>5 DEF ChildZombie, net, table
  <2>2. PICK s \in {"zombie", "crashed"} : kid' = [kid EXCEPT ![k] = s]
    BY <1>5 DEF ChildZombie
  <2>3. Children'
    BY <1>5, <2>1, <2>2 DEF ChildZombie, IInv, TypeOK, Children, Alive
  <2>4. Events' /\ Watches' /\ Errors'
    BY <2>1, <2>2 DEF IInv, TypeOK, Events, Watchable, Watches, Alive, Errors
  <2> QED BY <1>0, <2>1, <2>3, <2>4, TableFrame DEF IInv
<1> QED BY <1>1, <1>2, <1>3, <1>4, <1>5 DEF Environment

(* A hang-up is reported for the read end of the pipe of some child, whose *)
(* entry get_idx_with_sockfd finds.                                        *)
LEMMA HupIsChild ==
  ASSUME IInv, NEW e \in batch, e.fd \notin Listeners
  PROVE  \E i \in Slots :
           /\ clients[i].pid \in Kids
           /\ e.obj = Rd(clients[i].pid)
           /\ fds[e.fd] = Rd(clients[i].pid)
           /\ clients[i].used
           /\ clients[i].pfd_r = e.fd
           /\ get_idx_with_sockfd(e.fd) = {i}
<1>1. e.fd \in FD /\ e.obj = fds[e.fd] /\ fds[e.fd] \in Object
  BY DEF IInv, TypeOK, Events, Event
<1>2. fds[e.fd].kind = "rd"
  BY DEF IInv, Events, Watchable
<1>3. PICK i \in Slots : clients[i].pid = fds[e.fd].id /\ clients[i].pfd_r = e.fd
  BY <1>1, <1>2 DEF IInv, Owned
<1>4. clients[i] \in Client
  BY DEF IInv, TypeOK
<1>5. fds[e.fd].id \in Nat /\ clients[i].pid # NoPid
  BY <1>1, <1>3 DEF Object, NoPid
<1>6. clients[i].pid \in Kids /\ clients[i].used
  BY <1>4, <1>5 DEF Client, IInv, Entries
<1>7. fds[e.fd] = Rd(clients[i].pid)
  BY <1>3, <1>5 DEF IInv, Entries
<1>8. ASSUME NEW j \in Slots, clients[j].pfd_r = e.fd
      PROVE  j = i
  <2>1. clients[j].pid # NoPid
    BY <1>1, <1>8 DEF IInv, Entries, FD, NoFd
  <2>2. fds[e.fd] = Rd(clients[j].pid)
    BY <2>1, <1>8 DEF IInv, Entries
  <2>3. clients[j].pid = clients[i].pid
    BY <2>2, <1>7 DEF Rd
  <2> QED BY <2>1, <2>3 DEF IInv, OneEntryPerChild
<1>9. get_idx_with_sockfd(e.fd) = {i}
  <2>1. {j \in Slots : clients[j].pfd_r = e.fd /\ clients[j].used} = {i}
    BY <1>3, <1>6, <1>8
  <2>2. i <= i
    BY LimitsAssumption DEF Slots
  <2> QED BY <2>1, <2>2 DEF get_idx_with_sockfd, Lowest
<1> QED BY <1>1, <1>3, <1>6, <1>7, <1>9

(* sigchld_exit only collects children that have terminated.               *)
LEMMA SigchldStep ==
  ASSUME IInv, sigchld_exit
  PROVE  IInv'
<1>0. TypeOK'
  BY TypeStep DEF IInv, Next, Master
<1>1. UNCHANGED <<fds, clients, forked, batch, watch, erred, errs>>
  BY DEF sigchld_exit, table, net
<1>2. PICK R \in Reapable :
        kid' = [k \in Kids |-> IF k \in R THEN "reaped" ELSE kid[k]]
  BY DEF sigchld_exit
<1>3. \A k \in R : k \in Kids /\ kid[k] \in {"zombie", "crashed"}
  BY DEF Reapable, Zombies
<1>4. \A k \in Kids : /\ kid'[k] = "none" <=> kid[k] = "none"
                      /\ kid'[k] \in Alive <=> kid[k] \in Alive
  BY <1>2, <1>3 DEF Alive
<1>5. Children'
  BY <1>1, <1>4 DEF IInv, Children
<1>6. Events' /\ Watches'
  <2>1. \A e \in batch : "HUP" \in e.mask => e.obj.id \in Kids
    <3> SUFFICES ASSUME NEW e \in batch, "HUP" \in e.mask PROVE e.obj.id \in Kids
      OBVIOUS
    <3>1. e.fd \notin Listeners
      BY DEF IInv, Events
    <3>2. \E i \in Slots : clients[i].pid \in Kids /\ e.obj = Rd(clients[i].pid)
      BY <3>1, HupIsChild
    <3> QED BY <3>2 DEF Rd
  <2> QED BY <1>1, <1>4, <2>1 DEF IInv, Events, Watchable, Watches
<1>7. Errors'
  BY <1>1 DEF IInv, Errors
<1> QED BY <1>0, <1>1, <1>5, <1>6, <1>7, TableFrame DEF IInv

(* Some of the descriptors on the ready list are reported as they are, and *)
(* registrations are taken off that list.                                  *)
LEMMA ReportStep ==
  ASSUME IInv, TypeOK',
         UNCHANGED <<fds, clients, forked, kid, erred, errs>>,
         NEW B \in SUBSET {f \in FD : watch[f] = "ready"},
         batch' = {[fd |-> f, obj |-> fds[f], mask |-> Mask(f)] : f \in B},
         \A f \in FD : watch'[f] # "no" => watch[f] # "no"
  PROVE  IInv'
<1>1. \A f \in B : f \in FD /\ Watchable(f)
  BY DEF IInv, Watches
<1>2. \A f \in B : /\ "ERR" \in Mask(f) => f \in Listeners /\ SingleListener
                   /\ "HUP" \in Mask(f) =>
                        f \notin Listeners /\ kid[fds[f].id] \notin Alive
  BY DEF IInv, Mask, Errors
<1>3. Children' /\ Errors'
  BY DEF IInv, Children, Errors
<1>4. Watches'
  BY DEF IInv, Watches, Watchable
<1>5. Events'
  <2>1. \A e \in batch' : \E f \in B :
          e = [fd |-> f, obj |-> fds[f], mask |-> Mask(f)]
    OBVIOUS
  <2>2. \A e \in batch' : /\ e.fd \in B
                         /\ e.obj = fds[e.fd]
                         /\ e.mask = Mask(e.fd)
                         /\ e = [fd |-> e.fd, obj |-> fds[e.fd],
                                 mask |-> Mask(e.fd)]
    BY <2>1
  <2>3. \A e1, e2 \in batch' : e1.fd = e2.fd => e1 = e2
    BY <2>2
  <2> QED BY <1>1, <1>2, <2>2, <2>3 DEF Events, Watchable
<1> QED BY <1>3, <1>4, <1>5, TableFrame DEF IInv

(* epoll_wait reports descriptors as they are at that moment.              *)
LEMMA EpollWaitStep ==
  ASSUME IInv, epoll_wait
  PROVE  IInv'
<1>0. TypeOK'
  BY TypeStep DEF IInv, Next, Master
<1>1. UNCHANGED <<fds, clients, forked, kid, erred, errs>>
  BY DEF epoll_wait, procs, net
<1>2. PICK B \in SUBSET {f \in FD : watch[f] = "ready"} :
        /\ batch' = {[fd |-> f, obj |-> fds[f], mask |-> Mask(f)] : f \in B}
        /\ watch' = [f \in FD |-> IF f \in B THEN "idle" ELSE watch[f]]
  BY DEF epoll_wait
<1>3. \A f \in FD : watch'[f] # "no" => watch[f] # "no"
  BY <1>2
<1> QED BY <1>0, <1>1, <1>2, <1>3, ReportStep

(* EPOLLERR closes the only listening socket.                              *)
LEMMA ErrStep ==
  ASSUME IInv, NEW e \in batch, HandleErr(e)
  PROVE  IInv'
<1>0. TypeOK'
  BY TypeStep DEF IInv, Next, Master, Handler
<1>1. /\ e.fd \in Listeners /\ e.fd \in FD /\ fds[e.fd] = Perm
      /\ SingleListener
  <2>1. e.fd \in Listeners /\ SingleListener
    BY DEF HandleErr, IInv, Events
  <2>2. e.fd \in FD /\ Watchable(e.fd)
    BY DEF IInv, TypeOK, Event, Events
  <2>3. e.fd < FirstFd
    BY <2>1, ListenerNumber
  <2> QED BY <2>1, <2>2, <2>3, LimitsAssumption
          DEF Watchable, IInv, Gap, Perm, Free
<1>2. Listeners = {e.fd}
  BY <1>1 DEF SingleListener
<1>3. /\ fds' = [f \in FD |-> IF f = e.fd THEN Free ELSE fds[f]]
      /\ watch' = [f \in FD |-> IF f = e.fd THEN "no" ELSE watch[f]]
      /\ batch' = batch \ {e}
      /\ UNCHANGED <<clients, forked, kid, errs>>
  BY DEF HandleErr, Close, procs
<1>4. FirstFd \in FD /\ e.fd < FirstFd
  BY <1>1, ListenersAssumption, LimitsAssumption DEF FD
<1>5. Gap'
  <2>1. fds'[FirstFd] = Free
    BY <1>3, <1>4 DEF IInv, Gap
  <2>2. \A f \in FD : fds'[f] = Perm => f < FirstFd
    BY <1>3 DEF IInv, Gap, Perm, Free
  <2>3. \A f \in FD : f < FirstFd => \/ fds'[f] = Perm
                                     \/ fds'[f] = Free /\ Listeners = {f}
    BY <1>2, <1>3 DEF IInv, Gap
  <2> QED BY <2>1, <2>2, <2>3 DEF Gap
<1>6. \A f \in FD : fds[f].kind \in {"rd", "wr"} => fds'[f] = fds[f]
  BY <1>1, <1>3 DEF Perm
<1>7. Entries' /\ OneEntryPerChild'
  <2>1. OneEntryPerChild'
    BY <1>3 DEF IInv, OneEntryPerChild
  <2> SUFFICES ASSUME NEW i \in Slots PROVE Entries!(i)'
    BY <2>1 DEF Entries
  <2>2. ASSUME clients[i].pid # NoPid
        PROVE  /\ fds'[clients[i].pfd_r] = Rd(clients[i].pid)
               /\ fds'[clients[i].pfd_w] = Wr(clients[i].pid)
    BY <1>6, <2>2 DEF IInv, Entries, Rd, Wr
  <2> QED BY <1>3, <2>2 DEF IInv, Entries
<1>8. Owned'
  BY <1>1, <1>3 DEF IInv, Owned, Free
<1>9. Children' /\ Errors'
  BY <1>1, <1>3 DEF IInv, Children, Errors
<1>10. Watches'
  BY <1>3 DEF IInv, Watches, Watchable
<1>11. Events'
  <2>1. ASSUME NEW e2 \in batch, e2 # e PROVE fds'[e2.fd] = fds[e2.fd]
    BY <2>1, <1>3 DEF IInv, Events, TypeOK, Event
  <2> QED BY <2>1, <1>3 DEF IInv, Events, Watchable
<1> QED BY <1>0, <1>5, <1>7, <1>8, <1>9, <1>10, <1>11 DEF IInv

(* EPOLLIN on a child's pipe changes no table.                             *)
LEMMA ChildDataStep ==
  ASSUME IInv, NEW e \in batch, HandleChildData(e)
  PROVE  IInv'
<1>0. TypeOK'
  BY TypeStep DEF IInv, Next, Master, Handler
<1>1. UNCHANGED <<fds, clients, forked, kid, watch, erred, errs>>
      /\ batch' \subseteq batch
  BY DEF HandleChildData, Handled, table, procs, net
<1> QED BY <1>0, <1>1, QuietStep

(* The entry of e's pipe, if one is found, is cleaned and the pipe closed. *)
Released(e) ==
  LET idx == get_idx_with_sockfd(e.fd)
  IN /\ e.fd \notin Listeners
     /\ kid[e.obj.id] \notin Alive
     /\ batch' = batch \ {e}
     /\ Close({e.fd} \cup UNION {CleanedFds(i) : i \in idx})
     /\ clients' = [i \in Slots |-> IF i \in idx THEN Idle ELSE clients[i]]
     /\ running' = running - 1
     /\ UNCHANGED <<forked, kid, erred, errs>>

(* EPOLLHUP alone does that.                                               *)
LEMMA HupReleases ==
  ASSUME IInv, NEW e \in batch, HandleHup(e)
  PROVE  Released(e)
<1>1. kid[e.obj.id] \notin Alive
  BY DEF HandleHup, IInv, Events
<1> QED BY <1>1 DEF HandleHup, Handled, Released, procs, net

(* The descriptors closed are those of the entry that is released, and     *)
(* FirstFd, which is free.                                                 *)
LEMMA ReleaseStep ==
  ASSUME IInv, TypeOK', NEW e \in batch, Released(e)
  PROVE  IInv'
<1> USE LimitsAssumption
<1>1. e.fd \notin Listeners /\ kid[e.obj.id] \notin Alive
  BY DEF Released
<1>2. PICK i \in Slots :
        /\ clients[i].pid \in Kids
        /\ e.obj = Rd(clients[i].pid)
        /\ fds[e.fd] = Rd(clients[i].pid)
        /\ clients[i].used
        /\ clients[i].pfd_r = e.fd
        /\ get_idx_with_sockfd(e.fd) = {i}
  BY <1>1, HupIsChild
<1> DEFINE k == clients[i].pid
           w == clients[i].pfd_w
           C == {e.fd} \cup CleanedFds(i)
<1>4. /\ fds' = [f \in FD |-> IF f \in C THEN Free ELSE fds[f]]
      /\ watch' = [f \in FD |-> IF f \in C THEN "no" ELSE watch[f]]
      /\ clients' = [j \in Slots |-> IF j = i THEN Idle ELSE clients[j]]
      /\ batch' = batch \ {e}
      /\ UNCHANGED <<forked, kid, erred, errs>>
  BY <1>2 DEF Released, Close
<1>5. /\ e.fd \in FD /\ w \in FD
      /\ fds[w] = Wr(k)
      /\ clients[i].fd \in {NoFd, FirstFd}
      /\ k # NoPid
  BY <1>2 DEF IInv, Entries, TypeOK, Events, Event, Kids, NoPid
<1>6. C \subseteq {e.fd, w, FirstFd} /\ e.fd \in C /\ w \in C
  BY <1>2, <1>5 DEF CleanedFds, FD, NoFd
<1>7. FirstFd \in FD /\ fds[FirstFd] = Free
  BY DEF IInv, Gap, FD
<1>8. Gap'
  <2>1. \A f \in FD : fds'[f] = Perm <=> fds[f] = Perm
    BY <1>2, <1>4, <1>5, <1>6, <1>7 DEF Free, Perm, Rd, Wr
  <2>2. \A f \in FD : fds[f] = Free => fds'[f] = Free
    BY <1>4
  <2> QED BY <2>1, <2>2, <1>7 DEF IInv, Gap
<1>9. ASSUME NEW j \in Slots, j # i, clients[j].pid # NoPid
      PROVE  clients[j].pfd_r \notin C /\ clients[j].pfd_w \notin C
  <2>1. clients[j].pid # k
    BY <1>5, <1>9 DEF IInv, OneEntryPerChild
  <2>2. /\ fds[clients[j].pfd_r] = Rd(clients[j].pid)
        /\ fds[clients[j].pfd_w] = Wr(clients[j].pid)
    BY <1>9 DEF IInv, Entries
  <2> QED BY <2>1, <2>2, <1>2, <1>5, <1>6, <1>7 DEF Rd, Wr, Free
<1>10. Entries' /\ OneEntryPerChild'
  <2>1. \A j \in Slots : j # i => clients'[j] = clients[j]
    BY <1>4
  <2>2. clients'[i] = Idle
    BY <1>4
  <2>3. OneEntryPerChild'
    BY <2>1, <2>2 DEF IInv, OneEntryPerChild, Idle
  <2>4. Entries'
    <3> SUFFICES ASSUME NEW j \in Slots PROVE Entries!(j)'
      BY DEF Entries
    <3>1. CASE j = i
      BY <2>2, <3>1 DEF Idle
    <3>2. CASE j # i
      BY <2>1, <3>2, <1>4, <1>9 DEF IInv, Entries
    <3> QED BY <3>1, <3>2
  <2> QED BY <2>3, <2>4
<1>11. Owned'
  <2> SUFFICES ASSUME NEW f \in FD PROVE Owned!(f)'
    BY DEF Owned
  <2>1. CASE f \in C
    BY <2>1, <1>4 DEF Free
  <2>2. CASE f \notin C
    <3>1. fds'[f] = fds[f] /\ f # e.fd /\ f # w
      BY <2>2, <1>4, <1>6
    <3>2. \A j \in Slots : j # i => clients'[j] = clients[j]
      BY <1>4
    <3> QED BY <3>1, <3>2, <1>2 DEF IInv, Owned
  <2> QED BY <2>1, <2>2
<1>12. Children'
  <2>1. kid[k] \notin Alive
    BY <1>1, <1>2 DEF Rd
  <2>2. \A j \in Slots : j # i => clients'[j] = clients[j]
    BY <1>4
  <2> QED BY <2>1, <2>2, <1>4 DEF IInv, Children
<1>13. Watches'
  BY <1>4 DEF IInv, Watches, Watchable
<1>14. Events'
  <2>1. ASSUME NEW e2 \in batch, e2 # e
        PROVE  e2.fd \in FD /\ e2.fd \notin C
    <3>1. e2.fd \in FD /\ e2.fd # e.fd /\ Watchable(e2.fd)
      BY <2>1 DEF IInv, Events, TypeOK, Event
    <3>2. e2.fd # w /\ e2.fd # FirstFd
      BY <3>1, <1>5, <1>7 DEF Watchable, Wr, Perm, Free
    <3> QED BY <3>1, <3>2, <1>6
  <2> QED BY <2>1, <1>4 DEF IInv, Events, Watchable
<1>15. Errors'
  BY <1>4 DEF IInv, Errors
<1> QED BY <1>8, <1>10, <1>11, <1>12, <1>13, <1>14, <1>15 DEF IInv

(* EPOLLHUP.                                                               *)
LEMMA HupStep ==
  ASSUME IInv, NEW e \in batch, HandleHup(e)
  PROVE  IInv'
<1>1. TypeOK'
  BY TypeStep DEF IInv, Next, Master, Handler
<1> QED BY <1>1, HupReleases, ReleaseStep

(* An event of a listening socket is handled before anything closes it.    *)
LEMMA StillListening ==
  ASSUME IInv, NEW e \in batch, e.fd \in Listeners
  PROVE  NoneClosed
<1>1. e.fd \in FD /\ Watchable(e.fd)
  BY DEF IInv, TypeOK, Event, Events
<1>2. e.fd < FirstFd
  BY ListenerNumber
<1>3. fds[e.fd] = Perm
  BY <1>1, <1>2 DEF Watchable, IInv, Gap, Perm, Free
<1>4. \A f \in FD : fds[f] = Free /\ Listeners = {f} => f = e.fd
  OBVIOUS
<1> QED BY <1>3, <1>4 DEF NoneClosed, IInv, Gap, Perm, Free

(* What the handlers of a listening socket have in common.                 *)
LEMMA AcceptFrame ==
  ASSUME IInv, NEW e \in batch, NEW c, AcceptEvent(e, c)
  PROVE  /\ c \in {NoFd, FirstFd}
         /\ batch' \subseteq batch
         /\ UNCHANGED <<erred, errs>>
<1>1. NoneClosed
  BY StillListening DEF AcceptEvent
<1> QED BY <1>1, AcceptResult DEF IInv, AcceptEvent, Handled

(* clients_t is full: nothing changes.                                     *)
LEMMA AcceptFullStep ==
  ASSUME IInv, NEW e \in batch, AcceptFull(e)
  PROVE  IInv'
<1>0. TypeOK'
  BY TypeStep DEF IInv, Next, Master, Handler
<1>1. UNCHANGED <<fds, clients, forked, kid, watch>>
  BY DEF AcceptFull, table, procs
<1>2. batch' \subseteq batch /\ UNCHANGED <<erred, errs>>
  BY AcceptFrame DEF AcceptFull
<1> QED BY <1>0, <1>1, <1>2, QuietStep

(* A pipe or the fork fails: the entry is lost, with FirstFd in it.        *)
LEMMA AcceptNoChildStep ==
  ASSUME IInv, NEW e \in batch, AcceptNoChild(e)
  PROVE  IInv'
<1>0. TypeOK'
  BY TypeStep DEF IInv, Next, Master, Handler
<1>1. PICK c \in FD \cup {NoFd} :
        /\ AcceptEvent(e, c)
        /\ \E i \in get_idle_idx_from_clients :
             clients' = [clients EXCEPT ![i] = [@ EXCEPT !.used = TRUE, !.fd = c]]
        /\ UNCHANGED <<fds, watch, running, procs>>
  BY DEF AcceptNoChild
<1>2. PICK i \in Slots :
        /\ ~ clients[i].used
        /\ clients' = [clients EXCEPT ![i] = [@ EXCEPT !.used = TRUE, !.fd = c]]
  BY <1>1 DEF get_idle_idx_from_clients, Lowest
<1>3. /\ c \in {NoFd, FirstFd}
      /\ batch' \subseteq batch
      /\ UNCHANGED <<fds, watch, kid, forked, erred, errs>>
  BY <1>1, AcceptFrame DEF procs
<1>4. clients[i] = Idle
  BY <1>2 DEF IInv, Entries
<1>5. /\ clients'[i].used /\ clients'[i].fd = c
      /\ clients'[i].pid = NoPid
      /\ clients'[i].pfd_r = NoFd /\ clients'[i].pfd_w = NoFd
      /\ \A j \in Slots : j # i => clients'[j] = clients[j]
  <2>1. DOMAIN clients = Slots
    BY DEF IInv, TypeOK
  <2>2. clients'[i] = [Idle EXCEPT !.used = TRUE, !.fd = c]
    BY <1>2, <1>4, <2>1
  <2>3. \A j \in Slots : j # i => clients'[j] = clients[j]
    BY <1>2, <2>1
  <2> QED BY <2>2, <2>3 DEF Idle
<1>6. \A j \in Slots : /\ clients'[j].pid = clients[j].pid
                       /\ clients'[j].pfd_r = clients[j].pfd_r
                       /\ clients'[j].pfd_w = clients[j].pfd_w
  BY <1>4, <1>5 DEF Idle
<1>7. /\ Gap' /\ OneEntryPerChild' /\ Owned' /\ Children' /\ Watches'
      /\ Events' /\ Errors'
  BY <1>3, <1>6 DEF IInv, Gap, OneEntryPerChild, Owned, Children, Watches,
                    Events, Watchable, Errors
<1>8. Entries'
  <2> SUFFICES ASSUME NEW j \in Slots PROVE Entries!(j)'
    BY DEF Entries
  <2>1. CASE j = i
    BY <2>1, <1>3, <1>5
  <2>2. CASE j # i
    BY <2>2, <1>3, <1>5 DEF IInv, Entries
  <2> QED BY <2>1, <2>2
<1> QED BY <1>0, <1>3, <1>7, <1>8 DEF IInv

(* A child is created: its pipe ends take two free numbers above FirstFd.  *)
LEMMA AcceptChildStep ==
  ASSUME IInv, NEW e \in batch, AcceptChild(e)
  PROVE  IInv'
<1>0. TypeOK'
  BY TypeStep DEF IInv, Next, Master, Handler
<1> USE LimitsAssumption
<1>1. PICK c \in FD \cup {NoFd}, i \in Slots, p \in [r : FD, w : FD] :
        /\ AcceptEvent(e, c)
        /\ create_child(i, c, p)
        /\ ~ clients[i].used
        /\ NoneClosed /\ c \in {NoFd, FirstFd} =>
             /\ fds[p.r] = Free /\ p.r # FirstFd
             /\ fds[p.w] = Free /\ p.w # FirstFd
             /\ p.r # p.w
  BY ChildEnds DEF IInv
<1> DEFINE k == forked + 1
           r == p.r
           w == p.w
<1>2. /\ c \in {NoFd, FirstFd}
      /\ batch' \subseteq batch
      /\ UNCHANGED <<erred, errs>>
  BY <1>1, AcceptFrame
<1>a. NoneClosed
  BY <1>1, StillListening DEF AcceptEvent
<1>3. /\ r \in FD /\ fds[r] = Free /\ r # FirstFd
      /\ w \in FD /\ fds[w] = Free /\ w # FirstFd
      /\ r # w
  BY <1>1, <1>2, <1>a
<1>4. /\ k \in Kids /\ forked' = k /\ forked \in Nat
      /\ \E s \in Alive : kid' = [kid EXCEPT ![k] = s]
  <2>1. forked \in Nat
    BY DEF IInv, TypeOK
  <2>2. k \in Kids /\ forked' = k
    BY <1>1 DEF create_child
  <2>3. \E s \in Alive : kid' = [kid EXCEPT ![k] = s]
    BY <1>1 DEF create_child, Alive
  <2> QED BY <2>1, <2>2, <2>3
<1>5. /\ fds'[r] = Rd(k) /\ fds'[w] = Wr(k)
      /\ \A f \in FD : f # r /\ f # w => fds'[f] = fds[f]
  BY <1>1, <1>3 DEF create_child, IInv, TypeOK
<1>6. /\ clients'[i] = [used |-> TRUE, pid |-> k, fd |-> c,
                        pfd_r |-> r, pfd_w |-> w]
      /\ \A j \in Slots : j # i => clients'[j] = clients[j]
  <2>1. clients' = [clients EXCEPT ![i] = [used |-> TRUE, pid |-> k, fd |-> c,
                                           pfd_r |-> r, pfd_w |-> w]]
    BY <1>1 DEF create_child
  <2>2. DOMAIN clients = Slots
    BY DEF IInv, TypeOK
  <2> QED BY <2>1, <2>2
<1>7. clients[i] = Idle
  BY <1>1 DEF IInv, Entries
<1>8. \A j \in Slots : clients[j].pid # NoPid => clients[j].pid # k
  BY <1>4 DEF IInv, Entries, TypeOK
<1>9. Gap'
  <2>1. \A f \in FD : fds'[f] = Perm <=> fds[f] = Perm
    BY <1>3, <1>5 DEF Free, Perm, Rd, Wr
  <2>2. FirstFd \in FD
    BY DEF FD
  <2> QED BY <2>1, <2>2, <1>a, <1>3, <1>5 DEF IInv, Gap, NoneClosed
<1>10. OneEntryPerChild'
  <2>1. k # NoPid
    BY <1>4 DEF NoPid
  <2> QED BY <2>1, <1>6, <1>8 DEF IInv, OneEntryPerChild
<1>11. Entries'
  <2> SUFFICES ASSUME NEW j \in Slots PROVE Entries!(j)'
    BY DEF Entries
  <2>1. CASE j = i
    BY <2>1, <1>2, <1>3, <1>4, <1>5, <1>6 DEF NoPid
  <2>2. CASE j # i
    <3>1. clients'[j] = clients[j]
      BY <1>6, <2>2
    <3>2. ASSUME clients[j].pid # NoPid
          PROVE  /\ clients[j].pid <= forked'
                 /\ fds'[clients[j].pfd_r] = Rd(clients[j].pid)
                 /\ fds'[clients[j].pfd_w] = Wr(clients[j].pid)
      <4>1. /\ clients[j].pid \in Kids
            /\ clients[j].pid <= forked
            /\ clients[j].pfd_r \in FD /\ clients[j].pfd_w \in FD
            /\ fds[clients[j].pfd_r] = Rd(clients[j].pid)
            /\ fds[clients[j].pfd_w] = Wr(clients[j].pid)
        BY <3>2 DEF IInv, Entries, TypeOK, Client
      <4>2. clients[j].pid <= forked'
        BY <4>1, <1>4 DEF Kids
      <4> QED BY <4>1, <4>2, <1>3, <1>5 DEF Rd, Wr, Free
    <3> QED BY <3>1, <3>2 DEF IInv, Entries
  <2> QED BY <2>1, <2>2
<1>12. Owned'
  <2> SUFFICES ASSUME NEW f \in FD PROVE Owned!(f)'
    BY DEF Owned
  <2>1. CASE f = r
    BY <2>1, <1>5, <1>6 DEF Rd
  <2>2. CASE f = w
    BY <2>2, <1>5, <1>6 DEF Wr
  <2>3. CASE f # r /\ f # w
    <3>1. fds'[f] = fds[f] /\ fds[f] \in Object
      BY <2>3, <1>5 DEF IInv, TypeOK
    <3>2. fds[f].id # clients[i].pid
      BY <3>1, <1>7 DEF Object, Idle, NoPid
    <3> QED BY <3>1, <3>2, <1>6 DEF IInv, Owned
  <2> QED BY <2>1, <2>2, <2>3
<1>13. Children'
  <2> SUFFICES ASSUME NEW h \in Kids PROVE Children!(h)'
    BY DEF Children
  <2>1. CASE h = k
    BY <2>1, <1>4, <1>6 DEF Alive, IInv, TypeOK
  <2>2. CASE h # k
    <3>1. kid'[h] = kid[h] /\ (h > forked' <=> h > forked)
      BY <2>2, <1>4 DEF Kids, IInv, TypeOK
    <3>2. h # clients[i].pid
      BY <1>7 DEF Idle, NoPid, Kids
    <3> QED BY <3>1, <3>2, <1>6 DEF IInv, Children
  <2> QED BY <2>1, <2>2
<1>14. Watches'
  <2>1. \A f \in FD : f # r => watch'[f] = watch[f]
    BY <1>1 DEF create_child, IInv, TypeOK
  <2>2. \A f \in FD : watch[f] # "no" => f # w
    BY <1>3 DEF IInv, Watches, Watchable, Free, Perm
  <2> QED BY <2>1, <2>2, <1>5 DEF IInv, Watches, Watchable, Rd
<1>15. Events'
  <2>1. ASSUME NEW e2 \in batch
        PROVE  /\ fds'[e2.fd] = fds[e2.fd]
               /\ "HUP" \in e2.mask => kid'[e2.obj.id] = kid[e2.obj.id]
    <3>1. e2.fd \in FD /\ Watchable(e2.fd)
      BY DEF IInv, Events, TypeOK, Event
    <3>3. fds[e2.fd] # Free
      BY <3>1 DEF Watchable, Perm, Free
    <3>4. ASSUME "HUP" \in e2.mask PROVE kid'[e2.obj.id] = kid[e2.obj.id]
      <4>1. e2.fd \notin Listeners
        BY <3>4 DEF IInv, Events
      <4>2. PICK j \in Slots : clients[j].pid \in Kids /\ e2.obj = Rd(clients[j].pid)
        BY <4>1, HupIsChild
      <4>3. e2.obj.id \in Kids /\ e2.obj.id # k
        BY <4>2, <1>8 DEF Rd, Kids, NoPid
      <4> QED BY <4>3, <1>4 DEF IInv, TypeOK
    <3> QED BY <3>1, <3>3, <3>4, <1>3, <1>5
  <2> QED BY <2>1, <1>2 DEF IInv, Events, Watchable
<1> QED
  BY <1>0, <1>2, <1>9, <1>10, <1>11, <1>12, <1>13, <1>14, <1>15
  DEF IInv, Errors

(* No step breaks the invariant.                                           *)
LEMMA IInvStep ==
  ASSUME ErrorsHarmless
  PROVE  IInv /\ [Next]_vars => IInv'
<1> SUFFICES ASSUME IInv, [Next]_vars PROVE IInv'
  OBVIOUS
<1>1. CASE UNCHANGED vars
  <2>1. TypeOK'
    BY TypeStep DEF IInv
  <2>2. /\ UNCHANGED <<fds, clients, forked, kid, watch, erred, errs>>
        /\ batch' \subseteq batch
    BY <1>1 DEF vars
  <2> QED BY <2>1, <2>2, QuietStep
<1> QED
  BY <1>1, EnvironmentStep, SigchldStep, EpollWaitStep, ErrStep,
     ChildDataStep, HupStep, AcceptFullStep, AcceptNoChildStep, AcceptChildStep
  DEF Next, Master, Handler

(* The inductive invariant holds in every reachable state.                 *)
THEOREM Invariance ==
  ASSUME ErrorsHarmless
  PROVE  Spec => []IInv
BY IInvInit, IInvStep, PTL DEF Spec

(* The entry of a living child has both its pipe ends.                     *)
LEMMA KeepsPipes == IInv => SessionKeepsPipes
<1> SUFFICES ASSUME IInv, NEW k \in Kids, kid[k] \in Alive
             PROVE  \E i \in Slots :
                      /\ clients[i].used
                      /\ clients[i].pid = k
                      /\ clients[i].pfd_r \in FdsOf(Rd(k))
                      /\ clients[i].pfd_w \in FdsOf(Wr(k))
  BY DEF SessionKeepsPipes
<1>1. PICK i \in Slots : clients[i].pid = k
  BY DEF IInv, Children
<1>2. clients[i].pid # NoPid
  BY <1>1 DEF Kids, NoPid
<1> QED BY <1>1, <1>2 DEF IInv, Entries, FdsOf

(* No event of the batch is about a number that was closed since.          *)
LEMMA Fresh == IInv => EventsFresh
BY DEF IInv, Events, EventsFresh

(* The stale numbers are FirstFd, which is free.                           *)
LEMMA Harmless == IInv => StaleFdHarmless
<1>1. FirstFd \in FD
  BY LimitsAssumption DEF FD
<1> QED BY <1>1 DEF IInv, Gap, Entries, StaleFdHarmless, FreeFds

(* The owner of a pipe end is an entry in use.                             *)
LEMMA LeakFree == IInv => NoFdLeak
<1> SUFFICES ASSUME IInv, NEW f \in FD, fds[f].kind \in {"rd", "wr"}
             PROVE  \E i \in Slots :
                      /\ clients[i].used
                      /\ clients[i].pid = fds[f].id
                      /\ f \in {clients[i].pfd_r, clients[i].pfd_w}
  BY DEF NoFdLeak
<1>1. PICK i \in Slots : /\ clients[i].pid = fds[f].id
                        /\ f \in {clients[i].pfd_r, clients[i].pfd_w}
  BY DEF IInv, Owned
<1>2. clients[i].pid # NoPid
  BY <1>1 DEF IInv, TypeOK, Object, NoPid
<1> QED BY <1>1, <1>2 DEF IInv, Entries

(* No clean-up of one entry cuts the session of another.                   *)
THEOREM SessionsSafe ==
  ASSUME ErrorsHarmless
  PROVE  Spec => []SessionKeepsPipes
BY KeepsPipes, Invariance, PTL

(* No event is applied to a descriptor other than the one it was reported  *)
(* for.                                                                    *)
THEOREM EventsAreFresh ==
  ASSUME ErrorsHarmless
  PROVE  Spec => []EventsFresh
BY Fresh, Invariance, PTL

(* The second close of the number in clients_t[i].fd closes nothing.       *)
THEOREM StaleFdsHarmless ==
  ASSUME ErrorsHarmless
  PROVE  Spec => []StaleFdHarmless
BY Harmless, Invariance, PTL

(* No path of the accept handler or of the clean-up loses a pipe end.      *)
THEOREM NoLeak ==
  ASSUME ErrorsHarmless
  PROVE  Spec => []NoFdLeak
BY LeakFree, Invariance, PTL

-----------------------------------------------------------------------------
(* epoll_num_running.                                                      *)

(* The entries that have a child.                                          *)
WithChild == {i \in Slots : clients[i].pid # NoPid}

(* There are finitely many of them.                                        *)
LEMMA WithChildFinite == IsFiniteSet(WithChild)
<1>1. IsFiniteSet(Slots)
  BY FS_Interval, LimitsAssumption DEF Slots
<1> QED BY <1>1, FS_Subset DEF WithChild

(* A release takes one entry out of the count and one off the number.      *)
LEMMA ReleaseCount ==
  ASSUME IInv, NEW e \in batch, Released(e), RunningCount
  PROVE  RunningCount'
<1>1. PICK i \in Slots :
        clients[i].pid \in Kids /\ get_idx_with_sockfd(e.fd) = {i}
  BY HupIsChild DEF Released
<1>2. /\ clients' = [j \in Slots |-> IF j = i THEN Idle ELSE clients[j]]
      /\ running' = running - 1
  BY <1>1 DEF Released
<1>3. WithChild' = WithChild \ {i} /\ i \in WithChild
  BY <1>1, <1>2 DEF WithChild, Idle, Kids, NoPid
<1>4. Cardinality(WithChild') = Cardinality(WithChild) - 1
  BY <1>3, WithChildFinite, FS_RemoveElement
<1> QED BY <1>2, <1>4 DEF RunningCount, WithChild

(* A new child adds one to both.                                           *)
LEMMA ChildCount ==
  ASSUME IInv, NEW e \in batch, AcceptChild(e), RunningCount
  PROVE  RunningCount'
<1>1. PICK c \in FD \cup {NoFd}, i \in Slots, p \in [r : FD, w : FD] :
        create_child(i, c, p) /\ ~ clients[i].used
  BY ChildEnds
<1>2. clients[i].pid = NoPid
  BY <1>1 DEF IInv, Entries
<1>3. /\ forked + 1 # NoPid
      /\ DOMAIN clients = Slots
  BY DEF IInv, TypeOK, NoPid
<1>4. clients' = [clients EXCEPT ![i] =
                    [used |-> TRUE, pid |-> forked + 1, fd |-> c,
                     pfd_r |-> p.r, pfd_w |-> p.w]]
  BY <1>1 DEF create_child
<1>5. WithChild' = WithChild \cup {i} /\ i \notin WithChild
  BY <1>2, <1>3, <1>4 DEF WithChild
<1>6. Cardinality(WithChild') = Cardinality(WithChild) + 1
  BY <1>5, WithChildFinite, FS_AddElement
<1>7. running' = running + 1
  BY DEF AcceptChild
<1> QED BY <1>6, <1>7 DEF RunningCount, WithChild

(* At first there is no child.                                             *)
LEMMA CountInit == Init => RunningCount
<1> SUFFICES ASSUME Init PROVE RunningCount
  OBVIOUS
<1>1. {i \in Slots : clients[i].pid # NoPid} = {}
  BY DEF Init, Idle
<1> QED BY <1>1, FS_EmptySet DEF Init, RunningCount

(* Every step keeps the count.                                             *)
LEMMA CountStep == IInv /\ RunningCount /\ [Next]_vars => RunningCount'
<1> SUFFICES ASSUME IInv, RunningCount, [Next]_vars PROVE RunningCount'
  OBVIOUS
<1>1. ASSUME UNCHANGED <<clients, running>> PROVE RunningCount'
  BY <1>1 DEF RunningCount
<1>2. CASE Environment \/ sigchld_exit \/ epoll_wait \/ UNCHANGED vars
  BY <1>1, <1>2 DEF Environment, Connect, SocketError, ChildWrite, ChildEnd,
                    ChildZombie, sigchld_exit, epoll_wait, table, vars
<1>3. ASSUME NEW e \in batch,
             HandleErr(e) \/ HandleChildData(e) \/ AcceptFull(e)
      PROVE  RunningCount'
  BY <1>1, <1>3 DEF HandleErr, HandleChildData, AcceptFull, table
<1>4. ASSUME NEW e \in batch, AcceptNoChild(e) PROVE RunningCount'
  <2>1. PICK i \in Slots, c \in FD \cup {NoFd} :
          clients' = [clients EXCEPT ![i] = [@ EXCEPT !.used = TRUE, !.fd = c]]
    BY <1>4 DEF AcceptNoChild, get_idle_idx_from_clients, Lowest
  <2>2. \A j \in Slots : clients[j] \in Client
    BY DEF IInv, TypeOK
  <2>3. \A j \in Slots : clients'[j].pid = clients[j].pid
    BY <2>1, <2>2 DEF IInv, TypeOK, Client
  <2>4. UNCHANGED running
    BY <1>4 DEF AcceptNoChild
  <2>5. {j \in Slots : clients'[j].pid # NoPid}
          = {j \in Slots : clients[j].pid # NoPid}
    BY <2>3
  <2> QED BY <2>4, <2>5 DEF RunningCount
<1> QED BY <1>2, <1>3, <1>4, HupReleases, ReleaseCount, ChildCount DEF Next, Master, Handler

(* epoll_num_running is the number of entries with a child.                *)
THEOREM RunningCounted ==
  ASSUME ErrorsHarmless
  PROVE  Spec => []RunningCount
BY CountInit, CountStep, Invariance, PTL DEF Spec

-----------------------------------------------------------------------------
(* The master is a session pool.                                           *)

(* A step that changes neither an entry's use nor a child's liveness is a  *)
(* stutter of the pool.                                                    *)
LEMMA PoolStutter ==
  ASSUME UNCHANGED clients,
         \A k \in Kids : kid'[k] \in Alive \cup {"none"}
                         <=> kid[k] \in Alive \cup {"none"}
  PROVE  UNCHANGED <<Holder, Over>>
<1>1. UNCHANGED Holder
  BY DEF Holder
<1>2. UNCHANGED Over
  BY DEF Over
<1> QED BY <1>1, <1>2

(* A release is the end of a session whose child has terminated.           *)
LEMMA PoolRelease ==
  ASSUME IInv, NEW e \in batch, Released(e)
  PROVE  \E i \in Slots : Pool!Release(i)
<1>1. PICK i \in Slots :
        /\ clients[i].pid \in Kids
        /\ e.obj = Rd(clients[i].pid)
        /\ get_idx_with_sockfd(e.fd) = {i}
  BY HupIsChild DEF Released
<1>2. /\ clients' = [j \in Slots |-> IF j = i THEN Idle ELSE clients[j]]
      /\ UNCHANGED kid
  BY <1>1 DEF Released
<1>3. clients[i].pid # NoPid /\ Holder[i] = clients[i].pid
  BY <1>1 DEF Holder, Kids, NoPid
<1>4. Holder[i] \in Over
  <2>1. kid[clients[i].pid] \notin Alive
    BY <1>1 DEF Released, Rd
  <2>2. kid[clients[i].pid] # "none"
    BY <1>1, <1>3 DEF IInv, Children, Entries, TypeOK, Kids
  <2> QED BY <1>1, <1>3, <2>1, <2>2 DEF Over
<1>5. Holder' = [Holder EXCEPT ![i] = 0]
  BY <1>2 DEF Holder, Idle
<1>6. UNCHANGED Over
  BY <1>2 DEF Over
<1> QED BY <1>4, <1>5, <1>6 DEF Pool!Release

(* Every step of the master, its clients and its children is a step of the *)
(* pool or a stutter.                                                      *)
LEMMA PoolStep ==
  ASSUME IInv, [Next]_vars
  PROVE  [Pool!PoolNext]_(Pool!poolVars)
<1> USE DEF Pool!PoolNext, Pool!poolVars
<1>1. CASE \/ \E l \in Listeners : Connect(l) \/ SocketError(l)
           \/ \E k \in Kids : ChildWrite(k)
           \/ epoll_wait
           \/ UNCHANGED vars
  <2>1. UNCHANGED <<clients, kid>>
    BY <1>1 DEF Connect, SocketError, ChildWrite, epoll_wait, procs, vars
  <2> QED BY <2>1, PoolStutter
<1>2. ASSUME NEW k \in Kids, ChildEnd(k) PROVE Pool!Finish(k)
  <2>1. PICK s \in {"ended", "killed"} : kid' = [kid EXCEPT ![k] = s]
    BY <1>2 DEF ChildEnd
  <2>2. kid[k] \in Alive /\ UNCHANGED clients
    BY <1>2 DEF ChildEnd
  <2>3. k \notin Over /\ Over' = Over \cup {k}
    BY <2>1, <2>2 DEF Over, Alive, IInv, TypeOK
  <2>4. PICK i \in Slots : clients[i].pid = k
    BY <2>2 DEF IInv, Children
  <2>5. Holder[i] = k
    BY <2>4 DEF Holder, Kids, NoPid
  <2>6. UNCHANGED Holder
    BY <2>2 DEF Holder
  <2> QED BY <2>3, <2>5, <2>6 DEF Pool!Finish
<1>3. ASSUME NEW k \in Kids, ChildZombie(k) PROVE UNCHANGED <<Holder, Over>>
  <2>1. PICK s \in {"zombie", "crashed"} : kid' = [kid EXCEPT ![k] = s]
    BY <1>3 DEF ChildZombie
  <2>2. kid[k] \in {"ended", "killed"} /\ UNCHANGED clients
    BY <1>3 DEF ChildZombie, table
  <2> QED BY <2>1, <2>2, PoolStutter DEF Alive, IInv, TypeOK
<1>4. CASE sigchld_exit
  <2>1. PICK R \in Reapable :
          kid' = [k \in Kids |-> IF k \in R THEN "reaped" ELSE kid[k]]
    BY <1>4 DEF sigchld_exit
  <2>2. UNCHANGED clients
    BY <1>4 DEF sigchld_exit, table
  <2>3. \A k \in R : k \in Kids /\ kid[k] \in {"zombie", "crashed"}
    BY DEF Reapable, Zombies
  <2> QED BY <2>1, <2>2, <2>3, PoolStutter DEF Alive
<1>5. ASSUME NEW e \in batch,
             HandleErr(e) \/ HandleChildData(e) \/ AcceptFull(e)
      PROVE  UNCHANGED <<Holder, Over>>
  <2>1. UNCHANGED <<clients, kid>>
    BY <1>5 DEF HandleErr, HandleChildData, AcceptFull, table, procs
  <2> QED BY <2>1, PoolStutter
<1>6. ASSUME NEW e \in batch, HandleHup(e)
      PROVE  \E i \in Slots : Pool!Release(i)
  BY <1>6, HupReleases, PoolRelease
<1>7. ASSUME NEW e \in batch, AcceptNoChild(e)
      PROVE  \E i \in Slots : Pool!Lose(i)
  <2>1. PICK c \in FD \cup {NoFd}, i \in Slots :
          /\ ~ clients[i].used
          /\ clients' = [clients EXCEPT ![i] = [@ EXCEPT !.used = TRUE, !.fd = c]]
    BY <1>7 DEF AcceptNoChild, get_idle_idx_from_clients, Lowest
  <2>2. UNCHANGED kid
    BY <1>7 DEF AcceptNoChild, procs
  <2>3. clients[i] = Idle /\ DOMAIN clients = Slots
    BY <2>1 DEF IInv, Entries, TypeOK
  <2>4. clients'[i] = [Idle EXCEPT !.used = TRUE, !.fd = c]
    BY <2>1, <2>3
  <2>5. clients'[i].used /\ clients'[i].pid = NoPid
    BY <2>4 DEF Idle
  <2>6. \A j \in Slots : j # i => clients'[j] = clients[j]
    BY <2>1, <2>3
  <2>7. Holder' = [Holder EXCEPT ![i] = -1]
    BY <2>5, <2>6 DEF Holder
  <2>8. Holder[i] = 0
    BY <2>3 DEF Holder, Idle
  <2>9. UNCHANGED Over
    BY <2>2 DEF Over
  <2> QED BY <2>7, <2>8, <2>9 DEF Pool!Lose
<1>8. ASSUME NEW e \in batch, AcceptChild(e)
      PROVE  \E i \in Slots, k \in Kids : Pool!Begin(i, k)
  <2>1. PICK c \in FD \cup {NoFd}, i \in Slots, p \in [r : FD, w : FD] :
          create_child(i, c, p) /\ ~ clients[i].used
    BY <1>8, ChildEnds
  <2> DEFINE k == forked + 1
  <2>2. /\ k \in Kids
        /\ clients' = [clients EXCEPT ![i] =
                         [used |-> TRUE, pid |-> k, fd |-> c,
                          pfd_r |-> p.r, pfd_w |-> p.w]]
        /\ \E s \in Alive : kid' = [kid EXCEPT ![k] = s]
    BY <2>1 DEF create_child, Alive
  <2>3. clients[i] = Idle /\ DOMAIN clients = Slots /\ forked \in Nat
    BY <2>1 DEF IInv, Entries, TypeOK
  <2>4. kid[k] = "none"
    BY <2>2, <2>3 DEF IInv, Children
  <2>5. k \notin Over /\ UNCHANGED Over
    BY <2>2, <2>4 DEF Over, Alive, IInv, TypeOK
  <2>6. Holder[i] = 0
    BY <2>3 DEF Holder, Idle
  <2>7. \A j \in Slots : Holder[j] # k
    <3>1. \A j \in Slots : clients[j].pid # NoPid => clients[j].pid <= forked
      BY DEF IInv, Entries
    <3> QED BY <2>2, <2>3, <3>1 DEF Holder, Kids
  <2>8. Holder' = [Holder EXCEPT ![i] = k]
    BY <2>2, <2>3 DEF Holder, Kids, NoPid
  <2> QED BY <2>2, <2>5, <2>6, <2>7, <2>8 DEF Pool!Begin
<1> QED
  BY <1>1, <1>2, <1>3, <1>4, <1>5, <1>6, <1>7, <1>8
  DEF Next, Environment, Master, Handler

(* An empty table is an empty pool.                                        *)
LEMMA PoolStart == Init => Pool!PoolInit
BY DEF Init, Pool!PoolInit, Holder, Over, Idle

(* clients_t is a pool of sessions in which a place is never taken from a  *)
(* child that has not terminated and never serves two children.            *)
THEOREM PoolImplemented ==
  ASSUME ErrorsHarmless
  PROVE  Spec => ImplementsPool
<1>1. IInv /\ [Next]_vars => [Pool!PoolNext]_(Pool!poolVars)
  BY PoolStep
<1> QED
  BY <1>1, PoolStart, Invariance, PTL DEF Spec, ImplementsPool, Pool!PoolSpec
=============================================================================
