------------------------------ MODULE EchoMan ------------------------------
(***************************************************************************)
(* samples/epoll_echoman.c: a server that answers what clients send, on an *)
(* edge-triggered epoll.                                                   *)
(*                                                                         *)
(* The kernel's side: a descriptor is put on the ready list when something *)
(* happens to it, or when its registration is changed while a condition of *)
(* interest holds, and leaves it when epoll_wait reports it.  The one      *)
(* struct event of main keeps the descriptor it was last given.            *)
(***************************************************************************)
EXTENDS Integers, Sequences, SequencesExt, FiniteSets

CONSTANTS
  EchoClients,
  EchoFds,       \* the free descriptors of the server, numbers
  EchoSends      \* bound: messages of a client

SFD == 0
NoClient == "no client"

ASSUME EchoAssumption ==
  /\ EchoFds \subseteq Nat \ {SFD} /\ IsFiniteSet(EchoFds)
  /\ NoClient \notin EchoClients
  /\ EchoSends \in Nat

VARIABLES
  em,      \* the server: batch of events, event.data.fd, state
  ek,      \* the kernel: connections, registrations, ready list, backlog
  ec       \* the clients

echoVars == <<em, ek, ec>>

(* of: the client that a descriptor is connected to.  History marks:       *)
(* overlap, two connections have been open at once; failed, accept failed  *)
(* while connections were waiting, and none has come since.                *)
EchoInit ==
  /\ em = [batch |-> <<>>, evfd |-> SFD, state |-> "up"]
  /\ ek = [of |-> [f \in EchoFds |-> NoClient], mask |-> [f \in EchoFds |-> "IN"],
           data |-> [f \in EchoFds |-> f], ready |-> {}, backlog |-> <<>>,
           overlap |-> FALSE, failed |-> FALSE]
  /\ ec = [c \in EchoClients |->
             [state |-> "new", sent |-> 0, unread |-> 0, reads |-> 0, replies |-> 0]]

IsOpen(k, f) == f \in EchoFds /\ k.of[f] # NoClient
FdOf(c) == {f \in EchoFds : ek.of[f] = c}

(* What poll says of a descriptor, and the events that are reported.       *)
Reset == {"reset", "dead"}
PollIn(k, p, f) == p[k.of[f]].unread > 0 \/ p[k.of[f]].state \in {"eof"} \cup Reset
Report(f) ==
  IF f = SFD THEN IF ek.backlog # <<>> THEN {"IN"} ELSE {}
  ELSE IF ~ IsOpen(ek, f) THEN {}
  ELSE (IF ek.mask[f] = "IN" /\ PollIn(ek, ec, f) THEN {"IN"} ELSE {})
       \cup (IF ek.mask[f] = "OUT" THEN {"OUT"} ELSE {})
       \cup (IF ec[ek.of[f]].state \in Reset THEN {"ERR"} ELSE {})

-----------------------------------------------------------------------------
EchoConnect(c) ==
  /\ ec[c].state = "new"
  /\ ec' = [ec EXCEPT ![c].state = "connected"]
  /\ ek' = [ek EXCEPT !.backlog = Append(@, c), !.ready = @ \cup {SFD}, !.failed = FALSE]
  /\ UNCHANGED em

EchoSend(c) ==
  /\ ec[c].state = "connected" /\ ec[c].sent < EchoSends
  /\ ec' = [ec EXCEPT ![c].sent = @ + 1, ![c].unread = @ + 1]
  /\ ek' = [ek EXCEPT !.ready = @ \cup FdOf(c)]
  /\ UNCHANGED em

(* The client closes its connection, in order or not, or first in order    *)
(* and then not.  What it had sent can still be read.  A reset leaves an   *)
(* error that the server's next call on the connection is told; "dead" is  *)
(* a reset connection whose next write raises SIGPIPE: the error has been  *)
(* told, or was EPIPE because the client had closed in order before.       *)
EchoLeave(c, how) ==
  /\ \/ ec[c].state = "connected" /\ how \in {"eof", "reset"}
     \/ ec[c].state = "eof" /\ how = "dead"
  /\ ec' = [ec EXCEPT ![c].state = how]
  /\ ek' = [ek EXCEPT !.ready = @ \cup FdOf(c)]
  /\ UNCHANGED em

-----------------------------------------------------------------------------
Running == em.state = "up"

(* epoll_wait: the ready descriptors of which there is something to tell,  *)
(* in some order.  An event carries the number that its descriptor was     *)
(* registered with.                                                        *)
Told == {f \in ek.ready : Report(f) # {}}
EventOf(f) == [on |-> Report(f), fd |-> IF f = SFD THEN SFD ELSE ek.data[f]]

EchoWait ==
  /\ Running /\ em.batch = <<>> /\ ek.ready # {}
  /\ \E order \in SetToSeqs(Told) :
       em' = [em EXCEPT !.batch = [i \in 1 .. Len(order) |-> EventOf(order[i])]]
  /\ ek' = [ek EXCEPT !.ready = {}]
  /\ UNCHANGED ec

Lowest1(S) == CHOOSE f \in S : \A g \in S : f <= g
Free(k) == {f \in EchoFds : ~ IsOpen(k, f)}
Open(k) == EchoFds \ Free(k)

(* close also removes the descriptor from the epoll.                       *)
Shut(k, f) ==
  IF IsOpen(k, f) THEN [k EXCEPT !.of[f] = NoClient, !.ready = @ \ {f}] ELSE k

(* EPOLL_CTL_ADD or _MOD of f, with data.fd = d.                           *)
Ctl(k, p, f, mask, d) ==
  IF ~ IsOpen(k, f) THEN k
  ELSE [k EXCEPT !.mask[f] = mask, !.data[f] = d,
                 !.ready = IF mask = "OUT" \/ PollIn(k, p, f) THEN @ \cup {f} ELSE @]

AcceptOne(k, c) ==
  LET f == Lowest1(Free(k))
  IN Ctl([k EXCEPT !.of[f] = c, !.overlap = @ \/ Open(k) # {}], ec, f, "IN", f)

Event == Head(em.batch)
Done(evfd, state) == em' = [batch |-> Tail(em.batch), evfd |-> evfd, state |-> state]
Handling == Running /\ em.batch # <<>>

(* EPOLLERR or EPOLLHUP: the descriptor that the event carries is closed.  *)
OnError ==
  /\ Handling /\ "ERR" \in Event.on
  /\ ek' = Shut(ek, Event.fd)
  /\ Done(em.evfd, "up")
  /\ UNCHANGED ec

(* The listening socket: accept is called until it gives no connection.    *)
AtListener ==
  Handling /\ "ERR" \notin Event.on /\ "IN" \in Event.on /\ Event.fd = SFD

(* Mutant of OnAccept: one connection is accepted for an event.            *)
OnAcceptOne ==
  /\ AtListener /\ ek.backlog # <<>> /\ Free(ek) # {}
  /\ ek' = AcceptOne([ek EXCEPT !.backlog = Tail(@)], Head(ek.backlog))
  /\ Done(Lowest1(Free(ek)), "up")
  /\ UNCHANGED ec

(* A connection is accepted and registered, and event keeps its number.    *)
OnAccept ==
  /\ AtListener /\ ek.backlog # <<>> /\ Free(ek) # {}
  /\ ek' = AcceptOne([ek EXCEPT !.backlog = Tail(@)], Head(ek.backlog))
  /\ em' = [em EXCEPT !.evfd = Lowest1(Free(ek))]
  /\ UNCHANGED ec

(* No connection is waiting, or accept fails.                              *)
OnAcceptEnd ==
  /\ AtListener
  /\ ek' = [ek EXCEPT !.failed = ek.backlog # <<>>]
  /\ Done(em.evfd, "up")
  /\ UNCHANGED ec

(* The data were read: the descriptor waits for room to write, under the   *)
(* number that event happens to hold.                                      *)
Interest(k, p, f) == Ctl(k, p, f, "OUT", em.evfd)

(* read finds the end of the connection, or an error, after the data.      *)
AtEnd(c) == ec[c].state \in {"eof"} \cup Reset

(* A connection: everything is read, then the end is looked for.           *)
OnRead ==
  LET f == Event.fd
      c == ek.of[f]
      p == [ec EXCEPT ![c].unread = 0, ![c].reads = @ + IF ec[c].unread > 0 THEN 1 ELSE 0]
      k == IF ec[c].unread > 0 THEN Interest(ek, p, f) ELSE ek
  IN /\ Handling /\ "ERR" \notin Event.on /\ "IN" \in Event.on
     /\ f # SFD
     /\ Done(em.evfd, "up")
     /\ \/ ~ IsOpen(ek, f) /\ UNCHANGED <<ek, ec>>
        \/ /\ IsOpen(ek, f)
           /\ ec' = p
           /\ ek' = IF AtEnd(c) THEN Shut(k, f) ELSE k

(* The answer, and back to reading, whatever became of the answer: the     *)
(* result of write is not looked at.  The first write after a reset fails  *)
(* with ECONNRESET, the next raises SIGPIPE, which is not caught.          *)
OnWrite ==
  LET f == Event.fd
      c == ek.of[f]
      p == IF ec[c].state = "reset" THEN [ec EXCEPT ![c].state = "dead"]
           ELSE [ec EXCEPT ![c].replies = @ + 1]
  IN /\ Handling /\ Event.on = {"OUT"}
     /\ f # SFD
     /\ \/ ~ IsOpen(ek, f) /\ Done(em.evfd, "up") /\ UNCHANGED <<ek, ec>>
        \/ /\ IsOpen(ek, f) /\ ec[c].state = "dead"
           /\ Done(em.evfd, "killed")
           /\ UNCHANGED <<ek, ec>>
        \/ /\ IsOpen(ek, f) /\ ec[c].state # "dead"
           /\ ec' = p
           /\ ek' = Ctl(ek, p, f, "IN", em.evfd)
           /\ Done(em.evfd, "up")

EchoNext ==
  \/ \E c \in EchoClients :
       \/ EchoConnect(c)
       \/ EchoSend(c)
       \/ \E how \in {"eof", "reset", "dead"} : EchoLeave(c, how)
  \/ EchoWait
  \/ OnError \/ OnAccept \/ OnAcceptEnd \/ OnRead \/ OnWrite
-----------------------------------------------------------------------------
(* As long as no two connections were open at once, every client that has  *)
(* not reset its connection is answered once for every time its messages   *)
(* were read, and none is answered before.  With two, event.data.fd names  *)
(* the other one and answers go astray; after a reset the answer is lost   *)
(* and the server goes on as if it had been given.                         *)
EchoOwn ==
  \A c \in EchoClients :
    LET waiting == \E f \in FdOf(c) : ek.mask[f] = "OUT"
        given == ec[c].replies + (IF waiting THEN 1 ELSE 0)
    IN ~ ek.overlap /\ FdOf(c) # {} =>
         /\ given <= ec[c].reads
         /\ ec[c].state \notin Reset => given = ec[c].reads

(* No edge is lost, however many connections are open, on the listening    *)
(* socket and on the connection that was accepted last: while it has       *)
(* something to read, or an answer is to be written, it is on the ready    *)
(* list or in the batch, under its own number.  A client that waits to be  *)
(* accepted wakes the listening socket, unless accept failed meanwhile: it *)
(* then waits until another client comes.                                  *)
EdgesKept ==
  LET due(f) == f \in ek.ready \/ \E i \in DOMAIN em.batch : em.batch[i].fd = f
  IN Running =>
       /\ ek.backlog # <<>> /\ ~ ek.failed => due(SFD)
       /\ \A f \in Open(ek) :
            /\ f = em.evfd \/ ~ ek.overlap
            /\ ek.mask[f] = "OUT" \/ PollIn(ek, ec, f)
            => due(f)

(* As long as no two connections were open at once, a connection is closed *)
(* only when its own client has left.                                      *)
StaysConnected ==
  \A c \in EchoClients :
    ~ ek.overlap /\ ec[c].state = "connected" /\ ~ Contains(ek.backlog, c) => FdOf(c) # {}

(* The echo server answers each client for what it read from it, misses no *)
(* edge of the connection accepted last, and closes none but that of a     *)
(* client that left.                                                       *)
EchoCorrect ==
  /\ EchoOwn
  /\ EdgesKept
  /\ StaysConnected
=============================================================================
