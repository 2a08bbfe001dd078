----------------------------- MODULE EpollChild -----------------------------
(***************************************************************************)
(* A child process of server_epoll: child.c.                               *)
(*                                                                         *)
(* The child waits with an edge-triggered epoll set for the client, for    *)
(* the pipe from the master and, once the client has sent its first data,  *)
(* for the back server.  What either side sends is read until EAGAIN and   *)
(* written to the other side in a loop that spins while the destination is *)
(* full.                                                                   *)
(*                                                                         *)
(* Every system call is a step; between two of them the peers send, read,  *)
(* half-close or go away, and the master may die.  The i-th byte a peer    *)
(* sends is the number i; 0 is a byte that no peer sent.                   *)
(***************************************************************************)
EXTENDS Integers, Sequences, FiniteSetsExt

CONSTANTS
  MAX_LINE,    \* size of buf
  Room,        \* bytes a socket or pipe takes before it is full
  MaxBytes,    \* bound: bytes a peer sends
  MaxOver,     \* bound: writes to the client that fail with EAGAIN
  Faults       \* the calls that may fail: "setup", "resolve", "connect",
               \* "register", "read"

ASSUME RelayAssumption ==
  /\ MAX_LINE \in Nat \ {0}
  /\ Room \in Nat \ {0}
  /\ MaxBytes \in Nat
  /\ MaxOver \in Nat
  /\ Faults \subseteq {"setup", "resolve", "connect", "register", "read"}

Peer == {"client", "back"}

(* The destinations of a write: descriptor 1 is the pipe to the master.    *)
Dest == Peer \cup {"pipe"}

VARIABLES
  pc,        \* the call that comes next
  back_ip,   \* cback_ip and cback_port are configured
  back_fd,   \* what the number in back_fd denotes
  trans,     \* client_state and back_state are TRANS
  edge,      \* epoll: registrations on the ready list
  watched,   \* epoll: registrations
  batch,     \* events of epoll_wait that are not handled yet
  src,       \* the side whose event is handled
  buf,       \* what the last read returned
  nw_tmp,    \* bytes the write loop believes are left
  why,       \* how the process ended
  sent,      \* bytes each peer has sent
  taken,     \* bytes of them the child has read
  fin,       \* peers that send no more
  gone,      \* peers that read no more
  out,       \* bytes the child has written to each destination
  drained,   \* number of them the destination has read
  master,    \* the master lives
  skipped,   \* ghost: bytes read as the client's command
  over       \* writes to the client that found its socket full

vars == <<pc, back_ip, back_fd, trans, edge, watched, batch, src, buf, nw_tmp,
          why, sent, taken, fin, gone, out, drained, master, skipped, over>>

epoll == <<edge, watched, batch>>
copy  == <<src, buf, nw_tmp>>
peers == <<sent, fin, gone, drained, master>>
state == <<back_ip, back_fd, trans>>
ghost == <<skipped, over>>

Init ==
  /\ pc = "setup"
  /\ back_ip \in BOOLEAN
  /\ back_fd = "none"
  /\ trans = FALSE
  /\ edge = {} /\ watched = {} /\ batch = {}
  /\ src = "client" /\ buf = <<>> /\ nw_tmp = 0
  /\ why = "none"
  /\ sent = [p \in Peer |-> 0]
  /\ taken = [p \in Peer |-> 0]
  /\ fin = {} /\ gone = {}
  /\ out = [d \in Dest |-> <<>>]
  /\ drained = [d \in Dest |-> 0]
  /\ master = TRUE
  /\ skipped = 0
  /\ over = 0

-----------------------------------------------------------------------------
(* The peers, the master and the epoll set.                                *)

Readable(p) == sent[p] > taken[p] \/ p \in fin

(* The registrations that epoll_wait has something to report for.          *)
Due == {p \in Peer : Readable(p)} \cup IF master THEN {} ELSE {"parent"}

Wake(p) == edge' = edge \cup ({p} \cap watched)

Reachable(p) == p = "client" \/ back_fd = "back"

mine == <<pc, state, watched, batch, copy, why, taken, out, ghost>>

Send(p) ==
  /\ Reachable(p) /\ p \notin fin
  /\ sent[p] < MaxBytes
  /\ sent' = [sent EXCEPT ![p] = @ + 1]
  /\ Wake(p)
  /\ UNCHANGED <<mine, fin, gone, drained, master>>

Receive(d) ==
  /\ d \notin gone
  /\ drained[d] < Len(out[d])
  /\ drained' = [drained EXCEPT ![d] = @ + 1]
  /\ UNCHANGED <<mine, edge, sent, fin, gone, master>>

(* shutdown of the sending direction, and close.                           *)
HalfClose(p) ==
  /\ Reachable(p) /\ p \notin fin
  /\ fin' = fin \cup {p}
  /\ Wake(p)
  /\ UNCHANGED <<mine, sent, gone, drained, master>>

Leave(p) ==
  /\ Reachable(p) /\ p \notin gone
  /\ fin' = fin \cup {p}
  /\ gone' = gone \cup {p}
  /\ Wake(p)
  /\ UNCHANGED <<mine, sent, drained, master>>

(* The master ends: its end of pfd_r is closed, nobody reads the pipe.     *)
MasterEnds ==
  /\ master
  /\ master' = FALSE
  /\ gone' = gone \cup {"pipe"}
  /\ Wake("parent")
  /\ UNCHANGED <<mine, sent, fin, drained>>

-----------------------------------------------------------------------------
exit_cleanup(w) ==
  /\ pc' = "exit"
  /\ why' = w
  /\ UNCHANGED <<state, epoll, copy, taken, peers, ghost>>

(* Configuration, epoll set, the client and the pipe from the master.      *)
Setup ==
  /\ pc = "setup"
  /\ \/ "setup" \in Faults /\ exit_cleanup("setup") /\ UNCHANGED out
     \/ /\ pc' = "wait"
        /\ watched' = {"client", "parent"}
        /\ edge' = Due \cap {"client", "parent"}
        /\ UNCHANGED <<state, batch, copy, why, taken, out, peers,
                       ghost>>

(* What is on the ready list is reported if it still is so; the timeout    *)
(* of epoll_wait only makes it be called again.                            *)
epoll_wait ==
  /\ pc = "wait"
  /\ edge # {}
  /\ batch' = edge \cap Due
  /\ edge' = {}
  /\ pc' = "dispatch"
  /\ UNCHANGED <<state, watched, copy, why, taken, out, peers, ghost>>

(* EPOLLHUP of the pipe from the master, which never writes to it.         *)
MasterGone ==
  /\ pc = "dispatch"
  /\ "parent" \in batch
  /\ exit_cleanup("master")
  /\ UNCHANGED out

(* The next event: EPOLLIN of a side is read.                              *)
Dispatch ==
  /\ pc = "dispatch"
  /\ \/ /\ batch = {}
        /\ pc' = "wait"
        /\ UNCHANGED <<state, epoll, copy, why, taken, out, peers,
                       ghost>>
     \/ \E p \in batch \cap Peer :
          /\ batch' = batch \ {p}
          /\ src' = p
          /\ pc' = "read"
          /\ UNCHANGED <<state, edge, watched, buf, nw_tmp, why,
                         taken, out, peers, ghost>>

Unread == sent[src] - taken[src]

(* read() returned the bytes s: the client's first data are its command,   *)
(* everything later is passed on.                                          *)
Process(s) ==
  /\ buf' = s
  /\ nw_tmp' = Len(s)
  /\ pc' = IF trans THEN "write" ELSE "command"
  /\ skipped' = IF trans THEN skipped ELSE skipped + Len(s)

ReadSome ==
  /\ Unread > 0
  /\ LET n == Min({Unread, MAX_LINE})
     IN /\ Process([i \in 1 .. n |-> taken[src] + i])
        /\ taken' = [taken EXCEPT ![src] = @ + n]
  /\ UNCHANGED <<state, epoll, src, why, out, peers, over>>

EndOf(p) == IF p = "back" THEN "end of back" ELSE "end of client"

(* Mutant of ReadEnd: the end is noticed before the data in front of it.   *)
ReadEndEarly ==
  /\ src \in fin
  /\ exit_cleanup(EndOf(src))
  /\ UNCHANGED out

ReadEnd ==
  /\ Unread = 0
  /\ src \in fin
  /\ exit_cleanup(EndOf(src))
  /\ UNCHANGED out

ReadError ==
  /\ "read" \in Faults \/ src \in gone
  /\ exit_cleanup("error")
  /\ UNCHANGED out

(* EAGAIN: everything has been read, the next event is looked at.          *)
ReadAgain ==
  /\ Unread = 0
  /\ src \notin fin
  /\ pc' = "dispatch"
  /\ UNCHANGED <<state, epoll, copy, why, taken, out, peers, ghost>>

Read == pc = "read" /\ (ReadSome \/ ReadEnd \/ ReadError \/ ReadAgain)

-----------------------------------------------------------------------------
(* process_client_cmd.                                                     *)

(* The error text is written, as far as the client takes it, as one byte   *)
(* that no peer sends.                                                     *)
Refuse ==
  /\ exit_cleanup("refused")
  /\ \/ out' = [out EXCEPT !["client"] = Append(@, 0)]
     \/ "client" \in gone /\ UNCHANGED out

(* The results of connect_to_back_server: the number 1, which is the pipe  *)
(* to the master, if the name cannot be resolved; -1 if no address can be  *)
(* connected to.                                                           *)
connect_to_back_server ==
  {"back"} \cup (IF "resolve" \in Faults THEN {"pipe"} ELSE {})
           \cup (IF "connect" \in Faults THEN {"none"} ELSE {})

Connect ==
  /\ pc = "command"
  /\ \/ /\ ~ back_ip
        /\ pc' = "read"
        /\ UNCHANGED <<state, epoll, copy, why, taken, out, peers, ghost>>
     \/ /\ back_ip
        /\ "none" \in connect_to_back_server
        /\ Refuse
     \/ /\ back_ip
        /\ back_fd' \in connect_to_back_server \ {"none"}
        /\ pc' = "register"
        /\ UNCHANGED <<back_ip, trans, epoll, copy, why, taken, out, peers,
                       ghost>>

(* Mutant of Register: what the back server has sent already is not seen.  *)
RegisterLate ==
  /\ pc = "register"
  /\ pc' = "read"
  /\ trans' = TRUE
  /\ watched' = watched \cup {back_fd}
  /\ UNCHANGED <<back_ip, back_fd, edge, batch, copy, why, taken, out, peers,
                 ghost>>

(* The back server is made non-blocking and joins the epoll set, on the    *)
(* ready list if it has sent something.                                    *)
Register ==
  /\ pc = "register"
  /\ \/ "register" \in Faults /\ Refuse
     \/ /\ pc' = "read"
        /\ trans' = TRUE
        /\ watched' = watched \cup {back_fd}
        /\ edge' = edge \cup (Due \cap {back_fd})
        /\ UNCHANGED <<back_ip, back_fd, batch, copy, why, taken, out, peers,
                       ghost>>

-----------------------------------------------------------------------------
(* The write loops.                                                        *)

dst == IF src = "client" THEN back_fd ELSE "client"

Free == Room - (Len(out[dst]) - drained[dst])

(* The n bytes from buf + nr - nw_tmp; those in front of buf are whatever  *)
(* the stack holds there.                                                  *)
Chunk(n) ==
  [i \in 1 .. n |-> LET j == Len(buf) - nw_tmp + i
                    IN IF j >= 1 THEN buf[j] ELSE 0]

(* Mutant of Written: one read() per event.                                *)
WrittenOnce(n) ==
  /\ out' = [out EXCEPT ![dst] = @ \o Chunk(n)]
  /\ nw_tmp' = nw_tmp - n
  /\ pc' = IF nw_tmp = n THEN "dispatch" ELSE "write"

(* write() took n bytes; after the last the side is read again.            *)
Written(n) ==
  /\ out' = [out EXCEPT ![dst] = @ \o Chunk(n)]
  /\ nw_tmp' = nw_tmp - n
  /\ pc' = IF nw_tmp = n THEN "read" ELSE "write"

WriteSome ==
  /\ \E n \in 1 .. Min({nw_tmp, Free}) : Written(n)
  /\ UNCHANGED <<state, epoll, src, buf, why, taken, peers, ghost>>

(* Mutant of Retry: the "continue" of the other loop is missing, too.      *)
RetryBoth == nw_tmp + 1

(* nw_tmp after EAGAIN.  The loop that writes to the back server tries     *)
(* again; the one that writes to the client subtracts the -1 that write()  *)
(* returned.                                                               *)
Retry == IF dst = "client" THEN nw_tmp + 1 ELSE nw_tmp

WriteFull ==
  /\ Free = 0
  /\ dst \notin gone
  /\ dst = "client" => over < MaxOver
  /\ nw_tmp' = Retry
  /\ over' = IF dst = "client" THEN over + 1 ELSE over
  /\ UNCHANGED <<pc, state, epoll, src, buf, why, taken, out, peers, skipped>>

WriteError ==
  /\ dst \in gone
  /\ exit_cleanup("error")
  /\ UNCHANGED out

Write == pc = "write" /\ (WriteSome \/ WriteFull \/ WriteError)

-----------------------------------------------------------------------------
Environment ==
  /\ pc # "exit"
  /\ \/ \E p \in Peer : Send(p) \/ HalfClose(p) \/ Leave(p)
     \/ \E d \in Dest : Receive(d)
     \/ MasterEnds

Child ==
  \/ Setup \/ epoll_wait \/ Dispatch \/ MasterGone \/ Read
  \/ Connect \/ Register \/ Write

Next == Environment \/ Child

(* The child is scheduled; peers and master owe nothing.                   *)
FairSpec == Init /\ [][Next]_vars /\ WF_vars(Child)
-----------------------------------------------------------------------------
TypeOK ==
  /\ pc \in {"setup", "wait", "dispatch", "read", "command", "register",
             "write", "exit"}
  /\ back_ip \in BOOLEAN /\ trans \in BOOLEAN
  /\ back_fd \in Dest \cup {"none"}
  /\ edge \subseteq watched /\ batch \subseteq watched
  /\ watched \subseteq Dest \cup {"parent"}
  /\ src \in Peer
  /\ buf \in Seq(Nat) /\ Len(buf) <= MAX_LINE
  /\ nw_tmp \in 0 .. MAX_LINE + MaxOver
  /\ why \in {"none", "setup", "master", "refused", "error", "end of back",
              "end of client"}
  /\ sent \in [Peer -> 0 .. MaxBytes]
  /\ taken \in [Peer -> 0 .. MaxBytes]
  /\ fin \subseteq Peer
  /\ gone \subseteq fin \cup {"pipe"}
  /\ out \in [Dest -> Seq(Nat)]
  /\ drained \in [Dest -> Nat]
  /\ master \in BOOLEAN
  /\ skipped \in 0 .. MaxBytes
  /\ over \in 0 .. MaxOver

(* A write to the client found its socket full.                            *)
stalled == over > 0

(* What is passed on is what the other side sent, in its order, without a  *)
(* gap and without a repetition, however the writes were split: to the     *)
(* back server, after the data that was taken for a command, always; to    *)
(* the client, as long as no write found its socket full.  On the way the  *)
(* variables keep their types.                                             *)
RelayInOrder ==
  /\ TypeOK
  /\ \A d \in {"back", "pipe"} : \A i \in 1 .. Len(out[d]) : out[d][i] = skipped + i
  /\ \/ stalled
     \/ why = "refused"
     \/ \A i \in 1 .. Len(out["client"]) : out["client"][i] = i

(* When the process ends because one side has closed, everything that side *)
(* sent before has been passed on.                                         *)
RelayComplete ==
  /\ why = "end of client" /\ trans => Len(out[back_fd]) = sent["client"] - skipped
  /\ why = "end of back" /\ ~ stalled => Len(out["client"]) = sent["back"]

(* Whoever reads, reads everything in the end.                             *)
PeersRead == \A d \in Dest : []<>(d \in gone \/ drained[d] = Len(out[d]))

(* If the destinations read, and the client's socket is never full, no     *)
(* edge is lost: what a side sends is read, also when it arrives while the *)
(* other side's event is handled or before the back server was registered. *)
NoLostEdge ==
  PeersRead /\ []~stalled =>
    \A p \in Peer : sent[p] > taken[p] ~> sent[p] = taken[p] \/ pc = "exit"

(* Under the same conditions the process ends after a side has closed or   *)
(* the master has died: none is left behind.                               *)
RelayEnds ==
  PeersRead /\ []~stalled => (fin # {} \/ ~ master ~> pc = "exit")
=============================================================================
