------------------------------ MODULE CtChild ------------------------------
(***************************************************************************)
(* A child process of ctproxy: ctchild.c, with safe_write of ctio.c.       *)
(*                                                                         *)
(* The child connects to the back server and copies what either side sends *)
(* to the other, one direction at a time, through one buffer.  A copy may  *)
(* take several writes; safe_write waits for the destination and gives up  *)
(* when it stays full.                                                     *)
(*                                                                         *)
(* Every system call is a step; between two of them the peers send, read,  *)
(* half-close or go away.  The i-th byte a peer sends is the number i.     *)
(***************************************************************************)
EXTENDS Integers, Sequences

CONSTANTS
  MAXBUF,      \* size of iobuf
  Room,        \* bytes a socket or pipe takes before it is full
  MaxBytes,    \* bound: bytes a peer sends
  Faults,      \* the calls that may fail: "config", "resolve", "connect",
               \* "ndelay", "select", "read"
  FallsOff     \* results of a function that ends without a return statement

ASSUME BuffersAssumption ==
  /\ MAXBUF \in Nat \ {0}
  /\ Room \in Nat \ {0}
  /\ MaxBytes \in Nat

ASSUME FaultsAssumption ==
  /\ Faults \subseteq {"config", "resolve", "connect", "ndelay", "select", "read"}
  /\ FallsOff \subseteq {"ok", "negative"}

Peer == {"client", "back"}
Other(p) == IF p = "client" THEN "back" ELSE "client"

(* The destinations of a write: descriptor 1 is the pipe to the master.    *)
Dest == Peer \cup {"pipe"}

(* "@ERROR: SYSTEM ERROR ...", as one byte that no peer sends.             *)
ErrorText == <<0>>

VARIABLES
  pc,        \* the call that comes next
  back_fd,   \* what the number in back_fd denotes
  ready,     \* rfds after select
  dst,       \* safe_write: destination
  buf,       \* safe_write: what is left to write
  after,     \* where to go on when safe_write succeeds
  waited,    \* safe_write: timeouts of select since the last write
  why,       \* how trans_data or main ended
  sent,      \* bytes each peer has sent
  taken,     \* bytes of them the child has read
  fin,       \* peers that send no more
  gone,      \* peers that read no more
  out,       \* bytes the child has written to each destination
  drained    \* number of them the destination has read

vars == <<pc, back_fd, ready, dst, buf, after, waited, why,
          sent, taken, fin, gone, out, drained>>

net  == <<sent, taken, fin, gone, out, drained>>
call == <<dst, buf, after, waited>>

Init ==
  /\ pc = "start"
  /\ back_fd = "none"
  /\ ready = {}
  /\ dst = "client"
  /\ buf = <<>>
  /\ after = "exit"
  /\ waited = 0
  /\ why = "none"
  /\ sent = [p \in Peer |-> 0]
  /\ taken = [p \in Peer |-> 0]
  /\ fin = {}
  /\ gone = {}
  /\ out = [d \in Dest |-> <<>>]
  /\ drained = [d \in Dest |-> 0]

-----------------------------------------------------------------------------
(* The peers.                                                              *)

Reachable(p) == p = "client" \/ back_fd = "back"

Send(p) ==
  /\ Reachable(p) /\ p \notin fin
  /\ sent[p] < MaxBytes
  /\ sent' = [sent EXCEPT ![p] = @ + 1]
  /\ UNCHANGED <<pc, back_fd, ready, call, why, taken, fin, gone, out, drained>>

Receive(p) ==
  /\ p \notin gone
  /\ drained[p] < Len(out[p])
  /\ drained' = [drained EXCEPT ![p] = @ + 1]
  /\ UNCHANGED <<pc, back_fd, ready, call, why, sent, taken, fin, gone, out>>

(* shutdown of the sending direction, and close.                           *)
HalfClose(p) ==
  /\ Reachable(p) /\ p \notin fin
  /\ fin' = fin \cup {p}
  /\ UNCHANGED <<pc, back_fd, ready, call, why, sent, taken, gone, out, drained>>

Leave(p) ==
  /\ Reachable(p) /\ p \notin gone
  /\ fin' = fin \cup {p}
  /\ gone' = gone \cup {p}
  /\ UNCHANGED <<pc, back_fd, ready, call, why, sent, taken, out, drained>>

-----------------------------------------------------------------------------
(* main, until trans_data.                                                 *)

exit_cleanup(w) ==
  /\ pc' = "exit"
  /\ why' = w
  /\ UNCHANGED <<back_fd, ready, call, net>>

(* A call of safe_write begins.                                            *)
safe_write(d, s, next) ==
  /\ pc' = "write"
  /\ dst' = d
  /\ buf' = s
  /\ after' = next
  /\ waited' = 0

Refuse ==
  /\ safe_write("client", ErrorText, "exit")
  /\ UNCHANGED <<ready, why, net>>

Start ==
  /\ pc = "start"
  /\ \/ "config" \in Faults /\ exit_cleanup("config")
     \/ "ndelay" \in Faults /\ Refuse /\ UNCHANGED back_fd
     \/ pc' = "connect" /\ UNCHANGED <<back_fd, ready, call, why, net>>

(* The results of connect_to_back_server: the number 1, which is the pipe  *)
(* to the master, if the name cannot be resolved; -1 if no address can be  *)
(* connected to.                                                           *)
connect_to_back_server ==
  {"back"} \cup (IF "resolve" \in Faults THEN {"pipe"} ELSE {})
           \cup (IF "connect" \in Faults THEN {"none"} ELSE {})

Connect ==
  /\ pc = "connect"
  /\ back_fd' \in connect_to_back_server
  /\ \/ back_fd' = "none" /\ Refuse
     \/ back_fd' # "none" /\ "ndelay" \in Faults /\ Refuse
     \/ /\ back_fd' # "none"
        /\ pc' = "select"
        /\ UNCHANGED <<ready, call, why, net>>

-----------------------------------------------------------------------------
(* trans_data.                                                             *)

(* Nothing is ever read from the write end of a pipe.                      *)
Readable == {p \in Peer : Reachable(p) /\ (sent[p] > taken[p] \/ p \in fin)}

(* select without a ready descriptor times out and is called again.        *)
Select ==
  /\ pc = "select"
  /\ \/ /\ Readable # {}
        /\ ready' = Readable
        /\ pc' = "read back"
        /\ UNCHANGED <<back_fd, call, why, net>>
     \/ "select" \in Faults /\ exit_cleanup("error")

ReadOf(p) == IF p = "back" THEN "read back" ELSE "read client"
EndOf(p)  == IF p = "back" THEN "end of back" ELSE "end of client"

NextRead(p) == IF p = "back" THEN "read client" ELSE "select"

Bytes(p, n) == [i \in 1 .. n |-> taken[p] + i]

Skip(p) ==
  /\ p \notin ready
  /\ pc' = NextRead(p)
  /\ UNCHANGED <<back_fd, ready, call, why, net>>

ReadSome(p) ==
  /\ p \in ready
  /\ \E n \in 1 .. MAXBUF :
       /\ n <= sent[p] - taken[p]
       /\ taken' = [taken EXCEPT ![p] = @ + n]
       /\ safe_write(IF p = "client" THEN back_fd ELSE "client",
                     Bytes(p, n), NextRead(p))
  /\ UNCHANGED <<back_fd, ready, why, sent, fin, gone, out, drained>>

(* Mutant of ReadEnd: a peer that sends no more is taken for one of which  *)
(* everything has been read.                                               *)
ReadEndEarly(p) ==
  /\ p \in ready
  /\ p \in fin
  /\ exit_cleanup(EndOf(p))

ReadEnd(p) ==
  /\ p \in ready
  /\ sent[p] = taken[p]
  /\ exit_cleanup(EndOf(p))

(* A peer that went away may have reset the connection.                    *)
ReadError(p) ==
  /\ p \in ready
  /\ p \in gone \/ "read" \in Faults
  /\ exit_cleanup("error")

Read(p) ==
  /\ pc = ReadOf(p)
  /\ Skip(p) \/ ReadSome(p) \/ ReadEnd(p) \/ ReadError(p)

-----------------------------------------------------------------------------
(* safe_write.                                                             *)

Free == Room - (Len(out[dst]) - drained[dst])

Drop(s, n) == SubSeq(s, n + 1, Len(s))

(* write() takes n bytes.                                                  *)
Written(n) ==
  /\ n \in 1 .. Len(buf)
  /\ n <= Free
  /\ out' = [out EXCEPT ![dst] = @ \o SubSeq(buf, 1, n)]

Returns(result) ==
  IF result = "ok" \/ after = "exit"
    THEN pc' = after /\ why' = IF after = "exit" THEN "refused" ELSE why
    ELSE pc' = "exit" /\ why' = "error"

Fails ==
  /\ Returns("negative")
  /\ UNCHANGED <<back_fd, ready, call, net>>

(* Mutant of FirstWrite: buf is not advanced past what was written.        *)
FirstWriteRestarts ==
  /\ pc = "write"
  /\ \/ \E n \in 1 .. Len(buf) :
          /\ Written(n)
          /\ IF n = Len(buf)
               THEN Returns("ok") /\ UNCHANGED buf
               ELSE pc' = "wait" /\ UNCHANGED <<buf, why>>
          /\ UNCHANGED <<back_fd, ready, dst, after, waited,
                         sent, taken, fin, gone, drained>>
     \/ /\ Free = 0
        /\ pc' = "wait"
        /\ UNCHANGED <<back_fd, ready, call, why, net>>
     \/ dst \in gone /\ Fails

FirstWrite ==
  /\ pc = "write"
  /\ \/ \E n \in 1 .. Len(buf) :
          /\ Written(n)
          /\ IF n = Len(buf)
               THEN Returns("ok") /\ UNCHANGED buf
               ELSE /\ buf' = Drop(buf, n)
                    /\ pc' = "wait"
                    /\ UNCHANGED why
          /\ UNCHANGED <<back_fd, ready, dst, after, waited,
                         sent, taken, fin, gone, drained>>
     \/ /\ Free = 0
        /\ pc' = "wait"
        /\ UNCHANGED <<back_fd, ready, call, why, net>>
     \/ dst \in gone /\ Fails

(* The loop: select says that the destination takes more.  When all is     *)
(* written the function ends without a return statement.                   *)
WriteMore ==
  /\ pc = "wait"
  /\ \/ \E n \in 1 .. Len(buf) :
          /\ Written(n)
          /\ buf' = Drop(buf, n)
          /\ waited' = 0
          /\ IF n = Len(buf)
               THEN \E r \in FallsOff : Returns(r)
               ELSE UNCHANGED <<pc, why>>
          /\ UNCHANGED <<back_fd, ready, dst, after,
                         sent, taken, fin, gone, drained>>
     \/ dst \in gone /\ Fails

(* Mutant of WriteTimeout: the time of the last write is forgotten.        *)
WriteTimeoutForever ==
  /\ pc = "wait"
  /\ Free = 0
  /\ waited' = 1
  /\ UNCHANGED <<pc, back_fd, ready, dst, buf, after, why, net>>

(* select timed out: after timeout_seconds the difference of the clocks    *)
(* may be that number or one more, and only more than it is a timeout;     *)
(* after the second time it is.                                            *)
WriteTimeout ==
  /\ pc = "wait"
  /\ Free = 0
  /\ \/ Fails
     \/ /\ waited = 0
        /\ waited' = 1
        /\ UNCHANGED <<pc, back_fd, ready, dst, buf, after, why, net>>

-----------------------------------------------------------------------------
Peers ==
  \E p \in Peer : Send(p) \/ Receive(p) \/ HalfClose(p) \/ Leave(p)

Child ==
  \/ Start \/ Connect \/ Select
  \/ Read("back") \/ Read("client")
  \/ FirstWrite \/ WriteMore \/ WriteTimeout

Next == Peers \/ Child

(* The child is scheduled, and time passes; the peers owe nothing.         *)
Fairness == WF_vars(Child)

Spec == Init /\ [][Next]_vars

FairSpec == Spec /\ Fairness
-----------------------------------------------------------------------------
TypeOK ==
  /\ pc \in {"start", "connect", "select", "read back", "read client",
             "write", "wait", "exit"}
  /\ back_fd \in Dest \cup {"none"}
  /\ ready \subseteq Peer
  /\ dst \in Dest
  /\ buf \in Seq(Nat)
  /\ after \in {"select", "read client", "exit"}
  /\ waited \in 0 .. 1
  /\ why \in {"none", "config", "refused", "error", "end of back", "end of client"}
  /\ sent \in [Peer -> 0 .. MaxBytes]
  /\ taken \in [Peer -> 0 .. MaxBytes]
  /\ fin \subseteq Peer
  /\ gone \subseteq fin
  /\ out \in [Dest -> Seq(Nat)]
  /\ drained \in [Dest -> Nat]

(* What the proxy passes on is what the other side sent, in its order,     *)
(* without a gap and without a repetition, however the writes were split;  *)
(* on the way the variables keep their types.                              *)
InOrder ==
  /\ TypeOK
  /\ \A p \in Peer :
       \/ \A i \in 1 .. Len(out[p]) : out[p][i] = i
       \/ p = "client" /\ out[p] = ErrorText

(* When a session ends because one side has closed, everything that side   *)
(* sent before has been passed on.                                         *)
AllPassedOn ==
  \A p \in Peer :
    why = EndOf(p) /\ back_fd = "back" =>
      Len(out[Other(p)]) = sent[p]

(* A session ends when one of its sides has closed, even if the other side *)
(* does not read.                                                          *)
SessionEnds == fin # {} /\ pc \notin {"start", "connect"} ~> pc = "exit"
=============================================================================
