--------------------------- MODULE CtChildProofs ---------------------------
(***************************************************************************)
(* Proofs about a child of ctproxy for any size of its buffer, of the      *)
(* sockets and of what the peers send.                                     *)
(*                                                                         *)
(* The bytes are accounted for: what was written to a destination and what *)
(* safe_write still holds is together what was read from the other side.   *)
(* The buffer is shared by both directions, so this needs to know, at each *)
(* call, which direction is in the buffer and that the other one is        *)
(* complete.                                                               *)
(***************************************************************************)
EXTENDS CtChild, TLAPS, SequenceTheorems

Counting(s) == \A i \in 1 .. Len(s) : s[i] = i

(* A copy between the peers is under way: safe_write was called by         *)
(* trans_data.                                                             *)
Copying == pc \in {"write", "wait"} /\ after # "exit"

(* The side whose bytes are being copied.                                  *)
Source == IF after = "select" THEN "client" ELSE "back"

(* trans_data has been reached and has not returned.                       *)
Relaying == pc \in {"select", "read back", "read client"} \/ Copying

Numbers ==
  /\ \A p \in Peer : taken[p] <= sent[p]
  /\ why # "none" => pc = "exit"
  /\ why = "none" => pc # "exit"

(* Nothing is passed on before trans_data, and only the error text is      *)
(* written if the child never gets there.                                  *)
Before ==
  pc \in {"start", "connect"} =>
    back_fd = "none" /\ out = [d \in Dest |-> <<>>] /\ taken = [p \in Peer |-> 0]

Refusing ==
  pc \in {"write", "wait"} /\ after = "exit" =>
    dst = "client" /\ buf = ErrorText /\ out = [d \in Dest |-> <<>>]

(* The client is not its own back server.                                  *)
Usable == back_fd # "client"

(* Which direction is in the buffer, and what is left of it.               *)
Direction ==
  Copying =>
    /\ dst = IF Source = "client" THEN back_fd ELSE "client"
    /\ Source = "back" => back_fd = "back"
    /\ buf # <<>>
    /\ Len(out[dst]) + Len(buf) = taken[Source]
    /\ \A i \in 1 .. Len(buf) : buf[i] = Len(out[dst]) + i

(* Every direction that is not in the buffer has been passed on.           *)
PassedOn ==
  Relaying =>
    /\ back_fd # "none"
    /\ ~ (Copying /\ Source = "client") => Len(out[back_fd]) = taken["client"]
    /\ ~ (Copying /\ Source = "back") => Len(out["client"]) = taken["back"]

(* What select has reported of a side stays true until that side is read.  *)
Reported ==
  /\ pc = "read back" /\ "back" \in ready => "back" \in Readable
  /\ (pc \in {"read back", "read client"} \/ (Copying /\ Source = "back"))
       /\ "client" \in ready => "client" \in Readable

InSequence ==
  /\ Counting(out["back"]) /\ Counting(out["pipe"])
  /\ Counting(out["client"]) \/ (pc = "exit" /\ out["client"] = ErrorText)

(* After the end of a side nothing can be added to what it sent.           *)
Ended == \A p \in Peer : why = EndOf(p) =>
  p \in fin /\ (back_fd = "back" => Len(out[Other(p)]) = sent[p])

IInv ==
  /\ TypeOK
  /\ Numbers
  /\ Before
  /\ Usable
  /\ Refusing
  /\ Direction
  /\ PassedOn
  /\ Reported
  /\ InSequence
  /\ Ended

-----------------------------------------------------------------------------
(* What one write() leaves of the buffer.                                  *)
LEMMA Rest ==
  ASSUME NEW b \in Seq(Nat), NEW n \in 1 .. Len(b)
  PROVE  /\ Drop(b, n) \in Seq(Nat)
         /\ Len(Drop(b, n)) = Len(b) - n
         /\ \A i \in 1 .. Len(b) - n : Drop(b, n)[i] = b[n + i]
<1>1. n \in Nat /\ Len(b) \in Nat /\ n <= Len(b)
  OBVIOUS
<1>2. \A i \in n + 1 .. Len(b) : b[i] \in Nat
  BY <1>1, ElementOfSeq
<1>3. n + 1 \in Int /\ Len(b) \in Int
  BY <1>1
<1>4. /\ SubSeq(b, n + 1, Len(b)) \in Seq(Nat)
      /\ Len(SubSeq(b, n + 1, Len(b))) =
           IF n + 1 <= Len(b) THEN Len(b) - (n + 1) + 1 ELSE 0
      /\ \A i \in 1 .. Len(b) - (n + 1) + 1 :
           SubSeq(b, n + 1, Len(b))[i] = b[n + 1 + i - 1]
  BY <1>2, <1>3, SubSeqProperties
<1> QED BY <1>1, <1>4 DEF Drop

(* What one write() adds to a text.                                        *)
LEMMA Chunks ==
  ASSUME NEW s \in Seq(Nat), NEW b \in Seq(Nat), NEW n \in 1 .. Len(b)
  PROVE  /\ s \o SubSeq(b, 1, n) \in Seq(Nat)
         /\ Len(s \o SubSeq(b, 1, n)) = Len(s) + n
         /\ \A i \in 1 .. Len(s) : (s \o SubSeq(b, 1, n))[i] = s[i]
         /\ \A i \in 1 .. n : (s \o SubSeq(b, 1, n))[Len(s) + i] = b[i]
<1>1. n \in Nat /\ Len(b) \in Nat /\ n <= Len(b) /\ Len(s) \in Nat
  OBVIOUS
<1>2. /\ SubSeq(b, 1, n) \in Seq(Nat)
      /\ Len(SubSeq(b, 1, n)) = n
      /\ \A i \in 1 .. n : SubSeq(b, 1, n)[i] = b[i]
  <2>1. \A i \in 1 .. n : b[i] \in Nat
    BY <1>1, ElementOfSeq
  <2> QED BY <2>1, <1>1, SubSeqProperties
<1>3. /\ s \o SubSeq(b, 1, n) \in Seq(Nat)
      /\ Len(s \o SubSeq(b, 1, n)) = Len(s) + n
      /\ \A i \in 1 .. Len(s) + n : (s \o SubSeq(b, 1, n))[i] =
           IF i <= Len(s) THEN s[i] ELSE SubSeq(b, 1, n)[i - Len(s)]
  BY <1>2, ConcatProperties
<1> QED BY <1>1, <1>2, <1>3

(* The numbers of bytes, apart from the rest of the type invariant.        *)
LEMMA CountersTyped ==
  ASSUME TypeOK
  PROVE  /\ MaxBytes \in Nat
         /\ sent \in [Peer -> Nat] /\ taken \in [Peer -> Nat]
         /\ \A p \in Peer : /\ sent[p] \in Nat /\ sent[p] <= MaxBytes
                            /\ taken[p] \in Nat /\ taken[p] <= MaxBytes
<1>1. sent \in [Peer -> 0 .. MaxBytes] /\ taken \in [Peer -> 0 .. MaxBytes]
  BY DEF TypeOK
<1>2. MaxBytes \in Nat
  BY BuffersAssumption
<1> QED BY <1>1, <1>2

(* At the end of a session the bytes are no longer accounted for: only     *)
(* what was written counts, and why the session ended.                     *)
LEMMA ExitKeeps ==
  ASSUME IInv, pc # "exit", pc' = "exit",
         why' \in {"config", "refused", "error", "end of back", "end of client"},
         \A p \in Peer : why' = EndOf(p) =>
           p \in fin /\ (back_fd = "back" => Len(out[Other(p)]) = sent[p]),
         UNCHANGED <<back_fd, ready, call, net>>
  PROVE  IInv'
<1>1. TypeOK'
  BY DEF IInv, TypeOK, call, net
<1> QED BY <1>1
  DEF IInv, TypeOK, Numbers, Before, Usable, Refusing, Direction, PassedOn, Reported,
      InSequence, Ended, Copying, Relaying, call, net, Counting

-----------------------------------------------------------------------------
(* Before the child starts nothing was read or written.                    *)
LEMMA IInvInit == Init => IInv
<1> SUFFICES ASSUME Init PROVE IInv
  OBVIOUS
<1>1. TypeOK
  BY BuffersAssumption DEF Init, TypeOK, Dest, Peer
<1> QED BY <1>1
  DEF Init, IInv, Numbers, Before, Usable, Refusing, Direction, PassedOn, Reported,
      InSequence, Ended, Copying, Relaying, Counting, Peer, Dest, EndOf

(* What the peers send, read or close changes neither the buffer nor what  *)
(* was passed on.                                                          *)
LEMMA PeersStep == ASSUME IInv, Peers PROVE IInv'
<1> USE DEF call
<1>1. PICK p \in Peer : Send(p) \/ Receive(p) \/ HalfClose(p) \/ Leave(p)
  BY DEF Peers
<1>2. CASE Send(p)
  <2>0. /\ sent \in [Peer -> 0 .. MaxBytes] /\ sent[p] < MaxBytes /\ p \notin fin
        /\ sent' = [sent EXCEPT ![p] = sent[p] + 1]
    BY <1>2 DEF Send, IInv, TypeOK
  <2>1. TypeOK'
    <3>1. sent' \in [Peer -> 0 .. MaxBytes]
      BY <2>0, BuffersAssumption
    <3> QED BY <1>2, <3>1 DEF Send, IInv, TypeOK
  <2>2. \A q \in Peer : sent'[q] >= sent[q] /\ (q \in fin => sent'[q] = sent[q])
    BY <2>0, BuffersAssumption
  <2>3. Numbers' /\ Reported'
    <3>1. \A q \in Peer : sent[q] \in Nat /\ sent'[q] \in Nat /\ taken[q] \in Nat
      <4>1. \A q \in Peer : sent[q] \in Nat /\ taken[q] \in Nat
        BY CountersTyped DEF IInv
      <4>2. sent' \in [Peer -> 0 .. MaxBytes] /\ MaxBytes \in Nat
        BY <2>1, BuffersAssumption DEF TypeOK
      <4> QED BY <4>1, <4>2
    <3>2. Numbers'
      BY <1>2, <2>2, <3>1 DEF Send, IInv, Numbers
    <3>3. Readable \subseteq Readable'
      BY <1>2, <2>2, <3>1 DEF Send, Readable, Reachable
    <3> QED BY <1>2, <3>2, <3>3 DEF Send, IInv, Reported, Copying, Source
  <2> QED BY <1>2, <2>1, <2>2, <2>3
    DEF Send, IInv, TypeOK, Before, Usable, Refusing, Direction, PassedOn,
        InSequence, Ended, Copying, Relaying, Counting, Source
<1>3. CASE Receive(p)
  <2>1. TypeOK'
    <3>1. drained' \in [Dest -> Nat]
      <4>1. drained \in [Dest -> Nat] /\ drained' = [drained EXCEPT ![p] = drained[p] + 1]
        BY <1>3 DEF Receive, IInv, TypeOK
      <4> QED BY <4>1 DEF Dest
    <3> QED BY <1>3, <3>1 DEF Receive, IInv, TypeOK
  <2> QED BY <1>3, <2>1
    DEF Receive, IInv, TypeOK, Numbers, Before, Usable, Refusing, Direction, PassedOn, Reported,
        InSequence, Ended, Copying, Relaying, Counting, Source, Readable, Reachable
<1>4. CASE HalfClose(p) \/ Leave(p)
  <2>1. /\ fin' = fin \cup {p}
        /\ UNCHANGED <<pc, back_fd, ready, call, why, sent, taken, out, drained>>
    BY <1>4 DEF HalfClose, Leave
  <2>2. TypeOK'
    BY <1>4, <2>1 DEF HalfClose, Leave, IInv, TypeOK
  <2> QED BY <2>1, <2>2
    DEF IInv, TypeOK, Numbers, Before, Usable, Refusing, Direction, PassedOn, Reported,
        InSequence, Ended, Copying, Relaying, Counting, Source, Readable, Reachable
<1> QED BY <1>1, <1>2, <1>3, <1>4

(* The error text goes to the client before anything else was written.     *)
LEMMA RefuseKeeps ==
  ASSUME IInv, pc \in {"start", "connect"}, Refuse,
         back_fd' \in (Dest \cup {"none"}) \ {"client"}
  PROVE  IInv'
<1> USE DEF Refuse, safe_write, net, call
<1>1. TypeOK'
  <2>1. ErrorText \in Seq(Nat) /\ "client" \in Dest
    BY DEF ErrorText, Dest, Peer
  <2>2. /\ UNCHANGED <<ready, why, sent, taken, fin, gone, out, drained>>
        /\ pc' = "write" /\ dst' = "client" /\ buf' = ErrorText /\ after' = "exit"
        /\ waited' \in 0 .. 1
    OBVIOUS
  <2> HIDE DEF Refuse, safe_write, net, call
  <2> QED BY <2>1, <2>2 DEF IInv, TypeOK
<1>2. out = [d \in Dest |-> <<>>]
  BY DEF IInv, Before
<1> QED BY <1>1, <1>2
  DEF IInv, TypeOK, Numbers, Before, Usable, Refusing, Direction, PassedOn, Reported,
      InSequence, Ended, Copying, Relaying, Counting, EndOf, Peer

(* The child begins with nothing read and no back server.                  *)
LEMMA StartStep == ASSUME IInv, Start PROVE IInv'
<1>1. CASE exit_cleanup("config")
  BY <1>1, ExitKeeps DEF Start, exit_cleanup, EndOf
<1>2. CASE Refuse /\ UNCHANGED back_fd
  BY <1>2, RefuseKeeps DEF Start, IInv, TypeOK, Usable
<1>3. CASE pc' = "connect" /\ UNCHANGED <<back_fd, ready, call, why, net>>
  <2> USE DEF call, net
  <2>1. TypeOK'
    BY <1>3 DEF IInv, TypeOK
  <2> QED BY <1>3, <2>1
    DEF Start, IInv, TypeOK, Numbers, Before, Usable, Refusing, Direction, PassedOn, Reported,
        InSequence, Ended, Copying, Relaying, Counting
<1> QED BY <1>1, <1>2, <1>3 DEF Start

(* From connect the child goes to trans_data, to the error text or to its  *)
(* end.                                                                    *)
LEMMA ConnectStep == ASSUME IInv, Connect PROVE IInv'
<1>1. back_fd' \in (Dest \cup {"none"}) \ {"client"}
  BY DEF Connect, connect_to_back_server, Dest, Peer
<1>2. CASE Refuse
  BY <1>1, <1>2, RefuseKeeps DEF Connect
<1>3. CASE back_fd' # "none" /\ pc' = "select" /\ UNCHANGED <<ready, call, why, net>>
  <2> USE DEF call, net
  <2>1. TypeOK'
    BY <1>1, <1>3 DEF IInv, TypeOK
  <2>2. out = [d \in Dest |-> <<>>] /\ taken = [p \in Peer |-> 0] /\ back_fd' \in Dest
        /\ pc # "exit"
    BY <1>1, <1>3 DEF IInv, Before, Connect
  <2>3. PassedOn'
    BY <1>3, <2>2 DEF PassedOn, Copying, Peer, Dest
  <2>4. why = "none"
    BY <2>2 DEF IInv, Numbers
  <2> QED BY <1>1, <1>3, <2>1, <2>2, <2>3, <2>4
    DEF IInv, TypeOK, Numbers, Before, Usable, Refusing, Direction, Reported,
        InSequence, Ended, Copying, Counting, EndOf
<1> QED BY <1>2, <1>3 DEF Connect

(* select reports sides that have something to read, and these stay so.    *)
LEMMA SelectStep == ASSUME IInv, Select PROVE IInv'
<1>1. CASE exit_cleanup("error")
  BY <1>1, ExitKeeps DEF Select, exit_cleanup, EndOf
<1>2. CASE ready' = Readable /\ pc' = "read back" /\ UNCHANGED <<back_fd, call, why, net>>
  <2> USE DEF call, net
  <2>1. TypeOK'
    BY <1>2 DEF IInv, TypeOK, Readable
  <2>2. Reported'
    BY <1>2 DEF Reported, Readable, Reachable
  <2> QED BY <1>2, <2>1, <2>2
    DEF Select, IInv, TypeOK, Numbers, Before, Usable, Refusing, Direction, PassedOn,
        InSequence, Ended, Copying, Relaying, Counting
<1> QED BY <1>1, <1>2 DEF Select

-----------------------------------------------------------------------------
(* A read takes the next bytes of a side into the buffer, which holds      *)
(* nothing of the other side.                                              *)
LEMMA ReadStep == ASSUME IInv, NEW p \in Peer, Read(p) PROVE IInv'
<1>0. pc = ReadOf(p) /\ (p = "back" \/ p = "client") /\ Reachable(p) => back_fd \in Dest
  BY DEF Read, Peer, Reachable, Dest, IInv, PassedOn, Relaying, ReadOf, TypeOK
<1>1. CASE Skip(p)
  <2> USE DEF call, net
  <2>1. UNCHANGED <<back_fd, ready, dst, buf, after, waited, why, net>>
        /\ pc' = NextRead(p)
    BY <1>1 DEF Skip
  <2>2. TypeOK'
    BY <2>1 DEF NextRead, IInv, TypeOK
  <2> QED BY <1>1, <2>1, <2>2
    DEF Skip, Read, ReadOf, NextRead, IInv, TypeOK, Numbers, Before, Usable, Refusing, Direction,
        PassedOn, Reported, InSequence, Ended, Copying, Relaying, Counting, Peer,
        Readable, Reachable
<1>2. CASE ReadSome(p)
  <2> DEFINE d == IF p = "client" THEN back_fd ELSE "client"
  <2>1. PICK n \in 1 .. MAXBUF :
          /\ n <= sent[p] - taken[p]
          /\ taken' = [taken EXCEPT ![p] = taken[p] + n]
          /\ safe_write(d, Bytes(p, n), NextRead(p))
    BY <1>2 DEF ReadSome
  <2>2. UNCHANGED <<back_fd, ready, why, sent, fin, gone, out, drained>>
    BY <1>2 DEF ReadSome
  <2>3. /\ n \in Nat \ {0} /\ sent[p] \in Nat /\ taken[p] \in Nat /\ MaxBytes \in Nat
        /\ taken[p] + n <= MaxBytes
    <3>1. n \in Nat \ {0}
      BY BuffersAssumption
    <3>2. sent[p] \in Nat /\ taken[p] \in Nat /\ MaxBytes \in Nat /\ sent[p] <= MaxBytes
      BY CountersTyped DEF IInv
    <3> QED BY <2>1, <3>1, <3>2
  <2>4. /\ buf' = [i \in 1 .. n |-> taken[p] + i]
        /\ buf' \in Seq(Nat) /\ Len(buf') = n /\ buf' # <<>>
        /\ \A i \in 1 .. n : buf'[i] = taken[p] + i
    <3>1. buf' = [i \in 1 .. n |-> taken[p] + i]
      BY <2>1 DEF safe_write, Bytes
    <3>2. \A i \in 1 .. n : taken[p] + i \in Nat
      BY <2>3
    <3>3. buf' \in Seq(Nat)
      BY <3>1, <3>2, <2>3
    <3>4. Len(buf') = n /\ buf' # <<>>
      BY <3>1, <2>3
    <3> QED BY <3>1, <3>3, <3>4
  <2>5. /\ taken'[p] = taken[p] + n
        /\ \A q \in Peer : q # p => taken'[q] = taken[q]
        /\ taken' \in [Peer -> 0 .. MaxBytes]
    <3>1. taken \in [Peer -> 0 .. MaxBytes]
      BY DEF IInv, TypeOK
    <3> QED BY <2>1, <2>3, <3>1
  <2>6. /\ back_fd \in Dest
        /\ Len(out[back_fd]) = taken["client"]
        /\ Len(out["client"]) = taken["back"]
        /\ why = "none"
    BY DEF Read, ReadOf, IInv, PassedOn, Relaying, Copying, TypeOK, Numbers
  <2>7. p \in ready /\ p \in Readable
    BY <1>2 DEF ReadSome, IInv, Reported, Read, ReadOf, Peer
  <2>8. p = "back" => back_fd = "back"
    BY <2>7 DEF Readable, Reachable
  <2>9. /\ pc' = "write" /\ after' = NextRead(p) /\ dst' = d /\ waited' = 0
        /\ Copying' /\ Source' = p /\ d \in Dest /\ Len(out[d]) = taken[p]
    BY <2>1, <2>6 DEF safe_write, Copying, Source, NextRead, Peer, Dest
  <2>10. TypeOK'
    <3>1. after' \in {"select", "read client", "exit"}
      BY <2>9 DEF NextRead
    <3>2. waited' \in 0 .. 1
      BY <2>9
    <3> HIDE DEF d
    <3> QED BY <2>2, <2>4, <2>5, <2>9, <3>1, <3>2 DEF IInv, TypeOK
  <2>11. Numbers'
    <3>1. taken'[p] <= sent[p]
      BY <2>1, <2>3, <2>5
    <3> QED BY <2>2, <2>5, <2>6, <2>9, <3>1 DEF IInv, Numbers
  <2>12. Direction'
    BY <2>2, <2>3, <2>4, <2>5, <2>8, <2>9 DEF Direction, Peer
  <2>13. PassedOn'
    <3>1. back_fd # "none"
      BY DEF IInv, PassedOn, Relaying, Copying, Read, ReadOf
    <3>2. "client" \in Peer /\ "back" \in Peer
      BY DEF Peer
    <3> QED BY <2>2, <2>5, <2>6, <2>9, <3>1, <3>2 DEF PassedOn
  <2>14. Reported'
    BY <2>2, <2>5, <2>9 DEF IInv, Reported, Readable, Reachable, Read, ReadOf, Peer
  <2>15. Before' /\ Usable' /\ Refusing'
    BY <2>2, <2>9 DEF IInv, Before, Usable, Refusing, NextRead
  <2>16. InSequence' /\ Ended'
    BY <2>2, <2>6 DEF IInv, InSequence, Ended, EndOf, Read, ReadOf, Counting
  <2> QED BY <2>10, <2>11, <2>12, <2>13, <2>14, <2>15, <2>16 DEF IInv
<1>3. CASE ReadEnd(p)
  <2>1. p \in ready /\ p \in Readable /\ sent[p] = taken[p]
    BY <1>3 DEF ReadEnd, IInv, Reported, Read, ReadOf, Peer
  <2>2. p \in fin
    <3>1. taken[p] \in Nat
      BY CountersTyped DEF IInv
    <3> QED BY <2>1, <3>1 DEF Readable
  <2>3. back_fd = "back" => Len(out[Other(p)]) = sent[p]
    BY <2>1 DEF Read, ReadOf, IInv, PassedOn, Relaying, Copying, Other, Peer
  <2>4. \A q \in Peer : EndOf(p) = EndOf(q) => p = q
    <3>1. EndOf("client") = "end of client" /\ EndOf("back") = "end of back"
      BY DEF EndOf
    <3>2. EndOf("client") # EndOf("back")
      BY <3>1
    <3> HIDE DEF EndOf
    <3> QED BY <3>2 DEF Peer
  <2>5. pc # "exit" /\ EndOf(p) \in {"end of back", "end of client"}
    BY DEF Read, ReadOf, EndOf
  <2> QED BY <1>3, <2>2, <2>3, <2>4, <2>5, ExitKeeps DEF ReadEnd, exit_cleanup
<1>4. CASE ReadError(p)
  BY <1>4, ExitKeeps DEF ReadError, exit_cleanup, EndOf, Read, ReadOf
<1> QED BY <1>1, <1>2, <1>3, <1>4 DEF Read

-----------------------------------------------------------------------------
(* safe_write.                                                             *)

Writing == pc \in {"write", "wait"}

(* A write changes one destination, and continues what it had got.         *)
LEMMA WrittenEffect ==
  ASSUME IInv, Writing, NEW n \in 1 .. Len(buf), Written(n)
  PROVE  /\ out' \in [Dest -> Seq(Nat)]
         /\ out'[dst] = out[dst] \o SubSeq(buf, 1, n)
         /\ Len(out'[dst]) = Len(out[dst]) + n
         /\ \A d \in Dest : d # dst => out'[d] = out[d]
         /\ Copying => Counting(out'[dst])
         /\ \A d \in Dest \ {dst} : Counting(out'[d])
<1>1. dst \in Dest /\ buf \in Seq(Nat) /\ out \in [Dest -> Seq(Nat)]
  BY DEF IInv, TypeOK
<1>2. out[dst] \in Seq(Nat)
  BY <1>1
<1>3. out' = [out EXCEPT ![dst] = out[dst] \o SubSeq(buf, 1, n)]
  BY DEF Written
<1>4. /\ out[dst] \o SubSeq(buf, 1, n) \in Seq(Nat)
      /\ Len(out[dst] \o SubSeq(buf, 1, n)) = Len(out[dst]) + n
  BY <1>1, <1>2, Chunks
<1>5. /\ out' \in [Dest -> Seq(Nat)]
      /\ out'[dst] = out[dst] \o SubSeq(buf, 1, n)
      /\ \A d \in Dest : d # dst => out'[d] = out[d]
  BY <1>1, <1>3, <1>4
<1>6. \A d \in Dest : Counting(out[d])
  BY DEF IInv, InSequence, Writing, Dest, Peer
<1>7. ASSUME Copying PROVE Counting(out'[dst])
  <2> SUFFICES ASSUME NEW i \in 1 .. Len(out[dst]) + n
               PROVE  (out[dst] \o SubSeq(buf, 1, n))[i] = i
    BY <1>4, <1>5 DEF Counting
  <2>1. Len(out[dst]) \in Nat /\ n \in Nat /\ i \in Nat /\ n <= Len(buf)
        /\ Len(buf) \in Nat
    BY <1>1, <1>2
  <2>2. CASE i <= Len(out[dst])
    <3>1. i \in 1 .. Len(out[dst])
      BY <2>1, <2>2
    <3> QED BY <3>1, <1>1, <1>2, <1>6, Chunks DEF Counting
  <2>3. CASE i > Len(out[dst])
    <3>1. PICK j \in 1 .. n : i = Len(out[dst]) + j
      <4>1. i - Len(out[dst]) \in 1 .. n /\ i = Len(out[dst]) + (i - Len(out[dst]))
        BY <2>1, <2>3
      <4> QED BY <4>1
    <3>2. (out[dst] \o SubSeq(buf, 1, n))[i] = buf[j]
      BY <3>1, <1>1, <1>2, Chunks
    <3>3. buf[j] = Len(out[dst]) + j
      BY <1>7, <2>1 DEF IInv, Direction
    <3> QED BY <3>1, <3>2, <3>3
  <2> QED BY <2>1, <2>2, <2>3
<1> QED BY <1>4, <1>5, <1>6, <1>7

(* A call of safe_write that ends the session leaves every byte accounted  *)
(* for.                                                                    *)
LEMMA FailsKeeps ==
  ASSUME IInv, Writing, Fails
  PROVE  IInv'
<1>1. pc' = "exit" /\ why' \in {"refused", "error"}
  BY DEF Fails, Returns
<1>2. \A p \in Peer : why' # EndOf(p)
  BY <1>1 DEF EndOf
<1> QED BY <1>1, <1>2, ExitKeeps DEF Writing, Fails

(* The last byte is written, and safe_write returns.                       *)
LEMMA WholeKeeps ==
  ASSUME IInv, Writing, buf # <<>>, Written(Len(buf)),
         NEW r \in {"ok", "negative"}, Returns(r),
         buf' \in Seq(Nat), waited' \in 0 .. 1,
         UNCHANGED <<back_fd, ready, dst, after, sent, taken, fin, gone, drained>>
  PROVE  IInv'
<1>1. Len(buf) \in 1 .. Len(buf)
  <2>1. buf \in Seq(Nat)
    BY DEF IInv, TypeOK
  <2> QED BY <2>1, EmptySeq
<1>2. /\ out' \in [Dest -> Seq(Nat)]
      /\ out'[dst] = out[dst] \o SubSeq(buf, 1, Len(buf))
      /\ Len(out'[dst]) = Len(out[dst]) + Len(buf)
      /\ \A d \in Dest : d # dst => out'[d] = out[d]
      /\ Copying => Counting(out'[dst])
      /\ \A d \in Dest \ {dst} : Counting(out'[d])
  BY <1>1, WrittenEffect
<1>3. why = "none" /\ dst \in Dest /\ after \in {"select", "read client", "exit"}
  BY DEF IInv, Numbers, Writing, TypeOK
<1>4. \/ pc' = after /\ after # "exit" /\ why' = "none"
      \/ pc' = "exit" /\ why' = "error" /\ after # "exit"
      \/ pc' = "exit" /\ why' = "refused" /\ after = "exit"
  BY <1>3 DEF Returns
<1>5. TypeOK'
  <2>1. pc' \in {"select", "read client", "exit"} /\ why' \in {"none", "error", "refused"}
    BY <1>3, <1>4
  <2> QED BY <1>2, <2>1 DEF IInv, TypeOK
<1>6. Numbers' /\ Before' /\ Usable' /\ Refusing' /\ Direction' /\ ~ Copying'
  <2>1. pc' \in {"select", "read client", "exit"}
    BY <1>3, <1>4
  <2>2. ~ Copying'
    BY <2>1 DEF Copying
  <2> QED BY <1>4, <2>1, <2>2 DEF IInv, Numbers, Before, Usable, Refusing, Direction
<1>7. CASE after # "exit"
  <2>1. Copying
    BY <1>7 DEF Copying, Writing
  <2>2. InSequence'
    BY <1>2, <2>1 DEF InSequence, Dest, Peer
  <2>3. Ended'
    BY <1>4, <1>7 DEF Ended, EndOf
  <2>4. PassedOn'
    <3>1. /\ dst = IF Source = "client" THEN back_fd ELSE "client"
          /\ Len(out'[dst]) = taken[Source]
          /\ back_fd \in Dest /\ back_fd # "none"
      BY <1>2, <2>1 DEF IInv, Direction, PassedOn, Relaying, TypeOK
    <3>2. Source \in {"client", "back"} /\ (Source = "back" => back_fd = "back")
      BY <2>1 DEF IInv, Direction, Source
    <3>3. /\ Source = "back" => Len(out[back_fd]) = taken["client"]
          /\ Source = "client" => Len(out["client"]) = taken["back"]
      BY <2>1 DEF IInv, PassedOn, Relaying
    <3>4. "client" \in Dest /\ ("back" # "client")
      BY DEF Dest, Peer
    <3>5. CASE Source = "back"
      BY <1>2, <1>6, <3>1, <3>2, <3>3, <3>4, <3>5 DEF PassedOn
    <3>6. CASE Source = "client"
      <4>1. back_fd # "client"
        BY <2>1 DEF IInv, Usable
      <4> QED BY <1>2, <1>6, <3>1, <3>2, <3>3, <3>4, <3>6, <4>1 DEF PassedOn
    <3> QED BY <3>2, <3>5, <3>6
  <2>5. Reported'
    <3>1. Readable' = Readable
      BY DEF Readable, Reachable
    <3>2. pc' = "read client" => Source = "back"
      BY <1>4 DEF Source
    <3>3. pc' # "read back"
      BY <1>3, <1>4
    <3> QED BY <1>6, <2>1, <3>1, <3>2, <3>3 DEF IInv, Reported
  <2> QED BY <1>5, <1>6, <2>2, <2>3, <2>4, <2>5 DEF IInv
<1>8. CASE after = "exit"
  <2>1. dst = "client" /\ buf = ErrorText /\ out[dst] = <<>> /\ pc' = "exit"
        /\ why' = "refused"
    BY <1>3, <1>4, <1>8 DEF IInv, Refusing, Writing
  <2>2. out'["client"] = ErrorText
    BY <1>2, <2>1 DEF ErrorText
  <2>3. InSequence'
    BY <1>2, <2>1, <2>2 DEF InSequence, Dest, Peer
  <2>4. Ended' /\ PassedOn' /\ Reported'
    BY <1>6, <2>1 DEF Ended, EndOf, PassedOn, Relaying, Reported
  <2> QED BY <1>5, <1>6, <2>3, <2>4 DEF IInv
<1> QED BY <1>7, <1>8

(* A part is written, and the rest stays in the buffer.                    *)
LEMMA PartKeeps ==
  ASSUME IInv, Writing, NEW n \in 1 .. Len(buf), n # Len(buf), Written(n),
         buf' = Drop(buf, n), pc' = "wait", waited' \in 0 .. 1,
         UNCHANGED <<back_fd, ready, dst, after, why, sent, taken, fin, gone, drained>>
  PROVE  IInv'
<1>1. /\ out' \in [Dest -> Seq(Nat)]
      /\ Len(out'[dst]) = Len(out[dst]) + n
      /\ \A d \in Dest : d # dst => out'[d] = out[d]
      /\ Copying => Counting(out'[dst])
      /\ \A d \in Dest \ {dst} : Counting(out'[d])
  BY WrittenEffect
<1>2. /\ buf \in Seq(Nat) /\ Len(buf) \in Nat /\ n \in Nat /\ n < Len(buf)
      /\ dst \in Dest /\ out[dst] \in Seq(Nat) /\ Len(out[dst]) \in Nat
  <2>1. buf \in Seq(Nat) /\ dst \in Dest /\ out \in [Dest -> Seq(Nat)]
    BY DEF IInv, TypeOK
  <2>2. Len(buf) \in Nat /\ n \in Nat /\ n < Len(buf)
    BY <2>1
  <2> QED BY <2>1, <2>2
<1>3. /\ buf' \in Seq(Nat) /\ Len(buf') = Len(buf) - n
      /\ \A i \in 1 .. Len(buf) - n : buf'[i] = buf[n + i]
  <2>1. /\ Drop(buf, n) \in Seq(Nat) /\ Len(Drop(buf, n)) = Len(buf) - n
        /\ \A i \in 1 .. Len(buf) - n : Drop(buf, n)[i] = buf[n + i]
    BY <1>2, Rest
  <2> QED BY <2>1
<1>4. after # "exit"
  <2> SUFFICES ASSUME after = "exit" PROVE FALSE
    OBVIOUS
  <2>1. buf = ErrorText
    BY DEF IInv, Refusing, Writing
  <2>2. Len(buf) = 1
    BY <2>1 DEF ErrorText
  <2> QED BY <1>2, <2>2
<1>5. Copying /\ Copying' /\ Source' = Source /\ why = "none"
  BY <1>4 DEF Copying, Writing, Source, IInv, Numbers
<1>6. TypeOK'
  BY <1>1, <1>3 DEF IInv, TypeOK
<1>7. Numbers' /\ Before' /\ Usable' /\ Refusing'
  BY <1>4, <1>5 DEF IInv, Numbers, Before, Usable, Refusing
<1>8. Direction'
  <2>1. /\ dst = IF Source = "client" THEN back_fd ELSE "client"
        /\ Source = "back" => back_fd = "back"
        /\ Len(out[dst]) + Len(buf) = taken[Source]
        /\ \A i \in 1 .. Len(buf) : buf[i] = Len(out[dst]) + i
    BY <1>5 DEF IInv, Direction
  <2>2. Len(out'[dst]) + Len(buf') = taken[Source]
    BY <1>1, <1>2, <1>3, <2>1
  <2>3. \A i \in 1 .. Len(buf') : buf'[i] = Len(out'[dst]) + i
    <3> SUFFICES ASSUME NEW i \in 1 .. Len(buf) - n
                 PROVE  buf'[i] = Len(out[dst]) + n + i
      BY <1>1, <1>3
    <3>1. n + i \in 1 .. Len(buf)
      BY <1>2
    <3>2. buf'[i] = Len(out[dst]) + (n + i)
      BY <1>3, <2>1, <3>1
    <3>3. \A a, b, c \in Nat : a + (b + c) = a + b + c
      OBVIOUS
    <3>4. i \in Nat
      BY <1>2
    <3> QED BY <1>2, <3>2, <3>3, <3>4
  <2>4. buf' # <<>>
    BY <1>2, <1>3
  <2> QED BY <1>5, <2>1, <2>2, <2>3, <2>4 DEF Direction
<1>9. PassedOn'
  <2>1. /\ dst = IF Source = "client" THEN back_fd ELSE "client"
        /\ Source \in {"client", "back"} /\ (Source = "back" => back_fd = "back")
    BY <1>5 DEF IInv, Direction, Source
  <2>2. /\ back_fd # "none" /\ back_fd # "client" /\ back_fd \in Dest
        /\ Source # "client" => Len(out[back_fd]) = taken["client"]
        /\ Source # "back" => Len(out["client"]) = taken["back"]
    BY <1>5 DEF IInv, PassedOn, Relaying, Usable, TypeOK
  <2>3. "client" \in Dest
    BY DEF Dest, Peer
  <2>4. /\ Source # "client" => out'[back_fd] = out[back_fd]
        /\ Source # "back" => out'["client"] = out["client"]
    BY <1>1, <2>1, <2>2, <2>3
  <2> QED BY <1>5, <2>2, <2>4 DEF PassedOn
<1>10. Reported'
  <2>1. Readable' = Readable
    BY DEF Readable, Reachable
  <2> QED BY <1>5, <2>1 DEF IInv, Reported
<1>11. InSequence'
  BY <1>1, <1>5 DEF InSequence, Dest, Peer
<1>12. Ended'
  BY <1>5 DEF Ended, EndOf
<1> QED BY <1>6, <1>7, <1>8, <1>9, <1>10, <1>11, <1>12 DEF IInv

(* Nothing is written, and safe_write waits on.                            *)
LEMMA WaitKeeps ==
  ASSUME IInv, Writing, pc' = "wait", waited' \in 0 .. 1,
         UNCHANGED <<back_fd, ready, dst, buf, after, why, net>>
  PROVE  IInv'
<1> USE DEF net
<1>1. TypeOK'
  BY DEF IInv, TypeOK
<1>2. Copying' = Copying /\ Source' = Source /\ Readable' = Readable
      /\ (Relaying' = Relaying)
  BY DEF Copying, Writing, Source, Readable, Reachable, Relaying
<1> QED BY <1>1, <1>2
  DEF IInv, Writing, Numbers, Before, Usable, Refusing, Direction, PassedOn, Reported,
      InSequence, Ended, Counting

(* Each way out of a round of safe_write: bytes written, a socket that is  *)
(* full, an error, and the wait for room.                                  *)
LEMMA SafeWriteStep ==
  ASSUME IInv, FirstWrite \/ WriteMore \/ WriteTimeout
  PROVE  IInv'
<1>0. Writing /\ waited \in 0 .. 1 /\ buf \in Seq(Nat)
  BY DEF Writing, FirstWrite, WriteMore, WriteTimeout, IInv, TypeOK
<1>1. CASE Fails
  BY <1>0, <1>1, FailsKeeps
<1>2. CASE pc' = "wait" /\ UNCHANGED <<back_fd, ready, call, why, net>>
  BY <1>0, <1>2, WaitKeeps DEF call
<1>3. CASE WriteTimeout
  <2>1. CASE waited' = 1 /\ UNCHANGED <<pc, back_fd, ready, dst, buf, after, why, net>>
    <3>1. waited' \in 0 .. 1 /\ pc' = "wait"
      BY <1>3, <2>1 DEF WriteTimeout
    <3> QED BY <1>0, <2>1, <3>1, WaitKeeps
  <2> QED BY <1>1, <1>3, <2>1 DEF WriteTimeout
<1>4. ASSUME NEW n \in 1 .. Len(buf), Written(n),
             waited' \in 0 .. 1, buf' \in Seq(Nat),
             \/ n = Len(buf) /\ \E r \in {"ok", "negative"} : Returns(r)
             \/ n # Len(buf) /\ buf' = Drop(buf, n) /\ pc' = "wait" /\ UNCHANGED why,
             UNCHANGED <<back_fd, ready, dst, after, sent, taken, fin, gone, drained>>
      PROVE  IInv'
  <2>1. CASE n = Len(buf)
    <3>1. buf # <<>>
      BY <2>1
    <3> QED BY <1>0, <1>4, <2>1, <3>1, WholeKeeps
  <2> QED BY <1>0, <1>4, <2>1, PartKeeps
<1>5. \A n \in 1 .. Len(buf) : Drop(buf, n) \in Seq(Nat)
  BY <1>0, Rest
<1>6. CASE FirstWrite
  <2>1. CASE \E n \in 1 .. Len(buf) :
               /\ Written(n)
               /\ IF n = Len(buf)
                    THEN Returns("ok") /\ UNCHANGED buf
                    ELSE buf' = Drop(buf, n) /\ pc' = "wait" /\ UNCHANGED why
               /\ UNCHANGED <<back_fd, ready, dst, after, waited,
                              sent, taken, fin, gone, drained>>
    BY <1>0, <1>4, <1>5, <2>1
  <2> QED BY <1>1, <1>2, <1>6, <2>1 DEF FirstWrite
<1>7. CASE WriteMore
  <2>1. CASE \E n \in 1 .. Len(buf) :
               /\ Written(n)
               /\ buf' = Drop(buf, n)
               /\ waited' = 0
               /\ IF n = Len(buf)
                    THEN \E r \in FallsOff : Returns(r)
                    ELSE UNCHANGED <<pc, why>>
               /\ UNCHANGED <<back_fd, ready, dst, after,
                              sent, taken, fin, gone, drained>>
    <3>1. waited' \in 0 .. 1 /\ pc = "wait"
      BY <1>7, <2>1 DEF WriteMore
    <3> QED BY <1>0, <1>4, <1>5, <2>1, <3>1, FaultsAssumption
  <2> QED BY <1>1, <1>7, <2>1 DEF WriteMore
<1> QED BY <1>3, <1>6, <1>7

(* Every step of the child and of its peers keeps the invariant.           *)
LEMMA IInvStep == IInv /\ [Next]_vars => IInv'
<1> SUFFICES ASSUME IInv, [Next]_vars PROVE IInv'
  OBVIOUS
<1>1. CASE UNCHANGED vars
  <2> USE <1>1 DEF vars
  <2>1. TypeOK'
    BY DEF IInv, TypeOK
  <2>2. Copying' = Copying /\ Source' = Source /\ Readable' = Readable
        /\ Relaying' = Relaying
    BY DEF Copying, Source, Readable, Reachable, Relaying
  <2> QED BY <2>1, <2>2
    DEF IInv, Numbers, Before, Usable, Refusing, Direction, PassedOn, Reported,
        InSequence, Ended, Counting
<1>2. CASE Peers
  BY <1>2, PeersStep
<1>3. CASE Child
  <2>1. "back" \in Peer /\ "client" \in Peer
    BY DEF Peer
  <2> QED BY <1>3, <2>1, StartStep, ConnectStep, SelectStep, ReadStep, SafeWriteStep
          DEF Child
<1> QED BY <1>1, <1>2, <1>3 DEF Next

(* The accounting of bytes holds in every state of the child.              *)
THEOREM Invariance == Spec => []IInv
  BY IInvInit, IInvStep, PTL DEF Spec

(* InOrder: what the proxy passes on is what the other side sent, byte by  *)
(* byte, however safe_write splits it and whatever fails.                  *)
THEOREM PassedInOrder == Spec => []InOrder
<1>1. IInv => InOrder
  BY DEF IInv, InSequence, Counting, InOrder, Peer
<1> QED BY <1>1, Invariance, PTL

(* AllPassedOn: a session that ends because a side closed has passed on    *)
(* everything which that side sent.                                        *)
THEOREM EndIsComplete == Spec => []AllPassedOn
<1>1. IInv => AllPassedOn
  BY DEF IInv, Ended, AllPassedOn
<1> QED BY <1>1, Invariance, PTL
=============================================================================
