-------------------------- MODULE EpollChildProofs --------------------------
(***************************************************************************)
(* Proofs about a child of server_epoll for any size of its buffer, of the *)
(* sockets and of what the peers send, and any number of writes to a full  *)
(* client.                                                                 *)
(*                                                                         *)
(* The bytes are accounted for: what the client sent is its command, has   *)
(* been passed on or is in the buffer; what the back server sent has been  *)
(* passed on or is in the buffer, until a write to the client finds its    *)
(* socket full and nw_tmp stops being the number of bytes that are left.   *)
(***************************************************************************)
EXTENDS EpollChild, TLAPS, SequenceTheorems

From(k, s) == \A i \in 1 .. Len(s) : s[i] = k + i

(* The back server is known, and its events arrive, only after the command *)
(* was processed.                                                          *)
Phases ==
  /\ pc \in {"command", "register"} => ~ trans /\ src = "client"
  /\ pc = "register" => back_fd \in {"back", "pipe"}
  /\ pc = "write" => trans
  /\ trans => back_fd \in {"back", "pipe"}
  /\ ~ trans /\ pc \notin {"register", "exit"} => back_fd = "none"
  /\ pc = "setup" => batch = {}
  /\ "back" \in watched => trans /\ back_fd = "back"
  /\ src = "back" => trans /\ back_fd = "back"

Numbers == \A p \in Peer : taken[p] <= sent[p]

Endings ==
  /\ why # "none" <=> pc = "exit"
  /\ why = "refused" => ~ trans

(* Before the command was processed everything read belongs to it.         *)
Command ==
  ~ trans =>
    /\ skipped = taken["client"]
    /\ taken["back"] = 0
    /\ out["back"] = <<>> /\ out["pipe"] = <<>>
    /\ pc # "exit" => out["client"] = <<>>

(* The rest of the buffer while it is being written.                       *)
Buffer ==
  pc = "write" =>
    /\ buf # <<>>
    /\ nw_tmp > 0
    /\ From(taken[src] - Len(buf), buf)
    /\ src = "client" \/ ~ stalled => nw_tmp <= Len(buf)

Remaining(p) == IF pc = "write" /\ src = p THEN nw_tmp ELSE 0

ToBack ==
  trans /\ pc # "exit" =>
    Len(out[back_fd]) + skipped + Remaining("client") = taken["client"]

ToClient ==
  trans /\ pc # "exit" /\ ~ stalled =>
    Len(out["client"]) + Remaining("back") = taken["back"]

InSequence ==
  /\ From(skipped, out["back"]) /\ From(skipped, out["pipe"])
  /\ stalled \/ why = "refused" \/ From(0, out["client"])

Bounded == pc = "write" => nw_tmp <= Len(buf) + over

IInv ==
  /\ TypeOK
  /\ Phases
  /\ Numbers
  /\ Endings
  /\ Command
  /\ Buffer
  /\ Bounded
  /\ ToBack
  /\ ToClient
  /\ InSequence
  /\ RelayComplete

-----------------------------------------------------------------------------
(* Arithmetic of the accounts, stated apart from sequences.                *)
LEMMA Sums ==
  /\ \A a, b, c \in Nat : a + b + 0 = c => a = c - b
  /\ \A a \in Nat : a + 0 = a
  /\ \A a, b \in Nat : a + b - b = a
  OBVIOUS

(* The smaller of two numbers.                                             *)
LEMMA MinOfTwo ==
  ASSUME NEW a \in Int, NEW b \in Int
  PROVE  /\ Min({a, b}) \in {a, b}
         /\ Min({a, b}) <= a /\ Min({a, b}) <= b
<1>1. \E x \in {a, b} : \A y \in {a, b} : x <= y
  <2>1. CASE a <= b
    BY <2>1
  <2>2. CASE b <= a
    BY <2>2
  <2> QED BY <2>1, <2>2
<1>2. /\ Min({a, b}) \in {a, b} /\ \A y \in {a, b} : Min({a, b}) <= y
  BY <1>1 DEF Min
<1> QED BY <1>2

(* The numbers of the model, apart from the rest of the type invariant.    *)
LEMMA CountersTyped ==
  ASSUME TypeOK
  PROVE  /\ \A p \in Peer : sent[p] \in Nat /\ sent[p] <= MaxBytes
         /\ \A p \in Peer : taken[p] \in Nat /\ taken[p] <= MaxBytes
         /\ MaxBytes \in Nat /\ MaxOver \in Nat /\ MAX_LINE \in Nat \ {0} /\ Room \in Nat
         /\ skipped \in Nat /\ over \in Nat /\ nw_tmp \in Nat
         /\ buf \in Seq(Nat) /\ Len(buf) \in Nat /\ Len(buf) <= MAX_LINE
         /\ \A d \in Dest : out[d] \in Seq(Nat) /\ Len(out[d]) \in Nat
         /\ \A d \in Dest : drained[d] \in Nat
<1>1. MaxBytes \in Nat /\ MaxOver \in Nat /\ MAX_LINE \in Nat \ {0} /\ Room \in Nat
  BY RelayAssumption
<1>2. sent \in [Peer -> 0 .. MaxBytes] /\ taken \in [Peer -> 0 .. MaxBytes]
  BY DEF TypeOK
<1>3. skipped \in 0 .. MaxBytes /\ over \in 0 .. MaxOver /\ nw_tmp \in 0 .. MAX_LINE + MaxOver
  BY DEF TypeOK
<1>4. buf \in Seq(Nat) /\ Len(buf) <= MAX_LINE
  BY DEF TypeOK
<1>5. out \in [Dest -> Seq(Nat)] /\ drained \in [Dest -> Nat]
  BY DEF TypeOK
<1>6. \A p \in Peer : sent[p] \in Nat /\ sent[p] <= MaxBytes
  BY <1>1, <1>2
<1>7. \A p \in Peer : taken[p] \in Nat /\ taken[p] <= MaxBytes
  BY <1>1, <1>2
<1>8. skipped \in Nat /\ over \in Nat /\ nw_tmp \in Nat
  BY <1>1, <1>3
<1>9. Len(buf) \in Nat
  BY <1>4
<1>10. \A d \in Dest : out[d] \in Seq(Nat) /\ Len(out[d]) \in Nat /\ drained[d] \in Nat
  BY <1>5
<1> QED BY <1>1, <1>4, <1>6, <1>7, <1>8, <1>9, <1>10

(* Before the set-up nothing was read or written.                          *)
LEMMA IInvInit == Init => IInv
<1> SUFFICES ASSUME Init PROVE IInv
  OBVIOUS
<1>1. TypeOK
  <2>1. 0 \in 0 .. MaxBytes /\ 0 \in 0 .. MaxOver /\ 0 \in 0 .. MAX_LINE + MaxOver
    BY RelayAssumption
  <2>2. Len(buf) <= MAX_LINE
    BY RelayAssumption DEF Init
  <2>3. /\ sent \in [Peer -> 0 .. MaxBytes] /\ taken \in [Peer -> 0 .. MaxBytes]
        /\ skipped \in 0 .. MaxBytes /\ over \in 0 .. MaxOver
        /\ nw_tmp \in 0 .. MAX_LINE + MaxOver /\ drained \in [Dest -> Nat]
    BY <2>1 DEF Init
  <2>4. buf \in Seq(Nat) /\ out \in [Dest -> Seq(Nat)] /\ src \in Peer
    BY DEF Init, Peer
  <2> QED BY <2>2, <2>3, <2>4 DEF Init, TypeOK, Dest
<1>2. InSequence
  BY DEF Init, InSequence, From, Dest, Peer
<1>3. Numbers
  BY DEF Init, Numbers
<1> QED BY <1>1, <1>2, <1>3
  DEF Init, IInv, Phases, Endings, Command, Buffer, Bounded, ToBack, ToClient,
      RelayComplete, Dest, Peer

(* A move to another call that leaves the bytes alone.                     *)
LEMMA MoveKeeps ==
  ASSUME IInv, TypeOK', Phases', pc \notin {"exit", "write"}, pc' \notin {"exit", "write"},
         UNCHANGED <<trans, back_fd, why, sent, taken, out, skipped, over>>
  PROVE  IInv'
<1>1. Numbers' /\ Endings' /\ Command' /\ Buffer' /\ Bounded'
  BY DEF IInv, Numbers, Endings, Command, Buffer, Bounded
<1>2. ToBack' /\ ToClient'
  BY DEF IInv, ToBack, ToClient, Remaining, stalled
<1>3. InSequence' /\ RelayComplete'
  BY DEF IInv, InSequence, RelayComplete, From, stalled
<1> QED BY <1>1, <1>2, <1>3 DEF IInv

(* The process ends without a further write.                               *)
LEMMA ExitKeeps ==
  ASSUME IInv, pc # "exit",
         NEW w \in {"setup", "master", "error", "end of back", "end of client"},
         exit_cleanup(w), UNCHANGED out,
         /\ w = "end of client" /\ trans => Len(out[back_fd]) = sent["client"] - skipped
         /\ w = "end of back" /\ ~ stalled => Len(out["client"]) = sent["back"]
  PROVE  IInv'
<1> USE DEF exit_cleanup, state, epoll, copy, peers, ghost
<1>1. TypeOK'
  BY DEF IInv, TypeOK
<1>2. Phases' /\ Numbers' /\ Endings'
  BY DEF IInv, Phases, Numbers, Endings
<1>3. Command' /\ Buffer' /\ Bounded' /\ ToBack' /\ ToClient'
  BY DEF IInv, Command, Buffer, Bounded, ToBack, ToClient
<1>4. InSequence'
  BY DEF IInv, InSequence, From, stalled, Endings
<1>5. RelayComplete'
  BY DEF RelayComplete, stalled
<1> QED BY <1>1, <1>2, <1>3, <1>4, <1>5 DEF IInv

-----------------------------------------------------------------------------
(* What the peers and the master do changes neither the buffer nor what    *)
(* was passed on.                                                          *)
LEMMA EnvironmentStep == ASSUME IInv, Environment PROVE IInv'
<1> USE DEF mine, state, copy, ghost
<1>0. pc # "exit" /\ why = "none"
  BY DEF Environment, IInv, Endings
<1>1. /\ UNCHANGED <<pc, back_ip, back_fd, trans, watched, batch, src, buf, nw_tmp, why,
                     taken, out, skipped, over>>
      /\ edge' \subseteq edge \cup watched
  BY DEF Environment, Send, HalfClose, Leave, Receive, MasterEnds, Wake
<1>2. /\ sent' \in [Peer -> 0 .. MaxBytes]
      /\ \A q \in Peer : sent[q] <= sent'[q]
  <2>1. sent \in [Peer -> 0 .. MaxBytes] /\ \A q \in Peer : sent[q] \in Nat
    BY CountersTyped DEF IInv, TypeOK
  <2>2. CASE UNCHANGED sent
    BY <2>1, <2>2
  <2>3. ASSUME NEW p \in Peer, Send(p)
        PROVE  /\ sent' \in [Peer -> 0 .. MaxBytes]
               /\ \A q \in Peer : sent[q] <= sent'[q]
    <3>1. sent[p] < MaxBytes /\ sent' = [sent EXCEPT ![p] = sent[p] + 1]
      BY <2>3 DEF Send
    <3> QED BY <2>1, <3>1, RelayAssumption
  <2> QED BY <2>2, <2>3 DEF Environment, HalfClose, Leave, Receive, MasterEnds
<1>3. /\ drained' \in [Dest -> Nat]
      /\ master' \in BOOLEAN
      /\ fin' \subseteq Peer
      /\ gone' \subseteq fin' \cup {"pipe"}
  <2>1. /\ drained \in [Dest -> Nat] /\ master \in BOOLEAN /\ fin \subseteq Peer
        /\ gone \subseteq fin \cup {"pipe"}
    BY DEF IInv, TypeOK
  <2>2. ASSUME NEW d \in Dest, Receive(d)
        PROVE  drained' \in [Dest -> Nat] /\ UNCHANGED <<fin, gone, master>>
    <3>1. drained' = [drained EXCEPT ![d] = drained[d] + 1]
      BY <2>2 DEF Receive
    <3> QED BY <2>1, <2>2, <3>1 DEF Receive
  <2> QED BY <2>1, <2>2 DEF Environment, Send, HalfClose, Leave, MasterEnds
<1>4. TypeOK'
  BY <1>1, <1>2, <1>3 DEF IInv, TypeOK
<1>5. Numbers'
  <2>1. \A q \in Peer : sent[q] \in Nat /\ taken[q] \in Nat
    BY CountersTyped DEF IInv
  <2>2. \A q \in Peer : sent'[q] \in Nat
    BY <1>2, RelayAssumption
  <2> QED BY <1>1, <1>2, <2>1, <2>2 DEF IInv, Numbers
<1>6. Phases' /\ Endings' /\ Command' /\ Bounded'
  BY <1>1 DEF IInv, Phases, Endings, Command, Bounded
<1>7. Buffer' /\ ToBack' /\ ToClient' /\ InSequence'
  BY <1>1 DEF IInv, Buffer, ToBack, ToClient, InSequence, Remaining, From, stalled
<1>8. RelayComplete'
  BY <1>0, <1>1 DEF RelayComplete
<1> QED BY <1>4, <1>5, <1>6, <1>7, <1>8 DEF IInv

(* The set-up registers the client and the pipe of the master.             *)
LEMMA SetupStep == ASSUME IInv, Setup PROVE IInv'
<1>1. CASE exit_cleanup("setup") /\ UNCHANGED out
  BY <1>1, ExitKeeps DEF Setup
<1>2. CASE /\ pc' = "wait" /\ watched' = {"client", "parent"}
           /\ edge' = Due \cap {"client", "parent"}
           /\ UNCHANGED <<state, batch, copy, why, taken, out, peers, ghost>>
  <2> USE DEF state, copy, peers, ghost
  <2>0. pc = "setup" /\ batch = {}
    BY DEF Setup, IInv, Phases
  <2>1. TypeOK'
    BY <1>2, <2>0 DEF IInv, TypeOK, Dest, Peer
  <2>2. Phases'
    BY <1>2, <2>0 DEF IInv, Phases
  <2> QED BY <1>2, <2>0, <2>1, <2>2, MoveKeeps
<1> QED BY <1>1, <1>2 DEF Setup

(* epoll_wait fetches a batch of events.                                   *)
LEMMA WaitStep == ASSUME IInv, epoll_wait PROVE IInv'
<1> USE DEF epoll_wait, state, copy, peers, ghost
<1>1. TypeOK'
  BY DEF IInv, TypeOK
<1>2. Phases'
  BY DEF IInv, Phases
<1> QED BY <1>1, <1>2, MoveKeeps

(* An event leads to reads of its side, or to the end if the master is     *)
(* gone.                                                                   *)
LEMMA DispatchStep == ASSUME IInv, Dispatch \/ MasterGone PROVE IInv'
<1> USE DEF state, epoll, copy, peers, ghost
<1>1. CASE MasterGone
  BY <1>1, ExitKeeps DEF MasterGone
<1>2. CASE Dispatch
  <2>1. /\ pc = "dispatch" /\ pc' \in {"wait", "read"}
        /\ batch' \subseteq batch
        /\ src' = src \/ src' \in batch \cap Peer
        /\ UNCHANGED <<back_ip, back_fd, trans, edge, watched, buf, nw_tmp, why, taken,
                       out, sent, fin, gone, drained, master, skipped, over>>
    BY <1>2 DEF Dispatch
  <2>2. TypeOK'
    BY <2>1 DEF IInv, TypeOK
  <2>3. Phases'
    BY <2>1 DEF IInv, Phases, TypeOK
  <2> QED BY <2>1, <2>2, <2>3, MoveKeeps
<1> QED BY <1>1, <1>2

-----------------------------------------------------------------------------
(* A read of the command, or of bytes that are to be passed on: the buffer *)
(* holds nothing else at that time.                                        *)
LEMMA ReadSomeStep == ASSUME IInv, pc = "read", ReadSome PROVE IInv'
<1> DEFINE n == Min({Unread, MAX_LINE})
<1> USE DEF state, epoll, peers
<1>1. /\ src \in Peer /\ sent[src] \in Nat /\ taken[src] \in Nat /\ MAX_LINE \in Nat \ {0}
      /\ sent[src] <= MaxBytes /\ MaxBytes \in Nat /\ MaxOver \in Nat /\ skipped \in Nat
  BY CountersTyped DEF IInv, TypeOK
<1>2. n \in Nat /\ n > 0 /\ n <= MAX_LINE /\ taken[src] + n <= sent[src]
  <2>1. Unread \in Int /\ Unread > 0 /\ MAX_LINE \in Int
    BY <1>1 DEF ReadSome, Unread
  <2>2. n \in {Unread, MAX_LINE} /\ n <= Unread /\ n <= MAX_LINE
    BY <2>1, MinOfTwo
  <2>3. n \in Nat /\ n > 0
    BY <1>1, <2>1, <2>2
  <2> HIDE DEF n
  <2> QED BY <1>1, <2>2, <2>3 DEF Unread
<1>3. /\ buf' = [i \in 1 .. n |-> taken[src] + i] /\ nw_tmp' = Len(buf')
      /\ pc' = IF trans THEN "write" ELSE "command"
      /\ skipped' = IF trans THEN skipped ELSE skipped + Len(buf')
      /\ taken' = [taken EXCEPT ![src] = taken[src] + n]
      /\ UNCHANGED <<back_ip, back_fd, trans, edge, watched, batch, src, why, out, sent,
                     fin, gone, drained, master, over>>
  BY DEF ReadSome, Process
<1> HIDE DEF n
<1>4. /\ buf' \in Seq(Nat) /\ Len(buf') = n /\ buf' # <<>>
      /\ \A i \in 1 .. n : buf'[i] = taken[src] + i
  <2>1. \A i \in 1 .. n : taken[src] + i \in Nat
    BY <1>1, <1>2
  <2>2. buf' \in Seq(Nat)
    BY <1>2, <1>3, <2>1
  <2>3. Len(buf') = n /\ buf' # <<>>
    BY <1>2, <1>3
  <2>4. \A i \in 1 .. n : buf'[i] = taken[src] + i
    BY <1>3
  <2> QED BY <2>2, <2>3, <2>4
<1>5. /\ taken' \in [Peer -> 0 .. MaxBytes]
      /\ taken'[src] = taken[src] + n
      /\ \A q \in Peer : q # src => taken'[q] = taken[q]
  <2>1. taken \in [Peer -> 0 .. MaxBytes]
    BY DEF IInv, TypeOK
  <2>2. taken[src] + n \in 0 .. MaxBytes
    BY <1>1, <1>2
  <2> QED BY <1>1, <1>3, <2>1, <2>2
<1>6. ~ trans => src = "client" /\ skipped + n = taken'["client"]
  BY <1>5 DEF IInv, Phases, Command, Peer, TypeOK
<1>7. TypeOK'
  <2>1. nw_tmp' \in 0 .. MAX_LINE + MaxOver /\ Len(buf') <= MAX_LINE
    BY <1>1, <1>2, <1>3, <1>4
  <2>2. skipped' \in 0 .. MaxBytes
    <3>1. skipped \in 0 .. MaxBytes
      BY DEF IInv, TypeOK
    <3>2. CASE trans
      BY <1>3, <3>1, <3>2
    <3>3. CASE ~ trans
      <4>1. skipped' = taken'[src] /\ taken'[src] \in 0 .. MaxBytes
        BY <1>1, <1>3, <1>4, <1>5, <1>6, <3>3
      <4> QED BY <4>1
    <3> QED BY <3>2, <3>3
  <2>3. pc' \in {"write", "command"}
    BY <1>3
  <2> QED BY <1>3, <1>4, <1>5, <2>1, <2>2, <2>3 DEF IInv, TypeOK
<1>8. Phases' /\ Endings'
  BY <1>3, <1>6 DEF IInv, Phases, Endings
<1>9. Numbers'
  BY <1>1, <1>2, <1>3, <1>5 DEF IInv, Numbers
<1>10. Command'
  <2> SUFFICES ASSUME ~ trans PROVE Command'
    BY <1>3 DEF Command
  <2>1. skipped' = taken'["client"] /\ taken'["back"] = taken["back"]
    BY <1>3, <1>4, <1>5, <1>6 DEF Peer
  <2> QED BY <1>3, <2>1 DEF IInv, Command
<1>11. Buffer' /\ Bounded'
  <2>1. n > 0 /\ n <= n + over /\ taken[src] + n - n = taken[src]
    BY <1>1, <1>2, CountersTyped DEF IInv
  <2>2. From(taken'[src] - Len(buf'), buf')
    <3>1. taken'[src] - Len(buf') = taken[src]
      BY <1>1, <1>2, <1>4, <1>5, Sums
    <3>2. From(taken[src], buf')
      BY <1>4 DEF From
    <3> QED BY <3>1, <3>2
  <2>3. n <= n
    BY <1>2
  <2> QED BY <1>3, <1>4, <2>1, <2>2, <2>3 DEF Buffer, Bounded
<1>12. ToBack' /\ ToClient'
  <2> SUFFICES ASSUME trans PROVE ToBack' /\ ToClient'
    BY <1>3 DEF ToBack, ToClient
  <2>1. /\ pc' = "write" /\ nw_tmp' = n /\ src' = src /\ UNCHANGED skipped
    BY <1>3, <1>4
  <2>2. /\ Len(out[back_fd]) + skipped + 0 = taken["client"]
        /\ ~ stalled => Len(out["client"]) + 0 = taken["back"]
    BY DEF IInv, ToBack, ToClient, Remaining
  <2>3. /\ "client" \in Dest /\ back_fd \in Dest /\ "client" \in Peer /\ "back" \in Peer
        /\ "client" # "back"
    BY DEF IInv, Phases, Dest, Peer
  <2>4. Len(out[back_fd]) \in Nat /\ Len(out["client"]) \in Nat
    BY <2>3, CountersTyped DEF IInv
  <2>5. CASE src = "client"
    <3>1. taken'["client"] = taken["client"] + n /\ taken'["back"] = taken["back"]
      BY <1>5, <2>3, <2>5
    <3>2. Remaining("client")' = n /\ Remaining("back")' = 0
      BY <2>1, <2>3, <2>5 DEF Remaining
    <3>3. Len(out[back_fd]) + skipped + n = taken["client"] + n
      BY <1>1, <1>2, <2>2, <2>4
    <3> QED BY <1>3, <2>1, <2>2, <3>1, <3>2, <3>3 DEF ToBack, ToClient, stalled
  <2>6. CASE src = "back"
    <3>1. taken'["client"] = taken["client"] /\ taken'["back"] = taken["back"] + n
      BY <1>5, <2>3, <2>6
    <3>2. Remaining("client")' = 0 /\ Remaining("back")' = n
      BY <2>1, <2>3, <2>6 DEF Remaining
    <3>3. ~ stalled => Len(out["client"]) + n = taken["back"] + n
      BY <1>1, <1>2, <2>2, <2>4
    <3> QED BY <1>3, <2>1, <2>2, <3>1, <3>2, <3>3 DEF ToBack, ToClient, stalled
  <2> QED BY <1>1, <2>5, <2>6 DEF Peer
<1>13. InSequence'
  <2>1. CASE trans
    BY <1>3, <2>1 DEF IInv, InSequence, From, stalled
  <2>2. CASE ~ trans
    <3>1. out["back"] = <<>> /\ out["pipe"] = <<>> /\ out["client"] = <<>>
      BY <2>2 DEF IInv, Command
    <3> QED BY <1>3, <3>1 DEF InSequence, From
  <2> QED BY <2>1, <2>2
<1>14. RelayComplete'
  BY <1>3 DEF IInv, Endings, RelayComplete
<1> QED BY <1>7, <1>8, <1>9, <1>10, <1>11, <1>12, <1>13, <1>14 DEF IInv

(* Every outcome of a read: bytes, nothing more, the end of the side, an   *)
(* error.                                                                  *)
LEMMA ReadStep == ASSUME IInv, Read PROVE IInv'
<1> USE DEF state, epoll, copy, peers, ghost
<1>0. /\ pc = "read" /\ src \in Peer /\ sent[src] \in Nat /\ taken[src] \in Nat
      /\ skipped \in Nat
  BY CountersTyped DEF Read, IInv, TypeOK
<1>1. CASE ReadSome
  BY <1>0, <1>1, ReadSomeStep
<1>2. CASE ReadEnd
  <2>1. sent[src] = taken[src]
    BY <1>0, <1>2 DEF ReadEnd, Unread
  <2>2. /\ trans => Len(out[back_fd]) + skipped + 0 = taken["client"]
        /\ trans /\ ~ stalled => Len(out["client"]) + 0 = taken["back"]
    BY <1>0 DEF IInv, ToBack, ToClient, Remaining
  <2>3. /\ "client" \in Dest /\ (trans => back_fd \in Dest)
    BY DEF IInv, Phases, Dest, Peer
  <2>4. (trans => Len(out[back_fd]) \in Nat) /\ Len(out["client"]) \in Nat
    BY <2>3, CountersTyped DEF IInv
  <2>5. src = "client" /\ trans => Len(out[back_fd]) = sent["client"] - skipped
    <3>1. src = "client" /\ trans =>
            taken["client"] \in Nat /\ sent["client"] = taken["client"]
      BY <1>0, <2>1
    <3>2. src = "client" /\ trans => Len(out[back_fd]) = taken["client"] - skipped
      BY <1>0, <2>2, <2>4, <3>1, Sums
    <3> QED BY <3>1, <3>2
  <2>6. src = "back" /\ ~ stalled => Len(out["client"]) = sent["back"]
    <3>1. src = "back" => trans /\ sent["back"] = taken["back"]
      BY <2>1 DEF IInv, Phases
    <3>2. src = "back" /\ ~ stalled => Len(out["client"]) = taken["back"]
      BY <2>2, <2>4, <3>1, Sums
    <3> QED BY <3>1, <3>2
  <2>7. EndOf(src) \in {"end of back", "end of client"}
    BY DEF EndOf
  <2>8. (EndOf(src) = "end of client" => src = "client")
        /\ (EndOf(src) = "end of back" => src = "back")
    BY <1>0 DEF EndOf, Peer
  <2> QED BY <1>0, <1>2, <2>5, <2>6, <2>7, <2>8, ExitKeeps DEF ReadEnd
<1>3. CASE ReadError
  BY <1>0, <1>3, ExitKeeps DEF ReadError
<1>4. CASE ReadAgain
  <2>1. TypeOK' /\ Phases'
    BY <1>0, <1>4 DEF ReadAgain, IInv, TypeOK, Phases
  <2> QED BY <1>0, <1>4, <2>1, MoveKeeps DEF ReadAgain
<1> QED BY <1>1, <1>2, <1>3, <1>4 DEF Read

(* The error text is the only thing the client gets.                       *)
LEMMA RefuseKeeps == ASSUME IInv, pc \in {"command", "register"}, Refuse PROVE IInv'
<1> USE DEF Refuse, exit_cleanup, state, epoll, copy, peers, ghost
<1>1. /\ out' \in [Dest -> Seq(Nat)]
      /\ out'["back"] = out["back"] /\ out'["pipe"] = out["pipe"]
  <2>1. out \in [Dest -> Seq(Nat)] /\ "client" \in Dest
    BY DEF IInv, TypeOK, Dest, Peer
  <2>2. Append(out["client"], 0) \in Seq(Nat)
    BY <2>1
  <2> QED BY <2>1, <2>2 DEF Dest, Peer
<1>2. /\ UNCHANGED <<back_ip, back_fd, trans, edge, watched, batch, src, buf, nw_tmp, taken,
                     sent, fin, gone, drained, master, skipped, over>>
      /\ pc' = "exit" /\ why' = "refused" /\ ~ trans
  BY DEF IInv, Phases
<1> HIDE DEF Refuse, exit_cleanup, state, epoll, copy, peers, ghost
<1>3. TypeOK'
  BY <1>1, <1>2 DEF IInv, TypeOK
<1>4. Phases' /\ Numbers' /\ Endings' /\ Command' /\ Buffer' /\ Bounded' /\ ToBack' /\ ToClient'
  BY <1>1, <1>2
  DEF IInv, Phases, Numbers, Endings, Command, Buffer, Bounded, ToBack, ToClient
<1>5. InSequence' /\ RelayComplete'
  BY <1>1, <1>2 DEF IInv, InSequence, RelayComplete, From
<1> QED BY <1>3, <1>4, <1>5 DEF IInv

(* The command makes the child connect, and register the back server; what *)
(* was read until then is skipped.                                         *)
LEMMA CommandStep == ASSUME IInv, Connect \/ Register PROVE IInv'
<1> USE DEF state, epoll, copy, peers, ghost
<1>0. pc \in {"command", "register"}
  BY DEF Connect, Register
<1>1. CASE Refuse
  BY <1>0, <1>1, RefuseKeeps
<1>2. CASE Connect
  <2>1. CASE /\ pc' = "read"
             /\ UNCHANGED <<state, epoll, copy, why, taken, out, peers, ghost>>
    <3>1. pc = "command" /\ TypeOK' /\ Phases'
      BY <1>2, <2>1 DEF Connect, IInv, TypeOK, Phases
    <3> QED BY <2>1, <3>1, MoveKeeps
  <2>2. CASE /\ back_fd' \in connect_to_back_server \ {"none"}
             /\ pc' = "register"
             /\ UNCHANGED <<back_ip, trans, epoll, copy, why, taken, out, peers, ghost>>
    <3>1. pc = "command" /\ back_fd' \in {"back", "pipe"} /\ ~ trans /\ src = "client"
          /\ why = "none" /\ "back" \notin watched
      BY <1>2, <2>2 DEF Connect, connect_to_back_server, IInv, Phases, Endings
    <3>2. TypeOK'
      BY <2>2, <3>1 DEF IInv, TypeOK, Dest, Peer
    <3>3. Phases'
      BY <2>2, <3>1 DEF IInv, Phases
    <3>4. Numbers' /\ Endings' /\ Command' /\ Buffer' /\ Bounded' /\ ToBack' /\ ToClient'
      BY <2>2, <3>1
      DEF IInv, Numbers, Endings, Command, Buffer, Bounded, ToBack, ToClient
    <3>5. InSequence' /\ RelayComplete'
      BY <2>2, <3>1 DEF IInv, InSequence, RelayComplete, From, stalled
    <3> QED BY <3>2, <3>3, <3>4, <3>5 DEF IInv
  <2> QED BY <1>1, <1>2, <2>1, <2>2 DEF Connect
<1>3. CASE Register
  <2>1. CASE /\ pc' = "read" /\ trans' = TRUE
             /\ watched' = watched \cup {back_fd}
             /\ edge' = edge \cup (Due \cap {back_fd})
             /\ UNCHANGED <<back_ip, back_fd, batch, copy, why, taken, out, peers, ghost>>
    <3>1. /\ pc = "register" /\ back_fd \in {"back", "pipe"} /\ ~ trans /\ src = "client"
          /\ why = "none" /\ "back" \notin watched
      BY <1>3 DEF Register, IInv, Phases, Endings
    <3>2. TypeOK'
      BY <2>1, <3>1 DEF IInv, TypeOK, Dest, Peer
    <3>3. Phases' /\ Numbers' /\ Endings' /\ Command' /\ Buffer' /\ Bounded'
      BY <2>1, <3>1 DEF IInv, Phases, Numbers, Endings, Command, Buffer, Bounded
    <3>4. ToBack' /\ ToClient'
      <4>1. /\ out[back_fd] = <<>> /\ out["client"] = <<>>
            /\ skipped = taken["client"] /\ taken["back"] = 0
        BY <3>1 DEF IInv, Command
      <4>2. Len(out[back_fd]) = 0 /\ Len(out["client"]) = 0 /\ skipped \in Nat
        BY <4>1, CountersTyped DEF IInv
      <4>3. Remaining("client")' = 0 /\ Remaining("back")' = 0
        BY <2>1 DEF Remaining
      <4>4. 0 + skipped + 0 = skipped
        BY <4>2
      <4> QED BY <2>1, <4>1, <4>2, <4>3, <4>4 DEF ToBack, ToClient
    <3>5. InSequence' /\ RelayComplete'
      BY <2>1, <3>1 DEF IInv, InSequence, RelayComplete, From, stalled
    <3> QED BY <3>2, <3>3, <3>4, <3>5 DEF IInv
  <2> QED BY <1>1, <1>3, <2>1 DEF Register
<1> QED BY <1>2, <1>3

-----------------------------------------------------------------------------
(* A text continued by the bytes that come next.                           *)
LEMMA Continued ==
  ASSUME NEW k \in Nat, NEW s \in Seq(Nat), NEW c \in Seq(Nat),
         From(k, s), From(k + Len(s), c)
  PROVE  From(k, s \o c)
<1> SUFFICES ASSUME NEW i \in 1 .. Len(s \o c) PROVE (s \o c)[i] = k + i
  BY DEF From
<1>1. Len(s) \in Nat /\ Len(c) \in Nat /\ Len(s \o c) = Len(s) + Len(c)
  BY ConcatProperties
<1>2. i \in 1 .. Len(s) + Len(c) /\ i \in Nat
  BY <1>1
<1>3. (s \o c)[i] = IF i <= Len(s) THEN s[i] ELSE c[i - Len(s)]
  BY <1>2, ConcatProperties
<1>4. CASE i <= Len(s)
  BY <1>1, <1>2, <1>3, <1>4 DEF From
<1>5. CASE ~ (i <= Len(s))
  <2>1. i - Len(s) \in 1 .. Len(c)
    BY <1>1, <1>2, <1>5
  <2>2. c[i - Len(s)] = k + Len(s) + (i - Len(s))
    BY <2>1 DEF From
  <2> QED BY <1>1, <1>2, <1>3, <1>5, <2>2
<1> QED BY <1>4, <1>5

(* What the next write() takes from the buffer.                            *)
LEMMA ChunkIs ==
  ASSUME IInv, pc = "write", NEW n \in 1 .. nw_tmp
  PROVE  /\ Chunk(n) \in Seq(Nat)
         /\ Len(Chunk(n)) = n
         /\ nw_tmp <= Len(buf) => From(taken[src] - nw_tmp, Chunk(n))
<1>1. /\ buf \in Seq(Nat) /\ Len(buf) \in Nat /\ nw_tmp \in Nat /\ taken[src] \in Nat
      /\ n \in Nat /\ n <= nw_tmp
  <2>1. src \in Peer
    BY DEF IInv, TypeOK
  <2>2. buf \in Seq(Nat) /\ Len(buf) \in Nat /\ nw_tmp \in Nat /\ taken[src] \in Nat
    BY <2>1, CountersTyped DEF IInv
  <2> QED BY <2>2
<1>2. From(taken[src] - Len(buf), buf)
  BY DEF IInv, Buffer
<1>3. \A i \in 1 .. n : /\ Len(buf) - nw_tmp + i \in Int
                        /\ Len(buf) - nw_tmp + i <= Len(buf)
  BY <1>1
<1>4. \A i \in 1 .. n :
        (IF Len(buf) - nw_tmp + i >= 1 THEN buf[Len(buf) - nw_tmp + i] ELSE 0) \in Nat
  <2> SUFFICES ASSUME NEW i \in 1 .. n, Len(buf) - nw_tmp + i >= 1
               PROVE  buf[Len(buf) - nw_tmp + i] \in Nat
    OBVIOUS
  <2>1. Len(buf) - nw_tmp + i \in 1 .. Len(buf)
    BY <1>1, <1>3
  <2> QED BY <1>1, <2>1, ElementOfSeq
<1>5. Chunk(n) = [i \in 1 .. n |->
                    IF Len(buf) - nw_tmp + i >= 1 THEN buf[Len(buf) - nw_tmp + i] ELSE 0]
  BY DEF Chunk
<1>6. Chunk(n) \in Seq(Nat) /\ Len(Chunk(n)) = n
  BY <1>1, <1>4, <1>5
<1>7. ASSUME nw_tmp <= Len(buf) PROVE From(taken[src] - nw_tmp, Chunk(n))
  <2> SUFFICES ASSUME NEW i \in 1 .. n
               PROVE  Chunk(n)[i] = taken[src] - nw_tmp + i
    BY <1>6 DEF From
  <2>1. Len(buf) - nw_tmp + i \in 1 .. Len(buf)
    BY <1>1, <1>7
  <2>2. Chunk(n)[i] = buf[Len(buf) - nw_tmp + i]
    BY <1>5, <2>1
  <2>3. buf[Len(buf) - nw_tmp + i] = taken[src] - Len(buf) + (Len(buf) - nw_tmp + i)
    BY <1>2, <2>1 DEF From
  <2>4. taken[src] - Len(buf) + (Len(buf) - nw_tmp + i) = taken[src] - nw_tmp + i
    BY <1>1
  <2> QED BY <2>2, <2>3, <2>4
<1> QED BY <1>6, <1>7

(* A write that takes some bytes moves them from the buffer to what was    *)
(* passed on.                                                              *)
LEMMA WriteSomeStep == ASSUME IInv, pc = "write", WriteSome PROVE IInv'
<1> USE DEF state, epoll, peers, ghost
<1>1. /\ trans /\ back_fd \in {"back", "pipe"} /\ src \in {"client", "back"}
      /\ dst \in Dest /\ back_fd \in Dest /\ "client" \in Dest /\ why = "none"
  BY DEF IInv, Phases, Endings, TypeOK, Peer, dst, Dest
<1>2. /\ nw_tmp \in Nat /\ Len(buf) \in Nat /\ taken[src] \in Nat /\ skipped \in Nat
      /\ out[dst] \in Seq(Nat) /\ Len(out[dst]) \in Nat /\ Free \in Int /\ over \in Nat
      /\ \A p \in {"client", "back"} : taken[p] \in Nat
  <2>1. Len(out[dst]) \in Nat /\ drained[dst] \in Nat /\ Room \in Nat
    BY <1>1, CountersTyped DEF IInv
  <2>2. Free \in Int
    BY <2>1 DEF Free
  <2> QED BY <1>1, <2>1, <2>2, CountersTyped DEF IInv, Peer
<1>3. PICK n \in 1 .. Min({nw_tmp, Free}) : Written(n)
  BY DEF WriteSome
<1>4. n \in 1 .. nw_tmp /\ n \in Nat /\ n > 0 /\ n <= nw_tmp
  <2>1. Min({nw_tmp, Free}) \in {nw_tmp, Free} /\ Min({nw_tmp, Free}) <= nw_tmp
    <3>1. nw_tmp \in Int /\ Free \in Int
      BY <1>2
    <3> HIDE DEF Free
    <3> QED BY <3>1, MinOfTwo
  <2>2. Min({nw_tmp, Free}) \in Int
    BY <1>2, <2>1
  <2> QED BY <1>2, <2>1, <2>2
<1>5. /\ out' = [out EXCEPT ![dst] = out[dst] \o Chunk(n)]
      /\ nw_tmp' = nw_tmp - n
      /\ pc' = IF nw_tmp = n THEN "read" ELSE "write"
      /\ UNCHANGED <<back_ip, back_fd, trans, edge, watched, batch, src, buf, why, taken, sent,
                     fin, gone, drained, master, skipped, over>>
  BY <1>3 DEF Written, WriteSome
<1>6. /\ Chunk(n) \in Seq(Nat) /\ Len(Chunk(n)) = n
      /\ nw_tmp <= Len(buf) => From(taken[src] - nw_tmp, Chunk(n))
  BY <1>4, ChunkIs
<1>7. /\ out[dst] \o Chunk(n) \in Seq(Nat)
      /\ Len(out[dst] \o Chunk(n)) = Len(out[dst]) + n
  <2>1. out[dst] \in Seq(Nat) /\ Chunk(n) \in Seq(Nat)
    BY <1>2, <1>6
  <2>2. /\ out[dst] \o Chunk(n) \in Seq(Nat)
        /\ Len(out[dst] \o Chunk(n)) = Len(out[dst]) + Len(Chunk(n))
    BY <2>1, ConcatProperties
  <2> QED BY <1>6, <2>2
<1>8. /\ out' \in [Dest -> Seq(Nat)]
      /\ out'[dst] = out[dst] \o Chunk(n)
      /\ \A d \in Dest : d # dst => out'[d] = out[d]
  <2>1. out \in [Dest -> Seq(Nat)]
    BY DEF IInv, TypeOK
  <2> QED BY <1>1, <1>5, <1>7, <2>1
<1>9. nw_tmp' \in Nat /\ nw_tmp' <= nw_tmp /\ (nw_tmp # n => nw_tmp' > 0)
      /\ (nw_tmp = n => nw_tmp' = 0)
  BY <1>2, <1>4, <1>5
<1>10. TypeOK'
  <2>1. nw_tmp' \in 0 .. MAX_LINE + MaxOver
    <3>1. nw_tmp \in 0 .. MAX_LINE + MaxOver /\ MAX_LINE + MaxOver \in Nat
      <4>1. MAX_LINE + MaxOver \in Nat
        BY RelayAssumption
      <4> QED BY <4>1 DEF IInv, TypeOK
    <3> QED BY <1>9, <3>1
  <2>2. pc' \in {"read", "write"}
    BY <1>5
  <2> QED BY <1>5, <1>8, <2>1, <2>2 DEF IInv, TypeOK
<1>11. Phases' /\ Numbers' /\ Endings' /\ Command' /\ RelayComplete'
  BY <1>1, <1>5 DEF IInv, Phases, Numbers, Endings, Command, RelayComplete
<1>12. Buffer' /\ Bounded'
  <2>1. Buffer /\ Bounded
    BY DEF IInv
  <2>2. /\ nw_tmp <= Len(buf) => nw_tmp' <= Len(buf)
        /\ nw_tmp <= Len(buf) + over => nw_tmp' <= Len(buf) + over
    BY <1>2, <1>9
  <2>3. pc' = "write" => nw_tmp' > 0
    BY <1>5, <1>9
  <2> QED BY <1>5, <2>1, <2>2, <2>3 DEF Buffer, Bounded, From, stalled
<1>13. Remaining(src)' = nw_tmp - n /\ Remaining(src) = nw_tmp
       /\ \A p \in {"client", "back"} : p # src => Remaining(p)' = 0 /\ Remaining(p) = 0
  <2>1. CASE nw_tmp = n
    BY <1>5, <1>9, <2>1 DEF Remaining
  <2>2. CASE nw_tmp # n
    BY <1>5, <1>9, <2>2 DEF Remaining
  <2> QED BY <2>1, <2>2
<1>14. \A a, b, c, d, e \in Nat : a + b + c = d => (a + e) + b + (c - e) = d
  BY Sums
<1>15. \A a, c, d, e \in Nat : a + c = d => (a + e) + (c - e) = d
  BY Sums
<1>16. CASE src = "client"
  <2>1. dst = back_fd /\ nw_tmp <= Len(buf) /\ back_fd # "client"
    BY <1>1, <1>16 DEF dst, IInv, Buffer
  <2>2. Len(out[back_fd]) + skipped + nw_tmp = taken["client"]
    BY <1>1, <1>13, <1>16 DEF IInv, ToBack
  <2>3. ToBack'
    <3>1. Len(out'[back_fd]) = Len(out[back_fd]) + n /\ Len(out[back_fd]) \in Nat
      BY <1>2, <1>7, <1>8, <2>1
    <3>2. taken["client"] \in Nat
      BY <1>2
    <3>3. (Len(out[back_fd]) + n) + skipped + (nw_tmp - n) = taken["client"]
      BY <1>2, <1>4, <1>14, <2>2, <3>1, <3>2
    <3> QED BY <1>5, <1>13, <1>16, <3>1, <3>3 DEF ToBack
  <2>4. ToClient'
    BY <1>1, <1>5, <1>8, <1>13, <1>16, <2>1 DEF IInv, ToClient, stalled
  <2>5. From(skipped, out'[back_fd])
    <3>1. taken[src] - nw_tmp = skipped + Len(out[back_fd])
      BY <1>2, <1>16, <2>1, <2>2
    <3>2. From(skipped, out[back_fd])
      BY <1>1 DEF IInv, InSequence
    <3> QED BY <1>2, <1>6, <1>8, <2>1, <3>1, <3>2, Continued
  <2>6. InSequence'
    BY <1>1, <1>5, <1>8, <2>1, <2>5 DEF IInv, InSequence, stalled, Dest, Peer
  <2> QED BY <1>10, <1>11, <1>12, <2>3, <2>4, <2>6 DEF IInv
<1>17. CASE src = "back"
  <2>1. dst = "client" /\ back_fd # "client" /\ back_fd = "back"
    BY <1>1, <1>17 DEF dst, IInv, Phases
  <2>2. ~ stalled => Len(out["client"]) + nw_tmp = taken["back"]
    BY <1>1, <1>13, <1>17 DEF IInv, ToClient
  <2>3. ToClient'
    BY <1>2, <1>4, <1>5, <1>7, <1>8, <1>13, <1>15, <1>17, <2>1, <2>2 DEF ToClient, stalled
  <2>4. ToBack'
    BY <1>1, <1>5, <1>8, <1>13, <1>17, <2>1 DEF IInv, ToBack
  <2>5. ~ stalled => From(0, out'["client"])
    <3> SUFFICES ASSUME ~ stalled PROVE From(0, out'["client"])
      OBVIOUS
    <3>1. taken[src] - nw_tmp = 0 + Len(out["client"])
      BY <1>2, <1>17, <2>1, <2>2
    <3>2. From(0, out["client"]) /\ nw_tmp <= Len(buf)
      BY <1>1 DEF IInv, InSequence, Buffer
    <3> QED BY <1>2, <1>6, <1>8, <2>1, <3>1, <3>2, Continued
  <2>6. InSequence'
    BY <1>1, <1>5, <1>8, <2>1, <2>5 DEF IInv, InSequence, stalled, Dest, Peer
  <2> QED BY <1>10, <1>11, <1>12, <2>3, <2>4, <2>6 DEF IInv
<1> QED BY <1>1, <1>16, <1>17

(* EAGAIN: to the back server nothing changes, to the client from now on   *)
(* the child has lost count.                                               *)
LEMMA WriteFullStep == ASSUME IInv, pc = "write", WriteFull PROVE IInv'
<1> USE DEF state, epoll, peers
<1>1. /\ trans /\ back_fd \in {"back", "pipe"} /\ src \in {"client", "back"}
      /\ why = "none"
  BY DEF IInv, Phases, Endings, TypeOK, Peer
<1>2. UNCHANGED <<pc, back_ip, back_fd, trans, edge, watched, batch, src, buf, why, taken, out,
                  sent, fin, gone, drained, master, skipped>>
  BY DEF WriteFull
<1>3. /\ nw_tmp \in Nat /\ Len(buf) \in Nat /\ over \in Nat /\ MAX_LINE \in Nat
      /\ MaxOver \in Nat /\ Len(buf) <= MAX_LINE /\ nw_tmp > 0 /\ nw_tmp <= Len(buf) + over
  BY CountersTyped DEF IInv, Buffer, Bounded
<1>4. CASE src = "client"
  <2>1. dst # "client" /\ nw_tmp' = nw_tmp /\ over' = over
    BY <1>1, <1>4 DEF WriteFull, dst, Retry
  <2>2. TypeOK'
    BY <1>2, <2>1 DEF IInv, TypeOK
  <2>3. Phases' /\ Numbers' /\ Endings' /\ Command' /\ Buffer' /\ Bounded'
    BY <1>2, <2>1
    DEF IInv, Phases, Numbers, Endings, Command, Buffer, Bounded, From, stalled
  <2>4. ToBack' /\ ToClient' /\ InSequence' /\ RelayComplete'
    BY <1>2, <2>1
    DEF IInv, ToBack, ToClient, InSequence, RelayComplete, Remaining, From, stalled
  <2> QED BY <2>2, <2>3, <2>4 DEF IInv
<1>5. CASE src = "back"
  <2>1. dst = "client" /\ nw_tmp' = nw_tmp + 1 /\ over' = over + 1 /\ over < MaxOver
    BY <1>5 DEF WriteFull, dst, Retry
  <2>2. /\ nw_tmp' \in 0 .. MAX_LINE + MaxOver /\ over' \in 0 .. MaxOver
        /\ nw_tmp' > 0 /\ nw_tmp' <= Len(buf) + over' /\ over' > 0
    BY <1>3, <2>1
  <2>3. stalled'
    BY <2>2 DEF stalled
  <2>4. TypeOK'
    BY <1>2, <2>2 DEF IInv, TypeOK
  <2>5. Phases' /\ Numbers' /\ Endings' /\ Command'
    BY <1>2 DEF IInv, Phases, Numbers, Endings, Command
  <2>6. Buffer' /\ Bounded'
    BY <1>2, <1>5, <2>2, <2>3 DEF IInv, Buffer, Bounded, From
  <2>7. ToBack'
    BY <1>2, <1>5 DEF IInv, ToBack, Remaining
  <2>8. ToClient' /\ InSequence' /\ RelayComplete'
    BY <1>1, <1>2, <2>3 DEF IInv, ToClient, InSequence, RelayComplete, From
  <2> QED BY <2>4, <2>5, <2>6, <2>7, <2>8 DEF IInv
<1> QED BY <1>1, <1>4, <1>5

(* Every outcome of a write: some bytes, a full socket, an error.          *)
LEMMA WriteStep == ASSUME IInv, Write PROVE IInv'
<1>1. CASE WriteError
  BY <1>1, ExitKeeps DEF Write, WriteError
<1> QED BY <1>1, WriteSomeStep, WriteFullStep DEF Write

(* Every step of the child, its peers and its master keeps the invariant.  *)
LEMMA IInvStep == IInv /\ [Next]_vars => IInv'
<1> SUFFICES ASSUME IInv, [Next]_vars PROVE IInv'
  OBVIOUS
<1>1. CASE UNCHANGED vars
  <2> USE <1>1 DEF vars
  <2>1. TypeOK' /\ Phases' /\ Numbers' /\ Endings'
    BY DEF IInv, TypeOK, Phases, Numbers, Endings
  <2>2. Command' /\ Buffer' /\ Bounded' /\ ToBack' /\ ToClient' /\ InSequence'
    BY DEF IInv, Command, Buffer, Bounded, ToBack, ToClient, InSequence, Remaining, From,
           stalled
  <2>3. RelayComplete'
    BY DEF IInv, RelayComplete, stalled
  <2> QED BY <2>1, <2>2, <2>3 DEF IInv
<1>2. CASE Next
  BY <1>2, EnvironmentStep, SetupStep, WaitStep, DispatchStep, ReadStep, CommandStep,
     WriteStep DEF Next, Child
<1> QED BY <1>1, <1>2

(* The accounting of bytes holds in every state of the child.              *)
THEOREM Invariance == FairSpec => []IInv
  BY IInvInit, IInvStep, PTL DEF FairSpec

(* RelayInOrder: what is passed on is what the other side sent, byte by    *)
(* byte, however the write loops split it, as long as the client's socket  *)
(* was never full.                                                         *)
THEOREM PassedInOrder == FairSpec => []RelayInOrder
<1>1. IInv => RelayInOrder
  <2> SUFFICES ASSUME IInv PROVE RelayInOrder
    OBVIOUS
  <2>1. /\ \A i \in 1 .. Len(out["back"]) : out["back"][i] = skipped + i
        /\ \A i \in 1 .. Len(out["pipe"]) : out["pipe"][i] = skipped + i
    BY DEF IInv, InSequence, From
  <2>2. From(0, out["client"]) => \A i \in 1 .. Len(out["client"]) : out["client"][i] = i
    <3>1. Len(out["client"]) \in Nat
      BY CountersTyped DEF IInv, Dest, Peer
    <3> QED BY <3>1 DEF From
  <2> QED BY <2>1, <2>2 DEF IInv, InSequence, RelayInOrder
<1> QED BY <1>1, Invariance, PTL

(* RelayComplete: a process that ends because a side closed has passed on  *)
(* everything which that side sent.                                        *)
THEOREM EndIsComplete == FairSpec => []RelayComplete
<1>1. IInv => RelayComplete
  BY DEF IInv
<1> QED BY <1>1, Invariance, PTL
=============================================================================
