----------------------------- MODULE ChildSetup -----------------------------
(***************************************************************************)
(* The descriptors of a child of samples/ctproxy and samples/server_epoll  *)
(* between fork and exec: fd_copy and fd_move of utils.c, the child's half *)
(* of create_child_and_exec, and what the masters have open by then.       *)
(*                                                                         *)
(* A table says what every number denotes.  Numbers are given out lowest   *)
(* first.  The program may be started with any of 0, 1 and 2 closed, in    *)
(* which case its own sockets get these numbers.                           *)
(***************************************************************************)
EXTENDS Integers, FiniteSets

CONSTANTS
  MaxNum,         \* the largest descriptor number
  MaxListeners,   \* bound: listening sockets
  MaxSessions     \* bound: connections accepted

ASSUME ChildSetupAssumption ==
  MaxNum \in Nat /\ MaxNum >= 2 /\ MaxListeners \in Nat \ {0} /\ MaxSessions \in Nat

Num == 0 .. MaxNum
Session == 1 .. MaxSessions
Nothing == <<"nothing", 0>>
NoNum == -1

VARIABLES
  mtab,      \* the master's table
  mstep,     \* how far the master has come
  msess,     \* per session: the numbers in its entry of clients_t
  ktab       \* per session: the table of its child once the program runs

childSetupVars == <<mtab, mstep, msess, ktab>>

(* fd: what a number denotes; cloexec: closed by exec; ok: no call failed. *)
NewTable(used) ==
  [fd |-> [n \in Num |-> IF n \in used THEN <<"std", n>> ELSE Nothing],
   cloexec |-> {}, ok |-> TRUE]

Opens(t, n) == n \in Num /\ t.fd[n] # Nothing

Shutting(t, S) ==
  [t EXCEPT !.fd = [n \in Num |-> IF n \in S THEN Nothing ELSE t.fd[n]],
            !.cloexec = @ \ S]

(* The lowest free number that is not below to.                            *)
NextNum(t, to) ==
  CHOOSE n \in {m \in Num : m >= to /\ ~ Opens(t, m)} :
    \A m \in to .. n - 1 : Opens(t, m)

Entered(t, n, o) == [t EXCEPT !.fd[n] = o]
Opened(t, o) == Entered(t, NextNum(t, 0), o)
HasFree(t, k) == Cardinality({n \in Num : ~ Opens(t, n)}) >= k

-----------------------------------------------------------------------------
(* Mutant of fd_copy: to is not closed before.                             *)
fd_copy_over(t, to, from) ==
  IF ~ Opens(t, from) THEN [t EXCEPT !.ok = FALSE]
  ELSE Entered(t, NextNum(t, to), t.fd[from])

(* to is closed, and from duplicated to the next free number.              *)
fd_copy(t, to, from) ==
  IF ~ Opens(t, from) THEN [t EXCEPT !.ok = FALSE]
  ELSE LET u == Shutting(t, {to}) IN Entered(u, NextNum(u, to), t.fd[from])

(* The child gives up at the first move that fails.                        *)
fd_move(t, to, from) ==
  LET c == fd_copy(t, to, from)
  IN IF ~ t.ok \/ to = from THEN t
     ELSE IF c.ok THEN Shutting(c, {from}) ELSE c

(* The child of the connection conn to the listening socket l, whose pipes *)
(* are p1 and p2, on its copy t of the master's table: the numbers 2, 0    *)
(* and 1 are made the connection and the child's ends; exec closes others. *)
ChildTable(t, l, conn, p1, p2) ==
  LET own == Shutting(t, {p1[2], p2[1], l})
      moved == fd_move(fd_move(fd_move(own, 2, conn), 0, p1[1]), 1, p2[2])
  IN Shutting(moved, moved.cloexec)

-----------------------------------------------------------------------------
ChildSetupInit ==
  /\ \E used \in SUBSET (0 .. 2) : mtab = NewTable(used)
  /\ mstep = "start"
  /\ msess = [k \in {} |-> 0]
  /\ ktab = [k \in {} |-> 0]

(* 0, 1 and 2 become /dev/null, each in its turn; in the foreground they   *)
(* stay as they are.                                                       *)
become_daemon(is_daemon) ==
  LET null(t, i) == Opened(Shutting(t, {i}), <<"null", i>>)
  IN /\ mstep = "start"
     /\ mstep' = "setup"
     /\ mtab' = IF is_daemon THEN null(null(null(mtab, 0), 1), 2) ELSE mtab
     /\ UNCHANGED <<msess, ktab>>

Listening == {n \in Num : mtab.fd[n][1] = "listen"}

(* One more address is bound: the only one of server.c, one round of the   *)
(* loop in main of ctserver.c.  One that cannot be created or bound leaves *)
(* nothing open.                                                           *)
create_and_bind ==
  /\ mstep = "setup" /\ HasFree(mtab, 1)
  /\ Cardinality(Listening) < MaxListeners
  /\ mtab' = Opened(mtab, <<"listen", Cardinality(Listening)>>)
  /\ UNCHANGED <<mstep, msess, ktab>>

EpollCreate ==
  /\ mstep = "setup" /\ Listening # {} /\ HasFree(mtab, 1)
  /\ mstep' = "serving"
  /\ mtab' = Opened(mtab, <<"epoll", 0>>)
  /\ UNCHANGED <<msess, ktab>>

(* A connection to l, or a failed accept (which ctserver.c does not let    *)
(* pass), the pipes and the fork.  The child ends without exec if a move   *)
(* fails; the master keeps its ends of the pipes.                          *)
create_child_and_exec(l, accepted) ==
  LET k == Cardinality(DOMAIN msess) + 1
      a == IF accepted THEN Opened(mtab, <<"conn", k>>) ELSE mtab
      conn == IF accepted THEN NextNum(mtab, 0) ELSE NoNum
      b == Opened(a, <<"p1 read", k>>)
      c == Opened(b, <<"p1 write", k>>)
      d == Opened(c, <<"p2 read", k>>)
      e == Opened(d, <<"p2 write", k>>)
      p1 == <<NextNum(a, 0), NextNum(b, 0)>>
      p2 == <<NextNum(c, 0), NextNum(d, 0)>>
      t == [e EXCEPT !.cloexec = @ \cup {p1[2], p2[1], l}]
      child == ChildTable(t, l, conn, p1, p2)
  IN /\ mstep = "serving" /\ k \in Session
     /\ l \in Listening
     /\ HasFree(mtab, 5)
     /\ mtab' = Shutting(t, {conn, p1[1], p2[2]})
     /\ msess' = [j \in 1 .. k |-> IF j = k THEN [fd |-> conn, pfd_r |-> p2[1], pfd_w |-> p1[2]]
                                   ELSE msess[j]]
     /\ ktab' = [j \in DOMAIN ktab \cup (IF child.ok THEN {k} ELSE {}) |->
                   IF j = k THEN child ELSE ktab[j]]
     /\ UNCHANGED mstep

NoEntry == [fd |-> NoNum, pfd_r |-> NoNum, pfd_w |-> NoNum]

(* The child has ended, and its entry is cleaned: the numbers that it      *)
(* keeps are closed, that of the connection, which is long closed, too.    *)
clean_client(k) ==
  /\ mstep = "serving" /\ k \in DOMAIN msess /\ msess[k] # NoEntry
  /\ mtab' = Shutting(mtab, {msess[k].fd, msess[k].pfd_r, msess[k].pfd_w})
  /\ msess' = [msess EXCEPT ![k] = NoEntry]
  /\ ktab' = [j \in DOMAIN ktab \ {k} |-> ktab[j]]
  /\ UNCHANGED mstep

ChildSetupNext ==
  \/ \E is_daemon \in BOOLEAN : become_daemon(is_daemon)
  \/ create_and_bind
  \/ EpollCreate
  \/ \E l \in Num, accepted \in BOOLEAN : create_child_and_exec(l, accepted)
  \/ \E k \in Session : clean_client(k)
-----------------------------------------------------------------------------
PipeEnds == {"p1 read", "p1 write", "p2 read", "p2 write", "conn"}

(* Whatever numbers were free at the start, and however sessions come and  *)
(* go, a child that runs has its connection and its ends of the pipes as   *)
(* 2, 0 and 1, and no other end of any session: so its end is the end of   *)
(* its pipes, which is how the master learns of it.  The master has open   *)
(* just its two ends of the pipes of each session.                         *)
ChildGetsItsEnds ==
  /\ \A k \in DOMAIN ktab :
       /\ ktab[k].fd[2] = <<"conn", k>>
       /\ ktab[k].fd[0] = <<"p1 read", k>>
       /\ ktab[k].fd[1] = <<"p2 write", k>>
       /\ \A n \in Num \ (0 .. 2) : ktab[k].fd[n][1] \notin PipeEnds
  /\ \A n \in Num : mtab.fd[n][1] \in PipeEnds =>
       \E k \in DOMAIN msess :
         \/ n = msess[k].pfd_r /\ mtab.fd[n] = <<"p2 read", k>>
         \/ n = msess[k].pfd_w /\ mtab.fd[n] = <<"p1 write", k>>
=============================================================================
