--------------------------- MODULE LifecycleProofs ---------------------------
(***************************************************************************)
(* Proofs about the pid files, for any number of processes: the lock of    *)
(* samples/daemon.c and the O_EXCL file of the servers; and about the      *)
(* descriptors which a child of the servers is given, for any table size.  *)
(***************************************************************************)
EXTENDS Daemon, ServerLife, ChildSetup, TLAPS, FiniteSetTheorems, WellFoundedInduction

-----------------------------------------------------------------------------
(* The daemon.  The lock excludes only those that opened the same file: an *)
(* instance that is up has open the file which PID_FILE names, until an    *)
(* unlink comes between.                                                   *)

Stage == {"off", "detached", "armed", "opened", "locked", "running",
          "terminating", "gone"}

DaemonTypeOK ==
  /\ pc \in [Instance -> Stage]
  /\ fd \in [Instance -> Files \cup {NoFile}]
  /\ name \in Files \cup {NoFile}
  /\ created \in 0 .. MaxFiles
  /\ lock \in [Files -> Instance \cup {Nobody}]
  /\ first \in [Files -> Instance \cup {Nobody, Cut}]
  /\ raced \in BOOLEAN
  /\ unwritten \subseteq Instance

OpenFile == \A p \in Instance : pc[p] \in Up => fd[p] \in Files

HoldsLock ==
  \A p \in Instance : pc[p] \in {"locked", "running"} => lock[fd[p]] = p

SameFile == ~ raced => \A p \in Instance : pc[p] \in Up => fd[p] = name

WroteFirst ==
  \A p \in Instance : pc[p] = "running" /\ p \notin unwritten => first[fd[p]] = p

(* A number in a file is that of the holder of its lock, or of an instance *)
(* that is gone.                                                           *)
Writes(q, f) ==
  fd[q] = f /\ lock[f] = q /\ pc[q] \in {"running", "terminating"}

OwnNumber ==
  \A f \in Files : \A q \in Instance :
    first[f] = q => pc[q] = "gone" \/ Writes(q, f)

DaemonInv ==
  DaemonTypeOK /\ OpenFile /\ HoldsLock /\ SameFile /\ WroteFirst /\ OwnNumber

(* Files are numbers, and no file is none of them.                         *)
LEMMA FilesAre == NoFile \notin Files /\ Files \subseteq Nat
  BY DaemonAssumption DEF NoFile, Files

(* The end of a process, by whatever cause, keeps the invariant.           *)
LEMMA ExitKeeps ==
  ASSUME DaemonInv, NEW p \in Instance, Exit(p),
         UNCHANGED <<name, created, first, raced, unwritten>>
  PROVE  DaemonInv'
<1>1. /\ pc' = [pc EXCEPT ![p] = "gone"]
      /\ fd' = [fd EXCEPT ![p] = NoFile]
      /\ lock' = [f \in Files |-> IF lock[f] = p THEN Nobody ELSE lock[f]]
  BY DEF Exit, Goes
<1>2. /\ pc'[p] = "gone"
      /\ \A q \in Instance : q # p => pc'[q] = pc[q] /\ fd'[q] = fd[q]
  BY <1>1 DEF DaemonInv, DaemonTypeOK
<1>3. DaemonTypeOK'
  BY <1>1 DEF DaemonInv, DaemonTypeOK, Stage
<1>4. OpenFile'
  BY <1>2 DEF DaemonInv, OpenFile, Up
<1>5. HoldsLock'
  <2> SUFFICES ASSUME NEW q \in Instance, pc'[q] \in {"locked", "running"}
               PROVE  lock'[fd'[q]] = q
    BY DEF HoldsLock
  <2>1. q # p /\ pc[q] \in {"locked", "running"} /\ fd'[q] = fd[q]
    BY <1>2
  <2>2. fd[q] \in Files /\ lock[fd[q]] = q
    BY <2>1 DEF DaemonInv, OpenFile, HoldsLock, Up
  <2> QED BY <1>1, <2>1, <2>2
<1>6. SameFile'
  BY <1>2 DEF DaemonInv, SameFile, Up
<1>7. WroteFirst'
  BY <1>2 DEF DaemonInv, WroteFirst
<1>8. OwnNumber'
  <2> SUFFICES ASSUME NEW f \in Files, NEW q \in Instance, first[f] = q, q # p,
                      pc[q] # "gone"
               PROVE  Writes(q, f)'
    BY <1>2 DEF OwnNumber
  <2>1. Writes(q, f)
    BY DEF DaemonInv, OwnNumber
  <2> QED BY <1>1, <1>2, <2>1 DEF Writes
<1> QED BY <1>3, <1>4, <1>5, <1>6, <1>7, <1>8 DEF DaemonInv

(* An instance that moves on without a file keeps the invariant.           *)
LEMMA MoveKeeps ==
  ASSUME DaemonInv, NEW p \in Instance, NEW s \in Stage \ Up, Goes(p, s),
         pc[p] \in {"off", "detached", "armed"},
         UNCHANGED <<fd, name, created, lock, first, raced, unwritten>>
  PROVE  DaemonInv'
<1>1. /\ pc' = [pc EXCEPT ![p] = s] /\ pc'[p] = s
      /\ \A q \in Instance : q # p => pc'[q] = pc[q]
  BY DEF Goes, DaemonInv, DaemonTypeOK
<1>2. DaemonTypeOK'
  BY <1>1 DEF DaemonInv, DaemonTypeOK
<1>3. OwnNumber'
  BY <1>1 DEF DaemonInv, OwnNumber, Writes
<1> QED BY <1>1, <1>2, <1>3
        DEF DaemonInv, OpenFile, HoldsLock, SameFile, WroteFirst, Up

(* Opening or creating the file that PID_FILE names.                       *)
LEMMA OpenKeeps ==
  ASSUME DaemonInv, NEW p \in Instance, OpenPidFile(p)
  PROVE  DaemonInv'
<1>1. CASE Goes(p, "gone") /\ UNCHANGED <<fd, name, created>>
  BY <1>1, MoveKeeps DEF OpenPidFile, Stage, Up
<1>2. ASSUME NEW f \in Files, fd' = [fd EXCEPT ![p] = f], name' = f,
             Goes(p, "opened"), created' \in 0 .. MaxFiles,
             name = f \/ name = NoFile
      PROVE  DaemonInv'
  <2>1. /\ pc' = [pc EXCEPT ![p] = "opened"] /\ pc'[p] = "opened" /\ fd'[p] = f
        /\ \A q \in Instance : q # p => pc'[q] = pc[q] /\ fd'[q] = fd[q]
    BY <1>2 DEF Goes, DaemonInv, DaemonTypeOK
  <2>2. pc[p] = "armed" /\ UNCHANGED <<lock, first, raced, unwritten>>
    BY DEF OpenPidFile
  <2>3. DaemonTypeOK'
    BY <1>2, <2>1, <2>2 DEF DaemonInv, DaemonTypeOK, Stage
  <2>4. OpenFile'
    BY <1>2, <2>1 DEF DaemonInv, OpenFile
  <2>5. HoldsLock' /\ WroteFirst'
    BY <2>1, <2>2 DEF DaemonInv, HoldsLock, WroteFirst
  <2>6. SameFile'
    <3> SUFFICES ASSUME ~ raced, NEW q \in Instance, q # p, pc[q] \in Up
                 PROVE  fd[q] = f
      BY <1>2, <2>1, <2>2 DEF SameFile
    <3>1. fd[q] = name /\ fd[q] \in Files
      BY DEF DaemonInv, SameFile, OpenFile
    <3> QED BY <1>2, <3>1, FilesAre
  <2>7. OwnNumber'
    BY <2>1, <2>2 DEF DaemonInv, OwnNumber, Writes
  <2> QED BY <2>3, <2>4, <2>5, <2>6, <2>7 DEF DaemonInv
<1>3. CASE name # NoFile /\ fd' = [fd EXCEPT ![p] = name] /\ Goes(p, "opened")
           /\ UNCHANGED <<name, created>>
  <2>1. name \in Files /\ created \in 0 .. MaxFiles
    BY <1>3 DEF DaemonInv, DaemonTypeOK
  <2> QED BY <1>2, <1>3, <2>1
<1>4. CASE /\ name = NoFile /\ created < MaxFiles /\ created' = created + 1
           /\ name' = created + 1 /\ fd' = [fd EXCEPT ![p] = created + 1]
           /\ Goes(p, "opened")
  <2>1. created + 1 \in Files /\ created' \in 0 .. MaxFiles
    BY <1>4, DaemonAssumption DEF DaemonInv, DaemonTypeOK, Files
  <2> QED BY <1>2, <1>4, <2>1
<1> QED BY <1>1, <1>3, <1>4 DEF OpenPidFile

(* The lock of a file is granted to one instance.                          *)
LEMMA LockKeeps ==
  ASSUME DaemonInv, NEW p \in Instance, SetLock(p)
  PROVE  DaemonInv'
<1>1. CASE lock[fd[p]] # Nobody /\ Exit(p)
  BY <1>1, ExitKeeps DEF SetLock
<1>2. CASE /\ lock[fd[p]] = Nobody /\ lock' = [lock EXCEPT ![fd[p]] = p]
           /\ Goes(p, "locked") /\ UNCHANGED fd
  <2>0. pc[p] = "opened" /\ fd[p] \in Files /\ UNCHANGED <<name, created, first, raced, unwritten>>
    BY DEF SetLock, DaemonInv, OpenFile, Up
  <2>1. /\ pc' = [pc EXCEPT ![p] = "locked"] /\ pc'[p] = "locked"
        /\ \A q \in Instance : q # p => pc'[q] = pc[q]
    BY <1>2 DEF Goes, DaemonInv, DaemonTypeOK
  <2>2. DaemonTypeOK'
    BY <1>2, <2>0, <2>1 DEF DaemonInv, DaemonTypeOK, Stage
  <2>3. OpenFile' /\ SameFile' /\ WroteFirst'
    BY <1>2, <2>0, <2>1 DEF DaemonInv, OpenFile, SameFile, WroteFirst, Up
  <2>4. HoldsLock'
    <3> SUFFICES ASSUME NEW q \in Instance, pc'[q] \in {"locked", "running"}
                 PROVE  lock'[fd'[q]] = q
      BY DEF HoldsLock
    <3>1. CASE q = p
      BY <1>2, <2>0, <3>1 DEF DaemonInv, DaemonTypeOK
    <3>2. CASE q # p
      <4>1. pc[q] \in {"locked", "running"} /\ fd[q] \in Files /\ lock[fd[q]] = q
        BY <2>1, <3>2 DEF DaemonInv, HoldsLock, OpenFile, Up
      <4>2. fd[q] # fd[p]
        BY <1>2, <4>1, DaemonAssumption
      <4> QED BY <1>2, <2>0, <4>1, <4>2 DEF DaemonInv, DaemonTypeOK
    <3> QED BY <3>1, <3>2
  <2>5. OwnNumber'
    <3> SUFFICES ASSUME NEW f \in Files, NEW q \in Instance, first[f] = q,
                        pc'[q] # "gone"
                 PROVE  Writes(q, f)'
      BY <2>0 DEF OwnNumber
    <3>1. Writes(q, f) /\ q # p
      BY <2>0, <2>1 DEF DaemonInv, OwnNumber, Writes
    <3>2. f # fd[p]
      BY <1>2, <3>1, DaemonAssumption DEF Writes
    <3> QED BY <1>2, <2>1, <3>1, <3>2 DEF DaemonInv, DaemonTypeOK, Writes
  <2> QED BY <2>2, <2>3, <2>4, <2>5 DEF DaemonInv
<1> QED BY <1>1, <1>2 DEF SetLock

(* The holder of the lock writes its number at the beginning, or a part of *)
(* it, or nothing.                                                         *)
LEMMA WriteKeeps ==
  ASSUME DaemonInv, NEW p \in Instance, WritePid(p)
  PROVE  DaemonInv'
<1>0. /\ pc[p] = "locked" /\ fd[p] \in Files /\ lock[fd[p]] = p
      /\ UNCHANGED <<fd, name, created, lock, raced>>
  BY DEF WritePid, DaemonInv, OpenFile, HoldsLock, Up
<1>1. /\ pc' = [pc EXCEPT ![p] = "running"] /\ pc'[p] = "running"
      /\ \A q \in Instance : q # p => pc'[q] = pc[q]
  BY DEF WritePid, Goes, DaemonInv, DaemonTypeOK
<1>2. /\ first' \in [Files -> Instance \cup {Nobody, Cut}]
      /\ unwritten' \subseteq Instance /\ unwritten \subseteq unwritten'
      /\ p \notin unwritten' => first'[fd[p]] = p
      /\ first'[fd[p]] \in {p, Cut, first[fd[p]]}
      /\ \A f \in Files : f # fd[p] => first'[f] = first[f]
  BY <1>0 DEF WritePid, DaemonInv, DaemonTypeOK
<1>3. DaemonTypeOK'
  BY <1>0, <1>1, <1>2 DEF DaemonInv, DaemonTypeOK, Stage
<1>4. OpenFile' /\ SameFile' /\ HoldsLock'
  BY <1>0, <1>1 DEF DaemonInv, OpenFile, SameFile, HoldsLock, Up
<1>5. WroteFirst'
  <2> SUFFICES ASSUME NEW q \in Instance, pc'[q] = "running", q \notin unwritten'
               PROVE  first'[fd[q]] = q
    BY <1>0 DEF WroteFirst
  <2>1. CASE q = p
    BY <1>2, <2>1
  <2>2. CASE q # p
    <3>1. pc[q] = "running" /\ fd[q] \in Files /\ lock[fd[q]] = q /\ first[fd[q]] = q
      BY <1>1, <1>2, <2>2 DEF DaemonInv, HoldsLock, OpenFile, WroteFirst, Up
    <3>2. fd[q] # fd[p]
      BY <1>0, <2>2, <3>1
    <3> QED BY <1>2, <3>1, <3>2
  <2> QED BY <2>1, <2>2
<1>6. OwnNumber'
  <2> SUFFICES ASSUME NEW f \in Files, NEW q \in Instance, first'[f] = q,
                      pc'[q] # "gone"
               PROVE  Writes(q, f)'
    BY DEF OwnNumber
  <2>1. CASE q = p /\ f = fd[p]
    BY <1>0, <1>1, <2>1 DEF Writes
  <2>2. CASE ~ (q = p /\ f = fd[p])
    <3>1. first[f] = q
      BY <1>2, <2>2, DaemonAssumption
    <3>2. Writes(q, f) /\ q # p
      BY <1>0, <1>1, <3>1 DEF DaemonInv, OwnNumber, Writes
    <3> QED BY <1>0, <1>1, <3>2 DEF Writes
  <2> QED BY <2>1, <2>2
<1> QED BY <1>3, <1>4, <1>5, <1>6 DEF DaemonInv

(* SIGTERM unlinks the name; raced is set if this takes the file of        *)
(* another instance away.                                                  *)
LEMMA TermKeeps ==
  ASSUME DaemonInv, NEW p \in Instance, Term(p)
  PROVE  DaemonInv'
<1>1. CASE pc[p] = "detached"
  BY <1>1, ExitKeeps DEF Term
<1>2. CASE pc[p] # "detached"
  <2>0. /\ name' = NoFile /\ UNCHANGED <<fd, lock, created, first, unwritten>>
        /\ raced' = (raced \/ \E q \in Instance \ {p} : fd[q] = name /\ name # NoFile)
    BY <1>2 DEF Term
  <2>1. /\ pc' = [pc EXCEPT ![p] = "terminating"] /\ pc'[p] = "terminating"
        /\ \A q \in Instance : q # p => pc'[q] = pc[q]
    BY <1>2 DEF Term, Goes, DaemonInv, DaemonTypeOK
  <2>2. raced' \in BOOLEAN
    BY <2>0
  <2>3. DaemonTypeOK'
    BY <2>0, <2>1, <2>2 DEF DaemonInv, DaemonTypeOK, Stage
  <2>4. OpenFile' /\ HoldsLock' /\ WroteFirst'
    BY <2>0, <2>1 DEF DaemonInv, OpenFile, HoldsLock, WroteFirst, Up
  <2>5. SameFile'
    <3> SUFFICES ASSUME ~ raced', NEW q \in Instance, pc'[q] \in Up
                 PROVE  FALSE
      BY DEF SameFile
    <3>1. q # p /\ pc[q] \in Up
      BY <2>1 DEF Up
    <3>2. ~ raced
      BY <2>0
    <3>3. fd[q] = name /\ name # NoFile
      BY <3>1, <3>2, FilesAre DEF DaemonInv, SameFile, OpenFile
    <3> QED BY <2>0, <3>1, <3>3
  <2>6. OwnNumber'
    <3>1. pc[p] # "gone"
      BY DEF Term, Up
    <3> QED BY <2>0, <2>1, <3>1 DEF DaemonInv, OwnNumber, Writes
  <2> QED BY <2>3, <2>4, <2>5, <2>6 DEF DaemonInv
<1> QED BY <1>1, <1>2

(* The invariant of the daemon holds always.                               *)
LEMMA DaemonInvariance == DaemonSpec => []DaemonInv
<1>1. DaemonInit => DaemonInv
  <2> SUFFICES ASSUME DaemonInit PROVE DaemonInv
    OBVIOUS
  <2>1. created \in 0 .. MaxFiles
    BY DaemonAssumption DEF DaemonInit
  <2>2. raced \in BOOLEAN /\ unwritten \subseteq Instance
    BY DEF DaemonInit
  <2>3. DaemonTypeOK
    BY <2>1, <2>2 DEF DaemonInit, DaemonTypeOK, Stage
  <2>4. \A p \in Instance : pc[p] = "off"
    BY DEF DaemonInit
  <2>5. OwnNumber
    BY DaemonAssumption DEF DaemonInit, OwnNumber
  <2> QED BY <2>3, <2>4, <2>5
          DEF DaemonInv, OpenFile, HoldsLock, SameFile, WroteFirst, Up
<1>2. DaemonInv /\ [DaemonNext]_daemonVars => DaemonInv'
  <2> SUFFICES ASSUME DaemonInv, [DaemonNext]_daemonVars PROVE DaemonInv'
    OBVIOUS
  <2>1. ASSUME NEW p \in Instance, daemon_init(p) PROVE DaemonInv'
    BY <2>1, MoveKeeps DEF daemon_init, Stage, Up
  <2>2. ASSUME NEW p \in Instance, CatchTerm(p) PROVE DaemonInv'
    BY <2>2, MoveKeeps DEF CatchTerm, Stage, Up
  <2>3. ASSUME NEW p \in Instance, sig_term_exit(p) \/ Killed(p) PROVE DaemonInv'
    BY <2>3, ExitKeeps DEF sig_term_exit, Killed
  <2>4. CASE UNCHANGED daemonVars
    BY <2>4 DEF daemonVars, DaemonInv, DaemonTypeOK, OpenFile, HoldsLock,
                SameFile, WroteFirst, OwnNumber, Writes
  <2> QED BY <2>1, <2>2, <2>3, <2>4, OpenKeeps, LockKeeps, WriteKeeps, TermKeeps
          DEF DaemonNext
<1> QED BY <1>1, <1>2, PTL DEF DaemonSpec

(* The lock keeps instances apart, for any number of them and of files, as *)
(* long as no unlink raced: what alread_running of daemon.c does achieve.  *)
THEOREM LockExcludes == DaemonSpec => []SingleUnlessRaced
<1>1. DaemonInv => SingleUnlessRaced
  <2> SUFFICES ASSUME DaemonInv, ~ raced, NEW p \in Running, NEW q \in Running
               PROVE  p = q
    BY DEF SingleUnlessRaced, SingleInstance
  <2>1. fd[p] = name /\ fd[q] = name /\ lock[fd[p]] = p /\ lock[fd[q]] = q
    BY DEF DaemonInv, SameFile, HoldsLock, Running, Up
  <2> QED BY <2>1
<1> QED BY <1>1, DaemonInvariance, PTL

(* The file that alread_running writes names the instance that runs; if    *)
(* its write failed, no other instance that is up.                         *)
THEOREM FileNamesInstance == DaemonSpec => []PidFileNamesInstance
<1>1. DaemonInv => PidFileNamesInstance
  <2> SUFFICES ASSUME DaemonInv, NEW p \in Instance, pc[p] = "running", ~ raced
               PROVE  /\ name # NoFile
                      /\ p \notin unwritten => first[name] = p
                      /\ \/ first[name] \in {p, Cut, Nobody}
                         \/ pc[first[name]] = "gone"
    BY DEF PidFileNamesInstance
  <2>1. fd[p] = name /\ name \in Files /\ name # NoFile
    BY FilesAre DEF DaemonInv, SameFile, OpenFile, Up
  <2>2. p \notin unwritten => first[name] = p
    BY <2>1 DEF DaemonInv, WroteFirst
  <2>3. first[name] \in Instance \ {p} => pc[first[name]] = "gone"
    BY <2>1 DEF DaemonInv, HoldsLock, OwnNumber, Writes
  <2> QED BY <2>1, <2>2, <2>3 DEF DaemonInv, DaemonTypeOK
<1> QED BY <1>1, DaemonInvariance, PTL

-----------------------------------------------------------------------------
(* The servers.                                                            *)

ServerTypeOK ==
  /\ at \in [Server -> {"off", "configured", "setup", "serving", "exiting", "gone"}]
  /\ pidfile \in Server \cup {"absent", "empty"}
  /\ ended \in [Server -> {"not", "no config", "pid file", "listen", "signal",
                           "quit", "crash"}]
  /\ strayed \in BOOLEAN

(* An exiting server has no file any more, and never gets one again.       *)
Unlinked ==
  \A p \in Server :
    /\ at[p] = "exiting" \/ ended[p] = "quit" => pidfile # p
    /\ ended[p] = "quit" => at[p] = "gone"

ServerInv == ServerTypeOK /\ PidFileNamesServer /\ Unlinked

(* The invariant of the servers' pid file holds always.                    *)
LEMMA ServerInvariance == ServerLifeSpec => []ServerInv
<1>1. ServerLifeInit => ServerInv
  BY ServerAssumption
     DEF ServerLifeInit, ServerInv, ServerTypeOK, PidFileNamesServer, Owners,
         Unlinked
<1>2. ServerInv /\ [ServerLifeNext]_serverVars => ServerInv'
  <2> SUFFICES ASSUME ServerInv, [ServerLifeNext]_serverVars PROVE ServerInv'
    OBVIOUS
  <2> USE DEF ServerInv, ServerTypeOK, PidFileNamesServer, Owners, Unlinked
  <2>1. ASSUME NEW p \in Server, get_config_file(p) PROVE ServerInv'
    BY <2>1 DEF get_config_file, Moves, Ends
  <2>2. ASSUME NEW p \in Server, create_pid_file(p) PROVE ServerInv'
    BY <2>2, ServerAssumption DEF create_pid_file, Moves, Ends
  <2>3. ASSUME NEW p \in Server, Setup(p) PROVE ServerInv'
    BY <2>3, ServerAssumption DEF Setup, Moves, Ends, Unlink
  <2>4. ASSUME NEW p \in Server, Signal(p) PROVE ServerInv'
    BY <2>4, ServerAssumption DEF Signal, Moves, Ends, Unlink
  <2>5. ASSUME NEW p \in Server, server_exit(p) PROVE ServerInv'
    BY <2>5 DEF server_exit, Ends
  <2>6. ASSUME NEW p \in Server, Crash(p) PROVE ServerInv'
    BY <2>6 DEF Crash, Ends
  <2>7. CASE UNCHANGED serverVars
    BY <2>7 DEF serverVars
  <2> QED BY <2>1, <2>2, <2>3, <2>4, <2>5, <2>6, <2>7 DEF ServerLifeNext
<1> QED BY <1>1, <1>2, PTL DEF ServerLifeSpec

(* create_pid_file lets one server run, and its file names that server.    *)
THEOREM FileNamesServer == ServerLifeSpec => []PidFileNamesServer
<1>1. ServerInv => PidFileNamesServer
  BY DEF ServerInv
<1> QED BY <1>1, ServerInvariance, PTL

(* server_exit leaves no file of the server that ends through it.          *)
THEOREM ExitsOrderly == ServerLifeSpec => []OrderlyExit
<1>1. ServerInv => OrderlyExit
  BY DEF ServerInv, Unlinked, OrderlyExit
<1> QED BY <1>1, ServerInvariance, PTL
-----------------------------------------------------------------------------
(* The descriptors of the servers and of their children.                   *)

ChildSetupSpec == ChildSetupInit /\ [][ChildSetupNext]_childSetupVars

Obj == ({"nothing", "std", "null", "listen", "epoll"} \cup PipeEnds) \X Nat

FdTable == [fd : [Num -> Obj], cloexec : SUBSET Num, ok : BOOLEAN]

SessEntry == [fd : Int, pfd_r : Int, pfd_w : Int]

(* The number is not that of an end of a session.                          *)
Foreign(t, n) == t.fd[n][1] \notin PipeEnds

SetupTypeOK ==
  /\ mtab \in FdTable
  /\ mstep \in {"start", "setup", "serving"}
  /\ \E k \in Nat : msess \in [1 .. k -> SessEntry]
  /\ DOMAIN ktab \subseteq DOMAIN msess

(* What exec closes in a child: descriptors that are open, and among them  *)
(* every end of a session that the master has.                             *)
Marked ==
  /\ \A n \in mtab.cloexec : Opens(mtab, n)
  /\ \A n \in Num : ~ Foreign(mtab, n) => n \in mtab.cloexec

(* Until the master serves there is nothing of a session, and the first    *)
(* listening socket takes 0 if it was free.                                *)
SettingUp ==
  mstep # "serving" =>
    /\ \A n \in Num : Foreign(mtab, n)
    /\ mtab.cloexec = {} /\ DOMAIN msess = {}
    /\ Listening # {} => Opens(mtab, 0)

(* The numbers below f, which include 0 and 1, are those of permanent      *)
(* descriptors, and f is free whenever no handler runs: it is what         *)
(* connections get, and so what the entries of sessions keep.              *)
Floor(f) ==
  /\ f >= 2
  /\ \A n \in Num : n < f => Opens(mtab, n) /\ Foreign(mtab, n)
  /\ f \in Num => ~ Opens(mtab, f)
  /\ \A k \in DOMAIN msess :
       /\ msess[k].fd \in {NoNum, f}
       /\ msess[k].pfd_r = NoNum \/ msess[k].pfd_r > f
       /\ msess[k].pfd_w = NoNum \/ msess[k].pfd_w > f

ServingFloor == mstep = "serving" => \E f \in Nat : Floor(f)

SetupInv ==
  /\ SetupTypeOK
  /\ mtab.ok
  /\ Marked
  /\ SettingUp
  /\ ServingFloor
  /\ ChildGetsItsEnds

Below == {ss \in Nat \X Nat : ss[1] < ss[2]}

(* A set of numbers has a least one.                                       *)
LEMMA LeastNat ==
  ASSUME NEW T \in SUBSET Nat, T # {}
  PROVE  \E n \in T : \A m \in T : n <= m
<1>1. IsWellFoundedOn(Below, Nat)
  BY NatLessThanWellFounded, Zenon DEF OpToRel, Below
<1>2. PICK x \in T : \A y \in T : ~ (<<y, x>> \in Below)
  BY <1>1, WFMin
<1>3. \A y \in T : ~ (y < x)
  BY <1>2 DEF Below
<1> QED BY <1>3

(* The number that a call gets, if those from to on are used up to it.     *)
LEMMA NextIs ==
  ASSUME NEW t, NEW to \in Nat, NEW n \in Num, n >= to, ~ Opens(t, n),
         \A m \in Num : (m >= to /\ m < n) => Opens(t, m)
  PROVE  NextNum(t, to) = n
<1> DEFINE P(q) == \A m \in to .. q - 1 : Opens(t, m)
           T == {m \in Num : m >= to /\ ~ Opens(t, m)}
           c == CHOOSE q \in T : P(q)
<1>0. Num \subseteq Nat /\ \A a \in Nat : \A b \in Num : a <= b => a \in Num
  BY ChildSetupAssumption DEF Num
<1>1. n \in T /\ P(n)
  <2>1. \A m \in to .. n - 1 : m \in Num /\ m >= to /\ m < n
    BY <1>0
  <2> QED BY <2>1
<1>2. c \in T /\ P(c)
  <2>1. \E q \in T : P(q)
    BY <1>1
  <2> HIDE DEF T, P
  <2> QED BY <2>1
<1>3. c \in Num /\ c >= to /\ ~ Opens(t, c)
  BY <1>2
<1>4. ~ (c < n)
  BY <1>3
<1>5. ~ (n < c)
  <2>1. n < c => n \in to .. c - 1
    <3> HIDE DEF c
    <3> QED BY <1>0, <1>3
  <2> QED BY <1>2, <2>1
<1>6. c = n
  <2> HIDE DEF c
  <2> QED BY <1>0, <1>3, <1>4, <1>5
<1> QED BY <1>6 DEF NextNum

(* u is the table t with the object o at n, its lowest free number.        *)
IsOpened(u, t, n, o) ==
  /\ n \in Num /\ ~ Opens(t, n)
  /\ \A m \in Num : m < n => Opens(t, m)
  /\ u \in FdTable
  /\ \A m \in Num : u.fd[m] = IF m = n THEN o ELSE t.fd[m]
  /\ u.cloexec = t.cloexec /\ u.ok = t.ok

(* A new descriptor gets the lowest free number, and leaves one less.      *)
LEMMA OpenedStep ==
  ASSUME NEW t \in FdTable, NEW j \in Nat, NEW k \in Nat, j = k + 1, HasFree(t, j),
         NEW o \in Obj, o # Nothing
  PROVE  IsOpened(Opened(t, o), t, NextNum(t, 0), o) /\ HasFree(Opened(t, o), k)
<1> DEFINE T == {n \in Num : ~ Opens(t, n)}
<1>1. IsFiniteSet(Num) /\ Num \subseteq Nat /\ 0 \in Nat
  BY ChildSetupAssumption, FS_Interval DEF Num
<1>2. IsFiniteSet(T) /\ Cardinality(T) \in Nat /\ Cardinality(T) >= k + 1 /\ T \subseteq Num
  <2>1. T \subseteq Num
    OBVIOUS
  <2>2. IsFiniteSet(T)
    BY <1>1, <2>1, FS_Subset
  <2> HIDE DEF T
  <2>3. Cardinality(T) \in Nat
    BY <2>2, FS_CardinalityType
  <2> QED BY <2>1, <2>2, <2>3 DEF HasFree, T
<1>3. T # {}
  <2> SUFFICES ASSUME T = {} PROVE FALSE
    OBVIOUS
  <2>1. Cardinality(T) = 0
    BY FS_EmptySet
  <2> QED BY <1>2, <2>1
<1>4. PICK n \in T : \A m \in T : n <= m
  <2> HIDE DEF T
  <2> QED BY <1>1, <1>2, <1>3, LeastNat
<1>5. n \in Num /\ ~ Opens(t, n) /\ \A m \in Num : m < n => Opens(t, m)
  BY <1>1, <1>4
<1>6. NextNum(t, 0) = n
  BY <1>1, <1>5, NextIs
<1>7. /\ Opened(t, o) = [t EXCEPT !.fd[n] = o] /\ Opened(t, o) \in FdTable
      /\ Opened(t, o).fd = [t.fd EXCEPT ![n] = o]
      /\ Opened(t, o).cloexec = t.cloexec /\ Opened(t, o).ok = t.ok
  BY <1>5, <1>6 DEF Opened, Entered, FdTable
<1>8. HasFree(Opened(t, o), k)
  <2>1. {m \in Num : ~ Opens(Opened(t, o), m)} = T \ {n}
    BY <1>5, <1>7 DEF Opens, FdTable
  <2>2. Cardinality(T \ {n}) = Cardinality(T) - 1
    BY <1>2, <1>4, FS_RemoveElement
  <2> HIDE DEF T
  <2>3. Cardinality(T \ {n}) >= k
    BY <1>2, <2>2
  <2> QED BY <2>1, <2>3 DEF HasFree
<1>9. \A m \in Num : Opened(t, o).fd[m] = IF m = n THEN o ELSE t.fd[m]
  BY <1>7 DEF FdTable
<1> QED BY <1>5, <1>6, <1>7, <1>8, <1>9 DEF IsOpened

(* u is the table t with the numbers of S closed.                          *)
IsShut(u, t, S) ==
  /\ u \in FdTable
  /\ \A n \in Num : u.fd[n] = IF n \in S THEN Nothing ELSE t.fd[n]
  /\ u.cloexec = t.cloexec \ S
  /\ u.ok = t.ok

(* u is the table t with the descriptor from moved to the number to.       *)
IsMoved(u, t, to, from) ==
  /\ u \in FdTable /\ u.ok
  /\ \A n \in Num : u.fd[n] = IF n = to THEN t.fd[from]
                               ELSE IF n = from THEN Nothing ELSE t.fd[n]
  /\ u.cloexec = IF to = from THEN t.cloexec ELSE t.cloexec \ {to, from}

(* Closing some numbers.                                                   *)
LEMMA ShutStep ==
  ASSUME NEW t \in FdTable, NEW S
  PROVE  IsShut(Shutting(t, S), t, S)
<1> DEFINE f == [n \in Num |-> IF n \in S THEN Nothing ELSE t.fd[n]]
<1>1. Nothing \in Obj
  BY DEF Nothing, Obj
<1>2. f \in [Num -> Obj]
  BY <1>1 DEF FdTable
<1>3. \A n \in Num : f[n] = IF n \in S THEN Nothing ELSE t.fd[n]
  OBVIOUS
<1>4. Shutting(t, S) = [t EXCEPT !.fd = f, !.cloexec = t.cloexec \ S]
  BY DEF Shutting, FdTable
<1> HIDE DEF f
<1>5. t.cloexec \ S \in SUBSET Num
  BY DEF FdTable
<1>6. Shutting(t, S).fd = f /\ Shutting(t, S) \in FdTable
  BY <1>2, <1>4, <1>5 DEF FdTable
<1> QED BY <1>3, <1>4, <1>6 DEF FdTable, IsShut

(* A move that succeeds: to is closed first, so the duplicate gets it.     *)
LEMMA MoveStep ==
  ASSUME NEW t \in FdTable, t.ok, NEW to \in Num, NEW from \in Num, Opens(t, from)
  PROVE  IsMoved(fd_move(t, to, from), t, to, from)
<1>1. CASE to = from
  <2>1. fd_move(t, to, from) = t
    BY <1>1 DEF fd_move
  <2> QED BY <1>1, <2>1 DEF IsMoved
<1>2. CASE to # from
  <2> DEFINE u == Shutting(t, {to})
             o == t.fd[from]
             c == Entered(u, to, o)
  <2>1. /\ u \in FdTable /\ u.cloexec = t.cloexec \ {to} /\ u.ok = t.ok
        /\ \A n \in Num : u.fd[n] = IF n \in {to} THEN Nothing ELSE t.fd[n]
    BY ShutStep, Zenon DEF IsShut
  <2> HIDE DEF u
  <2>2. to \in Nat /\ Num \subseteq Nat
    BY ChildSetupAssumption DEF Num
  <2>3. NextNum(u, to) = to
    <3>1. ~ Opens(u, to)
      BY <2>1 DEF Opens
    <3>2. \A m \in Num : ~ (m >= to /\ m < to) /\ to >= to
      BY <2>2
    <3> QED BY <2>2, <3>1, <3>2, NextIs
  <2>4. o \in Obj
    BY DEF FdTable
  <2> HIDE DEF o
  <2>5. /\ c \in FdTable /\ c.cloexec = t.cloexec \ {to} /\ c.ok
        /\ \A n \in Num : c.fd[n] = IF n = to THEN o ELSE t.fd[n]
    BY <2>1, <2>4 DEF Entered, FdTable
  <2>6. fd_copy(t, to, from) = c
    BY <2>3 DEF fd_copy, u, o
  <2> HIDE DEF c
  <2>7. fd_move(t, to, from) = Shutting(c, {from})
    BY <1>2, <2>5, <2>6 DEF fd_move
  <2>8. IsShut(Shutting(c, {from}), c, {from})
    BY <2>5, ShutStep, Zenon
  <2> QED BY <1>2, <2>5, <2>7, <2>8 DEF o, IsShut, IsMoved
<1> QED BY <1>1, <1>2

(* After a failed accept the first move fails, and the child gives up.     *)
LEMMA ChildGivesUp ==
  ASSUME NEW t \in FdTable, NEW l, NEW p1, NEW p2
  PROVE  ~ ChildTable(t, l, NoNum, p1, p2).ok
<1> DEFINE own == Shutting(t, {p1[2], p2[1], l})
           a == fd_move(own, 2, NoNum)
<1>1. own \in FdTable
  BY ShutStep, Zenon DEF IsShut
<1> HIDE DEF own
<1>2. ~ Opens(own, NoNum)
  BY ChildSetupAssumption DEF Opens, Num, NoNum
<1>3. a \in FdTable /\ ~ a.ok
  <2>1. fd_copy(own, 2, NoNum) = [own EXCEPT !.ok = FALSE]
    BY <1>2 DEF fd_copy
  <2>2. ~ own.ok => a = own
    BY DEF fd_move
  <2>3. own.ok => a = [own EXCEPT !.ok = FALSE]
    <3>1. 2 # NoNum
      BY DEF NoNum
    <3>2. ~ [own EXCEPT !.ok = FALSE].ok
      BY <1>1 DEF FdTable
    <3> QED BY <2>1, <3>1, <3>2, Zenon DEF fd_move
  <2> HIDE DEF a
  <2> QED BY <1>1, <2>2, <2>3 DEF FdTable
<1> HIDE DEF a
<1>4. fd_move(fd_move(a, 0, p1[1]), 1, p2[2]) = a
  BY <1>3 DEF fd_move
<1>5. ChildTable(t, l, NoNum, p1, p2) = Shutting(a, a.cloexec)
  BY <1>4 DEF ChildTable, own, a
<1>6. IsShut(Shutting(a, a.cloexec), a, a.cloexec)
  BY <1>3, ShutStep, Zenon
<1> QED BY <1>3, <1>5, <1>6 DEF IsShut

(* The descriptors of the session k in the table of its child, and what    *)
(* exec will close there.                                                  *)
Forked(t, k, conn, r1, w1, r2, w2) ==
  /\ t.ok
  /\ t.fd[conn] = <<"conn", k>>
  /\ t.fd[r1] = <<"p1 read", k>>
  /\ t.fd[w2] = <<"p2 write", k>>
  /\ conn \notin t.cloexec /\ r1 \notin t.cloexec /\ w2 \notin t.cloexec
  /\ \A n \in Num : ~ Foreign(t, n) => n \in t.cloexec \/ n \in {conn, r1, w1, r2, w2}

(* A child that runs.                                                      *)
Equipped(c, k) ==
  /\ c.fd[2] = <<"conn", k>>
  /\ c.fd[0] = <<"p1 read", k>>
  /\ c.fd[1] = <<"p2 write", k>>
  /\ \A n \in Num \ (0 .. 2) : c.fd[n][1] \notin PipeEnds

(* The table of a child whose connection and ends of the pipes have        *)
(* numbers that ascend from 2 on or above: no source of a move is closed   *)
(* by an earlier one, and exec closes the ends of all other sessions.      *)
LEMMA ChildRuns ==
  ASSUME NEW t \in FdTable, NEW l \in Num, NEW k \in Nat,
         NEW conn \in Num, NEW r1 \in Num, NEW w1 \in Num, NEW r2 \in Num, NEW w2 \in Num,
         2 <= conn, conn < r1, r1 < w1, w1 < r2, r2 < w2, l # conn, l # r1, l # w2,
         Forked(t, k, conn, r1, w1, r2, w2)
  PROVE  Equipped(ChildTable(t, l, conn, <<r1, w1>>, <<r2, w2>>), k)
<1> DEFINE own == Shutting(t, {w1, r2, l})
           a == fd_move(own, 2, conn)
           b == fd_move(a, 0, r1)
           m == fd_move(b, 1, w2)
           oc == <<"conn", k>>
           o1 == <<"p1 read", k>>
           o2 == <<"p2 write", k>>
<1>1. /\ 0 \in Num /\ 1 \in Num /\ 2 \in Num /\ Num \subseteq Nat
      /\ 2 < r1 /\ 2 < w2 /\ conn < w2 /\ r1 # w2 /\ conn # w1 /\ conn # r2
      /\ r1 # w1 /\ r1 # r2 /\ w2 # w1 /\ w2 # r2
  <2>1. 0 \in Num /\ 1 \in Num /\ 2 \in Num /\ Num \subseteq Nat
    BY ChildSetupAssumption DEF Num
  <2>2. conn \in Nat /\ r1 \in Nat /\ w1 \in Nat /\ r2 \in Nat /\ w2 \in Nat
    BY <2>1
  <2> QED BY <2>1, <2>2
<1>2. /\ oc # Nothing /\ o1 # Nothing /\ o2 # Nothing
      /\ t.ok /\ t.fd[conn] = oc /\ t.fd[r1] = o1 /\ t.fd[w2] = o2
  <2>1. oc # Nothing /\ o1 # Nothing /\ o2 # Nothing
    BY DEF Nothing
  <2> QED BY <2>1 DEF Forked
<1> HIDE DEF oc, o1, o2
<1>3. /\ own \in FdTable /\ own.cloexec = t.cloexec \ {w1, r2, l} /\ own.ok = t.ok
      /\ \A n \in Num : own.fd[n] = IF n \in {w1, r2, l} THEN Nothing ELSE t.fd[n]
  <2>1. IsShut(own, t, {w1, r2, l})
    BY ShutStep, Zenon
  <2> HIDE DEF own
  <2> QED BY <2>1 DEF IsShut
<1> HIDE DEF own
<1>4. /\ own.fd[conn] = oc /\ own.fd[r1] = o1
      /\ own.fd[w2] = o2 /\ Opens(own, conn)
  BY <1>1, <1>2, <1>3 DEF Opens
<1>5. /\ a \in FdTable /\ a.ok
      /\ \A n \in Num : a.fd[n] = IF n = 2 THEN own.fd[conn]
                                  ELSE IF n = conn THEN Nothing ELSE own.fd[n]
      /\ a.cloexec = IF 2 = conn THEN own.cloexec ELSE own.cloexec \ {2, conn}
  <2>1. own.ok
    BY <1>2, <1>3, Zenon
  <2>2. IsMoved(a, own, 2, conn)
    BY <1>1, <1>3, <1>4, <2>1, MoveStep, Zenon
  <2> HIDE DEF a
  <2> QED BY <2>2 DEF IsMoved
<1> HIDE DEF a
<1>6. /\ a.fd[2] = oc /\ a.fd[r1] = o1
      /\ a.fd[w2] = o2 /\ Opens(a, r1)
  <2>1. r1 # 2 /\ r1 # conn /\ w2 # 2 /\ w2 # conn
    BY <1>1
  <2> QED BY <1>1, <1>2, <1>4, <1>5, <2>1 DEF Opens
<1>7. /\ b \in FdTable /\ b.ok
      /\ \A n \in Num : b.fd[n] = IF n = 0 THEN a.fd[r1]
                                  ELSE IF n = r1 THEN Nothing ELSE a.fd[n]
      /\ b.cloexec = IF 0 = r1 THEN a.cloexec ELSE a.cloexec \ {0, r1}
  <2>1. IsMoved(b, a, 0, r1)
    BY <1>1, <1>5, <1>6, MoveStep, Zenon
  <2> HIDE DEF b
  <2> QED BY <2>1 DEF IsMoved
<1> HIDE DEF b
<1>8. /\ b.fd[2] = oc /\ b.fd[0] = o1
      /\ b.fd[w2] = o2 /\ Opens(b, w2)
  <2>1. 2 # r1 /\ w2 # 0 /\ w2 # r1 /\ 2 # 0
    BY <1>1
  <2> QED BY <1>1, <1>2, <1>6, <1>7, <2>1 DEF Opens
<1>9. /\ m \in FdTable /\ m.ok
      /\ \A n \in Num : m.fd[n] = IF n = 1 THEN b.fd[w2]
                                  ELSE IF n = w2 THEN Nothing ELSE b.fd[n]
      /\ m.cloexec = IF 1 = w2 THEN b.cloexec ELSE b.cloexec \ {1, w2}
  <2>1. IsMoved(m, b, 1, w2)
    BY <1>1, <1>7, <1>8, MoveStep, Zenon
  <2> HIDE DEF m
  <2> QED BY <2>1 DEF IsMoved
<1> HIDE DEF m
<1>10. m.fd[2] = oc /\ m.fd[0] = o1 /\ m.fd[1] = o2
  BY <1>1, <1>8, <1>9
<1>11. /\ m.cloexec = (a.cloexec \ {0, r1}) \ {1, w2}
       /\ 2 \notin a.cloexec
       /\ \A n \in Num : (n \in t.cloexec /\ n \notin {w1, r2, l, 2, conn}) => n \in a.cloexec
  <2>1. m.cloexec = (a.cloexec \ {0, r1}) \ {1, w2}
    BY <1>1, <1>7, <1>9
  <2>2. 2 \notin a.cloexec
    BY <1>3, <1>5 DEF Forked
  <2> QED BY <1>3, <1>5, <2>1, <2>2
<1>12. ASSUME NEW n \in Num \ (0 .. 2), m.fd[n][1] \in PipeEnds
       PROVE  n \in m.cloexec
  <2>1. n \in Num /\ n \notin {0, 1, 2}
    BY <1>1
  <2>2. Nothing[1] \notin PipeEnds
    BY DEF Nothing, PipeEnds
  <2>3. n # w2 /\ m.fd[n] = b.fd[n]
    BY <1>9, <1>12, <2>1, <2>2
  <2>4. n # r1 /\ m.fd[n] = a.fd[n]
    BY <1>7, <1>12, <2>1, <2>2, <2>3
  <2>5. n # conn /\ m.fd[n] = own.fd[n]
    BY <1>5, <1>12, <2>1, <2>2, <2>4
  <2>6. n \notin {w1, r2, l} /\ m.fd[n] = t.fd[n]
    BY <1>3, <1>12, <2>1, <2>2, <2>5
  <2>7. n \in t.cloexec
    BY <1>12, <2>1, <2>3, <2>4, <2>5, <2>6 DEF Foreign, Forked
  <2> QED BY <1>11, <2>1, <2>3, <2>4, <2>5, <2>6, <2>7
<1>13. ChildTable(t, l, conn, <<r1, w1>>, <<r2, w2>>) = Shutting(m, m.cloexec)
  BY DEF ChildTable, own, a, b, m
<1>14. /\ Shutting(m, m.cloexec).ok = m.ok
       /\ \A n \in Num : Shutting(m, m.cloexec).fd[n] =
                           IF n \in m.cloexec THEN Nothing ELSE m.fd[n]
  <2>1. IsShut(Shutting(m, m.cloexec), m, m.cloexec)
    BY <1>9, ShutStep, Zenon
  <2> QED BY <2>1 DEF IsShut
<1>15. Nothing[1] \notin PipeEnds
  BY DEF Nothing, PipeEnds
<1>16. 0 \notin m.cloexec /\ 1 \notin m.cloexec /\ 2 \notin m.cloexec
  BY <1>11
<1>17. \A n \in Num \ (0 .. 2) : Shutting(m, m.cloexec).fd[n][1] \notin PipeEnds
  BY <1>12, <1>14, <1>15
<1> DEFINE c == Shutting(m, m.cloexec)
<1> HIDE DEF c
<1>18. c.fd[2] = oc /\ c.fd[0] = o1 /\ c.fd[1] = o2
  BY <1>1, <1>10, <1>14, <1>16 DEF c
<1>19. Equipped(c, k)
  <2>1. \A n \in Num \ (0 .. 2) : c.fd[n][1] \notin PipeEnds
    BY <1>17 DEF c
  <2> QED BY <1>18, <2>1, Zenon DEF oc, o1, o2, Equipped
<1> QED BY <1>13, <1>19 DEF c

(* The table e is a with the four ends of the pipes of session k.          *)
Piped(e, a, k, r1, w1, r2, w2) ==
  /\ e \in FdTable /\ e.cloexec = a.cloexec /\ e.ok = a.ok
  /\ r1 \in Num /\ w1 \in Num /\ r2 \in Num /\ w2 \in Num
  /\ r1 < w1 /\ w1 < r2 /\ r2 < w2
  /\ ~ Opens(a, r1) /\ ~ Opens(a, w1) /\ ~ Opens(a, r2) /\ ~ Opens(a, w2)
  /\ \A m \in Num : m < r1 => Opens(a, m)
  /\ e.fd[r1] = <<"p1 read", k>> /\ e.fd[w1] = <<"p1 write", k>>
  /\ e.fd[r2] = <<"p2 read", k>> /\ e.fd[w2] = <<"p2 write", k>>
  /\ \A n \in Num : n \notin {r1, w1, r2, w2} => e.fd[n] = a.fd[n]

(* Objects of a session are objects, and not nothing.                      *)
LEMMA EndsAreObjects ==
  ASSUME NEW k \in Nat
  PROVE  \A x \in PipeEnds \cup {"null", "listen", "epoll", "std"} :
           <<x, k>> \in Obj /\ <<x, k>> # Nothing
BY DEF PipeEnds, Obj, Nothing

(* A number that was opened is above those opened before.                  *)
LEMMA OpensAbove ==
  ASSUME NEW t, NEW u, NEW v, NEW n, NEW o, NEW q, NEW w,
         o # Nothing, IsOpened(u, t, n, o), IsOpened(v, u, q, w)
  PROVE  n < q /\ ~ Opens(t, q)
<1>1. n \in Num /\ q \in Num /\ Num \subseteq Nat
  BY ChildSetupAssumption DEF IsOpened, Num
<1>2. Opens(u, n)
  BY <1>1 DEF IsOpened, Opens
<1>3. ~ Opens(u, q)
  BY DEF IsOpened
<1>4. q # n
  BY <1>2, <1>3
<1>5. u.fd[q] = t.fd[q]
  BY <1>1, <1>4 DEF IsOpened
<1>6. ~ Opens(t, q)
  BY <1>3, <1>5 DEF Opens
<1>7. ~ (q < n)
  BY <1>1, <1>6 DEF IsOpened
<1> QED BY <1>1, <1>4, <1>6, <1>7

(* The two calls of pipe.                                                  *)
LEMMA PipesMade ==
  ASSUME NEW a \in FdTable, NEW k \in Nat, HasFree(a, 4)
  PROVE  LET b == Opened(a, <<"p1 read", k>>)
             c == Opened(b, <<"p1 write", k>>)
             d == Opened(c, <<"p2 read", k>>)
             e == Opened(d, <<"p2 write", k>>)
         IN Piped(e, a, k, NextNum(a, 0), NextNum(b, 0), NextNum(c, 0), NextNum(d, 0))
<1> DEFINE o1 == <<"p1 read", k>>
           o2 == <<"p1 write", k>>
           o3 == <<"p2 read", k>>
           o4 == <<"p2 write", k>>
<1>0. /\ o1 \in Obj /\ o1 # Nothing /\ o2 \in Obj /\ o2 # Nothing
      /\ o3 \in Obj /\ o3 # Nothing /\ o4 \in Obj /\ o4 # Nothing
  BY EndsAreObjects DEF PipeEnds
<1> HIDE DEF o1, o2, o3, o4
<1> DEFINE b == Opened(a, o1)
           c == Opened(b, o2)
           d == Opened(c, o3)
           e == Opened(d, o4)
           n1 == NextNum(a, 0)
           n2 == NextNum(b, 0)
           n3 == NextNum(c, 0)
           n4 == NextNum(d, 0)
<1>1. /\ 4 \in Nat /\ 3 \in Nat /\ 2 \in Nat /\ 1 \in Nat /\ 0 \in Nat
      /\ 4 = 3 + 1 /\ 3 = 2 + 1 /\ 2 = 1 + 1 /\ 1 = 0 + 1
  OBVIOUS
<1>2. IsOpened(b, a, n1, o1) /\ HasFree(b, 3)
  BY <1>0, <1>1, OpenedStep, Zenon
<1>3. b \in FdTable
  BY <1>2, Zenon DEF IsOpened
<1> HIDE DEF b, n1
<1>4. IsOpened(c, b, n2, o2) /\ HasFree(c, 2)
  BY <1>0, <1>1, <1>2, <1>3, OpenedStep, Zenon
<1>5. c \in FdTable
  BY <1>4, Zenon DEF IsOpened
<1> HIDE DEF c, n2
<1>6. IsOpened(d, c, n3, o3) /\ HasFree(d, 1)
  BY <1>0, <1>1, <1>4, <1>5, OpenedStep, Zenon
<1>7. d \in FdTable
  BY <1>6, Zenon DEF IsOpened
<1> HIDE DEF d, n3
<1>8. IsOpened(e, d, n4, o4)
  BY <1>0, <1>1, <1>6, <1>7, OpenedStep, Zenon
<1> HIDE DEF e, n4
<1>9. n1 < n2 /\ ~ Opens(a, n2)
  BY <1>0, <1>2, <1>4, OpensAbove, Zenon
<1>10. n2 < n3 /\ ~ Opens(b, n3)
  BY <1>0, <1>4, <1>6, OpensAbove, Zenon
<1>11. n3 < n4 /\ ~ Opens(c, n4)
  BY <1>0, <1>6, <1>8, OpensAbove, Zenon
<1>12. /\ n1 \in Num /\ n2 \in Num /\ n3 \in Num /\ n4 \in Num /\ Num \subseteq Nat
       /\ \A m \in Num : b.fd[m] = IF m = n1 THEN o1 ELSE a.fd[m]
       /\ \A m \in Num : c.fd[m] = IF m = n2 THEN o2 ELSE b.fd[m]
       /\ \A m \in Num : d.fd[m] = IF m = n3 THEN o3 ELSE c.fd[m]
       /\ \A m \in Num : e.fd[m] = IF m = n4 THEN o4 ELSE d.fd[m]
  BY <1>2, <1>4, <1>6, <1>8, ChildSetupAssumption DEF IsOpened, Num
<1>13. n1 # n2 /\ n1 # n3 /\ n1 # n4 /\ n2 # n3 /\ n2 # n4 /\ n3 # n4
  <2>1. n1 \in Nat /\ n2 \in Nat /\ n3 \in Nat /\ n4 \in Nat
    BY <1>12
  <2> QED BY <1>9, <1>10, <1>11, <2>1
<1>14. ~ Opens(a, n1) /\ ~ Opens(a, n2) /\ ~ Opens(a, n3) /\ ~ Opens(a, n4)
  <2>1. c.fd[n4] = a.fd[n4] /\ b.fd[n3] = a.fd[n3]
    BY <1>12, <1>13
  <2> QED BY <1>2, <1>9, <1>10, <1>11, <1>12, <2>1 DEF Opens, IsOpened
<1>15. /\ e.fd[n1] = o1 /\ e.fd[n2] = o2 /\ e.fd[n3] = o3 /\ e.fd[n4] = o4
       /\ \A n \in Num : n \notin {n1, n2, n3, n4} => e.fd[n] = a.fd[n]
  BY <1>12, <1>13
<1>16. e \in FdTable /\ e.cloexec = a.cloexec /\ e.ok = a.ok
  BY <1>2, <1>4, <1>6, <1>8, Zenon DEF IsOpened
<1>17. \A m \in Num : m < n1 => Opens(a, m)
  BY <1>2, Zenon DEF IsOpened
<1>18. Piped(e, a, k, n1, n2, n3, n4)
  BY <1>9, <1>10, <1>11, <1>12, <1>14, <1>15, <1>16, <1>17 DEF Piped, o1, o2, o3, o4
<1> QED BY <1>18 DEF b, c, d, e, n1, n2, n3, n4, o1, o2, o3, o4

(* The table a of the master when the pipes are to be made: a connection   *)
(* that was accepted has the number f.                                     *)
Accepted(a, conn, k, f) ==
  /\ a \in FdTable /\ a.cloexec = mtab.cloexec /\ a.ok
  /\ \A n \in Num : n # conn => a.fd[n] = mtab.fd[n]
  /\ \/ conn = NoNum
     \/ conn = f /\ f \in Num /\ a.fd[f] = <<"conn", k>>

(* What the master keeps of a session: its two ends of the pipes.          *)
Kept(u, l, k, w1, r2) ==
  /\ u \in FdTable /\ u.ok
  /\ u.fd[w1] = <<"p1 write", k>> /\ u.fd[r2] = <<"p2 read", k>>
  /\ \A n \in Num : n # w1 /\ n # r2 => u.fd[n] = mtab.fd[n]
  /\ u.cloexec = mtab.cloexec \cup {w1, r2, l}

(* A connection gets the number f.                                         *)
LEMMA AcceptStep ==
  ASSUME SetupInv, NEW f \in Nat, Floor(f), NEW k \in Nat, HasFree(mtab, 5)
  PROVE  /\ Accepted(Opened(mtab, <<"conn", k>>), NextNum(mtab, 0), k, f)
         /\ HasFree(Opened(mtab, <<"conn", k>>), 4)
<1> DEFINE o == <<"conn", k>>
           a == Opened(mtab, o)
           n == NextNum(mtab, 0)
<1>1. o \in Obj /\ o # Nothing
  BY EndsAreObjects DEF PipeEnds
<1>2. mtab \in FdTable /\ mtab.ok
  BY DEF SetupInv, SetupTypeOK
<1> HIDE DEF o
<1>3. 5 \in Nat /\ 4 \in Nat /\ 5 = 4 + 1
  OBVIOUS
<1>4. IsOpened(a, mtab, n, o) /\ HasFree(a, 4)
  BY <1>1, <1>2, <1>3, OpenedStep, Zenon
<1> HIDE DEF a, n
<1>5. n = f /\ f \in Num
  <2>1. n \in Num /\ ~ Opens(mtab, n) /\ \A m \in Num : m < n => Opens(mtab, m)
    BY <1>4 DEF IsOpened
  <2>2. ~ (n < f)
    BY <2>1 DEF Floor
  <2>3. f \in Num
    BY <2>1, <2>2, ChildSetupAssumption DEF Num
  <2>4. ~ (f < n)
    BY <2>1, <2>3 DEF Floor
  <2> QED BY <2>1, <2>2, <2>3, <2>4, ChildSetupAssumption DEF Num
<1>6. Accepted(a, n, k, f)
  BY <1>2, <1>4, <1>5 DEF Accepted, IsOpened, o
<1> QED BY <1>4, <1>6 DEF a, n, o

(* The fork for session k of the listening socket l: t is the table that   *)
(* master and child have then, and c that of the child when it executes.   *)
AtFork(f, k, l, a, e, conn, r1, w1, r2, w2, t, c) ==
  /\ f \in Nat /\ Floor(f) /\ k \in Nat
  /\ l \in Num /\ Opens(mtab, l) /\ Foreign(mtab, l)
  /\ Accepted(a, conn, k, f) /\ Piped(e, a, k, r1, w1, r2, w2)
  /\ t = [e EXCEPT !.cloexec = @ \cup {w1, r2, l}]
  /\ c = ChildTable(t, l, conn, <<r1, w1>>, <<r2, w2>>)

(* The tables of master and child after the fork.                          *)
LEMMA ForkStep ==
  ASSUME SetupInv, NEW f, NEW k, NEW l, NEW a, NEW e, NEW conn,
         NEW r1, NEW w1, NEW r2, NEW w2, NEW t, NEW c,
         AtFork(f, k, l, a, e, conn, r1, w1, r2, w2, t, c)
  PROVE  /\ Kept(Shutting(t, {conn, r1, w2}), l, k, w1, r2)
         /\ w1 \in Num /\ r2 \in Num /\ f < w1 /\ w1 < r2
         /\ ~ Opens(mtab, w1) /\ ~ Opens(mtab, r2)
         /\ conn \in {NoNum, f}
         /\ c.ok => Equipped(c, k)
<1>0. /\ f \in Nat /\ Floor(f) /\ k \in Nat
      /\ l \in Num /\ Opens(mtab, l) /\ Foreign(mtab, l)
      /\ Accepted(a, conn, k, f) /\ Piped(e, a, k, r1, w1, r2, w2)
      /\ t = [e EXCEPT !.cloexec = @ \cup {w1, r2, l}]
      /\ c = ChildTable(t, l, conn, <<r1, w1>>, <<r2, w2>>)
  BY DEF AtFork
<1>1. /\ r1 \in Num /\ w1 \in Num /\ r2 \in Num /\ w2 \in Num /\ r1 < w1 /\ w1 < r2
      /\ r2 < w2 /\ e \in FdTable /\ e.cloexec = mtab.cloexec /\ e.ok = a.ok
      /\ \A n \in Num : n \notin {r1, w1, r2, w2} => e.fd[n] = a.fd[n]
  BY <1>0 DEF Piped, Accepted
<1>2. Num \subseteq Nat /\ NoNum \notin Num /\ f >= 2
  BY <1>0, ChildSetupAssumption DEF Num, NoNum, Floor
<1>3. /\ mtab \in FdTable
      /\ f \in Num => ~ Opens(mtab, f)
      /\ \A n \in Num : n < f => Opens(mtab, n)
      /\ \A n \in mtab.cloexec : Opens(mtab, n)
      /\ \A n \in Num : ~ Foreign(mtab, n) => n \in mtab.cloexec
  BY <1>0 DEF SetupInv, SetupTypeOK, Marked, Floor
<1>4. /\ conn = NoNum \/ (conn = f /\ f \in Num /\ a.fd[f] = <<"conn", k>>)
      /\ \A n \in Num : n # conn => a.fd[n] = mtab.fd[n]
      /\ a.ok
  BY <1>0 DEF Accepted
<1>5. <<"conn", k>> # Nothing
  BY <1>0 DEF Nothing
<1>6. ASSUME NEW n \in Num, ~ Opens(a, n)
      PROVE  n # conn /\ ~ Opens(mtab, n) /\ n >= f
  <2>1. n # conn
    BY <1>2, <1>4, <1>5, <1>6 DEF Opens
  <2>2. ~ Opens(mtab, n)
    BY <1>4, <1>6, <2>1 DEF Opens
  <2> QED BY <1>0, <1>2, <1>3, <2>1, <2>2
<1>7. /\ r1 # conn /\ w1 # conn /\ r2 # conn /\ w2 # conn
      /\ ~ Opens(mtab, r1) /\ ~ Opens(mtab, w1) /\ ~ Opens(mtab, r2) /\ ~ Opens(mtab, w2)
      /\ r1 >= f
  BY <1>0, <1>1, <1>6 DEF Piped
<1>8. /\ r1 # w1 /\ r1 # r2 /\ r1 # w2 /\ w1 # r2 /\ w1 # w2 /\ r2 # w2 /\ f < w1
  <2>1. r1 \in Nat /\ w1 \in Nat /\ r2 \in Nat /\ w2 \in Nat
    BY <1>1, <1>2
  <2> QED BY <1>0, <1>1, <1>7, <2>1
<1>9. conn \notin Num \/ ~ Opens(mtab, conn)
  BY <1>2, <1>3, <1>4, Zenon
<1>10. l # r1 /\ l # w2 /\ l # conn /\ l # w1 /\ l # r2
  BY <1>0, <1>7, <1>9
<1>11. /\ t \in FdTable /\ t.fd = e.fd /\ t.ok = e.ok
       /\ t.cloexec = mtab.cloexec \cup {w1, r2, l}
  <2>1. mtab.cloexec \cup {w1, r2, l} \in SUBSET Num
    BY <1>0, <1>1, <1>3 DEF FdTable
  <2>2. t = [e EXCEPT !.cloexec = mtab.cloexec \cup {w1, r2, l}]
    BY <1>0, <1>1 DEF FdTable
  <2> QED BY <1>1, <2>1, <2>2 DEF FdTable
<1>12. conn \notin mtab.cloexec /\ r1 \notin mtab.cloexec /\ w2 \notin mtab.cloexec
  <2>1. mtab.cloexec \subseteq Num
    BY <1>3 DEF FdTable
  <2> QED BY <1>3, <1>7, <1>9, <2>1
<1>13. Kept(Shutting(t, {conn, r1, w2}), l, k, w1, r2)
  <2> DEFINE u == Shutting(t, {conn, r1, w2})
  <2>1. IsShut(u, t, {conn, r1, w2})
    BY <1>11, ShutStep, Zenon
  <2> HIDE DEF u
  <2>2. u \in FdTable /\ u.ok
    BY <1>1, <1>4, <1>11, <2>1 DEF IsShut
  <2>3. u.cloexec = mtab.cloexec \cup {w1, r2, l}
    BY <1>7, <1>8, <1>10, <1>11, <1>12, <2>1 DEF IsShut
  <2>4. u.fd[w1] = e.fd[w1] /\ u.fd[r2] = e.fd[r2]
    BY <1>1, <1>7, <1>8, <1>11, <2>1 DEF IsShut
  <2>5. ASSUME NEW n \in Num, n # w1, n # r2
        PROVE  u.fd[n] = mtab.fd[n]
    <3>1. CASE n \in {conn, r1, w2}
      <4>1. u.fd[n] = Nothing
        BY <2>1, <3>1 DEF IsShut
      <4>2. ~ Opens(mtab, n)
        BY <1>7, <1>9, <3>1
      <4> QED BY <4>1, <4>2 DEF Opens
    <3>2. CASE n \notin {conn, r1, w2}
      BY <1>1, <1>4, <1>11, <2>1, <2>5, <3>2 DEF IsShut
    <3> QED BY <3>1, <3>2
  <2>6. e.fd[w1] = <<"p1 write", k>> /\ e.fd[r2] = <<"p2 read", k>>
    BY <1>0 DEF Piped
  <2> QED BY <2>2, <2>3, <2>4, <2>5, <2>6, Zenon DEF Kept, u
<1>14. c.ok => Equipped(c, k)
  <2>1. CASE conn = NoNum
    BY <1>0, <1>11, <2>1, ChildGivesUp, Zenon
  <2>2. CASE conn # NoNum
    <3>1. conn = f /\ conn \in Num /\ 2 <= conn /\ conn < r1 /\ e.fd[conn] = a.fd[conn]
      <4>1. conn = f /\ conn \in Num
        BY <1>4, <2>2
      <4>2. conn \in Nat /\ r1 \in Nat
        BY <1>1, <1>2, <4>1
      <4> QED BY <1>1, <1>2, <1>7, <4>1, <4>2
    <3>2. Forked(t, k, conn, r1, w1, r2, w2)
      <4>1. t.ok
        BY <1>1, <1>4, <1>11, Zenon
      <4>2. t.fd[conn] = <<"conn", k>>
        BY <1>4, <1>11, <2>2, <3>1, Zenon
      <4>3. t.fd[r1] = <<"p1 read", k>> /\ t.fd[w2] = <<"p2 write", k>>
        BY <1>0, <1>11, Zenon DEF Piped
      <4>4. conn \notin t.cloexec /\ r1 \notin t.cloexec /\ w2 \notin t.cloexec
        BY <1>7, <1>8, <1>10, <1>11, <1>12
      <4>5. ASSUME NEW n \in Num, ~ Foreign(t, n), n \notin {conn, r1, w1, r2, w2}
            PROVE  n \in t.cloexec
        <5>1. t.fd[n] = mtab.fd[n]
          BY <1>1, <1>4, <1>11, <4>5
        <5>2. ~ Foreign(mtab, n)
          BY <4>5, <5>1 DEF Foreign
        <5> QED BY <1>3, <1>11, <5>2
      <4> QED BY <4>1, <4>2, <4>3, <4>4, <4>5 DEF Forked
    <3> QED BY <1>0, <1>1, <1>10, <1>11, <3>1, <3>2, ChildRuns, Zenon
  <2> QED BY <2>1, <2>2
<1>15. conn \in {NoNum, f}
  BY <1>4
<1> QED BY <1>1, <1>7, <1>8, <1>13, <1>14, <1>15

(* A connection, the pipes and the fork.                                   *)
LEMMA CreateStep ==
  ASSUME SetupInv, NEW l \in Num, NEW accepted \in BOOLEAN,
         create_child_and_exec(l, accepted)
  PROVE  SetupInv'
<1>1. mstep = "serving" /\ mstep' = mstep /\ l \in Listening /\ HasFree(mtab, 5)
  BY DEF create_child_and_exec
<1> PICK f \in Nat : Floor(f)
  BY <1>1 DEF SetupInv, ServingFloor
<1> PICK N \in Nat : msess \in [1 .. N -> SessEntry]
  BY DEF SetupInv, SetupTypeOK
<1> DEFINE k == N + 1
<1>2. Cardinality(DOMAIN msess) + 1 = k /\ k \in Nat /\ DOMAIN msess = 1 .. N
  <2>1. DOMAIN msess = 1 .. N /\ k \in Nat /\ 1 \in Int /\ N \in Int
    OBVIOUS
  <2>2. Cardinality(1 .. N) = IF 1 > N THEN 0 ELSE N - 1 + 1
    BY <2>1, FS_Interval
  <2>3. Cardinality(1 .. N) = N
    BY <2>2
  <2> QED BY <2>1, <2>3
<1>3. Opens(mtab, l) /\ Foreign(mtab, l)
  <2>1. mtab.fd[l][1] = "listen"
    BY <1>1 DEF Listening
  <2>2. Nothing[1] = "nothing"
    BY DEF Nothing
  <2>3. mtab.fd[l] # Nothing
    <3>1. "listen" # "nothing"
      OBVIOUS
    <3> QED BY <2>1, <2>2, <3>1, Zenon
  <2>4. "listen" \notin PipeEnds
    BY DEF PipeEnds
  <2> QED BY <2>1, <2>3, <2>4, Zenon DEF Opens, Foreign
<1>4. mtab \in FdTable /\ mtab.ok
  BY DEF SetupInv, SetupTypeOK
<1> HIDE DEF k
<1> DEFINE a == IF accepted THEN Opened(mtab, <<"conn", k>>) ELSE mtab
           conn == IF accepted THEN NextNum(mtab, 0) ELSE NoNum
           b == Opened(a, <<"p1 read", k>>)
           c == Opened(b, <<"p1 write", k>>)
           d == Opened(c, <<"p2 read", k>>)
           e == Opened(d, <<"p2 write", k>>)
           r1 == NextNum(a, 0)
           w1 == NextNum(b, 0)
           r2 == NextNum(c, 0)
           w2 == NextNum(d, 0)
           t == [e EXCEPT !.cloexec = @ \cup {w1, r2, l}]
           child == ChildTable(t, l, conn, <<r1, w1>>, <<r2, w2>>)
<1>5. /\ mtab' = Shutting(t, {conn, r1, w2})
      /\ msess' = [j \in 1 .. k |-> IF j = k THEN [fd |-> conn, pfd_r |-> r2, pfd_w |-> w1]
                                    ELSE msess[j]]
      /\ ktab' = [j \in DOMAIN ktab \cup (IF child.ok THEN {k} ELSE {}) |->
                    IF j = k THEN child ELSE ktab[j]]
  BY <1>2, ZenonT(40) DEF create_child_and_exec
<1>6. Accepted(a, conn, k, f) /\ HasFree(a, 4)
  <2>1. CASE accepted
    BY <1>1, <1>2, <2>1, AcceptStep
  <2>2. CASE ~ accepted
    <3>1. a = mtab /\ conn = NoNum
      BY <2>2
    <3>2. HasFree(mtab, 4)
      <4> DEFINE T == {n \in Num : ~ Opens(mtab, n)}
      <4>1. IsFiniteSet(Num)
        BY ChildSetupAssumption, FS_Interval DEF Num
      <4>2. IsFiniteSet(T)
        BY <4>1, FS_Subset
      <4> HIDE DEF T
      <4>3. Cardinality(T) \in Nat
        BY <4>2, FS_CardinalityType
      <4> QED BY <1>1, <4>3 DEF HasFree, T
    <3>3. Accepted(mtab, NoNum, k, f)
      BY <1>4, Zenon DEF Accepted
    <3> QED BY <3>1, <3>2, <3>3, Zenon
  <2> QED BY <2>1, <2>2
<1>7. a \in FdTable
  BY <1>6, Zenon DEF Accepted
<1> HIDE DEF a, conn
<1>8. Piped(e, a, k, r1, w1, r2, w2)
  BY <1>2, <1>6, <1>7, PipesMade, Zenon
<1> HIDE DEF b, c, d, e, r1, w1, r2, w2
<1>9. /\ Kept(Shutting(t, {conn, r1, w2}), l, k, w1, r2)
      /\ w1 \in Num /\ r2 \in Num /\ f < w1 /\ w1 < r2
      /\ ~ Opens(mtab, w1) /\ ~ Opens(mtab, r2)
      /\ conn \in {NoNum, f}
      /\ child.ok => Equipped(child, k)
  <2>1. t = [e EXCEPT !.cloexec = @ \cup {w1, r2, l}]
    OBVIOUS
  <2>2. child = ChildTable(t, l, conn, <<r1, w1>>, <<r2, w2>>)
    OBVIOUS
  <2> HIDE DEF t, child
  <2>3. AtFork(f, k, l, a, e, conn, r1, w1, r2, w2, t, child)
    BY <1>2, <1>3, <1>6, <1>8, <2>1, <2>2, Zenon DEF AtFork
  <2> QED BY <2>3, ForkStep, Zenon
<1>10. Kept(mtab', l, k, w1, r2)
  BY <1>5, <1>9, Zenon
<1> HIDE DEF t, child
<1>11. /\ mtab' \in FdTable /\ mtab'.ok
       /\ mtab'.fd[w1] = <<"p1 write", k>> /\ mtab'.fd[r2] = <<"p2 read", k>>
       /\ \A n \in Num : n # w1 /\ n # r2 => mtab'.fd[n] = mtab.fd[n]
       /\ mtab'.cloexec = mtab.cloexec \cup {w1, r2, l}
  BY <1>10, Zenon DEF Kept
<1>12. /\ Num \subseteq Nat /\ NoNum \in Int /\ conn \in Int /\ w1 \in Int /\ r2 \in Int
       /\ f < r2 /\ NoNum \notin Num
  <2>1. Num \subseteq Nat /\ NoNum \in Int /\ NoNum \notin Num
    BY ChildSetupAssumption DEF Num, NoNum
  <2>2. conn \in Int /\ w1 \in Nat /\ r2 \in Nat
    BY <1>9, <2>1
  <2> QED BY <1>9, <2>1, <2>2
<1> DEFINE entry == [fd |-> conn, pfd_r |-> r2, pfd_w |-> w1]
<1>13. /\ msess' \in [1 .. k -> SessEntry] /\ msess'[k] = entry /\ k \notin DOMAIN msess
       /\ \A j \in DOMAIN msess : msess'[j] = msess[j] /\ j \in 1 .. k
       /\ entry.fd = conn /\ entry.pfd_r = r2 /\ entry.pfd_w = w1
  <2>1. entry \in SessEntry
    BY <1>12 DEF SessEntry
  <2>2. entry.fd = conn /\ entry.pfd_r = r2 /\ entry.pfd_w = w1
    OBVIOUS
  <2> HIDE DEF entry
  <2>3. msess' = [j \in 1 .. k |-> IF j = k THEN entry ELSE msess[j]]
    BY <1>5 DEF entry
  <2>4. k \in 1 .. k /\ \A j \in 1 .. k : j # k => j \in 1 .. N
    BY <1>2 DEF k
  <2>5. k \notin 1 .. N /\ \A j \in 1 .. N : j \in 1 .. k
    BY DEF k
  <2> QED BY <1>2, <2>1, <2>2, <2>3, <2>4, <2>5
<1> HIDE DEF entry
<1>14. DOMAIN ktab \subseteq DOMAIN msess
  BY DEF SetupInv, SetupTypeOK
<1>15. /\ \A j \in DOMAIN ktab' :
            \/ j = k /\ child.ok /\ ktab'[j] = child
            \/ j \in DOMAIN ktab /\ ktab'[j] = ktab[j]
       /\ DOMAIN ktab' \subseteq DOMAIN ktab \cup {k}
  <2>1. DOMAIN ktab' = DOMAIN ktab \cup (IF child.ok THEN {k} ELSE {})
    BY <1>5
  <2>2. \A j \in DOMAIN ktab' : ktab'[j] = IF j = k THEN child ELSE ktab[j]
    BY <1>5, <2>1
  <2> QED BY <1>13, <1>14, <2>1, <2>2
<1>16. SetupTypeOK'
  <2>1. DOMAIN ktab' \subseteq DOMAIN msess'
    <3>1. DOMAIN msess' = 1 .. k /\ k \in 1 .. k
      BY <1>2, <1>13 DEF k
    <3> QED BY <1>13, <1>14, <1>15, <3>1
  <2> QED BY <1>1, <1>2, <1>11, <1>13, <2>1 DEF SetupTypeOK
<1>17. Marked'
  <2>1. \A n \in mtab'.cloexec : Opens(mtab', n)
    <3> TAKE n \in mtab'.cloexec
    <3>1. CASE n = w1 \/ n = r2
      <4>1. <<"p1 write", k>> # Nothing /\ <<"p2 read", k>> # Nothing
        BY DEF Nothing
      <4> QED BY <1>9, <1>11, <3>1, <4>1, Zenon DEF Opens
    <3>2. CASE n # w1 /\ n # r2
      <4>1. Opens(mtab, n)
        BY <1>3, <1>11, <3>2 DEF SetupInv, Marked
      <4> QED BY <1>11, <3>2, <4>1 DEF Opens
    <3> QED BY <3>1, <3>2
  <2>2. ASSUME NEW n \in Num, ~ Foreign(mtab', n)
        PROVE  n \in mtab'.cloexec
    <3>1. CASE n = w1 \/ n = r2
      BY <1>11, <3>1
    <3>2. CASE n # w1 /\ n # r2
      <4>1. ~ Foreign(mtab, n)
        BY <1>11, <2>2, <3>2 DEF Foreign
      <4> QED BY <1>11, <4>1 DEF SetupInv, Marked
    <3> QED BY <3>1, <3>2
  <2> QED BY <2>1, <2>2 DEF Marked
<1>18. Floor(f)'
  <2>1. f >= 2 /\ (f \in Num => mtab'.fd[f] = mtab.fd[f])
    BY <1>9, <1>11, <1>12 DEF Floor
  <2>2. \A n \in Num : n < f => n # w1 /\ n # r2
    BY <1>9, <1>12
  <2>3. \A n \in Num : n < f => Opens(mtab', n) /\ Foreign(mtab', n)
    BY <1>11, <2>2 DEF Floor, Opens, Foreign
  <2>4. f \in Num => ~ Opens(mtab', f)
    BY <2>1 DEF Floor, Opens
  <2>5. ASSUME NEW j \in DOMAIN msess'
        PROVE  /\ msess'[j].fd \in {NoNum, f}
               /\ msess'[j].pfd_r = NoNum \/ msess'[j].pfd_r > f
               /\ msess'[j].pfd_w = NoNum \/ msess'[j].pfd_w > f
    <3>1. CASE j = k
      BY <1>9, <1>12, <1>13, <3>1
    <3>2. CASE j # k
      <4>1. j \in DOMAIN msess
        BY <1>2, <1>13, <3>2 DEF k
      <4> QED BY <1>13, <4>1 DEF Floor
    <3> QED BY <3>1, <3>2
  <2> QED BY <2>1, <2>3, <2>4, <2>5 DEF Floor
<1>19. ChildGetsItsEnds'
  <2>1. ASSUME NEW j \in DOMAIN ktab'
        PROVE  Equipped(ktab'[j], j)
    <3>1. CASE j = k /\ child.ok /\ ktab'[j] = child
      BY <1>9, <3>1, Zenon
    <3>2. CASE j \in DOMAIN ktab /\ ktab'[j] = ktab[j]
      BY <3>2 DEF SetupInv, ChildGetsItsEnds, Equipped
    <3> QED BY <1>15, <2>1, <3>1, <3>2
  <2>2. ASSUME NEW n \in Num, mtab'.fd[n][1] \in PipeEnds
        PROVE  \E j \in DOMAIN msess' :
                 \/ n = msess'[j].pfd_r /\ mtab'.fd[n] = <<"p2 read", j>>
                 \/ n = msess'[j].pfd_w /\ mtab'.fd[n] = <<"p1 write", j>>
    <3>0. k \in DOMAIN msess'
      BY <1>2, <1>13 DEF k
    <3>1. CASE n = w1
      <4>1. n = msess'[k].pfd_w
        BY <1>13, <3>1, Zenon
      <4> QED BY <1>11, <3>0, <3>1, <4>1, Zenon
    <3>2. CASE n = r2
      <4>1. n = msess'[k].pfd_r
        BY <1>13, <3>2, Zenon
      <4> QED BY <1>11, <3>0, <3>2, <4>1, Zenon
    <3>3. CASE n # w1 /\ n # r2
      <4>1. mtab'.fd[n] = mtab.fd[n]
        BY <1>11, <3>3
      <4>2. mtab.fd[n][1] \in PipeEnds
        BY <2>2, <4>1, Zenon
      <4>3. PICK j \in DOMAIN msess :
                 \/ n = msess[j].pfd_r /\ mtab.fd[n] = <<"p2 read", j>>
                 \/ n = msess[j].pfd_w /\ mtab.fd[n] = <<"p1 write", j>>
        BY <4>2 DEF SetupInv, ChildGetsItsEnds
      <4>4. j \in DOMAIN msess' /\ msess'[j] = msess[j]
        BY <1>13
      <4> QED BY <4>1, <4>3, <4>4, Zenon
    <3> QED BY <3>1, <3>2, <3>3
  <2> QED BY <2>1, <2>2 DEF ChildGetsItsEnds, Equipped
<1>20. SettingUp' /\ ServingFloor'
  BY <1>1, <1>18 DEF SettingUp, ServingFloor
<1> QED BY <1>11, <1>16, <1>17, <1>19, <1>20 DEF SetupInv

(* An entry is cleaned: the numbers it keeps are f or above.               *)
LEMMA CleanStep ==
  ASSUME SetupInv, NEW k \in Session, clean_client(k)
  PROVE  SetupInv'
<1> DEFINE S == {msess[k].fd, msess[k].pfd_r, msess[k].pfd_w}
<1>1. /\ mstep = "serving" /\ mstep' = mstep /\ k \in DOMAIN msess
      /\ mtab' = Shutting(mtab, S) /\ msess' = [msess EXCEPT ![k] = NoEntry]
      /\ ktab' = [j \in DOMAIN ktab \ {k} |-> ktab[j]]
  BY DEF clean_client
<1> PICK f \in Nat : Floor(f)
  BY <1>1 DEF SetupInv, ServingFloor
<1> PICK N \in Nat : msess \in [1 .. N -> SessEntry]
  BY DEF SetupInv, SetupTypeOK
<1>2. Num \subseteq Nat /\ NoNum \notin Num /\ NoNum \in Int
  BY ChildSetupAssumption DEF Num, NoNum
<1>3. mtab \in FdTable /\ mtab.ok /\ DOMAIN ktab \subseteq DOMAIN msess
  BY DEF SetupInv, SetupTypeOK
<1>4. \A n \in Num : n < f => n \notin S
  <2>1. /\ msess[k].fd \in {NoNum, f}
        /\ msess[k].pfd_r = NoNum \/ msess[k].pfd_r > f
        /\ msess[k].pfd_w = NoNum \/ msess[k].pfd_w > f
    BY <1>1 DEF Floor
  <2>2. msess[k].pfd_r \in Int /\ msess[k].pfd_w \in Int
    BY <1>1 DEF SessEntry
  <2> QED BY <1>2, <2>1, <2>2
<1> HIDE DEF S
<1>5. /\ mtab' \in FdTable /\ mtab'.cloexec = mtab.cloexec \ S /\ mtab'.ok = mtab.ok
      /\ \A n \in Num : mtab'.fd[n] = IF n \in S THEN Nothing ELSE mtab.fd[n]
  <2>1. IsShut(mtab', mtab, S)
    BY <1>1, <1>3, ShutStep, Zenon
  <2> QED BY <2>1, Zenon DEF IsShut
<1>6. NoEntry \in SessEntry /\ NoEntry.fd = NoNum /\ NoEntry.pfd_r = NoNum
      /\ NoEntry.pfd_w = NoNum
  BY <1>2 DEF NoEntry, SessEntry
<1>7. /\ msess' \in [1 .. N -> SessEntry] /\ DOMAIN msess' = DOMAIN msess
      /\ msess'[k] = NoEntry /\ \A j \in DOMAIN msess : j # k => msess'[j] = msess[j]
  BY <1>1, <1>6
<1>8. SetupTypeOK' /\ mtab'.ok
  <2>1. DOMAIN ktab' \subseteq DOMAIN msess'
    BY <1>1, <1>3, <1>7
  <2> QED BY <1>1, <1>3, <1>5, <1>7, <2>1 DEF SetupInv, SetupTypeOK
<1>9. Nothing[1] \notin PipeEnds
  BY DEF Nothing, PipeEnds
<1>10. Marked'
  <2>1. \A n \in mtab'.cloexec : Opens(mtab', n)
    BY <1>5 DEF SetupInv, Marked, Opens
  <2>2. ASSUME NEW n \in Num, ~ Foreign(mtab', n)
        PROVE  n \in mtab'.cloexec
    <3>1. n \notin S /\ ~ Foreign(mtab, n)
      BY <1>5, <1>9, <2>2 DEF Foreign
    <3> QED BY <1>5, <3>1 DEF SetupInv, Marked
  <2> QED BY <2>1, <2>2 DEF Marked
<1>11. Floor(f)'
  <2>1. \A n \in Num : n < f => Opens(mtab', n) /\ Foreign(mtab', n)
    BY <1>4, <1>5 DEF Floor, Opens, Foreign
  <2>2. f \in Num => ~ Opens(mtab', f)
    BY <1>5 DEF Floor, Opens
  <2>3. ASSUME NEW j \in DOMAIN msess'
        PROVE  /\ msess'[j].fd \in {NoNum, f}
               /\ msess'[j].pfd_r = NoNum \/ msess'[j].pfd_r > f
               /\ msess'[j].pfd_w = NoNum \/ msess'[j].pfd_w > f
    BY <1>6, <1>7 DEF Floor
  <2> QED BY <2>1, <2>2, <2>3 DEF Floor
<1>12. ChildGetsItsEnds'
  <2>1. ASSUME NEW j \in DOMAIN ktab'
        PROVE  Equipped(ktab'[j], j)
    <3>1. j \in DOMAIN ktab /\ ktab'[j] = ktab[j]
      BY <1>1
    <3> QED BY <3>1 DEF SetupInv, ChildGetsItsEnds, Equipped
  <2>2. ASSUME NEW n \in Num, mtab'.fd[n][1] \in PipeEnds
        PROVE  \E j \in DOMAIN msess' :
                 \/ n = msess'[j].pfd_r /\ mtab'.fd[n] = <<"p2 read", j>>
                 \/ n = msess'[j].pfd_w /\ mtab'.fd[n] = <<"p1 write", j>>
    <3>1. n \notin S /\ mtab'.fd[n] = mtab.fd[n]
      BY <1>5, <1>9, <2>2
    <3>2. mtab.fd[n][1] \in PipeEnds
      BY <2>2, <3>1, Zenon
    <3>3. PICK j \in DOMAIN msess :
               \/ n = msess[j].pfd_r /\ mtab.fd[n] = <<"p2 read", j>>
               \/ n = msess[j].pfd_w /\ mtab.fd[n] = <<"p1 write", j>>
      BY <3>2 DEF SetupInv, ChildGetsItsEnds
    <3>4. n # msess[k].pfd_r /\ n # msess[k].pfd_w
      BY <3>1 DEF S
    <3>5. j # k
      BY <3>3, <3>4, Zenon
    <3>6. j \in DOMAIN msess' /\ msess'[j] = msess[j]
      BY <1>7, <3>5
    <3> QED BY <3>1, <3>3, <3>6, Zenon
  <2> QED BY <2>1, <2>2 DEF ChildGetsItsEnds, Equipped
<1>13. SettingUp' /\ ServingFloor'
  BY <1>1, <1>11 DEF SettingUp, ServingFloor
<1> QED BY <1>8, <1>10, <1>12, <1>13 DEF SetupInv

(* Steps of the set-up keep a table that has nothing of a session.         *)
LEMMA SettingKeeps ==
  ASSUME SetupInv, mstep # "serving", mstep' = "setup", msess' = msess, ktab' = ktab,
         mtab' \in FdTable, mtab'.ok, mtab'.cloexec = {},
         \A n \in Num : Foreign(mtab', n), Listening' # {} => Opens(mtab', 0)
  PROVE  SetupInv'
<1>1. DOMAIN msess = {} /\ DOMAIN ktab = {}
  BY DEF SetupInv, SetupTypeOK, SettingUp
<1>2. SetupTypeOK' /\ SettingUp'
  BY <1>1 DEF SetupInv, SetupTypeOK, SettingUp
<1>3. Marked' /\ ServingFloor'
  BY DEF Marked, ServingFloor
<1>4. ChildGetsItsEnds'
  BY <1>1 DEF ChildGetsItsEnds, Foreign
<1> QED BY <1>2, <1>3, <1>4 DEF SetupInv

(* One round of become_daemon: i is closed, and /dev/null gets it.         *)
LEMMA NullStep ==
  ASSUME NEW t \in FdTable, NEW i \in 0 .. 2, \A m \in Num : m < i => Opens(t, m)
  PROVE  IsOpened(Opened(Shutting(t, {i}), <<"null", i>>), Shutting(t, {i}), i,
                  <<"null", i>>)
<1> DEFINE u == Shutting(t, {i})
           o == <<"null", i>>
<1>1. i \in Num /\ 0 \in Nat /\ i >= 0 /\ Num \subseteq Nat
  BY ChildSetupAssumption DEF Num
<1>2. o \in Obj /\ o # Nothing
  BY <1>1, EndsAreObjects
<1> HIDE DEF o
<1>3. IsShut(u, t, {i})
  BY ShutStep, Zenon
<1> HIDE DEF u
<1>4. u \in FdTable /\ ~ Opens(u, i)
  BY <1>1, <1>3 DEF IsShut, Opens
<1>5. \A m \in Num : m < i => Opens(u, m)
  BY <1>1, <1>3 DEF IsShut, Opens
<1>6. NextNum(u, 0) = i
  BY <1>1, <1>4, <1>5, NextIs
<1>7. /\ Opened(u, o) \in FdTable /\ Opened(u, o).cloexec = u.cloexec
      /\ Opened(u, o).ok = u.ok
      /\ \A m \in Num : Opened(u, o).fd[m] = IF m = i THEN o ELSE u.fd[m]
  BY <1>1, <1>2, <1>4, <1>6 DEF Opened, Entered, FdTable
<1>8. IsOpened(Opened(u, o), u, i, o)
  BY <1>1, <1>4, <1>5, <1>7 DEF IsOpened
<1> QED BY <1>8 DEF u, o

(* 0, 1 and 2 become /dev/null, or stay what they are.                     *)
LEMMA DaemonStep ==
  ASSUME SetupInv, NEW is_daemon \in BOOLEAN, become_daemon(is_daemon)
  PROVE  SetupInv'
<1> DEFINE null(t, i) == Opened(Shutting(t, {i}), <<"null", i>>)
           a == null(mtab, 0)
           b == null(a, 1)
           c == null(b, 2)
<1>1. /\ mstep = "start" /\ mstep' = "setup" /\ msess' = msess /\ ktab' = ktab
      /\ mtab' = IF is_daemon THEN c ELSE mtab
  BY DEF become_daemon
<1>2. /\ mtab \in FdTable /\ mtab.ok /\ mtab.cloexec = {}
      /\ \A n \in Num : Foreign(mtab, n)
      /\ Listening # {} => Opens(mtab, 0)
  BY <1>1 DEF SetupInv, SetupTypeOK, SettingUp
<1>3. CASE ~ is_daemon
  <2>1. mtab' = mtab
    BY <1>1, <1>3
  <2>2. Listening' = Listening /\ Opens(mtab', 0) = Opens(mtab, 0)
    BY <2>1 DEF Listening
  <2> QED BY <1>1, <1>2, <2>1, <2>2, SettingKeeps
<1>4. CASE is_daemon
  <2>1. /\ 0 \in 0 .. 2 /\ 1 \in 0 .. 2 /\ 2 \in 0 .. 2 /\ Num \subseteq Nat
        /\ 0 \in Num /\ 1 \in Num
    BY ChildSetupAssumption DEF Num
  <2>2. ASSUME NEW t \in FdTable, NEW i \in 0 .. 2, \A m \in Num : m < i => Opens(t, m),
               t.ok, t.cloexec = {}, \A n \in Num : Foreign(t, n)
        PROVE  /\ null(t, i) \in FdTable /\ null(t, i).ok /\ null(t, i).cloexec = {}
               /\ \A n \in Num : Foreign(null(t, i), n)
               /\ \A m \in Num : m < i + 1 => Opens(null(t, i), m)
    <3> DEFINE o == <<"null", i>>
               s == Shutting(t, {i})
               u == Opened(s, o)
    <3>1. IsOpened(u, s, i, o)
      BY <2>2, NullStep, Zenon
    <3>2. IsShut(s, t, {i})
      BY ShutStep, Zenon
    <3>3. o # Nothing /\ o[1] \notin PipeEnds /\ i \in Num
      BY ChildSetupAssumption DEF Nothing, PipeEnds, Num
    <3> HIDE DEF o, s, u
    <3>4. u \in FdTable /\ u.ok /\ u.cloexec = {}
      BY <2>2, <3>1, <3>2 DEF IsOpened, IsShut
    <3>5. \A n \in Num : u.fd[n] = IF n = i THEN o ELSE t.fd[n]
      BY <3>1, <3>2 DEF IsOpened, IsShut
    <3>6. \A n \in Num : Foreign(u, n)
      BY <2>2, <3>3, <3>5 DEF Foreign
    <3>7. \A m \in Num : m < i + 1 => Opens(u, m)
      <4>1. \A m \in Num : m < i + 1 => m = i \/ m < i
        BY <2>1
      <4> QED BY <2>2, <3>3, <3>5, <4>1 DEF Opens
    <3> QED BY <3>4, <3>6, <3>7 DEF o, s, u
  <2> HIDE DEF null
  <2>3. /\ a \in FdTable /\ a.ok /\ a.cloexec = {} /\ \A n \in Num : Foreign(a, n)
        /\ \A m \in Num : m < 1 => Opens(a, m)
    <3>1. \A m \in Num : m < 0 => Opens(mtab, m)
      BY <2>1
    <3>2. 0 + 1 = 1
      OBVIOUS
    <3> QED BY <1>2, <2>1, <2>2, <3>1, <3>2
  <2> HIDE DEF a
  <2>4. /\ b \in FdTable /\ b.ok /\ b.cloexec = {} /\ \A n \in Num : Foreign(b, n)
        /\ \A m \in Num : m < 2 => Opens(b, m)
    <3>1. 1 + 1 = 2
      OBVIOUS
    <3> QED BY <2>1, <2>2, <2>3, <3>1
  <2> HIDE DEF b
  <2>5. /\ c \in FdTable /\ c.ok /\ c.cloexec = {} /\ \A n \in Num : Foreign(c, n)
        /\ \A m \in Num : m < 3 => Opens(c, m)
    <3>1. 2 + 1 = 3
      OBVIOUS
    <3> QED BY <2>1, <2>2, <2>4, <3>1
  <2> HIDE DEF c
  <2>6. mtab' = c /\ Opens(c, 0)
    BY <1>1, <1>4, <2>1, <2>5
  <2> QED BY <1>1, <2>5, <2>6, SettingKeeps
<1> QED BY <1>3, <1>4

(* A listening socket, or the epoll descriptor, gets the lowest number.    *)
LEMMA SocketOpened ==
  ASSUME SetupInv, mstep = "setup", HasFree(mtab, 1), NEW o \in Obj, o # Nothing,
         o[1] \notin PipeEnds, mtab' = Opened(mtab, o)
  PROVE  /\ mtab' \in FdTable /\ mtab'.ok /\ mtab'.cloexec = {}
         /\ \A n \in Num : Foreign(mtab', n)
         /\ \A n \in Num : Opens(mtab, n) => Opens(mtab', n)
         /\ Opens(mtab', 0)
         /\ Opens(mtab, 0) => Opens(mtab', 1)
<1> DEFINE n == NextNum(mtab, 0)
<1>1. /\ mtab \in FdTable /\ mtab.ok /\ mtab.cloexec = {}
      /\ \A m \in Num : Foreign(mtab, m)
  BY DEF SetupInv, SetupTypeOK, SettingUp
<1>2. 1 \in Nat /\ 0 \in Nat /\ 1 = 0 + 1
  OBVIOUS
<1>3. IsOpened(mtab', mtab, n, o)
  BY <1>1, <1>2, OpenedStep, Zenon
<1> HIDE DEF n
<1>4. /\ mtab' \in FdTable /\ mtab'.ok /\ mtab'.cloexec = {}
      /\ \A m \in Num : Foreign(mtab', m)
      /\ \A m \in Num : Opens(mtab, m) => Opens(mtab', m)
  BY <1>1, <1>3 DEF IsOpened, Foreign, Opens
<1>5. n \in Num /\ Opens(mtab', n) /\ \A m \in Num : m < n => Opens(mtab, m)
  BY <1>3 DEF IsOpened, Opens
<1>6. Num \subseteq Nat /\ 0 \in Num /\ 1 \in Num
  BY ChildSetupAssumption DEF Num
<1>7. Opens(mtab', 0)
  <2>1. n = 0 \/ 0 < n
    BY <1>5, <1>6
  <2> QED BY <1>4, <1>5, <1>6, <2>1
<1>8. Opens(mtab, 0) => Opens(mtab', 1)
  <2>1. Opens(mtab, 0) => n # 0
    BY <1>3 DEF IsOpened
  <2>2. n = 0 \/ n = 1 \/ 1 < n
    BY <1>5, <1>6
  <2> QED BY <1>4, <1>5, <1>6, <2>1, <2>2
<1> QED BY <1>4, <1>7, <1>8

(* One more listening socket.                                              *)
LEMMA BindStep ==
  ASSUME SetupInv, create_and_bind
  PROVE  SetupInv'
<1> DEFINE o == <<"listen", Cardinality(Listening)>>
<1>1. /\ mstep = "setup" /\ HasFree(mtab, 1) /\ mtab' = Opened(mtab, o)
      /\ mstep' = mstep /\ msess' = msess /\ ktab' = ktab
  BY DEF create_and_bind
<1>2. o \in Obj /\ o # Nothing /\ o[1] \notin PipeEnds
  <2>1. IsFiniteSet(Num) /\ Listening \subseteq Num
    <3>1. 0 \in Int /\ MaxNum \in Int
      BY ChildSetupAssumption
    <3>2. IsFiniteSet(Num)
      BY <3>1, FS_Interval, Zenon DEF Num
    <3> QED BY <3>2 DEF Listening
  <2>2. Cardinality(Listening) \in Nat
    BY <2>1, FS_Subset, FS_CardinalityType
  <2> QED BY <2>2 DEF Obj, Nothing, PipeEnds
<1> HIDE DEF o
<1> QED BY <1>1, <1>2, SocketOpened, SettingKeeps

(* The epoll descriptor: from then on two permanent descriptors are 0 and  *)
(* 1, and the lowest free number is at least 2.                            *)
LEMMA EpollStep ==
  ASSUME SetupInv, EpollCreate
  PROVE  SetupInv'
<1> DEFINE o == <<"epoll", 0>>
<1>1. /\ mstep = "setup" /\ HasFree(mtab, 1) /\ Listening # {} /\ mtab' = Opened(mtab, o)
      /\ mstep' = "serving" /\ msess' = msess /\ ktab' = ktab
  BY DEF EpollCreate
<1>2. o \in Obj /\ o # Nothing /\ o[1] \notin PipeEnds
  BY DEF Obj, Nothing, PipeEnds
<1> HIDE DEF o
<1>3. DOMAIN msess = {} /\ DOMAIN ktab = {} /\ Opens(mtab, 0)
  BY <1>1 DEF SetupInv, SetupTypeOK, SettingUp
<1>4. /\ mtab' \in FdTable /\ mtab'.ok /\ mtab'.cloexec = {}
      /\ \A n \in Num : Foreign(mtab', n)
      /\ Opens(mtab', 0) /\ Opens(mtab', 1)
  BY <1>1, <1>2, <1>3, SocketOpened
<1> DEFINE T == {n \in Nat : n \notin Num \/ ~ Opens(mtab', n)}
<1>5. PICK f \in T : \A m \in T : f <= m
  <2>1. MaxNum + 1 \in T
    BY ChildSetupAssumption DEF Num
  <2>2. T \subseteq Nat
    OBVIOUS
  <2> HIDE DEF T
  <2> QED BY <2>1, <2>2, LeastNat
<1>6. f \in Nat /\ 0 \in Num /\ 1 \in Num /\ Num \subseteq Nat
  BY ChildSetupAssumption DEF Num
<1>7. f >= 2
  BY <1>4, <1>6
<1>8. \A n \in Num : n < f => Opens(mtab', n)
  BY <1>5, <1>6
<1>9. f \in Num => ~ Opens(mtab', f)
  OBVIOUS
<1>10. Floor(f)'
  BY <1>1, <1>3, <1>4, <1>7, <1>8, <1>9 DEF Floor
<1>11. ServingFloor' /\ SettingUp'
  BY <1>1, <1>6, <1>10 DEF ServingFloor, SettingUp
<1>12. SetupTypeOK' /\ Marked'
  BY <1>1, <1>3, <1>4 DEF SetupInv, SetupTypeOK, Marked
<1>13. ChildGetsItsEnds'
  BY <1>1, <1>3, <1>4 DEF ChildGetsItsEnds, Foreign
<1> QED BY <1>4, <1>11, <1>12, <1>13 DEF SetupInv

(* The invariant of the descriptor tables.                                 *)
THEOREM SetupInvariance == ChildSetupSpec => []SetupInv
<1>1. ASSUME ChildSetupInit PROVE SetupInv
  <2> PICK used \in SUBSET (0 .. 2) : mtab = NewTable(used)
    BY <1>1 DEF ChildSetupInit
  <2>1. mstep = "start" /\ DOMAIN msess = {} /\ DOMAIN ktab = {} /\ msess = [k \in {} |-> 0]
    BY <1>1 DEF ChildSetupInit
  <2> DEFINE g == [n \in Num |-> IF n \in used THEN <<"std", n>> ELSE Nothing]
  <2>2. /\ g \in [Num -> Obj]
        /\ \A n \in Num : g[n] = IF n \in used THEN <<"std", n>> ELSE Nothing
    <3>1. Nothing \in Obj
      BY DEF Nothing, Obj
    <3>2. \A n \in Num : <<"std", n>> \in Obj
      BY ChildSetupAssumption DEF Num, Obj
    <3> QED BY <3>1, <3>2
  <2>3. mtab = [fd |-> g, cloexec |-> {}, ok |-> TRUE]
    BY DEF NewTable
  <2> HIDE DEF g
  <2>4. mtab \in FdTable /\ mtab.fd = g /\ mtab.cloexec = {} /\ mtab.ok
    BY <2>2, <2>3 DEF FdTable
  <2>5. \A n \in Num : g[n][1] = "std" \/ g[n][1] = "nothing"
    BY <2>2 DEF Nothing
  <2>6. Listening = {} /\ \A n \in Num : Foreign(mtab, n)
    BY <2>4, <2>5 DEF Listening, Foreign, PipeEnds
  <2>7. msess \in [1 .. 0 -> SessEntry]
    BY <2>1
  <2>8. SetupTypeOK
    BY <2>1, <2>4, <2>7 DEF SetupTypeOK
  <2>9. Marked /\ SettingUp /\ ServingFloor
    BY <2>1, <2>4, <2>6 DEF Marked, SettingUp, ServingFloor
  <2>10. ChildGetsItsEnds
    BY <2>1, <2>6 DEF ChildGetsItsEnds, Foreign
  <2> QED BY <2>4, <2>8, <2>9, <2>10 DEF SetupInv
<1>2. ASSUME SetupInv, [ChildSetupNext]_childSetupVars PROVE SetupInv'
  <2>1. CASE ChildSetupNext
    BY <1>2, <2>1, DaemonStep, BindStep, EpollStep, CreateStep, CleanStep
       DEF ChildSetupNext
  <2>2. CASE UNCHANGED childSetupVars
    <3>1. mtab' = mtab /\ mstep' = mstep /\ msess' = msess /\ ktab' = ktab
      BY <2>2 DEF childSetupVars
    <3>2. SetupTypeOK' /\ mtab'.ok /\ Marked'
      BY <1>2, <3>1 DEF SetupInv, SetupTypeOK, Marked
    <3>3. SettingUp' /\ ServingFloor'
      BY <1>2, <3>1 DEF SetupInv, SettingUp, ServingFloor, Floor, Listening
    <3>4. ChildGetsItsEnds'
      BY <1>2, <3>1, Zenon DEF SetupInv, ChildGetsItsEnds
    <3> QED BY <3>2, <3>3, <3>4 DEF SetupInv
  <2> QED BY <1>2, <2>1, <2>2
<1> QED BY <1>1, <1>2, PTL DEF ChildSetupSpec

(* Whatever of 0, 1 and 2 is open when a server starts, in the foreground  *)
(* or as a daemon, and however sessions come and go: a child that runs has *)
(* its connection as 2 and its ends of the pipes as 0 and 1, and no end of *)
(* any other session; the master has just its two ends of each.  For any   *)
(* number of listening sockets, sessions and descriptors.                  *)
THEOREM ChildrenGetTheirEnds == ChildSetupSpec => []ChildGetsItsEnds
<1>1. SetupInv => ChildGetsItsEnds
  BY DEF SetupInv
<1> QED BY <1>1, SetupInvariance, PTL
=============================================================================
