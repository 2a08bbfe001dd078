------------------------------- MODULE Daemon -------------------------------
(***************************************************************************)
(* samples/daemon.c: a daemon that lets one instance of itself run.  An    *)
(* instance opens /var/run/dt.pid, takes a record lock on it and writes    *)
(* its process number; SIGTERM unlinks the file.                           *)
(*                                                                         *)
(* The lock belongs to the file that was opened, the name to the directory:*)
(* files are numbered, and a name that was unlinked leaves the file, with  *)
(* its lock, to those who have it open.  Every system call is a step.      *)
(***************************************************************************)
EXTENDS Integers, FiniteSets

CONSTANTS
  Instance,   \* process numbers: the instances that are ever started
  MaxFiles    \* bound: files created under the name PID_FILE

NoFile == 0
Nobody == "nobody"
Cut    == "part of a number"
Files  == 1 .. MaxFiles

ASSUME DaemonAssumption == MaxFiles \in Nat /\ {Nobody, Cut} \cap Instance = {}

VARIABLES
  pc,        \* how far each instance has come
  fd,        \* the file each instance has open
  name,      \* the file that PID_FILE names
  created,   \* number of files created so far
  lock,      \* who holds the lock of each file
  first,     \* the process number each file begins with
  raced,     \* ghost: PID_FILE was unlinked while another instance had it open
  unwritten  \* ghost: the instances whose number was not written in full

daemonVars == <<pc, fd, name, created, lock, first, raced, unwritten>>

Up == {"opened", "locked", "running"}

DaemonInit ==
  /\ pc = [p \in Instance |-> "off"]
  /\ fd = [p \in Instance |-> NoFile]
  /\ name = NoFile
  /\ created = 0
  /\ lock = [f \in Files |-> Nobody]
  /\ first = [f \in Files |-> Nobody]
  /\ raced = FALSE
  /\ unwritten = {}

Goes(p, s) == pc' = [pc EXCEPT ![p] = s]

(* The end of a process closes its descriptor and gives up its lock.       *)
Exit(p) ==
  /\ Goes(p, "gone")
  /\ fd' = [fd EXCEPT ![p] = NoFile]
  /\ lock' = [f \in Files |-> IF lock[f] = p THEN Nobody ELSE lock[f]]

(* Two forks and setsid, any of which may fail.                            *)
daemon_init(p) ==
  /\ pc[p] = "off"
  /\ Goes(p, "detached") \/ Goes(p, "gone")
  /\ UNCHANGED <<fd, name, created, lock, first, raced, unwritten>>

(* main: signal(SIGTERM, sig_term), before the lock is asked for.          *)
CatchTerm(p) ==
  /\ pc[p] = "detached"
  /\ Goes(p, "armed")
  /\ UNCHANGED <<fd, name, created, lock, first, raced, unwritten>>

(* open with O_CREAT.                                                      *)
OpenPidFile(p) ==
  /\ pc[p] = "armed"
  /\ \/ /\ name # NoFile
        /\ fd' = [fd EXCEPT ![p] = name]
        /\ Goes(p, "opened")
        /\ UNCHANGED <<name, created>>
     \/ /\ name = NoFile
        /\ created < MaxFiles
        /\ created' = created + 1
        /\ name' = created + 1
        /\ fd' = [fd EXCEPT ![p] = created + 1]
        /\ Goes(p, "opened")
     \/ Goes(p, "gone") /\ UNCHANGED <<fd, name, created>>
  /\ UNCHANGED <<lock, first, raced, unwritten>>

(* Mutant of SetLock: the result of fcntl is not tested.                   *)
SetLockUnchecked(p) ==
  /\ pc[p] = "opened"
  /\ Goes(p, "locked")
  /\ lock' = [lock EXCEPT ![fd[p]] = IF @ = Nobody THEN p ELSE @]
  /\ UNCHANGED fd
  /\ UNCHANGED <<name, created, first, raced, unwritten>>

(* F_SETLK takes the lock of the whole file, or fails if another process   *)
(* has it.                                                                 *)
SetLock(p) ==
  /\ pc[p] = "opened"
  /\ \/ /\ lock[fd[p]] = Nobody
        /\ lock' = [lock EXCEPT ![fd[p]] = p]
        /\ Goes(p, "locked")
        /\ UNCHANGED fd
     \/ lock[fd[p]] # Nobody /\ Exit(p)
  /\ UNCHANGED <<name, created, first, raced, unwritten>>

(* Mutant of WritePid: the file is opened for appending.                   *)
WritePidAppends(p) ==
  /\ pc[p] = "locked"
  /\ Goes(p, "running")
  /\ \E w \in {p, Cut, Nobody} :
       /\ first' = [first EXCEPT ![fd[p]] = IF @ = Nobody THEN w ELSE @]
       /\ unwritten' = IF w = p THEN unwritten ELSE unwritten \cup {p}
  /\ UNCHANGED <<fd, name, created, lock, raced>>

(* The process number is written over the start of the file.  Nobody looks *)
(* whether write does it: on a full disk it may write a part or nothing,   *)
(* and the instance runs all the same.                                     *)
WritePid(p) ==
  /\ pc[p] = "locked"
  /\ Goes(p, "running")
  /\ \/ /\ first' = [first EXCEPT ![fd[p]] = p]
        /\ UNCHANGED unwritten
     \/ /\ \/ first' = [first EXCEPT ![fd[p]] = Cut]
           \/ UNCHANGED first
        /\ unwritten' = unwritten \cup {p}
  /\ UNCHANGED <<fd, name, created, lock, raced>>

(* SIGTERM: without the handler the process ends; the handler unlinks the  *)
(* name, whatever file it stands for, and exits then.                      *)
Term(p) ==
  /\ pc[p] \in {"detached", "armed"} \cup Up
  /\ \/ /\ pc[p] = "detached"
        /\ Exit(p)
        /\ UNCHANGED <<name, raced>>
     \/ /\ pc[p] # "detached"
        /\ name' = NoFile
        /\ raced' = (raced \/ \E q \in Instance \ {p} :
                                fd[q] = name /\ name # NoFile)
        /\ Goes(p, "terminating")
        /\ UNCHANGED <<fd, lock>>
  /\ UNCHANGED <<created, first, unwritten>>

sig_term_exit(p) ==
  /\ pc[p] = "terminating"
  /\ Exit(p)
  /\ UNCHANGED <<name, created, first, raced, unwritten>>

(* SIGKILL, at any time.                                                   *)
Killed(p) ==
  /\ pc[p] \notin {"off", "gone"}
  /\ Exit(p)
  /\ UNCHANGED <<name, created, first, raced, unwritten>>

DaemonNext ==
  \E p \in Instance :
    \/ daemon_init(p)
    \/ CatchTerm(p)
    \/ OpenPidFile(p)
    \/ SetLock(p)
    \/ WritePid(p)
    \/ Term(p)
    \/ sig_term_exit(p)
    \/ Killed(p)

DaemonSpec == DaemonInit /\ [][DaemonNext]_daemonVars
-----------------------------------------------------------------------------
Running == {p \in Instance : pc[p] \in {"locked", "running"}}

(* What the comment on alread_running says: only one instance runs.        *)
SingleInstance == \A p, q \in Running : p = q

(* It is so, whatever instances are killed and when, as long as no SIGTERM *)
(* unlinked the file while another instance had it open.                   *)
SingleUnlessRaced == raced \/ SingleInstance

(* As long as no SIGTERM raced, PID_FILE is there while an instance runs,  *)
(* and begins with its number, so that "kill `cat /var/run/dt.pid`"        *)
(* reaches it: also after an instance was killed and left its own number   *)
(* there.  Only an instance whose write failed, which nothing notices, may *)
(* run with a part of its number in the file or with what was there        *)
(* before: then that is the number of an instance that is gone, never that *)
(* of one that is up.                                                      *)
PidFileNamesInstance ==
  \A p \in Instance :
    pc[p] = "running" /\ ~ raced =>
      /\ name # NoFile
      /\ p \notin unwritten => first[name] = p
      /\ first[name] \in {p, Cut, Nobody} \/ pc[first[name]] = "gone"
=============================================================================
