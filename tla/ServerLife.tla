----------------------------- MODULE ServerLife -----------------------------
(***************************************************************************)
(* Start and end of the servers of samples/ctproxy and samples/server_epoll*)
(* (ctserver.c; server.c has the same code): the configuration, the pid    *)
(* file and the signals that end the process.  The file is created with    *)
(* O_EXCL and keeps a second server from starting; it outlives a server    *)
(* that does not end through server_exit.                                  *)
(***************************************************************************)
EXTENDS Integers, FiniteSets

CONSTANT Server   \* process numbers: the servers that are ever started

ASSUME ServerAssumption == {"absent", "empty"} \cap Server = {}

VARIABLES
  at,        \* how far each server has come
  pidfile,   \* "absent", "empty", or the number in the file
  ended,     \* how each server ended
  strayed    \* ghost: a server unlinked the file of another

serverVars == <<at, pidfile, ended, strayed>>

ServerLifeInit ==
  /\ at = [p \in Server |-> "off"]
  /\ pidfile = "absent"
  /\ ended = [p \in Server |-> "not"]
  /\ strayed = FALSE

Moves(p, s) == at' = [at EXCEPT ![p] = s] /\ UNCHANGED ended

Ends(p, why) ==
  /\ at' = [at EXCEPT ![p] = "gone"]
  /\ ended' = [ended EXCEPT ![p] = why]

(* main reads the configuration; without one the program ends.             *)
get_config_file(p) ==
  /\ at[p] = "off"
  /\ Moves(p, "configured") \/ Ends(p, "no config")
  /\ UNCHANGED <<pidfile, strayed>>

(* Mutant of create_pid_file: O_EXCL is missing.                           *)
create_pid_file_shared(p) ==
  /\ at[p] = "configured"
  /\ \/ pidfile' = p /\ Moves(p, "setup")
     \/ pidfile' = "empty" /\ Ends(p, "pid file")
     \/ UNCHANGED pidfile /\ Ends(p, "pid file")
  /\ UNCHANGED strayed

(* become_daemon forks and calls create_pid_file: the file must be new.    *)
(* When the number cannot be written the file stays, empty.                *)
create_pid_file(p) ==
  /\ at[p] = "configured"
  /\ \/ pidfile = "absent" /\ pidfile' = p /\ Moves(p, "setup")
     \/ pidfile = "absent" /\ pidfile' = "empty" /\ Ends(p, "pid file")
     \/ UNCHANGED pidfile /\ Ends(p, "pid file")
  /\ UNCHANGED strayed

(* Mutant of Unlink: the file is left behind.                              *)
UnlinkForgotten(p) == UNCHANGED <<pidfile, strayed>>

(* server_exit unlinks the file, whoever created it.                       *)
Unlink(p) ==
  /\ pidfile' = "absent"
  /\ strayed' = (strayed \/ pidfile \notin {p, "absent"})

(* Tables, sockets, handlers and the epoll set.  Most failures go through  *)
(* server_exit, a failed listen() ends the process directly.               *)
Setup(p) ==
  /\ at[p] = "setup"
  /\ \/ Moves(p, "serving") /\ UNCHANGED <<pidfile, strayed>>
     \/ Moves(p, "exiting") /\ Unlink(p)
     \/ Ends(p, "listen") /\ UNCHANGED <<pidfile, strayed>>

(* A terminating signal: before the handlers are installed the process     *)
(* ends; afterwards server_exit runs, also when it interrupts server_exit  *)
(* itself, since the handlers block only their own signal.                 *)
Signal(p) ==
  \/ /\ at[p] \in {"configured", "setup"}
     /\ Ends(p, "signal")
     /\ UNCHANGED <<pidfile, strayed>>
  \/ /\ at[p] \in {"serving", "exiting"}
     /\ Moves(p, "exiting")
     /\ Unlink(p)

(* server_exit: exit(1), after the unlink.                                 *)
server_exit(p) ==
  /\ at[p] = "exiting"
  /\ Ends(p, "quit")
  /\ UNCHANGED <<pidfile, strayed>>

(* SIGKILL, or the machine.                                                *)
Crash(p) ==
  /\ at[p] \notin {"off", "gone"}
  /\ Ends(p, "crash")
  /\ UNCHANGED <<pidfile, strayed>>

ServerLifeNext ==
  \E p \in Server :
    \/ get_config_file(p)
    \/ create_pid_file(p)
    \/ Setup(p)
    \/ Signal(p)
    \/ server_exit(p)
    \/ Crash(p)

ServerLifeSpec == ServerLifeInit /\ [][ServerLifeNext]_serverVars
-----------------------------------------------------------------------------
Owners == {p \in Server : at[p] \in {"setup", "serving"}}

(* While a server runs, it is the only one past create_pid_file and the    *)
(* file names it, so that stop.sh, which kills the process the file names, *)
(* ends this server and no other process; unless a second signal made an   *)
(* exiting server unlink its successor's file.                             *)
PidFileNamesServer == strayed \/ \A p \in Owners : pidfile = p

(* A server that ends through server_exit leaves no file that would keep   *)
(* its successor from starting.                                            *)
OrderlyExit == \A p \in Server : ended[p] = "quit" => pidfile # p
=============================================================================
