---------------------------- MODULE MC_Lifecycle ----------------------------
(* Instances that start, end and are killed, and servers that start their  *)
(* children.  A behaviour is one of the daemon, one of the servers or one  *)
(* of a server's descriptors; the other parts rest.                        *)
EXTENDS Daemon, ServerLife, ChildSetup

VARIABLE part

Init ==
  /\ part \in {"daemon", "server", "child"}
  /\ DaemonInit
  /\ ServerLifeInit
  /\ IF part = "child" THEN ChildSetupInit
     ELSE mtab = NewTable({}) /\ mstep = "start" /\ msess = <<>> /\ ktab = <<>>

Next ==
  \/ part = "daemon" /\ DaemonNext /\ UNCHANGED <<part, serverVars, childSetupVars>>
  \/ part = "server" /\ ServerLifeNext /\ UNCHANGED <<part, daemonVars, childSetupVars>>
  \/ part = "child" /\ ChildSetupNext /\ UNCHANGED <<part, daemonVars, serverVars>>

Spec == Init /\ [][Next]_<<part, daemonVars, serverVars, childSetupVars>>
=============================================================================
