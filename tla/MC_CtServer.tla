---------------------------- MODULE MC_CtServer ----------------------------
(* The master of ctproxy on small instances; the bounds are in the .cfg    *)
(* files.                                                                  *)
EXTENDS CtServer
=============================================================================
