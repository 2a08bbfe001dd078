----------------------------- MODULE MC_CtChild -----------------------------
(* A session of ctproxy with a few bytes in each direction.                *)
EXTENDS CtChild
=============================================================================
