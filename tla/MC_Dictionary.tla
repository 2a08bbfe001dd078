--------------------------- MODULE MC_Dictionary ---------------------------
(* The dictionary with three keys, two of which have the same hash, and    *)
(* one slot to begin with.                                                 *)
EXTENDS Dictionary

CONSTANTS k1, k2, k3

MCKey  == {k1, k2, k3}
MCHash == [k \in MCKey |-> IF k = k3 THEN 0 ELSE 7]
=============================================================================
