----------------------------- MODULE MC_Hashmap -----------------------------
(* Hash tables with small sizes in place of the primes.  The first size is *)
(* never used, as in the code: the first insertion moves on to the second. *)
(* Three keys share a bucket of the smaller table, three one of the larger.*)
EXTENDS Hashmap

CONSTANTS k1, k2, k3, k4

MCKey   == {k1, k2, k3, k4}
MCHash  == [k \in MCKey |->
              CASE k = k1 -> 0 [] k = k2 -> 15 [] k = k3 -> 3 [] OTHER -> 5]
MCSizes == <<1, 3, 5>>
=============================================================================
