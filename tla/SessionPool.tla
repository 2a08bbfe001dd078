---------------------------- MODULE SessionPool ----------------------------
(***************************************************************************)
(* What the array clients_t of a fork-per-connection server promises: a    *)
(* fixed number of places, each of which serves one session at a time.  A  *)
(* session takes a place when it begins and loses it only after it is      *)
(* over.  A place may be lost for good when a session fails to begin.      *)
(***************************************************************************)
EXTENDS Integers

CONSTANTS
  Places,    \* the places
  Sessions   \* the sessions

CONSTANTS Nobody, Lost

VARIABLES
  holder,   \* the session each place serves
  over      \* the sessions that have ended

poolVars == <<holder, over>>

PoolInit ==
  /\ holder = [p \in Places |-> Nobody]
  /\ over = {}

Begin(p, s) ==
  /\ holder[p] = Nobody
  /\ s \notin over
  /\ \A q \in Places : holder[q] # s
  /\ holder' = [holder EXCEPT ![p] = s]
  /\ UNCHANGED over

Lose(p) ==
  /\ holder[p] = Nobody
  /\ holder' = [holder EXCEPT ![p] = Lost]
  /\ UNCHANGED over

Finish(s) ==
  /\ s \notin over
  /\ \E p \in Places : holder[p] = s
  /\ over' = over \cup {s}
  /\ UNCHANGED holder

Release(p) ==
  /\ holder[p] \in over
  /\ holder' = [holder EXCEPT ![p] = Nobody]
  /\ UNCHANGED over

PoolNext ==
  \/ \E p \in Places : Lose(p) \/ Release(p) \/ \E s \in Sessions : Begin(p, s)
  \/ \E s \in Sessions : Finish(s)

PoolSpec == PoolInit /\ [][PoolNext]_poolVars
=============================================================================
