------------------------------ MODULE MapStore ------------------------------
(***************************************************************************)
(* What a dictionary promises: a map from keys to values, with the answer  *)
(* of the last call.  A key may be absent, and it may be present with the  *)
(* value Null.                                                             *)
(***************************************************************************)
CONSTANTS
  Key, Val, Null, Absent,
  Ok, Fail,
  MayFail   \* TRUE: a Put may be refused or cut short

VARIABLES
  map,    \* the value of each key
  call,   \* the last call, with its arguments
  ans     \* what it returned

mapVars == <<map, call, ans>>

Empty == [k \in Key |-> Absent]

MapInit ==
  /\ map = Empty
  /\ call = <<"init">>
  /\ ans = Ok

Get(k, def) ==
  /\ call' = <<"get", k, def>>
  /\ ans' = IF map[k] = Absent THEN def ELSE map[k]
  /\ UNCHANGED map

Put(k, v) ==
  /\ call' = <<"set", k, v>>
  /\ map' = [map EXCEPT ![k] = v]
  /\ ans' = Ok

(* A Put that cannot be done says so and changes nothing.                  *)
Refuse(k, v) ==
  /\ MayFail
  /\ call' = <<"set", k, v>>
  /\ ans' = Fail
  /\ UNCHANGED map

(* A Put that was cut short answers Ok although it stored Null in place of *)
(* the value, or no new key at all.                                        *)
PutShort(k, v) ==
  /\ MayFail
  /\ call' = <<"set", k, v>>
  /\ map' = [map EXCEPT ![k] = Null] \/ (map[k] = Absent /\ map' = map)
  /\ ans' = Ok

Remove(k) ==
  /\ call' = <<"unset", k>>
  /\ map' = [map EXCEPT ![k] = Absent]
  /\ ans' = Ok

New ==
  /\ call' = <<"new">>
  /\ map' = Empty
  /\ ans' = Ok

Del ==
  /\ call' = <<"del">>
  /\ map' = Empty
  /\ ans' = Ok

MapNext ==
  \/ \E k \in Key :
       \/ \E v \in Val \cup {Null} : 
            Get(k, v) \/ Put(k, v) \/ Refuse(k, v) \/ PutShort(k, v)
       \/ Remove(k)
  \/ New
  \/ Del

MapSpec == MapInit /\ [][MapNext]_mapVars
=============================================================================
