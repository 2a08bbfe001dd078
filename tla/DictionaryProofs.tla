-------------------------- MODULE DictionaryProofs --------------------------
(***************************************************************************)
(* The dictionary is safe with any number of keys and slots, any hash and  *)
(* any failures of the allocator; without failures it is a map.            *)
(*                                                                         *)
(* The argument: n is never below the number of slots in use (it is above  *)
(* it after a key could not be duplicated) and never above size, so that   *)
(* n < size leaves a free slot.                                            *)
(***************************************************************************)
EXTENDS Dictionary, TLAPS, FiniteSetTheorems

(* A slot in use has the hash of its key.                                  *)
HashesMatch == \A i \in Slots : key[i] # Null => hash[i] = Hash[key[i]]

Counted ==
  /\ Cardinality(Occupied) <= n
  /\ n <= size
  /\ state = "ok" => 0 < size

IInv == TypeOK /\ HashesMatch /\ KeysUnique /\ Counted

-----------------------------------------------------------------------------
(* Sets of slots are finite, and a set that does not fill 0 .. m - 1 has   *)
(* fewer than m members.                                                   *)
LEMMA SlotSets ==
  ASSUME NEW m \in Nat, NEW S \in SUBSET (0 .. m - 1)
  PROVE  /\ IsFiniteSet(S)
         /\ Cardinality(S) \in Nat
         /\ Cardinality(S) <= m
         /\ Cardinality(S) < m => \E i \in 0 .. m - 1 : i \notin S
<1>1. IsFiniteSet(0 .. m - 1) /\ Cardinality(0 .. m - 1) = m
  <2>1. CASE m = 0
    <3>1. 0 .. m - 1 = {} BY <2>1
    <3> QED BY <3>1, <2>1, FS_EmptySet
  <2>2. CASE m # 0
    BY <2>2, FS_Interval
  <2> QED BY <2>1, <2>2
<1>2. IsFiniteSet(S) /\ Cardinality(S) <= m
  BY <1>1, FS_Subset
<1>3. Cardinality(S) \in Nat
  BY <1>2, FS_CardinalityType
<1>4. Cardinality(S) < m => S # 0 .. m - 1
  BY <1>1, <1>3
<1> QED BY <1>2, <1>3, <1>4

(* A slot that is found holds the key.                                     *)
LEMMA FoundIs ==
  ASSUME IInv, NEW k \in Key
  PROVE  /\ \A i \in Found(k) : i \in Slots /\ key[i] = k
         /\ \A i \in Slots : key[i] = k => i \in Found(k)
<1>1. k # Null
  BY StringsAssumption
<1>2. \A i \in Slots : key[i] = k =>
        \A j \in Slots : key[j] = k => i = j
  BY <1>1 DEF IInv, KeysUnique
<1>3. \A i \in Slots : key[i] = k => hash[i] = Hash[k]
  BY <1>1 DEF IInv, HashesMatch
<1>4. \A i \in Slots : i \in Int
  BY DEF IInv, TypeOK, Slots
<1> QED BY <1>1, <1>2, <1>3, <1>4 DEF Found, Lowest

(* The search that n = 0 skips would have found nothing.                   *)
LEMMA PresentIsFound ==
  ASSUME IInv, NEW k \in Key
  PROVE  Present(k) = Found(k)
<1>1. CASE n > 0
  BY <1>1 DEF Present
<1>2. CASE ~ (n > 0)
  <2>1. n = 0
    BY <1>2 DEF IInv, TypeOK
  <2>2. Occupied \in SUBSET (0 .. size - 1) /\ size \in Nat
    BY DEF Occupied, Slots, IInv, TypeOK
  <2>3. IsFiniteSet(Occupied) /\ Cardinality(Occupied) \in Nat
    BY <2>2, SlotSets
  <2>4. Cardinality(Occupied) = 0
    BY <2>1, <2>3 DEF IInv, Counted
  <2>5. Occupied = {}
    BY <2>3, <2>4, FS_EmptySet
  <2>6. Found(k) = {}
    BY <2>5 DEF Found, Occupied, Lowest
  <2> QED BY <1>2, <2>6 DEF Present
<1> QED BY <1>1, <1>2

(* Insertion of a new key in arrays that extend the present ones by free   *)
(* slots, with n below their size, keeps the invariant.                    *)
LEMMA InsertStep ==
  ASSUME IInv, NEW k \in Key, NEW v \in Val \cup {Null}, Found(k) = {},
         NEW sz \in Nat, size <= sz, n < sz,
         NEW K \in [0 .. sz - 1 -> Key \cup {Null}],
         NEW V \in [0 .. sz - 1 -> Val \cup {Null}],
         NEW H \in [0 .. sz - 1 -> Nat],
         \A i \in 0 .. sz - 1 :
           IF i \in Slots THEN K[i] = key[i] /\ V[i] = val[i] /\ H[i] = hash[i]
                          ELSE K[i] = Null,
         Insert(K, V, H, sz, k, v)
  PROVE  IInv'
<1>1. PICK i \in 0 .. sz - 1, s \in {k, Null}, t \in {v, Null} :
        /\ K[i] = Null
        /\ key' = [K EXCEPT ![i] = s]
        /\ val' = [V EXCEPT ![i] = t]
        /\ hash' = [H EXCEPT ![i] = Hash[k]]
  BY DEF Insert, Lowest, xstrdup
<1>2. size' = sz /\ n' = n + 1 /\ ret' = "ok" /\ state' = state
  BY DEF Insert
<1>3. Slots' = 0 .. sz - 1 /\ Slots \subseteq 0 .. sz - 1
  BY <1>2 DEF Slots, IInv, TypeOK
<1>4. Hash[k] \in Nat
  BY HashAssumption
<1>5. TypeOK'
  BY <1>1, <1>2, <1>3, <1>4 DEF IInv, TypeOK
<1>6. k # Null /\ \A j \in Slots : key[j] # k
  BY FoundIs, StringsAssumption
<1>7. \A j \in 0 .. sz - 1 : key'[j] = IF j = i THEN s ELSE K[j]
  BY <1>1
<1>8. HashesMatch'
  <2>1. \A j \in 0 .. sz - 1 : hash'[j] = IF j = i THEN Hash[k] ELSE H[j]
    BY <1>1
  <2> QED BY <1>3, <1>7, <2>1 DEF HashesMatch, IInv
<1>9. KeysUnique'
  <2>1. \A j \in 0 .. sz - 1 : K[j] # Null => j \in Slots /\ K[j] = key[j]
    OBVIOUS
  <2> QED BY <1>3, <1>6, <1>7, <2>1 DEF KeysUnique, IInv
<1>10. Counted'
  <2>1. Occupied' \subseteq Occupied \cup {i}
    BY <1>3, <1>7 DEF Occupied
  <2>2. Occupied \in SUBSET (0 .. size - 1) /\ size \in Nat /\ n \in Nat
    BY DEF Occupied, Slots, IInv, TypeOK
  <2>3. IsFiniteSet(Occupied) /\ Cardinality(Occupied) \in Nat
    BY <2>2, SlotSets
  <2>4. /\ IsFiniteSet(Occupied \cup {i})
        /\ Cardinality(Occupied \cup {i}) <= Cardinality(Occupied) + 1
    <3>1. Cardinality(Occupied \cup {i}) \in {Cardinality(Occupied), Cardinality(Occupied) + 1}
      BY <2>3, FS_AddElement
    <3>2. IsFiniteSet(Occupied \cup {i})
      BY <2>3, FS_AddElement
    <3> QED BY <2>3, <3>1, <3>2
  <2>5. /\ Cardinality(Occupied \cup {i}) \in Nat
        /\ IsFiniteSet(Occupied')
        /\ Cardinality(Occupied') \in Nat
        /\ Cardinality(Occupied') <= Cardinality(Occupied \cup {i})
    BY <2>1, <2>4, FS_Subset, FS_CardinalityType
  <2>6. Cardinality(Occupied) <= n
    BY DEF IInv, Counted
  <2> QED BY <1>2, <2>2, <2>3, <2>4, <2>5, <2>6 DEF Counted
<1> QED BY <1>5, <1>8, <1>9, <1>10 DEF IInv

(* The arrays that dictionary_set inserts into have room.                  *)
LEMMA SetAddStep ==
  ASSUME IInv, NEW k \in Key, NEW v \in Val \cup {Null}, state = "ok", SetAdd(k, v)
  PROVE  IInv'
<1>1. Found(k) = {}
  BY PresentIsFound DEF SetAdd
<1>2. /\ size \in Nat /\ n \in Nat /\ n <= size /\ 0 < size
      /\ key \in [0 .. size - 1 -> Key \cup {Null}]
      /\ val \in [0 .. size - 1 -> Val \cup {Null}]
      /\ hash \in [0 .. size - 1 -> Nat]
  BY DEF IInv, TypeOK, Counted, Slots
<1>3. CASE n = size
  <2> DEFINE K == mem_double(key, Null)
             V == mem_double(val, Null)
             H == mem_double(hash, 0)
  <2>1. /\ K \in [0 .. 2 * size - 1 -> Key \cup {Null}]
        /\ V \in [0 .. 2 * size - 1 -> Val \cup {Null}]
        /\ H \in [0 .. 2 * size - 1 -> Nat]
    BY <1>2 DEF mem_double, Slots
  <2>2. \A i \in 0 .. 2 * size - 1 :
          IF i \in Slots THEN K[i] = key[i] /\ V[i] = val[i] /\ H[i] = hash[i]
                         ELSE K[i] = Null
    BY DEF mem_double
  <2>3. Insert(K, V, H, 2 * size, k, v)
    BY <1>3 DEF SetAdd
  <2>4. 2 * size \in Nat /\ size <= 2 * size /\ n < 2 * size
    BY <1>2, <1>3
  <2> HIDE DEF K, V, H
  <2> QED BY <1>1, <2>1, <2>2, <2>3, <2>4, InsertStep
<1>4. CASE n # size
  <2>1. Insert(key, val, hash, size, k, v)
    BY <1>4 DEF SetAdd
  <2>2. n < size
    BY <1>2, <1>4
  <2>3. \A i \in 0 .. size - 1 :
          IF i \in Slots THEN key[i] = key[i] /\ val[i] = val[i] /\ hash[i] = hash[i]
                         ELSE key[i] = Null
    BY DEF Slots
  <2>4. size <= size
    BY <1>2
  <2> QED BY <1>1, <1>2, <2>1, <2>2, <2>3, <2>4, InsertStep
<1> QED BY <1>3, <1>4

(* dictionary_unset frees one slot and counts it.                          *)
LEMMA UnsetStep ==
  ASSUME IInv, NEW k \in Key, dictionary_unset(k)
  PROVE  IInv'
<1>1. CASE UnsetAbsent(k)
  BY <1>1 DEF dictionary_unset, UnsetAbsent, IInv, TypeOK, HashesMatch,
              KeysUnique, Counted, Occupied, Slots
<1>2. CASE UnsetFound(k)
  <2>1. PICK i \in Found(k) :
          /\ key' = [key EXCEPT ![i] = Null]
          /\ val' = [val EXCEPT ![i] = Null]
          /\ hash' = [hash EXCEPT ![i] = 0]
    BY <1>2 DEF UnsetFound
  <2>2. n' = n - 1 /\ ret' = "ok" /\ UNCHANGED <<state, size>>
    BY <1>2 DEF UnsetFound
  <2>3. i \in Slots /\ key[i] = k /\ k # Null
    BY FoundIs, StringsAssumption
  <2>4. Slots' = Slots
    BY <2>2 DEF Slots
  <2>5. Occupied' = Occupied \ {i} /\ i \in Occupied
    BY <2>1, <2>3, <2>4 DEF Occupied, IInv, TypeOK
  <2>6. /\ IsFiniteSet(Occupied) /\ Cardinality(Occupied) \in Nat
        /\ Cardinality(Occupied) <= n /\ n \in Nat /\ n <= size /\ size \in Nat
    <3>1. Occupied \in SUBSET (0 .. size - 1) /\ size \in Nat /\ n \in Nat
      BY DEF Occupied, Slots, IInv, TypeOK
    <3> QED BY <3>1, SlotSets DEF IInv, Counted
  <2>7. Cardinality(Occupied') = Cardinality(Occupied) - 1
        /\ Cardinality(Occupied') \in Nat
    BY <2>5, <2>6, FS_RemoveElement, FS_CardinalityType
  <2>8. n' \in Nat /\ Counted'
    BY <2>2, <2>6, <2>7 DEF Counted
  <2>9. TypeOK'
    BY <2>1, <2>2, <2>3, <2>4, <2>8 DEF IInv, TypeOK
  <2>10. HashesMatch' /\ KeysUnique'
    BY <2>1, <2>3, <2>4 DEF IInv, TypeOK, HashesMatch, KeysUnique
  <2> QED BY <2>8, <2>9, <2>10 DEF IInv
<1> QED BY <1>1, <1>2 DEF dictionary_unset

(* Arrays without a key satisfy the invariant.                             *)
LEMMA EmptyArrays ==
  ASSUME NEW m \in Nat, size' = m, n' = 0, state' \in {"none", "ok", "lost"},
         state' = "ok" => 0 < m, ret' = "ok",
         key' = [i \in 0 .. m - 1 |-> Null],
         val' = [i \in 0 .. m - 1 |-> Null],
         hash' = [i \in 0 .. m - 1 |-> 0]
  PROVE  IInv'
<1>1. TypeOK'
  BY DEF TypeOK, Slots
<1>2. Occupied' = {}
  BY DEF Occupied, Slots
<1>3. Cardinality(Occupied') = 0
  BY <1>2, FS_EmptySet
<1>4. Counted'
  BY <1>3 DEF Counted
<1>5. HashesMatch' /\ KeysUnique'
  BY DEF HashesMatch, KeysUnique, Slots
<1> QED BY <1>1, <1>4, <1>5 DEF IInv

(* Every call keeps the invariant, whichever of its allocations fail.      *)
LEMMA IInvStep ==
  ASSUME IInv, [Next]_vars
  PROVE  IInv'
<1>1. CASE dictionary_new(0)
  <2> DEFINE sz == IF 0 < DICTMINSZ THEN DICTMINSZ ELSE 0
  <2>1. sz \in Nat /\ 0 < sz
    BY SizesAssumption
  <2>2. /\ size' = sz /\ n' = 0 /\ ret' = "ok"
        /\ key' = [i \in 0 .. sz - 1 |-> Null]
        /\ val' = [i \in 0 .. sz - 1 |-> Null]
        /\ hash' = [i \in 0 .. sz - 1 |-> 0]
    BY <1>1 DEF dictionary_new
  <2>3. state' \in {"none", "ok", "lost"}
    BY <1>1 DEF dictionary_new
  <2> HIDE DEF sz
  <2> QED BY <2>1, <2>2, <2>3, EmptyArrays
<1>2. CASE dictionary_del
  BY <1>2, EmptyArrays DEF dictionary_del
<1>3. ASSUME NEW k \in Key, NEW v \in Val \cup {Null}, dictionary_get(k, v)
      PROVE  IInv'
  <2>1. ret' \in Val \cup {Null}
    <3>1. \A i \in Found(k) : val[i] \in Val \cup {Null}
      BY FoundIs DEF IInv, TypeOK
    <3> QED BY <1>3, <3>1 DEF dictionary_get
  <2>2. UNCHANGED <<state, size, n, key, val, hash>>
    BY <1>3 DEF dictionary_get
  <2> QED BY <2>1, <2>2 DEF IInv, TypeOK, HashesMatch, KeysUnique, Counted,
                            Occupied, Slots
<1>4. ASSUME NEW k \in Key, NEW v \in Val \cup {Null}, dictionary_set(k, v)
      PROVE  IInv'
  <2>1. CASE SetAdd(k, v)
    BY <1>4, <2>1, SetAddStep DEF dictionary_set
  <2>2. CASE SetFail(k, v)
    BY <2>2 DEF SetFail, IInv, TypeOK, HashesMatch, KeysUnique, Counted,
                Occupied, Slots
  <2>3. CASE SetReplace(k, v)
    <3>1. PICK i \in Present(k), t \in Val \cup {Null} :
            val' = [val EXCEPT ![i] = t]
      BY <2>3 DEF SetReplace, xstrdup
    <3>2. UNCHANGED <<state, size, n, key, hash>> /\ ret' = "ok"
      BY <2>3 DEF SetReplace
    <3>3. TypeOK'
      BY <3>1, <3>2 DEF IInv, TypeOK, Slots
    <3> QED BY <3>2, <3>3 DEF IInv, HashesMatch, KeysUnique, Counted,
                              Occupied, Slots
  <2> QED BY <1>4, <2>1, <2>2, <2>3 DEF dictionary_set
<1>5. ASSUME NEW k \in Key, dictionary_unset(k) PROVE IInv'
  BY <1>5, UnsetStep
<1>6. CASE UNCHANGED vars
  BY <1>6 DEF vars, IInv, TypeOK, HashesMatch, KeysUnique, Counted,
              Occupied, Slots
<1> QED BY <1>1, <1>2, <1>3, <1>4, <1>5, <1>6 DEF Next

(* A new dictionary has no key and n = 0.                                  *)
LEMMA IInvInit == Init => IInv
<1> SUFFICES ASSUME Init PROVE IInv
  OBVIOUS
<1>1. size = 0 /\ n = 0 /\ state = "none" /\ ret = "ok" /\ Slots = {}
  BY DEF Init, Slots
<1>2. Occupied = {}
  BY <1>1 DEF Occupied
<1>3. Cardinality(Occupied) = 0
  BY <1>2, FS_EmptySet
<1> QED BY <1>1, <1>3 DEF Init, IInv, TypeOK, HashesMatch, KeysUnique, Counted

(* The inductive invariant holds in every reachable state.                 *)
THEOREM Invariance == Spec => []IInv
BY IInvInit, IInvStep, PTL DEF Spec

(* Every variable keeps its type.                                          *)
THEOREM TypeCorrect == Spec => []TypeOK
<1>1. IInv => TypeOK
  BY DEF IInv
<1> QED BY <1>1, Invariance, PTL

(* dictionary_set never writes past the arrays.                            *)
THEOREM SlotAlwaysFound == Spec => []SlotFound
<1>1. IInv => SlotFound
  <2> SUFFICES ASSUME IInv, state = "ok"
               PROVE  n <= size /\ (n < size => Occupied # Slots)
    BY DEF SlotFound
  <2>1. Occupied \in SUBSET (0 .. size - 1) /\ size \in Nat /\ n \in Nat
    BY DEF Occupied, Slots, IInv, TypeOK
  <2>2. Cardinality(Occupied) <= n /\ n <= size
    BY DEF IInv, Counted
  <2>3. Cardinality(Occupied) \in Nat
    BY <2>1, SlotSets
  <2>4. Cardinality(Occupied) < size => \E i \in 0 .. size - 1 : i \notin Occupied
    BY <2>1, SlotSets
  <2> QED BY <2>1, <2>2, <2>3, <2>4 DEF Slots
<1> QED BY <1>1, Invariance, PTL

(* No key is stored in two slots.                                          *)
THEOREM KeysAreUnique == Spec => []KeysUnique
<1>1. IInv => KeysUnique
  BY DEF IInv
<1> QED BY <1>1, Invariance, PTL

(* n = 0 means that there is nothing to find.                              *)
THEOREM DumpIsComplete == Spec => []DumpComplete
<1>1. IInv => DumpComplete
  <2> SUFFICES ASSUME IInv, n < 1 PROVE Occupied = {}
    BY DEF DumpComplete, dictionary_dump, Occupied
  <2>1. Occupied \in SUBSET (0 .. size - 1) /\ size \in Nat /\ n = 0
    BY DEF Occupied, Slots, IInv, TypeOK
  <2>2. IsFiniteSet(Occupied) /\ Cardinality(Occupied) \in Nat
    BY <2>1, SlotSets
  <2>3. Cardinality(Occupied) = 0
    BY <2>1, <2>2 DEF IInv, Counted
  <2> QED BY <2>2, <2>3, FS_EmptySet
<1> QED BY <1>1, Invariance, PTL

-----------------------------------------------------------------------------
(* The dictionary is a map when allocations succeed.                       *)

(* The value of a stored key is the one in its slot.                       *)
LEMMA MapOfSlot ==
  ASSUME NEW S, NEW K, NEW V, NEW i \in S, K[i] \in Key,
         \A j \in S : K[j] = K[i] => j = i
  PROVE  MapOf(K, V, S)[K[i]] = V[i]
<1>1. (CHOOSE j \in S : K[j] = K[i]) = i
  OBVIOUS
<1> QED BY <1>1 DEF MapOf

(* A key that is not stored is absent from the map.                        *)
LEMMA MapOfAbsent ==
  ASSUME NEW S, NEW K, NEW V, NEW k \in Key, \A i \in S : K[i] # k
  PROVE  MapOf(K, V, S)[k] = Absent
BY DEF MapOf

(* A step that leaves the arrays alone leaves the map alone.               *)
LEMMA MapUnchanged ==
  ASSUME UNCHANGED <<key, val, size>>
  PROVE  Map' = Map
BY DEF Map, Slots

(* dictionary_get answers from the map.                                    *)
LEMMA GetMaps ==
  ASSUME IInv, NEW k \in Key, NEW v \in Val \cup {Null}, dictionary_get(k, v)
  PROVE  Store!Get(k, v)
<1>1. Map' = Map /\ call' = <<"get", k, v>>
  BY MapUnchanged DEF dictionary_get
<1>2. CASE Found(k) = {}
  <2>1. Map[k] = Absent
    BY <1>2, FoundIs, MapOfAbsent DEF Map
  <2> QED BY <1>1, <1>2, <2>1 DEF dictionary_get, Store!Get
<1>3. CASE Found(k) # {}
  <2>1. PICK i \in Found(k) : ret' = val[i]
    BY <1>3 DEF dictionary_get
  <2>2. i \in Slots /\ key[i] = k /\ k # Null
    BY FoundIs, StringsAssumption
  <2>3. Map[key[i]] = val[i]
    BY <2>2, MapOfSlot DEF Map, IInv, KeysUnique
  <2>4. val[i] # Absent
    BY <2>2, StringsAssumption DEF IInv, TypeOK
  <2> QED BY <1>1, <2>1, <2>2, <2>3, <2>4 DEF Store!Get
<1> QED BY <1>2, <1>3

(* A key put into slot i, where no other slot holds it, changes the map at *)
(* that key only.                                                          *)
LEMMA PutMaps ==
  ASSUME IInv, IInv', NEW k \in Key, NEW v \in Val \cup {Null},
         NEW i \in Slots', key'[i] = k, val'[i] = v,
         \A j \in Slots : key[j] = k => j = i,
         \A j \in Slots' : j # i =>
           \/ j \in Slots /\ key'[j] = key[j] /\ val'[j] = val[j]
           \/ j \notin Slots /\ key'[j] = Null,
         \A j \in Slots : j \in Slots',
         i \in Slots => key[i] \in {k, Null}
  PROVE  Map' = [Map EXCEPT ![k] = v]
<1>1. ASSUME NEW l \in Key PROVE Map'[l] = IF l = k THEN v ELSE Map[l]
  <2>0. l # Null /\ k # Null
    BY StringsAssumption
  <2>1. /\ \A j, m \in Slots : key[j] = l /\ key[m] = l => j = m
        /\ \A j, m \in Slots' : key'[j] = l /\ key'[m] = l => j = m
        /\ \A j, m \in Slots' : key'[j] = k /\ key'[m] = k => j = m
    BY <2>0 DEF IInv, KeysUnique
  <2>2. CASE l = k
    <3>1. MapOf(key', val', Slots')[key'[i]] = val'[i]
      BY <2>1, MapOfSlot
    <3> QED BY <2>2, <3>1 DEF Map
  <2>3. CASE l # k
    <3>1. \A j \in Slots : key[j] = l => j \in Slots' /\ key'[j] = l /\ val'[j] = val[j]
      BY <2>0, <2>3
    <3>2. \A j \in Slots' : key'[j] = l => j \in Slots /\ key[j] = l
      BY <2>0, <2>3
    <3>3. CASE \A j \in Slots : key[j] # l
      <4>1. MapOf(key, val, Slots)[l] = Absent
        BY <3>3, MapOfAbsent
      <4>2. MapOf(key', val', Slots')[l] = Absent
        BY <3>2, <3>3, MapOfAbsent
      <4> QED BY <2>3, <4>1, <4>2 DEF Map
    <3>4. ASSUME NEW j \in Slots, key[j] = l PROVE Map'[l] = Map[l]
      <4>1. MapOf(key, val, Slots)[key[j]] = val[j]
        BY <2>1, <3>4, MapOfSlot
      <4>2. j \in Slots' /\ key'[j] = l /\ val'[j] = val[j]
        BY <3>1, <3>4
      <4>3. MapOf(key', val', Slots')[key'[j]] = val'[j]
        BY <2>1, <4>2, MapOfSlot
      <4> QED BY <3>4, <4>1, <4>2, <4>3 DEF Map
    <3> QED BY <2>3, <3>3, <3>4
  <2> QED BY <2>2, <2>3
<1>2. Map = [l \in Key |-> Map[l]] /\ Map' = [l \in Key |-> Map'[l]]
  BY DEF Map, MapOf
<1> QED BY <1>1, <1>2

(* A slot that was free and stays without a key changes nothing.           *)
LEMMA LostMaps ==
  ASSUME IInv, IInv', NEW i \in Slots', key'[i] = Null,
         \A j \in Slots' : j # i =>
           \/ j \in Slots /\ key'[j] = key[j] /\ val'[j] = val[j]
           \/ j \notin Slots /\ key'[j] = Null,
         \A j \in Slots : j \in Slots',
         i \in Slots => key[i] = Null
  PROVE  Map' = Map
<1>1. ASSUME NEW l \in Key PROVE Map'[l] = Map[l]
  <2>0. l # Null
    BY StringsAssumption
  <2>1. /\ \A j, m \in Slots : key[j] = l /\ key[m] = l => j = m
        /\ \A j, m \in Slots' : key'[j] = l /\ key'[m] = l => j = m
    BY <2>0 DEF IInv, KeysUnique
  <2>2. \A j \in Slots : key[j] = l => j \in Slots' /\ key'[j] = l /\ val'[j] = val[j]
    BY <2>0
  <2>3. \A j \in Slots' : key'[j] = l => j \in Slots /\ key[j] = l
    BY <2>0
  <2>4. CASE \A j \in Slots : key[j] # l
    <3>1. MapOf(key, val, Slots)[l] = Absent
      BY <2>4, MapOfAbsent
    <3>2. MapOf(key', val', Slots')[l] = Absent
      BY <2>3, <2>4, MapOfAbsent
    <3> QED BY <3>1, <3>2 DEF Map
  <2>5. ASSUME NEW j \in Slots, key[j] = l PROVE Map'[l] = Map[l]
    <3>1. MapOf(key, val, Slots)[key[j]] = val[j]
      BY <2>1, <2>5, MapOfSlot
    <3>2. j \in Slots' /\ key'[j] = l /\ val'[j] = val[j]
      BY <2>2, <2>5
    <3>3. MapOf(key', val', Slots')[key'[j]] = val'[j]
      BY <2>1, <3>2, MapOfSlot
    <3> QED BY <2>5, <3>1, <3>2, <3>3 DEF Map
  <2> QED BY <2>4, <2>5
<1>2. Map = [l \in Key |-> Map[l]] /\ Map' = [l \in Key |-> Map'[l]]
  BY DEF Map, MapOf
<1> QED BY <1>1, <1>2

(* dictionary_set is an insertion into the map, or one that lacks memory.  *)
LEMMA SetMaps ==
  ASSUME IInv, IInv', NEW k \in Key, NEW v \in Val \cup {Null},
         dictionary_set(k, v)
  PROVE  Store!Put(k, v) \/ Store!PutShort(k, v) \/ Store!Refuse(k, v)
<1>1. call' = <<"set", k, v>>
  BY DEF dictionary_set
<1>2. /\ \A s \in xstrdup(k) : s = k \/ (s = Null /\ AllocFails)
      /\ \A t \in xstrdup(v) : t = v \/ (t = Null /\ AllocFails)
      /\ FALSE \in calloc => AllocFails
  BY DEF xstrdup, calloc
<1>3. CASE SetReplace(k, v)
  <2>1. PICK i \in Found(k), t \in xstrdup(v) : val' = [val EXCEPT ![i] = t]
    BY <1>3, PresentIsFound DEF SetReplace
  <2>0. t \in Val \cup {Null}
    BY <1>2
  <2>2. UNCHANGED <<size, key>> /\ ret' = "ok"
    BY <1>3 DEF SetReplace
  <2>3. i \in Slots /\ key[i] = k /\ Slots' = Slots /\ k # Null
    BY <2>2, FoundIs, StringsAssumption DEF Slots
  <2>4. \A j \in Slots : key[j] = k => j = i
    BY <2>3 DEF IInv, KeysUnique
  <2>5. val'[i] = t /\ \A j \in Slots : j # i => val'[j] = val[j]
    BY <2>1, <2>3 DEF IInv, TypeOK
  <2>6. Map' = [Map EXCEPT ![k] = t]
    BY <2>0, <2>2, <2>3, <2>4, <2>5, PutMaps
  <2> QED BY <1>1, <1>2, <2>1, <2>2, <2>6 DEF Store!Put, Store!PutShort
<1>4. CASE SetAdd(k, v)
  <2>1. Found(k) = {}
    BY <1>4, PresentIsFound DEF SetAdd
  <2>2. \A j \in Slots : key[j] # k
    BY <2>1, FoundIs
  <2>3. /\ size \in Nat
        /\ key \in [0 .. size - 1 -> Key \cup {Null}]
        /\ val \in [0 .. size - 1 -> Val \cup {Null}]
    BY DEF IInv, TypeOK, Slots
  <2>4. ASSUME NEW K, NEW V, NEW H, NEW sz \in Nat, size <= sz,
               K \in [0 .. sz - 1 -> Key \cup {Null}],
               V \in [0 .. sz - 1 -> Val \cup {Null}],
               \A j \in 0 .. sz - 1 :
                 IF j \in Slots THEN K[j] = key[j] /\ V[j] = val[j]
                                ELSE K[j] = Null,
               Insert(K, V, H, sz, k, v)
        PROVE  Store!Put(k, v) \/ Store!PutShort(k, v)
    <3>1. PICK i \in 0 .. sz - 1, s \in xstrdup(k), t \in xstrdup(v) :
            /\ K[i] = Null
            /\ key' = [K EXCEPT ![i] = s]
            /\ val' = [V EXCEPT ![i] = t]
      BY <2>4 DEF Insert, Lowest
    <3>0. t \in Val \cup {Null}
      BY <1>2
    <3>2. Slots' = 0 .. sz - 1 /\ ret' = "ok" /\ \A j \in Slots : j \in 0 .. sz - 1
      BY <2>3, <2>4 DEF Insert, Slots
    <3>3. key'[i] = s /\ val'[i] = t
      BY <2>4, <3>1
    <3>4. \A j \in 0 .. sz - 1 : j # i => key'[j] = K[j] /\ val'[j] = V[j]
      BY <2>4, <3>1
    <3>5. i \in Slots => key[i] = Null
      BY <2>4, <3>1
    <3>6. \A j \in Slots' : j # i =>
            \/ j \in Slots /\ key'[j] = key[j] /\ val'[j] = val[j]
            \/ j \notin Slots /\ key'[j] = Null
      BY <2>4, <3>2, <3>4
    <3>7. CASE s = k
      <4>1. Map' = [Map EXCEPT ![k] = t]
        BY <2>2, <3>0, <3>2, <3>3, <3>5, <3>6, <3>7, PutMaps
      <4> QED BY <1>1, <1>2, <3>1, <3>2, <4>1 DEF Store!Put, Store!PutShort
    <3>8. CASE s = Null /\ AllocFails
      <4>1. Map' = Map
        BY <3>2, <3>3, <3>5, <3>6, <3>8, LostMaps
      <4>2. Map[k] = Absent
        BY <2>2, MapOfAbsent DEF Map
      <4> QED BY <1>1, <3>2, <3>8, <4>1, <4>2 DEF Store!PutShort
    <3> QED BY <1>2, <3>1, <3>7, <3>8
  <2>5. CASE n = size
    <3> DEFINE K == mem_double(key, Null)
               V == mem_double(val, Null)
               H == mem_double(hash, 0)
    <3>1. /\ K \in [0 .. 2 * size - 1 -> Key \cup {Null}]
          /\ V \in [0 .. 2 * size - 1 -> Val \cup {Null}]
      BY <2>3 DEF mem_double, Slots
    <3>2. \A j \in 0 .. 2 * size - 1 :
            IF j \in Slots THEN K[j] = key[j] /\ V[j] = val[j] ELSE K[j] = Null
      BY DEF mem_double
    <3>3. Insert(K, V, H, 2 * size, k, v)
      BY <1>4, <2>5 DEF SetAdd
    <3>4. 2 * size \in Nat /\ size <= 2 * size
      BY <2>3
    <3> HIDE DEF K, V, H
    <3> QED BY <2>4, <3>1, <3>2, <3>3, <3>4
  <2>6. CASE n # size
    <3>1. Insert(key, val, hash, size, k, v)
      BY <1>4, <2>6 DEF SetAdd
    <3>2. \A j \in 0 .. size - 1 :
            IF j \in Slots THEN key[j] = key[j] /\ val[j] = val[j]
                           ELSE key[j] = Null
      BY DEF Slots
    <3>3. size <= size
      BY <2>3
    <3> QED BY <2>3, <2>4, <3>1, <3>2, <3>3
  <2> QED BY <2>5, <2>6
<1>5. CASE SetFail(k, v)
  <2>1. Map' = Map /\ ret' = "fail" /\ AllocFails
    BY <1>2, <1>5, MapUnchanged DEF SetFail
  <2> QED BY <1>1, <2>1 DEF Store!Refuse
<1> QED BY <1>3, <1>4, <1>5 DEF dictionary_set

(* dictionary_unset is a removal from the map.                             *)
LEMMA UnsetMaps ==
  ASSUME IInv, NEW k \in Key, dictionary_unset(k)
  PROVE  Store!Remove(k)
<1>1. call' = <<"unset", k>> /\ ret' = "ok"
  BY DEF dictionary_unset, UnsetFound, UnsetAbsent
<1>2. Slots' = Slots /\ k # Null
  BY StringsAssumption DEF dictionary_unset, UnsetFound, UnsetAbsent, Slots
<1>3. ASSUME NEW l \in Key PROVE Map'[l] = IF l = k THEN Absent ELSE Map[l]
  <2>0. /\ \A j \in Slots : key[j] # k => key'[j] = key[j] /\ val'[j] = val[j]
        /\ \A j \in Slots : key[j] = k => key'[j] = Null
    <3>1. CASE UnsetAbsent(k)
      BY <3>1, FoundIs DEF UnsetAbsent
    <3>2. CASE UnsetFound(k)
      <4>1. PICK i \in Found(k) : /\ key' = [key EXCEPT ![i] = Null]
                                 /\ val' = [val EXCEPT ![i] = Null]
        BY <3>2 DEF UnsetFound
      <4>2. i \in Slots /\ key[i] = k /\ \A j \in Slots : key[j] = k => j = i
        BY <1>2, FoundIs DEF IInv, KeysUnique
      <4> QED BY <4>1, <4>2 DEF IInv, TypeOK
    <3> QED BY <3>1, <3>2 DEF dictionary_unset
  <2>1. \A j \in Slots : key'[j] # k
    BY <2>0, <1>2
  <2>2. \A j \in Slots : key[j] # k => key'[j] = key[j] /\ val'[j] = val[j]
    BY <2>0
  <2>3. \A j \in Slots : key[j] = k => key'[j] = Null
    BY <2>0
  <2>4. CASE l = k
    BY <1>2, <2>1, <2>4, MapOfAbsent DEF Map
  <2>5. CASE l # k
    <3>0. l # Null
      BY StringsAssumption
    <3>1. CASE \A j \in Slots : key[j] # l
      <4>1. \A j \in Slots' : key'[j] # l
        BY <1>2, <2>2, <2>3, <3>0, <3>1
      <4>2. MapOf(key, val, Slots)[l] = Absent
        BY <3>1, MapOfAbsent
      <4>3. MapOf(key', val', Slots')[l] = Absent
        BY <4>1, MapOfAbsent
      <4> QED BY <2>5, <4>2, <4>3 DEF Map
    <3>2. ASSUME NEW j \in Slots, key[j] = l PROVE Map'[l] = Map[l]
      <4>1. \A m \in Slots : key[m] = key[j] => m = j
        BY <3>0, <3>2 DEF IInv, KeysUnique
      <4>2. \A m \in Slots' : key'[m] = key'[j] => m = j
        BY <1>2, <2>2, <2>3, <2>5, <3>0, <3>2, <4>1
      <4>3. key'[j] = l /\ val'[j] = val[j]
        BY <2>2, <2>5, <3>2
      <4>4. MapOf(key, val, Slots)[key[j]] = val[j]
        BY <3>2, <4>1, MapOfSlot
      <4>5. MapOf(key', val', Slots')[key'[j]] = val'[j]
        BY <1>2, <4>2, <4>3, MapOfSlot
      <4> QED BY <3>2, <4>3, <4>4, <4>5 DEF Map
    <3> QED BY <2>5, <3>1, <3>2
  <2> QED BY <2>4, <2>5
<1>4. Map = [l \in Key |-> Map[l]] /\ Map' = [l \in Key |-> Map'[l]]
  BY DEF Map, MapOf
<1>5. Map' = [Map EXCEPT ![k] = Absent]
  BY <1>3, <1>4
<1> QED BY <1>1, <1>5 DEF Store!Remove

(* A dictionary is a map, with or without failures of the allocator:       *)
(* initial states map to initial states, and every call to the same call   *)
(* of the map.                                                             *)
THEOREM MapImplemented == Spec => ImplementsMap
<1>0. ASSUME \A i \in Slots : key[i] = Null PROVE Map = Store!Empty
  BY <1>0, StringsAssumption DEF Map, MapOf, Store!Empty
<1>1. Init => Store!MapInit
  <2> SUFFICES ASSUME Init PROVE Store!MapInit
    OBVIOUS
  <2>1. \A i \in Slots : key[i] = Null
    BY DEF Init
  <2> QED BY <1>0, <2>1 DEF Init, Store!MapInit
<1>2. IInv /\ IInv' /\ [Next]_vars => [Store!MapNext]_(Store!mapVars)
  <2> SUFFICES ASSUME IInv, IInv', [Next]_vars
               PROVE  [Store!MapNext]_(Store!mapVars)
    OBVIOUS
  <2>1. CASE dictionary_new(0)
    <3>1. \A i \in Slots' : key'[i] = Null
      BY <2>1 DEF dictionary_new, Slots
    <3>2. Map' = Store!Empty
      BY <3>1, StringsAssumption DEF Map, MapOf, Store!Empty
    <3>3. Store!New
      BY <2>1, <3>2 DEF dictionary_new, Store!New, Store!Empty
    <3> QED BY <3>3 DEF Store!MapNext
  <2>2. CASE dictionary_del
    <3>1. \A i \in Slots' : key'[i] = Null
      BY <2>2 DEF dictionary_del, Slots
    <3>2. Map' = Store!Empty
      BY <3>1, StringsAssumption DEF Map, MapOf, Store!Empty
    <3>3. Store!Del
      BY <2>2, <3>2 DEF dictionary_del, Store!Del, Store!Empty
    <3> QED BY <3>3 DEF Store!MapNext
  <2>3. ASSUME NEW k \in Key, NEW v \in Val \cup {Null}, dictionary_get(k, v)
        PROVE  Store!MapNext
    BY <2>3, GetMaps DEF Store!MapNext
  <2>4. ASSUME NEW k \in Key, NEW v \in Val \cup {Null}, dictionary_set(k, v)
        PROVE  Store!MapNext
    BY <2>4, SetMaps DEF Store!MapNext
  <2>5. ASSUME NEW k \in Key, dictionary_unset(k) PROVE Store!MapNext
    BY <2>5, UnsetMaps DEF Store!MapNext
  <2>6. CASE UNCHANGED vars
    BY <2>6, MapUnchanged DEF vars, Store!mapVars
  <2> QED BY <2>1, <2>2, <2>3, <2>4, <2>5, <2>6 DEF Next
<1> QED BY <1>1, <1>2, Invariance, PTL DEF Spec, ImplementsMap, Store!MapSpec
=============================================================================
