----------------------------- MODULE Dictionary -----------------------------
(***************************************************************************)
(* c/libgs/dictionary/dictionary.c, of which confparser holds three more   *)
(* copies: the table of strings behind the configuration files.            *)
(*                                                                         *)
(* A dictionary has three parallel arrays, key, val and hash, searched     *)
(* from slot 0; a slot without a key is free.  The field n decides when    *)
(* the arrays are doubled and whether a search is needed at all, so that   *)
(* the code is right only if n never falls behind the slots in use.        *)
(*                                                                         *)
(* Strings are members of Key and Val.  The hash is a parameter: keys may  *)
(* collide.                                                                *)
(***************************************************************************)
EXTENDS Integers, FiniteSets

CONSTANTS
  Key, Val,     \* strings
  Null,         \* the null pointer
  Absent,       \* mark of a key that is not stored
  Hash,         \* dictionary_hash
  DICTMINSZ,    \* least number of slots
  MaxSize,      \* bound: slots after the last doubling
  AllocFails    \* TRUE: malloc and calloc may fail

ASSUME StringsAssumption ==
  /\ Null \notin Key \cup Val
  /\ Absent \notin Val \cup {Null}

ASSUME HashAssumption == Hash \in [Key -> Nat]

ASSUME SizesAssumption ==
  /\ DICTMINSZ \in Nat \ {0}
  /\ MaxSize \in Nat
  /\ AllocFails \in BOOLEAN

VARIABLES
  state,   \* "none": not allocated; "lost": an array is a null pointer
  size,    \* slots of the arrays
  n,       \* entries, as the code counts them
  key,     \* the key of each slot
  val,     \* the value of each slot
  hash,    \* the hash of each slot's key
  call,    \* the last call, with its arguments
  ret      \* what it returned

vars == <<state, size, n, key, val, hash, call, ret>>

Slots == 0 .. size - 1

(* What is known of every further call on a lost dictionary is that it     *)
(* reads through a null pointer as soon as it touches the missing array:   *)
(* the model ends there.                                                   *)
Init ==
  /\ state = "none"
  /\ size = 0
  /\ n = 0
  /\ key = [i \in Slots |-> Null]
  /\ val = [i \in Slots |-> Null]
  /\ hash = [i \in Slots |-> 0]
  /\ call = <<"init">>
  /\ ret = "ok"

-----------------------------------------------------------------------------
Lowest(S) == {i \in S : \A j \in S : i <= j}

(* Mutant of Found: the strings are not compared.                          *)
FoundByHash(k) == Lowest({i \in Slots : key[i] # Null /\ hash[i] = Hash[k]})

(* The slot the search loops stop at: the hashes are compared first, the   *)
(* strings only if they are equal.                                         *)
Found(k) ==
  Lowest({i \in Slots : key[i] # Null /\ hash[i] = Hash[k] /\ key[i] = k})

(* The results of duplicating the string s.                                *)
xstrdup(s) == {s} \cup IF AllocFails THEN {Null} ELSE {}

(* calloc of an array: may it succeed, may it fail.                        *)
calloc == {TRUE} \cup IF AllocFails THEN {FALSE} ELSE {}

(* The new slots of an array that grows are zero bytes.                    *)
mem_double(a, zero) ==
  [i \in 0 .. 2 * size - 1 |-> IF i \in Slots THEN a[i] ELSE zero]

dictionary_new(s) ==
  LET sz == IF s < DICTMINSZ THEN DICTMINSZ ELSE s
  IN /\ state = "none"
     /\ \E ok \in calloc : state' = IF ok THEN "ok" ELSE "lost"
     /\ size' = sz
     /\ n' = 0
     /\ key' = [i \in 0 .. sz - 1 |-> Null]
     /\ val' = [i \in 0 .. sz - 1 |-> Null]
     /\ hash' = [i \in 0 .. sz - 1 |-> 0]
     /\ call' = <<"new">>
     /\ ret' = "ok"

dictionary_del ==
  /\ state = "ok"
  /\ call' = <<"del">>
  /\ state' = "none"
  /\ size' = 0
  /\ n' = 0
  /\ key' = [i \in 0 .. -1 |-> Null]
  /\ val' = [i \in 0 .. -1 |-> Null]
  /\ hash' = [i \in 0 .. -1 |-> 0]
  /\ ret' = "ok"

dictionary_get(k, def) ==
  /\ state = "ok"
  /\ call' = <<"get", k, def>>
  /\ \/ Found(k) = {} /\ ret' = def
     \/ \E i \in Found(k) : ret' = val[i]
  /\ UNCHANGED <<state, size, n, key, val, hash>>

(* Mutant of Present: off by one, a single entry is not searched for.      *)
PresentOverOne(k) == IF n > 1 THEN Found(k) ELSE {}

(* The slot whose value dictionary_set replaces: the search is skipped     *)
(* when n is 0.                                                            *)
Present(k) == IF n > 0 THEN Found(k) ELSE {}

SetReplace(k, v) ==
  /\ \E i \in Present(k), t \in xstrdup(v) : val' = [val EXCEPT ![i] = t]
  /\ ret' = "ok"
  /\ UNCHANGED <<state, size, n, key, hash>>

(* The arrays cannot be doubled: some of them are gone.                    *)
SetFail(k, v) ==
  /\ Present(k) = {}
  /\ n = size
  /\ FALSE \in calloc
  /\ state' = "lost"
  /\ ret' = "fail"
  /\ UNCHANGED <<size, n, key, val, hash>>

(* Mutant of Insert: n is not incremented.                                 *)
InsertUncounted(K, V, H, sz, k, v) ==
  /\ \E i \in Lowest({j \in 0 .. sz - 1 : K[j] = Null}),
        s \in xstrdup(k), t \in xstrdup(v) :
       /\ key' = [K EXCEPT ![i] = s]
       /\ val' = [V EXCEPT ![i] = t]
       /\ hash' = [H EXCEPT ![i] = Hash[k]]
  /\ size' = sz
  /\ ret' = "ok"
  /\ UNCHANGED <<state, n>>

(* Insertion in the first free slot of the arrays K, V and H of sz slots.  *)
Insert(K, V, H, sz, k, v) ==
  /\ \E i \in Lowest({j \in 0 .. sz - 1 : K[j] = Null}),
        s \in xstrdup(k), t \in xstrdup(v) :
       /\ key' = [K EXCEPT ![i] = s]
       /\ val' = [V EXCEPT ![i] = t]
       /\ hash' = [H EXCEPT ![i] = Hash[k]]
  /\ size' = sz
  /\ n' = n + 1
  /\ ret' = "ok"
  /\ UNCHANGED state

SetAdd(k, v) ==
  /\ Present(k) = {}
  /\ IF n = size
       THEN /\ 2 * size <= MaxSize
            /\ Insert(mem_double(key, Null), mem_double(val, Null),
                      mem_double(hash, 0), 2 * size, k, v)
       ELSE Insert(key, val, hash, size, k, v)

dictionary_set(k, v) ==
  /\ state = "ok"
  /\ call' = <<"set", k, v>>
  /\ SetReplace(k, v) \/ SetFail(k, v) \/ SetAdd(k, v)

UnsetFound(k) ==
  /\ \E i \in Found(k) :
       /\ key' = [key EXCEPT ![i] = Null]
       /\ val' = [val EXCEPT ![i] = Null]
       /\ hash' = [hash EXCEPT ![i] = 0]
  /\ n' = n - 1
  /\ ret' = "ok"
  /\ UNCHANGED <<state, size>>

UnsetAbsent(k) ==
  /\ Found(k) = {}
  /\ ret' = "ok"
  /\ UNCHANGED <<state, size, n, key, val, hash>>

dictionary_unset(k) ==
  /\ state = "ok"
  /\ call' = <<"unset", k>>
  /\ UnsetFound(k) \/ UnsetAbsent(k)

(* The pairs dictionary_dump prints: none if n says that there are none.   *)
dictionary_dump ==
  IF n < 1 THEN {} ELSE {<<key[i], val[i]>> : i \in {j \in Slots : key[j] # Null}}

Next ==
  \/ dictionary_new(0)
  \/ dictionary_del
  \/ \E k \in Key :
       \/ \E v \in Val \cup {Null} : dictionary_get(k, v) \/ dictionary_set(k, v)
       \/ dictionary_unset(k)

Spec == Init /\ [][Next]_vars
-----------------------------------------------------------------------------
TypeOK ==
  /\ state \in {"none", "ok", "lost"}
  /\ size \in Nat
  /\ n \in Nat
  /\ key \in [Slots -> Key \cup {Null}]
  /\ val \in [Slots -> Val \cup {Null}]
  /\ hash \in [Slots -> Nat]
  /\ ret \in Val \cup {Null, "ok", "fail"}

Occupied == {i \in Slots : key[i] # Null}

(* The loop of dictionary_set that looks for a free slot always ends at    *)
(* one, after the doubling if there was one: no call writes past the       *)
(* arrays, whatever allocations failed before.                             *)
SlotFound == state = "ok" => n <= size /\ (n < size => Occupied # Slots)

(* A key is never stored twice, so that get, set and unset, which stop at  *)
(* the first match, agree on its value.                                    *)
KeysUnique ==
  \A i, j \in Slots : key[i] # Null /\ key[i] = key[j] => i = j

(* dictionary_dump, and with it the search in dictionary_set, is skipped   *)
(* for n = 0 only when there is nothing to find.                           *)
DumpComplete ==
  state = "ok" => dictionary_dump = {<<key[i], val[i]>> : i \in Occupied}

-----------------------------------------------------------------------------
(* The map a dictionary stands for.                                        *)
MapOf(K, V, S) ==
  [k \in Key |-> IF \E i \in S : K[i] = k THEN V[CHOOSE i \in S : K[i] = k]
                                         ELSE Absent]

Map == MapOf(key, val, Slots)

Store == INSTANCE MapStore
           WITH Ok <- "ok", Fail <- "fail", MayFail <- AllocFails,
                map <- Map, ans <- ret

(* Every call does to the map, and returns, what its arguments ask for, in *)
(* any sequence of calls, with collisions, slots that were freed and used  *)
(* again, and doublings of the arrays.  A failed allocation spoils at most *)
(* the entry that is being set, never another one.                         *)
ImplementsMap == Store!MapSpec
=============================================================================
