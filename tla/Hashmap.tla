------------------------------ MODULE Hashmap ------------------------------
(***************************************************************************)
(* c/libgs/hashmap/hashmap.c: a chained hash table whose entries carry a   *)
(* next and a prev pointer.  hashmap_insert prepends to a bucket, and when *)
(* the table is full links every entry again into a larger array;          *)
(* hashmap_delete takes an entry out by its prev pointer.                  *)
(*                                                                         *)
(* Entries are numbered cells of memory; 0 is the null pointer.  What a    *)
(* freed cell contains is never used: the operations are defined only as   *)
(* long as they do not read one.                                           *)
(***************************************************************************)
EXTENDS Integers, FiniteSets, Sequences, Functions

CONSTANTS
  Key, Val,
  Hash,         \* the hash of each key, before it is reduced to the size
  Primes,       \* the sizes of the table, in the order they are used
  UsedMod,      \* 2^16: the field used is an uint16_t
  MaxEntries,   \* bound: entries that exist at the same time
  LateDeletes,  \* TRUE: callers delete after the table has grown, too
  AllocFails    \* TRUE: calloc of an entry may fail

ASSUME TableAssumption ==
  /\ Hash \in [Key -> Nat]
  /\ Primes \in Seq(Nat \ {0}) /\ Len(Primes) >= 2
  /\ UsedMod \in Nat \ {0}
  /\ MaxEntries \in Nat \ {0}

Cells == 1 .. MaxEntries
Null  == 0

VARIABLES
  idx,     \* position in Primes
  size,    \* buckets of the table, 0 before the first insertion
  used,    \* number of entries, as the code counts them
  data,    \* first entry of each bucket
  cell,    \* the entries
  live,    \* the cells that are allocated
  grow,    \* hashmap_grow at work, and the insertion that called it
  stack    \* ghost: the values inserted under each key and not deleted

vars == <<idx, size, used, data, cell, live, grow, stack>>

Buckets == 0 .. size - 1

Entry == [key : Key \cup {Null}, val : Val \cup {Null},
          next : Cells \cup {Null}, prev : Cells \cup {Null}]

Blank == [key |-> Null, val |-> Null, next |-> Null, prev |-> Null]

hashcode_index(k, sz) == Hash[k] % sz

(* on: the loops of hashmap_grow are running.  size, left: of the old array *)
(* of buckets, the entries that they still have to visit.                  *)
NoGrowth == [on |-> FALSE, key |-> Null, val |-> Null, size |-> 0,
             left |-> [b \in 0 .. -1 |-> Null]]

(* hashmap_create chooses a position in the table of primes and allocates  *)
(* no bucket.                                                              *)
Init ==
  /\ idx = 1
  /\ size = 0
  /\ used = 0
  /\ data = [b \in Buckets |-> Null]
  /\ cell = [c \in Cells |-> Blank]
  /\ live = {}
  /\ grow = NoGrowth
  /\ stack = [k \in Key |-> <<>>]

-----------------------------------------------------------------------------
(* The m-th cell that a loop over the bucket b visits, Null after the end. *)
Visit(b) ==
  LET f[m \in 0 .. MaxEntries] ==
        IF m = 0 THEN data[b]
        ELSE IF f[m - 1] = Null THEN Null ELSE cell[f[m - 1]].next
  IN f

Visited(b) == {Visit(b)[m] : m \in 0 .. MaxEntries} \ {Null}

(* A loop over the bucket ends, and reads no freed cell.                   *)
Walkable(b) == Visit(b)[MaxEntries] = Null /\ Visited(b) \subseteq live

(* hashmap_locate: the first entry with the key; the hash code that is     *)
(* compared first is a function of the key.                                *)
hashmap_locate(k) ==
  LET hits == {m \in 0 .. MaxEntries - 1 :
                 LET c == Visit(hashcode_index(k, size))[m]
                 IN c # Null /\ cell[c].key = k}
  IN {Visit(hashcode_index(k, size))[m] :
        m \in {h \in hits : \A g \in hits : h <= g}}

hashmap_find(k) == {cell[c].val : c \in hashmap_locate(k)}

(* Mutant of hashmap_link: the entry is linked in without its successor.   *)
hashmap_link_drop(t, e) ==
  LET b == hashcode_index(t.cell[e].key, t.size)
  IN [t EXCEPT !.cell[e].next = Null,
               !.data[b] = e,
               !.used = (@ + 1) % UsedMod]

(* The table t with the entry e in front of its bucket.  The prev pointer  *)
(* of e itself is left as it is.                                           *)
hashmap_link(t, e) ==
  LET b == hashcode_index(t.cell[e].key, t.size)
      first == t.data[b]
      c == [t.cell EXCEPT ![e].next = first]
  IN [t EXCEPT !.cell = IF first = Null THEN c ELSE [c EXCEPT ![first].prev = e],
               !.data[b] = e,
               !.used = (@ + 1) % UsedMod]

Table == [size |-> size, used |-> used, data |-> data, cell |-> cell]

Full == used >= size

(* calloc returns a cell of zeroes that is not in use; prev becomes null.  *)
NewEntry(t, e, k, v) ==
  [t EXCEPT !.cell[e] = [key |-> k, val |-> v, next |-> Null, prev |-> Null]]

(* The operations read only well-formed buckets: what they do with others  *)
(* is undefined, and the model ends there.                                 *)
Defined == \A b \in Buckets : Walkable(b)

Placed(k, v) ==
  \/ \E e \in Cells \ live :
       LET t == hashmap_link(NewEntry(Table, e, k, v), e)
       IN /\ \A f \in Cells \ live : e <= f
          /\ used' = t.used
          /\ data' = t.data
          /\ cell' = t.cell
          /\ live' = live \cup {e}
          /\ stack' = [stack EXCEPT ![k] = <<v>> \o @]
  \/ AllocFails /\ UNCHANGED <<used, data, cell, live, stack>>

(* A table that is full begins to grow: an empty array of the next size.   *)
hashmap_insert(k, v) ==
  /\ ~ grow.on
  /\ Defined
  /\ \/ ~ Full /\ Placed(k, v) /\ UNCHANGED <<idx, size, grow>>
     \/ /\ Full /\ idx < Len(Primes)
        /\ idx' = idx + 1
        /\ size' = Primes[idx + 1]
        /\ used' = 0
        /\ data' = [b \in 0 .. Primes[idx + 1] - 1 |-> Null]
        /\ grow' = [on |-> TRUE, key |-> k, val |-> v, size |-> size, left |-> data]
        /\ UNCHANGED <<cell, live, stack>>

(* hashmap_grow links the entries of the old buckets in the order in which *)
(* they are found; next is read before an entry is linked.                 *)
hashmap_grow ==
  /\ grow.on
  /\ \E b \in 0 .. grow.size - 1 :
       LET e == grow.left[b]
           t == hashmap_link(Table, e)
       IN /\ e # Null /\ \A a \in 0 .. b - 1 : grow.left[a] = Null
          /\ used' = t.used
          /\ data' = t.data
          /\ cell' = t.cell
          /\ grow' = [grow EXCEPT !.left[b] = cell[e].next]
  /\ UNCHANGED <<idx, size, live, stack>>

(* The table has grown, and the insertion goes on.                         *)
InsertGrown ==
  /\ grow.on
  /\ \A b \in 0 .. grow.size - 1 : grow.left[b] = Null
  /\ Placed(grow.key, grow.val)
  /\ grow' = NoGrowth
  /\ UNCHANGED <<idx, size>>

(* The cells after e was unlinked and freed: its successor gets its prev   *)
(* pointer, and the cell that its prev pointer names gets its successor.   *)
Unlinked(e) ==
  LET n == cell[e].next
      p == cell[e].prev
      c == IF n = Null THEN cell ELSE [cell EXCEPT ![n].prev = p]
      d == IF p = Null THEN c ELSE [c EXCEPT ![p].next = n]
  IN [d EXCEPT ![e] = Blank]

DeleteEntry(k, e) ==
  /\ cell' = Unlinked(e)
  /\ data' = IF cell[e].prev = Null
               THEN [data EXCEPT ![hashcode_index(k, size)] = cell[e].next]
               ELSE data
  /\ used' = (used - 1) % UsedMod
  /\ live' = live \ {e}
  /\ stack' = [stack EXCEPT ![k] = Tail(@)]

(* The first insertion allocates the buckets; the table has grown when     *)
(* entries were linked again after that.                                   *)
Grown == idx > 2

(* A table without buckets makes hashcode_index divide by zero.            *)
hashmap_delete(k) ==
  /\ LateDeletes \/ ~ Grown
  /\ ~ grow.on /\ Defined
  /\ size > 0
  /\ \E e \in hashmap_locate(k) : DeleteEntry(k, e)
  /\ UNCHANGED <<idx, size, grow>>

(* hashmap_free releases what the loops over the buckets visit; a new      *)
(* table is created.                                                       *)
hashmap_free ==
  /\ ~ grow.on /\ Defined
  /\ LET freed == UNION {Visited(b) : b \in Buckets}
     IN /\ live' = live \ freed
        /\ cell' = [c \in Cells |-> IF c \in freed THEN Blank ELSE cell[c]]
  /\ idx' = 1
  /\ size' = 0
  /\ used' = 0
  /\ data' = [b \in 0 .. -1 |-> Null]
  /\ grow' = NoGrowth
  /\ stack' = [k \in Key |-> <<>>]

Next ==
  \/ \E k \in Key :
       \/ \E v \in Val : hashmap_insert(k, v)
       \/ hashmap_delete(k)
  \/ hashmap_grow
  \/ InsertGrown
  \/ hashmap_free

Spec == Init /\ [][Next]_vars
-----------------------------------------------------------------------------
TypeOK ==
  /\ idx \in 1 .. Len(Primes)
  /\ size \in {0} \cup {Primes[i] : i \in DOMAIN Primes}
  /\ used \in 0 .. UsedMod - 1
  /\ data \in [Buckets -> Cells \cup {Null}]
  /\ cell \in [Cells -> Entry]
  /\ live \subseteq Cells
  /\ grow \in [on : BOOLEAN, key : Key \cup {Null}, val : Val \cup {Null},
               size : {0} \cup {Primes[i] : i \in DOMAIN Primes},
               left : [0 .. grow.size - 1 -> Cells \cup {Null}]]
  /\ stack \in [Key -> Seq(Val)]

(* The buckets hold the allocated entries: every loop over a bucket ends,  *)
(* no freed entry is reached, none that is allocated is lost, and each is  *)
(* in the bucket where hashmap_find looks for it.                          *)
Chained ==
  ~ grow.on =>
    /\ \A b \in Buckets : Walkable(b)
    /\ live = UNION {Visited(b) : b \in Buckets}
    /\ \A b \in Buckets : \A c \in Visited(b) : hashcode_index(cell[c].key, size) = b

(* The prev pointer of an entry, on which hashmap_delete relies, is the    *)
(* entry before it in its bucket, null for the first, until the table      *)
(* grows.                                                                  *)
PrevIsPredecessor ==
  ~ Grown => \A b \in Buckets : \A m \in 0 .. MaxEntries - 1 :
    LET c == Visit(b)[m]
    IN c # Null => cell[c].prev = IF m = 0 THEN Null ELSE Visit(b)[m - 1]

(* hashmap_find answers from the entries that are stored: it finds a key   *)
(* exactly when it was inserted and not deleted, however the table grew    *)
(* since, and returns the value inserted last.  Growth reverses a bucket,  *)
(* so that after it any of the values stored under one key may be found.   *)
FindsStored ==
  size > 0 /\ ~ grow.on =>
    \A k \in Key :
      /\ hashmap_find(k) \subseteq Range(stack[k])
      /\ stack[k] # <<>> => hashmap_find(k) # {}
      /\ stack[k] # <<>> /\ ~ Grown => hashmap_find(k) = {Head(stack[k])}

(* used is the number of entries, for which hashmap_list makes room.       *)
UsedCount == ~ grow.on => used = Cardinality(live)

(* The buckets, the prev pointers, the counter and the answers stay        *)
(* consistent through insertions, growth, deletions before the growth,     *)
(* hashmap_free and failing allocations.                                   *)
TableSound ==
  /\ TypeOK
  /\ Chained
  /\ PrevIsPredecessor
  /\ FindsStored
  /\ UsedCount
=============================================================================
