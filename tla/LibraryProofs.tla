--------------------------- MODULE LibraryProofs ----------------------------
(***************************************************************************)
(* Proofs about the libraries that keep their state in memory: the growing *)
(* strings, the digests as text and the hash table.                        *)
(***************************************************************************)
EXTENDS Stralloc, Ctcrypt, Hashmap, TLAPS, FiniteSetTheorems,
        SequenceTheorems, NaturalsInduction, WellFoundedInduction

-----------------------------------------------------------------------------
(* c/libgs/libstralloc/stralloc.c: whatever calls are made on any number   *)
(* of strings, with any texts and wherever memory runs out, a string keeps *)
(* its contents in a block of its own, unless a size wraps.                *)

StrallocSpec == StrallocInit /\ [][StrallocNext]_strallocVars

PieceByte == UNION {{d[i] : i \in DOMAIN d} : d \in Pieces}
StrText == Seq(PieceByte)

StrRecord == [s : Nat \cup {NULL}, len : Nat, a : Nat]
Block == [size : Nat, text : StrText]
CallLog == [want : [Strs -> StrText], calls : Nat, overrun : BOOLEAN,
            wrapped : BOOLEAN, dangling : BOOLEAN, self : BOOLEAN]

HeapTypeOK(h) ==
  /\ DOMAIN h \subseteq Nat
  /\ h = [p \in DOMAIN h |-> h[p]]
  /\ \A p \in DOMAIN h : h[p] \in Block

StrallocTypeOK ==
  /\ sa \in [Strs -> StrRecord]
  /\ HeapTypeOK(heap)
  /\ avail \in 0 .. SPACE
  /\ salog \in CallLog

(* A pointer that is not null leads to a block, and a block that malloc    *)
(* gave is some string's.                                                  *)
Held == \A x \in Strs : sa[x].s # NULL => sa[x].s \in DOMAIN heap
NoLeak == \A p \in DOMAIN heap : ~ InPool(p) => \E x \in Strs : sa[x].s = p

Intact == ~ salog.overrun /\ ~ salog.wrapped

(* The part of the pool that is left lies below what the strings have.     *)
PoolBelow ==
  Intact => \A x \in Strs : sa[x].s # NULL /\ InPool(sa[x].s) => avail <= sa[x].s

StrallocInv ==
  /\ StrallocTypeOK
  /\ Held
  /\ NoLeak
  /\ PoolBelow
  /\ StrallocHolds
  /\ StrallocFits
  /\ salog.dangling => salog.self

-----------------------------------------------------------------------------
(* The texts that are copied and appended are texts.                       *)
LEMMA PieceIsText ==
  ASSUME NEW d \in Pieces
  PROVE  d \in StrText
<1> DEFINE S == {d[i] : i \in DOMAIN d}
<1>1. d \in Seq(S)
  BY StrallocAssumption
<1>2. \A i \in DOMAIN d : d[i] \in PieceByte
  BY DEF PieceByte
<1> HIDE DEF S
<1> QED BY <1>1, <1>2 DEF StrText

(* A size that fits its type is itself; every other becomes some number.   *)
LEMMA UintIs ==
  ASSUME NEW n \in Nat
  PROVE  Uint(n) \in Nat /\ (n < UintMod => Uint(n) = n)
<1>1. UintMod \in Nat \ {0}
  BY StrallocAssumption
<1> HIDE DEF UintMod
<1> QED BY <1>1 DEF Uint

(* What is left of a division.                                             *)
LEMMA PartOfAlignment ==
  ASSUME NEW n \in Nat
  PROVE  n % ALIGNMENT \in 0 .. ALIGNMENT - 1
BY StrallocAssumption

(* Rounding up gives more than was asked for, unless it wraps.             *)
LEMMA RoundedIs ==
  ASSUME NEW n \in Nat
  PROVE  /\ Rounded(n) \in Nat
         /\ n + ALIGNMENT < UintMod => Rounded(n) > n
<1> DEFINE r == n % ALIGNMENT
           m == ALIGNMENT + n - r
<1>1. r \in 0 .. ALIGNMENT - 1 /\ ALIGNMENT \in Nat
  BY PartOfAlignment, StrallocAssumption
<1>2. Rounded(n) = Uint(m)
  BY DEF Rounded
<1>3. UintMod \in Nat
  BY StrallocAssumption
<1> HIDE DEF r, UintMod
<1>4. m \in Nat /\ n < m /\ m <= n + ALIGNMENT
  BY <1>1
<1> HIDE DEF m
<1> QED BY <1>1, <1>2, <1>3, <1>4, UintIs

(* Among one address more than there are strings, malloc has a free one.   *)
LEMMA MallocFindsRoom ==
  ASSUME StrallocInv
  PROVE  \E q \in SPACE .. SPACE + Cardinality(Strs) : q \notin DOMAIN heap
<1> DEFINE T == {sa[x].s : x \in Strs}
           I == SPACE .. SPACE + Cardinality(Strs)
<1>1. IsFiniteSet(Strs) /\ SPACE \in Nat
  BY StrallocAssumption
<1>2. Cardinality(Strs) \in Nat
  BY <1>1, FS_CardinalityType
<1>3. IsFiniteSet(T) /\ Cardinality(T) <= Cardinality(Strs)
  <2> DEFINE f == [x \in Strs |-> sa[x].s]
  <2>1. f \in Surjection(Strs, T)
    BY DEF Surjection
  <2> HIDE DEF f, T
  <2> QED BY <1>1, <2>1, FS_Surjection
<1>4. SPACE \in Int /\ SPACE + Cardinality(Strs) \in Int /\ SPACE <= SPACE + Cardinality(Strs)
  BY <1>1, <1>2
<1>5. IsFiniteSet(I) /\ Cardinality(I) = Cardinality(Strs) + 1
  <2> DEFINE last == SPACE + Cardinality(Strs)
  <2> HIDE DEF last
  <2>1. /\ IsFiniteSet(SPACE .. last)
        /\ Cardinality(SPACE .. last) = IF SPACE > last THEN 0 ELSE last - SPACE + 1
    <3>1. SPACE \in Int /\ last \in Int
      BY <1>4 DEF last
    <3> QED BY <3>1, FS_Interval
  <2>2. I = SPACE .. last
    BY DEF last
  <2> QED BY <1>1, <1>2, <2>1, <2>2 DEF last
<1>6. ASSUME I \subseteq DOMAIN heap PROVE FALSE
  <2>1. \A q \in I : ~ InPool(q)
    BY <1>1, <1>2 DEF InPool
  <2>2. I \subseteq T
    BY <1>6, <2>1 DEF StrallocInv, NoLeak
  <2> HIDE DEF I, T
  <2>3. Cardinality(I) <= Cardinality(T)
    BY <1>3, <2>2, FS_Subset, Zenon
  <2>4. Cardinality(T) \in Nat
    BY <1>3, FS_CardinalityType
  <2> QED BY <1>2, <1>3, <1>5, <2>3, <2>4
<1> QED BY <1>6

-----------------------------------------------------------------------------
(* Where a block of size bytes lies: just below what the pool had left, or *)
(* at an address of malloc that no block has.                              *)
BlockAt(p, bytes, rest) ==
  /\ p \in Nat /\ rest \in 0 .. SPACE /\ rest <= avail
  /\ \/ p = rest /\ p + bytes = avail
     \/ p >= SPACE /\ p \notin DOMAIN heap /\ rest = avail

(* What _alloc returns, if it returns something.                           *)
LEMMA AllocPlaces ==
  ASSUME StrallocInv, NEW n \in Nat, NEW p, AllocAt(n, p), p # NULL
  PROVE  BlockAt(p, Rounded(n), Avail(n))
<1>1. avail \in 0 .. SPACE /\ SPACE \in Nat /\ Rounded(n) \in Nat
  BY RoundedIs, StrallocAssumption DEF StrallocInv, StrallocTypeOK
<1>2. CASE Rounded(n) <= avail
  <2>1. p = avail - Rounded(n) /\ Avail(n) = avail - Rounded(n)
    BY <1>2 DEF AllocAt, Avail
  <2> HIDE DEF Rounded, Avail
  <2> QED BY <1>1, <1>2, <2>1 DEF BlockAt
<1>3. CASE ~ (Rounded(n) <= avail)
  <2> DEFINE I == SPACE .. SPACE + Cardinality(Strs)
  <2>1. p = CHOOSE q \in I : q \notin DOMAIN heap
    BY <1>3 DEF AllocAt
  <2>2. \E q \in I : q \notin DOMAIN heap
    BY MallocFindsRoom
  <2>3. I \subseteq Nat /\ \A q \in I : q >= SPACE
    <3>1. Cardinality(Strs) \in Nat
      BY StrallocAssumption, FS_CardinalityType
    <3> QED BY <1>1, <3>1
  <2> HIDE DEF I
  <2>4. p \in I /\ p \notin DOMAIN heap
    BY <2>1, <2>2
  <2>5. Avail(n) = avail
    BY <1>3 DEF Avail
  <2> QED BY <1>1, <2>3, <2>4, <2>5 DEF BlockAt
<1> QED BY <1>2, <1>3

(* The heap in which a block takes the place of another one.               *)
LEMMA MovedIs ==
  ASSUME HeapTypeOK(heap), NEW old \in Nat \cup {NULL}, NEW p \in Nat, NEW b \in Block
  PROVE  LET h == Moved(heap, old, p, b)
         IN /\ HeapTypeOK(h)
            /\ p \in DOMAIN h /\ h[p] = b
            /\ \A q \in DOMAIN heap : q # p /\ q # old => q \in DOMAIN h /\ h[q] = heap[q]
            /\ \A q \in DOMAIN h : q # p => q \in DOMAIN heap
            /\ \A q \in DOMAIN h : q # p /\ ~ InPool(q) => q # old
<1> DEFINE g == IF old = NULL THEN heap ELSE Freed(heap, old)
           h == [q \in DOMAIN g \cup {p} |-> IF q = p THEN b ELSE g[q]]
<1>1. /\ \A q \in DOMAIN g : q \in DOMAIN heap /\ g[q] = heap[q]
      /\ \A q \in DOMAIN heap : q # old => q \in DOMAIN g
      /\ ~ InPool(old) => old \notin DOMAIN g
  <2>1. ~ InPool(old) => old # NULL
    BY StrallocAssumption DEF InPool, NULL
  <2> QED BY <2>1 DEF Freed, Without
<1>2. Moved(heap, old, p, b) = h
  BY DEF Moved
<1> HIDE DEF g
<1> QED BY <1>1, <1>2 DEF HeapTypeOK

(* x holds text in a block of the given size, and the others are as they   *)
(* were: what a step that succeeds leaves.                                 *)
Settled(x, text, p, cap, bytes) ==
  /\ sa' = [sa EXCEPT ![x] = [s |-> p, len |-> Len(text), a |-> cap]]
  /\ HeapTypeOK(heap')
  /\ p \in DOMAIN heap' /\ heap'[p] = [size |-> bytes, text |-> text]
  /\ \A q \in DOMAIN heap : q # p /\ q # sa[x].s =>
       q \in DOMAIN heap' /\ heap'[q] = heap[q]
  /\ \A q \in DOMAIN heap' : q # p => q \in DOMAIN heap /\ (~ InPool(q) => q # sa[x].s)

(* The log of such a step.                                                 *)
Logged(x, text, bytes) ==
  /\ salog' \in CallLog
  /\ salog'.want = [salog.want EXCEPT ![x] = text]
  /\ salog'.dangling = salog.dangling
  /\ salog'.overrun => salog'.wrapped
  /\ Len(text) + 1 > bytes => salog'.overrun

(* A step that puts text where no other string is, in a block of enough    *)
(* bytes unless something wrapped, keeps the invariant.                    *)
LEMMA SettledKeeps ==
  ASSUME StrallocInv, Going, NEW x \in Strs, NEW text \in StrText, NEW p \in Nat,
         NEW cap \in Nat, NEW bytes \in Nat, Settled(x, text, p, cap, bytes),
         Logged(x, text, bytes), avail' \in 0 .. SPACE, avail' <= avail,
         \/ p = sa[x].s /\ avail' = avail /\ bytes = heap[p].size
         \/ p = avail' /\ p + bytes = avail
         \/ p >= SPACE /\ p \notin DOMAIN heap /\ avail' = avail,
         ~ salog'.overrun /\ ~ salog'.wrapped => Len(text) + 1 <= cap /\ cap <= bytes
  PROVE  StrallocInv'
<1>1. Intact /\ ~ salog.overrun /\ ~ salog.dangling
  BY DEF Going, Intact
<1>2. /\ sa \in [Strs -> StrRecord] /\ avail \in 0 .. SPACE /\ SPACE \in Nat
      /\ DOMAIN heap \subseteq Nat /\ salog \in CallLog
  BY StrallocAssumption DEF StrallocInv, StrallocTypeOK, HeapTypeOK
<1>3. Len(text) \in Nat /\ NULL \notin Nat
  BY DEF StrText, NULL
<1>4. /\ sa' \in [Strs -> StrRecord]
      /\ sa'[x].s = p /\ sa'[x].len = Len(text) /\ sa'[x].a = cap
      /\ \A z \in Strs : z # x => sa'[z] = sa[z]
  BY <1>2, <1>3 DEF Settled, StrRecord
<1>5. heap'[p].size = bytes /\ heap'[p].text = text
  BY DEF Settled
<1>6. /\ salog'.want[x] = text
      /\ \A z \in Strs : z # x => salog'.want[z] = salog.want[z]
  BY <1>2 DEF Logged, CallLog
<1>7. ASSUME NEW z \in Strs, z # x, sa[z].s # NULL
      PROVE  /\ sa[z].s \in DOMAIN heap /\ sa[z].s # sa[x].s /\ sa[z].s \in Nat
             /\ avail <= sa[z].s
  <2>1. sa[z].s \in DOMAIN heap /\ sa[z].s # sa[x].s
    BY <1>1, <1>7 DEF StrallocInv, Held, StrallocFits, Intact
  <2>2. sa[z].s \in Nat
    BY <1>2, <2>1
  <2>3. InPool(sa[z].s) => avail <= sa[z].s
    BY <1>1, <1>7 DEF StrallocInv, PoolBelow
  <2> QED BY <1>2, <2>1, <2>2, <2>3 DEF InPool
<1>8. ASSUME NEW z \in Strs, z # x, sa[z].s # NULL, ~ salog'.overrun
      PROVE  /\ sa[z].s # p
             /\ sa[z].s \in DOMAIN heap' /\ heap'[sa[z].s] = heap[sa[z].s]
  <2>1. bytes >= 1
    BY <1>3, <1>8 DEF Logged
  <2>2. sa[z].s # p
    BY <1>2, <1>7, <1>8, <2>1
  <2> QED BY <1>7, <1>8, <2>2 DEF Settled
<1>9. StrallocTypeOK'
  BY <1>4 DEF StrallocTypeOK, Settled, Logged
<1>10. Held'
  <2>1. ASSUME NEW z \in Strs, z # x, sa[z].s # NULL
        PROVE  sa[z].s \in DOMAIN heap'
    BY <1>7, <2>1 DEF Settled
  <2> QED BY <1>4, <2>1 DEF Held, Settled
<1>11. NoLeak'
  <2>1. ASSUME NEW q \in DOMAIN heap', ~ InPool(q), q # p
        PROVE  \E z \in Strs : sa'[z].s = q
    <3>1. q \in DOMAIN heap /\ q # sa[x].s
      BY <2>1 DEF Settled
    <3>2. PICK z \in Strs : sa[z].s = q
      BY <2>1, <3>1 DEF StrallocInv, NoLeak
    <3> QED BY <1>4, <3>1, <3>2
  <2> QED BY <1>4, <2>1 DEF NoLeak, InPool
<1>12. PoolBelow'
  <2>1. InPool(p) => avail' <= p
    <3>1. p = sa[x].s /\ avail' = avail /\ InPool(p) => avail' <= p
      BY <1>1, <1>3 DEF StrallocInv, PoolBelow
    <3> QED BY <1>2, <3>1 DEF InPool
  <2>2. ASSUME NEW z \in Strs, z # x, sa[z].s # NULL
        PROVE  avail' <= sa[z].s
    BY <1>2, <1>7, <2>2
  <2> QED BY <1>4, <2>1, <2>2 DEF PoolBelow, InPool
<1>13. StrallocHolds'
  <2>1. ASSUME ~ salog'.overrun, NEW z \in Strs, z # x
        PROVE  (IF sa'[z].s = NULL THEN <<>> ELSE heap'[sa'[z].s].text) = salog'.want[z]
               /\ sa'[z].len = Len(salog'.want[z])
    <3>1. /\ (IF sa[z].s = NULL THEN <<>> ELSE heap[sa[z].s].text) = salog.want[z]
          /\ sa[z].len = Len(salog.want[z])
      BY <1>1 DEF StrallocInv, StrallocHolds, TextOf
    <3> QED BY <1>4, <1>6, <1>8, <2>1, <3>1
  <2>2. (IF sa'[x].s = NULL THEN <<>> ELSE heap'[sa'[x].s].text) = salog'.want[x]
        /\ sa'[x].len = Len(salog'.want[x])
    BY <1>3, <1>4, <1>5, <1>6
  <2> QED BY <2>1, <2>2 DEF StrallocHolds, TextOf
<1>14. StrallocFits'
  <2> SUFFICES ASSUME ~ salog'.overrun, ~ salog'.wrapped
               PROVE  \A z \in Strs : sa'[z].s # NULL =>
                        /\ sa'[z].len + 1 <= sa'[z].a /\ sa'[z].a <= heap'[sa'[z].s].size
                        /\ \A y \in Strs \ {z} : sa'[y].s # NULL =>
                             /\ sa'[z].s # sa'[y].s
                             /\ InPool(sa'[z].s) /\ InPool(sa'[y].s) =>
                                  \/ sa'[z].s + heap'[sa'[z].s].size <= sa'[y].s
                                  \/ sa'[y].s + heap'[sa'[y].s].size <= sa'[z].s
    BY DEF StrallocFits, Logged, InPool
  <2>1. sa'[x].len + 1 <= sa'[x].a /\ sa'[x].a <= heap'[sa'[x].s].size
    BY <1>4, <1>5
  <2>2. ASSUME NEW z \in Strs, z # x, sa'[z].s # NULL
        PROVE  /\ sa'[z].s = sa[z].s /\ sa[z].s # NULL /\ heap'[sa[z].s] = heap[sa[z].s]
               /\ sa'[z].len = sa[z].len /\ sa'[z].a = sa[z].a /\ sa[z].s # p
    BY <1>4, <1>8, <2>2
  <2>3. ASSUME NEW z \in Strs, z # x, sa'[z].s # NULL, InPool(p), InPool(sa[z].s)
        PROVE  \/ p + bytes <= sa[z].s
               \/ sa[z].s + heap[sa[z].s].size <= p
    <3>1. p = sa[x].s /\ bytes = heap[p].size =>
            \/ p + bytes <= sa[z].s
            \/ sa[z].s + heap[sa[z].s].size <= p
      BY <1>1, <1>3, <2>2, <2>3 DEF StrallocInv, StrallocFits, Intact
    <3>2. avail <= sa[z].s /\ sa[z].s \in Nat
      BY <1>7, <2>2, <2>3
    <3>3. ~ (p >= SPACE)
      BY <1>2, <2>3 DEF InPool
    <3> QED BY <1>2, <3>1, <3>2, <3>3
  <2>4. ASSUME NEW z \in Strs, NEW y \in Strs \ {z}, z # x, y # x,
               sa'[z].s # NULL, sa'[y].s # NULL
        PROVE  /\ sa'[z].s # sa'[y].s
               /\ InPool(sa'[z].s) /\ InPool(sa'[y].s) =>
                    \/ sa'[z].s + heap'[sa'[z].s].size <= sa'[y].s
                    \/ sa'[y].s + heap'[sa'[y].s].size <= sa'[z].s
    BY <1>1, <2>2, <2>4 DEF StrallocInv, StrallocFits, Intact
  <2>5. ASSUME NEW z \in Strs, z # x, sa'[z].s # NULL
        PROVE  sa'[z].len + 1 <= sa'[z].a /\ sa'[z].a <= heap'[sa'[z].s].size
    BY <1>1, <2>2, <2>5 DEF StrallocInv, StrallocFits, Intact
  <2>6. ASSUME NEW z \in Strs, NEW y \in Strs \ {z}, sa'[z].s # NULL, sa'[y].s # NULL
        PROVE  /\ sa'[z].s # sa'[y].s
               /\ InPool(sa'[z].s) /\ InPool(sa'[y].s) =>
                    \/ sa'[z].s + heap'[sa'[z].s].size <= sa'[y].s
                    \/ sa'[y].s + heap'[sa'[y].s].size <= sa'[z].s
    <3>1. CASE z = x
      <4>1. sa'[z].s = p /\ heap'[p].size = bytes /\ y \in Strs /\ y # x
        BY <1>4, <1>5, <2>6, <3>1
      <4>2. sa'[y].s = sa[y].s /\ heap'[sa[y].s] = heap[sa[y].s] /\ sa[y].s # p
        BY <2>2, <2>6, <4>1
      <4> QED BY <2>3, <2>6, <4>1, <4>2
    <3>2. CASE y = x
      <4>1. sa'[y].s = p /\ heap'[p].size = bytes /\ z # x
        BY <1>4, <1>5, <2>6, <3>2
      <4>2. sa'[z].s = sa[z].s /\ heap'[sa[z].s] = heap[sa[z].s] /\ sa[z].s # p
        BY <2>2, <2>6, <4>1
      <4> QED BY <2>3, <2>6, <4>1, <4>2
    <3> QED BY <2>4, <2>6, <3>1, <3>2
  <2>7. \A z \in Strs : sa'[z].s # NULL =>
          sa'[z].len + 1 <= sa'[z].a /\ sa'[z].a <= heap'[sa'[z].s].size
    BY <2>1, <2>5
  <2> QED BY <2>6, <2>7
<1>15. salog'.dangling => salog'.self
  BY <1>1 DEF Logged
<1> QED BY <1>9, <1>10, <1>11, <1>12, <1>13, <1>14, <1>15 DEF StrallocInv

-----------------------------------------------------------------------------
(* Without the memory for a block nothing changes but the capacity of a    *)
(* string that had none.                                                   *)
LEMMA NoMemoryStep ==
  ASSUME StrallocInv, Going, NEW x \in Strs, NEW n \in Nat, sa' = NoMemory(x, n),
         heap' = heap, avail' \in 0 .. SPACE, avail' <= avail,
         salog' = [salog EXCEPT !.calls = @ + 1]
  PROVE  StrallocInv'
<1>1. /\ sa \in [Strs -> StrRecord] /\ avail \in 0 .. SPACE /\ SPACE \in Nat
      /\ DOMAIN heap \subseteq Nat /\ salog \in CallLog
  BY StrallocAssumption DEF StrallocInv, StrallocTypeOK, HeapTypeOK
<1>2. /\ salog' \in CallLog /\ salog'.want = salog.want
      /\ salog'.overrun = salog.overrun /\ salog'.wrapped = salog.wrapped
      /\ salog'.dangling = salog.dangling
      /\ ~ salog.overrun /\ ~ salog.wrapped /\ ~ salog.dangling
  BY <1>1 DEF CallLog, Going
<1>3. /\ sa' \in [Strs -> StrRecord]
      /\ \A z \in Strs : sa'[z].s = sa[z].s
      /\ \A z \in Strs : sa[z].s # NULL => sa'[z] = sa[z]
  BY <1>1 DEF NoMemory, StrRecord
<1>4. \A z \in Strs : sa'[z].len = sa[z].len
  <2>1. \A z \in Strs : sa[z].s = NULL => sa[z].len = 0
    BY <1>2 DEF StrallocInv, StrallocHolds, TextOf
  <2> QED BY <1>1, <2>1 DEF NoMemory, StrRecord
<1>5. StrallocTypeOK'
  BY <1>2, <1>3 DEF StrallocInv, StrallocTypeOK, HeapTypeOK
<1>6. Held' /\ NoLeak'
  BY <1>3 DEF StrallocInv, Held, NoLeak, InPool
<1>7. PoolBelow'
  <2>1. ASSUME NEW z \in Strs, sa[z].s # NULL, InPool(sa[z].s)
        PROVE  avail' <= sa[z].s
    <3>1. avail <= sa[z].s
      BY <1>2, <2>1 DEF StrallocInv, PoolBelow, Intact
    <3> QED BY <1>1, <2>1, <3>1 DEF StrRecord
  <2> QED BY <1>3, <2>1 DEF PoolBelow, InPool
<1>8. StrallocHolds'
  BY <1>2, <1>3, <1>4 DEF StrallocInv, StrallocHolds, TextOf
<1>9. StrallocFits'
  BY <1>2, <1>3 DEF StrallocInv, StrallocFits, InPool
<1> QED BY <1>2, <1>5, <1>6, <1>7, <1>8, <1>9 DEF StrallocInv

(* The string x becomes text, in its block or in a larger one.             *)
LEMMA BecomeStep ==
  ASSUME StrallocInv, Going, NEW x \in Strs, NEW text \in StrText,
         Become(x, Len(text) + 1, text, text)
  PROVE  StrallocInv'
<1> DEFINE need == Len(text) + 1
           n == Uint(need)
           log == [salog EXCEPT !.calls = @ + 1, !.want[x] = text, !.wrapped = Wraps(x, need)]
<1>1. /\ sa \in [Strs -> StrRecord] /\ avail \in 0 .. SPACE /\ SPACE \in Nat
      /\ HeapTypeOK(heap) /\ salog \in CallLog
  BY StrallocAssumption DEF StrallocInv, StrallocTypeOK
<1>2. /\ Len(text) \in Nat /\ need \in Nat /\ n \in Nat /\ NULL \notin Nat
      /\ need < UintMod => n = need
  <2>1. Len(text) \in Nat /\ need \in Nat /\ NULL \notin Nat
    BY DEF StrText, NULL
  <2> HIDE DEF need
  <2> QED BY <2>1, UintIs
<1>3. Wraps(x, need) \in BOOLEAN
  BY DEF Wraps
<1>4. /\ log \in CallLog /\ log.want = [salog.want EXCEPT ![x] = text]
      /\ log.dangling = salog.dangling /\ log.wrapped = Wraps(x, need)
  <2> DEFINE w == Wraps(x, need)
             want == [salog.want EXCEPT ![x] = text]
  <2>1. w \in BOOLEAN /\ want \in [Strs -> StrText] /\ salog.calls + 1 \in Nat
    BY <1>1, <1>3 DEF CallLog
  <2>2. log = [salog EXCEPT !.calls = @ + 1, !.want = want, !.wrapped = w]
    BY <1>1 DEF CallLog
  <2> HIDE DEF w, want, log
  <2>3. log \in CallLog /\ log.want = want /\ log.dangling = salog.dangling /\ log.wrapped = w
    BY <1>1, <2>1, <2>2 DEF CallLog
  <2> QED BY <2>3 DEF w, want
<1>5. \/ NeedsRoom(x, n) /\ Grow(x, n, text, log)
      \/ ~ NeedsRoom(x, n) /\ Write(x, text, log)
  BY DEF Become
<1>6. Intact
  BY DEF Going, Intact
<1> HIDE DEF need, n, log
<1>7. CASE NeedsRoom(x, n) /\ Grow(x, n, text, log)
  <2> DEFINE old == sa[x]
             cap == IF old.s = NULL THEN n ELSE Larger(n)
             bytes == Rounded(cap)
             over == (old.s # NULL /\ old.a > bytes) \/ Len(text) + 1 > bytes
  <2>1. cap \in Nat
    <3>1. Slack + n + n \div 8 \in Nat
      BY <1>2, StrallocAssumption
    <3>2. Larger(n) \in Nat
      BY <3>1, UintIs DEF Larger
    <3> QED BY <1>2, <3>2
  <2>2. bytes \in Nat
    BY <2>1, RoundedIs
  <2>3. PICK p \in {NULL} \cup 0 .. SPACE + Cardinality(Strs) :
          /\ AllocAt(cap, p)
          /\ avail' = Avail(cap)
          /\ \/ /\ p = NULL
                /\ sa' = NoMemory(x, n)
                /\ salog' = [salog EXCEPT !.calls = @ + 1]
                /\ UNCHANGED heap
             \/ /\ p # NULL
                /\ sa' = [sa EXCEPT ![x] = [s |-> p, len |-> Len(text), a |-> cap]]
                /\ heap' = Moved(heap, old.s, p, [size |-> bytes, text |-> text])
                /\ salog' = [log EXCEPT !.overrun = over]
    BY <1>7 DEF Grow
  <2>4. over \in BOOLEAN
    OBVIOUS
  <2>5. ASSUME ~ Wraps(x, need)
        PROVE  Len(text) + 1 <= cap /\ cap <= bytes /\ ~ over
    <3>1. need < UintMod /\ n = need
      BY <1>2, <2>5, StrallocAssumption DEF Wraps
    <3>2. (old.s = NULL => n + ALIGNMENT < UintMod)
          /\ (old.s # NULL => Slack + n + n \div 8 + ALIGNMENT < UintMod)
      BY <1>2, <1>7, <2>5, <3>1, StrallocAssumption DEF Wraps
    <3>3. cap + ALIGNMENT < UintMod /\ n <= cap
      <4>1. Slack + n + n \div 8 \in Nat /\ n <= Slack + n + n \div 8
        BY <1>2, StrallocAssumption
      <4>2. CASE old.s = NULL
        BY <1>2, <3>2, <4>2
      <4>3. CASE old.s # NULL
        <5>1. Slack + n + n \div 8 < UintMod
          BY <3>2, <4>1, <4>3, StrallocAssumption
        <5>2. cap = Slack + n + n \div 8
          BY <4>1, <4>3, <5>1, UintIs DEF Larger
        <5> QED BY <3>2, <4>1, <4>3, <5>2
      <4> QED BY <4>2, <4>3
    <3>4. cap < bytes
      BY <2>1, <3>3, RoundedIs
    <3>5. old.s # NULL => old.a < n /\ old.a \in Nat
      BY <1>1, <1>2, <1>7 DEF NeedsRoom, StrRecord
    <3> HIDE DEF cap, bytes, old
    <3> QED BY <1>2, <2>1, <2>2, <3>1, <3>3, <3>4, <3>5 DEF need
  <2>6. CASE p = NULL
    <3>1. avail' \in 0 .. SPACE /\ avail' <= avail
      BY <1>1, <2>1, <2>3, RoundedIs DEF Avail
    <3> QED BY <1>2, <2>3, <2>6, <3>1, NoMemoryStep
  <2>7. CASE p # NULL
    <3>1. BlockAt(p, bytes, avail')
      BY <2>1, <2>3, <2>7, AllocPlaces
    <3> HIDE DEF over, bytes, cap
    <3>2. /\ sa' = [sa EXCEPT ![x] = [s |-> p, len |-> Len(text), a |-> cap]]
          /\ heap' = Moved(heap, sa[x].s, p, [size |-> bytes, text |-> text])
          /\ salog' = [log EXCEPT !.overrun = over]
      BY <2>3, <2>7
    <3>3. Settled(x, text, p, cap, bytes)
      <4>1. sa[x].s \in Nat \cup {NULL} /\ p \in Nat
        BY <1>1, <3>1 DEF StrRecord, BlockAt
      <4>2. [size |-> bytes, text |-> text] \in Block
        BY <2>2 DEF Block
      <4> DEFINE b == [size |-> bytes, text |-> text]
                 o == sa[x].s
      <4> HIDE DEF b, o
      <4>3. heap' = Moved(heap, o, p, b) /\ o \in Nat \cup {NULL} /\ p \in Nat /\ b \in Block
        BY <3>2, <4>1, <4>2 DEF b, o
      <4>4. /\ HeapTypeOK(heap')
            /\ p \in DOMAIN heap' /\ heap'[p] = b
            /\ \A q \in DOMAIN heap : q # p /\ q # o => q \in DOMAIN heap' /\ heap'[q] = heap[q]
            /\ \A q \in DOMAIN heap' : q # p => q \in DOMAIN heap
            /\ \A q \in DOMAIN heap' : q # p /\ ~ InPool(q) => q # o
        BY <1>1, <4>3, MovedIs
      <4> QED BY <3>2, <4>4 DEF Settled, b, o
    <3>4. /\ salog' \in CallLog /\ salog'.overrun = over
          /\ salog'.want = log.want /\ salog'.wrapped = log.wrapped
          /\ salog'.dangling = log.dangling
      BY <1>4, <2>4, <3>2 DEF CallLog
    <3>5. Logged(x, text, bytes)
      BY <1>4, <2>5, <3>4 DEF Logged, over
    <3>6. /\ p \in Nat /\ avail' \in 0 .. SPACE /\ avail' <= avail
          /\ \/ p = avail' /\ p + bytes = avail
             \/ p >= SPACE /\ p \notin DOMAIN heap /\ avail' = avail
      BY <3>1 DEF BlockAt
    <3>7. ~ salog'.overrun /\ ~ salog'.wrapped => Len(text) + 1 <= cap /\ cap <= bytes
      BY <1>4, <2>5, <3>4
    <3> QED BY <2>1, <2>2, <3>3, <3>5, <3>6, <3>7, SettledKeeps
  <2> QED BY <2>6, <2>7
<1>8. CASE ~ NeedsRoom(x, n) /\ Write(x, text, log)
  <2> DEFINE p == sa[x].s
             cap == sa[x].a
             bytes == heap[p].size
             over == Len(text) + 1 > bytes
  <2>1. /\ p # NULL /\ p \in Nat /\ p \in DOMAIN heap /\ cap \in Nat /\ n <= cap
        /\ heap[p] \in Block /\ bytes \in Nat
    <3>1. p # NULL /\ cap \in Nat /\ p \in Nat
      BY <1>1, <1>8 DEF NeedsRoom, StrRecord
    <3>2. p \in DOMAIN heap
      BY <3>1 DEF StrallocInv, Held
    <3> QED BY <1>1, <1>2, <1>8, <3>1, <3>2 DEF NeedsRoom, HeapTypeOK, Block
  <2>2. /\ sa' = [sa EXCEPT ![x].len = Len(text)]
        /\ heap' = [heap EXCEPT ![p].text = text]
        /\ salog' = [log EXCEPT !.overrun = over]
        /\ avail' = avail
    BY <1>8 DEF Write
  <2>3. cap <= bytes
    BY <1>6, <2>1 DEF StrallocInv, StrallocFits, Intact
  <2>4. ~ Wraps(x, need) => Len(text) + 1 <= cap
    BY <1>2, <2>1, StrallocAssumption DEF Wraps, need
  <2>5. over \in BOOLEAN
    OBVIOUS
  <2>6. /\ salog' \in CallLog /\ salog'.overrun = over
        /\ salog'.want = log.want /\ salog'.wrapped = log.wrapped
        /\ salog'.dangling = log.dangling
    <3> HIDE DEF over
    <3> QED BY <1>4, <2>2, <2>5 DEF CallLog
  <2>7. Logged(x, text, bytes)
    <3>1. over => Wraps(x, need)
      BY <1>2, <2>1, <2>3, <2>4
    <3>2. Len(text) + 1 > bytes => over
      OBVIOUS
    <3> HIDE DEF over, bytes
    <3> QED BY <1>4, <2>6, <3>1, <3>2 DEF Logged
  <2>8. Settled(x, text, p, cap, bytes)
    <3>1. sa' = [sa EXCEPT ![x] = [s |-> p, len |-> Len(text), a |-> cap]]
      <4> DEFINE r == [sa[x] EXCEPT !.len = Len(text)]
      <4>1. sa[x] \in StrRecord
        BY <1>1
      <4>2. r = [s |-> p, len |-> Len(text), a |-> cap]
        BY <4>1 DEF StrRecord
      <4>3. sa' = [sa EXCEPT ![x] = r]
        BY <2>2
      <4> QED BY <4>2, <4>3
    <3>2. heap[p] = [size |-> bytes, text |-> heap[p].text]
      BY <2>1 DEF Block
    <3>3. /\ DOMAIN heap' = DOMAIN heap /\ heap' = [q \in DOMAIN heap' |-> heap'[q]]
          /\ heap'[p] = [size |-> bytes, text |-> text]
          /\ \A q \in DOMAIN heap : q # p => heap'[q] = heap[q]
      BY <1>1, <2>1, <2>2, <3>2 DEF HeapTypeOK, Block
    <3>4. [size |-> bytes, text |-> text] \in Block
      BY <2>1 DEF Block
    <3> QED BY <1>1, <2>1, <3>1, <3>3, <3>4 DEF Settled, HeapTypeOK
  <2>9. ~ salog'.overrun /\ ~ salog'.wrapped => Len(text) + 1 <= cap /\ cap <= bytes
    BY <1>4, <2>3, <2>4, <2>6
  <2>10. avail' \in 0 .. SPACE /\ avail' <= avail
    BY <1>1, <2>2
  <2> HIDE DEF cap, over
  <2> QED BY <2>1, <2>2, <2>7, <2>8, <2>9, <2>10, SettledKeeps
<1> QED BY <1>5, <1>7, <1>8

(* As long as nothing went wrong, what a string has is what is expected.   *)
LEMMA TextIsWanted ==
  ASSUME StrallocInv, Going, NEW x \in Strs
  PROVE  /\ TextOf(x) = salog.want[x] /\ TextOf(x) \in StrText
         /\ sa[x].len = Len(TextOf(x))
BY DEF StrallocInv, StrallocHolds, StrallocTypeOK, CallLog, Going

(* Texts put together are texts, and their lengths add up.                 *)
LEMMA JoinedText ==
  ASSUME NEW s \in StrText, NEW t \in StrText
  PROVE  s \o t \in StrText /\ Len(s \o t) + 1 = Len(s) + Len(t) + 1
BY DEF StrText

(* A string is given back.                                                 *)
LEMMA FreeStep ==
  ASSUME StrallocInv, NEW x \in Strs, stralloc_free(x)
  PROVE  StrallocInv'
<1>1. /\ sa \in [Strs -> StrRecord] /\ HeapTypeOK(heap) /\ avail' = avail
      /\ salog \in CallLog /\ Going /\ Intact /\ ~ salog.dangling /\ NULL \notin Nat
  BY DEF StrallocInv, StrallocTypeOK, stralloc_free, Going, Intact, NULL
<1>2. CASE sa[x].s = NULL
  <2>1. /\ sa' = sa /\ heap' = heap /\ salog' = [salog EXCEPT !.calls = @ + 1]
    BY <1>2 DEF stralloc_free
  <2>2. /\ salog' \in CallLog /\ salog'.want = salog.want
        /\ salog'.overrun = salog.overrun /\ salog'.wrapped = salog.wrapped
        /\ salog'.dangling = salog.dangling
    BY <1>1, <2>1 DEF CallLog
  <2>3. StrallocTypeOK' /\ Held' /\ NoLeak' /\ PoolBelow'
    BY <1>1, <2>1, <2>2
    DEF StrallocInv, StrallocTypeOK, HeapTypeOK, Held, NoLeak, PoolBelow, InPool, Intact
  <2>4. StrallocHolds' /\ StrallocFits'
    BY <2>1, <2>2 DEF StrallocInv, StrallocHolds, TextOf, StrallocFits, InPool
  <2> QED BY <1>1, <2>2, <2>3, <2>4 DEF StrallocInv
<1>3. CASE sa[x].s # NULL
  <2>1. /\ heap' = Freed(heap, sa[x].s) /\ sa' = [sa EXCEPT ![x] = Fresh]
        /\ salog' = [salog EXCEPT !.calls = @ + 1, !.want[x] = <<>>]
    BY <1>3 DEF stralloc_free
  <2>2. /\ salog' \in CallLog /\ salog'.want = [salog.want EXCEPT ![x] = <<>>]
        /\ salog'.overrun = salog.overrun /\ salog'.wrapped = salog.wrapped
        /\ salog'.dangling = salog.dangling
    <3> DEFINE want == [salog.want EXCEPT ![x] = <<>>]
    <3>1. /\ want \in [Strs -> StrText] /\ salog.calls + 1 \in Nat
          /\ salog' = [salog EXCEPT !.calls = @ + 1, !.want = want]
      BY <1>1, <2>1 DEF CallLog, StrText
    <3> HIDE DEF want
    <3>2. /\ salog' \in CallLog /\ salog'.want = want
          /\ salog'.overrun = salog.overrun /\ salog'.wrapped = salog.wrapped
          /\ salog'.dangling = salog.dangling
      BY <1>1, <3>1 DEF CallLog
    <3> QED BY <3>2 DEF want
  <2>3. /\ sa' \in [Strs -> StrRecord]
        /\ sa'[x].s = NULL /\ sa'[x].len = 0
        /\ \A z \in Strs : z # x => sa'[z] = sa[z]
    BY <1>1, <2>1 DEF StrRecord, Fresh
  <2>4. /\ HeapTypeOK(heap')
        /\ \A q \in DOMAIN heap : q # sa[x].s => q \in DOMAIN heap' /\ heap'[q] = heap[q]
        /\ \A q \in DOMAIN heap' : q \in DOMAIN heap /\ (~ InPool(q) => q # sa[x].s)
    BY <1>1, <2>1 DEF HeapTypeOK, Freed, Without
  <2>5. \A z \in Strs : z # x /\ sa[z].s # NULL => sa[z].s \in DOMAIN heap /\ sa[z].s # sa[x].s
    BY <1>1, <1>3 DEF StrallocInv, Held, StrallocFits, Intact
  <2>6. StrallocTypeOK' /\ Held'
    BY <1>1, <2>2, <2>3, <2>4, <2>5 DEF StrallocInv, StrallocTypeOK, Held
  <2>7. NoLeak'
    <3>1. ASSUME NEW q \in DOMAIN heap', ~ InPool(q)
          PROVE  \E z \in Strs : sa'[z].s = q
      <4>1. q \in DOMAIN heap /\ q # sa[x].s
        BY <2>4, <3>1
      <4>2. PICK z \in Strs : sa[z].s = q
        BY <3>1, <4>1 DEF StrallocInv, NoLeak
      <4> QED BY <2>3, <4>1, <4>2
    <3> QED BY <3>1 DEF NoLeak, InPool
  <2>8. PoolBelow'
    BY <1>1, <2>3 DEF StrallocInv, PoolBelow, InPool
  <2>9. StrallocHolds'
    <3>1. ASSUME NEW z \in Strs, z # x
          PROVE  /\ (IF sa'[z].s = NULL THEN <<>> ELSE heap'[sa'[z].s].text) = salog'.want[z]
                 /\ sa'[z].len = Len(salog'.want[z])
      <4>1. /\ (IF sa[z].s = NULL THEN <<>> ELSE heap[sa[z].s].text) = salog.want[z]
            /\ sa[z].len = Len(salog.want[z])
        BY <1>1 DEF StrallocInv, StrallocHolds, TextOf, Intact
      <4>2. salog'.want[z] = salog.want[z]
        BY <1>1, <2>2, <3>1 DEF CallLog
      <4> QED BY <2>3, <2>4, <2>5, <3>1, <4>1, <4>2
    <3>2. salog'.want[x] = <<>>
      BY <1>1, <2>2 DEF CallLog
    <3> QED BY <2>3, <3>1, <3>2 DEF StrallocHolds, TextOf
  <2>10. StrallocFits'
    <3>1. ~ salog'.overrun /\ ~ salog.overrun /\ ~ salog.wrapped
      BY <1>1, <2>2 DEF Intact
    <3>2. \A z \in Strs : sa'[z].s # NULL =>
            z # x /\ sa'[z] = sa[z] /\ sa[z].s # NULL /\ heap'[sa[z].s] = heap[sa[z].s]
      BY <2>3, <2>4, <2>5
    <3> QED BY <3>1, <3>2 DEF StrallocInv, StrallocFits, InPool
  <2> QED BY <1>1, <2>2, <2>6, <2>7, <2>8, <2>9, <2>10 DEF StrallocInv
<1> QED BY <1>2, <1>3

(* A string is appended to another one, or to itself: its text is then     *)
(* read after the growth.                                                  *)
LEMMA CatStep ==
  ASSUME StrallocInv, NEW x \in Strs, NEW y \in Strs, stralloc_cat(x, y)
  PROVE  StrallocInv'
<1> DEFINE need == sa[x].len + sa[y].len + 1
           reads == sa[x].s = sa[y].s /\ NeedsRoom(x, Uint(need)) /\ ~ InPool(sa[x].s)
<1>1. Going /\ Intact /\ salog \in CallLog /\ sa[y].s # NULL
  BY DEF stralloc_cat, Going, Intact, StrallocInv, StrallocTypeOK
<1>2. CASE reads
  <2>1. /\ salog' = [salog EXCEPT !.dangling = TRUE, !.self = x = y]
        /\ sa' = sa /\ heap' = heap /\ avail' = avail
    BY <1>2 DEF stralloc_cat
  <2>2. x = y
    BY <1>1, <1>2 DEF StrallocInv, StrallocFits, Intact
  <2>3. salog' = [salog EXCEPT !.dangling = TRUE, !.self = TRUE]
    BY <2>1, <2>2
  <2>4. /\ salog' \in CallLog /\ salog'.want = salog.want /\ salog'.self
        /\ salog'.overrun = salog.overrun /\ salog'.wrapped = salog.wrapped
    BY <1>1, <2>3 DEF CallLog
  <2>5. StrallocTypeOK' /\ Held' /\ NoLeak' /\ PoolBelow'
    BY <2>1, <2>4
    DEF StrallocInv, StrallocTypeOK, HeapTypeOK, Held, NoLeak, PoolBelow, InPool, Intact
  <2>6. StrallocHolds' /\ StrallocFits'
    BY <2>1, <2>4 DEF StrallocInv, StrallocHolds, TextOf, StrallocFits, InPool
  <2> QED BY <2>4, <2>5, <2>6 DEF StrallocInv
<1>3. CASE ~ reads
  <2> DEFINE text == TextOf(x) \o TextOf(y)
  <2>1. Become(x, need, text, salog.want[x] \o salog.want[y])
    BY <1>3 DEF stralloc_cat
  <2>2. /\ text \in StrText /\ Len(text) + 1 = need
        /\ salog.want[x] \o salog.want[y] = text
    <3>1. /\ TextOf(x) = salog.want[x] /\ TextOf(x) \in StrText /\ sa[x].len = Len(TextOf(x))
          /\ TextOf(y) = salog.want[y] /\ TextOf(y) \in StrText /\ sa[y].len = Len(TextOf(y))
      BY <1>1, TextIsWanted
    <3>2. text \in StrText /\ Len(text) + 1 = Len(TextOf(x)) + Len(TextOf(y)) + 1
      BY <3>1, JoinedText
    <3> QED BY <3>1, <3>2
  <2> HIDE DEF text, need
  <2> QED BY <1>1, <2>1, <2>2, BecomeStep
<1> QED BY <1>2, <1>3

-----------------------------------------------------------------------------
(* The first state: no string has a block.                                 *)
LEMMA StrallocFirst == StrallocInit => StrallocInv
<1> SUFFICES ASSUME StrallocInit PROVE StrallocInv
  OBVIOUS
<1>1. /\ \A x \in Strs : sa[x].s = NULL /\ sa[x].len = 0 /\ salog.want[x] = <<>>
      /\ DOMAIN heap = {} /\ ~ salog.overrun /\ ~ salog.dangling
  BY DEF StrallocInit, Fresh
<1>2. StrallocTypeOK
  <2>1. HeapTypeOK(heap)
    BY DEF StrallocInit, HeapTypeOK
  <2>2. [x \in Strs |-> <<>>] \in [Strs -> StrText]
    BY DEF StrText
  <2> QED BY <2>1, <2>2, StrallocAssumption
          DEF StrallocInit, StrallocTypeOK, StrRecord, Fresh, CallLog
<1>3. StrallocHolds
  BY <1>1 DEF StrallocHolds, TextOf
<1> QED BY <1>1, <1>2, <1>3 DEF StrallocInv, Held, NoLeak, PoolBelow, StrallocFits

(* The invariant is inductive: every call keeps it, whether memory is      *)
(* found or not.                                                           *)
THEOREM StrallocInvariance == StrallocSpec => []StrallocInv
<1>1. StrallocInv /\ [StrallocNext]_strallocVars => StrallocInv'
  <2> SUFFICES ASSUME StrallocInv, [StrallocNext]_strallocVars PROVE StrallocInv'
    OBVIOUS
  <2>1. ASSUME NEW x \in Strs, NEW d \in Pieces, stralloc_copyb(x, d)
        PROVE  StrallocInv'
    BY <2>1, PieceIsText, BecomeStep DEF stralloc_copyb
  <2>2. ASSUME NEW x \in Strs, NEW d \in Pieces, stralloc_catb(x, d)
        PROVE  StrallocInv'
    <3> DEFINE text == TextOf(x) \o d
    <3>1. Going /\ Become(x, sa[x].len + Len(d) + 1, text, salog.want[x] \o d)
      BY <2>2 DEF stralloc_catb
    <3>2. /\ text \in StrText /\ Len(text) + 1 = sa[x].len + Len(d) + 1
          /\ salog.want[x] \o d = text
      BY <3>1, PieceIsText, TextIsWanted, JoinedText
    <3> HIDE DEF text
    <3> QED BY <3>1, <3>2, BecomeStep
  <2>3. ASSUME NEW x \in Strs, NEW y \in Strs, stralloc_copy(x, y)
        PROVE  StrallocInv'
    BY <2>3, TextIsWanted, BecomeStep DEF stralloc_copy
  <2>4. ASSUME UNCHANGED strallocVars PROVE StrallocInv'
    <3>1. sa' = sa /\ heap' = heap /\ avail' = avail /\ salog' = salog
      BY <2>4 DEF strallocVars
    <3>2. StrallocTypeOK' /\ Held' /\ NoLeak' /\ PoolBelow'
      BY <3>1
      DEF StrallocInv, StrallocTypeOK, HeapTypeOK, Held, NoLeak, PoolBelow, InPool, Intact
    <3>3. StrallocHolds' /\ StrallocFits'
      BY <3>1 DEF StrallocInv, StrallocHolds, TextOf, StrallocFits, InPool
    <3> QED BY <3>1, <3>2, <3>3 DEF StrallocInv
  <2> QED BY <2>1, <2>2, <2>3, <2>4, CatStep, FreeStep DEF StrallocNext
<1> QED BY <1>1, StrallocFirst, PTL DEF StrallocSpec

(* For any strings, texts, sizes of the pool and width of unsigned int:    *)
(* a string holds what the calls made of it, inside a block that is its    *)
(* alone; no block is overrun unless a size wraps, none of malloc's is     *)
(* lost, and a freed one is read only by appending a string to itself.     *)
THEOREM StringsAreSafe == StrallocSpec => []StringsSafe
<1>1. StrallocInv => StringsSafe
  <2> SUFFICES ASSUME StrallocInv PROVE HeapOwned
    BY DEF StringsSafe, StrallocInv
  <2> DEFINE T == {sa[x].s : x \in Strs}
  <2>1. ASSUME NEW p \in DOMAIN heap, ~ InPool(p) PROVE p \in T /\ p # NULL
    <3>1. p \in Nat /\ NULL \notin Nat
      BY DEF StrallocInv, StrallocTypeOK, HeapTypeOK, NULL
    <3> QED BY <2>1, <3>1 DEF StrallocInv, NoLeak
  <2>2. ASSUME NEW p \in T, p # NULL PROVE p \in DOMAIN heap
    BY <2>2 DEF StrallocInv, Held
  <2>3. {p \in DOMAIN heap : ~ InPool(p)} = {p \in T : p # NULL /\ ~ InPool(p)}
    <3> HIDE DEF T
    <3> QED BY <2>1, <2>2
  <2> QED BY <2>3 DEF HeapOwned, StrallocInv
<1> QED BY <1>1, StrallocInvariance, PTL

-----------------------------------------------------------------------------
(* c/libgs/ctcrypt/ctcrypt.c.                                              *)

CryptSpec == CryptInit /\ [][CryptNext]_crypt

(* The digits of the digest d, from 0 on: two for a byte.                  *)
Digit(d, j) == IF j % 2 = 0 THEN d[j \div 2 + 1] \div 16 ELSE d[j \div 2 + 1] % 16

(* The record, a digest whose text size_t can count, and a size that is a  *)
(* size_t.                                                                 *)
CryptTypeOK ==
  /\ crypt = [digest |-> crypt.digest, size |-> crypt.size, pieces |-> crypt.pieces,
              i |-> crypt.i, pout_len |-> crypt.pout_len, out |-> crypt.out,
              ret |-> crypt.ret, defined |-> crypt.defined]
  /\ crypt.digest \in Seq(HashByte) /\ 2 * Len(crypt.digest) < SizeMod
  /\ crypt.size \in 0 .. SizeMod - 1
  /\ crypt.i \in Nat /\ crypt.pout_len \in Nat
  /\ crypt.ret \in {NoCall, InCall, 0, 1}

(* A call prints the digits of its digest, one or two at a time, and       *)
(* pout_len counts all of them.                                            *)
Printing ==
  \/ crypt.ret \in {NoCall, 1} /\ crypt.i = 0 /\ crypt.pout_len = 0
  \/ /\ crypt.ret \in {InCall, 0}
     /\ crypt.i <= Len(crypt.pieces)
     /\ crypt.ret = 0 => crypt.i = Len(crypt.pieces)
     /\ \/ crypt.pieces = HalfBytes(crypt.digest) /\ crypt.pout_len = crypt.i
        \/ crypt.pieces = WholeBytes(crypt.digest) /\ crypt.pout_len = 2 * crypt.i

(* Where the text ends in the buffer, after at digits.                     *)
EndOf(at, cap) == IF at < cap THEN at ELSE cap - 1

(* After at digits the buffer holds them, or as many as fit, with a NUL;   *)
(* and behind the buffer nothing is written before at has passed its end.  *)
Printed(d, cap, at, out) ==
  /\ at = 0 => DOMAIN out = {}
  /\ at > 0 /\ cap > 0 =>
       /\ 0 .. EndOf(at, cap) \subseteq DOMAIN out
       /\ \A j \in 0 .. EndOf(at, cap) - 1 : out[j] = Digit(d, j)
       /\ out[EndOf(at, cap)] = NulDigit
  /\ \A a \in DOMAIN out : a \in Nat /\ (a < cap \/ at >= cap + 2)

(* The inductive invariant of the digests.                                 *)
CryptInv ==
  CryptTypeOK /\ Printing /\ Printed(crypt.digest, crypt.size, crypt.pout_len, crypt.out)

(* A number is even or odd.                                                *)
LEMMA Halves ==
  ASSUME NEW j \in Nat
  PROVE  \E q \in Nat : /\ j = 2 * q \/ j = 2 * q + 1
                        /\ j = 2 * q => j % 2 = 0 /\ j \div 2 = q
                        /\ j = 2 * q + 1 => j % 2 = 1 /\ j \div 2 = q
<1>1. j \div 2 \in Nat /\ (j % 2 = 0 \/ j % 2 = 1) /\ j = 2 * (j \div 2) + (j % 2)
  OBVIOUS
<1> QED BY <1>1

(* What that means for % and \div.                                         *)
LEMMA EvenOdd ==
  ASSUME NEW q \in Nat
  PROVE  /\ (2 * q) % 2 = 0 /\ (2 * q) \div 2 = q
         /\ (2 * q + 1) % 2 = 1 /\ (2 * q + 1) \div 2 = q
OBVIOUS

(* A text of ct_md5 and ct_sha1 is the next digit.                         *)
LEMMA HalfText ==
  ASSUME NEW d \in Seq(HashByte), NEW i \in 0 .. 2 * Len(d) - 1
  PROVE  HalfBytes(d)[i + 1] = <<Digit(d, i)>>
<1>0. Len(d) \in Nat /\ i \in Nat OBVIOUS
<1>1. PICK q \in Nat : i = 2 * q \/ i = 2 * q + 1 BY <1>0, Halves
<1>2. i + 1 \in 1 .. 2 * Len(d) BY <1>0
<1>3. HalfBytes(d)[i + 1] = <<IF (i + 1) % 2 = 1 THEN d[((i + 1) + 1) \div 2] \div 16
                              ELSE d[(i + 1) \div 2] % 16>>
  BY <1>2 DEF HalfBytes
<1>4. CASE i = 2 * q
  <2>1. (i + 1) % 2 = 1 /\ i % 2 = 0 /\ i \div 2 = q BY <1>4, EvenOdd
  <2>2. ((i + 1) + 1) \div 2 = q + 1 BY <1>4
  <2> QED BY <1>3, <2>1, <2>2 DEF Digit
<1>5. CASE i = 2 * q + 1
  <2>1. i + 1 = 2 * (q + 1) BY <1>5
  <2>2. i % 2 = 1 /\ i \div 2 = q BY <1>5, EvenOdd
  <2>3. (i + 1) % 2 = 0 /\ (i + 1) \div 2 = q + 1 BY <2>1, EvenOdd
  <2> QED BY <1>3, <2>2, <2>3 DEF Digit
<1> QED BY <1>1, <1>4, <1>5

(* A text of ct_hash_hmac is the next two digits.                          *)
LEMMA WholeText ==
  ASSUME NEW d \in Seq(HashByte), NEW i \in 0 .. Len(d) - 1
  PROVE  WholeBytes(d)[i + 1] = <<Digit(d, 2 * i), Digit(d, 2 * i + 1)>>
<1>0. Len(d) \in Nat /\ i \in Nat OBVIOUS
<1>1. i + 1 \in DOMAIN d BY <1>0
<1>2. WholeBytes(d)[i + 1] = <<d[i + 1] \div 16, d[i + 1] % 16>>
  BY <1>1 DEF WholeBytes, TwoDigits
<1>3. /\ (2 * i) % 2 = 0 /\ (2 * i) \div 2 = i
      /\ (2 * i + 1) % 2 = 1 /\ (2 * i + 1) \div 2 = i
  BY <1>0, EvenOdd
<1> QED BY <1>2, <1>3 DEF Digit

(* out_str_size - pout_len, in a size_t.                                   *)
LEMMA Room ==
  ASSUME NEW cap \in 0 .. SizeMod - 1, NEW at \in 0 .. SizeMod - 1
  PROVE  /\ (cap - at) % SizeMod \in Nat
         /\ at < cap => (cap - at) % SizeMod = cap - at
         /\ at = cap => (cap - at) % SizeMod = 0
         /\ at > cap => (cap - at) % SizeMod > 0
<1> DEFINE M == SizeMod
<1>1. M \in Nat \ {0} BY CryptAssumption
<1> HIDE DEF M
<1>2. ASSUME NEW s \in 0 .. M - 1, NEW t \in 0 .. M - 1
      PROVE  /\ (s - t) % M \in Nat
             /\ t < s => (s - t) % M = s - t
             /\ t = s => (s - t) % M = 0
             /\ t > s => (s - t) % M > 0
  BY <1>1
<1> QED BY <1>2 DEF M

(* An snprintf of the next one or two digits keeps the buffer as Printed   *)
(* describes it: it writes what fits, nothing if pout_len has reached the  *)
(* end of the buffer, and behind the buffer if it has passed it.           *)
LEMMA PrintedMore ==
  ASSUME CryptTypeOK, NEW text, NEW at \in Nat, at = crypt.pout_len,
         Printed(crypt.digest, crypt.size, at, crypt.out),
         Len(text) \in {1, 2}, at + Len(text) <= 2 * Len(crypt.digest),
         \A k \in 1 .. Len(text) : text[k] = Digit(crypt.digest, at + k - 1)
  PROVE  Printed(crypt.digest, crypt.size, at + Len(text), snprintf(text))
<1>w. PICK w \in {1, 2} : w = Len(text) OBVIOUS
<1> DEFINE d == crypt.digest
           cap == crypt.size
           out == crypt.out
           room == (cap - at) % SizeMod
           last == at + (IF w < room THEN w ELSE room - 1)
<1>0. /\ SizeMod \in Nat \ {0} /\ Len(d) \in Nat /\ cap \in 0 .. SizeMod - 1
      /\ at \in 0 .. SizeMod - 1
  BY CryptAssumption, <1>w DEF CryptTypeOK
<1>1. /\ room \in Nat
      /\ at < cap => room = cap - at
      /\ at = cap => room = 0
      /\ at > cap => room > 0
  BY <1>0, Room
<1>2. CASE room = 0
  <2>1. snprintf(text) = out BY <1>2 DEF snprintf
  <2>2. at = cap BY <1>0, <1>1, <1>2
  <2>3. EndOf(at, cap) = cap - 1 /\ EndOf(at + w, cap) = cap - 1
    BY <1>0, <2>2 DEF EndOf
  <2>4. at + w > 0 BY <1>0
  <2>5. cap > 0 => at > 0 BY <2>2
  <2>6. \A a \in DOMAIN out : a < cap
    BY <1>0, <2>2 DEF Printed
  <2> HIDE DEF d, cap, out
  <2> QED BY <1>w, <2>1, <2>3, <2>4, <2>5, <2>6 DEF Printed, d, cap, out
<1>3. CASE room # 0
  <2> DEFINE new == snprintf(text)
  <2>1. new = [a \in DOMAIN out \cup at .. last |->
                 IF a \in at .. last - 1 THEN text[a - at + 1]
                 ELSE IF a = last THEN NulDigit ELSE out[a]]
    BY <1>0, <1>3, <1>w DEF snprintf
  <2>2. last \in Nat /\ at <= last /\ last - at <= w
    <3> HIDE DEF room
    <3> QED BY <1>0, <1>1, <1>3
  <2> HIDE DEF d, cap, out, room, last, new
  <2>3. DOMAIN new = DOMAIN out \cup at .. last BY <2>1
  <2>4. \A a \in at .. last - 1 : a \in DOMAIN new /\ new[a] = text[a - at + 1] BY <2>1, <2>2
  <2>5. last \in DOMAIN new /\ new[last] = NulDigit BY <2>1, <2>2
  <2>6. \A a \in DOMAIN out : a \notin at .. last => new[a] = out[a] BY <2>1, <2>2
  <2>7. \A a \in at .. last - 1 : new[a] = Digit(d, a)
    <3> SUFFICES ASSUME NEW a \in at .. last - 1 PROVE new[a] = Digit(d, a)
      OBVIOUS
    <3>0. /\ at \in Nat /\ last \in Nat /\ w \in Nat /\ a \in Int
          /\ at <= a /\ a <= last - 1 /\ last - at <= w
      BY <1>0, <2>2
    <3>1. a - at + 1 \in 1 .. w /\ at + (a - at + 1) - 1 = a
      <4>1. a - at + 1 \in Int /\ 1 <= a - at + 1 /\ at + (a - at + 1) - 1 = a BY <3>0
      <4>2. a - at + 1 <= w BY <3>0
      <4> QED BY <4>1, <4>2, <3>0
    <3>2. text[a - at + 1] = Digit(d, at + (a - at + 1) - 1) BY <1>w, <3>1 DEF d
    <3> QED BY <2>4, <3>1, <3>2
  <2>8. at + w > 0 BY <1>0
  <2>9. CASE at < cap
    <3>1. last = EndOf(at + w, cap)
      <4>1. room = cap - at /\ cap \in Nat /\ at \in Nat
        BY <1>0, <1>1, <2>9
      <4>2. CASE w < room
        <5>1. last = at + w BY <4>2 DEF last
        <5>2. at + w < cap BY <4>1, <4>2
        <5> QED BY <5>1, <5>2 DEF EndOf
      <4>3. CASE ~ (w < room)
        <5>1. last = at + (room - 1) BY <4>3 DEF last
        <5>2. ~ (at + w < cap) /\ at + (room - 1) = cap - 1 BY <4>1, <4>3
        <5> QED BY <5>1, <5>2 DEF EndOf
      <4> QED BY <4>2, <4>3
    <3>2. last < cap BY <1>0, <1>1, <2>9 DEF last
    <3>3. at > 0 => /\ 0 .. at \subseteq DOMAIN out
                    /\ \A j \in 0 .. at - 1 : out[j] = Digit(d, j)
      BY <1>0, <2>9 DEF Printed, EndOf, d, cap, out
    <3>4. \A j \in 0 .. last : j \in DOMAIN new
      <4> SUFFICES ASSUME NEW j \in 0 .. last PROVE j \in DOMAIN out \cup at .. last
        BY <2>3
      <4>1. CASE j >= at BY <1>0, <2>2, <4>1
      <4>2. CASE j < at
        <5>1. at > 0 /\ j \in 0 .. at BY <1>0, <2>2, <4>2
        <5> QED BY <3>3, <5>1
      <4> QED BY <1>0, <2>2, <4>1, <4>2
    <3>5. \A j \in 0 .. last - 1 : new[j] = Digit(d, j)
      <4> SUFFICES ASSUME NEW j \in 0 .. last - 1 PROVE new[j] = Digit(d, j)
        OBVIOUS
      <4>1. CASE j >= at BY <1>0, <2>2, <2>7, <4>1
      <4>2. CASE j < at
        <5>1. at > 0 /\ j \in 0 .. at - 1 /\ j \notin at .. last /\ j \in 0 .. at
          BY <1>0, <2>2, <4>2
        <5>2. j \in DOMAIN out /\ out[j] = Digit(d, j) BY <3>3, <5>1
        <5> QED BY <2>6, <5>1, <5>2
      <4> QED BY <1>0, <2>2, <4>1, <4>2
    <3>6. \A a \in DOMAIN out : a \in Nat /\ a < cap
      BY <1>0, <2>9 DEF Printed, d, cap, out
    <3>7. \A a \in DOMAIN new : a \in Nat /\ a < cap
      BY <1>0, <2>2, <2>3, <3>2, <3>6
    <3> QED BY <1>w, <2>5, <2>8, <3>1, <3>4, <3>5, <3>7 DEF Printed, d, cap, new
  <2>10. CASE at > cap
    <3>1. EndOf(at, cap) = cap - 1 /\ EndOf(at + w, cap) = cap - 1
      BY <1>0, <2>10 DEF EndOf
    <3>2. at > 0 BY <1>0, <2>10
    <3>3. cap > 0 =>
            /\ 0 .. cap - 1 \subseteq DOMAIN out
            /\ \A j \in 0 .. (cap - 1) - 1 : out[j] = Digit(d, j)
            /\ out[cap - 1] = NulDigit
      BY <3>1, <3>2 DEF Printed, d, cap, out
    <3>4. \A j \in 0 .. cap - 1 : j \in 0 .. cap - 1 /\ j \notin at .. last
      BY <1>0, <2>2, <2>10
    <3>5. cap > 0 =>
            /\ 0 .. cap - 1 \subseteq DOMAIN new
            /\ \A j \in 0 .. (cap - 1) - 1 : new[j] = Digit(d, j)
            /\ new[cap - 1] = NulDigit
      <4>1. \A j \in 0 .. (cap - 1) - 1 : j \in 0 .. cap - 1 BY <1>0
      <4>2. cap > 0 => cap - 1 \in 0 .. cap - 1 BY <1>0
      <4> QED BY <2>3, <2>6, <3>3, <3>4, <4>1, <4>2
    <3>6. at + w >= cap + 2 BY <1>0, <2>10
    <3>7. \A a \in DOMAIN out : a \in Nat BY DEF Printed, out
    <3>8. \A a \in DOMAIN new : a \in Nat BY <1>0, <2>2, <2>3, <3>7
    <3> QED BY <1>w, <2>8, <3>1, <3>5, <3>6, <3>8 DEF Printed, d, cap, new
  <2> QED BY <1>0, <1>1, <1>3, <2>9, <2>10
<1> QED BY <1>2, <1>3

(* A call begins, or fails before it prints.                               *)
LEMMA CryptCallsOK ==
  ASSUME CryptInv, Calls
  PROVE  CryptInv'
<1> USE DEF CryptInv
<1>1. crypt.ret = NoCall BY DEF Calls
<1>2. /\ crypt.i = 0 /\ crypt.pout_len = 0 /\ DOMAIN crypt.out = {}
  BY <1>1 DEF Printing, Printed, InCall, NoCall
<1>3. PICK cap \in OutSizes :
        \/ \E d \in Digests(Md5Len), empty \in BOOLEAN : ct_md5(d, cap, empty)
        \/ \E d \in Digests(Sha1Len) : ct_sha1(d, cap)
        \/ \E n \in HmacLens : \E d \in Digests(n), listed \in BOOLEAN :
             ct_hash_hmac(d, cap, listed)
  BY DEF Calls
<1>4. cap \in 0 .. SizeMod - 1 BY CryptAssumption
<1>5. ASSUME NEW n \in {Md5Len, Sha1Len} \cup HmacLens, NEW d \in Digests(n)
      PROVE  d \in Seq(HashByte) /\ Len(d) = n /\ 2 * Len(d) < SizeMod
  <2>1. n \in Nat /\ 2 * n < SizeMod BY CryptAssumption
  <2> QED BY <2>1 DEF Digests
<1>6. ASSUME NEW n \in {Md5Len, Sha1Len} \cup HmacLens, NEW d \in Digests(n), Refuses(d, cap)
      PROVE  CryptInv'
  <2>1. /\ crypt' = [digest |-> d, size |-> cap, pieces |-> crypt.pieces,
                     i |-> crypt.i, pout_len |-> crypt.pout_len, out |-> crypt.out,
                     ret |-> 1, defined |-> crypt.defined]
    BY <1>6 DEF Refuses, CryptTypeOK
  <2>2. CryptTypeOK' BY <1>2, <1>4, <1>5, <1>6, <2>1 DEF CryptTypeOK
  <2>3. Printing' BY <1>2, <2>1 DEF Printing
  <2>4. Printed(d, cap, 0, crypt.out) BY <1>2 DEF Printed
  <2>5. Printed(crypt.digest, crypt.size, crypt.pout_len, crypt.out)' BY <1>2, <2>1, <2>4
  <2> QED BY <2>2, <2>3, <2>5
<1>7. ASSUME NEW n \in {Md5Len, Sha1Len} \cup HmacLens, NEW d \in Digests(n), NEW pieces,
             NEW defined, pieces = HalfBytes(d) \/ pieces = WholeBytes(d),
             Gives(d, pieces, cap, defined)
      PROVE  CryptInv'
  <2>1. /\ crypt' = [digest |-> d, size |-> cap, pieces |-> pieces,
                     i |-> crypt.i, pout_len |-> crypt.pout_len, out |-> crypt.out,
                     ret |-> InCall, defined |-> defined]
    BY <1>7 DEF Gives, CryptTypeOK
  <2>2. CryptTypeOK' BY <1>2, <1>4, <1>5, <1>7, <2>1 DEF CryptTypeOK
  <2>3. Len(d) \in Nat /\ DOMAIN d = 1 .. Len(d) BY <1>5, <1>7
  <2>4. Len(pieces) \in Nat
    <3>1. CASE pieces = HalfBytes(d) BY <2>3, <3>1 DEF HalfBytes
    <3>2. CASE pieces = WholeBytes(d) BY <2>3, <3>2 DEF WholeBytes
    <3> QED BY <1>7, <3>1, <3>2
  <2>5. Printing' BY <1>2, <1>7, <2>1, <2>4 DEF Printing, InCall
  <2>6. Printed(d, cap, 0, crypt.out) BY <1>2 DEF Printed
  <2>7. Printed(crypt.digest, crypt.size, crypt.pout_len, crypt.out)' BY <1>2, <2>1, <2>6
  <2> QED BY <2>2, <2>5, <2>7
<1>8. CASE \E d \in Digests(Md5Len), empty \in BOOLEAN : ct_md5(d, cap, empty)
  BY <1>6, <1>7, <1>8 DEF ct_md5
<1>9. CASE \E d \in Digests(Sha1Len) : ct_sha1(d, cap)
  BY <1>6, <1>7, <1>9 DEF ct_sha1
<1>10. CASE \E n \in HmacLens : \E d \in Digests(n), listed \in BOOLEAN :
             ct_hash_hmac(d, cap, listed)
  BY <1>6, <1>7, <1>10 DEF ct_hash_hmac
<1> QED BY <1>3, <1>8, <1>9, <1>10

(* A turn of the loop.                                                     *)
LEMMA CryptPrintsOK ==
  ASSUME CryptInv, Prints
  PROVE  CryptInv'
<1> USE DEF CryptInv
<1> DEFINE d == crypt.digest
           text == crypt.pieces[crypt.i + 1]
           at == crypt.pout_len
<1>1. /\ crypt.ret = InCall /\ crypt.i < Len(crypt.pieces)
      /\ crypt' = [crypt EXCEPT !.i = @ + 1, !.pout_len = @ + Len(text), !.out = snprintf(text)]
  BY DEF Prints
<1>2. d \in Seq(HashByte) /\ Len(d) \in Nat /\ DOMAIN d = 1 .. Len(d) /\ crypt.i \in Nat
      /\ at \in Nat
  BY DEF CryptTypeOK
<1>3. \/ crypt.pieces = HalfBytes(d) /\ at = crypt.i
      \/ crypt.pieces = WholeBytes(d) /\ at = 2 * crypt.i
  BY <1>1 DEF Printing, InCall, NoCall
<1>4. /\ Len(text) \in {1, 2} /\ at + Len(text) <= 2 * Len(d)
      /\ \A k \in 1 .. Len(text) : text[k] = Digit(d, at + k - 1)
      /\ Len(crypt.pieces) \in Nat
      /\ \/ crypt.pieces = HalfBytes(d) /\ Len(text) = 1 /\ at = crypt.i
         \/ crypt.pieces = WholeBytes(d) /\ Len(text) = 2 /\ at = 2 * crypt.i
  <2>1. CASE crypt.pieces = HalfBytes(d) /\ at = crypt.i
    <3>1. Len(crypt.pieces) = 2 * Len(d) BY <1>2, <2>1 DEF HalfBytes
    <3>2. crypt.i \in 0 .. 2 * Len(d) - 1 BY <1>1, <1>2, <3>1
    <3>3. text = <<Digit(d, crypt.i)>> BY <1>2, <2>1, <3>2, HalfText
    <3> HIDE DEF d, text, at
    <3>4. Len(text) = 1 /\ text[1] = Digit(d, at) BY <2>1, <3>3
    <3>5. \A k \in 1 .. Len(text) : k = 1 /\ at + k - 1 = at BY <1>2, <3>4
    <3> QED BY <1>2, <2>1, <3>1, <3>2, <3>4, <3>5
  <2>2. CASE crypt.pieces = WholeBytes(d) /\ at = 2 * crypt.i
    <3>1. Len(crypt.pieces) = Len(d) BY <1>2, <2>2 DEF WholeBytes
    <3>2. crypt.i \in 0 .. Len(d) - 1 BY <1>1, <1>2, <3>1
    <3>3. text = <<Digit(d, 2 * crypt.i), Digit(d, 2 * crypt.i + 1)>>
      BY <1>2, <2>2, <3>2, WholeText
    <3> HIDE DEF d, text, at
    <3>4. Len(text) = 2 /\ text[1] = Digit(d, at) /\ text[2] = Digit(d, at + 1)
      BY <2>2, <3>3
    <3>5. \A k \in 1 .. Len(text) : (k = 1 /\ at + k - 1 = at) \/ (k = 2 /\ at + k - 1 = at + 1)
      BY <1>2, <3>4
    <3>6. \A k \in 1 .. Len(text) : text[k] = Digit(d, at + k - 1) BY <3>4, <3>5
    <3> QED BY <1>2, <2>2, <3>1, <3>2, <3>4, <3>6
  <2> QED BY <1>3, <2>1, <2>2
<1>5. Printed(d, crypt.size, at + Len(text), snprintf(text))
  BY <1>2, <1>4, PrintedMore
<1> HIDE DEF text, at, d
<1>6. crypt' = [digest |-> d, size |-> crypt.size, pieces |-> crypt.pieces,
                i |-> crypt.i + 1, pout_len |-> at + Len(text), out |-> snprintf(text),
                ret |-> InCall, defined |-> crypt.defined]
  BY <1>1 DEF CryptTypeOK, d, at
<1>7. CryptTypeOK'
  BY <1>2, <1>4, <1>6 DEF CryptTypeOK, d
<1>8. Printing'
  <2>1. /\ crypt'.ret = InCall /\ crypt'.pieces = crypt.pieces /\ crypt'.digest = d
        /\ crypt'.i = crypt.i + 1 /\ crypt'.pout_len = at + Len(text)
    BY <1>6
  <2>2. crypt.i + 1 <= Len(crypt.pieces) BY <1>1, <1>2, <1>4
  <2>3. \/ crypt.pieces = HalfBytes(d) /\ at + Len(text) = crypt.i + 1
        \/ crypt.pieces = WholeBytes(d) /\ at + Len(text) = 2 * (crypt.i + 1)
    <3>1. CASE crypt.pieces = HalfBytes(d) /\ Len(text) = 1 /\ at = crypt.i
      BY <1>2, <3>1
    <3>2. CASE crypt.pieces = WholeBytes(d) /\ Len(text) = 2 /\ at = 2 * crypt.i
      <4>1. at + 2 = 2 * (crypt.i + 1) BY <1>2, <3>2
      <4> QED BY <3>2, <4>1
    <3> QED BY <1>4, <3>1, <3>2
  <2>4. InCall # 0 BY DEF InCall
  <2> QED BY <2>1, <2>2, <2>3, <2>4 DEF Printing
<1>9. Printed(crypt.digest, crypt.size, crypt.pout_len, crypt.out)'
  BY <1>5, <1>6
<1> QED BY <1>7, <1>8, <1>9

(* The loop is done.                                                       *)
LEMMA CryptReturnsOK ==
  ASSUME CryptInv, Returns
  PROVE  CryptInv'
<1> USE DEF CryptInv
<1>1. crypt.ret = InCall /\ crypt.i = Len(crypt.pieces) BY DEF Returns
<1>2. crypt' = [digest |-> crypt.digest, size |-> crypt.size, pieces |-> crypt.pieces,
                i |-> crypt.i, pout_len |-> crypt.pout_len, out |-> crypt.out,
                ret |-> 0, defined |-> crypt.defined]
  BY DEF Returns, CryptTypeOK
<1>3. CryptTypeOK' BY <1>2 DEF CryptTypeOK
<1>4. Printing' BY <1>1, <1>2 DEF Printing, InCall, NoCall, CryptTypeOK
<1>5. Printed(crypt.digest, crypt.size, crypt.pout_len, crypt.out)' BY <1>2
<1> QED BY <1>3, <1>4, <1>5

(* The invariant holds in every state.                                     *)
THEOREM CryptInvariant == CryptSpec => []CryptInv
<1>1. CryptInit => CryptInv
  <2> SUFFICES ASSUME CryptInit PROVE CryptInv
    OBVIOUS
  <2>1. SizeMod \in Nat \ {0} BY CryptAssumption
  <2>2. CryptTypeOK BY <2>1 DEF CryptInit, CryptTypeOK
  <2>3. Printing BY DEF CryptInit, Printing
  <2>4. crypt.out = <<>> BY DEF CryptInit
  <2>5. DOMAIN crypt.out = {} BY <2>4
  <2>6. crypt.pout_len = 0 BY DEF CryptInit
  <2>7. Printed(crypt.digest, crypt.size, crypt.pout_len, crypt.out)
    BY <2>5, <2>6 DEF Printed
  <2> QED BY <2>2, <2>3, <2>7 DEF CryptInv
<1>2. CryptInv /\ [CryptNext]_crypt => CryptInv'
  <2> SUFFICES ASSUME CryptInv, [CryptNext]_crypt PROVE CryptInv'
    OBVIOUS
  <2>1. CASE CryptNext
    BY <2>1, CryptCallsOK, CryptPrintsOK, CryptReturnsOK DEF CryptNext
  <2>2. CASE UNCHANGED crypt BY <2>2 DEF CryptInv, CryptTypeOK, Printing
  <2> QED BY <2>1, <2>2
<1> QED BY <1>1, <1>2, PTL DEF CryptSpec

(* A digit is one.                                                         *)
LEMMA DigitRange ==
  ASSUME NEW d \in Seq(HashByte), NEW j \in 0 .. 2 * Len(d) - 1
  PROVE  Digit(d, j) \in 0 .. 15
<1>0. Len(d) \in Nat /\ j \in Nat OBVIOUS
<1>1. PICK q \in Nat : j = 2 * q \/ j = 2 * q + 1 BY <1>0, Halves
<1>2. j \div 2 = q BY <1>1, EvenOdd
<1>3. q + 1 \in 1 .. Len(d) BY <1>0, <1>1
<1>4. PICK b \in 0 .. 255 : b = d[q + 1]
  <2>1. d[q + 1] \in HashByte BY <1>3
  <2> QED BY <2>1, CryptAssumption
<1>5. b \div 16 \in 0 .. 15 /\ b % 16 \in 0 .. 15 OBVIOUS
<1> QED BY <1>2, <1>4, <1>5 DEF Digit

(* Two digits make a byte.                                                 *)
LEMMA DigitsOfByte ==
  ASSUME NEW d \in Seq(HashByte), NEW j \in DOMAIN d
  PROVE  16 * Digit(d, 2 * j - 2) + Digit(d, 2 * j - 1) = d[j]
<1>1. PICK q \in Nat : j = q + 1
  <2>1. j \in 1 .. Len(d) /\ Len(d) \in Nat OBVIOUS
  <2>2. j - 1 \in Nat /\ j = (j - 1) + 1 BY <2>1
  <2> QED BY <2>2
<1>2. 2 * j - 2 = 2 * q /\ 2 * j - 1 = 2 * q + 1 BY <1>1
<1>3. Digit(d, 2 * q) = d[j] \div 16 /\ Digit(d, 2 * q + 1) = d[j] % 16
  BY <1>1, EvenOdd DEF Digit
<1>4. PICK b \in 0 .. 255 : b = d[j]
  <2>1. d[j] \in HashByte OBVIOUS
  <2> QED BY <2>1, CryptAssumption
<1>5. 16 * (b \div 16) + (b % 16) = b OBVIOUS
<1> QED BY <1>2, <1>3, <1>4, <1>5

(* For every digest, buffer and width of size_t that can hold their        *)
(* lengths: a buffer with room holds the text of the whole digest with its *)
(* NUL and a smaller one its beginning, and memory behind the buffer is    *)
(* written to only if it lacks two characters or more.                     *)
THEOREM DigestsPrinted == CryptSpec => []DigestText
<1>1. CryptInv => DigestText
  <2> SUFFICES ASSUME CryptInv PROVE DigestText
    OBVIOUS
  <2> USE DEF CryptInv
  <2> DEFINE d == crypt.digest
             cap == crypt.size
             text == 2 * Len(d)
             out == crypt.out
             at == crypt.pout_len
             end == IF text < cap THEN text ELSE cap - 1
  <2>1. /\ d \in Seq(HashByte) /\ Len(d) \in Nat /\ cap \in Nat /\ at \in Nat
        /\ text < SizeMod /\ DOMAIN d = 1 .. Len(d)
    BY CryptAssumption DEF CryptTypeOK
  <2>2. at <= text /\ (crypt.ret = 0 => at = text) /\ (crypt.ret = 1 => at = 0)
    <3>1. Len(HalfBytes(d)) = 2 * Len(d) /\ Len(WholeBytes(d)) = Len(d)
      BY <2>1 DEF HalfBytes, WholeBytes
    <3>2. crypt.i \in Nat BY DEF CryptTypeOK
    <3> QED BY <2>1, <3>1, <3>2 DEF Printing, NoCall, InCall
  <2>3. d = <<>> => Len(d) = 0 OBVIOUS
  <2>4. d # <<>> => Len(d) > 0 BY <2>1
  <2> HIDE DEF d
  <2>5. crypt.ret = 1 \/ d = <<>> => DOMAIN out = {}
    BY <2>1, <2>2, <2>3 DEF Printed
  <2>6. Outside # {} => text >= cap + 2
    BY <2>1, <2>2 DEF Printed, Outside
  <2>7. ASSUME crypt.ret = 0, d # <<>>, cap > 0
        PROVE  /\ 0 .. end \subseteq DOMAIN out
               /\ \A i \in 0 .. end - 1 : out[i] \in 0 .. 15
               /\ \A j \in DOMAIN d : 2 * j <= end => 16 * out[2 * j - 2] + out[2 * j - 1] = d[j]
               /\ out[end] = NulDigit
    <3>1. at = text /\ at > 0 BY <2>1, <2>2, <2>4, <2>7
    <3>2. /\ 0 .. end \subseteq DOMAIN out
          /\ \A j \in 0 .. end - 1 : out[j] = Digit(d, j)
          /\ out[end] = NulDigit
      BY <2>7, <3>1 DEF Printed, EndOf, d
    <3>3. end \in Nat /\ end <= text BY <2>1, <2>7
    <3> HIDE DEF end, out
    <3>4. \A i \in 0 .. end - 1 : out[i] \in 0 .. 15
      BY <2>1, <3>2, <3>3, DigitRange
    <3>5. ASSUME NEW j \in DOMAIN d, 2 * j <= end
          PROVE  16 * out[2 * j - 2] + out[2 * j - 1] = d[j]
      <4>1. 2 * j - 2 \in 0 .. end - 1 /\ 2 * j - 1 \in 0 .. end - 1 BY <2>1, <3>3, <3>5
      <4>2. out[2 * j - 2] = Digit(d, 2 * j - 2) /\ out[2 * j - 1] = Digit(d, 2 * j - 1)
        BY <3>2, <4>1
      <4> QED BY <2>1, <4>2, DigitsOfByte
    <3> QED BY <3>2, <3>4, <3>5
  <2> QED BY <2>5, <2>6, <2>7 DEF DigestText, d
<1> QED BY <1>1, CryptInvariant, PTL

-----------------------------------------------------------------------------
(* c/libgs/hashmap/hashmap.c.                                              *)

(* The cell at place i of a chain, null outside it.                        *)
At(s, i) == IF i \in 1 .. Len(s) THEN s[i] ELSE Null

(* The n buckets that begin at first hold the cells of L, each in one      *)
(* place: ch[b] lists the cells of bucket b in the order in which their    *)
(* next pointers lead through them, and each is in the bucket of its key.  *)
Chains(cl, first, n, ch, L) ==
  /\ ch \in [0 .. n - 1 -> Seq(Cells)]
  /\ \A b \in 0 .. n - 1 : first[b] = At(ch[b], 1)
  /\ \A b \in 0 .. n - 1 : \A i \in 1 .. Len(ch[b]) :
       /\ ch[b][i] \in L
       /\ cl[ch[b][i]].next = At(ch[b], i + 1)
       /\ hashcode_index(cl[ch[b][i]].key, n) = b
  /\ \A b \in 0 .. n - 1 : \A i, j \in 1 .. Len(ch[b]) : ch[b][i] = ch[b][j] => i = j
  /\ \A c \in L : \E b \in 0 .. n - 1 : \E i \in 1 .. Len(ch[b]) : ch[b][i] = c

(* The values of the entries with one key are those that were inserted and *)
(* not deleted: rank numbers them, 1 for the one inserted last.            *)
Ranked(cl, lv, st, rank) ==
  /\ \A c \in lv : /\ cl[c].key \in Key
                   /\ rank[c] \in 1 .. Len(st[cl[c].key])
                   /\ cl[c].val = st[cl[c].key][rank[c]]
  /\ \A k \in Key : \A r \in 1 .. Len(st[k]) :
       \E c \in lv : cl[c].key = k /\ rank[c] = r

(* The prev pointers lead back through the chains.                         *)
Prevs(cl, n, ch) ==
  \A b \in 0 .. n - 1 : \A i \in 1 .. Len(ch[b]) : cl[ch[b][i]].prev = At(ch[b], i - 1)

(* In a chain the entries with one key come in the order of their ranks.   *)
InOrder(cl, n, ch, rank) ==
  \A b \in 0 .. n - 1 : \A i, j \in 1 .. Len(ch[b]) :
    i < j /\ cl[ch[b][i]].key = cl[ch[b][j]].key => rank[ch[b][i]] < rank[ch[b][j]]

(* The table has buckets once idx has left its first position, and a       *)
(* growth that is at work knows its insertion.                             *)
Sizes ==
  /\ idx = 1 => size = 0 /\ live = {} /\ ~ grow.on
  /\ idx > 1 => size = Primes[idx]
  /\ ~ grow.on => grow = NoGrowth
  /\ grow.on => /\ grow.key \in Key /\ grow.val \in Val
                /\ ~ Grown => live = {}

(* L: the entries that are in the table, the others wait in the old        *)
(* buckets of a growth. As long as the table has not grown, prev pointers  *)
(* and ranks agree with the chains.                                        *)
Shape(L, ch, oc, rank) ==
  /\ L \subseteq live
  /\ Chains(cell, data, size, ch, L)
  /\ Chains(cell, grow.left, grow.size, oc, live \ L)
  /\ used = Cardinality(L)
  /\ Ranked(cell, live, stack, rank)
  /\ ~ Grown => Prevs(cell, size, ch) /\ InOrder(cell, size, ch, rank)

(* The inductive invariant of the hash table.                              *)
HashInv ==
  /\ TypeOK
  /\ Sizes
  /\ \E L, ch, oc, rank : Shape(L, ch, oc, rank)

(* A set of numbers that is not empty has a least one.                     *)
LEMMA LeastPlace ==
  ASSUME NEW T \in SUBSET Nat, T # {}
  PROVE  \E x \in T : \A y \in T : x <= y
<1> DEFINE below == {ss \in Nat \X Nat : ss[1] < ss[2]}
<1>1. IsWellFoundedOn(below, Nat)
  BY NatLessThanWellFounded, Zenon DEF OpToRel
<1>2. PICK x \in T : \A y \in T : ~ (<<y, x>> \in below)
  <2> HIDE DEF below
  <2> QED BY <1>1, WFMin
<1>3. \A y \in T : ~ (y < x)
  BY <1>2
<1>4. \A y \in T : x <= y
  BY <1>3
<1> QED BY <1>4

(* Subtracting one keeps the order.                                        *)
LEMMA OneLess ==
  \A x, y \in Nat : x < y => x - 1 < y - 1
OBVIOUS

(* A cell is not the null pointer.                                         *)
LEMMA CellNotNull ==
  \A c \in Cells : c # Null
BY TableAssumption DEF Cells, Null

(* The places of a chain with a cell in front.                             *)
LEMMA PushPlaces ==
  ASSUME NEW s \in Seq(Cells), NEW e \in Cells
  PROVE  /\ <<e>> \o s \in Seq(Cells)
         /\ Len(<<e>> \o s) = Len(s) + 1
         /\ (<<e>> \o s)[1] = e
         /\ \A i \in 1 .. Len(s) : (<<e>> \o s)[i + 1] = s[i]
         /\ \A i \in 1 .. Len(s) + 1 :
              i = 1 \/ (i - 1 \in 1 .. Len(s) /\ (<<e>> \o s)[i] = s[i - 1])
OBVIOUS

(* The places of a chain without its first cell.                           *)
LEMMA TailPlaces ==
  ASSUME NEW s \in Seq(Cells), s # <<>>
  PROVE  /\ Tail(s) \in Seq(Cells)
         /\ Len(s) \in Nat \ {0}
         /\ Len(Tail(s)) = Len(s) - 1
         /\ \A i \in 1 .. Len(s) - 1 : Tail(s)[i] = s[i + 1]
OBVIOUS

(* The chain s without the cell at place p.                                *)
Cut(s, p) == [i \in 1 .. Len(s) - 1 |-> IF i < p THEN s[i] ELSE s[i + 1]]

(* The places of a chain without one cell.                                 *)
LEMMA CutPlaces ==
  ASSUME NEW s \in Seq(Cells), NEW p \in 1 .. Len(s)
  PROVE  /\ Cut(s, p) \in Seq(Cells)
         /\ Len(s) \in Nat \ {0}
         /\ Len(Cut(s, p)) = Len(s) - 1
         /\ \A i \in 1 .. Len(s) - 1 : Cut(s, p)[i] = IF i < p THEN s[i] ELSE s[i + 1]
         /\ \A i \in 1 .. Len(s) - 1 : \E j \in 1 .. Len(s) :
              j = (IF i < p THEN i ELSE i + 1) /\ Cut(s, p)[i] = s[j] /\ j # p
<1>1. Len(s) \in Nat \ {0}
  OBVIOUS
<1>2. \A i \in 1 .. Len(s) - 1 : s[i] \in Cells /\ s[i + 1] \in Cells
  BY <1>1
<1>3. Cut(s, p) \in [1 .. Len(s) - 1 -> Cells]
  BY <1>1, <1>2 DEF Cut
<1>4. Len(s) - 1 \in Nat
  BY <1>1
<1>5. Cut(s, p) \in Seq(Cells) /\ Len(Cut(s, p)) = Len(s) - 1
  BY <1>3, <1>4, IsASeq, LenProperties
<1>6. \A i \in 1 .. Len(s) - 1 : Cut(s, p)[i] = IF i < p THEN s[i] ELSE s[i + 1]
  BY <1>1 DEF Cut
<1>7. ASSUME NEW i \in 1 .. Len(s) - 1
      PROVE  \E j \in 1 .. Len(s) :
               j = (IF i < p THEN i ELSE i + 1) /\ Cut(s, p)[i] = s[j] /\ j # p
  BY <1>1, <1>6
<1> QED BY <1>1, <1>5, <1>6, <1>7

(* Chains depend on the next pointers and keys of their cells only.        *)
LEMMA ChainsKept ==
  ASSUME NEW cl, NEW cl2, NEW first, NEW n, NEW ch, NEW L,
         Chains(cl, first, n, ch, L),
         \A c \in L : cl2[c].next = cl[c].next /\ cl2[c].key = cl[c].key
  PROVE  Chains(cl2, first, n, ch, L)
<1>1. \A b \in 0 .. n - 1 : \A i \in 1 .. Len(ch[b]) :
        cl2[ch[b][i]].next = cl[ch[b][i]].next /\ cl2[ch[b][i]].key = cl[ch[b][i]].key
  BY DEF Chains
<1> QED BY <1>1 DEF Chains

(* A cell that is linked in front of a bucket is in its chain.             *)
LEMMA Pushed ==
  ASSUME NEW cl, NEW cl2, NEW n \in Nat,
         NEW first \in [0 .. n - 1 -> Cells \cup {Null}], NEW ch, NEW L,
         NEW e \in Cells, e \notin L, NEW b \in 0 .. n - 1,
         Chains(cl, first, n, ch, L),
         cl2[e].next = first[b], hashcode_index(cl2[e].key, n) = b,
         \A c \in L : cl2[c].next = cl[c].next /\ cl2[c].key = cl[c].key
  PROVE  Chains(cl2, [first EXCEPT ![b] = e], n, [ch EXCEPT ![b] = <<e>> \o ch[b]],
                L \cup {e})
<1> DEFINE ch2 == [ch EXCEPT ![b] = <<e>> \o ch[b]]
           s == <<e>> \o ch[b]
<1>0. \A d \in 0 .. n - 1 : \A i \in 1 .. Len(ch[d]) :
        /\ ch[d][i] \in L
        /\ cl2[ch[d][i]].next = At(ch[d], i + 1)
        /\ hashcode_index(cl2[ch[d][i]].key, n) = d
  <2> SUFFICES ASSUME NEW d \in 0 .. n - 1, NEW i \in 1 .. Len(ch[d])
               PROVE  /\ ch[d][i] \in L
                      /\ cl2[ch[d][i]].next = At(ch[d], i + 1)
                      /\ hashcode_index(cl2[ch[d][i]].key, n) = d
    OBVIOUS
  <2>1. /\ ch[d][i] \in L
        /\ cl[ch[d][i]].next = At(ch[d], i + 1)
        /\ hashcode_index(cl[ch[d][i]].key, n) = d
    BY DEF Chains
  <2> QED BY <2>1
<1>1. ch \in [0 .. n - 1 -> Seq(Cells)] /\ ch[b] \in Seq(Cells) /\ Len(ch[b]) \in Nat
  <2>1. ch \in [0 .. n - 1 -> Seq(Cells)]
    BY DEF Chains
  <2>2. ch[b] \in Seq(Cells)
    BY <2>1
  <2> QED BY <2>1, <2>2
<1>2. ch2[b] = s /\ \A d \in 0 .. n - 1 : d # b => ch2[d] = ch[d]
  BY <1>1
<1>3. /\ s \in Seq(Cells) /\ Len(s) = Len(ch[b]) + 1 /\ s[1] = e
      /\ \A i \in 1 .. Len(ch[b]) : s[i + 1] = ch[b][i]
      /\ \A i \in 1 .. Len(ch[b]) + 1 :
           i = 1 \/ (i - 1 \in 1 .. Len(ch[b]) /\ s[i] = ch[b][i - 1])
  BY <1>1, PushPlaces
<1>4. ch2 \in [0 .. n - 1 -> Seq(Cells)]
  BY <1>1, <1>3
<1>5. \A d \in 0 .. n - 1 : [first EXCEPT ![b] = e][d] = IF d = b THEN e ELSE first[d]
  OBVIOUS
<1> HIDE DEF s, ch2
<1>6. \A d \in 0 .. n - 1 : [first EXCEPT ![b] = e][d] = At(ch2[d], 1)
  BY <1>1, <1>2, <1>3, <1>5 DEF Chains, At
<1>7. \A i \in 1 .. Len(ch[b]) : At(s, i + 2) = At(ch[b], i + 1) /\ At(s, 2) = At(ch[b], 1)
  BY <1>1, <1>3 DEF At
<1>8. At(s, 2) = At(ch[b], 1)
  BY <1>1, <1>3 DEF At
<1>9. ASSUME NEW d \in 0 .. n - 1, NEW i \in 1 .. Len(ch2[d])
      PROVE  /\ ch2[d][i] \in L \cup {e}
             /\ cl2[ch2[d][i]].next = At(ch2[d], i + 1)
             /\ hashcode_index(cl2[ch2[d][i]].key, n) = d
  <2>1. CASE d # b
    <3>1. ch2[d] = ch[d] /\ i \in 1 .. Len(ch[d])
      BY <2>1, <1>9, <1>2
    <3> QED BY <3>1, <1>0
  <2>2. CASE d = b /\ i = 1
    BY <2>2, <1>2, <1>3, <1>8 DEF Chains
  <2>3. CASE d = b /\ i # 1
    <3>1. PICK j \in 1 .. Len(ch[b]) : j = i - 1 /\ s[i] = ch[b][j]
      BY <2>3, <1>9, <1>2, <1>3
    <3>2. At(s, i + 1) = At(ch[b], j + 1)
      BY <3>1, <1>7, <1>1
    <3> QED BY <3>1, <3>2, <2>3, <1>2, <1>0
  <2> QED BY <2>1, <2>2, <2>3
<1>10. ASSUME NEW d \in 0 .. n - 1, NEW i \in 1 .. Len(ch2[d]), NEW j \in 1 .. Len(ch2[d]),
              ch2[d][i] = ch2[d][j]
       PROVE  i = j
  <2>1. CASE d # b
    <3>1. ch2[d] = ch[d]
      BY <2>1, <1>2
    <3>2. i \in 1 .. Len(ch[d]) /\ j \in 1 .. Len(ch[d]) /\ ch[d][i] = ch[d][j]
      BY <3>1, <1>10
    <3> QED BY <3>2 DEF Chains
  <2>2. CASE d = b
    <3>1. i = 1 \/ (i - 1 \in 1 .. Len(ch[b]) /\ s[i] = ch[b][i - 1])
      BY <2>2, <1>10, <1>2, <1>3
    <3>2. j = 1 \/ (j - 1 \in 1 .. Len(ch[b]) /\ s[j] = ch[b][j - 1])
      BY <2>2, <1>10, <1>2, <1>3
    <3>3. s[i] = s[j]
      BY <2>2, <1>10, <1>2
    <3>4. \A m \in 1 .. Len(ch[b]) : ch[b][m] \in L
      BY DEF Chains
    <3>5. \A m, o \in 1 .. Len(ch[b]) : ch[b][m] = ch[b][o] => m = o
      BY DEF Chains
    <3>6. i \in Nat /\ j \in Nat
      BY <2>2, <1>10, <1>2, <1>3, <1>1
    <3>7. CASE i = 1
      BY <3>7, <3>2, <3>3, <3>4, <1>3
    <3>8. CASE j = 1
      BY <3>8, <3>1, <3>3, <3>4, <1>3
    <3>9. CASE i # 1 /\ j # 1
      <4>1. i - 1 = j - 1
        BY <3>9, <3>1, <3>2, <3>3, <3>5
      <4> QED BY <4>1, <3>6
    <3> QED BY <3>7, <3>8, <3>9
  <2> QED BY <2>1, <2>2
<1>11. ASSUME NEW c \in L \cup {e}
       PROVE  \E d \in 0 .. n - 1 : \E i \in 1 .. Len(ch2[d]) : ch2[d][i] = c
  <2>1. CASE c = e
    BY <2>1, <1>2, <1>3, <1>1
  <2>2. CASE c # e
    <3>1. PICK d \in 0 .. n - 1 : \E i \in 1 .. Len(ch[d]) : ch[d][i] = c
      BY <2>2, <1>11 DEF Chains
    <3>2. CASE d # b
      BY <3>1, <3>2, <1>2
    <3>3. CASE d = b
      <4>1. PICK i \in 1 .. Len(ch[b]) : ch[b][i] = c
        BY <3>1, <3>3
      <4>2. i + 1 \in 1 .. Len(s) /\ s[i + 1] = c
        BY <4>1, <1>3, <1>1
      <4> QED BY <4>2, <1>2
    <3> QED BY <3>2, <3>3
  <2> QED BY <2>1, <2>2
<1>12. Chains(cl2, [first EXCEPT ![b] = e], n, ch2, L \cup {e})
  BY <1>4, <1>6, <1>9, <1>10, <1>11 DEF Chains
<1> QED BY <1>12 DEF ch2, s

(* A bucket without its first cell, as hashmap_grow leaves the old one.    *)
LEMMA FirstTaken ==
  ASSUME NEW cl, NEW n \in Nat, NEW first \in [0 .. n - 1 -> Cells \cup {Null}], NEW ch, NEW L,
         NEW b \in 0 .. n - 1, first[b] # Null,
         Chains(cl, first, n, ch, L)
  PROVE  /\ first[b] \in L
         /\ Chains(cl, [first EXCEPT ![b] = cl[first[b]].next], n,
                   [ch EXCEPT ![b] = Tail(ch[b])], L \ {first[b]})
<1> DEFINE ch2 == [ch EXCEPT ![b] = Tail(ch[b])]
           e == first[b]
           s == Tail(ch[b])
<1>0. \A d \in 0 .. n - 1 : \A i \in 1 .. Len(ch[d]) :
        /\ ch[d][i] \in L
        /\ cl[ch[d][i]].next = At(ch[d], i + 1)
        /\ hashcode_index(cl[ch[d][i]].key, n) = d
  BY DEF Chains
<1>1. ch \in [0 .. n - 1 -> Seq(Cells)] /\ ch[b] \in Seq(Cells) /\ Len(ch[b]) \in Nat
  <2>1. ch \in [0 .. n - 1 -> Seq(Cells)]
    BY DEF Chains
  <2>2. ch[b] \in Seq(Cells)
    BY <2>1
  <2> QED BY <2>1, <2>2
<1>2. 1 \in 1 .. Len(ch[b]) /\ e = ch[b][1]
  BY <1>1 DEF Chains, At
<1>3. e \in L /\ cl[e].next = At(ch[b], 1 + 1) /\ hashcode_index(cl[e].key, n) = b
  BY <1>0, <1>2
<1>4. ch[b] # <<>>
  BY <1>1, <1>2
<1>5. /\ s \in Seq(Cells)
      /\ Len(ch[b]) \in Nat \ {0}
      /\ Len(s) = Len(ch[b]) - 1
      /\ \A i \in 1 .. Len(ch[b]) - 1 : s[i] = ch[b][i + 1]
  BY <1>1, <1>4, TailPlaces
<1>6. ch2 \in [0 .. n - 1 -> Seq(Cells)]
  BY <1>1, <1>5
<1>7. ch2[b] = s /\ \A d \in 0 .. n - 1 : d # b => ch2[d] = ch[d]
  BY <1>1
<1>8. \A d \in 0 .. n - 1 :
        [first EXCEPT ![b] = cl[first[b]].next][d] = IF d = b THEN cl[e].next ELSE first[d]
  OBVIOUS
<1> HIDE DEF s, ch2, e
<1>9. \A i \in 1 .. Len(ch[b]) : At(s, i) = At(ch[b], i + 1)
  BY <1>5 DEF At
<1>10. \A d \in 0 .. n - 1 :
         [first EXCEPT ![b] = cl[first[b]].next][d] = At(ch2[d], 1)
  <2>1. At(s, 1) = At(ch[b], 1 + 1)
    BY <1>9, <1>2
  <2>2. \A d \in 0 .. n - 1 : first[d] = At(ch[d], 1)
    BY DEF Chains
  <2> QED BY <2>1, <2>2, <1>3, <1>7, <1>8
<1>11. \A i, j \in 1 .. Len(ch[b]) : ch[b][i] = ch[b][j] => i = j
  BY DEF Chains
<1>12. ASSUME NEW d \in 0 .. n - 1, NEW i \in 1 .. Len(ch2[d])
       PROVE  /\ ch2[d][i] \in L \ {e}
              /\ cl[ch2[d][i]].next = At(ch2[d], i + 1)
              /\ hashcode_index(cl[ch2[d][i]].key, n) = d
  <2>1. CASE d # b
    <3>1. ch2[d] = ch[d] /\ i \in 1 .. Len(ch[d])
      BY <2>1, <1>12, <1>7
    <3> QED BY <3>1, <2>1, <1>0, <1>3
  <2>2. CASE d = b
    <3>1. PICK j \in 1 .. Len(ch[b]) : j = i + 1 /\ s[i] = ch[b][j] /\ j # 1
      BY <2>2, <1>12, <1>7, <1>5
    <3>2. At(s, i + 1) = At(ch[b], j + 1)
      BY <3>1, <1>9
    <3>3. ch[b][j] # e
      BY <3>1, <1>2, <1>11
    <3> QED BY <3>1, <3>2, <3>3, <2>2, <1>7, <1>0
  <2> QED BY <2>1, <2>2
<1>13. ASSUME NEW d \in 0 .. n - 1, NEW i \in 1 .. Len(ch2[d]), NEW j \in 1 .. Len(ch2[d]),
              ch2[d][i] = ch2[d][j]
       PROVE  i = j
  <2>1. CASE d # b
    <3>1. ch2[d] = ch[d]
      BY <2>1, <1>7
    <3>2. i \in 1 .. Len(ch[d]) /\ j \in 1 .. Len(ch[d]) /\ ch[d][i] = ch[d][j]
      BY <3>1, <1>13
    <3> QED BY <3>2 DEF Chains
  <2>2. CASE d = b
    <3>1. PICK k \in 1 .. Len(ch[b]) : k = i + 1 /\ s[i] = ch[b][k]
      BY <2>2, <1>13, <1>7, <1>5
    <3>2. PICK m \in 1 .. Len(ch[b]) : m = j + 1 /\ s[j] = ch[b][m]
      BY <2>2, <1>13, <1>7, <1>5
    <3>3. k = m
      BY <3>1, <3>2, <2>2, <1>13, <1>7, <1>11
    <3>4. i \in Nat /\ j \in Nat
      BY <2>2, <1>13, <1>7, <1>5
    <3> QED BY <3>1, <3>2, <3>3, <3>4
  <2> QED BY <2>1, <2>2
<1>14. ASSUME NEW c \in L \ {e}
       PROVE  \E d \in 0 .. n - 1 : \E i \in 1 .. Len(ch2[d]) : ch2[d][i] = c
  <2>1. PICK d \in 0 .. n - 1 : \E i \in 1 .. Len(ch[d]) : ch[d][i] = c
    BY <1>14 DEF Chains
  <2>2. CASE d # b
    BY <2>1, <2>2, <1>7
  <2>3. CASE d = b
    <3>1. PICK i \in 1 .. Len(ch[b]) : ch[b][i] = c
      BY <2>1, <2>3
    <3>2. i # 1
      BY <3>1, <1>2, <1>14
    <3>3. i - 1 \in 1 .. Len(s) /\ s[i - 1] = c
      BY <3>1, <3>2, <1>5
    <3> QED BY <3>3, <1>7
  <2> QED BY <2>2, <2>3
<1>15. Chains(cl, [first EXCEPT ![b] = cl[first[b]].next], n, ch2, L \ {e})
  BY <1>6, <1>10, <1>12, <1>13, <1>14 DEF Chains
<1> QED BY <1>3, <1>15 DEF ch2, s, e

(* A chain without the cell at place p, after the cell before it was made  *)
(* to point behind it.                                                     *)
LEMMA PlaceTaken ==
  ASSUME NEW cl, NEW cl2, NEW n \in Nat, NEW first \in [0 .. n - 1 -> Cells \cup {Null}],
         NEW first2 \in [0 .. n - 1 -> Cells \cup {Null}], NEW ch, NEW L,
         NEW b \in 0 .. n - 1, NEW p \in 1 .. Len(ch[b]),
         Chains(cl, first, n, ch, L),
         \A d \in 0 .. n - 1 :
           first2[d] = IF d = b /\ p = 1 THEN cl[ch[b][p]].next ELSE first[d],
         \A c \in L \ {ch[b][p]} :
           /\ cl2[c].key = cl[c].key
           /\ cl2[c].next = IF c = At(ch[b], p - 1) THEN cl[ch[b][p]].next ELSE cl[c].next
  PROVE  /\ ch[b][p] \in L
         /\ Chains(cl2, first2, n, [ch EXCEPT ![b] = Cut(ch[b], p)], L \ {ch[b][p]})
<1> DEFINE ch2 == [ch EXCEPT ![b] = Cut(ch[b], p)]
           e == ch[b][p]
           s == Cut(ch[b], p)
<1>0. \A d \in 0 .. n - 1 : \A i \in 1 .. Len(ch[d]) :
        /\ ch[d][i] \in L
        /\ cl[ch[d][i]].next = At(ch[d], i + 1)
        /\ hashcode_index(cl[ch[d][i]].key, n) = d
  BY DEF Chains
<1>1. ch \in [0 .. n - 1 -> Seq(Cells)] /\ ch[b] \in Seq(Cells) /\ Len(ch[b]) \in Nat
  <2>1. ch \in [0 .. n - 1 -> Seq(Cells)]
    BY DEF Chains
  <2>2. ch[b] \in Seq(Cells)
    BY <2>1
  <2> QED BY <2>1, <2>2
<1>3. e \in L /\ cl[e].next = At(ch[b], p + 1) /\ hashcode_index(cl[e].key, n) = b
  BY <1>0
<1>5. /\ s \in Seq(Cells)
      /\ Len(ch[b]) \in Nat \ {0}
      /\ Len(s) = Len(ch[b]) - 1
      /\ \A i \in 1 .. Len(ch[b]) - 1 : s[i] = IF i < p THEN ch[b][i] ELSE ch[b][i + 1]
  BY <1>1, CutPlaces
<1>6. ch2 \in [0 .. n - 1 -> Seq(Cells)]
  BY <1>1, <1>5
<1>7. ch2[b] = s /\ \A d \in 0 .. n - 1 : d # b => ch2[d] = ch[d]
  BY <1>1
<1>8. e = ch[b][p] /\ p \in Nat /\ p >= 1 /\ p <= Len(ch[b])
  BY <1>1
<1>9. \A c \in L \ {e} :
        /\ cl2[c].key = cl[c].key
        /\ cl2[c].next = IF c = At(ch[b], p - 1) THEN At(ch[b], p + 1) ELSE cl[c].next
  BY <1>3
<1>10. \A d \in 0 .. n - 1 : first2[d] = IF d = b /\ p = 1 THEN At(ch[b], p + 1) ELSE At(ch[d], 1)
  BY <1>3 DEF Chains
<1> HIDE DEF s, ch2, e
<1>11. \A i, j \in 1 .. Len(ch[b]) : ch[b][i] = ch[b][j] => i = j
  BY DEF Chains
<1>12. \A i \in 1 .. Len(ch[b]) : At(s, i) = IF i < p THEN At(ch[b], i) ELSE At(ch[b], i + 1)
  <2> SUFFICES ASSUME NEW i \in 1 .. Len(ch[b])
               PROVE  At(s, i) = IF i < p THEN At(ch[b], i) ELSE At(ch[b], i + 1)
    OBVIOUS
  <2> DEFINE m == Len(ch[b])
  <2>0. m \in Nat /\ Len(s) = m - 1 /\ i \in 1 .. m
    BY <1>5
  <2>1. CASE i < m
    <3>1. i \in 1 .. m - 1 /\ i + 1 \in 1 .. m
      BY <2>0, <2>1
    <3>2. At(s, i) = s[i] /\ At(ch[b], i) = ch[b][i] /\ At(ch[b], i + 1) = ch[b][i + 1]
      BY <2>0, <3>1 DEF At
    <3> QED BY <1>5, <3>1, <3>2
  <2>2. CASE i = m
    <3>1. i \notin 1 .. m - 1 /\ i + 1 \notin 1 .. m /\ ~ (i < p)
      BY <1>8, <2>0, <2>2
    <3>2. At(s, i) = Null /\ At(ch[b], i + 1) = Null
      BY <2>0, <3>1 DEF At
    <3> QED BY <3>1, <3>2
  <2> QED BY <2>0, <2>1, <2>2
<1>13. \A d \in 0 .. n - 1 : first2[d] = At(ch2[d], 1)
  <2>1. At(s, 1) = IF 1 < p THEN At(ch[b], 1) ELSE At(ch[b], 1 + 1)
    BY <1>12, <1>5
  <2> QED BY <2>1, <1>7, <1>8, <1>10
<1>14. ASSUME NEW d \in 0 .. n - 1, NEW i \in 1 .. Len(ch2[d])
       PROVE  /\ ch2[d][i] \in L \ {e}
              /\ cl2[ch2[d][i]].next = At(ch2[d], i + 1)
              /\ hashcode_index(cl2[ch2[d][i]].key, n) = d
  <2>1. CASE d # b
    <3>1. ch2[d] = ch[d] /\ i \in 1 .. Len(ch[d])
      BY <2>1, <1>14, <1>7
    <3>2. /\ ch[d][i] \in L
          /\ cl[ch[d][i]].next = At(ch[d], i + 1)
          /\ hashcode_index(cl[ch[d][i]].key, n) = d
      BY <3>1, <1>0
    <3>3. ch[d][i] # e
      BY <3>2, <2>1, <1>3
    <3>4. ch[d][i] # At(ch[b], p - 1)
      <4>1. ch[d][i] # Null
        <5>1. ch[d] \in Seq(Cells) /\ ch[d][i] \in Cells
          BY <3>1, <1>1
        <5> QED BY <5>1, CellNotNull
      <4>2. \A j \in 1 .. Len(ch[b]) : ch[b][j] # ch[d][i]
        BY <3>2, <2>1, <1>0
      <4> QED BY <4>1, <4>2 DEF At
    <3> QED BY <3>1, <3>2, <3>3, <3>4, <1>9
  <2>2. CASE d = b
    <3>1. i \in 1 .. Len(ch[b]) - 1 /\ ch2[d] = s
      BY <2>2, <1>14, <1>7, <1>5
    <3>2. PICK j \in 1 .. Len(ch[b]) : j = (IF i < p THEN i ELSE i + 1) /\ s[i] = ch[b][j] /\ j # p
      BY <3>1, <1>5, <1>8
    <3>3. /\ ch[b][j] \in L
          /\ cl[ch[b][j]].next = At(ch[b], j + 1)
          /\ hashcode_index(cl[ch[b][j]].key, n) = b
      BY <3>2, <1>0
    <3>4. ch[b][j] # e
      BY <3>2, <1>8, <1>11
    <3>5. ch[b][j] = At(ch[b], p - 1) <=> j = p - 1
      <4>1. ch[b][j] # Null
        <5>1. ch[b][j] \in Cells
          BY <3>2, <1>1
        <5> QED BY <5>1, CellNotNull
      <4>2. \A m \in 1 .. Len(ch[b]) : ch[b][j] = ch[b][m] <=> j = m
        BY <1>11
      <4>3. p - 1 \in Int
        BY <1>8
      <4>4. CASE p - 1 \in 1 .. Len(ch[b])
        BY <4>2, <4>4 DEF At
      <4>5. CASE p - 1 \notin 1 .. Len(ch[b])
        BY <4>1, <4>5 DEF At
      <4> QED BY <4>4, <4>5
    <3>6. At(s, i + 1) = IF i + 1 < p THEN At(ch[b], i + 1) ELSE At(ch[b], i + 1 + 1)
      BY <3>1, <1>12, <1>5
    <3>7. At(s, i + 1) = IF j = p - 1 THEN At(ch[b], p + 1) ELSE At(ch[b], j + 1)
      <4>1. i \in Nat
        BY <3>1
      <4>2. CASE i + 1 < p
        BY <4>1, <4>2, <3>6, <3>2, <1>8
      <4>3. CASE i + 1 = p
        BY <4>1, <4>3, <3>6, <3>2, <1>8
      <4>4. CASE i + 1 > p
        BY <4>1, <4>4, <3>6, <3>2, <1>8
      <4> QED BY <4>1, <4>2, <4>3, <4>4, <1>8
    <3>8. /\ cl2[ch[b][j]].key = cl[ch[b][j]].key
          /\ cl2[ch[b][j]].next = IF j = p - 1 THEN At(ch[b], p + 1) ELSE cl[ch[b][j]].next
      BY <3>3, <3>4, <3>5, <1>9
    <3> QED BY <3>1, <3>2, <3>3, <3>4, <3>7, <3>8, <2>2
  <2> QED BY <2>1, <2>2
<1>15. ASSUME NEW d \in 0 .. n - 1, NEW i \in 1 .. Len(ch2[d]), NEW j \in 1 .. Len(ch2[d]),
              ch2[d][i] = ch2[d][j]
       PROVE  i = j
  <2>1. CASE d # b
    <3>1. ch2[d] = ch[d]
      BY <2>1, <1>7
    <3>2. i \in 1 .. Len(ch[d]) /\ j \in 1 .. Len(ch[d]) /\ ch[d][i] = ch[d][j]
      BY <3>1, <1>15
    <3> QED BY <3>2 DEF Chains
  <2>2. CASE d = b
    <3>0. \A h \in 1 .. Len(ch[b]) - 1 :
            \E k \in 1 .. Len(ch[b]) : k = (IF h < p THEN h ELSE h + 1) /\ s[h] = ch[b][k]
      <4> SUFFICES ASSUME NEW h \in 1 .. Len(ch[b]) - 1
                   PROVE  \E k \in 1 .. Len(ch[b]) :
                            k = (IF h < p THEN h ELSE h + 1) /\ s[h] = ch[b][k]
        OBVIOUS
      <4> DEFINE k == IF h < p THEN h ELSE h + 1
      <4>1. k \in 1 .. Len(ch[b])
        BY <1>5, <1>8
      <4>2. s[h] = ch[b][k]
        BY <1>5
      <4> QED BY <4>1, <4>2
    <3>5. i \in 1 .. Len(ch[b]) - 1 /\ j \in 1 .. Len(ch[b]) - 1
      BY <2>2, <1>15, <1>7, <1>5
    <3>1. PICK k \in 1 .. Len(ch[b]) : k = (IF i < p THEN i ELSE i + 1) /\ s[i] = ch[b][k]
      BY <3>0, <3>5
    <3>2. PICK m \in 1 .. Len(ch[b]) : m = (IF j < p THEN j ELSE j + 1) /\ s[j] = ch[b][m]
      BY <3>0, <3>5
    <3>3. k = m
      BY <3>1, <3>2, <2>2, <1>15, <1>7, <1>11
    <3>4. i \in Nat /\ j \in Nat
      BY <2>2, <1>15, <1>7, <1>5
    <3> QED BY <3>1, <3>2, <3>3, <3>4, <1>8
  <2> QED BY <2>1, <2>2
<1>16. ASSUME NEW c \in L \ {e}
       PROVE  \E d \in 0 .. n - 1 : \E i \in 1 .. Len(ch2[d]) : ch2[d][i] = c
  <2>1. PICK d \in 0 .. n - 1 : \E i \in 1 .. Len(ch[d]) : ch[d][i] = c
    BY <1>16 DEF Chains
  <2>2. CASE d # b
    BY <2>1, <2>2, <1>7
  <2>3. CASE d = b
    <3>1. PICK i \in 1 .. Len(ch[b]) : ch[b][i] = c
      BY <2>1, <2>3
    <3>2. i # p
      BY <3>1, <1>8, <1>16
    <3>3. CASE i < p
      <4>1. i \in 1 .. Len(s) /\ s[i] = c
        BY <3>1, <3>3, <1>5, <1>8
      <4> QED BY <4>1, <1>7
    <3>4. CASE i > p
      <4>1. i - 1 \in 1 .. Len(s) /\ s[i - 1] = c
        BY <3>1, <3>4, <1>5, <1>8
      <4> QED BY <4>1, <1>7
    <3> QED BY <3>1, <3>2, <3>3, <3>4, <1>8
  <2> QED BY <2>2, <2>3
<1>17. Chains(cl2, first2, n, ch2, L \ {e})
  BY <1>6, <1>13, <1>14, <1>15, <1>16 DEF Chains
<1> QED BY <1>3, <1>17 DEF ch2, s, e

(* The chains list cells of L, no cell in two of them.                     *)
Apart(n, ch, L) ==
  /\ \A d \in 0 .. n - 1 : \A i \in 1 .. Len(ch[d]) :
       ch[d][i] \in Cells /\ ch[d][i] # Null /\ ch[d][i] \in L
  /\ \A b, d \in 0 .. n - 1 :
       b # d => \A j \in 1 .. Len(ch[b]) : \A i \in 1 .. Len(ch[d]) : ch[b][j] # ch[d][i]

(* A cell is in the chain of its key only.                                 *)
LEMMA ChainCells ==
  ASSUME NEW cl, NEW first, NEW n \in Nat, NEW ch, NEW L, Chains(cl, first, n, ch, L)
  PROVE  Apart(n, ch, L)
<1>1. ASSUME NEW d \in 0 .. n - 1, NEW i \in 1 .. Len(ch[d])
      PROVE  /\ ch[d][i] \in Cells /\ ch[d][i] # Null /\ ch[d][i] \in L
             /\ hashcode_index(cl[ch[d][i]].key, n) = d
  <2>1. ch[d] \in Seq(Cells) /\ Len(ch[d]) \in Nat
    BY DEF Chains
  <2>2. ch[d][i] \in Cells
    BY <2>1
  <2>3. ch[d][i] # Null
    BY <2>2, CellNotNull
  <2>4. ch[d][i] \in L /\ hashcode_index(cl[ch[d][i]].key, n) = d
    BY DEF Chains
  <2> QED BY <2>2, <2>3, <2>4
<1>2. ASSUME NEW b \in 0 .. n - 1, NEW d \in 0 .. n - 1, b # d,
             NEW j \in 1 .. Len(ch[b]), NEW i \in 1 .. Len(ch[d]), ch[b][j] = ch[d][i]
      PROVE  FALSE
  BY <1>1, <1>2
<1> QED BY <1>1, <1>2 DEF Apart

(* The cells after an entry e with k and v was linked in front of x, with  *)
(* the ranks that follow from it.                                          *)
NewFirst(cl, cl2, L, x, rank, rank2, e, k, v) ==
  /\ e \in Cells /\ e \notin L
  /\ cl2[e].key = k /\ cl2[e].val = v /\ cl2[e].prev = Null
  /\ rank2[e] = 1
  /\ \A c \in L : /\ cl2[c].key = cl[c].key /\ cl2[c].val = cl[c].val
                  /\ cl2[c].prev = IF c = x THEN e ELSE cl[c].prev
                  /\ rank2[c] = IF cl[c].key = k THEN rank[c] + 1 ELSE rank[c]

(* The cells after e was taken out from between two others, and the ranks. *)
Gone(cl, cl2, L, e, k, before, after, rank, rank2) ==
  /\ e \in L
  /\ \A c \in L \ {e} :
       /\ cl2[c].key = cl[c].key /\ cl2[c].val = cl[c].val
       /\ cl2[c].next = IF c = before THEN after ELSE cl[c].next
       /\ cl2[c].prev = IF c = after THEN before ELSE cl[c].prev
       /\ rank2[c] = IF cl[c].key = k THEN rank[c] - 1 ELSE rank[c]

(* The prev pointers after an entry was linked.                            *)
LEMMA PrevsPushed ==
  ASSUME NEW cl, NEW cl2, NEW first, NEW n \in Nat, NEW ch, NEW L, NEW rank, NEW rank2,
         NEW e, NEW k, NEW v, NEW b \in 0 .. n - 1,
         Chains(cl, first, n, ch, L), Prevs(cl, n, ch),
         NewFirst(cl, cl2, L, first[b], rank, rank2, e, k, v)
  PROVE  Prevs(cl2, n, [ch EXCEPT ![b] = <<e>> \o ch[b]])
<1>h. /\ e \in Cells /\ e \notin L /\ cl2[e].prev = Null
      /\ \A c \in L : cl2[c].prev = IF c = first[b] THEN e ELSE cl[c].prev
  BY DEF NewFirst
<1> USE <1>h
<1> DEFINE ch2 == [ch EXCEPT ![b] = <<e>> \o ch[b]]
           s == <<e>> \o ch[b]
<1>0. \A d \in 0 .. n - 1 : \A i \in 1 .. Len(ch[d]) :
        /\ ch[d][i] \in L
        /\ cl[ch[d][i]].prev = At(ch[d], i - 1)
        /\ hashcode_index(cl[ch[d][i]].key, n) = d
  BY DEF Chains, Prevs
<1>1. ch \in [0 .. n - 1 -> Seq(Cells)] /\ ch[b] \in Seq(Cells) /\ Len(ch[b]) \in Nat
  <2>1. ch \in [0 .. n - 1 -> Seq(Cells)]
    BY DEF Chains
  <2>2. ch[b] \in Seq(Cells)
    BY <2>1
  <2> QED BY <2>1, <2>2
<1>2. ch2[b] = s /\ \A d \in 0 .. n - 1 : d # b => ch2[d] = ch[d]
  BY <1>1
<1>3. /\ s \in Seq(Cells) /\ Len(s) = Len(ch[b]) + 1 /\ s[1] = e
      /\ \A i \in 1 .. Len(ch[b]) : s[i + 1] = ch[b][i]
      /\ \A i \in 1 .. Len(ch[b]) + 1 :
           i = 1 \/ (i - 1 \in 1 .. Len(ch[b]) /\ s[i] = ch[b][i - 1])
  BY <1>1, PushPlaces
<1> HIDE DEF s, ch2
<1>4. first[b] = At(ch[b], 1)
  BY DEF Chains
<1>5. \A i, j \in 1 .. Len(ch[b]) : ch[b][i] = ch[b][j] => i = j
  BY DEF Chains
<1>6a. Apart(n, ch, L)
  BY ChainCells, Zenon
<1>6. \A d \in 0 .. n - 1 : \A i \in 1 .. Len(ch[d]) : ch[d][i] # Null
  BY <1>6a DEF Apart
<1>6c. \A d, f \in 0 .. n - 1 :
         d # f => \A j \in 1 .. Len(ch[d]) : \A i \in 1 .. Len(ch[f]) : ch[d][j] # ch[f][i]
  BY <1>6a DEF Apart
<1>7. ASSUME NEW d \in 0 .. n - 1, NEW i \in 1 .. Len(ch2[d])
      PROVE  cl2[ch2[d][i]].prev = At(ch2[d], i - 1)
  <2>1. CASE d # b
    <3>1. ch2[d] = ch[d] /\ i \in 1 .. Len(ch[d])
      BY <2>1, <1>7, <1>2
    <3>2. \A j \in 1 .. Len(ch[b]) : ch[b][j] # ch[d][i]
      BY <3>1, <2>1, <1>6c
    <3>3. ch[d][i] # first[b]
      BY <3>1, <3>2, <1>4, <1>6 DEF At
    <3> QED BY <3>1, <3>3, <1>0
  <2>2. CASE d = b /\ i = 1
    BY <2>2, <1>2, <1>3 DEF At
  <2>3. CASE d = b /\ i # 1
    <3>1. PICK j \in 1 .. Len(ch[b]) : j = i - 1 /\ s[i] = ch[b][j]
      BY <2>3, <1>7, <1>2, <1>3
    <3>2. ch[b][j] \in L /\ cl[ch[b][j]].prev = At(ch[b], j - 1)
      BY <3>1, <1>0
    <3>3. ch[b][j] = first[b] <=> j = 1
      BY <3>1, <1>4, <1>5, <1>1 DEF At
    <3>4. At(s, j) = IF j = 1 THEN e ELSE At(ch[b], j - 1)
      BY <3>1, <1>1, <1>3 DEF At
    <3> QED BY <3>1, <3>2, <3>3, <3>4, <2>3, <1>2
  <2> QED BY <2>1, <2>2, <2>3
<1>8. Prevs(cl2, n, ch2)
  BY <1>7 DEF Prevs
<1> QED BY <1>8 DEF ch2, s

(* The prev pointers after an entry was taken out.                         *)
LEMMA PrevsTaken ==
  ASSUME NEW cl, NEW cl2, NEW first, NEW n \in Nat, NEW ch, NEW L, NEW rank, NEW rank2,
         NEW b \in 0 .. n - 1, NEW p \in 1 .. Len(ch[b]), NEW k,
         Chains(cl, first, n, ch, L), Prevs(cl, n, ch),
         Gone(cl, cl2, L, ch[b][p], k, At(ch[b], p - 1), At(ch[b], p + 1), rank, rank2)
  PROVE  Prevs(cl2, n, [ch EXCEPT ![b] = Cut(ch[b], p)])
<1>h. \A c \in L \ {ch[b][p]} :
        cl2[c].prev = IF c = At(ch[b], p + 1) THEN At(ch[b], p - 1) ELSE cl[c].prev
  BY DEF Gone
<1> USE <1>h
<1> DEFINE ch2 == [ch EXCEPT ![b] = Cut(ch[b], p)]
           s == Cut(ch[b], p)
<1>0. \A d \in 0 .. n - 1 : \A i \in 1 .. Len(ch[d]) :
        /\ ch[d][i] \in L
        /\ cl[ch[d][i]].prev = At(ch[d], i - 1)
        /\ hashcode_index(cl[ch[d][i]].key, n) = d
  BY DEF Chains, Prevs
<1>1. ch \in [0 .. n - 1 -> Seq(Cells)] /\ ch[b] \in Seq(Cells) /\ Len(ch[b]) \in Nat
  <2>1. ch \in [0 .. n - 1 -> Seq(Cells)]
    BY DEF Chains
  <2>2. ch[b] \in Seq(Cells)
    BY <2>1
  <2> QED BY <2>1, <2>2
<1>2. ch2[b] = s /\ \A d \in 0 .. n - 1 : d # b => ch2[d] = ch[d]
  BY <1>1
<1>3. /\ s \in Seq(Cells)
      /\ Len(ch[b]) \in Nat \ {0}
      /\ Len(s) = Len(ch[b]) - 1
      /\ \A i \in 1 .. Len(ch[b]) - 1 : s[i] = IF i < p THEN ch[b][i] ELSE ch[b][i + 1]
  BY <1>1, CutPlaces
<1>4. p \in Nat /\ p >= 1 /\ p <= Len(ch[b])
  BY <1>1
<1> HIDE DEF s, ch2
<1>5. \A i, j \in 1 .. Len(ch[b]) : ch[b][i] = ch[b][j] => i = j
  BY DEF Chains
<1>6a. Apart(n, ch, L)
  BY ChainCells, Zenon
<1>6. \A d \in 0 .. n - 1 : \A i \in 1 .. Len(ch[d]) : ch[d][i] # Null
  BY <1>6a DEF Apart
<1>6c. \A d, f \in 0 .. n - 1 :
         d # f => \A j \in 1 .. Len(ch[d]) : \A i \in 1 .. Len(ch[f]) : ch[d][j] # ch[f][i]
  BY <1>6a DEF Apart
<1>7. \A c \in L \ {ch[b][p]} :
        cl2[c].prev = IF c = At(ch[b], p + 1) THEN At(ch[b], p - 1) ELSE cl[c].prev
  BY <1>0
<1>8. ASSUME NEW d \in 0 .. n - 1, NEW i \in 1 .. Len(ch2[d])
      PROVE  cl2[ch2[d][i]].prev = At(ch2[d], i - 1)
  <2>1. CASE d # b
    <3>1. ch2[d] = ch[d] /\ i \in 1 .. Len(ch[d])
      BY <2>1, <1>8, <1>2
    <3>2. \A j \in 1 .. Len(ch[b]) : ch[b][j] # ch[d][i]
      BY <3>1, <2>1, <1>6c
    <3>3. ch[d][i] # At(ch[b], p + 1) /\ ch[d][i] # ch[b][p]
      BY <3>1, <3>2, <1>6 DEF At
    <3> QED BY <3>1, <3>3, <1>0, <1>7
  <2>2. CASE d = b
    <3>1. i \in 1 .. Len(ch[b]) - 1 /\ ch2[d] = s
      BY <2>2, <1>8, <1>2, <1>3
    <3>2. PICK j \in 1 .. Len(ch[b]) : j = (IF i < p THEN i ELSE i + 1) /\ s[i] = ch[b][j] /\ j # p
      BY <3>1, <1>3, <1>4
    <3>3. ch[b][j] \in L /\ cl[ch[b][j]].prev = At(ch[b], j - 1)
      BY <3>2, <1>0
    <3>4. ch[b][j] # ch[b][p]
      BY <3>2, <1>5
    <3>5. ch[b][j] = At(ch[b], p + 1) <=> j = p + 1
      <4>1. ch[b][j] # Null
        BY <3>2, <1>6
      <4>2. \A m \in 1 .. Len(ch[b]) : ch[b][j] = ch[b][m] <=> j = m
        BY <1>5
      <4>3. CASE p + 1 \in 1 .. Len(ch[b])
        BY <4>2, <4>3 DEF At
      <4>4. CASE p + 1 \notin 1 .. Len(ch[b])
        BY <4>1, <4>4 DEF At
      <4> QED BY <4>3, <4>4
    <3>6. At(s, i - 1) = IF j = p + 1 THEN At(ch[b], p - 1) ELSE At(ch[b], j - 1)
      <4>1. i \in Nat /\ i >= 1
        BY <3>1
      <4>2. \A m \in 1 .. Len(ch[b]) - 1 :
              At(s, m) = IF m < p THEN At(ch[b], m) ELSE At(ch[b], m + 1)
        <5> SUFFICES ASSUME NEW m \in 1 .. Len(ch[b]) - 1
                     PROVE  At(s, m) = IF m < p THEN At(ch[b], m) ELSE At(ch[b], m + 1)
          OBVIOUS
        <5>1. At(s, m) = s[m] /\ At(ch[b], m) = ch[b][m] /\ At(ch[b], m + 1) = ch[b][m + 1]
          BY <1>3 DEF At
        <5> QED BY <5>1, <1>3
      <4>3. At(s, 0) = Null /\ At(ch[b], 0) = Null
        BY <1>3 DEF At
      <4>4. CASE i = 1
        BY <4>1, <4>3, <4>4, <3>2, <1>4
      <4>5. CASE i # 1
        <5>1. At(s, i - 1) = IF i - 1 < p THEN At(ch[b], i - 1) ELSE At(ch[b], i)
          BY <4>1, <4>2, <4>5, <3>1, <1>3
        <5> QED BY <5>1, <4>1, <3>2, <1>4
      <4> QED BY <4>4, <4>5
    <3>7. cl2[ch[b][j]].prev = IF j = p + 1 THEN At(ch[b], p - 1) ELSE cl[ch[b][j]].prev
      BY <3>3, <3>4, <3>5, <1>7
    <3> QED BY <3>1, <3>2, <3>3, <3>6, <3>7, <2>2
  <2> QED BY <2>1, <2>2
<1>9. Prevs(cl2, n, ch2)
  BY <1>8 DEF Prevs
<1> QED BY <1>9 DEF ch2, s

(* The order of the ranks after an entry was linked.                       *)
LEMMA OrderPushed ==
  ASSUME NEW cl, NEW cl2, NEW first, NEW n \in Nat, NEW ch, NEW L, NEW rank, NEW rank2,
         NEW e, NEW k, NEW v, NEW b \in 0 .. n - 1,
         Chains(cl, first, n, ch, L), InOrder(cl, n, ch, rank),
         \A c \in L : rank[c] \in Nat \ {0},
         NewFirst(cl, cl2, L, first[b], rank, rank2, e, k, v)
  PROVE  InOrder(cl2, n, [ch EXCEPT ![b] = <<e>> \o ch[b]], rank2)
<1>h. /\ e \in Cells /\ e \notin L /\ rank2[e] = 1
      /\ \A c \in L : /\ cl2[c].key = cl[c].key
                      /\ rank2[c] = IF cl[c].key = cl2[e].key THEN rank[c] + 1 ELSE rank[c]
  BY DEF NewFirst
<1> USE <1>h
<1> DEFINE ch2 == [ch EXCEPT ![b] = <<e>> \o ch[b]]
           s == <<e>> \o ch[b]
<1>0. \A d \in 0 .. n - 1 : \A i \in 1 .. Len(ch[d]) : ch[d][i] \in L
  BY DEF Chains
<1>1. ch \in [0 .. n - 1 -> Seq(Cells)] /\ ch[b] \in Seq(Cells) /\ Len(ch[b]) \in Nat
  <2>1. ch \in [0 .. n - 1 -> Seq(Cells)]
    BY DEF Chains
  <2>2. ch[b] \in Seq(Cells)
    BY <2>1
  <2> QED BY <2>1, <2>2
<1>2. ch2[b] = s /\ \A d \in 0 .. n - 1 : d # b => ch2[d] = ch[d]
  BY <1>1
<1>3. /\ s \in Seq(Cells) /\ Len(s) = Len(ch[b]) + 1 /\ s[1] = e
      /\ \A i \in 1 .. Len(ch[b]) + 1 :
           i = 1 \/ (i - 1 \in 1 .. Len(ch[b]) /\ s[i] = ch[b][i - 1])
  BY <1>1, PushPlaces
<1> HIDE DEF s, ch2
<1>4. \A d \in 0 .. n - 1 : \A i, j \in 1 .. Len(ch[d]) :
        i < j /\ cl2[ch[d][i]].key = cl2[ch[d][j]].key => rank2[ch[d][i]] < rank2[ch[d][j]]
  <2> SUFFICES ASSUME NEW d \in 0 .. n - 1, NEW i \in 1 .. Len(ch[d]), NEW j \in 1 .. Len(ch[d]),
                      i < j, cl2[ch[d][i]].key = cl2[ch[d][j]].key
               PROVE  rank2[ch[d][i]] < rank2[ch[d][j]]
    OBVIOUS
  <2>1. ch[d][i] \in L /\ ch[d][j] \in L
    BY <1>0
  <2>2. cl[ch[d][i]].key = cl[ch[d][j]].key
    BY <2>1
  <2>3. rank[ch[d][i]] < rank[ch[d][j]]
    BY <2>2 DEF InOrder
  <2>4. rank[ch[d][i]] \in Nat /\ rank[ch[d][j]] \in Nat
    BY <2>1
  <2>5. rank2[ch[d][i]] = IF cl[ch[d][i]].key = cl2[e].key
                            THEN rank[ch[d][i]] + 1 ELSE rank[ch[d][i]]
    BY <2>1
  <2>6. rank2[ch[d][j]] = IF cl[ch[d][j]].key = cl2[e].key
                            THEN rank[ch[d][j]] + 1 ELSE rank[ch[d][j]]
    BY <2>1
  <2> HIDE <1>h
  <2>7. CASE cl[ch[d][i]].key = cl2[e].key
    <3>1. rank2[ch[d][i]] = rank[ch[d][i]] + 1 BY <2>5, <2>7
    <3>2. rank2[ch[d][j]] = rank[ch[d][j]] + 1 BY <2>2, <2>6, <2>7
    <3> QED BY <2>3, <2>4, <3>1, <3>2
  <2>8. CASE cl[ch[d][i]].key # cl2[e].key
    <3>1. rank2[ch[d][i]] = rank[ch[d][i]] BY <2>5, <2>8
    <3>2. rank2[ch[d][j]] = rank[ch[d][j]] BY <2>2, <2>6, <2>8
    <3> QED BY <2>3, <3>1, <3>2
  <2> QED BY <2>7, <2>8
<1>5. \A c \in L : cl2[c].key = cl2[e].key => rank2[e] < rank2[c]
  OBVIOUS
<1>6. ASSUME NEW d \in 0 .. n - 1, NEW i \in 1 .. Len(ch2[d]), NEW j \in 1 .. Len(ch2[d]),
             i < j, cl2[ch2[d][i]].key = cl2[ch2[d][j]].key
      PROVE  rank2[ch2[d][i]] < rank2[ch2[d][j]]
  <2>1. CASE d # b
    <3>1. ch2[d] = ch[d]
      BY <2>1, <1>2
    <3>2. i \in 1 .. Len(ch[d]) /\ j \in 1 .. Len(ch[d])
      BY <3>1, <1>6
    <3> QED BY <3>1, <3>2, <1>4, <1>6
  <2>2. CASE d = b
    <3>1. ch2[d] = s /\ i \in 1 .. Len(ch[b]) + 1 /\ j \in 1 .. Len(ch[b]) + 1
      BY <2>2, <1>6, <1>2, <1>3
    <3>2. PICK m \in 1 .. Len(ch[b]) : m = j - 1 /\ s[j] = ch[b][m]
      BY <3>1, <1>3, <1>6, <1>1
    <3>3. ch[b][m] \in L
      BY <3>2, <1>0
    <3>4. CASE i = 1
      BY <3>4, <3>1, <3>2, <3>3, <1>3, <1>5, <1>6
    <3>5. CASE i # 1
      <4>1. PICK o \in 1 .. Len(ch[b]) : o = i - 1 /\ s[i] = ch[b][o]
        BY <3>5, <3>1, <1>3
      <4>2. o < m
        BY <4>1, <3>2, <3>1, <1>6, <1>1
      <4>3. cl2[ch[b][o]].key = cl2[ch[b][m]].key
        BY <4>1, <3>1, <3>2, <1>6
      <4>4. rank2[ch[b][o]] < rank2[ch[b][m]]
        BY <4>2, <4>3, <1>4
      <4> QED BY <4>1, <4>4, <3>1, <3>2
    <3> QED BY <3>4, <3>5
  <2> QED BY <2>1, <2>2
<1>7. InOrder(cl2, n, ch2, rank2)
  BY <1>6 DEF InOrder
<1> QED BY <1>7 DEF ch2, s

(* The order of the ranks after an entry was taken out.                    *)
LEMMA OrderTaken ==
  ASSUME NEW cl, NEW cl2, NEW first, NEW n \in Nat, NEW ch, NEW L, NEW rank, NEW rank2,
         NEW b \in 0 .. n - 1, NEW p \in 1 .. Len(ch[b]), NEW k,
         Chains(cl, first, n, ch, L), InOrder(cl, n, ch, rank),
         \A c \in L : rank[c] \in Nat \ {0},
         Gone(cl, cl2, L, ch[b][p], k, At(ch[b], p - 1), At(ch[b], p + 1), rank, rank2)
  PROVE  InOrder(cl2, n, [ch EXCEPT ![b] = Cut(ch[b], p)], rank2)
<1>h. \A c \in L \ {ch[b][p]} :
        /\ cl2[c].key = cl[c].key
        /\ rank2[c] = IF cl[c].key = k THEN rank[c] - 1 ELSE rank[c]
  BY DEF Gone
<1> USE <1>h
<1> DEFINE ch2 == [ch EXCEPT ![b] = Cut(ch[b], p)]
           s == Cut(ch[b], p)
<1>0. \A d \in 0 .. n - 1 : \A i \in 1 .. Len(ch[d]) :
        ch[d][i] \in L /\ hashcode_index(cl[ch[d][i]].key, n) = d
  BY DEF Chains
<1>1. ch \in [0 .. n - 1 -> Seq(Cells)] /\ ch[b] \in Seq(Cells) /\ Len(ch[b]) \in Nat
  <2>1. ch \in [0 .. n - 1 -> Seq(Cells)]
    BY DEF Chains
  <2>2. ch[b] \in Seq(Cells)
    BY <2>1
  <2> QED BY <2>1, <2>2
<1>2. ch2[b] = s /\ \A d \in 0 .. n - 1 : d # b => ch2[d] = ch[d]
  BY <1>1
<1>3. /\ s \in Seq(Cells)
      /\ Len(ch[b]) \in Nat \ {0}
      /\ Len(s) = Len(ch[b]) - 1
      /\ \A i \in 1 .. Len(ch[b]) - 1 : \E m \in 1 .. Len(ch[b]) :
           m = (IF i < p THEN i ELSE i + 1) /\ s[i] = ch[b][m] /\ m # p
  BY <1>1, CutPlaces
<1>4. p \in Nat /\ p >= 1 /\ p <= Len(ch[b])
  BY <1>1
<1> HIDE DEF s, ch2
<1>5. \A i, j \in 1 .. Len(ch[b]) : ch[b][i] = ch[b][j] => i = j
  BY DEF Chains
<1>6a. Apart(n, ch, L)
  BY ChainCells, Zenon
<1>6c. \A d, f \in 0 .. n - 1 :
         d # f => \A j \in 1 .. Len(ch[d]) : \A i \in 1 .. Len(ch[f]) : ch[d][j] # ch[f][i]
  BY <1>6a DEF Apart
<1>6. \A d \in 0 .. n - 1 : \A i, j \in 1 .. Len(ch[d]) :
        /\ i < j /\ cl2[ch[d][i]].key = cl2[ch[d][j]].key
        /\ ch[d][i] # ch[b][p] /\ ch[d][j] # ch[b][p]
        => rank2[ch[d][i]] < rank2[ch[d][j]]
  <2> SUFFICES ASSUME NEW d \in 0 .. n - 1, NEW i \in 1 .. Len(ch[d]), NEW j \in 1 .. Len(ch[d]),
                      i < j, cl2[ch[d][i]].key = cl2[ch[d][j]].key,
                      ch[d][i] # ch[b][p], ch[d][j] # ch[b][p]
               PROVE  rank2[ch[d][i]] < rank2[ch[d][j]]
    OBVIOUS
  <2>1. ch[d][i] \in L /\ ch[d][j] \in L
    BY <1>0
  <2>2. cl[ch[d][i]].key = cl[ch[d][j]].key
    BY <2>1
  <2>3. rank[ch[d][i]] < rank[ch[d][j]]
    BY <2>2 DEF InOrder
  <2>4. rank[ch[d][i]] \in Nat /\ rank[ch[d][j]] \in Nat
    BY <2>1
  <2>5. rank2[ch[d][i]] = (IF cl[ch[d][i]].key = k THEN rank[ch[d][i]] - 1 ELSE rank[ch[d][i]])
    BY <2>1
  <2>6. rank2[ch[d][j]] = (IF cl[ch[d][j]].key = k THEN rank[ch[d][j]] - 1 ELSE rank[ch[d][j]])
    BY <2>1
  <2> HIDE <1>h
  <2>7. CASE cl[ch[d][i]].key = k
    <3>1. rank2[ch[d][i]] = rank[ch[d][i]] - 1 /\ rank2[ch[d][j]] = rank[ch[d][j]] - 1
      BY <2>2, <2>5, <2>6, <2>7
    <3> QED BY <3>1, <2>3, <2>4, OneLess
  <2>8. CASE cl[ch[d][i]].key # k
    BY <2>2, <2>3, <2>4, <2>5, <2>6, <2>8
  <2> QED BY <2>7, <2>8
<1> HIDE <1>h
<1>7. ASSUME NEW d \in 0 .. n - 1, NEW i \in 1 .. Len(ch2[d]), NEW j \in 1 .. Len(ch2[d]),
             i < j, cl2[ch2[d][i]].key = cl2[ch2[d][j]].key
      PROVE  rank2[ch2[d][i]] < rank2[ch2[d][j]]
  <2>1. CASE d # b
    <3>1. ch2[d] = ch[d]
      BY <2>1, <1>2
    <3>2. i \in 1 .. Len(ch[d]) /\ j \in 1 .. Len(ch[d])
      BY <3>1, <1>7
    <3>3. ch[d][i] # ch[b][p] /\ ch[d][j] # ch[b][p]
      BY <3>2, <2>1, <1>6c
    <3> QED BY <3>1, <3>2, <3>3, <1>6, <1>7
  <2>2. CASE d = b
    <3>1. ch2[d] = s /\ i \in 1 .. Len(ch[b]) - 1 /\ j \in 1 .. Len(ch[b]) - 1
      BY <2>2, <1>7, <1>2, <1>3
    <3>2. PICK m \in 1 .. Len(ch[b]) : m = (IF i < p THEN i ELSE i + 1) /\ s[i] = ch[b][m] /\ m # p
      BY <3>1, <1>3
    <3>3. PICK o \in 1 .. Len(ch[b]) : o = (IF j < p THEN j ELSE j + 1) /\ s[j] = ch[b][o] /\ o # p
      BY <3>1, <1>3
    <3>4. m < o
      BY <3>1, <3>2, <3>3, <1>4, <1>7
    <3>5. ch[b][m] # ch[b][p] /\ ch[b][o] # ch[b][p]
      BY <3>2, <3>3, <1>5
    <3>6. cl2[ch[b][m]].key = cl2[ch[b][o]].key
      BY <3>1, <3>2, <3>3, <1>7
    <3>7. rank2[ch[b][m]] < rank2[ch[b][o]]
      BY <3>4, <3>5, <3>6, <1>6
    <3> QED BY <3>1, <3>2, <3>3, <3>7
  <2> QED BY <2>1, <2>2
<1>8. InOrder(cl2, n, ch2, rank2)
  BY <1>7 DEF InOrder
<1> QED BY <1>8 DEF ch2, s

(* There are MaxEntries cells.                                             *)
LEMMA CellsFinite ==
  IsFiniteSet(Cells) /\ Cardinality(Cells) = MaxEntries
<1>1. MaxEntries \in Nat \ {0}
  BY TableAssumption
<1> DEFINE M == MaxEntries
<1>2. M \in Int /\ 1 \in Int /\ ~ (1 > M) /\ M - 1 + 1 = M
  BY <1>1
<1> HIDE DEF M
<1>3. IsFiniteSet(1 .. M) /\ Cardinality(1 .. M) = IF 1 > M THEN 0 ELSE M - 1 + 1
  BY <1>2, FS_Interval
<1> QED BY <1>2, <1>3 DEF Cells, M

(* A chain without repetitions is not longer than that.                    *)
LEMMA ChainShort ==
  ASSUME NEW s \in Seq(Cells), \A i, j \in 1 .. Len(s) : s[i] = s[j] => i = j
  PROVE  Len(s) \in 0 .. MaxEntries
<1>1. Len(s) \in Nat /\ s \in [1 .. Len(s) -> Cells]
  OBVIOUS
<1> DEFINE n == Len(s)
<1>2. n \in Int /\ 1 \in Int /\ (1 > n => n = 0) /\ (~ (1 > n) => n - 1 + 1 = n)
  BY <1>1
<1>3. s \in Injection(1 .. n, Cells)
  BY <1>1 DEF Injection, IsInjective
<1> HIDE DEF n
<1>4. Cardinality(1 .. n) = IF 1 > n THEN 0 ELSE n - 1 + 1
  BY <1>2, FS_Interval
<1>5. Cardinality(1 .. n) <= Cardinality(Cells)
  BY <1>3, CellsFinite, FS_Injection
<1>6. n <= MaxEntries
  BY <1>2, <1>4, <1>5, CellsFinite
<1> QED BY <1>1, <1>6, TableAssumption DEF n

(* A loop over a bucket visits the cells of its chain, in order.           *)
LEMMA Visits ==
  ASSUME NEW b, NEW s \in Seq(Cells), data[b] = At(s, 1),
         \A i \in 1 .. Len(s) : cell[s[i]].next = At(s, i + 1)
  PROVE  \A m \in 0 .. MaxEntries : Visit(b)[m] = At(s, m + 1)
<1> DEFINE g == [m \in 0 .. MaxEntries |-> At(s, m + 1)]
<1>0. MaxEntries \in Nat /\ Len(s) \in Nat
  BY TableAssumption
<1>1. \A m \in 0 .. MaxEntries : g[m] = At(s, m + 1)
  OBVIOUS
<1>2. \A i \in 1 .. Len(s) : s[i] # Null
  BY CellNotNull
<1>3. ASSUME NEW m \in 0 .. MaxEntries, m # 0
      PROVE  At(s, m + 1) = IF At(s, m) = Null THEN Null ELSE cell[At(s, m)].next
  <2>1. m \in Nat
    BY <1>3, <1>0
  <2>2. CASE m \in 1 .. Len(s)
    BY <2>2, <1>2 DEF At
  <2>3. CASE m \notin 1 .. Len(s)
    BY <2>1, <2>3, <1>0, <1>3 DEF At
  <2> QED BY <2>2, <2>3
<1>4. \A m \in 0 .. MaxEntries : m # 0 => m - 1 \in 0 .. MaxEntries /\ g[m - 1] = At(s, m)
  BY <1>0
<1>5. \A m \in 0 .. MaxEntries :
        g[m] = IF m = 0 THEN data[b] ELSE IF g[m - 1] = Null THEN Null ELSE cell[g[m - 1]].next
  <2> SUFFICES ASSUME NEW m \in 0 .. MaxEntries
               PROVE  g[m] = IF m = 0 THEN data[b]
                             ELSE IF g[m - 1] = Null THEN Null ELSE cell[g[m - 1]].next
    OBVIOUS
  <2> HIDE DEF g
  <2>1. CASE m = 0
    BY <2>1, <1>1
  <2>2. CASE m # 0
    BY <2>2, <1>1, <1>3, <1>4
  <2> QED BY <2>1, <2>2
<1>6. g = [m \in 0 .. MaxEntries |->
             IF m = 0 THEN data[b] ELSE IF g[m - 1] = Null THEN Null ELSE cell[g[m - 1]].next]
  <2>1. DOMAIN g = 0 .. MaxEntries /\ g = [m \in 0 .. MaxEntries |-> g[m]]
    OBVIOUS
  <2> HIDE DEF g
  <2> QED BY <2>1, <1>5
<1> HIDE DEF g
<1> DEFINE v == Visit(b)
<1>7. v = [m \in 0 .. MaxEntries |->
             IF m = 0 THEN data[b] ELSE IF v[m - 1] = Null THEN Null ELSE cell[v[m - 1]].next]
  <2> HIDE DEF v
  <2>1. \E h : h = [m \in 0 .. MaxEntries |->
             IF m = 0 THEN data[b] ELSE IF h[m - 1] = Null THEN Null ELSE cell[h[m - 1]].next]
    BY <1>6, Zenon
  <2>2. Visit(b) = [m \in 0 .. MaxEntries |->
           IF m = 0 THEN data[b]
           ELSE IF Visit(b)[m - 1] = Null THEN Null ELSE cell[Visit(b)[m - 1]].next]
    BY <2>1, Zenon DEF Visit
  <2> QED BY <2>2, Zenon DEF v
<1> HIDE DEF v
<1>8. \A m \in 0 .. MaxEntries :
        v[m] = IF m = 0 THEN data[b] ELSE IF v[m - 1] = Null THEN Null ELSE cell[v[m - 1]].next
  BY <1>7
<1> DEFINE bad == {m \in 0 .. MaxEntries : v[m] # g[m]}
<1>9. bad = {}
  <2> SUFFICES ASSUME bad # {} PROVE FALSE
    OBVIOUS
  <2>1. PICK m \in bad : \A y \in bad : m <= y
    <3>1. bad \in SUBSET Nat
      BY <1>0
    <3> HIDE DEF bad
    <3> QED BY <3>1, LeastPlace
  <2>2. m \in 0 .. MaxEntries /\ v[m] # g[m]
    OBVIOUS
  <2>3. m # 0
    BY <2>2, <1>5, <1>8
  <2>4. m - 1 \in 0 .. MaxEntries /\ m - 1 < m /\ m \in Nat
    BY <2>2, <2>3, <1>0
  <2>5. v[m - 1] = g[m - 1]
    BY <2>1, <2>4
  <2>6. v[m] = g[m]
    BY <2>2, <2>3, <2>5, <1>5, <1>8
  <2> QED BY <2>2, <2>6
<1>10. \A m \in 0 .. MaxEntries : v[m] = At(s, m + 1)
  BY <1>9, <1>1
<1> QED BY <1>10 DEF v

(* It ends, and visits nothing else.                                       *)
LEMMA ChainVisited ==
  ASSUME NEW b, NEW s \in Seq(Cells), data[b] = At(s, 1),
         \A i \in 1 .. Len(s) : cell[s[i]].next = At(s, i + 1),
         \A i, j \in 1 .. Len(s) : s[i] = s[j] => i = j
  PROVE  /\ Len(s) \in 0 .. MaxEntries
         /\ Visit(b)[MaxEntries] = Null
         /\ \A m \in 0 .. MaxEntries : Visit(b)[m] = At(s, m + 1)
         /\ \A c : c \in Visited(b) <=> \E i \in 1 .. Len(s) : s[i] = c
<1>1. Len(s) \in 0 .. MaxEntries
  BY ChainShort
<1>2. \A m \in 0 .. MaxEntries : Visit(b)[m] = At(s, m + 1)
  BY Visits
<1>3. MaxEntries \in Nat /\ Len(s) \in Nat
  BY TableAssumption
<1>4. Visit(b)[MaxEntries] = Null
  BY <1>1, <1>2, <1>3 DEF At
<1>5. \A i \in 1 .. Len(s) : s[i] # Null
  BY CellNotNull
<1>6. ASSUME NEW c, c \in Visited(b)
      PROVE  \E i \in 1 .. Len(s) : s[i] = c
  <2>1. PICK m \in 0 .. MaxEntries : c = Visit(b)[m] /\ c # Null
    BY <1>6 DEF Visited
  <2> QED BY <2>1, <1>2 DEF At
<1>7. ASSUME NEW i \in 1 .. Len(s)
      PROVE  s[i] \in Visited(b)
  <2>1. i - 1 \in 0 .. MaxEntries /\ i - 1 + 1 = i
    BY <1>1, <1>3
  <2>2. Visit(b)[i - 1] = s[i]
    BY <2>1, <1>2 DEF At
  <2> QED BY <2>1, <2>2, <1>5 DEF Visited
<1> QED BY <1>1, <1>2, <1>4, <1>6, <1>7

(* hashmap_locate finds the first entry of the chain with the key, if      *)
(* there is one.                                                           *)
LEMMA Located ==
  ASSUME NEW k, NEW s \in Seq(Cells), data[hashcode_index(k, size)] = At(s, 1),
         \A i \in 1 .. Len(s) : cell[s[i]].next = At(s, i + 1),
         \A i, j \in 1 .. Len(s) : s[i] = s[j] => i = j
  PROVE  /\ \A e \in hashmap_locate(k) : \E p \in 1 .. Len(s) :
              /\ e = s[p] /\ cell[e].key = k
              /\ \A q \in 1 .. Len(s) : cell[s[q]].key = k => p <= q
         /\ \A q \in 1 .. Len(s) : cell[s[q]].key = k => hashmap_locate(k) # {}
<1> DEFINE v == Visit(hashcode_index(k, size))
           hits == {m \in 0 .. MaxEntries - 1 : v[m] # Null /\ cell[v[m]].key = k}
           firsts == {h \in hits : \A g \in hits : h <= g}
<1>0. MaxEntries \in Nat \ {0} /\ Len(s) \in 0 .. MaxEntries
  BY TableAssumption, ChainShort
<1>1. \A m \in 0 .. MaxEntries : v[m] = At(s, m + 1)
  BY Visits
<1>2. \A i \in 1 .. Len(s) : s[i] # Null
  BY CellNotNull
<1>3. hashmap_locate(k) = {v[m] : m \in firsts}
  BY Zenon DEF hashmap_locate
<1> HIDE DEF v
<1>4. \A m \in hits : m + 1 \in 1 .. Len(s) /\ v[m] = s[m + 1] /\ cell[s[m + 1]].key = k
  BY <1>0, <1>1 DEF At
<1>5. \A q \in 1 .. Len(s) : cell[s[q]].key = k => q - 1 \in hits
  <2> SUFFICES ASSUME NEW q \in 1 .. Len(s), cell[s[q]].key = k
               PROVE  q - 1 \in hits
    OBVIOUS
  <2>1. q - 1 \in 0 .. MaxEntries - 1 /\ q - 1 \in 0 .. MaxEntries /\ q - 1 + 1 = q
    BY <1>0
  <2>2. v[q - 1] = s[q]
    BY <2>1, <1>1 DEF At
  <2> QED BY <2>1, <2>2, <1>2
<1>6. hits \in SUBSET Nat
  BY <1>0
<1> HIDE DEF hits
<1>7. ASSUME NEW e \in hashmap_locate(k)
      PROVE  \E p \in 1 .. Len(s) :
               /\ e = s[p] /\ cell[e].key = k
               /\ \A q \in 1 .. Len(s) : cell[s[q]].key = k => p <= q
  <2>1. PICK m \in firsts : e = v[m]
    BY <1>3, <1>7
  <2>2. m \in hits /\ \A g \in hits : m <= g
    BY <2>1
  <2>3. m + 1 \in 1 .. Len(s) /\ e = s[m + 1] /\ cell[e].key = k
    BY <2>1, <2>2, <1>4
  <2>4. \A q \in 1 .. Len(s) : cell[s[q]].key = k => m + 1 <= q
    BY <2>2, <1>5, <1>6, <1>0
  <2> QED BY <2>3, <2>4
<1>8. ASSUME NEW q \in 1 .. Len(s), cell[s[q]].key = k
      PROVE  hashmap_locate(k) # {}
  <2>1. hits # {}
    BY <1>5, <1>8
  <2>2. PICK x \in hits : \A y \in hits : x <= y
    BY <2>1, <1>6, LeastPlace
  <2>3. x \in firsts
    BY <2>2
  <2>4. v[x] \in hashmap_locate(k)
    BY <2>3, <1>3
  <2> QED BY <2>4
<1> QED BY <1>7, <1>8

(* The sizes are numbers, and a key has a bucket once there are buckets.   *)
LEMMA SizeFacts ==
  ASSUME TypeOK, Sizes
  PROVE  /\ size \in Nat /\ (size > 0 <=> idx > 1)
         /\ grow.size \in Nat
         /\ idx \in Nat \ {0} /\ Len(Primes) \in Nat
         /\ \A k \in Key : size > 0 => hashcode_index(k, size) \in 0 .. size - 1
<1>1. Len(Primes) \in Nat /\ DOMAIN Primes = 1 .. Len(Primes)
      /\ \A i \in 1 .. Len(Primes) : Primes[i] \in Nat \ {0}
  BY TableAssumption
<1>2. size \in Nat /\ grow.size \in Nat
  <2>1. grow.size \in {0} \cup {Primes[i] : i \in DOMAIN Primes}
    BY DEF TypeOK
  <2>2. size \in {0} \cup {Primes[i] : i \in DOMAIN Primes}
    BY DEF TypeOK
  <2> QED BY <2>1, <2>2, <1>1
<1>3. idx \in 1 .. Len(Primes)
  BY DEF TypeOK
<1>4. size > 0 <=> idx > 1
  BY <1>1, <1>3 DEF Sizes
<1>5. ASSUME NEW k \in Key, size > 0
      PROVE  hashcode_index(k, size) \in 0 .. size - 1
  <2>1. Hash[k] \in Nat
    BY TableAssumption
  <2>2. (Hash[k] % size) \in 0 .. size - 1
    BY <2>1, <1>2, <1>5
  <2> QED BY <2>2 DEF hashcode_index
<1> QED BY <1>1, <1>2, <1>3, <1>4, <1>5

(* When no growth is at work, every entry is in the table.                 *)
LEMMA TableSettled ==
  ASSUME Sizes, ~ grow.on, NEW L, NEW ch, NEW oc, NEW rank, Shape(L, ch, oc, rank)
  PROVE  L = live
<1>1. grow.size = 0
  BY DEF Sizes, NoGrowth
<1>2. \A c \in live \ L : \E b \in 0 .. grow.size - 1 : \E i \in 1 .. Len(oc[b]) : oc[b][i] = c
  BY DEF Shape, Chains
<1>3. live \ L = {}
  BY <1>1, <1>2
<1> QED BY <1>3 DEF Shape

(* The invariant implies what the run checks: a loop over a bucket follows *)
(* its chain, and the first entry with a key has rank 1 until the table    *)
(* grows.                                                                  *)
LEMMA InvSound ==
  ASSUME HashInv
  PROVE  TableSound
<1>0. TypeOK /\ Sizes
  BY DEF HashInv
<1>1. PICK L, ch, oc, rank : Shape(L, ch, oc, rank)
  BY DEF HashInv
<1>2. /\ size \in Nat /\ (size > 0 <=> idx > 1)
      /\ idx \in Nat \ {0}
      /\ \A k \in Key : size > 0 => hashcode_index(k, size) \in 0 .. size - 1
  BY <1>0, SizeFacts
<1>3. Chains(cell, data, size, ch, L)
  BY <1>1 DEF Shape
<1>4. \A b \in 0 .. size - 1 :
        /\ ch[b] \in Seq(Cells)
        /\ data[b] = At(ch[b], 1)
        /\ \A i \in 1 .. Len(ch[b]) :
             /\ ch[b][i] \in L
             /\ cell[ch[b][i]].next = At(ch[b], i + 1)
             /\ hashcode_index(cell[ch[b][i]].key, size) = b
        /\ \A i, j \in 1 .. Len(ch[b]) : ch[b][i] = ch[b][j] => i = j
  BY <1>3 DEF Chains
<1>5. ASSUME NEW b \in 0 .. size - 1
      PROVE  /\ Len(ch[b]) \in 0 .. MaxEntries
             /\ Visit(b)[MaxEntries] = Null
             /\ \A m \in 0 .. MaxEntries : Visit(b)[m] = At(ch[b], m + 1)
             /\ \A c : c \in Visited(b) <=> \E i \in 1 .. Len(ch[b]) : ch[b][i] = c
  <2>1. ch[b] \in Seq(Cells) /\ data[b] = At(ch[b], 1)
    BY <1>4
  <2>2. \A i \in 1 .. Len(ch[b]) : cell[ch[b][i]].next = At(ch[b], i + 1)
    BY <1>4
  <2>3. \A i, j \in 1 .. Len(ch[b]) : ch[b][i] = ch[b][j] => i = j
    BY <1>4
  <2> QED BY <2>1, <2>2, <2>3, ChainVisited
<1>6. ASSUME ~ grow.on PROVE L = live
  BY <1>6, <1>0, <1>1, TableSettled
<1>7. Chained
  <2> SUFFICES ASSUME ~ grow.on
               PROVE  /\ \A b \in Buckets : Walkable(b)
                      /\ live = UNION {Visited(b) : b \in Buckets}
                      /\ \A b \in Buckets : \A c \in Visited(b) :
                           hashcode_index(cell[c].key, size) = b
    BY DEF Chained
  <2>1. ASSUME NEW b \in Buckets, NEW c \in Visited(b)
        PROVE  c \in live /\ hashcode_index(cell[c].key, size) = b
    <3>1. b \in 0 .. size - 1
      BY <2>1 DEF Buckets
    <3>2. PICK i \in 1 .. Len(ch[b]) : ch[b][i] = c
      BY <3>1, <2>1, <1>5
    <3> QED BY <3>1, <3>2, <1>4, <1>6
  <2>2. ASSUME NEW b \in Buckets PROVE Walkable(b)
    BY <2>1, <2>2, <1>5 DEF Walkable, Buckets
  <2>3. ASSUME NEW c \in live PROVE \E b \in Buckets : c \in Visited(b)
    <3>1. PICK b \in 0 .. size - 1 : \E i \in 1 .. Len(ch[b]) : ch[b][i] = c
      BY <2>3, <1>3, <1>6 DEF Chains
    <3> QED BY <3>1, <1>5 DEF Buckets
  <2>4. live = UNION {Visited(b) : b \in Buckets}
    BY <2>1, <2>3
  <2> QED BY <2>1, <2>2, <2>4
<1>8. PrevIsPredecessor
  <2> SUFFICES ASSUME ~ Grown, NEW b \in Buckets, NEW m \in 0 .. MaxEntries - 1, Visit(b)[m] # Null
               PROVE  cell[Visit(b)[m]].prev = IF m = 0 THEN Null ELSE Visit(b)[m - 1]
    BY DEF PrevIsPredecessor
  <2>1. b \in 0 .. size - 1 /\ MaxEntries \in Nat
    BY TableAssumption DEF Buckets
  <2>2. m \in 0 .. MaxEntries /\ m + 1 - 1 = m
    BY <2>1
  <2>3. Visit(b)[m] = At(ch[b], m + 1)
    BY <2>1, <2>2, <1>5
  <2>4. m + 1 \in 1 .. Len(ch[b]) /\ Visit(b)[m] = ch[b][m + 1]
    BY <2>3 DEF At
  <2>5. cell[ch[b][m + 1]].prev = At(ch[b], m)
    BY <2>1, <2>2, <2>4, <1>1 DEF Shape, Prevs
  <2>6. CASE m = 0
    BY <2>4, <2>5, <2>6 DEF At
  <2>7. CASE m # 0
    <3>1. m - 1 \in 0 .. MaxEntries /\ m - 1 + 1 = m
      BY <2>1, <2>7
    <3>2. Visit(b)[m - 1] = At(ch[b], m)
      BY <3>1, <2>1, <1>5
    <3> QED BY <3>2, <2>4, <2>5, <2>7
  <2> QED BY <2>6, <2>7
<1>9. FindsStored
  <2> SUFFICES ASSUME size > 0, ~ grow.on, NEW k \in Key
               PROVE  /\ hashmap_find(k) \subseteq Range(stack[k])
                      /\ stack[k] # <<>> => hashmap_find(k) # {}
                      /\ stack[k] # <<>> /\ ~ Grown => hashmap_find(k) = {Head(stack[k])}
    BY DEF FindsStored
  <2> DEFINE b == hashcode_index(k, size)
             s == ch[b]
  <2>1. b \in 0 .. size - 1
    BY <1>2
  <2>2. L = live
    BY <1>6
  <2>3. Ranked(cell, live, stack, rank)
    BY <1>1 DEF Shape
  <2>4. stack[k] \in Seq(Val) /\ Len(stack[k]) \in Nat
    BY <1>0 DEF TypeOK
  <2> HIDE DEF b
  <2>5. /\ s \in Seq(Cells)
        /\ data[b] = At(s, 1)
        /\ \A i \in 1 .. Len(s) : s[i] \in live /\ cell[s[i]].next = At(s, i + 1)
        /\ \A i, j \in 1 .. Len(s) : s[i] = s[j] => i = j
    BY <2>1, <2>2, <1>4
  <2>6. \A c \in live : cell[c].key = k => \E i \in 1 .. Len(s) : s[i] = c
    <3> SUFFICES ASSUME NEW c \in live, cell[c].key = k
                 PROVE  \E i \in 1 .. Len(s) : s[i] = c
      OBVIOUS
    <3>1. PICK d \in 0 .. size - 1 : \E i \in 1 .. Len(ch[d]) : ch[d][i] = c
      BY <2>2, <1>3 DEF Chains
    <3>2. hashcode_index(cell[c].key, size) = d
      BY <3>1, <1>4
    <3>3. d = b
      BY <3>2 DEF b
    <3> QED BY <3>1, <3>3
  <2>7. /\ \A e \in hashmap_locate(k) : \E p \in 1 .. Len(s) :
             /\ e = s[p] /\ cell[e].key = k
             /\ \A q \in 1 .. Len(s) : cell[s[q]].key = k => p <= q
        /\ \A q \in 1 .. Len(s) : cell[s[q]].key = k => hashmap_locate(k) # {}
    <3> HIDE DEF s
    <3> QED BY <2>5, Located DEF b
  <2> HIDE DEF s
  <2>8. ASSUME NEW e \in hashmap_locate(k)
        PROVE  rank[e] \in 1 .. Len(stack[k]) /\ cell[e].val = stack[k][rank[e]]
    <3>1. e \in live /\ cell[e].key = k
      BY <2>5, <2>7, <2>8
    <3> QED BY <3>1, <2>3 DEF Ranked
  <2>9. hashmap_find(k) \subseteq Range(stack[k])
    <3>1. \A r \in 1 .. Len(stack[k]) : stack[k][r] \in Range(stack[k])
      BY <2>4 DEF Range
    <3> QED BY <3>1, <2>8 DEF hashmap_find
  <2>10. ASSUME stack[k] # <<>>
         PROVE  \E q \in 1 .. Len(s) : cell[s[q]].key = k /\ rank[s[q]] = 1
    <3>1. 1 \in 1 .. Len(stack[k])
      BY <2>4, <2>10
    <3>2. PICK c \in live : cell[c].key = k /\ rank[c] = 1
      BY <3>1, <2>3 DEF Ranked
    <3> QED BY <3>2, <2>6
  <2>11. ASSUME stack[k] # <<>> PROVE hashmap_find(k) # {}
    <3>1. hashmap_locate(k) # {}
      BY <2>7, <2>10, <2>11
    <3> QED BY <3>1 DEF hashmap_find
  <2>12. ASSUME stack[k] # <<>>, ~ Grown PROVE hashmap_find(k) = {Head(stack[k])}
    <3>1. PICK q \in 1 .. Len(s) : cell[s[q]].key = k /\ rank[s[q]] = 1
      BY <2>10, <2>12
    <3>2. ASSUME NEW e \in hashmap_locate(k) PROVE rank[e] = 1
      <4>1. PICK p \in 1 .. Len(s) : e = s[p] /\ cell[e].key = k /\ p <= q
        BY <3>1, <3>2, <2>7
      <4>2. rank[e] \in Nat \ {0}
        BY <2>8, <2>4
      <4>3. InOrder(cell, size, ch, rank)
        BY <2>12, <1>1 DEF Shape
      <4>4. p < q => rank[s[p]] < rank[s[q]]
        BY <4>1, <4>3, <3>1, <2>1 DEF InOrder, s
      <4>5. Len(s) \in Nat
        BY <2>5
      <4> QED BY <4>1, <4>2, <4>4, <4>5, <3>1
    <3>3. \A e \in hashmap_locate(k) : cell[e].val = Head(stack[k])
      BY <3>2, <2>8, <2>4, <2>12
    <3>4. hashmap_locate(k) # {}
      BY <2>7, <3>1
    <3> QED BY <3>3, <3>4 DEF hashmap_find
  <2> QED BY <2>9, <2>11, <2>12
<1>10. UsedCount
  BY <1>1, <1>6 DEF UsedCount, Shape
<1> QED BY <1>0, <1>7, <1>8, <1>9, <1>10 DEF TableSound

(* The ranks after an insertion: one more for the entries with the key.    *)
LEMMA RankPushed ==
  ASSUME NEW cl, NEW cl2, NEW lv, NEW st \in [Key -> Seq(Val)], NEW rank, NEW rank2,
         NEW x, NEW e, NEW k \in Key, NEW v \in Val,
         Ranked(cl, lv, st, rank),
         NewFirst(cl, cl2, lv, x, rank, rank2, e, k, v)
  PROVE  Ranked(cl2, lv \cup {e}, [st EXCEPT ![k] = <<v>> \o st[k]], rank2)
<1>h. /\ e \notin lv /\ cl2[e].key = k /\ cl2[e].val = v /\ rank2[e] = 1
      /\ \A c \in lv : /\ cl2[c].key = cl[c].key /\ cl2[c].val = cl[c].val
                       /\ rank2[c] = IF cl[c].key = k THEN rank[c] + 1 ELSE rank[c]
  BY DEF NewFirst
<1> USE <1>h
<1> DEFINE st2 == [st EXCEPT ![k] = <<v>> \o st[k]]
           s == <<v>> \o st[k]
<1>1. st[k] \in Seq(Val) /\ Len(st[k]) \in Nat
  OBVIOUS
<1>2. st2[k] = s /\ \A j \in Key : j # k => st2[j] = st[j]
  OBVIOUS
<1>3. Len(s) = Len(st[k]) + 1 /\ s[1] = v /\ \A r \in 1 .. Len(st[k]) : s[r + 1] = st[k][r]
  BY <1>1
<1> HIDE DEF st2, s
<1>4. \A c \in lv : /\ cl[c].key \in Key
                    /\ rank[c] \in 1 .. Len(st[cl[c].key])
                    /\ cl[c].val = st[cl[c].key][rank[c]]
  BY DEF Ranked
<1>5. ASSUME NEW c \in lv \cup {e}
      PROVE  /\ cl2[c].key \in Key
             /\ rank2[c] \in 1 .. Len(st2[cl2[c].key])
             /\ cl2[c].val = st2[cl2[c].key][rank2[c]]
  <2>1. CASE c = e
    BY <2>1, <1>1, <1>2, <1>3
  <2>2. CASE c # e /\ cl[c].key = k
    <3>1. rank[c] \in 1 .. Len(st[k]) /\ cl[c].val = st[k][rank[c]] /\ rank2[c] = rank[c] + 1
      BY <2>2, <1>4, <1>5
    <3>2. rank2[c] \in 1 .. Len(s) /\ s[rank2[c]] = cl[c].val
      BY <3>1, <1>1, <1>3
    <3> QED BY <3>2, <2>2, <1>2, <1>4, <1>5
  <2>3. CASE c # e /\ cl[c].key # k
    BY <2>3, <1>2, <1>4, <1>5
  <2> QED BY <2>1, <2>2, <2>3
<1>6. ASSUME NEW j \in Key, NEW r \in 1 .. Len(st2[j])
      PROVE  \E c \in lv \cup {e} : cl2[c].key = j /\ rank2[c] = r
  <2>1. CASE j # k
    <3>1. r \in 1 .. Len(st[j])
      BY <2>1, <1>2, <1>6
    <3>2. PICK c \in lv : cl[c].key = j /\ rank[c] = r
      BY <3>1 DEF Ranked
    <3>3. cl2[c].key = j /\ rank2[c] = r
      BY <3>2, <2>1
    <3> QED BY <3>3
  <2>2. CASE j = k /\ r = 1
    BY <2>2
  <2>3. CASE j = k /\ r # 1
    <3>1. r - 1 \in 1 .. Len(st[k]) /\ r - 1 + 1 = r
      BY <2>3, <1>1, <1>2, <1>3, <1>6
    <3>2. PICK c \in lv : cl[c].key = k /\ rank[c] = r - 1
      BY <3>1 DEF Ranked
    <3>3. cl2[c].key = j /\ rank2[c] = r
      BY <3>1, <3>2, <2>3
    <3> QED BY <3>3
  <2> QED BY <2>1, <2>2, <2>3
<1>7. Ranked(cl2, lv \cup {e}, st2, rank2)
  BY <1>5, <1>6 DEF Ranked
<1> QED BY <1>7 DEF st2, s

(* The ranks after a deletion of the entry with rank 1.                    *)
LEMMA RankTaken ==
  ASSUME NEW cl, NEW cl2, NEW lv, NEW st \in [Key -> Seq(Val)], NEW rank, NEW rank2,
         NEW e, NEW k \in Key, NEW before, NEW after,
         Ranked(cl, lv, st, rank),
         cl[e].key = k, rank[e] = 1,
         \A c \in lv \ {e} : cl[c].key = k => rank[c] # 1,
         Gone(cl, cl2, lv, e, k, before, after, rank, rank2)
  PROVE  Ranked(cl2, lv \ {e}, [st EXCEPT ![k] = Tail(st[k])], rank2)
<1>h. /\ e \in lv
      /\ \A c \in lv \ {e} : /\ cl2[c].key = cl[c].key /\ cl2[c].val = cl[c].val
                             /\ rank2[c] = IF cl[c].key = k THEN rank[c] - 1 ELSE rank[c]
  BY DEF Gone
<1> USE <1>h
<1> DEFINE st2 == [st EXCEPT ![k] = Tail(st[k])]
           s == Tail(st[k])
<1>1. st[k] \in Seq(Val) /\ Len(st[k]) \in Nat
  OBVIOUS
<1>2. st2[k] = s /\ \A j \in Key : j # k => st2[j] = st[j]
  OBVIOUS
<1>4. \A c \in lv : /\ cl[c].key \in Key
                    /\ rank[c] \in 1 .. Len(st[cl[c].key])
                    /\ cl[c].val = st[cl[c].key][rank[c]]
  BY DEF Ranked
<1>0. st[k] # <<>>
  BY <1>1, <1>4
<1>3. Len(s) = Len(st[k]) - 1 /\ \A r \in 1 .. Len(st[k]) - 1 : s[r] = st[k][r + 1]
  BY <1>0, <1>1
<1> HIDE DEF st2, s
<1>5. ASSUME NEW c \in lv \ {e}
      PROVE  /\ cl2[c].key \in Key
             /\ rank2[c] \in 1 .. Len(st2[cl2[c].key])
             /\ cl2[c].val = st2[cl2[c].key][rank2[c]]
  <2>2. CASE cl[c].key = k
    <3>1. /\ rank[c] \in 1 .. Len(st[k]) /\ cl[c].val = st[k][rank[c]]
          /\ rank2[c] = rank[c] - 1 /\ rank[c] # 1
      BY <2>2, <1>4, <1>5
    <3>2. rank2[c] \in 1 .. Len(s) /\ s[rank2[c]] = cl[c].val
      BY <3>1, <1>1, <1>3
    <3> QED BY <3>2, <2>2, <1>2, <1>4, <1>5
  <2>3. CASE cl[c].key # k
    BY <2>3, <1>2, <1>4, <1>5
  <2> QED BY <2>2, <2>3
<1>6. ASSUME NEW j \in Key, NEW r \in 1 .. Len(st2[j])
      PROVE  \E c \in lv \ {e} : cl2[c].key = j /\ rank2[c] = r
  <2>1. CASE j # k
    <3>1. r \in 1 .. Len(st[j])
      BY <2>1, <1>2, <1>6
    <3>2. PICK c \in lv : cl[c].key = j /\ rank[c] = r
      BY <3>1 DEF Ranked
    <3>3. c \in lv \ {e} /\ cl2[c].key = j /\ rank2[c] = r
      BY <3>2, <2>1
    <3> QED BY <3>3
  <2>2. CASE j = k
    <3>1. r + 1 \in 1 .. Len(st[k]) /\ r + 1 # 1 /\ r + 1 - 1 = r
      BY <2>2, <1>1, <1>2, <1>3, <1>6
    <3>2. PICK c \in lv : cl[c].key = k /\ rank[c] = r + 1
      BY <3>1 DEF Ranked
    <3>3. c \in lv \ {e} /\ cl2[c].key = j /\ rank2[c] = r
      <4>1. c # e /\ cl2[c].key = cl[c].key /\ rank2[c] = rank[c] - 1
        <5>1. c # e
          BY <3>1, <3>2
        <5> QED BY <5>1, <3>2
      <4> QED BY <4>1, <3>1, <3>2, <2>2
    <3> QED BY <3>3
  <2> QED BY <2>1, <2>2
<1>7. Ranked(cl2, lv \ {e}, st2, rank2)
  BY <1>5, <1>6 DEF Ranked
<1> QED BY <1>7 DEF st2, s

(* Empty buckets.                                                          *)
LEMMA NoChains ==
  ASSUME NEW cl, NEW n \in Nat, NEW first, \A b \in 0 .. n - 1 : first[b] = Null
  PROVE  /\ Chains(cl, first, n, [b \in 0 .. n - 1 |-> <<>>], {})
         /\ Prevs(cl, n, [b \in 0 .. n - 1 |-> <<>>])
         /\ \A rank : InOrder(cl, n, [b \in 0 .. n - 1 |-> <<>>], rank)
<1>1. \A b \in 0 .. n - 1 : [d \in 0 .. n - 1 |-> <<>>][b] = <<>>
  OBVIOUS
<1>2. Len(<<>>) = 0 /\ At(<<>>, 1) = Null
  BY DEF At
<1>3. [b \in 0 .. n - 1 |-> <<>>] \in [0 .. n - 1 -> Seq(Cells)]
  OBVIOUS
<1> DEFINE ch == [b \in 0 .. n - 1 |-> <<>>]
<1>4. \A b \in 0 .. n - 1 : At(ch[b], 1) = Null /\ 1 .. Len(ch[b]) = {}
  BY <1>1, <1>2
<1> HIDE DEF ch
<1>5. Chains(cl, first, n, ch, {})
  BY <1>3, <1>4 DEF Chains, ch
<1>6. Prevs(cl, n, ch) /\ \A rank : InOrder(cl, n, ch, rank)
  BY <1>4 DEF Prevs, InOrder
<1> QED BY <1>5, <1>6 DEF ch

(* The table t with e in front of the bucket b of d and cl.                *)
InFront(t, u, d, cl, b, e) ==
  /\ t.used = (u + 1) % UsedMod
  /\ t.data = [d EXCEPT ![b] = e]
  /\ t.cell \in [Cells -> Entry]
  /\ t.cell[e].next = d[b] /\ t.cell[e].prev = cl[e].prev
  /\ \A c \in Cells : t.cell[c].key = cl[c].key /\ t.cell[c].val = cl[c].val
  /\ \A c \in Cells \ {e} :
       /\ t.cell[c].next = cl[c].next
       /\ t.cell[c].prev = IF c = d[b] THEN e ELSE cl[c].prev

(* What hashmap_link writes.                                               *)
LEMMA Linked ==
  ASSUME NEW sz \in Nat \ {0}, NEW u, NEW d \in [0 .. sz - 1 -> Cells \cup {Null}],
         NEW cl \in [Cells -> Entry], NEW e \in Cells, NEW b \in 0 .. sz - 1,
         b = hashcode_index(cl[e].key, sz), d[b] # e, NEW t,
         t = hashmap_link([size |-> sz, used |-> u, data |-> d, cell |-> cl], e)
  PROVE  InFront(t, u, d, cl, b, e)
<1> DEFINE c1 == [cl EXCEPT ![e].next = d[b]]
           c2 == IF d[b] = Null THEN c1 ELSE [c1 EXCEPT ![d[b]].prev = e]
<1>1. t.used = (u + 1) % UsedMod /\ t.data = [d EXCEPT ![b] = e] /\ t.cell = c2
  BY DEF hashmap_link
<1>2. d[b] \in Cells \cup {Null}
  OBVIOUS
<1>3. \A c \in Cells : cl[c] \in Entry
  OBVIOUS
<1>4. c1 \in [Cells -> Entry]
      /\ c1[e].next = d[b] /\ c1[e].prev = cl[e].prev
      /\ c1[e].key = cl[e].key /\ c1[e].val = cl[e].val
      /\ \A c \in Cells \ {e} : c1[c] = cl[c]
  BY <1>2, <1>3 DEF Entry
<1> HIDE DEF c1
<1>5. CASE d[b] = Null
  <2>1. c2 = c1
    BY <1>5
  <2>2. \A c \in Cells \ {e} : c # d[b]
    BY <1>5, CellNotNull
  <2> QED BY <2>1, <2>2, <1>1, <1>4 DEF InFront
<1>6. CASE d[b] # Null
  <2>1. d[b] \in Cells /\ c2 = [c1 EXCEPT ![d[b]].prev = e]
    BY <1>2, <1>6
  <2>2. c2 \in [Cells -> Entry]
    <3>1. c1[d[b]] \in Entry
      BY <2>1, <1>4
    <3>2. [c1[d[b]] EXCEPT !.prev = e] \in Entry
      BY <3>1 DEF Entry
    <3> QED BY <2>1, <3>2, <1>4
  <2>3. \A c \in Cells : c # d[b] => c2[c] = c1[c]
    BY <2>1, <1>4
  <2>4. /\ c2[d[b]].prev = e /\ c2[d[b]].next = c1[d[b]].next
        /\ c2[d[b]].key = c1[d[b]].key /\ c2[d[b]].val = c1[d[b]].val
    BY <2>1, <1>4 DEF Entry
  <2> HIDE DEF c2
  <2>5. c2[e] = c1[e]
    BY <2>3
  <2>6. ASSUME NEW c \in Cells \ {e}
        PROVE  /\ c2[c].key = cl[c].key /\ c2[c].val = cl[c].val /\ c2[c].next = cl[c].next
               /\ c2[c].prev = IF c = d[b] THEN e ELSE cl[c].prev
    <3>1. c1[c] = cl[c]
      BY <1>4, <2>6
    <3>2. CASE c = d[b]
      BY <3>1, <3>2, <2>4
    <3>3. CASE c # d[b]
      BY <3>1, <3>3, <2>3, <2>6
    <3> QED BY <3>2, <3>3
  <2> QED BY <2>2, <2>5, <2>6, <1>1, <1>4 DEF InFront
<1> QED BY <1>5, <1>6

(* used does not wrap: there are fewer entries than an uint16_t can count. *)
LEMMA Counted ==
  ASSUME MaxEntries < UsedMod, NEW L \in SUBSET Cells
  PROVE  /\ IsFiniteSet(L) /\ Cardinality(L) \in 0 .. UsedMod - 1
         /\ \A e \in Cells \ L : Cardinality(L \cup {e}) = (Cardinality(L) + 1) % UsedMod
         /\ \A e \in L : Cardinality(L \ {e}) = (Cardinality(L) - 1) % UsedMod
<1>0. MaxEntries \in Nat /\ UsedMod \in Nat \ {0}
  BY TableAssumption
<1>1. IsFiniteSet(L) /\ Cardinality(L) <= MaxEntries
  BY CellsFinite, FS_Subset
<1>2. Cardinality(L) \in Nat
  BY <1>1, FS_CardinalityType
<1>3. ASSUME NEW e \in Cells \ L
      PROVE  Cardinality(L \cup {e}) = (Cardinality(L) + 1) % UsedMod
  <2>1. Cardinality(L \cup {e}) = Cardinality(L) + 1
    BY <1>1, <1>3, FS_AddElement
  <2>2. L \cup {e} \in SUBSET Cells
    BY <1>3
  <2>3. Cardinality(L \cup {e}) <= MaxEntries
    BY <2>2, CellsFinite, FS_Subset
  <2> QED BY <2>1, <2>3, <1>0, <1>2
<1>4. ASSUME NEW e \in L
      PROVE  Cardinality(L \ {e}) = (Cardinality(L) - 1) % UsedMod
  <2>1. Cardinality(L \ {e}) = Cardinality(L) - 1 /\ IsFiniteSet(L \ {e})
    BY <1>1, <1>4, FS_RemoveElement
  <2>2. Cardinality(L \ {e}) \in Nat
    BY <2>1, FS_CardinalityType
  <2> QED BY <2>1, <2>2, <1>0, <1>1, <1>2
<1> QED BY <1>0, <1>1, <1>2, <1>3, <1>4

(* The first entry of a bucket is one of the table.                        *)
LEMMA FirstIn ==
  ASSUME NEW cl, NEW first, NEW n \in Nat, NEW ch, NEW L, Chains(cl, first, n, ch, L),
         NEW b \in 0 .. n - 1
  PROVE  first[b] \in L \cup {Null}
<1>1. first[b] = At(ch[b], 1) /\ \A i \in 1 .. Len(ch[b]) : ch[b][i] \in L
  BY DEF Chains
<1> QED BY <1>1 DEF At

(* hashmap_insert, after the table has room.                               *)
LEMMA PlacedKeeps ==
  ASSUME HashInv, MaxEntries < UsedMod, NEW k \in Key, NEW v \in Val, size > 0,
         NEW ch, NEW oc, NEW rank, Shape(live, ch, oc, rank),
         Placed(k, v), idx' = idx, size' = size, grow' = NoGrowth
  PROVE  HashInv'
<1>0. TypeOK /\ Sizes
  BY DEF HashInv
<1>1. /\ size \in Nat \ {0} /\ idx > 1 /\ idx \in Nat
      /\ hashcode_index(k, size) \in 0 .. size - 1
  BY <1>0, SizeFacts
<1>2. PICK none : none = [b \in 0 .. -1 |-> <<>>]
  OBVIOUS
<1>3. Chains(cell', grow'.left, grow'.size, none, {})
  <2>1. \A b \in 0 .. 0 - 1 : grow'.left[b] = Null
    OBVIOUS
  <2>2. grow'.size = 0 /\ 0 - 1 = -1
    BY DEF NoGrowth
  <2>3. Chains(cell', grow'.left, 0, [b \in 0 .. 0 - 1 |-> <<>>], {})
    BY <2>1, NoChains
  <2> QED BY <2>2, <2>3, <1>2
<1>4. Sizes'
  BY <1>0, <1>1 DEF Sizes, NoGrowth, Grown
<1>5. /\ grow' \in [on : BOOLEAN, key : Key \cup {Null}, val : Val \cup {Null},
                    size : {0} \cup {Primes[i] : i \in DOMAIN Primes},
                    left : [0 .. grow'.size - 1 -> Cells \cup {Null}]]
      /\ idx' \in 1 .. Len(Primes)
      /\ size' \in {0} \cup {Primes[i] : i \in DOMAIN Primes}
  <2>1. grow'.size = 0 /\ 0 - 1 = -1
    BY DEF NoGrowth
  <2>2. [b \in 0 .. -1 |-> Null] \in [0 .. -1 -> Cells \cup {Null}]
    OBVIOUS
  <2> QED BY <2>1, <2>2, <1>0 DEF NoGrowth, TypeOK
<1>6. CASE UNCHANGED <<used, data, cell, live, stack>>
  <2>1. TypeOK'
    BY <1>6, <1>5, <1>0 DEF TypeOK, Buckets
  <2>2. live' \ live = {}
    BY <1>6
  <2>3. PICK lv : lv = live
    OBVIOUS
  <2>4. Shape(lv, ch, none, rank)'
    BY <2>2, <2>3, <1>3, <1>6 DEF Shape, Grown
  <2> QED BY <2>1, <2>4, <1>4 DEF HashInv
<1>7. CASE ~ UNCHANGED <<used, data, cell, live, stack>>
  <2>1. PICK e \in Cells \ live :
          LET t == hashmap_link(NewEntry(Table, e, k, v), e)
          IN /\ used' = t.used
             /\ data' = t.data
             /\ cell' = t.cell
             /\ live' = live \cup {e}
             /\ stack' = [stack EXCEPT ![k] = <<v>> \o @]
    BY <1>7 DEF Placed
  <2> DEFINE cl == [cell EXCEPT ![e] = [key |-> k, val |-> v, next |-> Null, prev |-> Null]]
             b == hashcode_index(k, size)
  <2>2. /\ cell \in [Cells -> Entry] /\ data \in [0 .. size - 1 -> Cells \cup {Null}]
        /\ live \in SUBSET Cells /\ stack \in [Key -> Seq(Val)]
    BY <1>0 DEF TypeOK, Buckets
  <2>3. cl \in [Cells -> Entry]
    <3>1. [key |-> k, val |-> v, next |-> Null, prev |-> Null] \in Entry
      BY DEF Entry
    <3> QED BY <3>1, <2>2
  <2>4. /\ cl[e] = [key |-> k, val |-> v, next |-> Null, prev |-> Null]
        /\ \A c \in Cells \ {e} : cl[c] = cell[c]
    BY <2>2
  <2>5. NewEntry(Table, e, k, v) = [size |-> size, used |-> used, data |-> data, cell |-> cl]
    BY DEF NewEntry, Table
  <2>6. /\ Chains(cell, data, size, ch, live)
        /\ used = Cardinality(live)
        /\ Ranked(cell, live, stack, rank)
        /\ ~ Grown => Prevs(cell, size, ch) /\ InOrder(cell, size, ch, rank)
    BY DEF Shape
  <2> HIDE DEF cl
  <2>7. b \in 0 .. size - 1 /\ b = hashcode_index(cl[e].key, size)
    BY <1>1, <2>4
  <2> HIDE DEF b
  <2>8. data[b] \in live \cup {Null}
    BY <2>6, <2>7, <1>1, FirstIn
  <2>9. data[b] # e
    BY <2>8, <2>1, CellNotNull
  <2>10. PICK t : /\ t = hashmap_link([size |-> size, used |-> used, data |-> data, cell |-> cl], e)
                  /\ used' = t.used /\ data' = t.data /\ cell' = t.cell
    BY <2>1, <2>5
  <2>11. /\ used' = (used + 1) % UsedMod
         /\ data' = [data EXCEPT ![b] = e]
         /\ cell' \in [Cells -> Entry]
         /\ cell'[e].next = data[b] /\ cell'[e].prev = cl[e].prev
         /\ \A c \in Cells : cell'[c].key = cl[c].key /\ cell'[c].val = cl[c].val
         /\ \A c \in Cells \ {e} :
              /\ cell'[c].next = cl[c].next
              /\ cell'[c].prev = IF c = data[b] THEN e ELSE cl[c].prev
    <3>1. InFront(t, used, data, cl, b, e)
      BY <2>1, <2>2, <2>3, <2>7, <2>9, <2>10, <1>1, Linked, Zenon
    <3> QED BY <3>1, <2>10 DEF InFront
  <2>12. cell'[e].key = k /\ cell'[e].val = v /\ cell'[e].prev = Null
    BY <2>4, <2>11
  <2>13. \A c \in live : /\ cell'[c].key = cell[c].key /\ cell'[c].val = cell[c].val
                         /\ cell'[c].next = cell[c].next
                         /\ cell'[c].prev = IF c = data[b] THEN e ELSE cell[c].prev
    <3> SUFFICES ASSUME NEW c \in live
                 PROVE  /\ cell'[c].key = cell[c].key /\ cell'[c].val = cell[c].val
                        /\ cell'[c].next = cell[c].next
                        /\ cell'[c].prev = IF c = data[b] THEN e ELSE cell[c].prev
      OBVIOUS
    <3>1. c \in Cells \ {e} /\ cl[c] = cell[c]
      BY <2>1, <2>2, <2>4
    <3> QED BY <3>1, <2>11
  <2>14. PICK r2 : r2 = [c \in Cells |-> IF c = e THEN 1 ELSE
                                           IF cell[c].key = k THEN rank[c] + 1 ELSE rank[c]]
    OBVIOUS
  <2>15. r2[e] = 1 /\ \A c \in live : r2[c] = IF cell[c].key = k THEN rank[c] + 1 ELSE rank[c]
    BY <2>1, <2>2, <2>14
  <2>16. PICK c2 : c2 = [ch EXCEPT ![b] = <<e>> \o ch[b]]
    OBVIOUS
  <2>17. Chains(cell', data', size, c2, live \cup {e})
    <3>1. hashcode_index(cell'[e].key, size) = b
      BY <2>12 DEF b
    <3>2. \A c \in live : cell'[c].next = cell[c].next /\ cell'[c].key = cell[c].key
      BY <2>13
    <3>3. cell'[e].next = data[b] /\ e \in Cells /\ e \notin live
      BY <2>11, <2>1
    <3>4. Chains(cell', [data EXCEPT ![b] = e], size, [ch EXCEPT ![b] = <<e>> \o ch[b]],
                 live \cup {e})
      BY <3>1, <3>2, <3>3, <2>2, <2>6, <2>7, <1>1, Pushed
    <3> QED BY <3>4, <2>11, <2>16
  <2>18. NewFirst(cell, cell', live, data[b], rank, r2, e, k, v)
    BY <2>1, <2>12, <2>13, <2>15 DEF NewFirst
  <2>19. Ranked(cell', live \cup {e}, stack', r2)
    <3>1. Ranked(cell', live \cup {e}, [stack EXCEPT ![k] = <<v>> \o stack[k]], r2)
      BY <2>2, <2>6, <2>18, RankPushed, Zenon
    <3> QED BY <3>1, <2>1
  <2>20. ASSUME ~ Grown PROVE Prevs(cell', size, c2) /\ InOrder(cell', size, c2, r2)
    <3>1. size \in Nat
      BY <1>1
    <3>2. Prevs(cell', size, [ch EXCEPT ![b] = <<e>> \o ch[b]])
      BY <3>1, <2>6, <2>7, <2>18, <2>20, PrevsPushed, Zenon
    <3>3. \A c \in live : rank[c] \in Nat \ {0}
      <4> SUFFICES ASSUME NEW c \in live PROVE rank[c] \in Nat \ {0}
        OBVIOUS
      <4>1. cell[c].key \in Key /\ rank[c] \in 1 .. Len(stack[cell[c].key])
        BY <2>6 DEF Ranked
      <4>2. Len(stack[cell[c].key]) \in Nat
        BY <4>1, <2>2
      <4> QED BY <4>1, <4>2
    <3>4. InOrder(cell', size, [ch EXCEPT ![b] = <<e>> \o ch[b]], r2)
      BY <3>1, <3>3, <2>6, <2>7, <2>18, <2>20, OrderPushed, Zenon
    <3> QED BY <3>2, <3>4, <2>16
  <2>24. /\ live \cup {e} \in SUBSET Cells
         /\ used' = Cardinality(live \cup {e}) /\ used' \in 0 .. UsedMod - 1
    <3>1. live \cup {e} \in SUBSET Cells
      BY <2>1, <2>2
    <3>2. used' = Cardinality(live \cup {e})
      BY <2>1, <2>2, <2>6, <2>11, Counted
    <3> QED BY <3>1, <3>2, Counted
  <2>21. TypeOK'
    <3>1. data' \in [0 .. size - 1 -> Cells \cup {Null}]
      BY <2>1, <2>2, <2>11
    <3>2. stack' \in [Key -> Seq(Val)]
      <4>1. <<v>> \o stack[k] \in Seq(Val)
        BY <2>2
      <4> QED BY <4>1, <2>1, <2>2
    <3> QED BY <3>1, <3>2, <2>1, <2>11, <2>24, <1>5 DEF TypeOK, Buckets
  <2>22. PICK lv : lv = live \cup {e}
    OBVIOUS
  <2>23. Shape(lv, c2, none, r2)'
    <3>1. live' = lv /\ live' \ lv = {}
      BY <2>1, <2>22
    <3>2. ~ Grown' => ~ Grown
      BY DEF Grown
    <3> QED BY <3>1, <3>2, <2>17, <2>19, <2>20, <2>22, <2>24, <1>3 DEF Shape
  <2> QED BY <2>21, <2>23, <1>4 DEF HashInv
<1> QED BY <1>6, <1>7

(* No growth is at work.                                                   *)
LEMMA NoTable ==
  /\ NoGrowth.size = 0 /\ NoGrowth.left = [b \in 0 .. -1 |-> Null] /\ ~ NoGrowth.on
  /\ NoGrowth \in [on : BOOLEAN, key : Key \cup {Null}, val : Val \cup {Null},
                   size : {0} \cup {Primes[i] : i \in DOMAIN Primes},
                   left : [0 .. NoGrowth.size - 1 -> Cells \cup {Null}]]
<1>1. NoGrowth.size = 0 /\ 0 - 1 = -1
  BY DEF NoGrowth
<1>2. [b \in 0 .. -1 |-> Null] \in [0 .. -1 -> Cells \cup {Null}]
  OBVIOUS
<1> QED BY <1>1, <1>2 DEF NoGrowth

(* hashmap_insert into a full table: the chains become the old ones.       *)
LEMMA BeginGrowth ==
  ASSUME HashInv, MaxEntries < UsedMod, ~ grow.on, NEW k \in Key, NEW v \in Val, idx < Len(Primes),
         idx' = idx + 1, size' = Primes[idx + 1], used' = 0,
         data' = [b \in 0 .. Primes[idx + 1] - 1 |-> Null],
         grow' = [on |-> TRUE, key |-> k, val |-> v, size |-> size, left |-> data],
         UNCHANGED <<cell, live, stack>>
  PROVE  HashInv'
<1>0. TypeOK /\ Sizes
  BY DEF HashInv
<1>1. PICK L, ch, oc, rank : Shape(L, ch, oc, rank)
  BY DEF HashInv
<1>2. L = live
  BY <1>0, <1>1, TableSettled
<1>3. /\ size \in Nat /\ (size > 0 <=> idx > 1)
      /\ idx \in Nat \ {0} /\ Len(Primes) \in Nat
  BY <1>0, SizeFacts
<1>4. idx + 1 \in 1 .. Len(Primes) /\ idx + 1 \in DOMAIN Primes /\ Primes[idx + 1] \in Nat \ {0}
  BY <1>3, TableAssumption
<1>5. PICK n \in Nat \ {0} : n = Primes[idx + 1]
  BY <1>4
<1>6. /\ data \in [0 .. size - 1 -> Cells \cup {Null}]
      /\ size \in {0} \cup {Primes[i] : i \in DOMAIN Primes}
  BY <1>0 DEF TypeOK, Buckets
<1>7. data' \in [0 .. n - 1 -> Cells \cup {Null}] /\ \A b \in 0 .. n - 1 : data'[b] = Null
  BY <1>5
<1>8. grow' \in [on : BOOLEAN, key : Key \cup {Null}, val : Val \cup {Null},
                 size : {0} \cup {Primes[i] : i \in DOMAIN Primes},
                 left : [0 .. grow'.size - 1 -> Cells \cup {Null}]]
  BY <1>6
<1>9. TypeOK'
  <2>1. used' \in 0 .. UsedMod - 1
    BY TableAssumption
  <2>2. size' \in {0} \cup {Primes[i] : i \in DOMAIN Primes}
    BY <1>4
  <2>3. data' \in [Buckets' -> Cells \cup {Null}]
    BY <1>5, <1>7 DEF Buckets
  <2>4. /\ cell' \in [Cells -> Entry] /\ live' \subseteq Cells /\ stack' \in [Key -> Seq(Val)]
    BY <1>0 DEF TypeOK
  <2> QED BY <2>1, <2>2, <2>3, <2>4, <1>4, <1>8 DEF TypeOK
<1>10. ~ Grown' => live = {}
  BY <1>0, <1>3 DEF Sizes, Grown
<1>11. Sizes'
  BY <1>10, <1>3 DEF Sizes
<1>12. PICK c2 : c2 = [b \in 0 .. n - 1 |-> <<>>]
  OBVIOUS
<1>13. Chains(cell', data', n, c2, {}) /\ Prevs(cell', n, c2) /\ InOrder(cell', n, c2, rank)
  BY <1>7, <1>12, NoChains
<1>14. Chains(cell', grow'.left, grow'.size, ch, live' \ {})
  BY <1>1, <1>2 DEF Shape
<1>15. Shape({}, c2, ch, rank)'
  <2>1. used' = Cardinality({})
    BY FS_EmptySet
  <2>2. Ranked(cell', live', stack', rank)
    BY <1>1 DEF Shape
  <2> QED BY <2>1, <2>2, <1>5, <1>13, <1>14 DEF Shape
<1> QED BY <1>9, <1>11, <1>15 DEF HashInv

(* hashmap_insert.                                                         *)
LEMMA InsertKeeps ==
  ASSUME HashInv, MaxEntries < UsedMod, NEW k \in Key, NEW v \in Val, hashmap_insert(k, v)
  PROVE  HashInv'
<1>0. TypeOK /\ Sizes /\ ~ grow.on
  BY DEF HashInv, hashmap_insert
<1>1. CASE ~ Full /\ Placed(k, v) /\ UNCHANGED <<idx, size, grow>>
  <2>1. PICK L, ch, oc, rank : Shape(L, ch, oc, rank)
    BY DEF HashInv
  <2>2. Shape(live, ch, oc, rank)
    <3>1. L = live
      BY <1>0, <2>1, TableSettled
    <3> QED BY <2>1, <3>1
  <2>3. size > 0
    <3>1. used \in 0 .. UsedMod - 1 /\ size \in Nat
      BY <1>0, SizeFacts DEF TypeOK
    <3> QED BY <3>1, <1>1, TableAssumption DEF Full
  <2>4. grow' = NoGrowth
    BY <1>0, <1>1 DEF Sizes
  <2> QED BY <2>2, <2>3, <2>4, <1>1, PlacedKeeps
<1>2. CASE ~ (~ Full /\ Placed(k, v) /\ UNCHANGED <<idx, size, grow>>)
  BY <1>0, <1>2, BeginGrowth DEF hashmap_insert
<1> QED BY <1>1, <1>2

(* The end of a growth: nothing is left in the old buckets.                *)
LEMMA InsertGrownKeeps ==
  ASSUME HashInv, MaxEntries < UsedMod, InsertGrown
  PROVE  HashInv'
<1>0. TypeOK /\ Sizes /\ grow.on
  BY DEF HashInv, InsertGrown
<1>1. PICK L, ch, oc, rank : Shape(L, ch, oc, rank)
  BY DEF HashInv
<1>2. grow.key \in Key /\ grow.val \in Val /\ size > 0 /\ size \in Nat /\ grow.size \in Nat
  BY <1>0, SizeFacts DEF Sizes
<1>3. L = live
  <2>1. Chains(cell, grow.left, grow.size, oc, live \ L) /\ L \subseteq live
    BY <1>1 DEF Shape
  <2>2. ASSUME NEW b \in 0 .. grow.size - 1, NEW i \in 1 .. Len(oc[b])
        PROVE  FALSE
    <3>1. oc[b] \in Seq(Cells) /\ grow.left[b] = At(oc[b], 1) /\ grow.left[b] = Null
      BY <2>1, <2>2 DEF Chains, InsertGrown
    <3>2. 1 \in 1 .. Len(oc[b])
      BY <3>1, <2>2
    <3>3. oc[b][1] \in Cells
      BY <3>1, <3>2
    <3> QED BY <3>1, <3>2, <3>3, CellNotNull DEF At
  <2> QED BY <2>1, <2>2 DEF Chains
<1>4. Shape(live, ch, oc, rank)
  BY <1>1, <1>3
<1>5. Placed(grow.key, grow.val) /\ idx' = idx /\ size' = size /\ grow' = NoGrowth
  BY DEF InsertGrown
<1> QED BY <1>2, <1>4, <1>5, PlacedKeeps

(* hashmap_grow moves the first entry of an old bucket to the table.       *)
LEMMA GrowKeeps ==
  ASSUME HashInv, MaxEntries < UsedMod, hashmap_grow
  PROVE  HashInv'
<1>0. TypeOK /\ Sizes /\ grow.on
  BY DEF HashInv, hashmap_grow
<1>1. PICK L, ch, oc, rank : Shape(L, ch, oc, rank)
  BY DEF HashInv
<1>2. /\ size \in Nat \ {0} /\ grow.size \in Nat
      /\ \A k \in Key : hashcode_index(k, size) \in 0 .. size - 1
  BY <1>0, SizeFacts DEF Sizes
<1>3. PICK a \in 0 .. grow.size - 1 :
        LET e == grow.left[a]
            t == hashmap_link(Table, e)
        IN /\ e # Null
           /\ used' = t.used
           /\ data' = t.data
           /\ cell' = t.cell
           /\ grow' = [grow EXCEPT !.left[a] = cell[e].next]
  BY DEF hashmap_grow
<1>4. PICK e : e = grow.left[a] /\ e # Null
  BY <1>3
<1>5. /\ Chains(cell, data, size, ch, L) /\ L \subseteq live
      /\ Chains(cell, grow.left, grow.size, oc, live \ L)
      /\ used = Cardinality(L)
      /\ Ranked(cell, live, stack, rank)
  BY <1>1 DEF Shape
<1>6. /\ cell \in [Cells -> Entry] /\ data \in [0 .. size - 1 -> Cells \cup {Null}]
      /\ live \in SUBSET Cells /\ L \in SUBSET Cells
      /\ grow.left \in [0 .. grow.size - 1 -> Cells \cup {Null}]
  BY <1>0, <1>5 DEF TypeOK, Buckets
<1>7. e \in live \ L
      /\ Chains(cell, [grow.left EXCEPT ![a] = cell[e].next], grow.size,
                [oc EXCEPT ![a] = Tail(oc[a])], (live \ L) \ {e})
  BY <1>2, <1>4, <1>5, <1>6, FirstTaken
<1>8. e \in Cells /\ cell[e].key \in Key
  BY <1>5, <1>6, <1>7 DEF Ranked
<1>9. PICK b \in 0 .. size - 1 : b = hashcode_index(cell[e].key, size)
  BY <1>2, <1>8
<1>10. data[b] # e
  <2>1. data[b] \in L \cup {Null}
    BY <1>2, <1>5, FirstIn
  <2> QED BY <2>1, <1>4, <1>7
<1>11. PICK t : /\ t = hashmap_link([size |-> size, used |-> used, data |-> data, cell |-> cell], e)
                /\ used' = t.used /\ data' = t.data /\ cell' = t.cell
  BY <1>3, <1>4 DEF Table
<1>12. InFront(t, used, data, cell, b, e)
  BY <1>2, <1>6, <1>8, <1>9, <1>10, <1>11, Linked, Zenon
<1>13. /\ used' = (used + 1) % UsedMod
       /\ data' = [data EXCEPT ![b] = e]
       /\ cell' \in [Cells -> Entry]
       /\ cell'[e].next = data[b]
       /\ \A c \in Cells : cell'[c].key = cell[c].key /\ cell'[c].val = cell[c].val
       /\ \A c \in Cells \ {e} : cell'[c].next = cell[c].next
  BY <1>11, <1>12 DEF InFront
<1>14. PICK c2 : c2 = [ch EXCEPT ![b] = <<e>> \o ch[b]]
  OBVIOUS
<1>15. PICK o2 : o2 = [oc EXCEPT ![a] = Tail(oc[a])]
  OBVIOUS
<1>16. PICK L2 : L2 = L \cup {e}
  OBVIOUS
<1>17. Chains(cell', data', size, c2, L2)
  <2>1. \A c \in L : cell'[c].next = cell[c].next /\ cell'[c].key = cell[c].key
    BY <1>6, <1>7, <1>13
  <2>2. hashcode_index(cell'[e].key, size) = b /\ e \notin L /\ size \in Nat
    BY <1>2, <1>7, <1>8, <1>9, <1>13
  <2>3. Chains(cell', [data EXCEPT ![b] = e], size, [ch EXCEPT ![b] = <<e>> \o ch[b]], L \cup {e})
    <3>1. Chains(cell, data, size, ch, L) /\ e \in Cells /\ cell'[e].next = data[b]
      BY <1>5, <1>8, <1>13
    <3>2. data \in [0 .. size - 1 -> Cells \cup {Null}]
      BY <1>6
    <3> QED BY <2>1, <2>2, <3>1, <3>2, Pushed
  <2> QED BY <2>3, <1>13, <1>14, <1>16
<1>18. grow'.left = [grow.left EXCEPT ![a] = cell[e].next] /\ grow'.size = grow.size
       /\ grow'.on = grow.on /\ grow'.key = grow.key /\ grow'.val = grow.val
  BY <1>3, <1>4, <1>0 DEF TypeOK
<1>19. Chains(cell', grow'.left, grow'.size, o2, live' \ L2)
  <2>1. live' \ L2 = (live \ L) \ {e}
    BY <1>16 DEF hashmap_grow
  <2>2. \A c \in (live \ L) \ {e} : cell'[c].next = cell[c].next /\ cell'[c].key = cell[c].key
    BY <1>6, <1>13
  <2>3. Chains(cell', [grow.left EXCEPT ![a] = cell[e].next], grow.size,
               [oc EXCEPT ![a] = Tail(oc[a])], (live \ L) \ {e})
    BY <2>2, <1>7, ChainsKept
  <2> QED BY <2>1, <2>3, <1>15, <1>18
<1>20. L2 \in SUBSET Cells /\ used' = Cardinality(L2) /\ used' \in 0 .. UsedMod - 1
  <2>1. L2 \in SUBSET Cells /\ e \in Cells \ L
    BY <1>6, <1>7, <1>16
  <2>2. used' = Cardinality(L2)
    BY <2>1, <1>5, <1>6, <1>13, <1>16, Counted
  <2> QED BY <2>1, <2>2, Counted
<1>21. Ranked(cell', live', stack', rank)
  <2>1. \A c \in live : cell'[c].key = cell[c].key /\ cell'[c].val = cell[c].val
    BY <1>6, <1>13
  <2>2. live' = live /\ stack' = stack
    BY DEF hashmap_grow
  <2>3. Ranked(cell', live, stack, rank)
    <3>1. \A c \in live : /\ cell'[c].key \in Key
                          /\ rank[c] \in 1 .. Len(stack[cell'[c].key])
                          /\ cell'[c].val = stack[cell'[c].key][rank[c]]
      BY <2>1, <1>5 DEF Ranked
    <3>2. \A k \in Key : \A r \in 1 .. Len(stack[k]) :
            \E c \in live : cell'[c].key = k /\ rank[c] = r
      BY <2>1, <1>5 DEF Ranked
    <3> QED BY <3>1, <3>2 DEF Ranked
  <2> QED BY <2>2, <2>3
<1>22. Grown /\ Grown'
  <2>1. Grown
    BY <1>0, <1>7 DEF Sizes
  <2> QED BY <2>1 DEF Grown, hashmap_grow
<1>23. TypeOK'
  <2>1. grow' \in [on : BOOLEAN, key : Key \cup {Null}, val : Val \cup {Null},
                   size : {0} \cup {Primes[i] : i \in DOMAIN Primes},
                   left : [0 .. grow'.size - 1 -> Cells \cup {Null}]]
    <3>1. cell[e].next \in Cells \cup {Null}
      BY <1>6, <1>8 DEF Entry
    <3>2. grow'.left \in [0 .. grow.size - 1 -> Cells \cup {Null}]
      BY <3>1, <1>6, <1>18
    <3>3. grow \in [on : BOOLEAN, key : Key \cup {Null}, val : Val \cup {Null},
                   size : {0} \cup {Primes[i] : i \in DOMAIN Primes},
                   left : [0 .. grow.size - 1 -> Cells \cup {Null}]]
      BY <1>0 DEF TypeOK
    <3>4. grow' = [grow EXCEPT !.left = grow'.left]
      BY <3>3, <1>3, <1>4
    <3> QED BY <3>2, <3>3, <3>4, <1>18
  <2>2. data' \in [0 .. size - 1 -> Cells \cup {Null}]
    BY <1>6, <1>8, <1>13
  <2> QED BY <2>1, <2>2, <1>0, <1>13, <1>20 DEF TypeOK, Buckets, hashmap_grow
<1>24. Sizes'
  BY <1>0, <1>18, <1>22 DEF Sizes, hashmap_grow
<1>25. Shape(L2, c2, o2, rank)'
  <2>1. L2 \subseteq live' /\ size' = size
    BY <1>5, <1>7, <1>16 DEF hashmap_grow
  <2> QED BY <2>1, <1>17, <1>19, <1>20, <1>21, <1>22 DEF Shape
<1> QED BY <1>23, <1>24, <1>25 DEF HashInv

(* What hashmap_delete writes into the other entries.                      *)
LEMMA UnlinkedCells ==
  ASSUME NEW e \in Cells, cell \in [Cells -> Entry], cell[e].next # e, cell[e].prev # e
  PROVE  /\ Unlinked(e) \in [Cells -> Entry]
         /\ \A c \in Cells \ {e} :
              /\ Unlinked(e)[c].key = cell[c].key /\ Unlinked(e)[c].val = cell[c].val
              /\ Unlinked(e)[c].next = IF c = cell[e].prev THEN cell[e].next ELSE cell[c].next
              /\ Unlinked(e)[c].prev = IF c = cell[e].next THEN cell[e].prev ELSE cell[c].prev
<1> DEFINE n == cell[e].next
           p == cell[e].prev
           c1 == IF n = Null THEN cell ELSE [cell EXCEPT ![n].prev = p]
           d1 == IF p = Null THEN c1 ELSE [c1 EXCEPT ![p].next = n]
<1>1. Unlinked(e) = [d1 EXCEPT ![e] = Blank]
  BY Zenon DEF Unlinked
<1>2. n \in Cells \cup {Null} /\ p \in Cells \cup {Null} /\ n # e /\ p # e /\ Blank \in Entry
  BY DEF Entry, Blank
<1> HIDE DEF n, p
<1>3. /\ c1 \in [Cells -> Entry]
      /\ \A c \in Cells : /\ c1[c].key = cell[c].key /\ c1[c].val = cell[c].val
                          /\ c1[c].next = cell[c].next
                          /\ c1[c].prev = IF c = n THEN p ELSE cell[c].prev
  <2>1. CASE n = Null
    BY <2>1, CellNotNull
  <2>2. CASE n # Null
    <3>1. n \in Cells /\ cell[n] \in Entry /\ c1 = [cell EXCEPT ![n].prev = p]
      BY <2>2, <1>2
    <3>2. [cell[n] EXCEPT !.prev = p] \in Entry
      BY <3>1, <1>2 DEF Entry
    <3>3. c1 \in [Cells -> Entry]
      BY <3>1, <3>2
    <3>4. /\ c1[n].key = cell[n].key /\ c1[n].val = cell[n].val
          /\ c1[n].next = cell[n].next /\ c1[n].prev = p
      BY <3>1 DEF Entry
    <3>5. \A c \in Cells : c # n => c1[c] = cell[c]
      BY <3>1
    <3> HIDE DEF c1
    <3> QED BY <3>3, <3>4, <3>5
  <2> QED BY <2>1, <2>2
<1> HIDE DEF c1
<1>4. /\ d1 \in [Cells -> Entry]
      /\ \A c \in Cells : /\ d1[c].key = c1[c].key /\ d1[c].val = c1[c].val
                          /\ d1[c].prev = c1[c].prev
                          /\ d1[c].next = IF c = p THEN n ELSE c1[c].next
  <2>1. CASE p = Null
    BY <2>1, <1>3, CellNotNull
  <2>2. CASE p # Null
    <3>1. p \in Cells /\ c1[p] \in Entry /\ d1 = [c1 EXCEPT ![p].next = n]
      BY <2>2, <1>2, <1>3
    <3>2. [c1[p] EXCEPT !.next = n] \in Entry
      BY <3>1, <1>2 DEF Entry
    <3>3. d1 \in [Cells -> Entry]
      BY <3>1, <3>2, <1>3
    <3>4. /\ d1[p].key = c1[p].key /\ d1[p].val = c1[p].val
          /\ d1[p].prev = c1[p].prev /\ d1[p].next = n
      BY <3>1, <1>3 DEF Entry
    <3>5. \A c \in Cells : c # p => d1[c] = c1[c]
      BY <3>1, <1>3
    <3> HIDE DEF d1
    <3> QED BY <3>3, <3>4, <3>5
  <2> QED BY <2>1, <2>2
<1> HIDE DEF d1
<1>5. Unlinked(e) \in [Cells -> Entry] /\ \A c \in Cells \ {e} : Unlinked(e)[c] = d1[c]
  BY <1>1, <1>2, <1>4
<1>6. ASSUME NEW c \in Cells \ {e}
      PROVE  /\ Unlinked(e)[c].key = cell[c].key /\ Unlinked(e)[c].val = cell[c].val
             /\ Unlinked(e)[c].next = IF c = p THEN n ELSE cell[c].next
             /\ Unlinked(e)[c].prev = IF c = n THEN p ELSE cell[c].prev
  BY <1>3, <1>4, <1>5, <1>6
<1> QED BY <1>5, <1>6 DEF n, p

(* hashmap_delete before the table has grown: the prev pointer is the      *)
(* entry before, and the entry that is found was inserted last.            *)
LEMMA DeleteKeeps ==
  ASSUME HashInv, ~ LateDeletes, MaxEntries < UsedMod, NEW k \in Key, hashmap_delete(k)
  PROVE  HashInv'
<1>0. /\ TypeOK /\ Sizes /\ ~ grow.on /\ ~ Grown /\ size > 0
      /\ idx' = idx /\ size' = size /\ grow' = grow
  BY DEF HashInv, hashmap_delete
<1>1. PICK L, ch, oc, rank : Shape(L, ch, oc, rank)
  BY DEF HashInv
<1>2. L = live
  BY <1>0, <1>1, TableSettled
<1>3. /\ Chains(cell, data, size, ch, live)
      /\ Chains(cell, grow.left, grow.size, oc, live \ live)
      /\ used = Cardinality(live)
      /\ Ranked(cell, live, stack, rank)
      /\ Prevs(cell, size, ch) /\ InOrder(cell, size, ch, rank)
  BY <1>0, <1>1, <1>2 DEF Shape
<1>4. /\ cell \in [Cells -> Entry] /\ data \in [0 .. size - 1 -> Cells \cup {Null}]
      /\ live \in SUBSET Cells /\ stack \in [Key -> Seq(Val)]
  BY <1>0 DEF TypeOK, Buckets
<1>5. size \in Nat /\ hashcode_index(k, size) \in 0 .. size - 1
  BY <1>0, SizeFacts
<1>6. PICK b \in 0 .. size - 1 : b = hashcode_index(k, size)
  BY <1>5
<1>7. /\ ch[b] \in Seq(Cells) /\ Len(ch[b]) \in Nat
      /\ data[b] = At(ch[b], 1)
      /\ \A i \in 1 .. Len(ch[b]) :
           /\ ch[b][i] \in live
           /\ cell[ch[b][i]].next = At(ch[b], i + 1)
           /\ cell[ch[b][i]].prev = At(ch[b], i - 1)
      /\ \A i, j \in 1 .. Len(ch[b]) : ch[b][i] = ch[b][j] => i = j
  <2>1. /\ ch[b] \in Seq(Cells) /\ data[b] = At(ch[b], 1)
        /\ \A i \in 1 .. Len(ch[b]) : ch[b][i] \in live /\ cell[ch[b][i]].next = At(ch[b], i + 1)
        /\ \A i, j \in 1 .. Len(ch[b]) : ch[b][i] = ch[b][j] => i = j
    BY <1>3 DEF Chains
  <2>2. \A i \in 1 .. Len(ch[b]) : cell[ch[b][i]].prev = At(ch[b], i - 1)
    BY <1>3 DEF Prevs
  <2> QED BY <2>1, <2>2
<1>8. PICK e \in hashmap_locate(k) : DeleteEntry(k, e)
  BY DEF hashmap_delete
<1>9. PICK p \in 1 .. Len(ch[b]) :
        /\ e = ch[b][p] /\ cell[e].key = k
        /\ \A q \in 1 .. Len(ch[b]) : cell[ch[b][q]].key = k => p <= q
  <2>1. \A i \in 1 .. Len(ch[b]) : cell[ch[b][i]].next = At(ch[b], i + 1)
    BY <1>7
  <2>2. data[hashcode_index(k, size)] = At(ch[b], 1)
    BY <1>6, <1>7
  <2> QED BY <2>1, <2>2, <1>7, <1>8, Located
<1>10. /\ e \in live /\ e \in Cells
       /\ cell[e].next = At(ch[b], p + 1) /\ cell[e].prev = At(ch[b], p - 1)
  BY <1>4, <1>7, <1>9
<1>11. At(ch[b], p + 1) # e /\ At(ch[b], p - 1) # e
  <2>1. e # Null
    BY <1>10, CellNotNull
  <2>2. \A i \in 1 .. Len(ch[b]) : i # p => ch[b][i] # e
    BY <1>7, <1>9
  <2> QED BY <2>1, <2>2, <1>7, <1>9 DEF At
<1>12. /\ cell' \in [Cells -> Entry]
       /\ \A c \in Cells \ {e} :
            /\ cell'[c].key = cell[c].key /\ cell'[c].val = cell[c].val
            /\ cell'[c].next = IF c = At(ch[b], p - 1) THEN At(ch[b], p + 1) ELSE cell[c].next
            /\ cell'[c].prev = IF c = At(ch[b], p + 1) THEN At(ch[b], p - 1) ELSE cell[c].prev
  <2>1. cell' = Unlinked(e)
    BY <1>8 DEF DeleteEntry
  <2>2. cell[e].next # e /\ cell[e].prev # e
    BY <1>10, <1>11
  <2> QED BY <2>1, <2>2, <1>4, <1>10, UnlinkedCells
<1>13. \A c \in live : rank[c] \in Nat \ {0}
  <2> SUFFICES ASSUME NEW c \in live PROVE rank[c] \in Nat \ {0}
    OBVIOUS
  <2>1. cell[c].key \in Key /\ rank[c] \in 1 .. Len(stack[cell[c].key])
    BY <1>3 DEF Ranked
  <2>2. Len(stack[cell[c].key]) \in Nat
    BY <2>1, <1>4
  <2> QED BY <2>1, <2>2
<1>14. ASSUME NEW c \in live, cell[c].key = k, c # e
       PROVE  rank[e] < rank[c]
  <2>1. PICK d \in 0 .. size - 1 : \E i \in 1 .. Len(ch[d]) : ch[d][i] = c
    BY <1>3 DEF Chains
  <2>2. PICK i \in 1 .. Len(ch[d]) : ch[d][i] = c
    BY <2>1
  <2>3. hashcode_index(cell[ch[d][i]].key, size) = d
    BY <1>3 DEF Chains
  <2>4. d = b
    BY <2>2, <2>3, <1>6, <1>14
  <2>5. p <= i /\ p # i
    BY <2>2, <2>4, <1>9, <1>14
  <2>6. p < i /\ i \in 1 .. Len(ch[b]) /\ cell[ch[b][p]].key = cell[ch[b][i]].key
    <3>1. i \in 1 .. Len(ch[b]) /\ p \in 1 .. Len(ch[b])
      BY <2>4
    <3>2. p < i
      BY <2>5, <3>1, <1>7
    <3>3. ch[b][i] = c /\ ch[b][p] = e
      BY <2>2, <2>4, <1>9
    <3> QED BY <3>1, <3>2, <3>3, <1>9, <1>14
  <2>7. rank[ch[b][p]] < rank[ch[b][i]]
    BY <2>6, <1>3 DEF InOrder
  <2> QED BY <2>2, <2>4, <2>7, <1>9
<1>15. rank[e] = 1
  <2>1. rank[e] \in 1 .. Len(stack[k]) /\ Len(stack[k]) \in Nat
    BY <1>3, <1>4, <1>9, <1>10 DEF Ranked
  <2>2. 1 \in 1 .. Len(stack[k])
    BY <2>1
  <2>3. PICK c \in live : cell[c].key = k /\ rank[c] = 1
    BY <2>2, <1>3 DEF Ranked
  <2>4. CASE c = e
    BY <2>3, <2>4
  <2>5. CASE c # e
    <3>1. rank[e] < 1
      BY <2>3, <2>5, <1>14
    <3> QED BY <3>1, <2>1
  <2> QED BY <2>4, <2>5
<1>16. PICK r2 : r2 = [c \in Cells |-> IF cell[c].key = k THEN rank[c] - 1 ELSE rank[c]]
  OBVIOUS
<1>17. Gone(cell, cell', live, ch[b][p], k, At(ch[b], p - 1), At(ch[b], p + 1), rank, r2)
  <2>1. \A c \in live \ {e} : c \in Cells \ {e}
    BY <1>4
  <2>2. \A c \in live \ {e} : r2[c] = IF cell[c].key = k THEN rank[c] - 1 ELSE rank[c]
    BY <2>1, <1>16
  <2> QED BY <2>1, <2>2, <1>9, <1>10, <1>12 DEF Gone
<1>18. PICK c2 : c2 = [ch EXCEPT ![b] = Cut(ch[b], p)]
  OBVIOUS
<1>19. data' \in [0 .. size - 1 -> Cells \cup {Null}]
       /\ \A d \in 0 .. size - 1 :
            data'[d] = IF d = b /\ p = 1 THEN cell[ch[b][p]].next ELSE data[d]
  <2>1. data' = IF cell[e].prev = Null THEN [data EXCEPT ![b] = cell[e].next] ELSE data
    BY <1>6, <1>8 DEF DeleteEntry
  <2>2. cell[e].prev = Null <=> p = 1
    <3>1. CASE p = 1
      BY <3>1, <1>7, <1>10 DEF At
    <3>2. CASE p # 1
      <4>1. p - 1 \in 1 .. Len(ch[b])
        BY <3>2, <1>7
      <4>2. ch[b][p - 1] \in Cells
        BY <4>1, <1>7
      <4> QED BY <4>1, <4>2, <3>2, <1>10, CellNotNull DEF At
    <3> QED BY <3>1, <3>2
  <2>3. cell[e].next \in Cells \cup {Null}
    BY <1>4, <1>10 DEF Entry
  <2> QED BY <2>1, <2>2, <2>3, <1>4, <1>9
<1>20. Chains(cell', data', size, c2, live \ {e})
  <2>1. \A c \in live \ {ch[b][p]} :
          /\ cell'[c].key = cell[c].key
          /\ cell'[c].next = IF c = At(ch[b], p - 1) THEN cell[ch[b][p]].next ELSE cell[c].next
    BY <1>9, <1>10, <1>17 DEF Gone
  <2>2. Chains(cell', data', size, [ch EXCEPT ![b] = Cut(ch[b], p)], live \ {ch[b][p]})
    BY <2>1, <1>3, <1>4, <1>5, <1>19, PlaceTaken
  <2> QED BY <2>2, <1>9, <1>18
<1>21. Prevs(cell', size, c2) /\ InOrder(cell', size, c2, r2)
  <2>1. Prevs(cell', size, [ch EXCEPT ![b] = Cut(ch[b], p)])
    BY <1>3, <1>5, <1>17, PrevsTaken, Zenon
  <2>2. InOrder(cell', size, [ch EXCEPT ![b] = Cut(ch[b], p)], r2)
    BY <1>3, <1>5, <1>13, <1>17, OrderTaken, Zenon
  <2> QED BY <2>1, <2>2, <1>18
<1>22. Ranked(cell', live \ {e}, [stack EXCEPT ![k] = Tail(stack[k])], r2)
  <2>1. Gone(cell, cell', live, e, k, At(ch[b], p - 1), At(ch[b], p + 1), rank, r2)
    BY <1>9, <1>17
  <2>2. \A c \in live \ {e} : cell[c].key = k => rank[c] # 1
    BY <1>13, <1>14, <1>15
  <2>3. cell[e].key = k
    BY <1>9
  <2> QED BY <2>1, <2>2, <2>3, <1>3, <1>4, <1>15, RankTaken, Zenon
<1>23. /\ used' = (used - 1) % UsedMod /\ live' = live \ {e}
       /\ stack' = [stack EXCEPT ![k] = Tail(stack[k])]
  BY <1>8 DEF DeleteEntry
<1>24. used' = Cardinality(live \ {e}) /\ used' \in 0 .. UsedMod - 1
  <2>1. used' = Cardinality(live \ {e})
    BY <1>3, <1>4, <1>10, <1>23, Counted
  <2>2. live \ {e} \in SUBSET Cells
    BY <1>4
  <2> QED BY <2>1, <2>2, Counted
<1>25. TypeOK'
  <2>1. stack' \in [Key -> Seq(Val)]
    <3>1. rank[e] \in 1 .. Len(stack[k])
      BY <1>3, <1>9, <1>10 DEF Ranked
    <3>2. Tail(stack[k]) \in Seq(Val)
      BY <3>1, <1>4
    <3> QED BY <3>2, <1>4, <1>23
  <2>2. live' \subseteq Cells
    BY <1>4, <1>23
  <2> QED BY <2>1, <2>2, <1>0, <1>12, <1>19, <1>24 DEF TypeOK, Buckets
<1>26. Sizes'
  <2>1. live = {} => live' = {}
    BY <1>23
  <2> QED BY <2>1, <1>0 DEF Sizes, Grown
<1>27. Chains(cell', grow'.left, grow'.size, oc, live' \ (live \ {e}))
  <2>1. live' \ (live \ {e}) = live \ live
    BY <1>23
  <2>2. \A c \in live \ live : cell'[c].next = cell[c].next /\ cell'[c].key = cell[c].key
    OBVIOUS
  <2>3. Chains(cell', grow.left, grow.size, oc, live \ live)
    BY <2>2, <1>3, ChainsKept
  <2> QED BY <2>1, <2>3, <1>0
<1>28. PICK lv : lv = live \ {e}
  OBVIOUS
<1>29. Shape(lv, c2, oc, r2)'
  BY <1>0, <1>20, <1>21, <1>22, <1>23, <1>24, <1>27, <1>28 DEF Shape
<1> QED BY <1>25, <1>26, <1>29 DEF HashInv

(* A table without buckets.                                                *)
EmptyTable ==
  /\ idx = 1 /\ size = 0 /\ used = 0 /\ data = [b \in 0 .. -1 |-> Null]
  /\ cell \in [Cells -> Entry] /\ live = {} /\ grow = NoGrowth
  /\ stack = [k \in Key |-> <<>>]

(* It satisfies the invariant.                                             *)
LEMMA Empty ==
  EmptyTable => HashInv
<1> SUFFICES ASSUME EmptyTable PROVE HashInv
  OBVIOUS
<1> USE DEF EmptyTable
<1>1. TypeOK
  <2>1. data \in [Buckets -> Cells \cup {Null}]
    <3>1. 0 .. size - 1 = 0 .. -1
      OBVIOUS
    <3>2. [b \in 0 .. -1 |-> Null] \in [0 .. -1 -> Cells \cup {Null}]
      OBVIOUS
    <3> QED BY <3>1, <3>2 DEF Buckets
  <2>2. grow \in [on : BOOLEAN, key : Key \cup {Null}, val : Val \cup {Null},
                  size : {0} \cup {Primes[i] : i \in DOMAIN Primes},
                  left : [0 .. grow.size - 1 -> Cells \cup {Null}]]
    BY NoTable
  <2>3. stack \in [Key -> Seq(Val)]
    OBVIOUS
  <2>4. idx \in 1 .. Len(Primes) /\ used \in 0 .. UsedMod - 1
    BY TableAssumption
  <2> QED BY <2>1, <2>2, <2>3, <2>4 DEF TypeOK
<1>2. Sizes
  BY NoTable DEF Sizes
<1>3. PICK none : none = [b \in 0 .. 0 - 1 |-> <<>>]
  OBVIOUS
<1>4. /\ Chains(cell, data, size, none, {}) /\ Prevs(cell, size, none)
      /\ InOrder(cell, size, none, none)
  <2>1. \A b \in 0 .. 0 - 1 : data[b] = Null
    OBVIOUS
  <2> QED BY <2>1, <1>3, NoChains
<1>5. Chains(cell, grow.left, grow.size, none, live \ {})
  <2>1. \A b \in 0 .. 0 - 1 : grow.left[b] = Null
    OBVIOUS
  <2>2. Chains(cell, grow.left, 0, none, {})
    BY <2>1, <1>3, NoChains
  <2> QED BY <2>2, NoTable
<1>6. Ranked(cell, live, stack, none)
  BY DEF Ranked
<1>7. used = Cardinality({})
  BY FS_EmptySet
<1>8. Shape({}, none, none, none)
  BY <1>4, <1>5, <1>6, <1>7 DEF Shape
<1> QED BY <1>1, <1>2, <1>8 DEF HashInv

(* And in the next state.                                                  *)
LEMMA EmptyNext ==
  EmptyTable' => HashInv'
BY Empty, PTL

(* hashmap_free visits every entry, so that none is left.                  *)
LEMMA FreeKeeps ==
  ASSUME HashInv, hashmap_free
  PROVE  HashInv'
<1>1. TableSound /\ TypeOK /\ ~ grow.on
  BY InvSound DEF HashInv, hashmap_free
<1>2. live = UNION {Visited(b) : b \in Buckets}
  BY <1>1 DEF TableSound, Chained
<1>3. live' = {}
  BY <1>2 DEF hashmap_free
<1>4. cell' \in [Cells -> Entry]
  <2>1. Blank \in Entry
    BY DEF Blank, Entry
  <2>2. cell \in [Cells -> Entry]
    BY <1>1 DEF TypeOK
  <2>3. PICK freed : cell' = [c \in Cells |-> IF c \in freed THEN Blank ELSE cell[c]]
    BY DEF hashmap_free
  <2> QED BY <2>1, <2>2, <2>3
<1>5. EmptyTable'
  BY <1>3, <1>4 DEF EmptyTable, hashmap_free
<1> QED BY <1>5, EmptyNext

(* Every step keeps the invariant.                                         *)
LEMMA HashStep ==
  ASSUME ~ LateDeletes, MaxEntries < UsedMod, HashInv, [Next]_vars
  PROVE  HashInv'
<1>1. CASE UNCHANGED vars
  BY <1>1 DEF vars, HashInv, TypeOK, Buckets, Sizes, Shape, Grown
<1>2. ASSUME NEW k \in Key, NEW v \in Val, hashmap_insert(k, v) PROVE HashInv'
  BY <1>2, InsertKeeps
<1>3. ASSUME NEW k \in Key, hashmap_delete(k) PROVE HashInv'
  BY <1>3, DeleteKeeps
<1>4. CASE hashmap_grow
  BY <1>4, GrowKeeps
<1>5. CASE InsertGrown
  BY <1>5, InsertGrownKeeps
<1>6. CASE hashmap_free
  BY <1>6, FreeKeeps
<1> QED BY <1>1, <1>2, <1>3, <1>4, <1>5, <1>6 DEF Next

(* The invariant holds in every state, if entries are deleted only before  *)
(* the table has grown and there are fewer than the counter can hold.      *)
THEOREM TableInvariant ==
  ASSUME ~ LateDeletes, MaxEntries < UsedMod
  PROVE  Spec => []HashInv
<1>1. Init => HashInv
  <2> SUFFICES ASSUME Init PROVE EmptyTable
    BY Empty
  <2>1. Blank \in Entry
    BY DEF Blank, Entry
  <2>2. cell \in [Cells -> Entry]
    BY <2>1 DEF Init
  <2>3. data = [b \in 0 .. -1 |-> Null]
    BY DEF Init, Buckets
  <2> QED BY <2>2, <2>3 DEF Init, EmptyTable
<1>2. HashInv /\ [Next]_vars => HashInv'
  BY HashStep
<1> QED BY <1>1, <1>2, PTL DEF Spec

(* For all keys, values, hash codes and table sizes, wherever calloc       *)
(* fails: the buckets hold exactly the allocated entries and every loop    *)
(* over one ends, the prev pointers lead back until the table grows,       *)
(* hashmap_find finds a key exactly when it was inserted and not deleted,  *)
(* and used counts the entries. hashmap_stale_prev shows that deletions    *)
(* after a growth break this.                                              *)
THEOREM TablesSound ==
  ASSUME ~ LateDeletes, MaxEntries < UsedMod
  PROVE  Spec => []TableSound
<1>1. Spec => []HashInv
  BY TableInvariant
<1>2. HashInv => TableSound
  BY InvSound
<1> QED BY <1>1, <1>2, PTL
=============================================================================
