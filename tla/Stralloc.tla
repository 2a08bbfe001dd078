------------------------------ MODULE Stralloc ------------------------------
(***************************************************************************)
(* c/libgs/libstralloc/stralloc.c: strings that grow, and the allocator    *)
(* below them, which serves small requests from a static pool that it      *)
(* never takes back.                                                       *)
(*                                                                         *)
(* An address below SPACE is in the pool; the blocks of malloc lie above.  *)
(* A block has a size and the text that was put into it; unsigned int has  *)
(* UintBits bits, so that the wrapping of a size is part of the model.     *)
(***************************************************************************)
EXTENDS Integers, Sequences, FiniteSets

CONSTANTS
  Strs,         \* the strallocs
  Pieces,       \* the texts that are copied and appended
  ALIGNMENT,
  SPACE,
  Slack,        \* what growing adds: 30
  UintBits,     \* width of unsigned int: 32
  StrCalls      \* bound: calls

NULL == -1
UintMod == 2 ^ UintBits
Uint(n) == n % UintMod

ASSUME StrallocAssumption ==
  /\ IsFiniteSet(Strs)
  /\ \A d \in Pieces : d \in Seq({d[i] : i \in DOMAIN d})
  /\ ALIGNMENT \in Nat \ {0} /\ SPACE \in Nat
  /\ Slack \in Nat /\ UintMod \in Nat \ {0}

VARIABLES
  sa,       \* the strallocs: s, len, a
  heap,     \* address -> the block there
  avail,    \* what is left of the pool
  salog     \* history: expected texts, and what the calls did that they must not

strallocVars == <<sa, heap, avail, salog>>

Fresh == [s |-> NULL, len |-> 0, a |-> 0]

StrallocInit ==
  /\ sa = [x \in Strs |-> Fresh]
  /\ heap = [p \in {} |-> 0]
  /\ avail = SPACE
  /\ salog = [want |-> [x \in Strs |-> <<>>], calls |-> 0, overrun |-> FALSE,
              wrapped |-> FALSE, dangling |-> FALSE, self |-> FALSE]

InPool(p) == p < SPACE
Without(h, p) == [q \in DOMAIN h \ {p} |-> h[q]]

(* The size that a request is rounded up to; it may wrap, down to 0.       *)
Rounded(n) == Uint(ALIGNMENT + n - (n % ALIGNMENT))

(* Where _alloc takes n bytes from: the low end of what the pool has left, *)
(* or a free address of malloc; NULL only if malloc fails.                 *)
AllocAt(n, p) ==
  IF Rounded(n) <= avail THEN p = avail - Rounded(n)
  ELSE p = NULL \/ p = CHOOSE q \in SPACE .. SPACE + Cardinality(Strs) :
                         q \notin DOMAIN heap

Avail(n) == IF Rounded(n) <= avail THEN avail - Rounded(n) ELSE avail

(* A pointer into the pool is not given back.                              *)
Freed(h, p) == IF InPool(p) THEN h ELSE Without(h, p)

(* Growth of a string for n bytes, as stralloc_ready and _readyplus do it: *)
(* the new capacity leaves room for more.                                  *)
Larger(n) == Uint(Slack + n + n \div 8)

(* Mutant of NeedsRoom: the last byte of the capacity is used up.          *)
NeedsRoomLate(x, n) == sa[x].s = NULL \/ n > sa[x].a + 1

(* The capacity does not suffice for n bytes.                              *)
NeedsRoom(x, n) == sa[x].s = NULL \/ n > sa[x].a

(* Block b at p replaces the one at old, if there was one: _alloc_re.      *)
Moved(h, old, p, b) ==
  LET g == IF old = NULL THEN h ELSE Freed(h, old)
  IN [q \in DOMAIN g \cup {p} |-> IF q = p THEN b ELSE g[q]]

(* There is no memory for the new block: a string that had one keeps it.   *)
NoMemory(x, n) ==
  IF sa[x].s = NULL THEN [sa EXCEPT ![x].a = n, ![x].len = 0] ELSE sa

(* The string x is given another block for n bytes, and then holds text:   *)
(* the growing half of stralloc_ready or _readyplus and the memcpy after.  *)
Grow(x, n, text, log) ==
  LET old == sa[x]
      cap == IF old.s = NULL THEN n ELSE Larger(n)
      size == Rounded(cap)
  IN \E p \in {NULL} \cup 0 .. SPACE + Cardinality(Strs) :
       /\ AllocAt(cap, p)
       /\ avail' = Avail(cap)
       /\ \/ /\ p = NULL
             /\ sa' = NoMemory(x, n)
             /\ salog' = [salog EXCEPT !.calls = @ + 1]
             /\ UNCHANGED heap
          \/ /\ p # NULL
             /\ sa' = [sa EXCEPT ![x] = [s |-> p, len |-> Len(text), a |-> cap]]
             /\ heap' = Moved(heap, old.s, p, [size |-> size, text |-> text])
             /\ salog' = [log EXCEPT !.overrun = \/ old.s # NULL /\ old.a > size
                                                \/ Len(text) + 1 > size]

(* The string has the room: the text is put where the old one is.          *)
Write(x, text, log) ==
  LET p == sa[x].s
  IN /\ sa' = [sa EXCEPT ![x].len = Len(text)]
     /\ heap' = [heap EXCEPT ![p].text = text]
     /\ salog' = [log EXCEPT !.overrun = Len(text) + 1 > heap[p].size]
     /\ UNCHANGED avail

(* Some size on the way to a block for need bytes does not fit its type.   *)
Wraps(x, need) ==
  LET cap == IF sa[x].s = NULL THEN need ELSE Slack + need + need \div 8
  IN need >= UintMod \/ (NeedsRoom(x, need) /\ cap + ALIGNMENT >= UintMod)

(* x gets text, of need bytes with its NUL; want is what is expected of it.*)
Become(x, need, text, want) ==
  LET n == Uint(need)
      log == [salog EXCEPT !.calls = @ + 1, !.want[x] = want, !.wrapped = Wraps(x, need)]
  IN \/ NeedsRoom(x, n) /\ Grow(x, n, text, log)
     \/ ~ NeedsRoom(x, n) /\ Write(x, text, log)

Going ==
  /\ ~ salog.overrun /\ ~ salog.wrapped /\ ~ salog.dangling
  /\ salog.calls < StrCalls

TextOf(x) == IF sa[x].s = NULL THEN <<>> ELSE heap[sa[x].s].text

(* stralloc_copyb, of n + 1 bytes with the NUL; so is stralloc_copys.      *)
stralloc_copyb(x, d) == Going /\ Become(x, Len(d) + 1, d, d)

stralloc_copy(x, y) ==
  /\ Going
  /\ sa[y].s # NULL
  /\ Become(x, Len(TextOf(y)) + 1, TextOf(y), salog.want[y])

(* stralloc_catb; so is stralloc_cats.                                     *)
stralloc_catb(x, d) ==
  /\ Going
  /\ Become(x, sa[x].len + Len(d) + 1, TextOf(x) \o d, salog.want[x] \o d)

(* The text to append is read after the growth, when the block that it is  *)
(* in may have been freed.                                                 *)
stralloc_cat(x, y) ==
  LET need == sa[x].len + sa[y].len + 1
  IN /\ Going
     /\ sa[y].s # NULL
     /\ IF sa[x].s = sa[y].s /\ NeedsRoom(x, Uint(need)) /\ ~ InPool(sa[x].s)
          THEN /\ salog' = [salog EXCEPT !.dangling = TRUE, !.self = x = y]
               /\ UNCHANGED <<sa, heap, avail>>
          ELSE Become(x, need, TextOf(x) \o TextOf(y), salog.want[x] \o salog.want[y])

stralloc_free(x) ==
  /\ Going
  /\ IF sa[x].s = NULL
       THEN UNCHANGED <<sa, heap>> /\ salog' = [salog EXCEPT !.calls = @ + 1]
       ELSE /\ heap' = Freed(heap, sa[x].s)
            /\ sa' = [sa EXCEPT ![x] = Fresh]
            /\ salog' = [salog EXCEPT !.calls = @ + 1, !.want[x] = <<>>]
  /\ UNCHANGED avail

StrallocNext ==
  \/ \E x \in Strs, d \in Pieces : stralloc_copyb(x, d) \/ stralloc_catb(x, d)
  \/ \E x, y \in Strs : stralloc_copy(x, y) \/ stralloc_cat(x, y)
  \/ \E x \in Strs : stralloc_free(x)
-----------------------------------------------------------------------------
(* Whatever calls succeed and fail, a string holds what they made of it:   *)
(* moving it to a larger block, or finding no memory for one, loses none.  *)
StrallocHolds ==
  ~ salog.overrun =>
    \A x \in Strs : TextOf(x) = salog.want[x] /\ sa[x].len = Len(salog.want[x])

(* A string and its NUL fit its capacity and its block, and the blocks of  *)
(* two strings do not overlap, unless a size was too large for unsigned    *)
(* int ("XXX: could overflow").                                            *)
StrallocFits ==
  /\ salog.overrun => salog.wrapped
  /\ ~ salog.overrun /\ ~ salog.wrapped =>
       \A x \in Strs : sa[x].s # NULL =>
         /\ sa[x].len + 1 <= sa[x].a /\ sa[x].a <= heap[sa[x].s].size
         /\ \A y \in Strs \ {x} : sa[y].s # NULL =>
              /\ sa[x].s # sa[y].s
              /\ InPool(sa[x].s) /\ InPool(sa[y].s) =>
                   \/ sa[x].s + heap[sa[x].s].size <= sa[y].s
                   \/ sa[y].s + heap[sa[y].s].size <= sa[x].s

(* What malloc gave and nobody has freed is what the strings point to; a   *)
(* freed block is read only by a string that is appended to itself.        *)
HeapOwned ==
  /\ {p \in DOMAIN heap : ~ InPool(p)} = {p \in {sa[x].s : x \in Strs} : p # NULL /\ ~ InPool(p)}
  /\ salog.dangling => salog.self

(* The strings keep their contents, inside blocks that are theirs alone,   *)
(* whatever calls are made and wherever memory runs out.                   *)
StringsSafe ==
  /\ StrallocHolds
  /\ StrallocFits
  /\ HeapOwned
=============================================================================
