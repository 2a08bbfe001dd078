-------------------------------- MODULE Mfile --------------------------------
(***************************************************************************)
(* c/libgs/libmfile/mfile.c: a file in memory, kept as a queue of blocks   *)
(* with a position for writing and one for reading.                        *)
(*                                                                         *)
(* The handle is the record mf.  A block is what was written to it and how *)
(* much of it was read; a pointer to a block is its place in the queue, 0  *)
(* for NULL, so that a block put at the head moves the pointers by one.    *)
(***************************************************************************)
EXTENDS Integers, Sequences, SequencesExt

CONSTANTS
  Char,          \* the characters that are written
  BlockSize,     \* DATA_BLOCK_SIZE
  MaxIov,        \* MAX_BLOCK_NUMBER of mwrite_file
  CopyBuf,       \* size of the buffer of mfile_copy
  MaxLine,       \* size of the buffer given to mread_line
  MfileBytes,    \* bound: characters in the file
  MfileBlocks    \* bound: blocks in the file

CR == "CR"
LF == "LF"
NUL == "NUL"
Junk == "junk"

ASSUME MfileAssumption ==
  /\ BlockSize \in Nat \ {0} /\ CopyBuf \in Nat \ {0} /\ MaxLine \in Nat
  /\ NUL \notin Char /\ Junk \notin Char

VARIABLES
  mf,      \* the MFILE
  mlog     \* history: what the calls asked for and what they returned

mfileVars == <<mf, mlog>>

Least(a, b) == IF a < b THEN a ELSE b
Bytes(h) == FlattenSeq([i \in DOMAIN h.blocks |-> h.blocks[i].data])

mopen ==
  [blocks |-> <<>>, wr |-> 0, rd |-> 0, full |-> TRUE, empty |-> FALSE,
   total |-> 0, header |-> 0, ccache |-> LF]

(* content: what was written, head and tail.  got: what was read since the *)
(* last seek, to position from.  odd: the first of the things that the     *)
(* reader is known not to survive; it is followed no further then.  ran:   *)
(* the last call if it read, its result, what it wrote elsewhere, and      *)
(* whether it lacked the memory for that.                                  *)
NoLog == [content |-> <<>>, from |-> 0, got |-> <<>>, odd |-> "no", junk |-> FALSE,
          nomem |-> FALSE, ran |-> "none", ret |-> 0, out |-> <<>>, lack |-> FALSE]

MfileInit == mf = mopen /\ mlog = NoLog

Log(r) ==
  LET l == r @@ [mlog EXCEPT !.ran = "none", !.ret = 0, !.out = <<>>,
                              !.lack = FALSE]
  IN mlog' = IF l.odd = "no" THEN l
             ELSE [l EXCEPT !.got = <<>>, !.from = 0, !.ret = 0, !.out = <<>>,
                            !.lack = FALSE]

Worse(why) == IF mlog.odd = "no" THEN why ELSE mlog.odd
Alive == ~ mlog.junk

-----------------------------------------------------------------------------
Space(b) == BlockSize - Len(b.data)

(* The loop of mwrite: a block is added when the last one is full, unless  *)
(* the k blocks there is memory for are used up.                           *)
RECURSIVE Fill(_, _, _)
Fill(h, d, k) ==
  IF d = <<>> THEN [h |-> h, left |-> d]
  ELSE IF h.full /\ k = 0 THEN [h |-> h, left |-> d]
  ELSE LET g == IF ~ h.full THEN h
                ELSE [h EXCEPT !.blocks = Append(@, [data |-> <<>>, read |-> 0]),
                               !.wr = Len(h.blocks) + 1]
           m == Least(Space(g.blocks[g.wr]), Len(d))
           b == g.blocks[g.wr].data \o SubSeq(d, 1, m)
       IN Fill([g EXCEPT !.blocks[g.wr].data = b, !.full = Len(b) = BlockSize],
               SubSeq(d, m + 1, Len(d)), IF h.full THEN k - 1 ELSE k)

(* The reader has finished the block that is written to: it will look for  *)
(* what follows in the next one.                                           *)
Behind(h) == h.rd # 0 /\ h.empty /\ h.rd = h.wr /\ ~ h.full

mwrite(d, k) ==
  /\ Alive
  /\ mf.total + Len(d) <= MfileBytes
  /\ \E w \in {Fill([mf EXCEPT !.total = @ + Len(d)], d, k)} :
       /\ mf' = w.h
       /\ Log([content |-> mlog.content \o SubSeq(d, 1, Len(d) - Len(w.left)),
               odd |-> IF Behind(mf) /\ d # <<>> THEN Worse("behind") ELSE mlog.odd,
               nomem |-> mlog.nomem \/ w.left # <<>>])

(* ok: there is memory for the block.                                      *)
mwrite_head(d, ok) ==
  /\ Alive
  /\ mf.total + Len(d) <= MfileBytes
  /\ \/ /\ Len(d) > BlockSize
        /\ UNCHANGED mfileVars
     \/ /\ Len(d) <= BlockSize /\ ~ ok
        /\ mf' = [mf EXCEPT !.total = @ + Len(d)]
        /\ Log([nomem |-> TRUE])
     \/ /\ Len(d) <= BlockSize /\ ok
        /\ Len(mf.blocks) < MfileBlocks
        /\ mf' = [mf EXCEPT !.total = @ + Len(d), !.header = @ + Len(d),
                    !.blocks = <<[data |-> d, read |-> 0]>> \o @,
                    !.wr = IF @ = 0 THEN 0 ELSE @ + 1,
                    !.rd = IF @ = 0 THEN 0 ELSE @ + 1]
        /\ Log([content |-> d \o mlog.content,
                from |-> IF mf.rd = 0 THEN mlog.from ELSE mlog.from + Len(d),
                odd |-> IF d = <<>> THEN "boundary" ELSE mlog.odd])

-----------------------------------------------------------------------------
(* The first read starts at the first block.                               *)
First(h) == IF h.rd = 0 /\ h.blocks # <<>> THEN [h EXCEPT !.rd = 1] ELSE h

(* m characters of block r are read: is_empty says that none are left.     *)
Advance(h, r, m) ==
  [h EXCEPT !.rd = r, !.blocks[r].read = @ + m,
            !.empty = h.blocks[r].read + m = Len(h.blocks[r].data)]

(* The loop of mread for n more characters: a block that was read to its   *)
(* end is left for the next one.                                           *)
RECURSIVE ReadLoop(_, _, _)
ReadLoop(h, n, got) ==
  LET r == IF h.empty THEN h.rd + 1 ELSE h.rd
      b == h.blocks[r]
      m == Least(n, Len(b.data) - b.read)
  IN IF n = 0 \/ r > Len(h.blocks) THEN [h |-> h, got |-> got]
     ELSE IF b.read >= Len(b.data) THEN [h |-> [h EXCEPT !.rd = r], got |-> got]
     ELSE ReadLoop(Advance(h, r, m), n - m,
                   got \o SubSeq(b.data, b.read + 1, b.read + m))

mread(n) ==
  /\ Alive
  /\ \/ /\ First(mf).rd = 0
        /\ Log([ran |-> "read", ret |-> -1])
        /\ UNCHANGED mf
     \/ /\ First(mf).rd # 0
        /\ \E r \in {ReadLoop(First(mf), n, <<>>)} :
             /\ mf' = r.h
             /\ Log([ran |-> "read", ret |-> Len(r.got), got |-> mlog.got \o r.got])

(* One character, or Junk: the byte at the position was never written.     *)
Getc(h0) ==
  LET h == First(h0)
      r == IF h.empty THEN h.rd + 1 ELSE h.rd
      b == h.blocks[r]
  IN IF h.rd = 0 \/ r > Len(h.blocks) THEN [c |-> NUL, h |-> h]
     ELSE IF b.read >= Len(b.data) THEN [c |-> Junk, h |-> h]
     ELSE [c |-> b.data[b.read + 1],
           h |-> Advance(h, r, 1)]

mgetc ==
  /\ Alive
  /\ \E g \in {Getc(mf)} :
       /\ mf' = g.h
       /\ Log([ran |-> "read", ret |-> IF g.c = NUL THEN 0 ELSE 1,
               got |-> mlog.got \o IF g.c = NUL THEN <<>> ELSE <<g.c>>,
               junk |-> g.c = Junk])

(* What follows the CR that was read last goes to ccache, LF or not.       *)
AfterCr(g, h, d) ==
  LET h2 == [g.h EXCEPT !.ccache = g.c]
  IN CASE g.c = Junk -> [h |-> h, line |-> d, why |-> "junk"]
       [] g.c = NUL  -> [h |-> h2, line |-> d \o <<CR, LF>>, why |-> "barecr"]
       [] g.c = LF   -> [h |-> h2, line |-> d \o <<CR, LF>>, why |-> "no"]
       [] OTHER      -> [h |-> h2, line |-> d \o <<CR>>, why |-> "barecr"]

(* The loop of mread_line after the characters d, with room for n more.    *)
(* ccache holds the character after a CR; LF means that it holds none.     *)
RECURSIVE LineLoop(_, _, _), LineChar(_, _, _)
LineLoop(h, d, n) ==
  LineChar(IF h.ccache = LF THEN Getc(h)
           ELSE [c |-> h.ccache, h |-> [h EXCEPT !.ccache = CR]], d, n)

LineChar(c, d, n) ==
  CASE c.c = Junk -> [h |-> c.h, line |-> d, why |-> "junk"]
    [] c.c = CR   -> AfterCr(Getc(c.h), c.h, d)
    [] c.c = LF   -> [h |-> c.h, line |-> d \o <<LF>>, why |-> "no"]
    [] c.c = NUL  -> [h |-> c.h, line |-> d, why |-> "no"]
    [] OTHER      -> IF n <= 1 THEN [h |-> c.h, line |-> <<>>, why |-> "clipped"]
                     ELSE LineLoop(c.h, d \o <<c.c>>, n - 1)

mread_line(n) ==
  /\ Alive
  /\ \/ /\ n = 2
        /\ Log([odd |-> Worse("clipped")])
        /\ UNCHANGED mf
     \/ /\ n > 2
        /\ \E r \in {LineLoop(mf, <<>>, n - 2)} :
             /\ mf' = r.h
             /\ Log([ran |-> "read", ret |-> Len(r.line), got |-> mlog.got \o r.line,
                     odd |-> IF r.why \in {"no", "junk"} THEN mlog.odd
                             ELSE Worse(r.why),
                     junk |-> r.why = "junk"])

-----------------------------------------------------------------------------
Rewound(h) ==
  [h EXCEPT !.empty = FALSE, !.rd = 0,
            !.blocks = [i \in DOMAIN h.blocks |-> [h.blocks[i] EXCEPT !.read = 0]]]

(* A block that mwrite_head was given nothing for.                         *)
HasEmpty(h) == \E i \in DOMAIN h.blocks : h.blocks[i].data = <<>>

(* A position at the end of a block, or behind the last one.               *)
AtBoundary(h) ==
  HasEmpty(h) \/ h.rd = 0 \/ h.blocks[h.rd].read = Len(h.blocks[h.rd].data)

(* No seek clears ccache, which a CR without LF has filled.                *)
After(boundary, h) ==
  IF boundary THEN "boundary" ELSE IF h.ccache # LF THEN "barecr" ELSE "no"

(* Mutant of mseek: the blocks keep how much of them was read.             *)
mseek_kept ==
  /\ Alive
  /\ mf' = [mf EXCEPT !.empty = FALSE, !.rd = 0]
  /\ Log([from |-> 0, got |-> <<>>, odd |-> After(HasEmpty(mf), mf)])

mseek ==
  /\ Alive
  /\ mf' = Rewound(mf)
  /\ Log([from |-> 0, got |-> <<>>, odd |-> After(HasEmpty(mf), mf)])

(* The block that position p falls in: the first that ends at p or behind. *)
RECURSIVE SeekLoop(_, _, _)
SeekLoop(h, i, p) ==
  IF i > Len(h.blocks) THEN h
  ELSE IF p <= Len(h.blocks[i].data)
         THEN [h EXCEPT !.blocks[i].read = p, !.rd = i]
         ELSE SeekLoop(h, i + 1, p - Len(h.blocks[i].data))

Seek(h, p) == SeekLoop(Rewound(h), 1, IF p < 0 THEN 0 ELSE p)

mseek_pos(p) ==
  LET h == Seek(mf, p)
  IN /\ Alive
     /\ mf' = h
     /\ Log([from |-> p, got |-> <<>>, odd |-> After(AtBoundary(h), h)])

(* writev may write less than it is given.                                 *)
mwrite_file ==
  LET all == Bytes(mf)
  IN /\ Alive
     /\ \/ /\ Len(mf.blocks) >= MaxIov
           /\ Log([ran |-> "file", ret |-> -1])
        \/ /\ Len(mf.blocks) < MaxIov
           /\ \E k \in 0 .. Len(all) :
                Log([ran |-> "file", ret |-> k, out |-> SubSeq(all, 1, k)])
     /\ UNCHANGED mf

Piece(i, end) == Least(end - i, CopyBuf)

(* The loop of mfile_copy from position i, with what was read so far.  Its *)
(* buffer is written to dest, a file of its own with mem[n] blocks of      *)
(* memory for the n-th piece; whether mwrite gets them is not looked at: a *)
(* piece that is cut or lost leaves a gap, and the copying goes on.        *)
RECURSIVE CopyLoop(_, _, _, _), CopyPiece(_, _, _, _, _)
CopyLoop(h, i, end, c) ==
  LET j == Piece(i, end)
  IN IF i >= end THEN [c EXCEPT !.h = h, !.ok = TRUE]
     ELSE IF First(h).rd = 0 THEN [c EXCEPT !.h = h]
     ELSE CopyPiece(ReadLoop(First(h), j, <<>>), i + j, end, c, Head(c.mem))

CopyPiece(r, i, end, c, k) ==
  LET w == Fill(c.dest, r.got, k)
      d == [c EXCEPT !.h = r.h, !.got = @ \o r.got, !.dest = w.h, !.mem = Tail(@),
                     !.lack = @ \/ w.left # <<>>]
  IN IF r.got = <<>> THEN [c EXCEPT !.h = r.h]
     ELSE IF Len(r.got) < CopyBuf THEN [d EXCEPT !.ok = TRUE]
     ELSE CopyLoop(r.h, i, end, d)

Copying(h, mem) ==
  [h |-> h, dest |-> mopen, mem |-> mem, got |-> <<>>, lack |-> FALSE, ok |-> FALSE]

mfile_copy(start, end, mem) ==
  /\ Alive
  /\ \E h \in {Seek(mf, start)} :
     \E c \in {CopyLoop(h, start, end, Copying(h, mem))} :
       /\ mf' = c.h
       /\ Log([ran |-> "copy", ret |-> IF c.ok THEN end - start ELSE -1,
               from |-> start, out |-> Bytes(c.dest), got |-> c.got,
               lack |-> c.lack, odd |-> After(AtBoundary(h), mf)])

mclose == Alive /\ mf' = mopen /\ mlog' = NoLog

MfileData ==
  SeqOf(Char, BlockSize) \cup {[i \in 1 .. BlockSize + 1 |-> c] : c \in Char}

Ceiling(a, b) == (a + b - 1) \div b

(* The blocks that there is memory for, at each of the pieces from s to e. *)
CopyMems(s, e) ==
  [1 .. Ceiling(e - s, CopyBuf) -> 0 .. Ceiling(CopyBuf, BlockSize)]

MfileHeads == {d \in MfileData : Len(d) # BlockSize}

MfileNext ==
  \/ \E d \in MfileData, k \in 0 .. 2 : mwrite(d, k)
  \/ \E d \in MfileHeads, ok \in BOOLEAN : mwrite_head(d, ok)
  \/ \E n \in 1 .. BlockSize + 1 : mread(n)
  \/ mgetc
  \/ \E n \in {2, MaxLine} : mread_line(n)
  \/ mseek
  \/ \E p \in 0 .. MfileBytes + 1 : mseek_pos(p)
  \/ mwrite_file
  \/ \E s, e \in 0 .. MfileBytes : \E mem \in CopyMems(s, e) : mfile_copy(s, e, mem)
  \/ mclose
-----------------------------------------------------------------------------
(* The blocks hold, in order, what the calls wrote to either end; none is  *)
(* longer than its memory; the size agrees, unless memory ran out.         *)
MfileStored ==
  /\ Bytes(mf) = mlog.content
  /\ \A i \in DOMAIN mf.blocks : Len(mf.blocks[i].data) <= BlockSize
  /\ ~ mf.full => mf.wr = Len(mf.blocks) /\ mf.wr # 0
  /\ ~ mlog.nomem => mf.total = Len(mlog.content)

(* Whatever reads of characters, lines and lengths are mixed with writes   *)
(* to both ends, they give what was written from the last seek on, without *)
(* a gap, and only give up at its end: except after a seek to the end of a *)
(* block, a write to the block the reader has finished, a CR without LF    *)
(* or a line that does not fit its buffer.                                 *)
ReadsContent ==
  LET here == mlog.from + Len(mlog.got)
  IN mlog.odd = "no" =>
       /\ mlog.got = SubSeq(mlog.content, mlog.from + 1, here)
       /\ mlog.ran = "read" /\ mlog.ret <= 0 => here >= Len(mlog.content)

(* mgetc never gives a byte that nobody wrote, except after a seek to the  *)
(* end of a block.                                                         *)
NoJunk == mlog.junk => mlog.odd = "boundary"

(* A copy that says that it copied end - start characters did so, up to    *)
(* the end of the file, if it did not start at the end of a block, and if  *)
(* the copy did not run out of memory: then, and only then, characters are *)
(* missing in it, and its caller is told the same.  What is written to a   *)
(* file is the beginning of the contents.                                  *)
CopiesRange ==
  mlog.odd = "no" =>
    /\ mlog.ran = "copy" /\ mlog.ret >= 0 =>
         LET end == Least(mlog.from + mlog.ret, Len(mlog.content))
         IN ~ mlog.lack <=> mlog.out = SubSeq(mlog.content, mlog.from + 1, end)
    /\ mlog.ran = "file" /\ mlog.ret >= 0 => IsPrefix(mlog.out, mlog.content)

(* A file in memory gives back what was written to it: the blocks hold it, *)
(* mread, mgetc and mread_line follow it from wherever the reader is, and  *)
(* mfile_copy and mwrite_file pass it on.                                  *)
MfileFaithful ==
  /\ MfileStored
  /\ ReadsContent
  /\ NoJunk
  /\ CopiesRange
=============================================================================
