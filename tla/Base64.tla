------------------------------- MODULE Base64 -------------------------------
(***************************************************************************)
(* c/libgs/base64/base64.c: the encoder, and a decoder that is given its   *)
(* text in pieces and keeps the characters of an unfinished group of four  *)
(* in a context.                                                           *)
(*                                                                         *)
(* Bytes and characters are numbers.  A buffer is the sequence of what is  *)
(* in it; a length that falls short of what is to be written cuts it.      *)
(***************************************************************************)
EXTENDS Integers, Sequences, SequencesExt

CONSTANTS
  Plain,       \* the bytes that are encoded
  Text,        \* the characters that are decoded
  MaxPlain,    \* bound: bytes encoded
  MaxText,     \* bound: characters decoded
  MaxPiece,    \* bound: characters in a piece
  SizeBits     \* width of size_t

PAD == 61
NEWLINE == 10

ASSUME Base64Assumption ==
  Plain \subseteq 0 .. 255 /\ Text \subseteq 0 .. 255 /\ SizeBits \in Nat

VARIABLES
  dec,    \* the decoder: its context and what became of the text so far
  enc     \* bytes to be encoded, and a length to compute a size for

base64Vars == <<dec, enc>>

(* The alphabet, and the value of a character, -1 if it is not in it.      *)
b64str(v) ==
  CASE v < 26 -> 65 + v
    [] v \in 26 .. 51 -> 71 + v
    [] v \in 52 .. 61 -> v - 4
    [] v = 62 -> 43
    [] v = 63 -> 47

b64(c) ==
  CASE c \in 65 .. 90 -> c - 65
    [] c \in 97 .. 122 -> c - 71
    [] c \in 48 .. 57 -> c + 4
    [] c = 43 -> 62
    [] c = 47 -> 63
    [] OTHER -> -1

isbase64(c) == b64(c) >= 0

(* The loop of clear_garbage: a character that does not belong is removed, *)
(* and the one that takes its place looked at next.                        *)
ClearStep(s, i) ==
  IF isbase64(s[i]) \/ s[i] = PAD THEN [s |-> s, i |-> i + 1]
  ELSE [s |-> RemoveAt(s, i), i |-> i]

RECURSIVE ClearLoop(_, _)
ClearLoop(s, i) ==
  IF i > Len(s) THEN s
  ELSE LET n == ClearStep(s, i) IN ClearLoop(n.s, n.i)

clear_garbage(s) == ClearLoop(s, 1)

-----------------------------------------------------------------------------
(* Up to three bytes make four characters.                                 *)
Encode3(q) ==
  LET at(i) == IF i <= Len(q) THEN q[i] ELSE 0
  IN << b64str(at(1) \div 4),
        b64str((at(1) * 16 + at(2) \div 16) % 64),
        IF Len(q) >= 2 THEN b64str((at(2) * 4 + at(3) \div 64) % 64) ELSE PAD,
        IF Len(q) >= 3 THEN b64str(at(3) % 64) ELSE PAD >>

RECURSIVE base64_encode(_, _)
base64_encode(in, outlen) ==
  IF in = <<>> \/ outlen = 0 THEN <<>>
  ELSE IF outlen <= 4 THEN SubSeq(Encode3(in), 1, outlen)
  ELSE Encode3(in) \o base64_encode(SubSeq(in, 4, Len(in)), outlen - 4)

Wrap(n) == n % (2 ^ SizeBits)
BASE64_LENGTH(n) == Wrap((Wrap(n + 2) \div 3) * 4)

(* The size that base64_encode_alloc asks for; 0 if it finds that the      *)
(* computation overflowed.                                                 *)
EncodeSize(inlen) ==
  LET outlen == Wrap(1 + BASE64_LENGTH(inlen))
  IN IF inlen > outlen THEN 0 ELSE outlen

base64_encode_alloc(in) == base64_encode(in, EncodeSize(Len(in)) - 1)

-----------------------------------------------------------------------------
(* decode_4 on the characters q, with room for cap bytes after out: a byte *)
(* without room is dropped.                                                *)
Put(out, cap, b) == IF Len(out) < cap THEN Append(out, b) ELSE out

decode_4(q, out, cap) ==
  LET v(i) == b64(q[i])
      no(o) == [ok |-> FALSE, out |-> o]
      o1 == Put(out, cap, (v(1) * 4 + v(2) \div 16) % 256)
      o2 == Put(o1, cap, ((v(2) * 16) % 256) + (v(3) \div 4))
      o3 == Put(o2, cap, ((v(3) * 64) % 256) + v(4))
  IN IF Len(q) < 2 \/ ~ isbase64(q[1]) \/ ~ isbase64(q[2]) THEN no(out)
     ELSE IF Len(q) = 2 THEN no(o1)
     ELSE IF q[3] = PAD
            THEN IF Len(q) # 4 \/ q[4] # PAD THEN no(o1)
                 ELSE [ok |-> TRUE, out |-> o1]
     ELSE IF ~ isbase64(q[3]) THEN no(o1)
     ELSE IF Len(q) = 3 THEN no(o2)
     ELSE IF q[4] = PAD
            THEN IF Len(q) # 4 THEN no(o2) ELSE [ok |-> TRUE, out |-> o2]
     ELSE IF ~ isbase64(q[4]) THEN no(o2)
     ELSE [ok |-> TRUE, out |-> o3]

(* Mutant of Collect: newlines inside a group are taken into it.           *)
RECURSIVE CollectLines(_, _)
CollectLines(buf, in) ==
  IF in = <<>> \/ Len(buf) = 4 THEN [buf |-> buf, in |-> in]
  ELSE CollectLines(Append(buf, in[1]), Tail(in))

(* The characters that fill the context up to four, newlines skipped.      *)
RECURSIVE Collect(_, _)
Collect(buf, in) ==
  IF in = <<>> \/ Len(buf) = 4 THEN [buf |-> buf, in |-> in]
  ELSE Collect(IF in[1] = NEWLINE THEN buf ELSE Append(buf, in[1]), Tail(in))

get_4(buf, in) ==
  LET b == IF Len(buf) = 4 THEN <<>> ELSE buf
  IN IF b = <<>> /\ Len(in) >= 4 /\ NEWLINE \notin {in[i] : i \in 1 .. 4}
       THEN [q |-> SubSeq(in, 1, 4), buf |-> b, in |-> SubSeq(in, 5, Len(in))]
       ELSE LET c == Collect(b, in) IN [q |-> c.buf, buf |-> c.buf, in |-> c.in]

(* The inner loop, for a context that was empty at the call: whole groups. *)
RECURSIVE Groups(_, _, _)
Groups(in, out, cap) ==
  LET d == decode_4(in, out, cap)
  IN IF d.ok THEN Groups(SubSeq(in, 5, Len(in)), d.out, cap)
     ELSE [in |-> in, out |-> out]

(* The outer loop: start says that the context was empty at the call,      *)
(* flush that the call is for what is left in it.                          *)
RECURSIVE DecodeLoop(_, _, _, _, _, _)
DecodeLoop(buf, in, out, cap, start, flush) ==
  LET f == IF start /\ ~ flush THEN Groups(in, out, cap)
           ELSE [in |-> in, out |-> out]
      g == get_4(buf, f.in)
      d == decode_4(g.q, f.out, cap)
  IN IF f.in = <<>> /\ ~ flush THEN [buf |-> buf, out |-> f.out, ok |-> TRUE]
     ELSE IF f.in # <<>> /\ f.in[1] = NEWLINE
            THEN DecodeLoop(buf, Tail(f.in), f.out, cap, start, flush)
     ELSE IF g.q = <<>> \/ (Len(g.q) < 4 /\ ~ flush)
            THEN [buf |-> g.buf, out |-> f.out, ok |-> TRUE]
     ELSE IF ~ d.ok THEN [buf |-> g.buf, out |-> d.out, ok |-> FALSE]
     ELSE DecodeLoop(g.buf, g.in, d.out, cap, start, flush)

base64_decode_ctx(buf, in, cap) ==
  DecodeLoop(buf, in, <<>>, cap, buf = <<>>, in = <<>>)

(* Without a context: whole groups, then nothing.                          *)
DecodeUnit(in, cap) ==
  LET f == Groups(in, <<>>, cap) IN [out |-> f.out, ok |-> f.in = <<>>]

needlen(inlen) == 3 * (inlen \div 4) + 2

-----------------------------------------------------------------------------
(* text: all that was given to the decoder; out: all it returned; short: a *)
(* call had more to return than it had made room for.                      *)
NothingToEncode == [in |-> <<>>, inlen |-> 0]

Base64Init ==
  /\ dec = [buf |-> <<>>, text |-> <<>>, out |-> <<>>, ok |-> TRUE,
            short |-> FALSE, crossed |-> FALSE, flushed |-> FALSE]
  /\ enc = NothingToEncode

(* A caller goes on until it is told that the text is not valid.           *)
Decode(p) ==
  LET r == base64_decode_ctx(dec.buf, p, needlen(Len(p)))
      all == base64_decode_ctx(dec.buf, p, 3 * MaxText)
      held == IF Len(dec.buf) = 4 THEN 0 ELSE Len(dec.buf)
  IN /\ dec.ok /\ ~ dec.flushed
     /\ enc = NothingToEncode
     /\ Len(dec.text) + Len(p) <= MaxText
     /\ dec' = [dec EXCEPT !.buf = r.buf, !.text = @ \o p, !.ok = r.ok,
                  !.out = IF r.ok THEN @ \o r.out ELSE @,
                  !.short = @ \/ r.out # all.out,
                  !.crossed = @ \/ held + (Len(p) % 4) >= 4,
                  !.flushed = p = <<>>]
     /\ UNCHANGED enc

base64_decode_alloc_ctx == \E p \in SeqOf(Text, MaxPiece) : Decode(p)

(* Other inputs of the encoder.                                            *)
Encode ==
  /\ dec.text = <<>> /\ ~ dec.flushed
  /\ \/ /\ enc.inlen = 0 /\ Len(enc.in) < MaxPlain
        /\ \E b \in Plain : enc' = [enc EXCEPT !.in = Append(@, b)]
     \/ /\ enc.in = <<>> /\ enc.inlen < 2 ^ SizeBits - 1
        /\ enc' = [enc EXCEPT !.inlen = @ + 1]
  /\ UNCHANGED dec

Base64Next == base64_decode_alloc_ctx \/ Encode
-----------------------------------------------------------------------------
(* What four characters mean: a number of 24 bits, less what is padded.    *)
ValidGroup(q) ==
  /\ isbase64(q[1]) /\ isbase64(q[2])
  /\ isbase64(q[3]) \/ (q[3] = PAD /\ q[4] = PAD)
  /\ isbase64(q[4]) \/ q[4] = PAD

Meaning(q) ==
  LET v(i) == IF q[i] = PAD THEN 0 ELSE b64(q[i])
      n == ((v(1) * 64 + v(2)) * 64 + v(3)) * 64 + v(4)
      pads == Len(SelectSeq(q, LAMBDA c : c = PAD))
  IN SubSeq(<<n \div 65536, (n \div 256) % 256, n % 256>>, 1, 3 - pads)

Grouped(t) == [g \in 1 .. Len(t) \div 4 |-> SubSeq(t, 4 * g - 3, 4 * g)]

(* However a text is cut into pieces, and wherever lines are broken in it, *)
(* its decoder gives what its groups mean and stops at the first group     *)
(* that is not valid, or at the end if that comes in the middle of one.    *)
(* Except: a piece that ends a group begun before it gets no room for the  *)
(* group's third byte, and the byte is dropped.                            *)
PiecesDecode ==
  LET t == SelectSeq(dec.text, LAMBDA c : c # NEWLINE)
      gs == Grouped(t)
      valid == \A g \in DOMAIN gs : ValidGroup(gs[g])
  IN /\ dec.ok <=> valid /\ (dec.flushed => Len(t) % 4 = 0)
     /\ dec.ok /\ ~ dec.short => dec.out = FlattenSeq([g \in DOMAIN gs |-> Meaning(gs[g])])
     /\ dec.short => dec.crossed

(* What is encoded decodes to itself, in one piece and without a context;  *)
(* a buffer that is too small gets the beginning of the text.              *)
EncodeDecodes ==
  LET t == base64_encode_alloc(enc.in)
      d == DecodeUnit(t, needlen(Len(t)))
  IN /\ Len(t) = 4 * ((Len(enc.in) + 2) \div 3)
     /\ d.ok /\ d.out = enc.in
     /\ \A n \in 0 .. Len(t) : base64_encode(enc.in, n) = SubSeq(t, 1, n)

(* base64_encode_alloc finds every length whose encoding has no size.      *)
OverflowFound ==
  EncodeSize(enc.inlen) = 0 <=> 1 + 4 * ((enc.inlen + 2) \div 3) >= 2 ^ SizeBits

(* clear_garbage leaves the characters that belong, and all of them.       *)
GarbageCleared ==
  clear_garbage(dec.text) = SelectSeq(dec.text, LAMBDA c : isbase64(c) \/ c = PAD)

(* Encoder and decoder agree with the definition of base64, however the    *)
(* text comes: in pieces of any length, with line ends, with garbage, and  *)
(* with lengths near the limit of size_t.                                  *)
Base64Correct ==
  /\ PiecesDecode
  /\ EncodeDecodes
  /\ OverflowFound
  /\ GarbageCleared
=============================================================================
