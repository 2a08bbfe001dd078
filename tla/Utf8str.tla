------------------------------- MODULE Utf8str -------------------------------
(***************************************************************************)
(* c/libgs/utf8str/utf8str.c: counting, copying and trimming characters of *)
(* one to six bytes.  Bytes are numbers; the state is the string that the  *)
(* functions are given.                                                    *)
(***************************************************************************)
EXTENDS Integers, Sequences, SequencesExt

CONSTANTS
  Octet,       \* the bytes of the strings
  MaxOctets    \* bound: bytes in a string

WhiteSpace == 32
Control == {9, 10, 13}
utf8_space == <<227, 128, 128>>

ASSUME Utf8Assumption == Octet \subseteq 1 .. 255 /\ MaxOctets \in Nat

VARIABLE ustr    \* the string

Utf8Init == ustr = <<>>
Utf8Next == \E b \in Octet : Len(ustr) < MaxOctets /\ ustr' = Append(ustr, b)

(* Mutant of utf8_check: bytes that only continue a character are taken    *)
(* for characters.                                                         *)
utf8_check_continuing(c) ==
  CASE c < 192 -> 1
    [] c \in 192 .. 223 -> 2
    [] c \in 224 .. 239 -> 3
    [] c \in 240 .. 247 -> 4
    [] c \in 248 .. 251 -> 5
    [] c \in 252 .. 253 -> 6
    [] OTHER -> 0

(* The length of a character by its first byte; 0 if none begins with it.  *)
utf8_check(c) ==
  CASE c < 128 -> 1
    [] c \in 192 .. 223 -> 2
    [] c \in 224 .. 239 -> 3
    [] c \in 240 .. 247 -> 4
    [] c \in 248 .. 251 -> 5
    [] c \in 252 .. 253 -> 6
    [] OTHER -> 0

(* A character of the length its first byte gives is left of s.            *)
Fits(s) == utf8_check(s[1]) \in 1 .. Len(s)

Rest(s, n) == SubSeq(s, n + 1, Len(s))

RECURSIVE utf8_strlen(_)
utf8_strlen(s) ==
  IF s = <<>> THEN 0
  ELSE IF Fits(s) THEN 1 + utf8_strlen(Rest(s, utf8_check(s[1])))
  ELSE 0

(* The loop of utf8_strncpy; flag says that a space would be the second in *)
(* a row, or the first of the copy.                                        *)
RECURSIVE CopyChars(_, _, _, _)
CopyChars(s, max, flag, out) ==
  IF s = <<>> \/ max = 0 THEN out
  ELSE IF s[1] \in Control THEN CopyChars(Tail(s), max, flag, out)
  ELSE IF s[1] = WhiteSpace
         THEN IF flag THEN CopyChars(Tail(s), max, TRUE, out)
              ELSE CopyChars(Tail(s), max - 1, TRUE, Append(out, WhiteSpace))
  ELSE IF Fits(s)
         THEN LET w == utf8_check(s[1])
              IN CopyChars(Rest(s, w), max - 1, FALSE, out \o SubSeq(s, 1, w))
  ELSE out

utf8_strncpy(s, max) == CopyChars(s, max, TRUE, <<>>)

(* How many bytes one round of utf8_ltrim skips.                           *)
Trimmed(s) ==
  IF s[1] = WhiteSpace THEN 1 ELSE IF IsPrefix(utf8_space, s) THEN 3 ELSE 0

RECURSIVE utf8_ltrim(_)
utf8_ltrim(s) ==
  IF s = <<>> \/ Trimmed(s) = 0 THEN s ELSE utf8_ltrim(Rest(s, Trimmed(s)))
-----------------------------------------------------------------------------
(* What a lead byte says, by its leading ones, which is what UTF-8 means:  *)
(* none is ASCII, one only continues a character, seven is not used.       *)
LeadingOnes(c) == CHOOSE n \in 0 .. 8 :
  /\ n = 8 \/ (c \div 2 ^ (7 - n)) % 2 = 0
  /\ \A m \in 0 .. n - 1 : (c \div 2 ^ (7 - m)) % 2 = 1

Width(c) == CASE LeadingOnes(c) = 0 -> 1
              [] LeadingOnes(c) \in 2 .. 6 -> LeadingOnes(c)
              [] OTHER -> 0

(* The characters of a string up to the first that is not whole.           *)
RECURSIVE Cut(_)
Cut(s) == IF s = <<>> \/ Width(s[1]) \notin 1 .. Len(s) THEN <<>>
          ELSE <<SubSeq(s, 1, Width(s[1]))>> \o Cut(Rest(s, Width(s[1])))

IsBlank(c) == c = <<WhiteSpace>>

(* The characters that a copy keeps: no control characters, one space      *)
(* where several are, none at the beginning.                               *)
KeptOf(cs) ==
  LET v == SelectSeq(cs, LAMBDA c : c[1] \notin Control)
      keep == {i \in DOMAIN v : ~ IsBlank(v[i]) \/ (i > 1 /\ ~ IsBlank(v[i - 1]))}
      kept(n) == CHOOSE i \in keep : Cardinality({j \in keep : j <= i}) = n
  IN [n \in 1 .. Cardinality(keep) |-> v[kept(n)]]

(* A copy of max characters is made of whole characters of the string, in  *)
(* its order, no character of it is split or left out before the first     *)
(* that is not whole, and no two spaces follow one another.                *)
CopyWhole ==
  LET kept == KeptOf(Cut(ustr))
  IN \A max \in 0 .. Len(ustr) :
       LET n == IF max < Len(kept) THEN max ELSE Len(kept)
       IN utf8_strncpy(ustr, max) = FlattenSeq(SubSeq(kept, 1, n))

(* The length counts the whole characters before the first that is not;    *)
(* so the length of a copy never exceeds the number that was asked for.    *)
StrlenCounts ==
  /\ utf8_strlen(ustr) = Len(Cut(ustr))
  /\ \A max \in 0 .. Len(ustr) : utf8_strlen(utf8_strncpy(ustr, max)) <= max

(* Trimming removes spaces of both widths, all those at the beginning, and *)
(* never part of another character.                                        *)
LtrimSpaces ==
  LET cs == Cut(ustr)
      blank == {i \in DOMAIN cs : \A j \in 1 .. i : cs[j] \in {<<WhiteSpace>>, utf8_space}}
      gone == FlattenSeq(SubSeq(cs, 1, Cardinality(blank)))
  IN utf8_ltrim(ustr) = Rest(ustr, Len(gone))

(* utf8_strncpy, utf8_strlen and utf8_ltrim work on the characters of a    *)
(* string, also when its bytes end in the middle of one or form none.      *)
Utf8Correct ==
  /\ CopyWhole
  /\ StrlenCounts
  /\ LtrimSpaces
=============================================================================
