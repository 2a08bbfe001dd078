------------------------------ MODULE Ctcrypt ------------------------------
(***************************************************************************)
(* c/libgs/ctcrypt/ctcrypt.c: digests as text.  OpenSSL computes a digest  *)
(* or fails; the code writes it in hexadecimal, piece by piece, with one   *)
(* snprintf after the other into the caller's buffer.                      *)
(*                                                                         *)
(* A byte is a number, and so is a digit of the text.  The memory from the *)
(* caller's buffer on is a function on the addresses that were written to. *)
(***************************************************************************)
EXTENDS Integers, Sequences

CONSTANTS
  HashByte,      \* the bytes of digests
  Md5Len,        \* length of a digest by MD5: 16
  Sha1Len,       \* by SHA1: 20
  HmacLens,      \* by the algorithms of ct_hash_hmac, 0 for none: 0 to 64
  HmacBuf,       \* size of hash_ret of ct_hash_hmac: 20
  OutSizes,      \* sizes of the caller's buffer
  CryptBits      \* width of size_t

SizeMod == 2 ^ CryptBits

ASSUME CryptAssumption ==
  /\ HashByte \subseteq 0 .. 255 /\ CryptBits \in Nat /\ SizeMod \in Nat \ {0}
  /\ {Md5Len, Sha1Len, HmacBuf} \cup HmacLens \cup OutSizes \subseteq 0 .. SizeMod - 1
  /\ \A n \in {Md5Len, Sha1Len} \cup HmacLens : 2 * n < SizeMod

VARIABLE crypt    \* the last call and the caller's memory

(* What is not a digit of the text: the NUL.                               *)
NulDigit == -1

(* The functions keep nothing from call to call: a behaviour has one.      *)
NoCall == -1
InCall == -2

(* pieces: the texts that the call prints, i of them so far.               *)
CryptInit ==
  crypt = [digest |-> <<>>, size |-> 0, pieces |-> <<>>, i |-> 0, pout_len |-> 0,
           out |-> <<>>, ret |-> NoCall, defined |-> TRUE]

-----------------------------------------------------------------------------
(* "%x" of one half of a byte after the other.                             *)
HalfBytes(d) ==
  [i \in 1 .. 2 * Len(d) |->
     <<IF i % 2 = 1 THEN d[(i + 1) \div 2] \div 16 ELSE d[i \div 2] % 16>>]

(* Mutant of TwoDigits: "%x" in place of "%02x".                           *)
OneOrTwoDigits(b) == IF b < 16 THEN <<b>> ELSE <<b \div 16, b % 16>>

(* "%02x" of a byte.                                                       *)
TwoDigits(b) == <<b \div 16, b % 16>>
WholeBytes(d) == [i \in DOMAIN d |-> TwoDigits(d[i])]

Gives(d, pieces, size, defined) ==
  crypt' = [crypt EXCEPT !.digest = d, !.size = size, !.pieces = pieces, !.ret = InCall,
                         !.defined = defined]

Refuses(d, size) ==
  crypt' = [crypt EXCEPT !.digest = d, !.size = size, !.ret = 1]

(* An empty string has no MD5 here, though it has a SHA1.                  *)
ct_md5(d, size, empty) ==
  \/ Refuses(d, size)
  \/ ~ empty /\ Gives(d, HalfBytes(d), size, TRUE)

ct_sha1(d, size) ==
  \/ Refuses(d, size)
  \/ Gives(d, HalfBytes(d), size, TRUE)

(* A name that is not in the list leaves evp_md uninitialized: the digest, *)
(* if there is one, is any.  A digest that is longer than hash_ret is also *)
(* written, and printed, beyond it, if the program survives this.          *)
ct_hash_hmac(d, size, listed) ==
  \/ Refuses(d, size)
  \/ Gives(d, WholeBytes(d), size, listed /\ Len(d) <= HmacBuf)

(* snprintf(pout + pout_len, out_str_size - pout_len, ...): the difference *)
(* is of type size_t.                                                      *)
snprintf(text) ==
  LET at == crypt.pout_len
      room == (crypt.size - at) % SizeMod
      last == at + (IF Len(text) < room THEN Len(text) ELSE room - 1)
  IN IF room = 0 THEN crypt.out
     ELSE [a \in DOMAIN crypt.out \cup at .. last |->
             IF a \in at .. last - 1 THEN text[a - at + 1]
             ELSE IF a = last THEN NulDigit ELSE crypt.out[a]]

(* A turn of the loop: snprintf returns the length of the text, written or *)
(* not.                                                                    *)
Prints ==
  LET text == crypt.pieces[crypt.i + 1]
  IN /\ crypt.ret = InCall /\ crypt.i < Len(crypt.pieces)
     /\ crypt' = [crypt EXCEPT !.i = @ + 1, !.pout_len = @ + Len(text), !.out = snprintf(text)]

Returns ==
  /\ crypt.ret = InCall /\ crypt.i = Len(crypt.pieces)
  /\ crypt' = [crypt EXCEPT !.ret = 0]

Digests(n) == [1 .. n -> HashByte]

Calls ==
  /\ crypt.ret = NoCall
  /\ \E size \in OutSizes :
       \/ \E d \in Digests(Md5Len), empty \in BOOLEAN : ct_md5(d, size, empty)
       \/ \E d \in Digests(Sha1Len) : ct_sha1(d, size)
       \/ \E n \in HmacLens : \E d \in Digests(n), listed \in BOOLEAN :
            ct_hash_hmac(d, size, listed)

CryptNext == Calls \/ Prints \/ Returns
-----------------------------------------------------------------------------
Outside == {a \in DOMAIN crypt.out : a >= crypt.size}

(* A buffer with room for the text and its NUL holds both, and the text    *)
(* stands for the digest byte by byte; a smaller one holds the beginning,  *)
(* with a NUL.  Except: without an algorithm there is no NUL either.       *)
(* Memory behind the buffer is written to only if it lacks two characters  *)
(* of the text or more: out_str_size - pout_len then wraps.  A call that   *)
(* fails writes nothing.                                                   *)
DigestText ==
  LET d == crypt.digest
      text == 2 * Len(d)
      end == IF text < crypt.size THEN text ELSE crypt.size - 1
  IN /\ crypt.ret = 0 /\ crypt.defined /\ d # <<>> /\ crypt.size > 0 =>
          /\ 0 .. end \subseteq DOMAIN crypt.out
          /\ \A i \in 0 .. end - 1 : crypt.out[i] \in 0 .. 15
          /\ \A j \in DOMAIN d : 2 * j <= end =>
               16 * crypt.out[2 * j - 2] + crypt.out[2 * j - 1] = d[j]
          /\ crypt.out[end] = NulDigit
     /\ Outside # {} => text >= crypt.size + 2
     /\ crypt.ret = 1 \/ d = <<>> => DOMAIN crypt.out = {}
=============================================================================
