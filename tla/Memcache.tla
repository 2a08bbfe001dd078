------------------------------- MODULE Memcache -------------------------------
(***************************************************************************)
(* c/libgs/ctapi_mc/ctapi_mc.c: set, get and delete of a key on a memcache *)
(* server, each on a connection of its own.                                *)
(*                                                                         *)
(* libmemcached is modelled by the answers that the code tells apart; the  *)
(* server may do what it did not answer for, then or later, and may drop a *)
(* value at any time.  Values are sequences: the code passes their length  *)
(* as a char of CharBits bits.                                             *)
(***************************************************************************)
EXTENDS Integers, Sequences

CONSTANTS
  McKeys,
  McValues,      \* sequences
  CharBits       \* width of char: 8

(* The first value that a signed char does not have.                       *)
CharHalf == 2 ^ (CharBits - 1)

ASSUME McAssumption ==
  /\ CharBits \in Nat \ {0} /\ CharHalf \in Nat \ {0}
  /\ \A v \in McValues : v \in Seq({v[i] : i \in DOMAIN v})

Missing == <<"missing">>
Unknown == <<"unknown">>

VARIABLES
  mcsrv,    \* what the server holds
  mclate,   \* requests without an answer that the server may still get to
  mclog     \* history: what the answers tell the caller about every key

mcVars == <<mcsrv, mclate, mclog>>

(* last: the last call, its answer, and what the server held of its key.   *)
McInit ==
  /\ mcsrv = [k \in McKeys |-> Missing]
  /\ mclate = {}
  /\ mclog = [known |-> [k \in McKeys |-> Unknown], fn |-> "none", key |-> "none",
              ret |-> 0, result |-> Missing, reached |-> FALSE]

(* Mutant of Code: a key that is not found is taken for a success.         *)
CodeAnyFound(mrc) ==
  CASE mrc = "SUCCESS" -> 0 [] mrc = "NOTFOUND" -> 0
    [] mrc = "CONNECTION_FAILURE" -> 2 [] OTHER -> 3

(* The answer for the library's return value, in set_mc and get_mc.        *)
Code(mrc) ==
  CASE mrc = "SUCCESS" -> 0 [] mrc = "NOTFOUND" -> 1
    [] mrc = "CONNECTION_FAILURE" -> 2 [] OTHER -> 3

DeleteCode(mrc) == CASE mrc = "SUCCESS" -> 0 [] mrc = "NOTFOUND" -> 1 [] OTHER -> 2

Answer(fn, k, ret, result, known, reached) ==
  mclog' = [known |-> [mclog.known EXCEPT ![k] = known], fn |-> fn, key |-> k,
            ret |-> ret, result |-> result, reached |-> reached]

(* The handle cannot be given its server: nothing is sent.                 *)
NoServer(fn, k, ret) ==
  /\ Answer(fn, k, ret, Missing, mclog.known[k], FALSE)
  /\ UNCHANGED <<mcsrv, mclate>>

(* strlen as a char, and that as a size_t: a negative one is a length that *)
(* no server takes.                                                        *)
AsChar(n) ==
  LET m == n % (2 * CharHalf) IN IF m >= CharHalf THEN m - 2 * CharHalf ELSE m

(* The call waits for its answer in vain: what it asked for, if it was     *)
(* sent, is done at some time.                                             *)
Lost(fn, k, ret, reqs) ==
  /\ mclate = {}
  /\ mclate' \in {{}, reqs}
  /\ Answer(fn, k, ret, Missing, mclog.known[k], FALSE)
  /\ UNCHANGED mcsrv

set_mc(k, v) ==
  LET len == AsChar(Len(v))
      sent == SubSeq(v, 1, len)
  IN \/ NoServer("set", k, 3)
     \/ NoServer("set", k, Code("CONNECTION_FAILURE"))
     \/ /\ len >= 0
        /\ mcsrv' = [mcsrv EXCEPT ![k] = sent]
        /\ Answer("set", k, Code("SUCCESS"), Missing, v, TRUE)
        /\ UNCHANGED mclate
     \/ Lost("set", k, Code("TIMEOUT"), IF len >= 0 THEN {<<k, sent>>} ELSE {})

get_mc(k) ==
  \/ NoServer("get", k, 2)
  \/ NoServer("get", k, Code("CONNECTION_FAILURE"))
  \/ /\ Answer("get", k, Code(IF mcsrv[k] = Missing THEN "NOTFOUND" ELSE "SUCCESS"),
               mcsrv[k], mclog.known[k], TRUE)
     /\ UNCHANGED <<mcsrv, mclate>>
  \/ Lost("get", k, Code("TIMEOUT"), {})

(* Every failure but "not found" is 2, but a handle without a server is 1. *)
delete_mc(k) ==
  \/ NoServer("delete", k, 1)
  \/ NoServer("delete", k, DeleteCode("CONNECTION_FAILURE"))
  \/ /\ mcsrv' = [mcsrv EXCEPT ![k] = Missing]
     /\ Answer("delete", k, DeleteCode(IF mcsrv[k] = Missing THEN "NOTFOUND" ELSE "SUCCESS"),
               Missing, Missing, TRUE)
     /\ UNCHANGED mclate
  \/ Lost("delete", k, DeleteCode("TIMEOUT"), {<<k, Missing>>})

(* A request that was given up takes effect: its caller cannot know.       *)
Late ==
  /\ \E r \in mclate :
       /\ mcsrv' = [mcsrv EXCEPT ![r[1]] = r[2]]
       /\ mclog' = [mclog EXCEPT !.known[r[1]] = Unknown, !.fn = "none"]
  /\ mclate' = {}

(* The server drops a value: it expired, or room was needed.               *)
Drop(k) ==
  /\ mcsrv[k] # Missing
  /\ mcsrv' = [mcsrv EXCEPT ![k] = Missing]
  /\ UNCHANGED <<mclate, mclog>>

McNext ==
  \/ \E k \in McKeys :
       \/ \E v \in McValues : set_mc(k, v)
       \/ get_mc(k)
       \/ delete_mc(k)
       \/ Drop(k)
  \/ Late
-----------------------------------------------------------------------------
(* What the caller was told stays true until the server drops the value or *)
(* a call that was given up takes effect: a value that was set is the one  *)
(* that is held, and a key that was deleted is gone, whatever other calls  *)
(* failed.  Except: of a value of 128 characters or more, which a char     *)
(* cannot count, only a part is kept, or none.                             *)
McKnown ==
  \A k \in McKeys :
    LET v == mclog.known[k]
    IN v # Unknown /\ Len(v) < CharHalf => mcsrv[k] \in {v, Missing}

(* A get that succeeds gives what the last set of this caller stored, as   *)
(* long as no call that was given up took effect; "not found" means that   *)
(* the server does not hold the key, except from a delete that could not   *)
(* be sent.                                                                *)
McAnswers ==
  /\ mclog.fn = "get" /\ mclog.ret = 0 =>
       /\ mclog.result # Missing
       /\ LET v == mclog.known[mclog.key]
          IN v # Unknown /\ Len(v) < CharHalf => mclog.result = v
  /\ mclog.fn # "none" /\ mclog.ret = 1 =>
       \/ mclog.fn # "set" /\ mcsrv[mclog.key] = Missing
       \/ mclog.fn = "delete" /\ ~ mclog.reached

(* The codes of set_mc, get_mc and delete_mc never claim more than the     *)
(* server did, although answers are lost and requests take effect late.    *)
McHonest ==
  /\ McKnown
  /\ McAnswers
=============================================================================
