------------------------------- MODULE CurlPost -------------------------------
(***************************************************************************)
(* c/libgs/ctapi_curl/ctapi_curl.c: a request by HTTP, whose answer is put *)
(* together by two callbacks in strings that grow.                         *)
(*                                                                         *)
(* libcurl is modelled by what the code sees of it: a handle that keeps    *)
(* its options from one request to the next, and a transfer that calls the *)
(* callbacks with pieces of the answer until it ends or breaks off.        *)
(***************************************************************************)
EXTENDS Integers, Sequences, FiniteSets

CONSTANTS
  Chunks,        \* pieces of answers: sequences
  PostData,      \* data of requests
  BUF_SIZE,
  CurlCalls,     \* bound: requests
  CurlBytes      \* bound: length of an answer

ASSUME CurlAssumption ==
  /\ BUF_SIZE \in Nat \ {0}
  /\ \A c \in Chunks : c \in Seq({c[i] : i \in DOMAIN c})

NoData == "no data"
Stdin  == "what the program reads on its standard input"
Reused == "what has come to the memory of earlier data"
NoStr == [alloc |-> FALSE, text |-> <<>>, len |-> 0, size |-> 0]

VARIABLES
  curl,      \* the handle: the options that requests set, and its transfer
  cres,      \* curl_result_string
  clog       \* history

curlVars == <<curl, cres, clog>>

NoResult == [headers |-> NoStr, data |-> NoStr]

(* heap: strings allocated; got: the pieces of the answer that were taken; *)
(* given: the length of all that the server gave; asked and sent: the      *)
(* request as the caller and as the server see it.                         *)
CurlInit ==
  /\ curl = [open |-> FALSE, post |-> FALSE, fields |-> NoData, busy |-> FALSE, cut |-> FALSE]
  /\ cres = NoResult
  /\ clog = [heap |-> 0, got |-> NoResult, given |-> 0, calls |-> 0, posted |-> FALSE, ret |-> -1,
             ok |-> TRUE, asked |-> <<"GET", NoData>>, sent |-> <<"GET", NoData>>,
             dropped |-> 0]

(* The handle of a program's life: curl_easy_init may fail.                *)
ctapi_curl_create ==
  /\ ~ curl.open /\ clog.calls < CurlCalls
  /\ \E ok \in BOOLEAN : curl' = [curl EXCEPT !.open = ok, !.post = FALSE, !.fields = NoData]
  /\ clog' = [clog EXCEPT !.posted = FALSE, !.asked = <<"GET", NoData>>,
                          !.sent = <<"GET", NoData>>]
  /\ UNCHANGED cres

ctapi_curl_clean ==
  /\ ~ curl.busy
  /\ curl' = [curl EXCEPT !.open = FALSE]
  /\ UNCHANGED <<cres, clog>>

Owned(r) == Cardinality({f \in DOMAIN r : r[f].alloc})

(* What libcurl sends as the data of a request.  A POST whose handle has   *)
(* none is read from the standard input; of data set earlier libcurl has   *)
(* only the address, where the caller may have put something else.         *)
Bodies(post, method, data) ==
  CASE ~ post -> {NoData}
    [] method = "POST" /\ data # NoData -> {data}
    [] OTHER -> IF curl.fields = NoData THEN {Stdin} ELSE {curl.fields, Reused}

(* The result is cleared, whatever it holds.  A POST sets its options,     *)
(* which nothing takes back: a GET does not clear them, nor does a POST    *)
(* without data clear the data of the one before.                          *)
ctapi_curl_post(method, data) ==
  LET post == curl.post \/ method = "POST"
      fields == IF method = "POST" /\ data # NoData THEN data ELSE curl.fields
  IN /\ curl.open /\ ~ curl.busy /\ clog.calls < CurlCalls
     /\ curl' = [curl EXCEPT !.post = post, !.fields = fields, !.busy = TRUE, !.cut = FALSE]
     /\ cres' = NoResult
     /\ \E body \in Bodies(post, method, data) :
          clog' = [clog EXCEPT
            !.dropped = @ + Owned(cres), !.got = NoResult, !.given = 0, !.ret = -1,
            !.calls = @ + 1, !.posted = @ \/ (clog.asked[1] = "POST"),
            !.asked = <<method, IF method = "POST" THEN data ELSE NoData>>,
            !.sent = <<IF post THEN "POST" ELSE "GET", body>>]

(* Mutant of Room: no byte is kept for the NUL.                            *)
RoomTight(p, n) == p.size - p.len >= n

Room(p, n) == p.size - p.len >= n + 1

(* _recive_header_from_http_api and _recive_data_from_http_api: the piece  *)
(* c is added to the string p.  mem: the allocations that succeed.  taken  *)
(* is what the callback returns.                                           *)
Receive(p, c, mem) ==
  LET n == Len(c)
      p1 == IF p.alloc THEN p ELSE [alloc |-> TRUE, text |-> <<>>, len |-> 0, size |-> BUF_SIZE]
      m1 == IF p.alloc THEN mem ELSE mem - 1
      p2 == IF Room(p1, n) THEN p1 ELSE [p1 EXCEPT !.size = p1.size * 2 + n + 1]
      p3 == [p2 EXCEPT !.text = @ \o c, !.len = @ + n]
  IN CASE ~ p.alloc /\ mem = 0 -> [p |-> p, taken |-> 0]
       [] (p.alloc \/ mem # 0) /\ ~ Room(p1, n) /\ m1 = 0 -> [p |-> p1, taken |-> 0]
       [] OTHER -> [p |-> p3, taken |-> n]

(* A piece of the headers or of the data; the transfer breaks off when the *)
(* callback takes less than it is given.                                   *)
Deliver(f, c, mem) ==
  LET r == Receive(cres[f], c, mem)
  IN /\ curl.busy /\ ~ curl.cut
     /\ cres.headers.len + cres.data.len + Len(c) <= CurlBytes
     /\ cres' = [cres EXCEPT ![f] = r.p]
     /\ curl' = [curl EXCEPT !.cut = r.taken # Len(c)]
     /\ clog' = [clog EXCEPT
          !.heap = @ + (IF r.p.alloc /\ ~ cres[f].alloc THEN 1 ELSE 0),
          !.got[f].text = IF r.taken = Len(c) THEN @ \o c ELSE @,
          !.given = @ + Len(c)]

(* curl_easy_perform returns: the code only reports an error.              *)
PostReturns(ok) ==
  /\ curl.busy
  /\ ok => ~ curl.cut
  /\ curl' = [curl EXCEPT !.busy = FALSE, !.cut = FALSE]
  /\ clog' = [clog EXCEPT !.ret = cres.headers.len + cres.data.len, !.ok = ok]
  /\ UNCHANGED cres

ctapi_curl_free ==
  /\ ~ curl.busy
  /\ cres' = NoResult
  /\ clog' = [clog EXCEPT !.heap = @ - Owned(cres), !.got = NoResult, !.given = 0,
                          !.ret = -1]
  /\ UNCHANGED curl

CurlNext ==
  \/ ctapi_curl_create
  \/ ctapi_curl_clean
  \/ \E m \in {"GET", "POST"}, d \in PostData \cup {NoData} : ctapi_curl_post(m, d)
  \/ \E f \in {"headers", "data"}, c \in Chunks, mem \in 0 .. 2 : Deliver(f, c, mem)
  \/ \E ok \in BOOLEAN : PostReturns(ok)
  \/ ctapi_curl_free
-----------------------------------------------------------------------------
(* Both strings hold the pieces that their callbacks took, in order, with  *)
(* room for the NUL behind them, even when memory runs out on the way.     *)
CurlText ==
  \A f \in DOMAIN cres :
    LET p == cres[f]
    IN /\ p.text = clog.got[f].text /\ p.len = Len(p.text)
       /\ p.alloc => p.len + 1 <= p.size
       /\ ~ p.alloc => p.len = 0

(* The strings in memory are those of the result, and those of a result    *)
(* that another request was made for without freeing it.                   *)
CurlOwned == clog.heap = Owned(cres) + clog.dropped

(* The answer is how much was taken, and after a transfer that ended well  *)
(* that is all that the server gave: a lack of memory is then not hidden.  *)
(* After one that broke off it may be less.  The comment on the function   *)
(* promises 0 for an error and another number for success: but a transfer  *)
(* that breaks off is answered with 0 only if nothing was taken, and one   *)
(* that ends well with 0 if nothing was given.                             *)
Taken == Len(clog.got.headers.text) + Len(clog.got.data.text)

CurlAnswer ==
  clog.ret >= 0 =>
    /\ clog.ret = Taken
    /\ IF clog.ok THEN clog.ret = clog.given ELSE clog.ret <= clog.given

(* A request with data is sent as it was asked, and so is a GET if the     *)
(* handle was not used for a POST before.  A POST without data never is:   *)
(* what the program has on its standard input is sent, or, if a request    *)
(* before it was a POST, what is at the place of the data of then; and     *)
(* after a POST a GET is sent as such a POST.                              *)
SentAsAsked ==
  /\ clog.asked[2] # NoData => clog.sent = clog.asked
  /\ clog.asked[1] = "GET" /\ ~ clog.posted => clog.sent = clog.asked
  /\ clog.asked = <<"POST", NoData>> /\ ~ clog.posted => clog.sent = <<"POST", Stdin>>

(* A request sends what was asked, collects what the server gave in memory *)
(* that is freed once, and returns how much that was, wherever the         *)
(* transfer or the memory ends: with the exceptions named above.           *)
CurlHonest ==
  /\ CurlText
  /\ CurlOwned
  /\ CurlAnswer
  /\ SentAsAsked
=============================================================================
