--------------------------- MODULE ServicesProofs ---------------------------
(***************************************************************************)
(* Proofs about the libraries that talk to something outside the program.  *)
(***************************************************************************)
EXTENDS MysqlConn, Memcache, CurlPost, TimedIo, EchoMan, TLAPS, SequenceTheorems,
        FiniteSetTheorems, NaturalsInduction, WellFoundedInduction

-----------------------------------------------------------------------------
(* ctapi_mysql.c.                                                          *)

MysqlSpec == MysqlInit /\ [][MysqlNext]_mysqlVars

Handle == [handle : BOOLEAN, msp : Nat, call : {"none", "query", "store"},
           retry : BOOLEAN, flag : BOOLEAN]

Library == [made : Nat, open : SUBSET Nat, up : SUBSET Nat, rows : Nat,
            of : Nat, misused : BOOLEAN]

Answers == {"none", "ok", "ER", "error", "rows", "null"}

MyLog == [ran : Nat, lost : Nat, rounds : Nat, ret : Answers, queries : Nat,
          retried : SUBSET {"query", "store"}]

MysqlTypeOK ==
  /\ my \in Handle
  /\ mysrv \in Library
  /\ mylog \in MyLog

(* The handle's object is the last that was made, and only it has a        *)
(* connection.                                                             *)
LastMade ==
  /\ my.msp <= mysrv.made
  /\ mysrv.up \subseteq mysrv.open

(* A call that runs has made a round more if it has connected again, which *)
(* it does only if it was asked to retry.                                  *)
Rounds ==
  my.call # "none" =>
    /\ my.handle
    /\ mylog.rounds = IF my.flag THEN 1 ELSE 0
    /\ my.flag => my.retry /\ my.call \in mylog.retried
    /\ mylog.ret = "none"

(* Every execution of a statement that is still being tried had its reply  *)
(* lost, and with it the connection.                                       *)
Executions ==
  my.call = "query" =>
    /\ mylog.ran = mylog.lost
    /\ Connected => mylog.ran <= IF my.flag THEN 1 ELSE 0
    /\ ~ Connected => mylog.ran <= IF my.flag THEN 2 ELSE 1

(* Rows that wait are those of the last statement if it was executed, and  *)
(* of an earlier one if it was not; a result is not waiting any more once  *)
(* the connection is a new one.                                            *)
Waiting ==
  /\ mysrv.of <= mylog.queries
  /\ mysrv.rows # NoMsp =>
       /\ mysrv.of = mylog.queries => mylog.ran >= 1
       /\ mysrv.of # mylog.queries => mylog.ran = 0
  /\ my.call = "store" =>
       /\ "store" \in mylog.retried <=> my.flag
       /\ my.flag => mysrv.rows = NoMsp

MysqlInv ==
  /\ MysqlTypeOK
  /\ LastMade
  /\ Rounds
  /\ Executions
  /\ Waiting
  /\ OneConnection
  /\ AnsweredOnce
  /\ RowsOfQuery
-----------------------------------------------------------------------------
(* mysql_close takes the object m away, and the rows that wait on it.      *)
LEMMA ClosedResult ==
  ASSUME NEW s \in Library, NEW m \in Nat
  PROVE  /\ Closed(s, m) \in Library
         /\ Closed(s, m).made = s.made
         /\ Closed(s, m).of = s.of
         /\ Closed(s, m).open = s.open \ {m}
         /\ Closed(s, m).up = s.up \ {m}
         /\ Closed(s, m).rows = IF s.rows = m THEN NoMsp ELSE s.rows
         /\ Closed(s, m).misused <=> s.misused \/ m \notin s.open \cup {NoMsp}
<1> DEFINE r == IF s.rows = m THEN NoMsp ELSE s.rows
           b == s.misused \/ m \notin s.open \cup {NoMsp}
<1>1. r \in Nat /\ b \in BOOLEAN
  BY DEF Library, NoMsp
<1>2. Closed(s, m) = [s EXCEPT !.open = @ \ {m}, !.up = @ \ {m}, !.rows = r,
                               !.misused = b]
  BY DEF Closed
<1> HIDE DEF r, b
<1>3. /\ Closed(s, m) \in Library
      /\ Closed(s, m).made = s.made
      /\ Closed(s, m).of = s.of
      /\ Closed(s, m).open = s.open \ {m}
      /\ Closed(s, m).up = s.up \ {m}
      /\ Closed(s, m).rows = r
      /\ Closed(s, m).misused = b
  BY <1>1, <1>2 DEF Library
<1> QED BY <1>3 DEF r, b

(* What making a connection does to the library's state: at most the new   *)
(* object is added, and only if the call succeeds.                         *)
LEMMA ConnResult ==
  ASSUME NEW s \in Library, NEW m \in Nat, NEW how \in Hows,
         s.made + 1 \notin s.open, s.made + 1 \notin s.up,
         s.rows # s.made + 1
  PROVE  LET c == _mysql_conn(s, m, how)
             new == s.made + 1
         IN /\ c.s \in Library
            /\ c.s.made \in Nat /\ c.s.made >= s.made
            /\ c.s.of = s.of
            /\ c.s.rows = s.rows
            /\ c.s.misused <=> s.misused
            /\ c.ret = 0 => /\ c.msp = new
                            /\ c.s.made = new
                            /\ c.s.open = s.open \cup {new}
                            /\ c.s.up = s.up \cup {new}
            /\ c.ret # 0 => c.s.open = s.open /\ c.s.up = s.up
<1> DEFINE new == s.made + 1
           made == [s EXCEPT !.made = new, !.open = @ \cup {new}]
           c == _mysql_conn(s, m, how)
<1>1. new \in Nat /\ s.made \in Nat /\ new # NoMsp /\ new >= s.made
  BY DEF Library, NoMsp
<1>2. /\ made \in Library
      /\ made.made = new /\ made.of = s.of /\ made.rows = s.rows
      /\ made.open = s.open \cup {new} /\ made.up = s.up
      /\ made.misused = s.misused
  BY <1>1 DEF Library
<1>3. CASE how = "init"
  <2>1. c.s = s /\ c.ret = -1
    BY <1>3 DEF _mysql_conn
  <2> QED BY <2>1, <1>1
<1>4. CASE how = "option" \/ how = "refused"
  <2>1. c.s = Closed(made, new) /\ c.ret # 0
    BY <1>4 DEF _mysql_conn
  <2>a. s.misused \in BOOLEAN /\ made.misused \in BOOLEAN
    BY <1>2 DEF Library
  <2> HIDE DEF made, new, c
  <2>2. /\ c.s \in Library
        /\ c.s.made = new /\ c.s.of = s.of
        /\ c.s.open = (s.open \cup {new}) \ {new} /\ c.s.up = s.up \ {new}
        /\ c.s.rows = IF s.rows = new THEN NoMsp ELSE s.rows
        /\ c.s.misused <=> s.misused \/ new \notin (s.open \cup {new}) \cup {NoMsp}
    <3>1. /\ Closed(made, new) \in Library
          /\ Closed(made, new).made = made.made
          /\ Closed(made, new).of = made.of
          /\ Closed(made, new).open = made.open \ {new}
          /\ Closed(made, new).up = made.up \ {new}
          /\ Closed(made, new).rows = IF made.rows = new THEN NoMsp ELSE made.rows
          /\ Closed(made, new).misused <=> made.misused \/ new \notin made.open \cup {NoMsp}
      BY <1>1, <1>2, ClosedResult
    <3>2. /\ made.made = new /\ made.of = s.of /\ made.rows = s.rows
          /\ made.open = s.open \cup {new} /\ made.up = s.up
          /\ made.misused = s.misused
      BY <1>2
    <3> QED BY <2>1, <3>1, <3>2, Zenon
  <2>3. (s.open \cup {new}) \ {new} = s.open /\ s.up \ {new} = s.up
    BY DEF new
  <2>4. s.rows # new
    BY DEF new
  <2> QED BY <1>1, <2>1, <2>2, <2>3, <2>4 DEF c, new
<1>5. CASE how = "ok"
  <2>1. c.s = [made EXCEPT !.up = @ \cup {new}] /\ c.ret = 0 /\ c.msp = new
    BY <1>5 DEF _mysql_conn
  <2> HIDE DEF made, new, c
  <2>2. /\ c.s \in Library
        /\ c.s.made = new /\ c.s.of = s.of
        /\ c.s.open = s.open \cup {new} /\ c.s.up = s.up \cup {new}
        /\ c.s.rows = s.rows
        /\ c.s.misused = s.misused
    BY <1>1, <1>2, <2>1 DEF Library
  <2> QED BY <1>1, <2>1, <2>2 DEF c, new
<1> QED BY <1>3, <1>4, <1>5 DEF Hows

(* The types of the fields.                                                *)
LEMMA MysqlFields ==
  ASSUME MysqlInv
  PROVE  /\ my.handle \in BOOLEAN /\ my.msp \in Nat
         /\ my.call \in {"none", "query", "store"}
         /\ my.retry \in BOOLEAN /\ my.flag \in BOOLEAN
         /\ mysrv.made \in Nat /\ mysrv.open \in SUBSET Nat
         /\ mysrv.up \in SUBSET Nat /\ mysrv.rows \in Nat
         /\ mysrv.of \in Nat /\ mysrv.misused \in BOOLEAN
         /\ mylog.ran \in Nat /\ mylog.lost \in Nat
         /\ mylog.rounds \in Nat /\ mylog.ret \in Answers
         /\ mylog.queries \in Nat
         /\ mylog.retried \in SUBSET {"query", "store"}
BY DEF MysqlInv, MysqlTypeOK, Handle, Library, MyLog

(* A number that no MYSQL object has had.                                  *)
LEMMA NewObject ==
  ASSUME MysqlInv
  PROVE  /\ mysrv.made + 1 \in Nat
         /\ mysrv.made + 1 # NoMsp
         /\ mysrv.made + 1 # my.msp
         /\ mysrv.made + 1 \notin mysrv.open
         /\ mysrv.made + 1 \notin mysrv.up
         /\ mysrv.rows # mysrv.made + 1
BY MysqlFields DEF MysqlInv, LastMade, OneConnection, RowsOfQuery, NoMsp

(* A handle without a connection gets one, or does not.                    *)
LEMMA ConnectEffect ==
  ASSUME MysqlInv, my.msp = NoMsp, NEW how \in Hows,
         mysrv' = _mysql_conn(mysrv, NoMsp, how).s,
         _mysql_conn(mysrv, NoMsp, how).ret = 0 =>
           my'.msp = _mysql_conn(mysrv, NoMsp, how).msp /\ my'.handle,
         _mysql_conn(mysrv, NoMsp, how).ret # 0 => my' = my
  PROVE  /\ mysrv' \in Library
         /\ mysrv'.of = mysrv.of
         /\ mysrv.rows = NoMsp /\ mysrv'.rows = NoMsp
         /\ LastMade' /\ OneConnection'
<1> DEFINE c == _mysql_conn(mysrv, NoMsp, how)
           new == mysrv.made + 1
<1>1. /\ c.s \in Library
      /\ c.s.made \in Nat /\ c.s.made >= mysrv.made
      /\ c.s.of = mysrv.of
      /\ c.s.rows = mysrv.rows
      /\ c.s.misused <=> mysrv.misused
      /\ c.ret = 0 => /\ c.msp = new
                      /\ c.s.made = new
                      /\ c.s.open = mysrv.open \cup {new}
                      /\ c.s.up = mysrv.up \cup {new}
      /\ c.ret # 0 => c.s.open = mysrv.open /\ c.s.up = mysrv.up
  BY NewObject, ConnResult DEF MysqlInv, MysqlTypeOK, NoMsp
<1>2. mysrv.rows = NoMsp
  BY DEF MysqlInv, RowsOfQuery
<1>3. mysrv.open = {} /\ mysrv.up = {} /\ ~ mysrv.misused
  BY DEF MysqlInv, OneConnection, LastMade
<1> HIDE DEF c
<1>4. LastMade' /\ OneConnection'
  <2>1. CASE c.ret = 0
    <3>1. my'.msp = new /\ my'.handle
      BY <1>1, <2>1 DEF c
    <3>2. mysrv'.made = new /\ mysrv'.open = {new} /\ mysrv'.up = {new} /\ ~ mysrv'.misused
      BY <1>1, <1>3, <2>1 DEF c
    <3> QED BY <3>1, <3>2, NewObject DEF LastMade, OneConnection, NoMsp
  <2>2. CASE c.ret # 0
    <3>1. my' = my
      BY <2>2 DEF c
    <3>2. mysrv'.open = {} /\ mysrv'.up = {} /\ ~ mysrv'.misused
          /\ mysrv'.made \in Nat /\ mysrv'.made >= mysrv.made
      BY <1>1, <1>3, <2>2 DEF c
    <3> QED BY <3>1, <3>2, MysqlFields DEF MysqlInv, LastMade, OneConnection, NoMsp
  <2> QED BY <2>1, <2>2
<1> QED BY <1>1, <1>2, <1>4 DEF c

(* A call begins, on a connection, or ends because there is none.          *)
Begun(then, failed, log) ==
  /\ mysrv' \in Library /\ my' \in Handle /\ mylog' \in MyLog
  /\ mysrv'.of = mysrv.of /\ mysrv'.rows = mysrv.rows
  /\ mysrv'.rows # NoMsp => mysrv'.rows = my'.msp
  /\ LastMade' /\ OneConnection'
  /\ \/ /\ my'.handle
        /\ my'.call = then.call
        /\ my'.retry = then.retry
        /\ my'.flag = then.flag
        /\ mylog' = log
     \/ /\ my' = my
        /\ mysrv.rows = NoMsp
        /\ mylog' = [log EXCEPT !.ret = failed]

(* Begin does that.                                                        *)
LEMMA BeginEffect ==
  ASSUME MysqlInv, NEW then \in Handle, then.msp = my.msp, then.handle,
         NEW failed \in Answers, NEW log \in MyLog,
         Begin(then, failed, log)
  PROVE  Begun(then, failed, log)
<1>1. CASE my.msp # NoMsp /\ my' = then /\ mylog' = log /\ UNCHANGED mysrv
  BY <1>1 DEF Begun, MysqlInv, MysqlTypeOK, LastMade, OneConnection, RowsOfQuery
<1>2. ASSUME my.msp = NoMsp, NEW how \in Hows,
             mysrv' = _mysql_conn(mysrv, NoMsp, how).s,
             my' = IF _mysql_conn(mysrv, NoMsp, how).ret = 0
                     THEN [then EXCEPT !.msp = _mysql_conn(mysrv, NoMsp, how).msp]
                     ELSE my,
             mylog' = IF _mysql_conn(mysrv, NoMsp, how).ret = 0 THEN log
                        ELSE [log EXCEPT !.ret = failed]
      PROVE  Begun(then, failed, log)
  <2> DEFINE c == _mysql_conn(mysrv, NoMsp, how)
  <2>1. c.ret = 0 => c.msp \in Nat
    <3>1. how = "ok" => c.msp = mysrv.made + 1
      BY DEF _mysql_conn
    <3>2. how # "ok" => c.ret # 0
      BY DEF _mysql_conn, Hows
    <3>3. mysrv.made + 1 \in Nat
      BY NewObject
    <3> HIDE DEF c
    <3> QED BY <3>1, <3>2, <3>3
  <2>2. CASE c.ret = 0
    <3>1. my' = [then EXCEPT !.msp = c.msp] /\ mylog' = log
      BY <1>2, <2>2
    <3> HIDE DEF c
    <3>2. /\ my' \in Handle /\ my'.msp = c.msp /\ my'.handle
          /\ my'.call = then.call /\ my'.retry = then.retry
          /\ my'.flag = then.flag
      BY <2>1, <2>2, <3>1 DEF Handle
    <3>3. /\ mysrv' \in Library
          /\ mysrv'.of = mysrv.of
          /\ mysrv.rows = NoMsp /\ mysrv'.rows = NoMsp
          /\ LastMade' /\ OneConnection'
      BY <1>2, <2>2, <3>2, ConnectEffect DEF c
    <3> QED BY <3>1, <3>2, <3>3 DEF Begun
  <2>3. CASE c.ret # 0
    <3>1. my' = my /\ mylog' = [log EXCEPT !.ret = failed]
      BY <1>2, <2>3
    <3>2. my \in Handle /\ mylog' \in MyLog
      BY <3>1 DEF MyLog, MysqlInv, MysqlTypeOK
    <3>3. /\ mysrv' \in Library
          /\ mysrv'.of = mysrv.of
          /\ mysrv.rows = NoMsp /\ mysrv'.rows = NoMsp
          /\ LastMade' /\ OneConnection'
      BY <1>2, <2>3, <3>1, ConnectEffect DEF c
    <3> QED BY <3>1, <3>2, <3>3 DEF Begun
  <2> QED BY <2>2, <2>3
<1> QED BY <1>1, <1>2 DEF Begin

(* ct_mysql_query is called.                                               *)
LEMMA QueryCalled ==
  ASSUME MysqlInv, NEW retry \in BOOLEAN, ct_mysql_query(retry)
  PROVE  MysqlInv'
<1> DEFINE then == [my EXCEPT !.call = "query", !.retry = retry, !.flag = FALSE]
           log == [mylog EXCEPT !.ran = 0, !.lost = 0, !.rounds = 0, !.ret = "none",
                                !.queries = @ + 1, !.retried = {}]
<1>1. my.handle /\ my.call = "none" /\ Begin(then, "error", log)
  BY DEF ct_mysql_query, Idle
<1>2. then \in Handle /\ then.msp = my.msp /\ then.handle
  BY <1>1 DEF MysqlInv, MysqlTypeOK, Handle
<1>3. then.call = "query" /\ then.retry = retry /\ then.flag = FALSE
  BY DEF MysqlInv, MysqlTypeOK, Handle
<1>4. /\ log \in MyLog
      /\ log.ran = 0 /\ log.lost = 0 /\ log.rounds = 0 /\ log.ret = "none"
      /\ log.queries = mylog.queries + 1 /\ log.retried = {}
  <2>1. mylog \in MyLog /\ mylog.queries + 1 \in Nat
    BY MysqlFields DEF MysqlInv, MysqlTypeOK
  <2> QED BY <2>1 DEF MyLog, Answers
<1> HIDE DEF then, log
<1>5. Begun(then, "error", log)
  BY <1>1, <1>2, <1>4, BeginEffect DEF Answers
<1>6. /\ mylog'.ran = 0 /\ mylog'.lost = 0 /\ mylog'.rounds = 0
      /\ mylog'.queries = mylog.queries + 1 /\ mylog'.retried = {}
  BY <1>4, <1>5 DEF Begun, MyLog
<1>7. \/ my'.call = "query" /\ ~ my'.flag /\ mylog'.ret = "none"
      \/ my'.call = "none" /\ mysrv.rows = NoMsp /\ mylog'.ret = "error"
  BY <1>1, <1>3, <1>4, <1>5 DEF Begun, MyLog
<1>7a. my'.handle
  <2>1. my'.handle \/ my' = my
    BY <1>5 DEF Begun
  <2> QED BY <1>1, <2>1
<1>8. mysrv'.of <= mylog.queries /\ mysrv'.of \in Nat /\ mylog.queries \in Nat
  BY <1>5, MysqlFields DEF Begun, MysqlInv, Waiting
<1>9. MysqlTypeOK' /\ LastMade' /\ OneConnection'
  BY <1>5 DEF Begun, MysqlTypeOK
<1>10. Rounds' /\ Executions' /\ Waiting' /\ AnsweredOnce' /\ RowsOfQuery'
  <2>1. Rounds'
    BY <1>6, <1>7, <1>7a DEF Rounds
  <2>2. Executions'
    BY <1>6, <1>7 DEF Executions, Connected
  <2>3. Waiting'
    BY <1>6, <1>7, <1>8 DEF Waiting
  <2>4. AnsweredOnce'
    BY <1>6, <1>7 DEF AnsweredOnce
  <2>5. RowsOfQuery'
    BY <1>5, <1>6, <1>7 DEF RowsOfQuery, Begun
  <2> QED BY <2>1, <2>2, <2>3, <2>4, <2>5
<1> QED BY <1>9, <1>10 DEF MysqlInv

(* ct_mysql_store_result is called.                                        *)
LEMMA StoreCalled ==
  ASSUME MysqlInv, NEW retry \in BOOLEAN, ct_mysql_store_result(retry)
  PROVE  MysqlInv'
<1> DEFINE then == [my EXCEPT !.call = "store", !.retry = retry, !.flag = FALSE]
           log == [mylog EXCEPT !.rounds = 0, !.ret = "none",
                                !.retried = @ \ {"store"}]
<1>1. my.handle /\ my.call = "none" /\ Begin(then, "null", log)
  BY DEF ct_mysql_store_result, Idle
<1>2. then \in Handle /\ then.msp = my.msp /\ then.handle
  BY <1>1 DEF MysqlInv, MysqlTypeOK, Handle
<1>3. then.call = "store" /\ then.retry = retry /\ then.flag = FALSE
  BY DEF MysqlInv, MysqlTypeOK, Handle
<1>4. /\ log \in MyLog
      /\ log.ran = mylog.ran /\ log.lost = mylog.lost /\ log.rounds = 0
      /\ log.ret = "none"
      /\ log.queries = mylog.queries /\ log.retried = mylog.retried \ {"store"}
  BY DEF MysqlInv, MysqlTypeOK, MyLog, Answers
<1> HIDE DEF then, log
<1>5. Begun(then, "null", log)
  BY <1>1, <1>2, <1>4, BeginEffect DEF Answers
<1>6. /\ mylog'.ran = mylog.ran /\ mylog'.lost = mylog.lost
      /\ mylog'.rounds = 0
      /\ mylog'.queries = mylog.queries
      /\ mylog'.retried = mylog.retried \ {"store"}
  BY <1>4, <1>5 DEF Begun, MyLog
<1>7. \/ my'.call = "store" /\ ~ my'.flag /\ mylog'.ret = "none"
      \/ my'.call = "none" /\ mysrv.rows = NoMsp /\ mylog'.ret = "null"
  BY <1>1, <1>3, <1>4, <1>5 DEF Begun, MyLog
<1>7a. my'.handle
  <2>1. my'.handle \/ my' = my
    BY <1>5 DEF Begun
  <2> QED BY <1>1, <2>1
<1>8. mysrv'.of = mysrv.of /\ mysrv'.rows = mysrv.rows
  BY <1>5 DEF Begun
<1>9. MysqlTypeOK' /\ LastMade' /\ OneConnection'
  BY <1>5 DEF Begun, MysqlTypeOK
<1>10. Rounds' /\ Executions' /\ Waiting' /\ AnsweredOnce' /\ RowsOfQuery'
  <2>1. Rounds' /\ Executions'
    BY <1>6, <1>7, <1>7a DEF Rounds, Executions
  <2>2. Waiting'
    BY <1>6, <1>7, <1>8 DEF Waiting, MysqlInv
  <2>3. AnsweredOnce'
    BY <1>6, <1>7 DEF AnsweredOnce, MysqlInv
  <2>4. RowsOfQuery'
    BY <1>5, <1>6, <1>7 DEF RowsOfQuery, Begun
  <2> QED BY <2>1, <2>2, <2>3, <2>4
<1> QED BY <1>9, <1>10 DEF MysqlInv

(* _mysql_options.                                                         *)
LEMMA OptionsCalled ==
  ASSUME MysqlInv, _mysql_options
  PROVE  MysqlInv'
<1> DEFINE log == [mylog EXCEPT !.ret = "none"]
<1>1. my.handle /\ my.call = "none" /\ Begin(my, "error", log)
  BY DEF _mysql_options, Idle
<1>2. my \in Handle
  BY DEF MysqlInv, MysqlTypeOK
<1>3. /\ log \in MyLog
      /\ log.ran = mylog.ran /\ log.lost = mylog.lost
      /\ log.rounds = mylog.rounds /\ log.ret = "none"
      /\ log.queries = mylog.queries /\ log.retried = mylog.retried
  BY DEF MysqlInv, MysqlTypeOK, MyLog, Answers
<1> HIDE DEF log
<1>4. Begun(my, "error", log)
  BY <1>1, <1>2, <1>3, BeginEffect DEF Answers
<1>5. /\ mylog'.ran = mylog.ran /\ mylog'.lost = mylog.lost
      /\ mylog'.rounds = mylog.rounds
      /\ mylog'.queries = mylog.queries
      /\ mylog'.retried = mylog.retried
      /\ mylog'.ret \in {"none", "error"}
  BY <1>3, <1>4 DEF Begun, MyLog
<1>6. my'.call = "none" /\ mysrv'.of = mysrv.of /\ mysrv'.rows = mysrv.rows
  BY <1>1, <1>4 DEF Begun
<1>7. MysqlTypeOK' /\ LastMade' /\ OneConnection'
  BY <1>4 DEF Begun, MysqlTypeOK
<1>8. Rounds' /\ Executions' /\ Waiting' /\ AnsweredOnce' /\ RowsOfQuery'
  <2>1. Rounds' /\ Executions'
    BY <1>6 DEF Rounds, Executions
  <2>2. Waiting'
    BY <1>5, <1>6 DEF Waiting, MysqlInv
  <2>3. AnsweredOnce'
    BY <1>5 DEF AnsweredOnce, MysqlInv
  <2>4. RowsOfQuery'
    BY <1>4, <1>5 DEF RowsOfQuery, Begun
  <2> QED BY <2>1, <2>2, <2>3, <2>4
<1> QED BY <1>7, <1>8 DEF MysqlInv

(* ct_mysql_connect.                                                       *)
LEMMA ConnectCalled ==
  ASSUME MysqlInv, ct_mysql_connect
  PROVE  MysqlInv'
<1> PICK how \in Hows :
      /\ mysrv' = _mysql_conn(mysrv, NoMsp, how).s
      /\ my' = IF _mysql_conn(mysrv, NoMsp, how).ret = 0
                 THEN [my EXCEPT !.handle = TRUE,
                                 !.msp = _mysql_conn(mysrv, NoMsp, how).msp]
                 ELSE my
  BY DEF ct_mysql_connect
<1> DEFINE c == _mysql_conn(mysrv, NoMsp, how)
<1>1. ~ my.handle /\ my.msp = NoMsp /\ mylog' = mylog
  BY DEF ct_mysql_connect, MysqlInv, OneConnection
<1>2. my.call = "none"
  BY <1>1 DEF MysqlInv, Rounds
<1>3. c.ret = 0 => c.msp \in Nat
  <2>1. mysrv \in Library /\ NoMsp \in Nat
    BY DEF MysqlInv, MysqlTypeOK, NoMsp
  <2> QED BY <2>1, NewObject, ConnResult
<1> HIDE DEF c
<1>4. /\ my' \in Handle /\ my'.call = "none"
      /\ my'.retry = my.retry
      /\ c.ret = 0 => my'.msp = c.msp /\ my'.handle
      /\ c.ret # 0 => my' = my
  BY <1>2, <1>3 DEF c, MysqlInv, MysqlTypeOK, Handle
<1>5. /\ mysrv' \in Library
      /\ mysrv'.of = mysrv.of
      /\ mysrv.rows = NoMsp /\ mysrv'.rows = NoMsp
      /\ LastMade' /\ OneConnection'
  BY <1>1, <1>4, ConnectEffect DEF c
<1>6. MysqlTypeOK'
  BY <1>1, <1>4, <1>5 DEF MysqlTypeOK, MysqlInv
<1>7. Rounds' /\ Executions'
  BY <1>4 DEF Rounds, Executions
<1>8. Waiting' /\ AnsweredOnce' /\ RowsOfQuery'
  BY <1>1, <1>2, <1>4, <1>5 DEF Waiting, AnsweredOnce, RowsOfQuery, MysqlInv
<1> QED BY <1>5, <1>6, <1>7, <1>8 DEF MysqlInv

(* The old connection is closed before a new one is made, and the handle   *)
(* forgets it if there is no new one.                                      *)
LEMMA ReopenEffect ==
  ASSUME MysqlInv, NEW how \in Hows, mysrv' = Reopened(how).s,
         Reopened(how).ret = 0 => my'.msp = Reopened(how).msp /\ my'.handle,
         Reopened(how).ret # 0 => my'.msp = NoMsp
  PROVE  /\ mysrv' \in Library
         /\ mysrv'.of = mysrv.of
         /\ mysrv'.rows = NoMsp
         /\ LastMade' /\ OneConnection'
<1> DEFINE s == Closed(mysrv, my.msp)
           c == _mysql_conn(s, my.msp, how)
           new == mysrv.made + 1
<1>1. Reopened(how) = c
  BY DEF Reopened
<1>2. /\ s \in Library
      /\ s.made = mysrv.made /\ s.of = mysrv.of
      /\ s.open = mysrv.open \ {my.msp} /\ s.up = mysrv.up \ {my.msp}
      /\ s.rows = IF mysrv.rows = my.msp THEN NoMsp ELSE mysrv.rows
      /\ s.misused <=> mysrv.misused \/ my.msp \notin mysrv.open \cup {NoMsp}
  <2>1. mysrv \in Library /\ my.msp \in Nat
    BY MysqlFields DEF MysqlInv, MysqlTypeOK
  <2> QED BY <2>1, ClosedResult
<1> HIDE DEF s
<1>3. s.rows = NoMsp
  BY <1>2 DEF MysqlInv, RowsOfQuery
<1>4. s.open = {} /\ s.up = {} /\ s.misused = FALSE
  <2>1. s.misused \in BOOLEAN
    BY <1>2 DEF Library
  <2> QED BY <1>2, <2>1 DEF MysqlInv, OneConnection, LastMade
<1>5. new \in Nat /\ new # NoMsp /\ mysrv.made \in Nat /\ my.msp \in Nat
  BY NewObject, MysqlFields
<1>6. /\ c.s \in Library
      /\ c.s.made \in Nat
      /\ c.s.of = s.of
      /\ c.s.rows = s.rows
      /\ c.s.misused <=> s.misused
      /\ c.ret = 0 => /\ c.msp = new
                      /\ c.s.made = new
                      /\ c.s.open = s.open \cup {new}
                      /\ c.s.up = s.up \cup {new}
      /\ c.ret # 0 => c.s.open = s.open /\ c.s.up = s.up
  BY <1>2, <1>3, <1>4, <1>5, ConnResult
<1> HIDE DEF c
<1>7. LastMade' /\ OneConnection'
  <2>1. CASE c.ret = 0
    <3>1. my'.msp = new /\ my'.handle
      BY <1>1, <1>6, <2>1
    <3>2. mysrv'.made = new /\ mysrv'.open = {new} /\ mysrv'.up = {new} /\ ~ mysrv'.misused
      BY <1>1, <1>4, <1>6, <2>1
    <3> QED BY <1>5, <3>1, <3>2 DEF LastMade, OneConnection
  <2>2. CASE c.ret # 0
    <3>1. my'.msp = NoMsp
      BY <1>1, <2>2
    <3>2. mysrv'.made \in Nat /\ mysrv'.open = {} /\ mysrv'.up = {} /\ ~ mysrv'.misused
      BY <1>1, <1>4, <1>6, <2>2
    <3> QED BY <3>1, <3>2 DEF LastMade, OneConnection, NoMsp
  <2> QED BY <2>1, <2>2
<1> QED BY <1>1, <1>2, <1>3, <1>6, <1>7

(* A call ends with an answer, and the rows that were waiting are gone or  *)
(* stay where they are.                                                    *)
LEMMA ReturnStep ==
  ASSUME MysqlInv, my.call # "none", NEW ret \in Answers, Return(ret),
         mysrv' = mysrv \/ mysrv' = [mysrv EXCEPT !.rows = NoMsp],
         ret = "ok" => /\ mysrv'.rows = NoMsp
                       /\ mylog.ran = 0 => ~ my.retry \/ "query" \in mylog.retried,
         ret = "rows" => /\ my.call = "store" /\ mysrv.rows # NoMsp
  PROVE  MysqlInv'
<1>1. /\ my' \in Handle /\ my'.call = "none" /\ my'.msp = my.msp
      /\ my'.handle = my.handle /\ my'.retry = my.retry
  BY DEF Return, MysqlInv, MysqlTypeOK, Handle
<1>2. /\ mylog' \in MyLog /\ mylog'.ret = ret
      /\ mylog'.rounds = mylog.rounds + 1
      /\ mylog'.ran = mylog.ran /\ mylog'.lost = mylog.lost
      /\ mylog'.queries = mylog.queries /\ mylog'.retried = mylog.retried
  <2>1. mylog \in MyLog /\ mylog.rounds + 1 \in Nat
    BY MysqlFields DEF MysqlInv, MysqlTypeOK
  <2> QED BY <2>1 DEF Return, MyLog
<1>3. /\ mysrv' \in Library /\ mysrv'.made = mysrv.made
      /\ mysrv'.open = mysrv.open /\ mysrv'.up = mysrv.up
      /\ mysrv'.of = mysrv.of /\ mysrv'.misused = mysrv.misused
      /\ mysrv'.rows \in {mysrv.rows, NoMsp}
  BY DEF MysqlInv, MysqlTypeOK, Library, NoMsp
<1>4. MysqlTypeOK' /\ LastMade' /\ OneConnection'
  BY <1>1, <1>2, <1>3 DEF MysqlInv, MysqlTypeOK, LastMade, OneConnection
<1>5. Rounds' /\ Executions'
  BY <1>1 DEF Rounds, Executions
<1>6. Waiting'
  BY <1>1, <1>2, <1>3 DEF MysqlInv, Waiting
<1>7. AnsweredOnce'
  <2>1. mylog.rounds <= 1
    BY DEF MysqlInv, Rounds
  <2> QED BY <1>1, <1>2, <2>1, MysqlFields DEF MysqlInv, AnsweredOnce
<1>8. RowsOfQuery'
  <2>1. ret = "rows" => /\ "store" \notin mylog.retried
                        /\ mysrv.of = mylog.queries => mylog.ran >= 1
                        /\ mysrv.of # mylog.queries => mylog.ran = 0
    BY DEF MysqlInv, Waiting
  <2> QED BY <1>1, <1>2, <1>3, <2>1 DEF MysqlInv, RowsOfQuery
<1> QED BY <1>4, <1>5, <1>6, <1>7, <1>8 DEF MysqlInv

(* A lost connection, in a query or in the fetch of its rows.              *)
LEMMA ReconnectStep ==
  ASSUME MysqlInv, my.call # "none", ~ Connected, NEW last \in {"ok", "null"},
         last = "ok" => my.call = "query", Reconnect(last)
  PROVE  MysqlInv'
<1>1. CASE (~ my.retry \/ my.flag) /\ Return(last) /\ mysrv' = [mysrv EXCEPT !.rows = NoMsp]
  <2>1. mysrv'.rows = NoMsp
    BY <1>1 DEF MysqlInv, MysqlTypeOK, Library
  <2>2. last = "ok" => ~ my.retry \/ "query" \in mylog.retried
    BY <1>1 DEF MysqlInv, Rounds
  <2> QED BY <1>1, <2>1, <2>2, ReturnStep DEF Answers
<1>2. ASSUME my.retry, ~ my.flag, NEW how \in Hows,
             mysrv' = Reopened(how).s,
             my' = IF Reopened(how).ret = 0
                     THEN [my EXCEPT !.msp = Reopened(how).msp, !.flag = TRUE]
                     ELSE [my EXCEPT !.msp = NoMsp, !.call = "none"],
             mylog' = [mylog EXCEPT !.rounds = @ + 1, !.retried = @ \cup {my.call},
                         !.ret = IF Reopened(how).ret = 0 THEN "none"
                                 ELSE IF my.call = "query" THEN "error" ELSE "null"]
      PROVE  MysqlInv'
  <2> DEFINE c == Reopened(how)
             ret == IF c.ret = 0 THEN "none"
                    ELSE IF my.call = "query" THEN "error" ELSE "null"
  <2>1. c.ret = 0 => c.msp \in Nat
    <3>1. Closed(mysrv, my.msp) \in Library
      BY MysqlFields, ClosedResult DEF MysqlInv, MysqlTypeOK
    <3>2. \A s \in Library : _mysql_conn(s, my.msp, how).ret = 0
                                => _mysql_conn(s, my.msp, how).msp \in Nat
      <4> TAKE s \in Library
      <4>1. s.made + 1 \in Nat
        BY DEF Library
      <4> QED BY <4>1 DEF _mysql_conn, Hows
    <3> QED BY <3>1, <3>2 DEF Reopened
  <2>2. mylog.rounds = 0 /\ my.handle
    BY <1>2 DEF MysqlInv, Rounds
  <2>3. /\ mylog' \in MyLog /\ mylog'.ret = ret /\ mylog'.rounds = 1
        /\ mylog'.ran = mylog.ran /\ mylog'.lost = mylog.lost
        /\ mylog'.queries = mylog.queries
        /\ mylog'.retried = mylog.retried \cup {my.call}
    <3>1. mylog' = [mylog EXCEPT !.rounds = @ + 1, !.retried = @ \cup {my.call}, !.ret = ret]
      BY <1>2
    <3>2. ret \in Answers /\ my.call \in {"query", "store"}
      BY MysqlFields DEF Answers
    <3>3. mylog \in MyLog /\ mylog.rounds + 1 = 1
      BY <2>2 DEF MysqlInv, MysqlTypeOK
    <3> HIDE DEF ret
    <3>4. mylog' = [mylog EXCEPT !.rounds = 1, !.retried = mylog.retried \cup {my.call},
                                 !.ret = ret]
      BY <3>1, <3>3
    <3>5. mylog.retried \cup {my.call} \in SUBSET {"query", "store"}
      BY <3>2, <3>3 DEF MyLog
    <3> QED BY <3>2, <3>3, <3>4, <3>5 DEF MyLog
  <2> HIDE DEF c
  <2>4. /\ my' \in Handle /\ my'.handle /\ my'.retry = my.retry
        /\ c.ret = 0 => my'.msp = c.msp /\ my'.flag /\ my'.call = my.call
        /\ c.ret # 0 => my'.msp = NoMsp /\ my'.call = "none"
    BY <1>2, <2>1, <2>2 DEF MysqlInv, MysqlTypeOK, Handle, NoMsp, c
  <2>5. /\ mysrv' \in Library
        /\ mysrv'.of = mysrv.of
        /\ mysrv'.rows = NoMsp
        /\ LastMade' /\ OneConnection'
    BY <1>2, <2>4, ReopenEffect DEF c
  <2>6. MysqlTypeOK'
    BY <2>3, <2>4, <2>5 DEF MysqlTypeOK
  <2>7. Rounds'
    BY <1>2, <2>3, <2>4 DEF Rounds
  <2>8. Executions'
    BY <1>2, <2>3, <2>4, MysqlFields DEF Executions, MysqlInv
  <2>9. Waiting'
    BY <2>3, <2>4, <2>5 DEF Waiting, MysqlInv
  <2>10. AnsweredOnce'
    BY <2>3 DEF AnsweredOnce, MysqlInv
  <2>11. RowsOfQuery'
    BY <2>3, <2>5 DEF RowsOfQuery
  <2> QED BY <2>5, <2>6, <2>7, <2>8, <2>9, <2>10, <2>11 DEF MysqlInv
<1> QED BY <1>1, <1>2 DEF Reconnect

(* The statement is executed, and its reply arrives.                       *)
LEMMA RunsStep ==
  ASSUME MysqlInv, QueryRuns
  PROVE  MysqlInv'
<1> PICK rows \in {NoMsp, my.msp} :
      mysrv' = [mysrv EXCEPT !.rows = rows, !.of = mylog.queries]
  BY DEF QueryRuns
<1>1. my.call = "query" /\ Connected /\ mysrv.rows = NoMsp
  BY DEF QueryRuns, Querying
<1>2. /\ my' \in Handle /\ my'.call = "none" /\ my'.msp = my.msp
      /\ my'.handle = my.handle /\ my'.retry = my.retry
  BY DEF QueryRuns, MysqlInv, MysqlTypeOK, Handle
<1>3. /\ mylog' \in MyLog /\ mylog'.ret = "ok"
      /\ mylog'.rounds = mylog.rounds + 1
      /\ mylog'.ran = mylog.ran + 1 /\ mylog'.lost = mylog.lost
      /\ mylog'.queries = mylog.queries /\ mylog'.retried = mylog.retried
  <2>1. mylog \in MyLog /\ mylog.rounds + 1 \in Nat /\ mylog.ran + 1 \in Nat
    BY MysqlFields DEF MysqlInv, MysqlTypeOK
  <2> QED BY <2>1 DEF QueryRuns, MyLog, Answers
<1>4. /\ mysrv' \in Library /\ mysrv'.made = mysrv.made
      /\ mysrv'.open = mysrv.open /\ mysrv'.up = mysrv.up
      /\ mysrv'.of = mylog.queries /\ mysrv'.misused = mysrv.misused
      /\ mysrv'.rows \in {NoMsp, my.msp}
  <2>1. mysrv \in Library /\ rows \in Nat /\ mylog.queries \in Nat
    BY MysqlFields DEF MysqlInv, MysqlTypeOK, NoMsp
  <2> QED BY <2>1 DEF Library
<1>5. MysqlTypeOK' /\ LastMade' /\ OneConnection'
  BY <1>2, <1>3, <1>4 DEF MysqlInv, MysqlTypeOK, LastMade, OneConnection
<1>6. Rounds' /\ Executions'
  BY <1>2 DEF Rounds, Executions
<1>7. Waiting'
  BY <1>2, <1>3, <1>4, MysqlFields DEF Waiting
<1>8. AnsweredOnce'
  <2>1. mylog.rounds <= 1 /\ mylog.ran = mylog.lost /\ mylog.ran <= 1
    BY <1>1, MysqlFields DEF MysqlInv, Rounds, Executions
  <2>2. mylog.ran = 1 => "query" \in mylog.retried
    BY <1>1, MysqlFields DEF MysqlInv, Rounds, Executions
  <2> QED BY <1>2, <1>3, <2>1, <2>2, MysqlFields DEF AnsweredOnce
<1>9. RowsOfQuery'
  BY <1>2, <1>3, <1>4 DEF RowsOfQuery
<1> QED BY <1>5, <1>6, <1>7, <1>8, <1>9 DEF MysqlInv

(* The connections are lost; with the reply of a statement, or between two *)
(* calls.                                                                  *)
LEMMA LossStep ==
  ASSUME MysqlInv, ServerGone \/ QueryLost
  PROVE  MysqlInv'
<1>1. my' = my /\ mysrv' = [mysrv EXCEPT !.up = {}]
  BY DEF ServerGone, QueryLost
<1>2. /\ mysrv' \in Library /\ mysrv'.made = mysrv.made
      /\ mysrv'.open = mysrv.open /\ mysrv'.up = {}
      /\ mysrv'.of = mysrv.of /\ mysrv'.misused = mysrv.misused
      /\ mysrv'.rows = mysrv.rows
  BY <1>1 DEF MysqlInv, MysqlTypeOK, Library
<1>3. LastMade' /\ OneConnection' /\ ~ Connected'
  BY <1>1, <1>2 DEF MysqlInv, LastMade, OneConnection, Connected
<1>4. CASE ServerGone
  <2>1. mylog' = mylog
    BY <1>4 DEF ServerGone
  <2>2. MysqlTypeOK' /\ Rounds' /\ Waiting' /\ AnsweredOnce' /\ RowsOfQuery'
    BY <1>1, <1>2, <2>1
       DEF MysqlInv, MysqlTypeOK, Rounds, Waiting, AnsweredOnce, RowsOfQuery
  <2>3. Executions'
    BY <1>1, <1>3, <2>1, MysqlFields DEF MysqlInv, Executions
  <2> QED BY <1>3, <2>2, <2>3 DEF MysqlInv
<1>5. CASE QueryLost
  <2>1. my.call = "query" /\ Connected /\ mysrv.rows = NoMsp
    BY <1>5 DEF QueryLost, Querying
  <2>2. /\ mylog' \in MyLog /\ mylog'.ret = mylog.ret
        /\ mylog'.rounds = mylog.rounds
        /\ mylog'.ran = mylog.ran + 1 /\ mylog'.lost = mylog.lost + 1
        /\ mylog'.queries = mylog.queries /\ mylog'.retried = mylog.retried
    <3>1. mylog \in MyLog /\ mylog.lost + 1 \in Nat /\ mylog.ran + 1 \in Nat
      BY MysqlFields DEF MysqlInv, MysqlTypeOK
    <3> QED BY <1>5, <3>1 DEF QueryLost, MyLog, Answers
  <2>3. MysqlTypeOK' /\ Rounds'
    BY <1>1, <1>2, <2>2 DEF MysqlInv, MysqlTypeOK, Rounds
  <2>4. mylog.ran = mylog.lost /\ (mylog.ran <= IF my.flag THEN 1 ELSE 0)
    BY <2>1 DEF MysqlInv, Executions
  <2>5. Executions'
    BY <1>1, <1>3, <2>2, <2>4, MysqlFields DEF Executions
  <2>6. Waiting'
    BY <1>1, <1>2, <2>1, <2>2, MysqlFields DEF MysqlInv, Waiting
  <2>7. AnsweredOnce'
    <3>1. mylog.ran = 1 => "query" \in mylog.retried
      BY <2>1, <2>4 DEF MysqlInv, Rounds
    <3>2. mylog.ran \in {0, 1}
      BY <2>4, MysqlFields
    <3> QED BY <1>1, <2>1, <2>2, <2>4, <3>1, <3>2 DEF MysqlInv, AnsweredOnce
  <2>8. RowsOfQuery'
    <3>1. mylog.ret = "none"
      BY <2>1 DEF MysqlInv, Rounds
    <3> QED BY <1>2, <2>1, <2>2, <3>1 DEF RowsOfQuery
  <2> QED BY <1>3, <2>3, <2>5, <2>6, <2>7, <2>8 DEF MysqlInv
<1> QED BY <1>4, <1>5

(* A statement that is refused, and the ends of a fetch of rows.           *)
LEMMA AnswerStep ==
  ASSUME MysqlInv, QueryFails \/ StoreRows \/ StoreNothing
  PROVE  MysqlInv'
<1>1. CASE QueryFails
  BY <1>1, ReturnStep DEF QueryFails, Querying, Answers
<1>2. CASE StoreRows
  <2>1. my.call = "store" /\ mysrv.rows = my.msp /\ Connected
    BY <1>2 DEF StoreRows, Storing
  <2>2. mysrv.rows # NoMsp
    <3>1. my.msp \in mysrv.open
      BY <2>1 DEF Connected, MysqlInv, LastMade
    <3> QED BY <2>1, <3>1 DEF MysqlInv, OneConnection
  <2> QED BY <1>2, <2>1, <2>2, ReturnStep DEF StoreRows, Answers
<1>3. CASE StoreNothing
  BY <1>3, ReturnStep DEF StoreNothing, Storing, Answers
<1> QED BY <1>1, <1>2, <1>3

(* ct_mysql_disconnect.                                                    *)
LEMMA DisconnectStep ==
  ASSUME MysqlInv, ct_mysql_disconnect
  PROVE  MysqlInv'
<1>1. my.call = "none" /\ mysrv' = Closed(mysrv, my.msp)
  BY DEF ct_mysql_disconnect, Idle
<1>2. /\ mysrv' \in Library
      /\ mysrv'.made = mysrv.made /\ mysrv'.of = mysrv.of
      /\ mysrv'.open = mysrv.open \ {my.msp} /\ mysrv'.up = mysrv.up \ {my.msp}
      /\ mysrv'.rows = IF mysrv.rows = my.msp THEN NoMsp ELSE mysrv.rows
      /\ mysrv'.misused <=> mysrv.misused \/ my.msp \notin mysrv.open \cup {NoMsp}
  <2>1. mysrv \in Library /\ my.msp \in Nat
    BY MysqlFields DEF MysqlInv, MysqlTypeOK
  <2> QED BY <1>1, <2>1, ClosedResult
<1>3. mysrv'.rows = NoMsp
  BY <1>2 DEF MysqlInv, RowsOfQuery
<1>4. /\ my' \in Handle /\ ~ my'.handle /\ my'.msp = NoMsp /\ my'.call = "none"
  BY <1>1 DEF ct_mysql_disconnect, MysqlInv, MysqlTypeOK, Handle, NoMsp
<1>5. /\ mylog' \in MyLog /\ mylog'.ret = "none" /\ mylog'.ran = 0
      /\ mylog'.rounds = mylog.rounds /\ mylog'.lost = mylog.lost
      /\ mylog'.queries = mylog.queries /\ mylog'.retried = mylog.retried
  BY DEF ct_mysql_disconnect, MysqlInv, MysqlTypeOK, MyLog, Answers
<1>6. MysqlTypeOK'
  BY <1>2, <1>4, <1>5 DEF MysqlTypeOK
<1>7. LastMade' /\ OneConnection'
  BY <1>2, <1>4, MysqlFields DEF MysqlInv, LastMade, OneConnection, NoMsp
<1>8. Rounds' /\ Executions'
  BY <1>4 DEF Rounds, Executions
<1>9. Waiting' /\ AnsweredOnce' /\ RowsOfQuery'
  BY <1>2, <1>3, <1>4, <1>5, MysqlFields DEF MysqlInv, Waiting, AnsweredOnce, RowsOfQuery
<1> QED BY <1>6, <1>7, <1>8, <1>9 DEF MysqlInv

(* The invariant of the MySQL wrapper is inductive.                        *)
THEOREM MysqlInvariance == MysqlSpec => []MysqlInv
<1>1. MysqlInit => MysqlInv
  BY DEF MysqlInit, MysqlInv, MysqlTypeOK, Handle, Library, MyLog, Answers, LastMade,
         Rounds, Executions, Waiting, OneConnection, AnsweredOnce, RowsOfQuery, NoMsp
<1>2. ASSUME MysqlInv, MysqlNext PROVE MysqlInv'
  <2>1. CASE \E retry \in BOOLEAN : ct_mysql_query(retry) \/ ct_mysql_store_result(retry)
    BY <1>2, <2>1, QueryCalled, StoreCalled
  <2>2. CASE QueryGone
    BY <1>2, <2>2, ReconnectStep DEF QueryGone, Querying
  <2>3. CASE StoreGone
    BY <1>2, <2>3, ReconnectStep DEF StoreGone, Storing
  <2> QED BY <1>2, <2>1, <2>2, <2>3, ConnectCalled, OptionsCalled, LossStep, RunsStep,
             AnswerStep, DisconnectStep DEF MysqlNext
<1>3. ASSUME MysqlInv, UNCHANGED mysqlVars PROVE MysqlInv'
  BY <1>3 DEF mysqlVars, MysqlInv, MysqlTypeOK, LastMade, Rounds, Executions, Waiting,
              OneConnection, AnsweredOnce, RowsOfQuery, Connected
<1> QED BY <1>1, <1>2, <1>3, PTL DEF MysqlSpec

(* However often the connection is lost, and whatever of a reconnection    *)
(* fails: the MYSQL object of the handle is the only one that is open and  *)
(* none is closed twice, a statement is executed at most twice and at most *)
(* once without a retry, and rows are never passed off for another         *)
(* statement's (ct_mysql_query, ct_mysql_store_result).  For any number of *)
(* connections and statements.                                             *)
THEOREM RetriesAreSound == MysqlSpec => []RetryIsSound
<1>1. MysqlInv => RetryIsSound
  BY DEF MysqlInv, RetryIsSound
<1> QED BY <1>1, MysqlInvariance, PTL
-----------------------------------------------------------------------------
(* ctapi_mc.c.                                                             *)

McSpec == McInit /\ [][McNext]_mcVars

(* Every key has an entry on the server and in what its caller knows, and  *)
(* a request that may still take effect is about a key.                    *)
McTypeOK ==
  /\ mcsrv = [k \in McKeys |-> mcsrv[k]]
  /\ mclog = [known |-> [k \in McKeys |-> mclog.known[k]], fn |-> mclog.fn,
              key |-> mclog.key, ret |-> mclog.ret, result |-> mclog.result,
              reached |-> mclog.reached]
  /\ \A r \in mclate : r[1] \in McKeys
  /\ mclog.fn # "none" => mclog.key \in McKeys

McInv ==
  /\ McTypeOK
  /\ McKnown
  /\ McAnswers

(* A value that is shorter than what a char counts is sent as it is.       *)
LEMMA SentWhole ==
  ASSUME NEW v \in McValues, Len(v) < CharHalf
  PROVE  SubSeq(v, 1, AsChar(Len(v))) = v
<1> DEFINE S == {v[i] : i \in DOMAIN v}
<1>1. v \in Seq(S)
  BY McAssumption
<1> HIDE DEF S
<1>2. Len(v) \in Nat
  BY <1>1
<1>3. Len(v) % (2 * CharHalf) = Len(v)
  BY <1>2, McAssumption
<1>4. AsChar(Len(v)) = Len(v)
  BY <1>2, <1>3, McAssumption DEF AsChar
<1> QED BY <1>1, <1>4

(* What a caller knows of the keys, once it is told known about k.         *)
LEMMA KnownEffect ==
  ASSUME McInv, NEW k \in McKeys, NEW known, NEW f, f = [mclog.known EXCEPT ![k] = known]
  PROVE  /\ f[k] = known
         /\ \A j \in McKeys \ {k} : f[j] = mclog.known[j]
         /\ f = [j \in McKeys |-> f[j]]
<1> DEFINE K == [j \in McKeys |-> mclog.known[j]]
<1>1. mclog.known = K
  BY DEF McInv, McTypeOK
<1>2. f = [j \in McKeys |-> IF j = k THEN known ELSE mclog.known[j]]
  BY <1>1
<1> QED BY <1>2

(* A call that reached no server, or was given up, tells nothing new.      *)
LEMMA Silent ==
  ASSUME McInv, NEW fn \in {"set", "get", "delete"}, NEW k \in McKeys, NEW ret \in 0 .. 3,
         mclog' = [known |-> [mclog.known EXCEPT ![k] = mclog.known[k]], fn |-> fn,
                   key |-> k, ret |-> ret, result |-> Missing, reached |-> FALSE],
         ret # 1 \/ fn = "delete", fn = "get" => ret # 0, mcsrv' = mcsrv,
         \A r \in mclate' : r[1] \in McKeys
  PROVE  McInv'
<1>1. /\ mclog'.known = [mclog.known EXCEPT ![k] = mclog.known[k]]
      /\ mclog'.fn = fn /\ mclog'.key = k /\ mclog'.ret = ret
      /\ ~ mclog'.reached
      /\ mclog' = [known |-> mclog'.known, fn |-> fn, key |-> k, ret |-> ret,
                   result |-> Missing, reached |-> FALSE]
  OBVIOUS
<1>2. /\ mclog'.known = [j \in McKeys |-> mclog'.known[j]]
      /\ \A j \in McKeys : mclog'.known[j] = mclog.known[j]
  BY <1>1, KnownEffect
<1>3. McTypeOK'
  BY <1>1, <1>2 DEF McInv, McTypeOK
<1>4. McKnown'
  BY <1>2 DEF McInv, McKnown
<1>5. McAnswers'
  BY <1>1 DEF McAnswers
<1> QED BY <1>3, <1>4, <1>5 DEF McInv

(* The same, by the two ways a call may end like that.                     *)
LEMMA Unanswered ==
  ASSUME McInv, NEW fn \in {"set", "get", "delete"}, NEW k \in McKeys, NEW ret \in 0 .. 3,
         ret # 1 \/ fn = "delete", fn = "get" => ret # 0,
         NEW reqs, \A r \in reqs : r[1] \in McKeys,
         NoServer(fn, k, ret) \/ Lost(fn, k, ret, reqs)
  PROVE  McInv'
<1>1. /\ mclog' = [known |-> [mclog.known EXCEPT ![k] = mclog.known[k]], fn |-> fn,
                   key |-> k, ret |-> ret, result |-> Missing, reached |-> FALSE]
      /\ mcsrv' = mcsrv
  BY DEF NoServer, Lost, Answer
<1>2. \A r \in mclate' : r[1] \in McKeys
  BY DEF NoServer, Lost, McInv, McTypeOK
<1> QED BY <1>1, <1>2, Silent

(* set_mc.                                                                 *)
LEMMA SetStep ==
  ASSUME McInv, NEW k \in McKeys, NEW v \in McValues, set_mc(k, v)
  PROVE  McInv'
<1> DEFINE len == AsChar(Len(v))
           sent == SubSeq(v, 1, len)
           reqs == IF len >= 0 THEN {<<k, sent>>} ELSE {}
<1>1. CASE \E ret \in {2, 3} : NoServer("set", k, ret) \/ Lost("set", k, ret, reqs)
  <2>1. \A r \in reqs : r[1] \in McKeys
    OBVIOUS
  <2> HIDE DEF reqs
  <2> QED BY <1>1, <2>1, Unanswered
<1>3. CASE /\ mcsrv' = [mcsrv EXCEPT ![k] = sent]
           /\ Answer("set", k, Code("SUCCESS"), Missing, v, TRUE)
           /\ UNCHANGED mclate
  <2>1. Code("SUCCESS") = 0
    BY DEF Code
  <2>1a. mclog' = [known |-> [mclog.known EXCEPT ![k] = v], fn |-> "set", key |-> k,
                   ret |-> 0, result |-> Missing, reached |-> TRUE]
    BY <1>3, <2>1 DEF Answer
  <2>2. /\ mclog'.known = [mclog.known EXCEPT ![k] = v]
        /\ mclog'.fn = "set" /\ mclog'.key = k /\ mclog'.ret = 0
        /\ mclog' = [known |-> mclog'.known, fn |-> "set", key |-> k, ret |-> 0,
                     result |-> Missing, reached |-> TRUE]
    BY <2>1a
  <2>2a. /\ mclog'.known = [j \in McKeys |-> mclog'.known[j]]
         /\ mclog'.known[k] = v
         /\ \A j \in McKeys \ {k} : mclog'.known[j] = mclog.known[j]
    BY <2>2, KnownEffect
  <2>3. /\ mcsrv' = [j \in McKeys |-> mcsrv'[j]]
        /\ mcsrv'[k] = sent
        /\ \A j \in McKeys \ {k} : mcsrv'[j] = mcsrv[j]
    BY <1>3 DEF McInv, McTypeOK
  <2>4. Len(v) < CharHalf => sent = v
    BY SentWhole
  <2>5. McTypeOK'
    BY <1>3, <2>2, <2>2a, <2>3 DEF McInv, McTypeOK
  <2> HIDE DEF sent
  <2>6. McKnown'
    BY <2>2a, <2>3, <2>4 DEF McInv, McKnown
  <2>7. McAnswers'
    BY <2>2 DEF McAnswers
  <2> QED BY <2>5, <2>6, <2>7 DEF McInv
<1> QED BY <1>1, <1>3 DEF set_mc, Code

(* get_mc.                                                                 *)
LEMMA GetStep ==
  ASSUME McInv, NEW k \in McKeys, get_mc(k)
  PROVE  McInv'
<1>1. CASE \E ret \in {2, 3} : NoServer("get", k, ret) \/ Lost("get", k, ret, {})
  BY <1>1, Unanswered
<1>3. CASE /\ Answer("get", k, Code(IF mcsrv[k] = Missing THEN "NOTFOUND" ELSE "SUCCESS"),
                     mcsrv[k], mclog.known[k], TRUE)
           /\ UNCHANGED <<mcsrv, mclate>>
  <2> DEFINE ret == IF mcsrv[k] = Missing THEN 1 ELSE 0
  <2>1. Code(IF mcsrv[k] = Missing THEN "NOTFOUND" ELSE "SUCCESS") = ret
    BY DEF Code
  <2>1a. mclog' = [known |-> [mclog.known EXCEPT ![k] = mclog.known[k]], fn |-> "get",
                   key |-> k, ret |-> ret, result |-> mcsrv[k], reached |-> TRUE]
    BY <1>3, <2>1 DEF Answer
  <2>2. /\ mclog'.known = [mclog.known EXCEPT ![k] = mclog.known[k]]
        /\ mclog'.fn = "get" /\ mclog'.key = k /\ mclog'.ret = ret
        /\ mclog'.result = mcsrv[k]
        /\ mclog' = [known |-> mclog'.known, fn |-> "get", key |-> k, ret |-> ret,
                     result |-> mcsrv[k], reached |-> TRUE]
    <3> HIDE DEF ret
    <3> QED BY <2>1a
  <2>2a. /\ mclog'.known = [j \in McKeys |-> mclog'.known[j]]
         /\ \A j \in McKeys : mclog'.known[j] = mclog.known[j]
    BY <2>2, KnownEffect
  <2>3. McTypeOK'
    BY <1>3, <2>2, <2>2a DEF McInv, McTypeOK
  <2>4. McKnown'
    BY <1>3, <2>2a DEF McInv, McKnown
  <2>5. McAnswers'
    BY <1>3, <2>2, <2>2a DEF McInv, McAnswers, McKnown
  <2> QED BY <2>3, <2>4, <2>5 DEF McInv
<1> QED BY <1>1, <1>3 DEF get_mc, Code

(* delete_mc.                                                              *)
LEMMA DeleteStep ==
  ASSUME McInv, NEW k \in McKeys, delete_mc(k)
  PROVE  McInv'
<1> DEFINE reqs == {<<k, Missing>>}
<1>1. CASE \E ret \in {1, 2} : NoServer("delete", k, ret) \/ Lost("delete", k, ret, reqs)
  <2>1. \A r \in reqs : r[1] \in McKeys
    OBVIOUS
  <2> HIDE DEF reqs
  <2> QED BY <1>1, <2>1, Unanswered
<1>3. CASE /\ mcsrv' = [mcsrv EXCEPT ![k] = Missing]
           /\ Answer("delete", k,
                     DeleteCode(IF mcsrv[k] = Missing THEN "NOTFOUND" ELSE "SUCCESS"),
                     Missing, Missing, TRUE)
           /\ UNCHANGED mclate
  <2> DEFINE ret == DeleteCode(IF mcsrv[k] = Missing THEN "NOTFOUND" ELSE "SUCCESS")
  <2> HIDE DEF ret
  <2>0. mclog' = [known |-> [mclog.known EXCEPT ![k] = Missing], fn |-> "delete",
                  key |-> k, ret |-> ret, result |-> Missing, reached |-> TRUE]
    BY <1>3 DEF Answer, ret
  <2>1. /\ mclog'.known = [mclog.known EXCEPT ![k] = Missing]
        /\ mclog'.fn = "delete" /\ mclog'.key = k
        /\ mclog' = [known |-> mclog'.known, fn |-> "delete", key |-> k, ret |-> ret,
                     result |-> Missing, reached |-> TRUE]
    BY <2>0
  <2>1a. /\ mclog'.known = [j \in McKeys |-> mclog'.known[j]]
         /\ mclog'.known[k] = Missing
         /\ \A j \in McKeys \ {k} : mclog'.known[j] = mclog.known[j]
    BY <2>1, KnownEffect
  <2>2. /\ mcsrv' = [j \in McKeys |-> mcsrv'[j]]
        /\ mcsrv'[k] = Missing
        /\ \A j \in McKeys \ {k} : mcsrv'[j] = mcsrv[j]
    BY <1>3 DEF McInv, McTypeOK
  <2>3. McTypeOK'
    BY <1>3, <2>1, <2>1a, <2>2 DEF McInv, McTypeOK
  <2>4. McKnown'
    BY <2>1a, <2>2 DEF McInv, McKnown
  <2>5. McAnswers'
    BY <2>1, <2>2 DEF McAnswers
  <2> QED BY <2>3, <2>4, <2>5 DEF McInv
<1> QED BY <1>1, <1>3 DEF delete_mc, DeleteCode

(* The server acts alone: it drops a value, or gets to a late request.     *)
LEMMA ServerStep ==
  ASSUME McInv, Late \/ \E k \in McKeys : Drop(k)
  PROVE  McInv'
<1>1. CASE \E k \in McKeys : Drop(k)
  <2> PICK k \in McKeys : Drop(k)
    BY <1>1
  <2>1. /\ mcsrv' = [j \in McKeys |-> mcsrv'[j]]
        /\ mcsrv'[k] = Missing
        /\ \A j \in McKeys \ {k} : mcsrv'[j] = mcsrv[j]
        /\ mclate' = mclate /\ mclog' = mclog
    BY DEF Drop, McInv, McTypeOK
  <2>2. McTypeOK' /\ McKnown'
    BY <2>1 DEF McInv, McTypeOK, McKnown
  <2>3. McAnswers'
    BY <2>1 DEF McInv, McTypeOK, McAnswers
  <2> QED BY <2>2, <2>3 DEF McInv
<1>2. CASE Late
  <2> PICK r \in mclate : /\ mcsrv' = [mcsrv EXCEPT ![r[1]] = r[2]]
                          /\ mclog' = [mclog EXCEPT !.known[r[1]] = Unknown, !.fn = "none"]
    BY <1>2 DEF Late
  <2>1. r[1] \in McKeys /\ mclate' = {}
    BY <1>2 DEF Late, McInv, McTypeOK
  <2>2. /\ mcsrv' = [j \in McKeys |-> mcsrv'[j]]
        /\ \A j \in McKeys \ {r[1]} : mcsrv'[j] = mcsrv[j]
    BY DEF McInv, McTypeOK
  <2>3. mclog' = [known |-> [mclog.known EXCEPT ![r[1]] = Unknown], fn |-> "none",
                  key |-> mclog.key, ret |-> mclog.ret, result |-> mclog.result,
                  reached |-> mclog.reached]
    BY DEF McInv, McTypeOK
  <2>4. /\ mclog'.known = [mclog.known EXCEPT ![r[1]] = Unknown]
        /\ mclog'.fn = "none"
    BY <2>3
  <2>5. mclog.known = [j \in McKeys |-> mclog.known[j]]
    BY DEF McInv, McTypeOK
  <2>6. /\ mclog'.known[r[1]] = Unknown
        /\ \A j \in McKeys \ {r[1]} : mclog'.known[j] = mclog.known[j]
        /\ mclog'.known = [j \in McKeys |-> mclog'.known[j]]
    BY <2>1, <2>4, <2>5
  <2>7. McTypeOK'
    BY <2>1, <2>2, <2>3, <2>6 DEF McTypeOK
  <2>8. McKnown'
    BY <2>2, <2>6 DEF McInv, McKnown
  <2>9. McAnswers'
    BY <2>4 DEF McAnswers
  <2> QED BY <2>7, <2>8, <2>9 DEF McInv
<1> QED BY <1>1, <1>2

(* The answers of set_mc, get_mc and delete_mc are honest: what a caller   *)
(* was told stays true until the server drops a value or a request that    *)
(* was given up takes effect, for any keys and values, a value that a char *)
(* cannot count excepted.                                                  *)
THEOREM AnswersHonest == McSpec => []McHonest
<1>1. ASSUME McInit PROVE McInv
  <2> DEFINE K == [k \in McKeys |-> Unknown]
             S == [k \in McKeys |-> Missing]
  <2>1. /\ mclog = [known |-> K, fn |-> "none", key |-> "none", ret |-> 0,
                    result |-> Missing, reached |-> FALSE]
        /\ mcsrv = S /\ mclate = {}
    BY <1>1 DEF McInit
  <2>2. \A k \in McKeys : K[k] = Unknown /\ S[k] = Missing
    OBVIOUS
  <2>3. K = [k \in McKeys |-> K[k]] /\ S = [k \in McKeys |-> S[k]]
    OBVIOUS
  <2> HIDE DEF K, S
  <2>4. mclog.known = K /\ mclog.fn = "none"
    BY <2>1
  <2> QED BY <2>1, <2>2, <2>3, <2>4 DEF McInv, McTypeOK, McKnown, McAnswers
<1>2. ASSUME McInv, [McNext]_mcVars PROVE McInv'
  <2>1. CASE McNext
    BY <1>2, <2>1, SetStep, GetStep, DeleteStep, ServerStep DEF McNext
  <2>2. CASE UNCHANGED mcVars
    BY <1>2, <2>2 DEF mcVars, McInv, McTypeOK, McKnown, McAnswers
  <2> QED BY <1>2, <2>1, <2>2
<1>3. McInv => McHonest
  BY DEF McInv, McHonest
<1> QED BY <1>1, <1>2, <1>3, PTL DEF McSpec
-----------------------------------------------------------------------------
(* ctapi_curl.c.                                                           *)

CurlSpec == CurlInit /\ [][CurlNext]_curlVars

CurlByte == UNION {{c[i] : i \in DOMAIN c} : c \in Chunks}

Str == [alloc : BOOLEAN, text : Seq(CurlByte), len : Nat, size : Nat]

Result == [headers : Str, data : Str]

Request == {"GET", "POST"} \X (PostData \cup {NoData, Stdin, Reused})

CurlHandle == [open : BOOLEAN, post : BOOLEAN, fields : PostData \cup {NoData},
               busy : BOOLEAN, cut : BOOLEAN]

CurlLog == [heap : Int, got : Result, given : Nat, calls : Nat, posted : BOOLEAN, ret : Int,
            ok : BOOLEAN, asked : Request, sent : Request, dropped : Nat]

CurlTypeOK ==
  /\ curl \in CurlHandle
  /\ cres \in Result
  /\ clog \in CurlLog

(* A transfer that runs has not been answered.                             *)
NotAnswered == curl.busy => clog.ret = -1

(* What a handle keeps of earlier requests was put there by a POST.        *)
OptionsOfPost ==
  curl.post \/ curl.fields # NoData => clog.posted \/ clog.asked[1] = "POST"

(* A transfer that goes on has lost nothing yet.                           *)
NothingLost ==
  /\ Taken <= clog.given
  /\ curl.busy /\ ~ curl.cut => Taken = clog.given

CurlInv ==
  /\ CurlTypeOK
  /\ NothingLost
  /\ NotAnswered
  /\ OptionsOfPost
  /\ CurlText
  /\ CurlOwned
  /\ CurlAnswer
  /\ SentAsAsked

(* The elements of a sequence decide which sequences it belongs to.        *)
LEMMA SeqOfOther ==
  ASSUME NEW S, NEW c \in Seq(S), NEW T, \A i \in DOMAIN c : c[i] \in T
  PROVE  c \in Seq(T)
<1>1. PICK n \in Nat : c \in [1 .. n -> S]
  BY SeqDef
<1>2. c \in [1 .. n -> T]
  BY <1>1
<1> QED BY <1>2, SeqDef

(* The pieces are sequences of bytes.                                      *)
LEMMA ChunkIsText ==
  ASSUME NEW c \in Chunks
  PROVE  c \in Seq(CurlByte)
<1> DEFINE S == {c[i] : i \in DOMAIN c}
<1>1. c \in Seq(S)
  BY CurlAssumption
<1>2. \A i \in DOMAIN c : c[i] \in CurlByte
  BY DEF CurlByte
<1> HIDE DEF S
<1> QED BY <1>1, <1>2, SeqOfOther

(* The strings of a result that are in memory, counted one by one.         *)
LEMMA OwnedCount ==
  ASSUME NEW r \in Result
  PROVE  Owned(r) = (IF r.headers.alloc THEN 1 ELSE 0) + (IF r.data.alloc THEN 1 ELSE 0)
<1> DEFINE A == {f \in DOMAIN r : r[f].alloc}
<1>0. Owned(r) = Cardinality(A)
  BY DEF Owned
<1>1. CASE r.headers.alloc /\ r.data.alloc
  <2> DEFINE S == {"headers"}
  <2>1. A = S \cup {"data"}
    BY <1>1 DEF Result
  <2>2. IsFiniteSet(S) /\ Cardinality(S) = 1 /\ "data" \notin S
    BY FS_Singleton
  <2> HIDE DEF S
  <2>3. Cardinality(S \cup {"data"}) = 2
    BY <2>2, FS_AddElement
  <2> QED BY <1>0, <1>1, <2>1, <2>3
<1>2. CASE r.headers.alloc /\ ~ r.data.alloc
  <2>1. A = {"headers"}
    BY <1>2 DEF Result
  <2>2. Cardinality({"headers"}) = 1
    BY FS_Singleton
  <2> HIDE DEF A
  <2> QED BY <1>0, <1>2, <2>1, <2>2
<1>3. CASE ~ r.headers.alloc /\ r.data.alloc
  <2>1. A = {"data"}
    BY <1>3 DEF Result
  <2>2. Cardinality({"data"}) = 1
    BY FS_Singleton
  <2> HIDE DEF A
  <2> QED BY <1>0, <1>3, <2>1, <2>2
<1>4. CASE ~ r.headers.alloc /\ ~ r.data.alloc
  <2>1. A = {}
    BY <1>4 DEF Result
  <2> QED BY <1>0, <1>4, <2>1, FS_EmptySet
<1> QED BY <1>1, <1>2, <1>3, <1>4

(* The empty result.                                                       *)
LEMMA NothingOwned ==
  /\ NoStr \in Str /\ NoResult \in Result
  /\ NoResult.headers = NoStr /\ NoResult.data = NoStr
  /\ ~ NoStr.alloc /\ NoStr.text = <<>> /\ NoStr.len = 0
  /\ Len(NoStr.text) = 0
  /\ Owned(NoResult) = 0
<1>1. /\ NoStr \in Str
      /\ ~ NoStr.alloc /\ NoStr.text = <<>> /\ NoStr.len = 0
      /\ Len(NoStr.text) = 0
  BY DEF NoStr, Str
<1>2. /\ NoResult \in Result
      /\ NoResult.headers = NoStr /\ NoResult.data = NoStr
  BY <1>1 DEF NoResult, Result
<1> QED BY <1>1, <1>2, OwnedCount

(* CurlText, field by field.                                               *)
TextFits(p, t) ==
  /\ p.text = t /\ p.len = Len(p.text)
  /\ p.alloc => p.len + 1 <= p.size
  /\ ~ p.alloc => p.len = 0

(* CurlText says that of both fields.                                      *)
LEMMA TextOfBoth ==
  ASSUME cres \in Result
  PROVE  CurlText <=> /\ TextFits(cres.headers, clog.got.headers.text)
                      /\ TextFits(cres.data, clog.got.data.text)
<1>1. DOMAIN cres = {"headers", "data"}
  BY DEF Result
<1> QED BY <1>1 DEF CurlText, TextFits

(* The same of the next state.                                             *)
LEMMA TextOfBothNext ==
  ASSUME cres' \in Result
  PROVE  CurlText' <=> /\ TextFits(cres'.headers, clog'.got.headers.text)
                       /\ TextFits(cres'.data, clog'.got.data.text)
<1>1. DOMAIN cres' = {"headers", "data"}
  BY DEF Result
<1> QED BY <1>1 DEF CurlText, TextFits

(* What a callback makes of its string: the piece is at its end, or it is  *)
(* as it was.                                                              *)
LEMMA ReceiveEffect ==
  ASSUME NEW p \in Str, NEW t \in Seq(CurlByte), TextFits(p, t), NEW c \in Chunks,
         NEW mem \in 0 .. 2
  PROVE  LET r == Receive(p, c, mem)
         IN /\ r.p \in Str
            /\ TextFits(r.p, IF r.taken = Len(c) THEN t \o c ELSE t)
            /\ p.alloc => r.p.alloc
<1> DEFINE n == Len(c)
           p1 == IF p.alloc THEN p
                 ELSE [alloc |-> TRUE, text |-> <<>>, len |-> 0, size |-> BUF_SIZE]
           m1 == IF p.alloc THEN mem ELSE mem - 1
           p2 == IF Room(p1, n) THEN p1 ELSE [p1 EXCEPT !.size = p1.size * 2 + n + 1]
           p3 == [p2 EXCEPT !.text = @ \o c, !.len = @ + n]
           r == Receive(p, c, mem)
<1>1. c \in Seq(CurlByte) /\ n \in Nat
  BY ChunkIsText
<1>2. t \o c \in Seq(CurlByte) /\ Len(t \o c) = Len(t) + n /\ Len(t) \in Nat
  BY <1>1, ConcatProperties
<1>3. n = 0 => t \o c = t
  <2> SUFFICES ASSUME n = 0 PROVE t \o c = t
    OBVIOUS
  <2>1. c = <<>>
    BY <1>1
  <2> QED BY <2>1
<1>4. \/ r = [p |-> p, taken |-> 0]
      \/ r = [p |-> p1, taken |-> 0]
      \/ r = [p |-> p3, taken |-> n]
  BY DEF Receive
<1>5. /\ p1 \in Str /\ p1.text = t /\ p1.len = Len(t) /\ p1.alloc
      /\ p1.len + 1 <= p1.size
  <2>1. CASE p.alloc
    BY <2>1 DEF TextFits
  <2>2. CASE ~ p.alloc
    <3>1. p1 = [alloc |-> TRUE, text |-> <<>>, len |-> 0, size |-> BUF_SIZE]
      BY <2>2
    <3>2. t = <<>>
      BY <2>2, EmptySeq DEF TextFits
    <3> HIDE DEF p1
    <3> QED BY <3>1, <3>2, CurlAssumption DEF Str
  <2> QED BY <2>1, <2>2
<1> HIDE DEF p1
<1>6. /\ p2 \in Str /\ p2.text = t /\ p2.len = Len(t) /\ p2.alloc
      /\ p2.len + n + 1 <= p2.size
  <2>1. CASE Room(p1, n)
    BY <1>1, <1>5, <2>1 DEF Room, Str
  <2>2. CASE ~ Room(p1, n)
    <3>1. p1.size \in Nat /\ p1.size * 2 + n + 1 \in Nat /\ p1.len \in Nat
      BY <1>1, <1>5 DEF Str
    <3> DEFINE z == p1.size * 2 + n + 1
    <3>2. p1.len + n + 1 <= z
      BY <1>1, <1>5, <3>1
    <3>3. p2 = [p1 EXCEPT !.size = z]
      BY <2>2
    <3> HIDE DEF z, p2
    <3> QED BY <1>1, <1>5, <3>1, <3>2, <3>3 DEF Str, z
  <2> QED BY <2>1, <2>2
<1> HIDE DEF p2
<1>7. /\ p3 \in Str /\ p3.text = t \o c /\ p3.len = Len(t) + n /\ p3.alloc
      /\ p3.len + 1 <= p3.size
  <2>1. p3 = [p2 EXCEPT !.text = t \o c, !.len = Len(t) + n]
    BY <1>6
  <2>2. Len(t) + n \in Nat
    BY <1>1, <1>2
  <2> HIDE DEF p3, n
  <2>3. /\ p3 \in Str /\ p3.text = t \o c /\ p3.len = Len(t) + n /\ p3.alloc
        /\ p3.size = p2.size
    BY <1>2, <1>6, <2>1, <2>2 DEF Str
  <2> QED BY <1>6, <2>3
<1> HIDE DEF p3, r
<1>8. CASE r = [p |-> p, taken |-> 0]
  <2>1. r.p = p /\ r.taken = 0
    BY <1>8
  <2>2. (IF r.taken = n THEN t \o c ELSE t) = t
    BY <1>3, <2>1
  <2> QED BY <2>1, <2>2 DEF r
<1>9. CASE r = [p |-> p1, taken |-> 0]
  <2>1. r.p = p1 /\ r.taken = 0
    BY <1>9
  <2>2. (IF r.taken = n THEN t \o c ELSE t) = t
    BY <1>3, <2>1
  <2> QED BY <1>5, <2>1, <2>2 DEF r, TextFits
<1>10. CASE r = [p |-> p3, taken |-> n]
  <2>1. r.p = p3 /\ r.taken = n
    BY <1>10
  <2>2. (IF r.taken = n THEN t \o c ELSE t) = t \o c
    BY <2>1
  <2> QED BY <1>2, <1>7, <2>1, <2>2 DEF r, TextFits
<1> QED BY <1>4, <1>8, <1>9, <1>10

(* The types of the fields.                                                *)
LEMMA CurlFields ==
  ASSUME CurlInv
  PROVE  /\ curl \in CurlHandle /\ cres \in Result /\ clog \in CurlLog
         /\ cres.headers \in Str /\ cres.data \in Str
         /\ clog.got \in Result /\ clog.got.headers \in Str /\ clog.got.data \in Str
         /\ clog.got.headers.text \in Seq(CurlByte)
         /\ clog.got.data.text \in Seq(CurlByte)
         /\ TextFits(cres.headers, clog.got.headers.text)
         /\ TextFits(cres.data, clog.got.data.text)
<1>1. curl \in CurlHandle /\ cres \in Result /\ clog \in CurlLog
  BY DEF CurlInv, CurlTypeOK
<1>2. clog.got \in Result
  BY <1>1 DEF CurlLog
<1>3. /\ cres.headers \in Str /\ cres.data \in Str
      /\ clog.got.headers \in Str /\ clog.got.data \in Str
  BY <1>1, <1>2 DEF Result
<1>4. /\ clog.got.headers.text \in Seq(CurlByte)
      /\ clog.got.data.text \in Seq(CurlByte)
  BY <1>3 DEF Str
<1> QED BY <1>1, <1>2, <1>3, <1>4, TextOfBoth DEF CurlInv

(* The result is empty, and so is what the server gave.                    *)
LEMMA EmptyResult ==
  ASSUME cres' = NoResult, clog'.got = NoResult
  PROVE  cres' \in Result /\ CurlText' /\ Owned(cres') = 0
<1>1. /\ cres'.headers = NoStr /\ cres'.data = NoStr
      /\ clog'.got.headers = NoStr /\ clog'.got.data = NoStr
      /\ cres' \in Result /\ Owned(cres') = 0
  BY NothingOwned
<1>2. TextFits(NoStr, NoStr.text)
  BY NothingOwned DEF TextFits
<1> QED BY <1>1, <1>2, TextOfBothNext

(* The handle is made, or cannot be.                                       *)
LEMMA CreateStep ==
  ASSUME CurlInv, ctapi_curl_create
  PROVE  CurlInv'
<1> PICK ok \in BOOLEAN : curl' = [curl EXCEPT !.open = ok, !.post = FALSE, !.fields = NoData]
  BY DEF ctapi_curl_create
<1>1. /\ curl' \in CurlHandle /\ ~ curl'.post /\ curl'.fields = NoData
      /\ curl'.busy = curl.busy /\ curl'.cut = curl.cut
  BY CurlFields DEF CurlHandle
<1> DEFINE q == <<"GET", NoData>>
<1>2. q \in Request
  BY DEF Request
<1>3. clog' = [clog EXCEPT !.posted = FALSE, !.asked = q, !.sent = q]
  BY DEF ctapi_curl_create
<1> HIDE DEF q
<1>4. /\ clog' \in CurlLog /\ clog'.asked = clog'.sent /\ clog'.ret = clog.ret
      /\ clog'.got = clog.got /\ clog'.heap = clog.heap /\ clog'.dropped = clog.dropped
      /\ clog'.given = clog.given /\ clog'.ok = clog.ok /\ clog'.asked = q
  BY <1>2, <1>3, CurlFields DEF CurlLog
<1>5. cres' = cres
  BY DEF ctapi_curl_create
<1>6. CurlText' /\ CurlOwned'
  BY <1>4, <1>5 DEF CurlInv, CurlText, CurlOwned
<1>7. CurlTypeOK' /\ NotAnswered' /\ OptionsOfPost' /\ CurlAnswer' /\ NothingLost'
  BY <1>1, <1>4, <1>5
     DEF CurlInv, CurlTypeOK, NotAnswered, OptionsOfPost, CurlAnswer, NothingLost, Taken
<1>8. SentAsAsked'
  BY <1>4 DEF SentAsAsked, q
<1> QED BY <1>6, <1>7, <1>8 DEF CurlInv

(* The handle is given up.                                                 *)
LEMMA CleanStep ==
  ASSUME CurlInv, ctapi_curl_clean
  PROVE  CurlInv'
<1>1. /\ curl' \in CurlHandle /\ curl'.post = curl.post /\ curl'.fields = curl.fields
      /\ curl'.busy = curl.busy /\ curl'.cut = curl.cut
  BY CurlFields DEF ctapi_curl_clean, CurlHandle
<1>2. cres' = cres /\ clog' = clog
  BY DEF ctapi_curl_clean
<1>3. CurlText' /\ CurlOwned'
  BY <1>2 DEF CurlInv, CurlText, CurlOwned
<1>4. CurlTypeOK' /\ NotAnswered' /\ OptionsOfPost'
  BY <1>1, <1>2 DEF CurlInv, CurlTypeOK, NotAnswered, OptionsOfPost
<1>5. CurlAnswer' /\ NothingLost' /\ SentAsAsked'
  BY <1>1, <1>2 DEF CurlInv, CurlAnswer, NothingLost, Taken, SentAsAsked
<1> QED BY <1>3, <1>4, <1>5 DEF CurlInv

(* A request begins.                                                       *)
LEMMA PostStep ==
  ASSUME CurlInv, NEW method \in {"GET", "POST"}, NEW data \in PostData \cup {NoData},
         ctapi_curl_post(method, data)
  PROVE  CurlInv'
<1> DEFINE post == curl.post \/ method = "POST"
           fields == IF method = "POST" /\ data # NoData THEN data ELSE curl.fields
           asked == <<method, IF method = "POST" THEN data ELSE NoData>>
           dropped == clog.dropped + Owned(cres)
           posted == clog.posted \/ (clog.asked[1] = "POST")
           calls == clog.calls + 1
<1>0. PICK body \in Bodies(post, method, data) :
        clog' = [clog EXCEPT !.dropped = dropped, !.got = NoResult, !.given = 0,
                   !.ret = -1, !.calls = calls, !.posted = posted, !.asked = asked,
                   !.sent = <<IF post THEN "POST" ELSE "GET", body>>]
  BY DEF ctapi_curl_post
<1> DEFINE sent == <<IF post THEN "POST" ELSE "GET", body>>
<1>1. /\ post \in BOOLEAN /\ fields \in PostData \cup {NoData}
      /\ posted \in BOOLEAN /\ curl.fields \in PostData \cup {NoData}
  BY CurlFields DEF CurlHandle
<1>2. asked \in Request /\ sent \in Request
  <2>1. body \in PostData \cup {NoData, Stdin, Reused}
    BY <1>0, <1>1 DEF Bodies
  <2> QED BY <2>1 DEF Request
<1>3. dropped \in Nat /\ calls \in Nat /\ NoResult \in Result
  <2>1. clog.dropped \in Nat /\ clog.calls \in Nat
    BY CurlFields DEF CurlLog
  <2>2. Owned(cres) \in Nat
    BY CurlFields, OwnedCount
  <2> QED BY <2>1, <2>2, NothingOwned
<1>4. /\ asked[1] = method
      /\ asked[2] # NoData => sent = asked
      /\ method = "GET" /\ ~ posted => sent = asked
      /\ asked = <<"POST", NoData>> /\ ~ posted => sent = <<"POST", Stdin>>
  <2>1. CASE method = "POST" /\ data # NoData
    <3>1. body = data
      BY <1>0, <2>1 DEF Bodies
    <3> QED BY <2>1, <3>1
  <2>2. CASE method = "POST" /\ data = NoData
    <3>1. ~ posted => curl.fields = NoData
      BY DEF CurlInv, OptionsOfPost
    <3>2. ~ posted => body = Stdin
      BY <1>0, <2>2, <3>1 DEF Bodies
    <3> QED BY <2>2, <3>2
  <2>3. CASE method = "GET"
    <3>1. ~ posted => ~ post
      BY <2>3 DEF CurlInv, OptionsOfPost
    <3>2. ~ posted => body = NoData
      BY <1>0, <3>1 DEF Bodies
    <3> QED BY <2>3, <3>1, <3>2
  <2> QED BY <2>1, <2>2, <2>3
<1>5. post \/ fields # NoData => posted \/ method = "POST"
  BY DEF CurlInv, OptionsOfPost
<1>6. /\ curl' = [curl EXCEPT !.post = post, !.fields = fields, !.busy = TRUE, !.cut = FALSE]
      /\ cres' = NoResult
  BY DEF ctapi_curl_post
<1> HIDE DEF post, fields, asked, sent, posted, calls, dropped
<1>7. /\ curl' \in CurlHandle /\ (curl'.post <=> post) /\ curl'.fields = fields
  BY <1>1, <1>6, CurlFields DEF CurlHandle
<1>8. /\ clog' \in CurlLog /\ clog'.dropped = dropped /\ clog'.got = NoResult
      /\ clog'.given = 0 /\ clog'.ret = -1 /\ (clog'.posted <=> posted)
      /\ clog'.asked = asked /\ clog'.sent = sent /\ clog'.heap = clog.heap
  <2>1. clog' = [clog EXCEPT !.dropped = dropped, !.got = NoResult, !.given = 0,
                   !.ret = -1, !.calls = calls, !.posted = posted, !.asked = asked,
                   !.sent = sent]
    BY <1>0 DEF sent
  <2>2. clog \in CurlLog /\ 0 \in Nat /\ -1 \in Int
    BY CurlFields
  <2> QED BY <1>1, <1>2, <1>3, <2>1, <2>2 DEF CurlLog
<1>9. cres' \in Result /\ CurlText' /\ Owned(cres') = 0
  BY <1>6, <1>8, EmptyResult
<1>10. CurlOwned'
  <2>1. clog.heap = Owned(cres) + clog.dropped
    BY DEF CurlInv, CurlOwned
  <2>2. Owned(cres) \in Nat /\ clog.dropped \in Nat
    BY CurlFields, OwnedCount DEF CurlLog
  <2> QED BY <1>8, <1>9, <2>1, <2>2 DEF CurlOwned, dropped
<1>11. CurlTypeOK' /\ NotAnswered' /\ CurlAnswer' /\ NothingLost'
  <2>1. Taken' = 0
    BY <1>8, NothingOwned DEF Taken
  <2> QED BY <1>7, <1>8, <1>9, <2>1
          DEF CurlTypeOK, NotAnswered, CurlAnswer, NothingLost
<1>12. OptionsOfPost' /\ SentAsAsked'
  BY <1>4, <1>5, <1>7, <1>8 DEF OptionsOfPost, SentAsAsked
<1> QED BY <1>9, <1>10, <1>11, <1>12 DEF CurlInv

(* A callback takes a piece, or breaks the transfer off.                   *)
LEMMA DeliverStep ==
  ASSUME CurlInv, NEW f \in {"headers", "data"}, NEW c \in Chunks, NEW mem \in 0 .. 2,
         Deliver(f, c, mem)
  PROVE  CurlInv'
<1> DEFINE r == Receive(cres[f], c, mem)
           t == clog.got[f].text
           u == IF r.taken = Len(c) THEN t \o c ELSE t
           more == IF r.p.alloc /\ ~ cres[f].alloc THEN 1 ELSE 0
<1>1. /\ cres[f] \in Str /\ t \in Seq(CurlByte) /\ TextFits(cres[f], t)
      /\ clog.got[f] \in Str
  BY CurlFields DEF Result
<1>2. r.p \in Str /\ TextFits(r.p, u) /\ (cres[f].alloc => r.p.alloc)
  <2> HIDE DEF t
  <2> QED BY <1>1, ReceiveEffect
<1>3. u \in Seq(CurlByte)
  BY <1>1, ChunkIsText, ConcatProperties
<1> DEFINE m == clog.given + Len(c)
<1>4. /\ curl.busy /\ ~ curl.cut
      /\ cres' = [cres EXCEPT ![f] = r.p]
      /\ curl' = [curl EXCEPT !.cut = (r.taken # Len(c))]
      /\ clog' = [clog EXCEPT !.heap = @ + more, !.got[f].text = u, !.given = m]
  BY DEF Deliver
<1>4a. /\ Len(t) \in Nat /\ Len(c) \in Nat /\ clog.given \in Nat
       /\ m = clog.given + Len(c) /\ m \in Nat
       /\ Len(u) = Len(t) + Len(c) \/ (r.taken # Len(c) /\ Len(u) = Len(t))
  BY <1>1, ChunkIsText, ConcatProperties, CurlFields, SMTT(30) DEF CurlLog
<1> HIDE DEF r, t, u, m
<1>5. curl' \in CurlHandle /\ curl'.busy = curl.busy /\ curl'.post = curl.post
      /\ curl'.fields = curl.fields /\ (curl'.cut <=> r.taken # Len(c))
  BY <1>4, CurlFields DEF CurlHandle
<1> DEFINE h == clog.heap + more
           g == [clog.got EXCEPT ![f].text = u]
<1>6. g \in Result /\ h \in Int /\ more \in {0, 1}
  <2>1. clog.got \in Result /\ clog.heap \in Int
    BY CurlFields DEF CurlLog
  <2>2. [clog.got[f] EXCEPT !.text = u] \in Str
    BY <1>1, <1>3 DEF Str
  <2>3. g = [clog.got EXCEPT ![f] = [clog.got[f] EXCEPT !.text = u]]
    BY <2>1 DEF Result
  <2> QED BY <2>1, <2>2, <2>3 DEF Result
<1>7. clog' = [clog EXCEPT !.heap = h, !.got = g, !.given = m]
  BY <1>4, CurlFields DEF CurlLog
<1> HIDE DEF h, g, more
<1>8. /\ clog' \in CurlLog /\ clog'.heap = h /\ clog'.got = g /\ clog'.ret = clog.ret
      /\ clog'.posted = clog.posted /\ clog'.asked = clog.asked
      /\ clog'.sent = clog.sent /\ clog'.dropped = clog.dropped /\ clog'.given = m
  BY <1>4a, <1>6, <1>7, CurlFields DEF CurlLog
<1>9. cres' \in Result
  BY <1>2, <1>4, CurlFields DEF Result
<1>9a. /\ clog.heap = Owned(cres) + clog.dropped
       /\ Owned(cres) \in Nat /\ clog.dropped \in Nat /\ more \in Nat
  BY <1>6, CurlFields, OwnedCount, SMTT(30) DEF CurlLog, CurlInv, CurlOwned
<1>10. CurlText' /\ CurlOwned'
  <2>1. CASE f = "headers"
    <3>1. cres'.headers = r.p /\ cres'.data = cres.data
      BY <1>4, <2>1, CurlFields DEF Result
    <3>2. g.headers.text = u /\ g.data = clog.got.data
      BY <2>1, CurlFields DEF Result, Str, g
    <3>3. CurlText'
      BY <1>2, <1>8, <1>9, <3>1, <3>2, CurlFields, TextOfBothNext
    <3>4. Owned(cres') = Owned(cres) + more
      <4>1. cres[f] = cres.headers
        BY <2>1
      <4> QED BY <1>2, <1>9, <3>1, <4>1, CurlFields, OwnedCount DEF more
    <3> QED BY <1>8, <1>9a, <3>3, <3>4 DEF CurlOwned, h
  <2>2. CASE f = "data"
    <3>1. cres'.data = r.p /\ cres'.headers = cres.headers
      BY <1>4, <2>2, CurlFields DEF Result
    <3>2. g.data.text = u /\ g.headers = clog.got.headers
      BY <2>2, CurlFields DEF Result, Str, g
    <3>3. CurlText'
      BY <1>2, <1>8, <1>9, <3>1, <3>2, CurlFields, TextOfBothNext
    <3>4. Owned(cres') = Owned(cres) + more
      <4>1. cres[f] = cres.data
        BY <2>2
      <4> QED BY <1>2, <1>9, <3>1, <4>1, CurlFields, OwnedCount DEF more
    <3> QED BY <1>8, <1>9a, <3>3, <3>4 DEF CurlOwned, h
  <2> QED BY <2>1, <2>2
<1>11. CurlTypeOK' /\ NotAnswered' /\ CurlAnswer'
  <2>1. clog.ret = -1
    BY <1>4 DEF CurlInv, NotAnswered
  <2> QED BY <1>5, <1>8, <1>9, <2>1 DEF CurlTypeOK, NotAnswered, CurlAnswer
<1>12. OptionsOfPost' /\ SentAsAsked'
  BY <1>5, <1>8 DEF CurlInv, OptionsOfPost, SentAsAsked
<1>13. NothingLost'
  <2>1. Taken = clog.given
    BY <1>4 DEF CurlInv, NothingLost
  <2>2. /\ Len(clog.got.headers.text) \in Nat /\ Len(clog.got.data.text) \in Nat
    BY CurlFields
  <2>3. Taken' = Taken - Len(t) + Len(u)
    <3>1. CASE f = "headers"
      <4>1. g.headers.text = u /\ g.data = clog.got.data /\ t = clog.got.headers.text
        BY <3>1, CurlFields DEF Result, Str, g, t
      <4> QED BY <1>4a, <1>8, <2>2, <4>1 DEF Taken
    <3>2. CASE f = "data"
      <4>1. g.data.text = u /\ g.headers = clog.got.headers /\ t = clog.got.data.text
        BY <3>2, CurlFields DEF Result, Str, g, t
      <4> QED BY <1>4a, <1>8, <2>2, <4>1 DEF Taken
    <3>3. f = "headers" \/ f = "data"
      OBVIOUS
    <3> QED BY <3>1, <3>2, <3>3, Zenon
  <2>4. Taken \in Nat
    <3>1. \A a, b \in Nat : a + b \in Nat
      OBVIOUS
    <3> QED BY <2>2, <3>1, Zenon DEF Taken
  <2>5. Taken' = m \/ (r.taken # Len(c) /\ Taken' <= m)
    BY <1>4a, <2>1, <2>3, <2>4
  <2>6. Taken' <= m
    BY <1>4a, <2>5
  <2> QED BY <1>5, <1>8, <2>5, <2>6 DEF NothingLost
<1> QED BY <1>10, <1>11, <1>12, <1>13 DEF CurlInv

(* The transfer is over: the lengths of both strings are the answer.       *)
LEMMA ReturnsStep ==
  ASSUME CurlInv, NEW ok \in BOOLEAN, PostReturns(ok)
  PROVE  CurlInv'
<1> DEFINE n == cres.headers.len + cres.data.len
<1>1. n \in Nat /\ n = Len(clog.got.headers.text) + Len(clog.got.data.text)
  <2>1. cres.headers.len \in Nat /\ cres.data.len \in Nat
    BY CurlFields DEF Str
  <2>2. /\ cres.headers.len = Len(clog.got.headers.text)
        /\ cres.data.len = Len(clog.got.data.text)
    BY CurlFields DEF TextFits
  <2>3. cres.headers.len + cres.data.len \in Nat
    BY <2>1
  <2> QED BY <2>2, <2>3
<1>2. /\ curl' = [curl EXCEPT !.busy = FALSE, !.cut = FALSE]
      /\ clog' = [clog EXCEPT !.ret = n, !.ok = ok]
      /\ cres' = cres /\ curl.busy /\ (ok => ~ curl.cut)
  BY DEF PostReturns
<1> HIDE DEF n
<1>3. /\ curl' \in CurlHandle /\ ~ curl'.busy /\ curl'.post = curl.post
      /\ curl'.fields = curl.fields
  BY <1>2, CurlFields DEF CurlHandle
<1>4. /\ clog' \in CurlLog /\ clog'.ret = n /\ clog'.got = clog.got
      /\ clog'.posted = clog.posted /\ clog'.asked = clog.asked /\ clog'.sent = clog.sent
      /\ clog'.heap = clog.heap /\ clog'.dropped = clog.dropped
      /\ clog'.given = clog.given /\ clog'.ok = ok
  <2>1. clog \in CurlLog /\ n \in Int
    BY <1>1, CurlFields
  <2> QED BY <1>2, <2>1 DEF CurlLog
<1>5. CurlText' /\ CurlOwned'
  BY <1>2, <1>4 DEF CurlInv, CurlText, CurlOwned
<1>6. CurlTypeOK' /\ NotAnswered' /\ CurlAnswer' /\ NothingLost'
  <2>1. Taken' = Taken /\ n = Taken
    BY <1>1, <1>4 DEF Taken
  <2>2. Taken <= clog.given /\ (ok => Taken = clog.given)
    BY <1>2 DEF CurlInv, NothingLost
  <2>3. CurlTypeOK' /\ NotAnswered'
    BY <1>2, <1>3, <1>4 DEF CurlInv, CurlTypeOK, NotAnswered
  <2>4. CurlAnswer' /\ NothingLost'
    BY <1>3, <1>4, <2>1, <2>2 DEF CurlAnswer, NothingLost
  <2> QED BY <2>3, <2>4
<1>7. OptionsOfPost' /\ SentAsAsked'
  BY <1>3, <1>4 DEF CurlInv, OptionsOfPost, SentAsAsked
<1> QED BY <1>5, <1>6, <1>7 DEF CurlInv

(* The result is freed.                                                    *)
LEMMA FreeStep ==
  ASSUME CurlInv, ctapi_curl_free
  PROVE  CurlInv'
<1> DEFINE h == clog.heap - Owned(cres)
<1>1. h \in Int /\ h = clog.dropped
  <2>1. Owned(cres) \in Nat
    BY CurlFields, OwnedCount
  <2> QED BY <2>1, CurlFields DEF CurlLog, CurlInv, CurlOwned
<1>2. /\ curl' = curl /\ cres' = NoResult
      /\ clog' = [clog EXCEPT !.heap = h, !.got = NoResult, !.given = 0, !.ret = -1]
      /\ ~ curl.busy
  BY DEF ctapi_curl_free
<1> HIDE DEF h
<1>3. /\ clog' \in CurlLog /\ clog'.heap = h /\ clog'.got = NoResult /\ clog'.ret = -1
      /\ clog'.posted = clog.posted /\ clog'.asked = clog.asked
      /\ clog'.sent = clog.sent /\ clog'.dropped = clog.dropped /\ clog'.given = 0
  <2>1. clog \in CurlLog /\ NoResult \in Result /\ -1 \in Int
    BY CurlFields, NothingOwned
  <2> QED BY <1>1, <1>2, <2>1 DEF CurlLog
<1>4. cres' \in Result /\ CurlText' /\ Owned(cres') = 0
  BY <1>2, <1>3, EmptyResult
<1>5. CurlOwned'
  BY <1>1, <1>3, <1>4 DEF CurlOwned
<1>6. CurlTypeOK' /\ NotAnswered' /\ CurlAnswer' /\ OptionsOfPost' /\ SentAsAsked'
  BY <1>2, <1>3, <1>4
     DEF CurlInv, CurlTypeOK, NotAnswered, CurlAnswer, OptionsOfPost, SentAsAsked
<1>7. NothingLost'
  <2>1. Taken' = 0
    BY <1>3, NothingOwned DEF Taken
  <2> QED BY <1>2, <1>3, <2>1 DEF NothingLost
<1> QED BY <1>4, <1>5, <1>6, <1>7 DEF CurlInv

(* The invariant of the curl wrapper is inductive.                         *)
THEOREM CurlInvariance == CurlSpec => []CurlInv
<1>1. ASSUME CurlInit PROVE CurlInv
  <2> DEFINE q == <<"GET", NoData>>
  <2>1. q \in Request
    BY DEF Request
  <2>2. /\ curl = [open |-> FALSE, post |-> FALSE, fields |-> NoData, busy |-> FALSE,
                   cut |-> FALSE]
        /\ cres = NoResult
        /\ clog = [heap |-> 0, got |-> NoResult, given |-> 0, calls |-> 0,
                   posted |-> FALSE, ret |-> -1, ok |-> TRUE, asked |-> q, sent |-> q,
                   dropped |-> 0]
    BY <1>1 DEF CurlInit
  <2> HIDE DEF q
  <2>3. curl \in CurlHandle /\ ~ curl.busy /\ ~ curl.post /\ curl.fields = NoData
    BY <2>2 DEF CurlHandle
  <2>4. /\ clog \in CurlLog /\ clog.got = NoResult /\ clog.ret = -1 /\ clog.heap = 0
        /\ clog.dropped = 0 /\ clog.asked = q /\ clog.sent = q /\ clog.given = 0
    BY <2>1, <2>2, NothingOwned DEF CurlLog
  <2>5. cres \in Result /\ CurlOwned
    BY <2>2, <2>4, NothingOwned DEF CurlOwned
  <2>6. CurlText
    <3>1. /\ cres.headers = NoStr /\ cres.data = NoStr
          /\ clog.got.headers = NoStr /\ clog.got.data = NoStr
      BY <2>2, <2>4, NothingOwned
    <3>2. TextFits(NoStr, NoStr.text)
      BY NothingOwned DEF TextFits
    <3> QED BY <2>5, <3>1, <3>2, TextOfBoth
  <2>7. Taken = 0
    BY <2>4, NothingOwned DEF Taken
  <2>8. SentAsAsked
    BY <2>4 DEF SentAsAsked, q
  <2> QED BY <2>3, <2>4, <2>5, <2>6, <2>7, <2>8
          DEF CurlInv, CurlTypeOK, NotAnswered, OptionsOfPost, CurlAnswer, NothingLost
<1>2. ASSUME CurlInv, [CurlNext]_curlVars PROVE CurlInv'
  <2>1. CASE CurlNext
    BY <1>2, <2>1, CreateStep, CleanStep, PostStep, DeliverStep, ReturnsStep, FreeStep
       DEF CurlNext
  <2>2. CASE UNCHANGED curlVars
    BY <1>2, <2>2 DEF curlVars, CurlInv, CurlTypeOK, NotAnswered, OptionsOfPost, CurlText,
                      CurlOwned, CurlAnswer, NothingLost, Taken, SentAsAsked
  <2> QED BY <1>2, <2>1, <2>2
<1> QED BY <1>1, <1>2, PTL DEF CurlSpec

(* Whatever pieces the answer of the server comes in, and wherever the     *)
(* transfer or the memory ends: the strings hold what the callbacks took   *)
(* with room for the NUL, every string in memory belongs to the result or  *)
(* to one that the caller did not free, the answer of ctapi_curl_post is   *)
(* the length of what was taken, which is all that was given if it ended   *)
(* well; a request with data is sent as asked, and so is a GET before the  *)
(* first POST, while a POST without data sends something else.  For any    *)
(* pieces, data and sizes.                                                 *)
THEOREM RequestsHonest == CurlSpec => []CurlHonest
<1>1. CurlInv => CurlHonest
  BY DEF CurlInv, CurlHonest
<1> QED BY <1>1, CurlInvariance, PTL
-----------------------------------------------------------------------------
(* read_fd_timeout and write_fd_timeout of utils.c, read_line of ctio.c.   *)

IoSpec == IoInit /\ [][IoNext]_ioVars

Char == IoChar \cup {"a", EOL, ZERO}

IoState == [fn : {"none", "write", "write_nb", "read", "line"}, todo : Seq(Char), wrote : Nat,
            line : Seq(Char), nonblock : BOOLEAN, now : Nat, lastread : Int]

IoPeer == [got : Seq(Char), stream : Seq(Char), read : Seq(Char),
           sent : Seq(Char), mark : Int, closed : BOOLEAN]

IoLog == [fn : {"none", "write", "write_nb", "read", "line"}, data : Seq(Char), ret : Int,
          zero : BOOLEAN, began : Nat, signal : BOOLEAN, urgent : BOOLEAN, waited : Int,
          early : BOOLEAN, old : BOOLEAN, error : BOOLEAN, buf : Seq(Char), calls : Nat]

IoTypeOK ==
  /\ io \in IoState
  /\ iopeer \in IoPeer
  /\ iolog \in IoLog

(* What a call leaves behind, and what is not answered while it runs.      *)
Between ==
  /\ ~ Writing => io.wrote = 0
  /\ ~ Lining => io.line = <<>>
  /\ io.fn # "none" => iolog.fn = "none"
  /\ io.fn = "read" => iopeer.read = <<>>

(* The count of a write that runs.                                         *)
Written == Writing => io.wrote = Len(iopeer.got) /\ ~ iolog.zero

(* What read_line has made of the characters it got, and what it may find  *)
(* in a buffer that was cleared before the call.                           *)
LineSoFar ==
  Lining =>
    /\ (Dirty(iolog.buf) => ~ iolog.error) =>
         /\ \A k \in 1 .. Len(iopeer.read) : iopeer.read[k] \notin {EOL, ZERO}
         /\ WithoutReturns(iopeer.read, io.line)
    /\ ~ Dirty(iolog.buf) =>
         \A k \in 1 .. Len(io.todo) :
           io.todo[k] = ZERO \/ (k = 1 /\ io.todo[k] = RET)

(* The rest of the buffer is as the caller gave it, but for the character  *)
(* that was read last; and where the characters of the line are from.      *)
FromBuffer ==
  Lining =>
    /\ Len(io.line) + Len(io.todo) = Len(iolog.buf)
    /\ \A j \in 2 .. Len(io.todo) : io.todo[j] = iolog.buf[Len(io.line) + j]
    /\ io.todo[1] = iolog.buf[Len(io.line) + 1] \/ Contains(iopeer.read, io.todo[1])
    /\ \A i \in 1 .. Len(io.line) :
         Contains(iopeer.read, io.line[i]) \/ (iolog.error /\ io.line[i] = iolog.buf[i])

(* safe_read has waited, since it was called, or since the last character, *)
(* no longer than the timeout.                                             *)
Clock ==
  /\ io.lastread <= io.now
  /\ Lining =>
       /\ iolog.began <= io.now
       /\ iopeer.stream = <<>> => io.lastread <= iolog.began
       /\ iolog.urgent => iopeer.mark # -1
       /\ \/ iolog.urgent \/ io.now = iolog.began
          \/ io.now - io.lastread <= IoTimeout

IoInv ==
  /\ IoTypeOK
  /\ Between
  /\ Written
  /\ LineSoFar
  /\ FromBuffer
  /\ Clock
  /\ WriteExact
  /\ BlockingAgain
  /\ ReadTrue
  /\ LineTrue
  /\ WaitsBound

(* A step that leaves the buffer, the line and what was read as they are.  *)
LEMMA BufferKept ==
  ASSUME IoInv, io'.fn = io.fn, io'.todo = io.todo, io'.line = io.line,
         iopeer'.read = iopeer.read, iolog'.buf = iolog.buf, iolog'.error = iolog.error
  PROVE  LineSoFar' /\ FromBuffer'
<1>1. Lining' <=> Lining
  BY DEF Lining
<1>2. LineSoFar'
  <2>1. Dirty(iolog'.buf) <=> Dirty(iolog.buf)
    OBVIOUS
  <2> QED BY <1>1, <2>1 DEF IoInv, LineSoFar
<1>3. FromBuffer'
  <2>1. \A x : Contains(iopeer'.read, x) <=> Contains(iopeer.read, x)
    OBVIOUS
  <2> QED BY <1>1, <2>1, ZenonT(30) DEF IoInv, FromBuffer
<1> QED BY <1>2, <1>3

(* The types of the fields.                                                *)
LEMMA IoFields ==
  ASSUME IoInv
  PROVE  /\ io \in IoState /\ iopeer \in IoPeer /\ iolog \in IoLog
         /\ io.fn \in {"none", "write", "write_nb", "read", "line"}
         /\ io.todo \in Seq(Char) /\ io.wrote \in Nat /\ io.line \in Seq(Char)
         /\ io.nonblock \in BOOLEAN /\ io.now \in Nat /\ io.lastread \in Int
         /\ iopeer.got \in Seq(Char) /\ iopeer.stream \in Seq(Char)
         /\ iopeer.read \in Seq(Char) /\ iopeer.closed \in BOOLEAN
         /\ iopeer.sent \in Seq(Char) /\ iopeer.mark \in Int
         /\ iolog.data \in Seq(Char) /\ iolog.ret \in Int /\ iolog.zero \in BOOLEAN
         /\ iolog.began \in Nat /\ iolog.signal \in BOOLEAN /\ iolog.waited \in Int
         /\ iolog.urgent \in BOOLEAN /\ iolog.early \in BOOLEAN /\ iolog.old \in BOOLEAN
         /\ iolog.error \in BOOLEAN /\ iolog.buf \in Seq(Char) /\ iolog.calls \in Nat
BY DEF IoInv, IoTypeOK, IoState, IoPeer, IoLog

(* The history of a call that begins.                                      *)
LEMMA NewLogFields ==
  ASSUME NEW n \in Nat
  PROVE  /\ NewLog(n) \in IoLog /\ NewLog(n).fn = "none" /\ NewLog(n).data = <<>>
         /\ NewLog(n).ret = 0
         /\ ~ NewLog(n).zero /\ NewLog(n).waited = 0 /\ ~ NewLog(n).early
         /\ ~ NewLog(n).error /\ ~ NewLog(n).urgent
<1>1. <<>> \in Seq(Char) /\ 0 \in Int /\ 0 \in Nat
  OBVIOUS
<1> QED BY <1>1 DEF NewLog, IoLog

(* The other side, when a call begins.                                     *)
LEMMA AfreshFields ==
  ASSUME IoInv, Afresh
  PROVE  /\ iopeer' \in IoPeer /\ iopeer'.got = <<>> /\ iopeer'.read = <<>>
         /\ iopeer'.read \o iopeer'.stream = iopeer'.sent
         /\ iopeer'.stream = iopeer.stream
<1>1. <<>> \in Seq(Char) /\ iopeer.stream \in Seq(Char) /\ iopeer \in IoPeer
  BY IoFields
<1>2. <<>> \o iopeer.stream = iopeer.stream
  BY <1>1
<1> QED BY <1>1, <1>2 DEF Afresh, IoPeer

(* Nothing is read, and no answer of read_fd_timeout is new.               *)
LEMMA ReadKept ==
  ASSUME ReadTrue, iopeer'.read = iopeer.read, iopeer'.stream = iopeer.stream,
         iopeer'.sent = iopeer.sent, iopeer'.closed = iopeer.closed,
         iolog'.fn = "read" => iolog.fn = "read" /\ iolog'.ret = iolog.ret
  PROVE  ReadTrue'
BY DEF ReadTrue

(* A call that is not read_fd_timeout changes the history.                 *)
LEMMA ReadOther ==
  ASSUME iopeer'.read \o iopeer'.stream = iopeer'.sent, iolog'.fn # "read"
  PROVE  ReadTrue'
BY DEF ReadTrue

(* f says where in s the characters of t are.                              *)
Places(f, s, t, n, m) ==
  /\ f \in [1 .. m -> 1 .. n]
  /\ \A i, j \in 1 .. m : i < j => f[i] < f[j]
  /\ \A i \in 1 .. m : t[i] = s[f[i]]
  /\ \A k \in 1 .. n : s[k] # RET <=> \E i \in 1 .. m : f[i] = k

(* That is what shows that t is s without its carriage returns.            *)
LEMMA ShowsWithoutReturns ==
  ASSUME NEW f, NEW s, NEW t, NEW n, NEW m, n = Len(s), m = Len(t), Places(f, s, t, n, m)
  PROVE  WithoutReturns(s, t)
BY DEF WithoutReturns, Places

(* Nothing without its carriage returns is nothing.                        *)
LEMMA EmptyWithoutReturns == WithoutReturns(<<>>, <<>>)
<1> DEFINE f == [i \in 1 .. 0 |-> i]
<1>1. f \in [1 .. 0 -> 1 .. 0]
  OBVIOUS
<1> DEFINE s == <<>>
<1>2. Len(s) = 0 /\ 0 \in Nat
  OBVIOUS
<1>3. \A i \in 1 .. 0 : FALSE
  OBVIOUS
<1> HIDE DEF f, s
<1>4. Places(f, s, s, 0, 0)
  BY <1>1, <1>3 DEF Places
<1>5. WithoutReturns(s, s)
  BY <1>2, <1>4, ShowsWithoutReturns
<1> QED BY <1>5 DEF s

(* A carriage return is left out.                                          *)
LEMMA ReturnLeftOut ==
  ASSUME NEW s \in Seq(Char), NEW t \in Seq(Char), WithoutReturns(s, t), RET \in Char
  PROVE  WithoutReturns(Append(s, RET), t)
<1> DEFINE n == Len(s)
           m == Len(t)
           u == Append(s, RET)
<1>1. /\ n \in Nat /\ m \in Nat /\ Len(u) = n + 1
      /\ \A k \in 1 .. n : u[k] = s[k]
      /\ u[n + 1] = RET
  BY AppendProperties
<1>2. PICK f \in [1 .. m -> 1 .. n] :
        /\ \A i, j \in 1 .. m : i < j => f[i] < f[j]
        /\ \A i \in 1 .. m : t[i] = s[f[i]]
        /\ \A k \in 1 .. n : s[k] # RET <=> \E i \in 1 .. m : f[i] = k
  BY DEF WithoutReturns
<1> HIDE DEF n, m, u
<1>3. f \in [1 .. m -> 1 .. n + 1]
  BY <1>1
<1>4. \A i \in 1 .. m : t[i] = u[f[i]]
  BY <1>1, <1>2
<1>5. \A k \in 1 .. n + 1 : u[k] # RET <=> \E i \in 1 .. m : f[i] = k
  <2> TAKE k \in 1 .. n + 1
  <2>1. CASE k \in 1 .. n
    BY <1>1, <1>2, <2>1
  <2>2. CASE k = n + 1
    BY <1>1, <2>2
  <2> QED BY <1>1, <2>1, <2>2
<1> DEFINE p == n + 1
<1>6. p \in Nat /\ m \in Nat /\ p = Len(u) /\ m = Len(t)
  BY <1>1 DEF m
<1>7. Places(f, u, t, p, m)
  BY <1>2, <1>3, <1>4, <1>5 DEF Places
<1> HIDE DEF p
<1>8. WithoutReturns(u, t)
  BY <1>6, <1>7, ShowsWithoutReturns
<1> QED BY <1>8 DEF u

(* Any other character is kept, behind those before it.                    *)
LEMMA CharacterKept ==
  ASSUME NEW s \in Seq(Char), NEW t \in Seq(Char), WithoutReturns(s, t),
         NEW c \in Char, c # RET
  PROVE  WithoutReturns(Append(s, c), Append(t, c))
<1> DEFINE n == Len(s)
           m == Len(t)
           u == Append(s, c)
           v == Append(t, c)
<1>1. /\ n \in Nat /\ m \in Nat /\ Len(u) = n + 1 /\ Len(v) = m + 1
      /\ \A k \in 1 .. n : u[k] = s[k]
      /\ \A k \in 1 .. m : v[k] = t[k]
      /\ u[n + 1] = c /\ v[m + 1] = c
  BY AppendProperties
<1>2. PICK f \in [1 .. m -> 1 .. n] :
        /\ \A i, j \in 1 .. m : i < j => f[i] < f[j]
        /\ \A i \in 1 .. m : t[i] = s[f[i]]
        /\ \A k \in 1 .. n : s[k] # RET <=> \E i \in 1 .. m : f[i] = k
  BY DEF WithoutReturns
<1> HIDE DEF n, m, u, v
<1> DEFINE g == [i \in 1 .. m + 1 |-> IF i = m + 1 THEN n + 1 ELSE f[i]]
<1>3. g \in [1 .. m + 1 -> 1 .. n + 1] /\ g[m + 1] = n + 1
  BY <1>1
<1>4. \A i \in 1 .. m : g[i] = f[i] /\ f[i] \in 1 .. n /\ g[i] < n + 1
  BY <1>1
<1> HIDE DEF g
<1>5. \A i, j \in 1 .. m + 1 : i < j => g[i] < g[j]
  <2> SUFFICES ASSUME NEW i \in 1 .. m + 1, NEW j \in 1 .. m + 1, i < j
               PROVE  g[i] < g[j]
    OBVIOUS
  <2>1. i \in 1 .. m
    BY <1>1
  <2>2. CASE j = m + 1
    BY <1>3, <1>4, <2>1, <2>2
  <2>3. CASE j \in 1 .. m
    BY <1>2, <1>4, <2>1, <2>3
  <2> QED BY <1>1, <2>2, <2>3
<1>6. \A i \in 1 .. m + 1 : v[i] = u[g[i]]
  <2> TAKE i \in 1 .. m + 1
  <2>1. CASE i = m + 1
    BY <1>1, <1>3, <2>1
  <2>2. CASE i \in 1 .. m
    <3>1. v[i] = t[i] /\ t[i] = s[f[i]] /\ g[i] = f[i] /\ f[i] \in 1 .. n
      BY <1>1, <1>2, <1>4, <2>2
    <3>2. u[f[i]] = s[f[i]]
      BY <1>1, <3>1
    <3> QED BY <3>1, <3>2
  <2> QED BY <1>1, <2>1, <2>2
<1>7. \A k \in 1 .. n + 1 : u[k] # RET <=> \E i \in 1 .. m + 1 : g[i] = k
  <2> TAKE k \in 1 .. n + 1
  <2>1. CASE k = n + 1
    <3>1. m + 1 \in 1 .. m + 1
      BY <1>1
    <3> QED BY <1>1, <1>3, <2>1, <3>1
  <2>2. CASE k \in 1 .. n
    <3>1. u[k] # RET <=> \E i \in 1 .. m : f[i] = k
      BY <1>1, <1>2, <2>2
    <3>2. (\E i \in 1 .. m : f[i] = k) => \E i \in 1 .. m + 1 : g[i] = k
      BY <1>1, <1>4
    <3>3. (\E i \in 1 .. m + 1 : g[i] = k) => \E i \in 1 .. m : f[i] = k
      <4> SUFFICES ASSUME NEW i \in 1 .. m + 1, g[i] = k
                   PROVE  \E j \in 1 .. m : f[j] = k
        OBVIOUS
      <4>1. k # n + 1
        BY <1>1, <2>2
      <4>1a. i # m + 1
        BY <1>3, <4>1
      <4>2. i \in 1 .. m
        BY <1>1, <4>1a
      <4> QED BY <1>4, <4>2
    <3> QED BY <3>1, <3>2, <3>3
  <2> QED BY <1>1, <2>1, <2>2
<1> DEFINE p == n + 1
           q == m + 1
<1>8. p \in Nat /\ q \in Nat /\ p = Len(u) /\ q = Len(v)
  BY <1>1
<1>9. Places(g, u, v, p, q)
  BY <1>3, <1>5, <1>6, <1>7 DEF Places
<1> HIDE DEF p, q
<1>10. WithoutReturns(u, v)
  BY <1>8, <1>9, ShowsWithoutReturns
<1> QED BY <1>10 DEF u, v

(* A place moves from the rest of the buffer to the line.                  *)
LEMMA PlaceMoves ==
  ASSUME NEW n \in Nat, NEW m \in Nat, m > 1
  PROVE  (n + 1) + (m - 1) = n + m /\ 1 \in 1 .. m - 1
OBVIOUS

(* What Examine makes of the character c that is at the front of the       *)
(* buffer, when it goes into the line: where it is from stays true.        *)
LEMMA CharacterFrom ==
  ASSUME IoInv, Lining, NEW c \in Char, NEW todo \in Seq(Char),
         Len(todo) = Len(io.todo), Len(todo) > 1,
         \A j \in 2 .. Len(todo) : todo[j] = io.todo[j],
         Lining', iolog'.buf = iolog.buf, iolog.error => iolog'.error,
         \A x \in Char : Contains(iopeer.read, x) => Contains(iopeer'.read, x),
         Contains(iopeer'.read, c) \/ (iolog'.error /\ c = iolog.buf[Len(io.line) + 1]),
         io'.line = Append(io.line, c), io'.todo = Tail(todo)
  PROVE  FromBuffer'
<1> DEFINE n == Len(io.line)
           m == Len(todo)
<1>1. /\ n \in Nat /\ m \in Nat /\ m > 1 /\ io.line \in Seq(Char)
      /\ \A i \in 1 .. n : io.line[i] \in Char
  <2>1. io.line \in Seq(Char)
    BY IoFields
  <2> QED BY <2>1, ElementOfSeq
<1>2. /\ Len(io'.line) = n + 1 /\ io'.line[n + 1] = c
      /\ \A i \in 1 .. n : io'.line[i] = io.line[i]
  BY <1>1, AppendProperties
<1>3. /\ Len(io'.todo) = m - 1
      /\ \A j \in 1 .. m - 1 : io'.todo[j] = todo[j + 1]
  BY <1>1
<1>4. /\ n + m = Len(iolog.buf)
      /\ \A j \in 2 .. m : io.todo[j] = iolog.buf[n + j]
      /\ \A i \in 1 .. n :
           Contains(iopeer.read, io.line[i]) \/ (iolog.error /\ io.line[i] = iolog.buf[i])
  BY DEF IoInv, FromBuffer
<1> HIDE DEF n, m
<1>5. \A j \in 1 .. m - 1 : io'.todo[j] = iolog.buf[(n + 1) + j]
  <2> TAKE j \in 1 .. m - 1
  <2>1. j + 1 \in 2 .. m /\ n + (j + 1) = (n + 1) + j
    BY <1>1
  <2>2. todo[j + 1] = io.todo[j + 1] /\ io.todo[j + 1] = iolog.buf[n + (j + 1)]
    BY <1>4, <2>1 DEF m
  <2> QED BY <1>3, <2>1, <2>2
<1>6. \A i \in 1 .. n + 1 :
         Contains(iopeer'.read, io'.line[i]) \/ (iolog'.error /\ io'.line[i] = iolog.buf[i])
  <2> TAKE i \in 1 .. n + 1
  <2>1. CASE i = n + 1
    BY <1>2, <2>1 DEF n
  <2>2. CASE i \in 1 .. n
    <3>1. io'.line[i] = io.line[i] /\ io.line[i] \in Char
      BY <1>1, <1>2, <2>2
    <3>2. Contains(iopeer.read, io.line[i]) => Contains(iopeer'.read, io.line[i])
      BY <3>1
    <3>3. Contains(iopeer.read, io.line[i]) \/ (iolog.error /\ io.line[i] = iolog.buf[i])
      BY <1>4, <2>2
    <3> QED BY <3>1, <3>2, <3>3
  <2>3. i = n + 1 \/ i \in 1 .. n
    BY <1>1
  <2> QED BY <2>1, <2>2, <2>3, Zenon
<1>7. /\ (n + 1) + (m - 1) = Len(iolog.buf)
      /\ 1 \in 1 .. m - 1
  <2>1. n + m = Len(iolog.buf) BY <1>4
  <2>2. n \in Nat /\ m \in Nat /\ m > 1 BY <1>1
  <2> QED BY <2>1, <2>2, PlaceMoves
<1>8. \A j \in 2 .. m - 1 : j \in 1 .. m - 1
  BY <1>1
<1> QED BY <1>2, <1>3, <1>5, <1>6, <1>7, <1>8, ZenonT(30) DEF FromBuffer

(* When it does not, being a carriage return, it stays at the front.       *)
LEMMA CharacterLeftOut ==
  ASSUME IoInv, Lining, NEW todo \in Seq(Char),
         Len(todo) = Len(io.todo), \A j \in 2 .. Len(todo) : todo[j] = io.todo[j],
         Lining', iolog'.buf = iolog.buf, iolog.error => iolog'.error,
         \A x \in Char : Contains(iopeer.read, x) => Contains(iopeer'.read, x),
         Contains(iopeer'.read, todo[1]) \/ todo[1] = iolog.buf[Len(io.line) + 1],
         io'.line = io.line, io'.todo = todo
  PROVE  FromBuffer'
<1>1. /\ Len(io.line) + Len(io.todo) = Len(iolog.buf)
      /\ \A j \in 2 .. Len(io.todo) : io.todo[j] = iolog.buf[Len(io.line) + j]
  BY DEF IoInv, FromBuffer
<1>2. \A i \in 1 .. Len(io.line) :
        Contains(iopeer'.read, io.line[i]) \/ (iolog'.error /\ io.line[i] = iolog.buf[i])
  <2> TAKE i \in 1 .. Len(io.line)
  <2>1. Contains(iopeer.read, io.line[i]) \/ (iolog.error /\ io.line[i] = iolog.buf[i])
    BY DEF IoInv, FromBuffer
  <2>2. io.line[i] \in Char
    BY IoFields, ElementOfSeq
  <2>3. Contains(iopeer.read, io.line[i]) => Contains(iopeer'.read, io.line[i])
    BY <2>2
  <2> QED BY <2>1, <2>3, Zenon
<1>3. \A j \in 2 .. Len(todo) : todo[j] = iolog.buf[Len(io.line) + j]
  BY <1>1
<1> QED BY <1>1, <1>2, <1>3, ZenonT(30) DEF FromBuffer

(* What read_line does with the character in its buffer, after a safe_read *)
(* that got it (it is then the last that was read) or that failed.         *)
LEMMA ExamineStep ==
  ASSUME IoInv, Lining, NEW new \in IoState, NEW before \in IoLog,
         new.fn = "line", Len(new.todo) > 1, new.line = io.line, new.wrote = io.wrote,
         new.nonblock = io.nonblock, new.lastread <= new.now,
         before.fn = "none", before.zero = iolog.zero, before.buf = iolog.buf,
         before.waited <= 2 * IoTimeout, before.early => before.old,
         iopeer' \in IoPeer, iopeer'.read \o iopeer'.stream = iopeer'.sent,
         Len(new.todo) = Len(io.todo),
         \A j \in 2 .. Len(new.todo) : new.todo[j] = io.todo[j],
         iolog.error => before.error,
         \A x \in Char : Contains(iopeer.read, x) => Contains(iopeer'.read, x),
         \/ Contains(iopeer'.read, new.todo[1])
         \/ before.error /\ new.todo[1] = iolog.buf[Len(io.line) + 1],
         (Dirty(before.buf) => ~ before.error) =>
           /\ Dirty(iolog.buf) => ~ iolog.error
           /\ \/ iopeer'.read = Append(iopeer.read, new.todo[1])
              \/ iopeer'.read = iopeer.read /\ new.todo[1] \in {ZERO, RET},
         ~ Dirty(before.buf) => \A k \in 2 .. Len(new.todo) : new.todo[k] = ZERO,
         Examine(new, before)
  PROVE  IoInv'
<1> DEFINE c == new.todo[1]
           log == [before EXCEPT !.began = new.now, !.signal = FALSE, !.urgent = FALSE]
           over == [new EXCEPT !.fn = "none", !.todo = <<>>, !.line = <<>>]
           sound == Dirty(before.buf) => ~ before.error
<1>1. /\ log \in IoLog /\ log.fn = "none" /\ log.zero = iolog.zero
      /\ log.buf = iolog.buf /\ log.error = before.error /\ log.began = new.now
      /\ ~ log.urgent
      /\ log.waited = before.waited /\ log.early = before.early /\ log.old = before.old
  <2>1. new.now \in Nat
    BY DEF IoState
  <2> QED BY <2>1 DEF IoLog
<1>2. /\ new.todo \in Seq(Char) /\ new.line \in Seq(Char) /\ new.wrote = 0
      /\ new.now \in Nat /\ new.lastread \in Int /\ new.nonblock \in BOOLEAN
  BY DEF IoInv, Between, Lining, Writing, IoState
<1>3. c \in Char /\ Tail(new.todo) \in Seq(Char) /\ Append(new.line, c) \in Seq(Char)
  <2>1. c \in Char
    BY <1>2, ElementOfSeq
  <2>2. new.todo # <<>>
    BY <1>2
  <2> QED BY <1>2, <2>1, <2>2, AppendProperties, HeadTailProperties
<1>4. /\ over \in IoState /\ over.fn = "none" /\ over.wrote = 0 /\ over.line = <<>>
      /\ over.nonblock = io.nonblock /\ over.now = new.now
      /\ over.lastread = new.lastread
  <2>1. <<>> \in Seq(Char)
    OBVIOUS
  <2> QED BY <1>2, <2>1 DEF IoState
<1>5. io.nonblock <=> iolog.zero
  BY DEF IoInv, BlockingAgain, Lining, Writing
<1>6. sound => /\ \A k \in 1 .. Len(iopeer.read) : iopeer.read[k] \notin {EOL, ZERO}
               /\ WithoutReturns(iopeer.read, new.line)
               /\ iopeer.read \in Seq(Char)
  BY IoFields DEF IoInv, LineSoFar
<1> HIDE DEF log, over
<1>7. CASE c \in {ZERO, EOL}
  <2> PICK r \in {0, 1}, L \in {<<>>, new.line} :
        /\ io' = over /\ iolog' = Answered(log, r, L)
        /\ r = 1 => c = EOL /\ L = new.line
    <3>1. EOL # ZERO /\ RET # ZERO /\ RET # EOL
      BY DEF EOL, RET, ZERO
    <3> QED BY <1>7, <3>1 DEF Examine, log, over
  <2>1. L \in Seq(Char) /\ r \in Int
    <3>1. <<>> \in Seq(Char)
      OBVIOUS
    <3>2. L = <<>> \/ L = new.line
      OBVIOUS
    <3>3. L \in Seq(Char)
      BY <1>2, <3>1, <3>2, Zenon
    <3>4. r \in Int
      OBVIOUS
    <3> QED BY <3>3, <3>4
  <2>2. /\ iolog' \in IoLog /\ iolog'.fn = "line" /\ iolog'.ret = r /\ iolog'.data = L
        /\ iolog'.zero = iolog.zero /\ iolog'.buf = iolog.buf
        /\ iolog'.error = before.error /\ iolog'.waited = before.waited
        /\ iolog'.early = before.early /\ iolog'.old = before.old
    BY <1>1, <2>1 DEF Answered, IoLog
  <2>3. /\ io' \in IoState /\ io'.fn = "none" /\ io'.wrote = 0 /\ io'.line = <<>>
        /\ io'.nonblock = io.nonblock /\ io'.now = new.now
        /\ io'.lastread = new.lastread
    BY <1>4
  <2>4. ~ Writing' /\ ~ Lining'
    BY <2>3 DEF Writing, Lining
  <2>5. /\ IoTypeOK' /\ Between' /\ Written' /\ LineSoFar' /\ FromBuffer' /\ Clock'
        /\ BlockingAgain'
    BY <1>5, <2>2, <2>3, <2>4
       DEF IoTypeOK, Between, Written, LineSoFar, FromBuffer, Clock, BlockingAgain
  <2>6. WriteExact' /\ WaitsBound' /\ ReadTrue'
    BY <2>2, <2>4, ReadOther DEF WriteExact, WaitsBound
  <2>7. LineTrue'
    <3> SUFFICES ASSUME iolog'.ret = 1
                 PROVE  /\ \A i \in 1 .. Len(iolog'.data) :
                             \/ Contains(iopeer'.read, iolog'.data[i])
                             \/ iolog'.error /\ iolog'.data[i] = iolog'.buf[i]
                        /\ sound => /\ Last(iopeer'.read) = EOL
                                    /\ ToSet(Front(iopeer'.read)) \cap {EOL, ZERO} = {}
                                    /\ WithoutReturns(Front(iopeer'.read), iolog'.data)
      BY <2>2 DEF LineTrue
    <3>1. c = EOL /\ iolog'.data = new.line
      BY <2>2
    <3>0. \A i \in 1 .. Len(iolog'.data) :
            \/ Contains(iopeer'.read, iolog'.data[i])
            \/ iolog'.error /\ iolog'.data[i] = iolog'.buf[i]
      <4> TAKE i \in 1 .. Len(iolog'.data)
      <4>1. Contains(iopeer.read, io.line[i]) \/ (iolog.error /\ io.line[i] = iolog.buf[i])
        BY <3>1 DEF IoInv, FromBuffer
      <4>2. io.line[i] \in Char
        BY <3>1, IoFields, ElementOfSeq, SMTT(30)
      <4> QED BY <2>2, <3>1, <4>1, <4>2
    <3> SUFFICES ASSUME sound
                 PROVE  /\ Last(iopeer'.read) = EOL
                        /\ ToSet(Front(iopeer'.read)) \cap {EOL, ZERO} = {}
                        /\ WithoutReturns(Front(iopeer'.read), iolog'.data)
      BY <3>0
    <3>2. iopeer'.read = Append(iopeer.read, EOL)
      BY <3>1 DEF EOL, ZERO, RET
    <3>3. EOL \in Char
      BY DEF Char
    <3>4. Last(iopeer'.read) = EOL /\ Front(iopeer'.read) = iopeer.read
      BY <1>6, <3>2, <3>3 DEF Last, Front
    <3> QED BY <1>6, <3>1, <3>4 DEF ToSet
  <2> QED BY <2>5, <2>6, <2>7 DEF IoInv
<1>8. CASE c \notin {ZERO, EOL}
  <2>1. /\ iolog' = log
        /\ \/ c = RET /\ io' = new
           \/ c # RET /\ io' = [new EXCEPT !.line = Append(@, c), !.todo = Tail(@)]
    BY <1>8 DEF Examine, log
  <2>2. /\ io' \in IoState /\ io'.fn = "line" /\ io'.wrote = 0
        /\ io'.nonblock = io.nonblock /\ io'.now = new.now
        /\ io'.lastread = new.lastread
        /\ c = RET => io'.line = new.line /\ io'.todo = new.todo
        /\ c # RET => io'.line = Append(new.line, c) /\ io'.todo = Tail(new.todo)
    BY <1>2, <1>3, <2>1 DEF IoState
  <2>3. ~ Writing' /\ Lining'
    BY <2>2 DEF Writing, Lining
  <2>4. IoTypeOK' /\ Between' /\ Written' /\ Clock' /\ BlockingAgain'
    BY <1>1, <1>2, <1>5, <2>1, <2>2, <2>3
       DEF IoTypeOK, Between, Written, Clock, BlockingAgain
  <2>5. WriteExact' /\ WaitsBound' /\ LineTrue' /\ ReadTrue'
    <3>1. iolog'.began = io'.now /\ io'.now \in Int /\ io'.now - io'.now <= IoTimeout
      BY <1>1, <1>2, <2>1, <2>2, IoAssumption
    <3> QED BY <1>1, <2>1, <2>3, <3>1, ReadOther DEF WriteExact, WaitsBound, LineTrue
  <2>6. ASSUME sound
        PROVE  /\ \A k \in 1 .. Len(iopeer'.read) : iopeer'.read[k] \notin {EOL, ZERO}
               /\ WithoutReturns(iopeer'.read, io'.line)
    <3>1. CASE iopeer'.read = iopeer.read /\ c \in {ZERO, RET}
      BY <1>6, <1>8, <2>2, <2>6, <3>1
    <3>2. CASE iopeer'.read = Append(iopeer.read, c)
      <4>1. /\ Len(iopeer'.read) = Len(iopeer.read) + 1
            /\ \A k \in 1 .. Len(iopeer.read) : iopeer'.read[k] = iopeer.read[k]
            /\ iopeer'.read[Len(iopeer.read) + 1] = c
            /\ Len(iopeer.read) \in Nat
        BY <1>3, <1>6, <2>6, <3>2, AppendProperties
      <4>2. \A k \in 1 .. Len(iopeer'.read) : iopeer'.read[k] \notin {EOL, ZERO}
        <5> TAKE k \in 1 .. Len(iopeer'.read)
        <5>1. CASE k = Len(iopeer.read) + 1
          BY <1>8, <4>1, <5>1
        <5>2. CASE k \in 1 .. Len(iopeer.read)
          BY <1>6, <2>6, <4>1, <5>2
        <5> QED BY <4>1, <5>1, <5>2
      <4>3. WithoutReturns(iopeer'.read, io'.line)
        <5>1. CASE c = RET
          BY <1>2, <1>3, <1>6, <2>2, <2>6, <3>2, <5>1, ReturnLeftOut
        <5>2. CASE c # RET
          BY <1>2, <1>3, <1>6, <2>2, <2>6, <3>2, <5>2, CharacterKept
        <5> QED BY <5>1, <5>2
      <4> QED BY <4>2, <4>3
    <3> QED BY <2>6, <3>1, <3>2
  <2>7. ASSUME ~ Dirty(before.buf)
        PROVE  \A k \in 1 .. Len(io'.todo) : io'.todo[k] = ZERO \/ (k = 1 /\ io'.todo[k] = RET)
    <3> TAKE k \in 1 .. Len(io'.todo)
    <3>1. CASE c = RET
      <4>1. io'.todo = new.todo /\ Len(new.todo) \in Nat
        BY <1>2, <2>2, <3>1
      <4>2. k = 1 \/ k \in 2 .. Len(new.todo)
        BY <4>1
      <4> QED BY <2>7, <3>1, <4>1, <4>2
    <3>2. CASE c # RET
      <4>1. io'.todo = Tail(new.todo) /\ Len(new.todo) \in Nat
        BY <1>2, <2>2, <3>2
      <4>2. Len(io'.todo) = Len(new.todo) - 1 /\ io'.todo[k] = new.todo[k + 1]
        BY <1>2, <4>1
      <4>3. k + 1 \in 2 .. Len(new.todo)
        BY <4>1, <4>2
      <4> QED BY <2>7, <4>2, <4>3
    <3> QED BY <3>1, <3>2
  <2>8. LineSoFar'
    <3>1. iolog'.buf = before.buf /\ iolog'.error = before.error
      BY <1>1, <2>1
    <3> QED BY <2>6, <2>7, <3>1 DEF LineSoFar
  <2>9. FromBuffer'
    <3>1. iolog'.buf = iolog.buf /\ iolog'.error = before.error
      BY <1>1, <2>1
    <3>2. CASE c = RET
      <4>1. io'.line = io.line /\ io'.todo = new.todo
        BY <2>2, <3>2
      <4>2. \/ Contains(iopeer'.read, new.todo[1])
            \/ new.todo[1] = iolog.buf[Len(io.line) + 1]
        OBVIOUS
      <4> QED BY <1>2, <2>3, <3>1, <4>1, <4>2, CharacterLeftOut
    <3>3. CASE c # RET
      <4>1. io'.line = Append(io.line, c) /\ io'.todo = Tail(new.todo)
        BY <2>2, <3>3
      <4> QED BY <1>2, <1>3, <2>3, <3>1, <4>1, CharacterFrom
    <3> QED BY <3>2, <3>3
  <2> QED BY <2>4, <2>5, <2>8, <2>9 DEF IoInv
<1> QED BY <1>7, <1>8

(* The characters that are written, and the buffers of callers.            *)
LEMMA IoDataIsText ==
  /\ \A d \in IoData : d \in Seq(Char)
  /\ \A buf \in LineBufs : buf \in Seq(Char) /\ Len(buf) = LineBuf
<1>1. "a" \in Char /\ EOL \in Char /\ ZERO \in Char
  BY DEF Char
<1>2. <<>> \in Seq(Char) /\ <<"a">> \in Seq(Char) /\ <<"a", EOL>> \in Seq(Char)
  BY <1>1
<1>3. ASSUME NEW buf \in LineBufs PROVE buf \in Seq(Char) /\ Len(buf) = LineBuf
  <2>1. LineBuf \in Nat
    BY IoAssumption
  <2>2. buf \in [1 .. LineBuf -> Char]
    BY <1>1, <2>1 DEF LineBufs
  <2> QED BY <2>1, <2>2
<1> QED BY <1>2, <1>3 DEF IoData

(* A write begins, or cannot.                                              *)
LEMMA WriteCalled ==
  ASSUME IoInv, NEW d \in IoData, NEW fn \in {"write", "write_nb"},
         write_fd_timeout(d, fn) \/ NdelayFails(d, fn)
  PROVE  IoInv'
<1>1. /\ d \in Seq(Char) /\ <<>> \in Seq(Char) /\ Len(<<>>) = 0 /\ <<>> \o d = d
      /\ iolog.calls + 1 \in Nat
  BY IoDataIsText, IoFields, SMTT(30)
<1>2. io.fn = "none" /\ io.wrote = 0 /\ io.line = <<>> /\ (io.nonblock <=> iolog.zero)
      /\ io.lastread <= io.now
  <2>1. io.fn = "none"
    BY DEF write_fd_timeout, NdelayFails, Called
  <2> QED BY <2>1 DEF IoInv, Between, Clock, BlockingAgain, Writing, Lining
<1>3. /\ iopeer' \in IoPeer /\ iopeer'.got = <<>>
      /\ iopeer'.read \o iopeer'.stream = iopeer'.sent
  BY AfreshFields DEF write_fd_timeout, NdelayFails
<1> DEFINE log == NewLog(iolog.calls + 1)
<1>4. /\ log \in IoLog /\ log.fn = "none" /\ ~ log.zero /\ log.waited = 0
      /\ ~ log.early
  BY <1>1, NewLogFields
<1>5. 0 <= 2 * IoTimeout
  BY IoAssumption
<1> HIDE DEF log
<1>6. CASE write_fd_timeout(d, fn)
  <2>1. /\ io' \in IoState /\ io'.fn = fn /\ io'.todo = d /\ io'.nonblock
        /\ io'.wrote = 0 /\ io'.line = <<>> /\ io'.now = io.now
        /\ io'.lastread = io.lastread
    BY <1>1, <1>2, <1>6, IoFields DEF write_fd_timeout, IoState
  <2>2. iolog' = [log EXCEPT !.data = d]
    BY <1>6 DEF write_fd_timeout, log
  <2>3. /\ iolog' \in IoLog /\ iolog'.fn = "none" /\ ~ iolog'.zero /\ iolog'.data = d
        /\ iolog'.waited = 0 /\ ~ iolog'.early
    BY <1>1, <1>4, <2>2 DEF IoLog
  <2>4. Writing' /\ ~ Lining'
    BY <2>1 DEF Writing, Lining
  <2>5. /\ IoTypeOK' /\ Between' /\ Written' /\ LineSoFar' /\ FromBuffer' /\ Clock'
        /\ BlockingAgain'
    BY <1>1, <1>2, <1>3, <2>1, <2>3, <2>4
       DEF IoTypeOK, Between, Written, LineSoFar, FromBuffer, Clock, BlockingAgain
  <2>6. WriteExact' /\ LineTrue' /\ WaitsBound' /\ ReadTrue'
    BY <1>1, <1>3, <1>5, <2>1, <2>3, <2>4, ReadOther DEF WriteExact, LineTrue, WaitsBound
  <2> QED BY <2>5, <2>6 DEF IoInv
<1>7. CASE NdelayFails(d, fn)
  <2>1. io' = io
    BY <1>7 DEF NdelayFails
  <2>2. iolog' = [log EXCEPT !.fn = fn, !.data = d, !.ret = -1, !.zero = iolog.zero]
    BY <1>7 DEF NdelayFails, log
  <2>3. /\ iolog' \in IoLog /\ iolog'.fn = fn /\ iolog'.zero = iolog.zero
        /\ iolog'.ret = -1 /\ iolog'.waited = 0 /\ ~ iolog'.early
    <3>1. -1 \in Int /\ iolog.zero \in BOOLEAN
      BY IoFields
    <3> QED BY <1>1, <1>4, <2>2, <3>1 DEF IoLog
  <2>4. ~ Writing' /\ ~ Lining'
    BY <1>2, <2>1 DEF Writing, Lining
  <2>5. /\ IoTypeOK' /\ Between' /\ Written' /\ LineSoFar' /\ FromBuffer' /\ Clock'
        /\ BlockingAgain'
    BY <1>2, <1>3, <2>1, <2>3, <2>4, IoFields
       DEF IoTypeOK, Between, Written, LineSoFar, FromBuffer, Clock, BlockingAgain
  <2>6. WriteExact'
    <3>1. ~ (iolog'.ret >= 0)
      BY <2>3
    <3> QED BY <2>4, <3>1 DEF WriteExact
  <2>7. LineTrue' /\ WaitsBound' /\ ReadTrue'
    BY <1>3, <1>5, <2>3, <2>4, ReadOther DEF LineTrue, WaitsBound
  <2> QED BY <2>5, <2>6, <2>7 DEF IoInv
<1> QED BY <1>6, <1>7

(* The first k characters of t are put behind g: the rest stays.           *)
LEMMA PartMoved ==
  ASSUME NEW S, NEW g \in Seq(S), NEW t \in Seq(S), NEW k \in 1 .. Len(t)
  PROVE  /\ SubSeq(t, 1, k) \in Seq(S) /\ SubSeq(t, k + 1, Len(t)) \in Seq(S)
         /\ k \in Nat
         /\ g \o SubSeq(t, 1, k) \in Seq(S)
         /\ Len(g \o SubSeq(t, 1, k)) = Len(g) + k
         /\ (g \o SubSeq(t, 1, k)) \o SubSeq(t, k + 1, Len(t)) = g \o t
         /\ Len(g) \in Nat
<1> DEFINE first == SubSeq(t, 1, k)
           rest == SubSeq(t, k + 1, Len(t))
<1>1. /\ first \in Seq(S) /\ rest \in Seq(S) /\ Len(first) = k
      /\ first \o rest = t /\ k \in Nat /\ Len(g) \in Nat
  OBVIOUS
<1> HIDE DEF first, rest
<1>2. (g \o first) \o rest = g \o (first \o rest)
  <2>1. first \in Seq(S) /\ rest \in Seq(S)
    BY <1>1
  <2> QED BY <2>1
<1>3. g \o first \in Seq(S) /\ Len(g \o first) = Len(g) + Len(first)
  BY <1>1, ConcatProperties
<1> QED BY <1>1, <1>2, <1>3 DEF first, rest

(* The descriptor takes a part of what is left.                            *)
LEMMA WritePartStep ==
  ASSUME IoInv, WritePart
  PROVE  IoInv'
<1> PICK k \in 1 .. Len(io.todo) : WriteSome(k)
  BY DEF WritePart
<1> DEFINE first == SubSeq(io.todo, 1, k)
           rest == SubSeq(io.todo, k + 1, Len(io.todo))
<1>1. Writing /\ ~ Lining /\ iolog.fn = "none" /\ iolog' = iolog
  BY DEF WritePart, WriteSome, Writing, Lining, IoInv, Between
<1>2. io.todo \in Seq(Char) /\ iopeer.got \in Seq(Char)
  BY IoFields
<1>3. /\ first \in Seq(Char) /\ rest \in Seq(Char) /\ k \in Nat
      /\ iopeer.got \o first \in Seq(Char)
      /\ Len(iopeer.got \o first) = Len(iopeer.got) + k
      /\ (iopeer.got \o first) \o rest = iopeer.got \o io.todo
      /\ Len(iopeer.got) \in Nat
  <2>1. \A g, t \in Seq(Char) : \A i \in 1 .. Len(t) :
          /\ SubSeq(t, 1, i) \in Seq(Char) /\ SubSeq(t, i + 1, Len(t)) \in Seq(Char)
          /\ i \in Nat
          /\ g \o SubSeq(t, 1, i) \in Seq(Char)
          /\ Len(g \o SubSeq(t, 1, i)) = Len(g) + i
          /\ (g \o SubSeq(t, 1, i)) \o SubSeq(t, i + 1, Len(t)) = g \o t
          /\ Len(g) \in Nat
    BY PartMoved, Zenon
  <2> QED BY <1>2, <2>1, Zenon
<1> HIDE DEF first, rest
<1> DEFINE got == iopeer.got \o first
<1>4. /\ iopeer' = [iopeer EXCEPT !.got = got]
      /\ io' = [io EXCEPT !.todo = rest, !.wrote = io.wrote + k]
  BY DEF WriteSome, first, rest
<1>5. got \in Seq(Char) /\ io.wrote + k \in Nat
  <2>1. io.wrote \in Nat
    BY IoFields
  <2> QED BY <1>3, <2>1
<1> HIDE DEF got
<1>6. /\ iopeer' \in IoPeer /\ iopeer'.got = got /\ iopeer'.read = iopeer.read
      /\ iopeer'.stream = iopeer.stream /\ iopeer'.sent = iopeer.sent
      /\ iopeer'.closed = iopeer.closed
  BY <1>4, <1>5, IoFields DEF IoPeer
<1>7. /\ io' \in IoState /\ io'.fn = io.fn /\ io'.todo = rest
      /\ io'.wrote = io.wrote + k /\ io'.line = io.line /\ io'.nonblock = io.nonblock
      /\ io'.now = io.now /\ io'.lastread = io.lastread
  BY <1>3, <1>4, <1>5, IoFields DEF IoState
<1>8. Writing' /\ ~ Lining'
  BY <1>1, <1>7 DEF Writing, Lining
<1>9. IoTypeOK' /\ Between' /\ LineSoFar' /\ FromBuffer' /\ Clock' /\ BlockingAgain'
  BY <1>1, <1>6, <1>7, <1>8
     DEF IoInv, IoTypeOK, Between, LineSoFar, FromBuffer, Clock, BlockingAgain
<1>10. Written'
  BY <1>1, <1>3, <1>6, <1>7 DEF IoInv, Written, got
<1>11. WriteExact' /\ LineTrue' /\ WaitsBound' /\ ReadTrue'
  <2>1. WriteExact' /\ LineTrue'
    BY <1>1, <1>3, <1>6, <1>7 DEF IoInv, WriteExact, LineTrue, got
  <2>2. WaitsBound'
    BY <1>1, <1>8 DEF IoInv, WaitsBound
  <2> QED BY <1>1, <1>6, <2>1, <2>2, ReadKept DEF IoInv
<1> QED BY <1>9, <1>10, <1>11 DEF IoInv

(* A write is over: everything was taken, or a call failed.                *)
LEMMA WriteEnds ==
  ASSUME IoInv, WriteDone \/ WriteFails \/ WriteZero
  PROVE  IoInv'
<1> DEFINE zero == WriteZero /\ io.fn = "write"
<1>1. /\ Writing /\ ~ Lining /\ iolog.fn = "none" /\ iopeer' = iopeer /\ io.line = <<>>
      /\ ~ iolog.zero /\ iolog.zero \in BOOLEAN
      /\ io.fn \in {"write", "write_nb"} /\ <<>> \in Seq(Char)
  BY IoFields DEF WriteDone, WriteFails, WriteZero, Writing, Lining, IoInv, Between, Written
<1>2. \E ret \in Int, z \in BOOLEAN :
        /\ io' = [io EXCEPT !.fn = "none", !.todo = <<>>, !.wrote = 0, !.line = <<>>,
                            !.nonblock = z]
        /\ iolog' = [iolog EXCEPT !.fn = io.fn, !.ret = ret, !.zero = z]
        /\ ret >= 0 => WriteDone /\ ret = io.wrote
  <2>1. iolog = [iolog EXCEPT !.zero = FALSE] /\ io = [io EXCEPT !.line = <<>>]
    <3>1. iolog.zero = FALSE
      BY <1>1
    <3> QED BY <1>1, <3>1, IoFields DEF IoLog, IoState
  <2>2. CASE WriteDone
    <3>1. /\ io' = [io EXCEPT !.fn = "none", !.todo = <<>>, !.wrote = 0, !.line = <<>>,
                              !.nonblock = FALSE]
          /\ iolog' = [iolog EXCEPT !.fn = io.fn, !.ret = io.wrote]
      BY <2>2 DEF WriteDone, IoReturn
    <3>2. iolog' = [iolog EXCEPT !.fn = io.fn, !.ret = io.wrote, !.zero = FALSE]
      BY <2>1, <3>1, IoFields DEF IoLog
    <3>3. io.wrote \in Int
      BY IoFields
    <3> QED BY <2>2, <3>1, <3>2, <3>3
  <2>3. CASE WriteFails
    <3> PICK ret \in {-1, -2} : IoReturn(io.fn, ret, FALSE)
      BY <2>3 DEF WriteFails
    <3>1. /\ io' = [io EXCEPT !.fn = "none", !.todo = <<>>, !.wrote = 0, !.line = <<>>,
                              !.nonblock = FALSE]
          /\ iolog' = [iolog EXCEPT !.fn = io.fn, !.ret = ret]
      BY DEF IoReturn
    <3>2. iolog' = [iolog EXCEPT !.fn = io.fn, !.ret = ret, !.zero = FALSE]
      BY <2>1, <3>1, IoFields DEF IoLog
    <3>3. ret \in Int /\ ~ (ret >= 0)
      OBVIOUS
    <3> QED BY <3>1, <3>2, <3>3
  <2>4. CASE WriteZero
    <3> DEFINE z == (io.fn = "write")
    <3>1. /\ io' = [io EXCEPT !.fn = "none", !.todo = <<>>, !.wrote = 0, !.nonblock = z]
          /\ iolog' = [iolog EXCEPT !.fn = io.fn, !.ret = -1, !.zero = z]
      BY <2>4 DEF WriteZero
    <3>2. z \in BOOLEAN /\ -1 \in Int /\ ~ (-1 >= 0)
      OBVIOUS
    <3> HIDE DEF z
    <3>3. io' = [io EXCEPT !.fn = "none", !.todo = <<>>, !.wrote = 0, !.line = <<>>,
                           !.nonblock = z]
      BY <1>1, <3>1, <3>2, IoFields DEF IoState
    <3> QED BY <3>1, <3>2, <3>3
  <2> QED BY <2>2, <2>3, <2>4
<1>3. PICK ret \in Int, z \in BOOLEAN :
        /\ io' = [io EXCEPT !.fn = "none", !.todo = <<>>, !.wrote = 0, !.line = <<>>,
                            !.nonblock = z]
        /\ iolog' = [iolog EXCEPT !.fn = io.fn, !.ret = ret, !.zero = z]
        /\ ret >= 0 => WriteDone /\ ret = io.wrote
  BY <1>2
<1>4. /\ io' \in IoState /\ io'.fn = "none" /\ io'.wrote = 0 /\ io'.line = <<>>
      /\ io'.nonblock = z /\ io'.now = io.now /\ io'.lastread = io.lastread
  BY <1>1, <1>3, IoFields DEF IoState
<1>5. /\ iolog' \in IoLog /\ iolog'.fn = io.fn /\ iolog'.ret = ret /\ iolog'.zero = z
      /\ iolog'.data = iolog.data /\ iolog'.waited = iolog.waited
      /\ iolog'.early = iolog.early /\ iolog'.old = iolog.old
  BY <1>1, <1>3, IoFields DEF IoLog
<1>6. ~ Writing' /\ ~ Lining'
  BY <1>4 DEF Writing, Lining
<1>7. /\ IoTypeOK' /\ Between' /\ Written' /\ LineSoFar' /\ FromBuffer' /\ Clock'
      /\ BlockingAgain'
  BY <1>1, <1>4, <1>5, <1>6
     DEF IoInv, IoTypeOK, Between, Written, LineSoFar, FromBuffer, Clock, BlockingAgain
<1>8. WriteExact'
  <2>1. ASSUME ret >= 0
        PROVE  iopeer'.got = iolog'.data /\ ret = Len(iolog'.data)
    <3>1. io.todo = <<>> /\ ret = io.wrote
      BY <1>3, <2>1 DEF WriteDone
    <3>2. iopeer.got \o io.todo = iolog.data /\ io.wrote = Len(iopeer.got)
      BY <1>1 DEF IoInv, WriteExact, Written
    <3>3. iopeer.got \o <<>> = iopeer.got
      BY IoFields
    <3> QED BY <1>1, <1>5, <3>1, <3>2, <3>3
  <2> QED BY <1>5, <1>6, <2>1 DEF WriteExact
<1>9. LineTrue' /\ WaitsBound' /\ ReadTrue'
  BY <1>1, <1>5, <1>6, ReadKept DEF IoInv, LineTrue, WaitsBound
<1> QED BY <1>7, <1>8, <1>9 DEF IoInv

(* read_fd_timeout begins.                                                 *)
LEMMA ReadCalled ==
  ASSUME IoInv, read_fd_timeout
  PROVE  IoInv'
<1> DEFINE log == NewLog(iolog.calls + 1)
<1>1. /\ io.fn = "none" /\ io.wrote = 0 /\ io.line = <<>> /\ (io.nonblock <=> iolog.zero)
      /\ io.lastread <= io.now
  <2>1. io.fn = "none"
    BY DEF read_fd_timeout, Called
  <2> QED BY <2>1 DEF IoInv, Between, Clock, BlockingAgain, Writing, Lining
<1>2. /\ log \in IoLog /\ log.fn = "none" /\ log.waited = 0 /\ ~ log.early
  <2>1. iolog.calls + 1 \in Nat
    BY IoFields, SMTT(30)
  <2> QED BY <2>1, NewLogFields
<1>3. /\ iopeer' \in IoPeer /\ iopeer'.read = <<>>
      /\ iopeer'.read \o iopeer'.stream = iopeer'.sent
  BY AfreshFields DEF read_fd_timeout
<1>4. /\ io' \in IoState /\ io'.fn = "read" /\ io'.wrote = 0 /\ io'.line = <<>>
      /\ io'.nonblock = io.nonblock /\ io'.now = io.now /\ io'.lastread = io.lastread
  BY <1>1, IoFields DEF read_fd_timeout, IoState
<1>5. iolog' = [log EXCEPT !.zero = iolog.zero]
  BY DEF read_fd_timeout
<1> HIDE DEF log
<1>6. /\ iolog' \in IoLog /\ iolog'.fn = "none" /\ iolog'.zero = iolog.zero
      /\ iolog'.waited = 0 /\ ~ iolog'.early
  BY <1>2, <1>5, IoFields DEF IoLog
<1>7. ~ Writing' /\ ~ Lining'
  BY <1>4 DEF Writing, Lining
<1>8. /\ IoTypeOK' /\ Between' /\ Written' /\ LineSoFar' /\ FromBuffer' /\ Clock'
      /\ BlockingAgain'
  BY <1>1, <1>3, <1>4, <1>6, <1>7
     DEF IoTypeOK, Between, Written, LineSoFar, FromBuffer, Clock, BlockingAgain
<1>9. WriteExact' /\ LineTrue' /\ WaitsBound' /\ ReadTrue'
  <2>1. 0 <= 2 * IoTimeout
    BY IoAssumption
  <2> QED BY <1>3, <1>6, <1>7, <2>1, ReadOther DEF WriteExact, LineTrue, WaitsBound
<1> QED BY <1>8, <1>9 DEF IoInv

(* read_fd_timeout is over: the data, the end, the timeout or an error.    *)
LEMMA ReadOver ==
  ASSUME IoInv, Reading, NEW ret \in Int, ReadReturns(ret), iopeer' \in IoPeer, ReadTrue'
  PROVE  IoInv'
<1>1. /\ ~ Writing /\ ~ Lining /\ io.wrote = 0 /\ io.line = <<>>
      /\ (io.nonblock <=> iolog.zero) /\ io.lastread <= io.now
  <2>1. ~ Writing /\ ~ Lining
    BY DEF Reading, Writing, Lining
  <2> QED BY <2>1 DEF IoInv, Between, Clock, BlockingAgain
<1>2. /\ io' \in IoState /\ io'.fn = "none" /\ io'.wrote = 0 /\ io'.line = <<>>
      /\ io'.nonblock = io.nonblock /\ io'.now = io.now /\ io'.lastread = io.lastread
  BY <1>1, IoFields DEF ReadReturns, IoState
<1>3. /\ iolog' \in IoLog /\ iolog'.fn = "read" /\ iolog'.zero = iolog.zero
      /\ iolog'.waited = iolog.waited /\ iolog'.early = iolog.early
      /\ iolog'.old = iolog.old
  BY IoFields DEF ReadReturns, IoLog
<1>4. ~ Writing' /\ ~ Lining'
  BY <1>2 DEF Writing, Lining
<1>5. /\ IoTypeOK' /\ Between' /\ Written' /\ LineSoFar' /\ FromBuffer' /\ Clock'
      /\ BlockingAgain'
  BY <1>1, <1>2, <1>3, <1>4
     DEF IoTypeOK, Between, Written, LineSoFar, FromBuffer, Clock, BlockingAgain
<1>6. WriteExact' /\ LineTrue' /\ WaitsBound'
  BY <1>3, <1>4 DEF IoInv, WriteExact, LineTrue, WaitsBound
<1> QED BY <1>5, <1>6 DEF IoInv

(* A part of the stream is read.                                           *)
LEMMA ReadPartStep ==
  ASSUME IoInv, ReadPart
  PROVE  IoInv'
<1>1. PICK m \in 1 .. Len(iopeer.stream) : m <= ReadBuf /\ ReadSome(m)
  BY DEF ReadPart
<1> DEFINE first == SubSeq(iopeer.stream, 1, m)
           rest == SubSeq(iopeer.stream, m + 1, Len(iopeer.stream))
           mark == IF iopeer.mark > 0 THEN iopeer.mark - m ELSE -1
<1>2. iopeer.stream \in Seq(Char) /\ iopeer.mark \in Int
  BY IoFields
<1>3. Reading /\ iopeer.read = <<>>
  BY DEF ReadPart, Reading, IoInv, Between
<1>4. /\ first \in Seq(Char) /\ rest \in Seq(Char) /\ Len(first) = m
      /\ first \o rest = iopeer.stream /\ m \in Nat /\ m > 0
  BY <1>2
<1>5. iopeer.sent = iopeer.stream
  <2>1. <<>> \o iopeer.stream = iopeer.stream
    BY <1>2
  <2> QED BY <1>3, <2>1 DEF IoInv, ReadTrue
<1>6. mark \in Int
  BY <1>2, <1>4
<1>7. /\ iopeer' = [iopeer EXCEPT !.stream = rest, !.read = first, !.mark = mark]
      /\ ReadReturns(m)
  BY <1>1 DEF ReadSome
<1> HIDE DEF first, rest, mark
<1>8. /\ iopeer' \in IoPeer /\ iopeer'.read = first /\ iopeer'.stream = rest
      /\ iopeer'.sent = iopeer.sent
  BY <1>4, <1>6, <1>7, IoFields DEF IoPeer
<1>9. iolog'.fn = "read" /\ iolog'.ret = m
  BY <1>7, IoFields DEF ReadReturns, IoLog
<1>10. first # <<>>
  BY <1>4
<1>11. ReadTrue'
  BY <1>1, <1>4, <1>5, <1>8, <1>9, <1>10 DEF ReadTrue
<1> QED BY <1>3, <1>4, <1>7, <1>8, <1>11, ReadOver

(* Nothing is read.                                                        *)
LEMMA ReadNothingStep ==
  ASSUME IoInv, ReadNothing
  PROVE  IoInv'
<1>1. Reading /\ iopeer' = iopeer /\ iopeer.read = <<>>
  BY DEF ReadNothing, Reading, IoInv, Between
<1>2. PICK ret \in {0, -1, -2} : ReadReturns(ret) /\ (ret = 0 => iopeer.closed)
  BY DEF ReadNothing
<1>3. ret \in Int /\ ret <= 0 /\ ret <= ReadBuf
  BY IoAssumption
<1>4. iolog'.fn = "read" /\ iolog'.ret = ret
  BY <1>2, <1>3, IoFields DEF ReadReturns, IoLog
<1>5. ReadTrue'
  BY <1>1, <1>2, <1>3, <1>4 DEF IoInv, ReadTrue
<1> QED BY <1>1, <1>2, <1>3, <1>5, IoFields, ReadOver

(* read_line is called, with a buffer.                                     *)
LEMMA LineCalled ==
  ASSUME IoInv, NEW buf \in LineBufs, read_line(buf)
  PROVE  IoInv'
<1> DEFINE log == NewLog(iolog.calls + 1)
<1>1. /\ io.fn = "none" /\ ~ Writing /\ ~ Lining /\ io.wrote = 0 /\ io.line = <<>>
      /\ (io.nonblock <=> iolog.zero) /\ io.lastread <= io.now
  <2>1. io.fn = "none"
    BY DEF read_line, Called
  <2> QED BY <2>1 DEF IoInv, Between, Clock, BlockingAgain, Writing, Lining
<1>2. /\ log \in IoLog /\ log.fn = "none" /\ log.waited = 0 /\ ~ log.early
      /\ ~ log.urgent
  <2>1. iolog.calls + 1 \in Nat
    BY IoFields, SMTT(30)
  <2> QED BY <2>1, NewLogFields
<1>3. buf \in Seq(Char) /\ <<>> \in Seq(Char) /\ Len(<<>>) = 0
  BY IoDataIsText
<1>4. ~ Dirty(buf) => \A k \in 1 .. Len(buf) : buf[k] = ZERO
  BY DEF Dirty
<1>5. /\ iopeer' \in IoPeer /\ iopeer'.read = <<>>
      /\ iopeer'.read \o iopeer'.stream = iopeer'.sent
  BY AfreshFields DEF read_line
<1>6. /\ io' \in IoState /\ io'.fn = "line" /\ io'.todo = buf /\ io'.wrote = 0
      /\ io'.line = <<>> /\ io'.nonblock = io.nonblock /\ io'.now = io.now
      /\ io'.lastread = io.lastread
  BY <1>1, <1>3, IoFields DEF read_line, IoState
<1>7. iolog' = [log EXCEPT !.zero = iolog.zero, !.began = io.now, !.buf = buf]
  BY DEF read_line
<1> HIDE DEF log
<1>8. /\ iolog' \in IoLog /\ iolog'.fn = "none" /\ iolog'.zero = iolog.zero
      /\ iolog'.began = io.now /\ iolog'.buf = buf
      /\ iolog'.waited = 0 /\ ~ iolog'.early /\ ~ iolog'.urgent
  BY <1>2, <1>3, <1>7, IoFields DEF IoLog
<1>9. ~ Writing' /\ Lining'
  BY <1>6 DEF Writing, Lining
<1>10. IoTypeOK' /\ Between' /\ Written' /\ Clock' /\ BlockingAgain'
  <2>1. IoTypeOK' /\ Between' /\ Written'
    BY <1>5, <1>6, <1>8, <1>9 DEF IoTypeOK, Between, Written, Lining, Writing
  <2>2. Clock'
    BY <1>1, <1>6, <1>8, IoFields, SMTT(30) DEF Clock
  <2> QED BY <1>1, <1>6, <1>8, <2>1, <2>2 DEF BlockingAgain
<1>11. LineSoFar'
  <2>1. \A k \in 1 .. Len(iopeer'.read) : iopeer'.read[k] \notin {EOL, ZERO}
    BY <1>3, <1>5
  <2>2. WithoutReturns(iopeer'.read, io'.line)
    BY <1>5, <1>6, EmptyWithoutReturns
  <2> QED BY <1>4, <1>6, <1>8, <2>1, <2>2 DEF LineSoFar
<1>12. FromBuffer'
  <2>1. Len(buf) \in Nat /\ \A j \in 1 .. Len(buf) : 0 + j = j
    BY <1>3
  <2> QED BY <1>3, <1>6, <1>8, <2>1 DEF FromBuffer
<1>13. WriteExact' /\ LineTrue' /\ WaitsBound' /\ ReadTrue'
  <2>1. WriteExact' /\ LineTrue' /\ ReadTrue'
    BY <1>5, <1>8, <1>9, ReadOther DEF WriteExact, LineTrue
  <2>2. 0 <= 2 * IoTimeout /\ io.now - io.now <= IoTimeout
    BY IoAssumption, IoFields
  <2> QED BY <1>6, <1>8, <2>1, <2>2 DEF WaitsBound
<1> QED BY <1>10, <1>11, <1>12, <1>13 DEF IoInv

(* safe_read gets a character.                                             *)
LEMMA LineCharStep ==
  ASSUME IoInv, LineChar
  PROVE  IoInv'
<1> DEFINE h == Head(iopeer.stream)
           buf == [io.todo EXCEPT ![1] = h]
           new == [io EXCEPT !.lastread = io.now, !.todo = buf]
           mark == IF iopeer.mark >= 0 THEN iopeer.mark - 1 ELSE iopeer.mark
<1>1. Lining /\ Len(io.todo) > 1 /\ iopeer.stream # <<>>
  BY DEF LineChar, HasRoom
<1>2. /\ h \in Char /\ Tail(iopeer.stream) \in Seq(Char)
      /\ Append(iopeer.read, h) \in Seq(Char)
      /\ Append(iopeer.read, h) \o Tail(iopeer.stream) = iopeer.sent
  <2>1. iopeer.stream \in Seq(Char) /\ iopeer.read \in Seq(Char)
    BY IoFields
  <2>2. h \in Char /\ Tail(iopeer.stream) \in Seq(Char)
    BY <1>1, <2>1, HeadTailProperties
  <2>3. Append(iopeer.read, h) \o Tail(iopeer.stream) = iopeer.read \o iopeer.stream
    <3> DEFINE r == iopeer.read
               t == Tail(iopeer.stream)
    <3>1. iopeer.stream = <<h>> \o t
      BY <1>1, <2>1
    <3>2. r \in Seq(Char) /\ t \in Seq(Char) /\ <<h>> \in Seq(Char)
      BY <2>1, <2>2
    <3> HIDE DEF r, t, h
    <3>3. Append(r, h) = r \o <<h>>
      BY <3>2
    <3>4. (r \o <<h>>) \o t = r \o (<<h>> \o t)
      BY <3>2
    <3> QED BY <3>1, <3>3, <3>4 DEF r, t
  <2>4. iopeer.read \o iopeer.stream = iopeer.sent
    BY DEF IoInv, ReadTrue
  <2> HIDE DEF h
  <2> QED BY <2>1, <2>2, <2>3, <2>4, AppendProperties
<1>3. /\ buf \in Seq(Char) /\ Len(buf) = Len(io.todo) /\ buf[1] = h
      /\ \A k \in 2 .. Len(io.todo) : buf[k] = io.todo[k]
  <2>1. io.todo \in Seq(Char) /\ Len(io.todo) \in Nat
    BY IoFields, SMTT(30)
  <2> HIDE DEF h
  <2> QED BY <1>1, <1>2, <2>1
<1>4. /\ iopeer' = [iopeer EXCEPT !.stream = Tail(iopeer.stream),
                                  !.read = Append(iopeer.read, h), !.mark = mark]
      /\ Examine(new, iolog)
  <2>1. [io EXCEPT !.lastread = io.now, !.todo[1] = h] = new
    BY IoFields DEF IoState
  <2> QED BY <2>1 DEF LineChar
<1>4a. mark \in Int
  BY IoFields
<1> HIDE DEF h, buf, mark
<1>5. /\ iopeer' \in IoPeer /\ iopeer'.read = Append(iopeer.read, h)
      /\ iopeer'.read \o iopeer'.stream = iopeer'.sent
  BY <1>2, <1>4, <1>4a, IoFields DEF IoPeer
<1>5a. /\ Contains(iopeer'.read, h)
       /\ \A x \in Char : Contains(iopeer.read, x) => Contains(iopeer'.read, x)
  <2>1. /\ Len(iopeer'.read) = Len(iopeer.read) + 1 /\ Len(iopeer.read) \in Nat
        /\ iopeer'.read[Len(iopeer.read) + 1] = h
        /\ \A k \in 1 .. Len(iopeer.read) : iopeer'.read[k] = iopeer.read[k]
    BY <1>2, <1>5, IoFields, AppendProperties, SMTT(30)
  <2> QED BY <2>1 DEF Contains
<1>6. /\ new \in IoState /\ new.fn = "line" /\ new.todo = buf /\ new.line = io.line
      /\ new.wrote = io.wrote /\ new.nonblock = io.nonblock
      /\ new.lastread <= new.now
  <2>1. io \in IoState /\ io.fn = "line" /\ io.now \in Int /\ io.now <= io.now
    BY <1>1, IoFields DEF Lining
  <2> QED BY <1>3, <2>1 DEF IoState
<1> HIDE DEF new
<1>7. /\ iolog.fn = "none" /\ iolog.waited <= 2 * IoTimeout
      /\ iolog.early => iolog.old
      /\ iolog \in IoLog
  BY <1>1, IoFields DEF IoInv, Between, WaitsBound, Lining
<1>8. ~ Dirty(iolog.buf) => \A k \in 2 .. Len(new.todo) : new.todo[k] = ZERO
  <2> SUFFICES ASSUME ~ Dirty(iolog.buf), NEW k \in 2 .. Len(new.todo)
               PROVE  new.todo[k] = ZERO
    OBVIOUS
  <2>1. k \in 1 .. Len(io.todo) /\ k # 1
    BY <1>3, <1>6, IoFields, SMTT(30)
  <2>2. io.todo[k] = ZERO
    BY <1>1, <2>1 DEF IoInv, LineSoFar
  <2> QED BY <1>3, <1>6, <2>2
<1>9. /\ Len(new.todo) > 1 /\ new.todo[1] = h /\ Len(new.todo) = Len(io.todo)
      /\ \A k \in 2 .. Len(new.todo) : new.todo[k] = io.todo[k]
  BY <1>1, <1>3, <1>6
<1> QED BY <1>1, <1>4, <1>5, <1>5a, <1>6, <1>7, <1>8, <1>9, ExamineStep

(* read is interrupted: only the time of the last read changes.            *)
LEMMA InterruptedStep ==
  ASSUME IoInv, LineInterrupted
  PROVE  IoInv'
<1>1. /\ Lining /\ iopeer.stream # <<>> /\ iopeer' = iopeer /\ iolog' = iolog
      /\ io' = [io EXCEPT !.lastread = io.now]
  BY DEF LineInterrupted
<1>2. /\ io' \in IoState /\ io'.fn = io.fn /\ io'.todo = io.todo /\ io'.wrote = io.wrote
      /\ io'.line = io.line /\ io'.nonblock = io.nonblock /\ io'.now = io.now
      /\ io'.lastread = io.now
  <2>1. io \in IoState /\ io.now \in Int
    BY IoFields
  <2> QED BY <1>1, <2>1 DEF IoState
<1>3. (Lining' <=> Lining) /\ (Writing' <=> Writing)
  BY <1>2 DEF Lining, Writing
<1>4. IoTypeOK' /\ Between' /\ Written' /\ BlockingAgain'
  BY <1>1, <1>2, <1>3 DEF IoInv, IoTypeOK, Between, Written, BlockingAgain
<1>5. LineSoFar' /\ FromBuffer'
  BY <1>1, <1>2, BufferKept
<1>6. Clock'
  <2>1. io.now \in Int /\ io.now <= io.now /\ io.now - io.now <= IoTimeout
    BY IoFields, IoAssumption, SMTT(30)
  <2> QED BY <1>1, <1>2, <1>3, <2>1 DEF IoInv, Clock
<1>7. WriteExact' /\ LineTrue' /\ WaitsBound' /\ ReadTrue'
  BY <1>1, <1>2, <1>3, ReadKept DEF IoInv, WriteExact, LineTrue, WaitsBound
<1> QED BY <1>4, <1>5, <1>6, <1>7 DEF IoInv

(* The buffer is full, or the peer has closed.                             *)
LEMMA LineEndsStep ==
  ASSUME IoInv, LineEnds
  PROVE  IoInv'
<1> DEFINE last == IF HasRoom THEN io.now ELSE io.lastread
<1>1. /\ Lining /\ iopeer' = iopeer /\ iolog' = Answered(iolog, 0, <<>>)
      /\ io' = [io EXCEPT !.fn = "none", !.todo = <<>>, !.line = <<>>, !.lastread = last]
  BY DEF LineEnds
<1>2. last \in Int /\ last <= io.now
  BY IoFields DEF IoInv, Clock
<1>3. <<>> \in Seq(Char) /\ 0 \in Int
  OBVIOUS
<1> HIDE DEF last
<1>4. /\ io' \in IoState /\ io'.fn = "none" /\ io'.wrote = io.wrote /\ io'.line = <<>>
      /\ io'.nonblock = io.nonblock /\ io'.now = io.now /\ io'.lastread = last
  BY <1>1, <1>2, <1>3, IoFields DEF IoState
<1>5. /\ iolog' \in IoLog /\ iolog'.fn = "line" /\ iolog'.ret = 0
      /\ iolog'.zero = iolog.zero /\ iolog'.waited = iolog.waited
      /\ iolog'.early = iolog.early /\ iolog'.old = iolog.old
  BY <1>1, <1>3, IoFields DEF IoLog, Answered
<1>6. ~ Lining' /\ ~ Writing' /\ ~ Writing
  BY <1>1, <1>4 DEF Lining, Writing
<1>7. IoTypeOK' /\ Between' /\ Written' /\ LineSoFar' /\ FromBuffer' /\ Clock'
  BY <1>1, <1>2, <1>4, <1>5, <1>6
     DEF IoInv, IoTypeOK, Between, Written, LineSoFar, FromBuffer, Clock
<1>8. BlockingAgain'
  BY <1>4, <1>5, <1>6 DEF IoInv, BlockingAgain
<1>9. WriteExact' /\ LineTrue'
  <2>1. iolog'.fn \notin {"write", "write_nb"} /\ iolog'.ret # 1
    BY <1>5
  <2>2. WriteExact'
    BY <1>6, <2>1, Zenon DEF WriteExact
  <2>3. LineTrue'
    BY <2>1, Zenon DEF LineTrue
  <2> QED BY <2>2, <2>3
<1>10. WaitsBound' /\ ReadTrue'
  BY <1>1, <1>5, <1>6, ReadKept DEF IoInv, WaitsBound
<1> QED BY <1>7, <1>8, <1>9, <1>10 DEF IoInv

(* safe_read fails: the line goes on with the character that was in the    *)
(* buffer, which is no part of a line if the buffer had been cleared.      *)
LEMMA GoesOnStep ==
  ASSUME IoInv, Lining, HasRoom, NEW last \in Int, NEW t \in Nat, NEW log \in IoLog,
         last <= t, log.fn = "none", log.zero = iolog.zero, log.buf = iolog.buf,
         log.waited <= 2 * IoTimeout, log.early => log.old,
         LineGoesOn([io EXCEPT !.now = t, !.lastread = last], log)
  PROVE  IoInv'
<1> DEFINE new == [io EXCEPT !.now = t, !.lastread = last]
           before == [log EXCEPT !.error = TRUE]
<1>1. iopeer' = iopeer /\ Examine(new, before)
  BY DEF LineGoesOn
<1>2. /\ new \in IoState /\ new.fn = "line" /\ new.todo = io.todo /\ new.line = io.line
      /\ new.wrote = io.wrote /\ new.nonblock = io.nonblock
      /\ new.lastread <= new.now
  BY IoFields DEF IoState, Lining
<1>3. /\ before \in IoLog /\ before.fn = "none" /\ before.zero = iolog.zero
      /\ before.buf = iolog.buf /\ before.waited <= 2 * IoTimeout
      /\ before.early => before.old
      /\ before.error
  BY DEF IoLog
<1> HIDE DEF new, before
<1>4. Len(new.todo) > 1 /\ iopeer' \in IoPeer
  BY <1>1, <1>2, IoFields DEF HasRoom
<1>5. ~ Dirty(before.buf) => \A k \in 1 .. Len(io.todo) :
                          io.todo[k] = ZERO \/ (k = 1 /\ io.todo[k] = RET)
  <2>1. Dirty(before.buf) <=> Dirty(iolog.buf)
    BY <1>3
  <2> QED BY <2>1 DEF IoInv, LineSoFar
<1>6. Len(io.todo) \in Nat /\ Len(io.todo) > 1
  <2>1. io.todo \in Seq(Char)
    BY IoFields
  <2> QED BY <2>1 DEF HasRoom
<1>7. ~ Dirty(before.buf) => \A k \in 2 .. Len(new.todo) : new.todo[k] = ZERO
  BY <1>2, <1>5, <1>6
<1>8. ~ Dirty(before.buf) => new.todo[1] \in {ZERO, RET}
  BY <1>2, <1>5, <1>6
<1>9. (Dirty(before.buf) => ~ before.error) =>
           /\ Dirty(iolog.buf) => ~ iolog.error
           /\ \/ iopeer'.read = Append(iopeer.read, new.todo[1])
              \/ iopeer'.read = iopeer.read /\ new.todo[1] \in {ZERO, RET}
  BY <1>1, <1>3, <1>8
<1>10. \A x \in Char : Contains(iopeer.read, x) => Contains(iopeer'.read, x)
  BY <1>1 DEF Contains
<1>11. \/ Contains(iopeer'.read, new.todo[1])
       \/ before.error /\ new.todo[1] = iolog.buf[Len(io.line) + 1]
  <2>1. io.todo[1] = iolog.buf[Len(io.line) + 1] \/ Contains(iopeer.read, io.todo[1])
    BY DEF IoInv, FromBuffer
  <2> QED BY <1>1, <1>2, <1>3, <2>1 DEF Contains
<1>12. /\ iopeer'.read \o iopeer'.stream = iopeer'.sent
       /\ Len(new.todo) = Len(io.todo)
       /\ \A j \in 2 .. Len(new.todo) : new.todo[j] = io.todo[j]
       /\ iolog.error => before.error
  BY <1>1, <1>2, <1>3 DEF IoInv, ReadTrue
<1> QED BY <1>1, <1>2, <1>3, <1>4, <1>7, <1>9, <1>10, <1>11, <1>12, ExamineStep

(* safe_read fails because select or read does.                            *)
LEMMA LineErrorStep ==
  ASSUME IoInv, LineError
  PROVE  IoInv'
<1>1. Lining /\ HasRoom
  BY DEF LineError
<1> PICK t \in {io.lastread, io.now} : LineGoesOn([io EXCEPT !.lastread = t], iolog)
  BY DEF LineError
<1>2. t \in Int /\ t <= io.now /\ io.now \in Nat /\ iolog \in IoLog
  BY IoFields DEF IoInv, Clock
<1>3. [io EXCEPT !.lastread = t] = [io EXCEPT !.now = io.now, !.lastread = t]
  BY IoFields DEF IoState
<1>4. LineGoesOn([io EXCEPT !.now = io.now, !.lastread = t], iolog)
  BY <1>3
<1>5. /\ iolog.fn = "none" /\ iolog.waited <= 2 * IoTimeout
      /\ iolog.early => iolog.old
  BY <1>1 DEF IoInv, Between, WaitsBound, Lining
<1> QED BY <1>1, <1>2, <1>4, <1>5, GoesOnStep

(* A wait that is not over: safe_read selects again.                       *)
LEMMA WaitsStep ==
  ASSUME IoInv, NEW d \in 0 .. IoTimeout, NEW signal \in BOOLEAN, LineWaits(d, signal)
  PROVE  IoInv'
<1> DEFINE t == io.now + d
           sig == iolog.signal \/ signal
           log == [iolog EXCEPT !.signal = sig]
<1>1. /\ Lining /\ HasRoom /\ iopeer.stream = <<>> /\ iopeer.mark = -1
      /\ signal \/ d = IoTimeout
  BY DEF LineWaits, Silence
<1>2. t \in Nat /\ io.now <= t /\ d \in Nat /\ d <= IoTimeout /\ IoTimeout \in Nat
  <2>1. io.now \in Nat /\ IoTimeout \in Nat
    BY IoFields, IoAssumption
  <2> QED BY <2>1
<1>3. /\ log \in IoLog /\ log.fn = "none" /\ log.zero = iolog.zero
      /\ log.buf = iolog.buf /\ log.error = iolog.error /\ log.began = iolog.began
      /\ log.urgent = iolog.urgent
      /\ log.waited = iolog.waited /\ log.early = iolog.early /\ log.old = iolog.old
      /\ log.data = iolog.data /\ log.ret = iolog.ret
      /\ (log.signal <=> sig)
  <2>1. iolog.fn = "none"
    BY <1>1 DEF IoInv, Between, Lining
  <2>2. iolog \in IoLog /\ sig \in BOOLEAN
    BY IoFields
  <2> HIDE DEF sig
  <2> QED BY <2>1, <2>2 DEF IoLog
<1>4. /\ iolog.began \in Int /\ io.now \in Int /\ io.lastread \in Int
      /\ iolog.began <= io.now /\ io.lastread <= iolog.began
      /\ io.now = iolog.began \/ io.now - io.lastread <= IoTimeout
      /\ ~ iolog.urgent
  BY <1>1, IoFields DEF IoInv, Clock
<1>5. \/ /\ ~ Expired(t) /\ io' = [io EXCEPT !.now = t] /\ iolog' = log
         /\ iopeer' = iopeer
      \/ /\ Expired(t)
         /\ LineGoesOn([io EXCEPT !.now = t],
                       [log EXCEPT !.waited = t - log.began,
                          !.early = t - log.began < IoTimeout,
                          !.old = log.signal /\ io.lastread < log.began])
  BY DEF LineWaits
<1> HIDE DEF log
<1>6. CASE /\ ~ Expired(t) /\ io' = [io EXCEPT !.now = t] /\ iolog' = log
           /\ iopeer' = iopeer
  <2>1. /\ io' \in IoState /\ io'.fn = io.fn /\ io'.todo = io.todo /\ io'.wrote = io.wrote
        /\ io'.line = io.line /\ io'.nonblock = io.nonblock /\ io'.now = t
        /\ io'.lastread = io.lastread
    <3> HIDE DEF t
    <3> QED BY <1>2, <1>6, IoFields DEF IoState
  <2>2. Lining' /\ ~ Writing' /\ ~ Writing
    BY <1>1, <2>1 DEF Lining, Writing
  <2>3. IoTypeOK' /\ Between' /\ Written' /\ BlockingAgain'
    BY <1>1, <1>3, <1>6, <2>1, <2>2 DEF IoInv, IoTypeOK, Between, Written, BlockingAgain
  <2>4. LineSoFar' /\ FromBuffer'
    BY <1>3, <1>6, <2>1, BufferKept
  <2>5. Clock'
    <3>1. t - io.lastread <= IoTimeout
      BY <1>2, <1>4, <1>6 DEF Expired
    <3>2. iolog.began <= t /\ io.lastread <= t
      BY <1>2, <1>4
    <3> QED BY <1>3, <1>4, <1>6, <2>1, <3>1, <3>2 DEF Clock
  <2>6. WriteExact' /\ LineTrue' /\ ReadTrue'
    BY <1>3, <1>6, <2>2, ReadKept DEF IoInv, WriteExact, LineTrue
  <2>7. WaitsBound'
    <3>1. t - iolog.began <= IoTimeout
      BY <1>2, <1>4, <1>6 DEF Expired
    <3> QED BY <1>3, <1>6, <2>1, <3>1 DEF IoInv, WaitsBound
  <2> QED BY <2>3, <2>4, <2>5, <2>6, <2>7 DEF IoInv
<1>7. CASE Expired(t)
  <2> DEFINE w == t - iolog.began
             e == (w < IoTimeout)
             o == (sig /\ io.lastread < iolog.began)
             given == [log EXCEPT !.waited = w, !.early = e, !.old = o]
  <2>1. [log EXCEPT !.waited = t - log.began, !.early = t - log.began < IoTimeout,
                    !.old = log.signal /\ io.lastread < log.began] = given
    BY <1>3
  <2>2. [io EXCEPT !.now = t] = [io EXCEPT !.now = t, !.lastread = io.lastread]
    BY IoFields DEF IoState
  <2>3. LineGoesOn([io EXCEPT !.now = t, !.lastread = io.lastread], given)
    BY <1>5, <1>7, <2>1, <2>2
  <2>4. w \in Int /\ w <= 2 * IoTimeout
    BY <1>2, <1>4
  <2>5. e => o
    <3>1. SUFFICES ASSUME e
                   PROVE  sig /\ io.lastread < iolog.began
      OBVIOUS
    <3>2. io.lastread < iolog.began
      BY <1>2, <1>4, <1>7, <3>1 DEF Expired
    <3>3. d # IoTimeout
      BY <1>2, <1>4, <3>1
    <3> QED BY <1>1, <3>2, <3>3
  <2>6. e \in BOOLEAN /\ o \in BOOLEAN
    OBVIOUS
  <2> HIDE DEF w, e, o
  <2>7. /\ given \in IoLog /\ given.fn = "none" /\ given.zero = iolog.zero
        /\ given.buf = iolog.buf /\ given.waited <= 2 * IoTimeout
        /\ given.early => given.old
    BY <1>3, <2>4, <2>5, <2>6 DEF IoLog
  <2>8. io.lastread \in Int /\ io.lastread <= t
    BY <1>2, <1>4
  <2> HIDE DEF given, t
  <2> QED BY <1>1, <1>2, <2>3, <2>7, <2>8, GoesOnStep
<1> QED BY <1>5, <1>6, <1>7

(* An urgent byte makes select return at once: the time goes on.           *)
LEMMA UrgentStep ==
  ASSUME IoInv, NEW d \in 0 .. IoTimeout, LineUrgent(d)
  PROVE  IoInv'
<1>1. /\ Lining /\ iopeer' = iopeer /\ iopeer.mark # -1
      /\ io' = [io EXCEPT !.now = io.now + d]
      /\ iolog' = [iolog EXCEPT !.urgent = TRUE]
  BY DEF LineUrgent, Silence
<1>2. /\ io.now + d \in Nat /\ io.now <= io.now + d /\ io.now \in Nat
      /\ io.lastread \in Int /\ iolog.began \in Nat
  <2>1. io.now \in Nat /\ IoTimeout \in Nat /\ io.lastread \in Int /\ iolog.began \in Nat
    BY IoFields, IoAssumption
  <2> QED BY <2>1
<1>3. /\ io' \in IoState /\ io'.fn = io.fn /\ io'.todo = io.todo /\ io'.wrote = io.wrote
      /\ io'.line = io.line /\ io'.nonblock = io.nonblock /\ io'.now = io.now + d
      /\ io'.lastread = io.lastread
  BY <1>1, <1>2, IoFields DEF IoState
<1>4. /\ iolog' \in IoLog /\ iolog'.fn = iolog.fn /\ iolog'.zero = iolog.zero
      /\ iolog'.buf = iolog.buf /\ iolog'.error = iolog.error
      /\ iolog'.began = iolog.began /\ iolog'.waited = iolog.waited
      /\ iolog'.early = iolog.early /\ iolog'.old = iolog.old
      /\ iolog'.data = iolog.data /\ iolog'.ret = iolog.ret /\ iolog'.urgent
  BY <1>1, IoFields DEF IoLog
<1>5. Lining' /\ ~ Writing' /\ ~ Writing
  BY <1>1, <1>3 DEF Lining, Writing
<1>6. IoTypeOK' /\ Between' /\ Written' /\ BlockingAgain'
  BY <1>1, <1>3, <1>4, <1>5 DEF IoInv, IoTypeOK, Between, Written, BlockingAgain
<1>7. LineSoFar' /\ FromBuffer'
  BY <1>1, <1>3, <1>4, BufferKept
<1>8. Clock'
  <2>1. io.lastread <= io.now + d /\ iolog.began <= io.now + d
    BY <1>1, <1>2 DEF IoInv, Clock
  <2> QED BY <1>1, <1>3, <1>4, <2>1 DEF IoInv, Clock
<1>9. WriteExact' /\ LineTrue' /\ WaitsBound' /\ ReadTrue'
  <2>1. iolog.fn = "none"
    BY <1>1 DEF IoInv, Between, Lining
  <2> QED BY <1>1, <1>4, <1>5, <2>1, ReadKept DEF IoInv, WriteExact, LineTrue, WaitsBound
<1> QED BY <1>6, <1>7, <1>8, <1>9 DEF IoInv

(* What the peer sends, and its end, wait in the stream.                   *)
LEMMA PeerStep ==
  ASSUME IoInv, (\E c \in IoChar : PeerSends(c)) \/ PeerCloses \/ PeerUrgent
  PROVE  IoInv'
<1>1. io' = io /\ iolog' = iolog
  BY DEF PeerSends, PeerCloses, PeerUrgent
<1>2. ASSUME NEW c \in IoChar
      PROVE  /\ Append(iopeer.stream, c) \in Seq(Char) /\ Append(iopeer.stream, c) # <<>>
             /\ Append(iopeer.sent, c) \in Seq(Char)
             /\ iopeer.read \o Append(iopeer.stream, c) = Append(iopeer.sent, c)
  <2>1. /\ c \in Char /\ iopeer.stream \in Seq(Char) /\ iopeer.read \in Seq(Char)
        /\ iopeer.sent \in Seq(Char)
    BY IoFields DEF Char
  <2>2. iopeer.read \o Append(iopeer.stream, c) = Append(iopeer.read \o iopeer.stream, c)
    <3>1. \A r, t \in Seq(Char) : r \o Append(t, c) = Append(r \o t, c)
      BY <2>1
    <3> QED BY <2>1, <3>1
  <2>3. iopeer.read \o iopeer.stream = iopeer.sent
    BY DEF IoInv, ReadTrue
  <2>4. /\ Append(iopeer.stream, c) \in Seq(Char) /\ Append(iopeer.stream, c) # <<>>
        /\ Append(iopeer.sent, c) \in Seq(Char)
    BY <2>1, AppendProperties
  <2> QED BY <2>2, <2>3, <2>4
<1>2a. iopeer.read \o iopeer.stream = iopeer.sent /\ Len(iopeer.stream) \in Int
  BY IoFields DEF IoInv, ReadTrue
<1>3. /\ iopeer' \in IoPeer /\ iopeer'.got = iopeer.got /\ iopeer'.read = iopeer.read
      /\ iopeer'.stream = <<>> => iopeer.stream = <<>>
      /\ iopeer'.read \o iopeer'.stream = iopeer'.sent
      /\ iopeer.closed => iopeer'.closed
      /\ iopeer.mark # -1 => iopeer'.mark # -1
  <2>1. CASE \E c \in IoChar : PeerSends(c)
    BY <1>2, <2>1, IoFields, ZenonT(30) DEF PeerSends, IoPeer
  <2>2. CASE PeerCloses
    BY <1>2a, <2>2, IoFields, ZenonT(30) DEF PeerCloses, IoPeer
  <2>3. CASE PeerUrgent
    BY <1>2a, <2>3, IoFields, ZenonT(30) DEF PeerUrgent, IoPeer
  <2> QED BY <2>1, <2>2, <2>3
<1>4. (Lining' <=> Lining) /\ (Writing' <=> Writing)
  BY <1>1 DEF Lining, Writing
<1>5. IoTypeOK' /\ Between' /\ Written' /\ BlockingAgain' /\ WaitsBound'
  BY <1>1, <1>3, <1>4 DEF IoInv, IoTypeOK, Between, Written, BlockingAgain, WaitsBound
<1>6. LineSoFar' /\ FromBuffer' /\ Clock'
  <2>1. LineSoFar' /\ FromBuffer'
    BY <1>1, <1>3, BufferKept
  <2> QED BY <1>1, <1>3, <1>4, <2>1 DEF IoInv, Clock
<1>7. WriteExact' /\ LineTrue' /\ ReadTrue'
  BY <1>1, <1>3, <1>4 DEF IoInv, WriteExact, LineTrue, ReadTrue
<1> QED BY <1>5, <1>6, <1>7 DEF IoInv

(* The invariant of the calls with a timeout.                              *)
THEOREM IoInvariance == IoSpec => []IoInv
<1>1. ASSUME IoInit PROVE IoInv
  <2>1. /\ io = [fn |-> "none", todo |-> <<>>, wrote |-> 0, line |-> <<>>,
                 nonblock |-> FALSE, now |-> 0, lastread |-> LongAgo]
        /\ iopeer = [got |-> <<>>, stream |-> <<>>, read |-> <<>>, sent |-> <<>>,
                     mark |-> -1, closed |-> FALSE]
        /\ iolog = NewLog(0)
    BY <1>1 DEF IoInit
  <2>2. LongAgo \in Int /\ LongAgo <= 0 /\ 0 <= 2 * IoTimeout
    BY IoAssumption DEF LongAgo
  <2>3. <<>> \in Seq(Char) /\ 0 \in Nat /\ -1 \in Int /\ <<>> \o <<>> = <<>>
    OBVIOUS
  <2>4. /\ io \in IoState /\ io.fn = "none" /\ io.wrote = 0 /\ io.line = <<>>
        /\ ~ io.nonblock /\ io.lastread <= io.now
    BY <2>1, <2>2, <2>3 DEF IoState
  <2>5. iopeer \in IoPeer
    BY <2>1, <2>3 DEF IoPeer
  <2>6. /\ iolog \in IoLog /\ iolog.fn = "none" /\ ~ iolog.zero /\ iolog.waited = 0
        /\ ~ iolog.early
    BY <2>1, <2>3, NewLogFields
  <2>7. ~ Lining /\ ~ Writing
    BY <2>4 DEF Lining, Writing
  <2>8. IoTypeOK /\ Between /\ Written /\ LineSoFar /\ FromBuffer /\ Clock /\ BlockingAgain
    BY <2>4, <2>5, <2>6, <2>7
       DEF IoTypeOK, Between, Written, LineSoFar, FromBuffer, Clock, BlockingAgain
  <2>9. WriteExact /\ LineTrue /\ ReadTrue
    BY <2>1, <2>3, <2>6, <2>7 DEF WriteExact, LineTrue, ReadTrue
  <2>10. WaitsBound
    BY <2>2, <2>6, <2>7 DEF WaitsBound
  <2> QED BY <2>8, <2>9, <2>10 DEF IoInv
<1>2. ASSUME IoInv, [IoNext]_ioVars PROVE IoInv'
  <2>1. CASE \E d \in IoData, fn \in {"write", "write_nb"} :
               write_fd_timeout(d, fn) \/ NdelayFails(d, fn)
    BY <1>2, <2>1, WriteCalled
  <2>2. CASE WritePart
    BY <1>2, <2>2, WritePartStep
  <2>3. CASE WriteDone \/ WriteFails \/ WriteZero
    BY <1>2, <2>3, WriteEnds
  <2>4. CASE read_fd_timeout \/ ReadPart \/ ReadNothing
    BY <1>2, <2>4, ReadCalled, ReadPartStep, ReadNothingStep
  <2>5. CASE \E buf \in LineBufs : read_line(buf)
    BY <1>2, <2>5, LineCalled
  <2>6. CASE LineChar
    BY <1>2, <2>6, LineCharStep
  <2>7. CASE LineInterrupted
    BY <1>2, <2>7, InterruptedStep
  <2>8. CASE LineEnds
    BY <1>2, <2>8, LineEndsStep
  <2>9. CASE LineError
    BY <1>2, <2>9, LineErrorStep
  <2>10. CASE \E d \in 0 .. IoTimeout, signal \in BOOLEAN : LineWaits(d, signal)
    BY <1>2, <2>10, WaitsStep
  <2>11. CASE (\E c \in IoChar : PeerSends(c)) \/ PeerCloses \/ PeerUrgent
    BY <1>2, <2>11, PeerStep
  <2>13. CASE \E d \in 0 .. IoTimeout : LineUrgent(d)
    BY <1>2, <2>13, UrgentStep
  <2>12. CASE UNCHANGED ioVars
    <3>1. io' = io /\ iopeer' = iopeer /\ iolog' = iolog
      BY <2>12 DEF ioVars
    <3>2. (Lining' <=> Lining) /\ (Writing' <=> Writing)
      BY <3>1 DEF Lining, Writing
    <3>3. IoTypeOK' /\ Between' /\ Written' /\ BlockingAgain' /\ WaitsBound'
      BY <1>2, <3>1, <3>2
         DEF IoInv, IoTypeOK, Between, Written, BlockingAgain, WaitsBound
    <3>4. LineSoFar' /\ FromBuffer'
      BY <1>2, <3>1, <3>2 DEF IoInv, LineSoFar, FromBuffer
    <3>5. Clock' /\ WriteExact'
      BY <1>2, <3>1, <3>2 DEF IoInv, Clock, WriteExact
    <3>6. LineTrue'
      BY <1>2, <3>1, <3>2 DEF IoInv, LineTrue
    <3>7. ReadTrue'
      BY <1>2, <3>1, ReadKept DEF IoInv
    <3> QED BY <3>3, <3>4, <3>5, <3>6, <3>7 DEF IoInv
  <2> QED
    BY <1>2, <2>1, <2>2, <2>3, <2>4, <2>5, <2>6, <2>7, <2>8, <2>9, <2>10, <2>11, <2>12,
       <2>13
       DEF IoNext
<1> QED BY <1>1, <1>2, PTL DEF IoSpec

(* However the kernel cuts, interrupts or fails a read or a write: the     *)
(* peer gets a prefix of the data, and all of it if a length is returned;  *)
(* the descriptor is blocking again, except after a write of no character; *)
(* what is read and what waits is what the peer sent, and read_fd_timeout  *)
(* says how much was read; a line is what the peer sent, if the buffer had *)
(* been cleared or nothing failed, and otherwise has at most characters    *)
(* from the same places of the caller's buffer; and safe_read gives up     *)
(* within twice the timeout, before it only because of a signal, but not   *)
(* while an urgent byte waits.  For any timeout, buffers and characters.   *)
THEOREM TransfersExact == IoSpec => []TimedIoCorrect
<1>1. IoInv => TimedIoCorrect
  BY DEF IoInv, TimedIoCorrect
<1> QED BY <1>1, IoInvariance, PTL

-----------------------------------------------------------------------------
(* samples/epoll_echoman.c.                                                *)

EchoSpec == EchoInit /\ [][EchoNext]_echoVars

FdNum == EchoFds \cup {SFD}
BatchEvent == [on : SUBSET {"IN", "OUT", "ERR"}, fd : FdNum]
EchoServer == [batch : Seq(BatchEvent), evfd : FdNum, state : {"up", "killed"}]
EchoKernel == [of : [EchoFds -> EchoClients \cup {NoClient}],
               mask : [EchoFds -> {"IN", "OUT"}], data : [EchoFds -> FdNum],
               ready : SUBSET FdNum, backlog : Seq(EchoClients),
               overlap : BOOLEAN, failed : BOOLEAN]
EchoClient == [state : {"new", "connected", "eof", "reset", "dead"}, sent : Nat, unread : Nat,
               reads : Nat, replies : Nat]

EchoTypeOK ==
  /\ em \in EchoServer
  /\ ek \in EchoKernel
  /\ ec \in [EchoClients -> EchoClient]

(* No element comes twice.                                                 *)
Once(s) == \A i, j \in 1 .. Len(s) : s[i] = s[j] => i = j

Waits(c) == \E i \in 1 .. Len(ek.backlog) : ek.backlog[i] = c

(* A client that has not connected, or that waits to be accepted, has no   *)
(* descriptor and was not read from, and none waits twice.                 *)
InLine ==
  /\ Once(ek.backlog)
  /\ \A c \in EchoClients :
       /\ ec[c].state = "new" \/ Waits(c) =>
            FdOf(c) = {} /\ ec[c].reads = 0 /\ ec[c].replies = 0
       /\ ec[c].state = "new" => ~ Waits(c)

(* The number of the listening socket is no connection's, whatever the     *)
(* shared event holds: its events are connections to accept.               *)
OwnNumber ==
  /\ \A f \in Open(ek) : ek.data[f] # SFD /\ em.evfd # SFD
  /\ \A i \in 1 .. Len(em.batch) : em.batch[i].fd = SFD => em.batch[i].on = {"IN"}

(* As long as no two connections were open at once, event holds the number *)
(* of the one that is open, which is also registered with it.              *)
Alone ==
  ~ ek.overlap =>
    /\ \A f, g \in Open(ek) : f = g
    /\ \A f \in Open(ek) : ek.data[f] = f /\ em.evfd = f

(* Until then an event that is still to be handled is the only one of its  *)
(* descriptor, which is open, registered for what is reported, and its     *)
(* client gone if an error is.                                             *)
Fresh ==
  ~ ek.overlap =>
    /\ \A i, j \in 1 .. Len(em.batch) : em.batch[i].fd = em.batch[j].fd => i = j
    /\ \A i \in 1 .. Len(em.batch) : LET e == em.batch[i] IN e.fd # SFD =>
         /\ e.fd \in Open(ek)
         /\ "IN" \in e.on => ek.mask[e.fd] = "IN"
         /\ e.on = {"OUT"} => ek.mask[e.fd] = "OUT"
         /\ "ERR" \in e.on => ec[ek.of[e.fd]].state \in Reset

(* A client that waits to be accepted is noticed.                          *)
Listening ==
  Running /\ ek.backlog # <<>> /\ ~ ek.failed =>
    SFD \in ek.ready \/ \E i \in 1 .. Len(em.batch) : em.batch[i].fd = SFD

(* The batch holds an event of f that is not of the wrong kind: OnRead     *)
(* would leave an answer unwritten.                                        *)
Due(f) ==
  f \in ek.ready
  \/ \E i \in 1 .. Len(em.batch) :
       em.batch[i].fd = f /\ (ek.mask[f] = "OUT" => "IN" \notin em.batch[i].on)

(* The connection that was accepted last is registered with its own number *)
(* and what it waits for is due, whatever is done to the others and        *)
(* whatever events of theirs carry its number.                             *)
Latest ==
  Running => \A f \in Open(ek) : f = em.evfd =>
    /\ ek.data[f] = f
    /\ ek.mask[f] = "OUT" \/ PollIn(ek, ec, f) => Due(f)

(* A connection was answered as often as it was read, or less often if it  *)
(* was reset; out: an answer is to be written.                             *)
Given(e, out) ==
  LET given == e.replies + (IF out THEN 1 ELSE 0)
  IN given <= e.reads /\ (e.state \notin Reset => given = e.reads)

(* Two parts of EchoCorrect are inductive together with these, from which  *)
(* the third, EdgesKept, follows.                                          *)
EchoInv ==
  /\ EchoTypeOK /\ InLine /\ OwnNumber /\ Alone /\ Fresh
  /\ Listening /\ Latest /\ EchoOwn /\ StaysConnected

(* Events stay fresh while connections, registrations and the states of    *)
(* the connected clients do.                                               *)
LEMMA FreshKept ==
  ASSUME Fresh, em' = em, ek'.of = ek.of, ek'.mask = ek.mask, ek'.overlap = ek.overlap,
         Open(ek') = Open(ek),
         \A f \in Open(ek) : ec'[ek.of[f]].state = ec[ek.of[f]].state
  PROVE  Fresh'
<1> SUFFICES ASSUME ~ ek.overlap PROVE Fresh'
  BY DEF Fresh
<1>1. \A i, j \in 1 .. Len(em'.batch) : em'.batch[i].fd = em'.batch[j].fd => i = j
  BY DEF Fresh
<1>2. ASSUME NEW i \in 1 .. Len(em'.batch), em'.batch[i].fd # SFD
      PROVE  /\ em'.batch[i].fd \in Open(ek')
             /\ "IN" \in em'.batch[i].on => ek'.mask[em'.batch[i].fd] = "IN"
             /\ em'.batch[i].on = {"OUT"} => ek'.mask[em'.batch[i].fd] = "OUT"
             /\ "ERR" \in em'.batch[i].on => ec'[ek'.of[em'.batch[i].fd]].state \in Reset
  BY <1>2 DEF Fresh
<1> QED BY <1>1, <1>2 DEF Fresh

(* The types of what the proofs look at.                                   *)
LEMMA EchoTypes ==
  ASSUME EchoTypeOK
  PROVE  /\ ek.of \in [EchoFds -> EchoClients \cup {NoClient}]
         /\ ek.mask \in [EchoFds -> {"IN", "OUT"}]
         /\ ek.data \in [EchoFds -> FdNum]
         /\ ek.ready \subseteq FdNum
         /\ ek.backlog \in Seq(EchoClients)
         /\ em.batch \in Seq(BatchEvent)
         /\ em.evfd \in FdNum
         /\ \A c \in EchoClients : ec[c] \in EchoClient
BY DEF EchoTypeOK, EchoServer, EchoKernel

(* An open descriptor is connected to a client.                            *)
LEMMA OpenClient ==
  ASSUME EchoTypeOK
  PROVE  \A f \in Open(ek) : f \in EchoFds /\ ek.of[f] \in EchoClients
BY EchoTypes DEF Open, Free, IsOpen

(* Edges are kept: the connection that is alone is the latest one.         *)
LEMMA EdgesFrom ==
  ASSUME EchoTypeOK, Alone, Listening, Latest
  PROVE  EdgesKept
<1>1. DOMAIN em.batch = 1 .. Len(em.batch) BY EchoTypes
<1>2. \A f \in Open(ek) : ~ ek.overlap => f = em.evfd BY DEF Alone
<1>3. Running => \A f \in Open(ek) :
        f = em.evfd /\ (ek.mask[f] = "OUT" \/ PollIn(ek, ec, f)) =>
          f \in ek.ready \/ \E i \in DOMAIN em.batch : em.batch[i].fd = f
  BY <1>1 DEF Latest, Due
<1> QED BY <1>1, <1>2, <1>3 DEF EdgesKept, Listening

(* The latest connection keeps its number and its events while batch and   *)
(* registrations stay and whatever can newly be read is ready.             *)
LEMMA LatestKept ==
  ASSUME Latest, em' = em, ek'.mask = ek.mask, ek'.data = ek.data,
         ek.ready \subseteq ek'.ready, Open(ek') = Open(ek),
         \A f \in Open(ek) : PollIn(ek', ec', f) => PollIn(ek, ec, f) \/ f \in ek'.ready
  PROVE  Latest'
<1> SUFFICES ASSUME Running', NEW f \in Open(ek'), f = em'.evfd
             PROVE  /\ ek'.data[f] = f
                    /\ ek'.mask[f] = "OUT" \/ PollIn(ek', ec', f) => Due(f)'
  BY DEF Latest
<1>1. ek.data[f] = f /\ (ek.mask[f] = "OUT" \/ PollIn(ek, ec, f) => Due(f))
  BY DEF Latest, Running
<1>2. Due(f) => Due(f)' BY DEF Due
<1>3. f \in ek'.ready => Due(f)' BY DEF Due
<1> QED BY <1>1, <1>2, <1>3

(* The invariant holds before the first client comes.                      *)
LEMMA EchoInitOK ==
  ASSUME EchoInit
  PROVE  EchoInv
<1>0. NoClient \notin EchoClients /\ SFD \in FdNum BY EchoAssumption DEF FdNum
<1>1. EchoTypeOK
  BY <1>0 DEF EchoInit, EchoTypeOK, EchoServer, EchoKernel, EchoClient, FdNum, BatchEvent
<1>2. \A f \in EchoFds : ek.of[f] = NoClient
  BY DEF EchoInit
<1>3. Open(ek) = {} /\ \A c \in EchoClients : FdOf(c) = {}
  BY <1>0, <1>2 DEF Open, Free, IsOpen, FdOf
<1>4. em.batch = <<>> /\ ek.backlog = <<>>
  BY DEF EchoInit
<1>5. \A c \in EchoClients : ec[c].state = "new" /\ ec[c].reads = 0 /\ ec[c].replies = 0
  BY DEF EchoInit
<1>6. InLine BY <1>3, <1>4, <1>5 DEF InLine, Once, Waits
<1>7. OwnNumber /\ Alone /\ Fresh BY <1>3, <1>4 DEF OwnNumber, Alone, Fresh
<1>8. EchoOwn BY <1>3 DEF EchoOwn
<1>9. Listening /\ Latest BY <1>3, <1>4 DEF Listening, Latest
<1>10. StaysConnected BY <1>5 DEF StaysConnected
<1> QED BY <1>1, <1>6, <1>7, <1>8, <1>9, <1>10 DEF EchoInv

(* A client sends: its descriptor, if it has one, becomes ready.           *)
LEMMA EchoSendOK ==
  ASSUME EchoInv, NEW c \in EchoClients, EchoSend(c)
  PROVE  EchoInv'
<1> USE DEF EchoInv
<1>0. NoClient \notin EchoClients BY EchoAssumption
<1>1. /\ em' = em
      /\ ek' = [ek EXCEPT !.ready = @ \cup FdOf(c)]
      /\ ec[c].state = "connected" 
      /\ ec' = [ec EXCEPT ![c].sent = @ + 1, ![c].unread = @ + 1]
  BY DEF EchoSend
<1>2. /\ ek'.of = ek.of /\ ek'.mask = ek.mask /\ ek'.data = ek.data /\ ek'.backlog = ek.backlog
      /\ ek'.overlap = ek.overlap /\ ek'.failed = ek.failed
      /\ ek'.ready = ek.ready \cup FdOf(c)
      /\ ek' \in EchoKernel
  <2>1. FdOf(c) \subseteq FdNum BY DEF FdOf, FdNum
  <2> QED BY <1>1, <2>1 DEF EchoTypeOK, EchoKernel
<1>3. /\ ec' \in [EchoClients -> EchoClient]
      /\ \A d \in EchoClients : /\ ec'[d].state = ec[d].state /\ ec'[d].reads = ec[d].reads
                                /\ ec'[d].replies = ec[d].replies
                                /\ d # c => ec'[d].unread = ec[d].unread
  BY <1>1 DEF EchoTypeOK, EchoClient
<1>4. EchoTypeOK' BY <1>1, <1>2, <1>3 DEF EchoTypeOK
<1>5. InLine' BY <1>1, <1>2, <1>3 DEF InLine, Once, Waits, FdOf
<1>6. OwnNumber' /\ Alone' /\ Fresh'
  <2>1. OwnNumber' BY <1>1, <1>2 DEF OwnNumber, Open, Free, IsOpen
  <2>2. Alone' BY <1>1, <1>2 DEF Alone, Open, Free, IsOpen
  <2>3. \A f \in Open(ek) : ek.of[f] \in EchoClients
    BY EchoTypes DEF Open, Free, IsOpen
  <2>4. Open(ek') = Open(ek) BY <1>2 DEF Open, Free, IsOpen
  <2>5. \A f \in Open(ek) : ec'[ek.of[f]].state = ec[ek.of[f]].state BY <1>3, <2>3
  <2>6. Fresh'
    <3>1. Fresh OBVIOUS
    <3> HIDE DEF EchoInv
    <3> QED BY <1>1, <1>2, <2>4, <2>5, <3>1, FreshKept
  <2> QED BY <2>1, <2>2, <2>6
<1>7. EchoOwn' BY <1>2, <1>3 DEF EchoOwn, FdOf
<1>8. Listening' /\ Latest'
  <2>3. \A f \in Open(ek) : ek.of[f] \in EchoClients /\ f \in EchoFds
    BY EchoTypes DEF Open, Free, IsOpen
  <2>4. \A f \in Open(ek) : PollIn(ek', ec', f) => PollIn(ek, ec, f) \/ f \in FdOf(c)
    BY <1>2, <1>3, <2>3 DEF PollIn, FdOf
  <2>5. Open(ek') = Open(ek) BY <1>2 DEF Open, Free, IsOpen
  <2>6. \A f \in Open(ek) : PollIn(ek', ec', f) => PollIn(ek, ec, f) \/ f \in ek'.ready
    BY <1>2, <2>4
  <2>7. Latest OBVIOUS
  <2>8. Listening' BY <1>1, <1>2 DEF Listening, Running
  <2>9. Latest'
    <3> HIDE DEF EchoInv
    <3> QED BY <1>1, <1>2, <2>5, <2>6, <2>7, LatestKept
  <2> QED BY <2>8, <2>9
<1>9. StaysConnected' BY <1>2, <1>3 DEF StaysConnected, FdOf, Contains
<1> QED BY <1>4, <1>5, <1>6, <1>7, <1>8, <1>9

(* A client connects: it waits in line, and the listening socket is ready. *)
LEMMA EchoConnectOK ==
  ASSUME EchoInv, NEW c \in EchoClients, EchoConnect(c)
  PROVE  EchoInv'
<1> USE DEF EchoInv
<1>1. /\ em' = em
      /\ ek' = [ek EXCEPT !.backlog = Append(@, c), !.ready = @ \cup {SFD}, !.failed = FALSE]
      /\ ec[c].state = "new"
      /\ ec' = [ec EXCEPT ![c].state = "connected"]
  BY DEF EchoConnect
<1>2. /\ ek'.of = ek.of /\ ek'.mask = ek.mask /\ ek'.data = ek.data
      /\ ek'.backlog = Append(ek.backlog, c) /\ ek'.backlog \in Seq(EchoClients)
      /\ ek'.overlap = ek.overlap
      /\ ek'.ready = ek.ready \cup {SFD}
      /\ ek' \in EchoKernel
  <2>1. Append(ek.backlog, c) \in Seq(EchoClients) BY EchoTypes
  <2>2. ek.ready \cup {SFD} \in SUBSET FdNum BY EchoTypes DEF FdNum
  <2> QED BY <1>1, <2>1, <2>2 DEF EchoTypeOK, EchoKernel
<1>3. /\ ec' \in [EchoClients -> EchoClient]
      /\ ec'[c].state = "connected"
      /\ \A d \in EchoClients : /\ d # c => ec'[d].state = ec[d].state
                                /\ ec'[d].reads = ec[d].reads
                                /\ ec'[d].replies = ec[d].replies
                                /\ ec'[d].unread = ec[d].unread
  BY <1>1 DEF EchoTypeOK, EchoClient
<1>4. EchoTypeOK' BY <1>1, <1>2, <1>3 DEF EchoTypeOK
<1>5. \A d \in EchoClients : FdOf(d)' = FdOf(d) BY <1>2 DEF FdOf
<1>6. Open(ek') = Open(ek) BY <1>2 DEF Open, Free, IsOpen
<1>7. /\ FdOf(c) = {} /\ ec[c].reads = 0 /\ ec[c].replies = 0
      /\ ~ \E i \in 1 .. Len(ek.backlog) : ek.backlog[i] = c
  BY <1>1 DEF InLine, Waits
<1>8. /\ Len(ek'.backlog) = Len(ek.backlog) + 1
      /\ Len(ek.backlog) \in Nat
      /\ \A i \in 1 .. Len(ek.backlog) : ek'.backlog[i] = ek.backlog[i]
      /\ ek'.backlog[Len(ek.backlog) + 1] = c
  BY <1>2, EchoTypes
<1>9. InLine'
  <2>1. Once(ek'.backlog)
    <3> SUFFICES ASSUME NEW i \in 1 .. Len(ek.backlog) + 1, NEW j \in 1 .. Len(ek.backlog) + 1,
                        ek'.backlog[i] = ek'.backlog[j]
                 PROVE  i = j
      BY <1>8 DEF Once
    <3>1. CASE i = Len(ek.backlog) + 1 /\ j # i BY <1>7, <1>8, <3>1
    <3>2. CASE j = Len(ek.backlog) + 1 /\ j # i BY <1>7, <1>8, <3>2
    <3>3. CASE i \in 1 .. Len(ek.backlog) /\ j \in 1 .. Len(ek.backlog)
      BY <1>8, <3>3 DEF InLine, Once
    <3> QED BY <1>8, <3>1, <3>2, <3>3
  <2>2. \A d \in EchoClients : d # c => Waits(d)' = Waits(d) BY <1>8 DEF Waits
  <2>3. \A d \in EchoClients : ec'[d].state = "new" \/ Waits(d)' =>
            FdOf(d)' = {} /\ ec'[d].reads = 0 /\ ec'[d].replies = 0
    BY <1>3, <1>5, <1>7, <2>2 DEF InLine
  <2>4. \A d \in EchoClients : ec'[d].state = "new" => ~ Waits(d)'
    BY <1>3, <2>2 DEF InLine
  <2> QED BY <2>1, <2>3, <2>4 DEF InLine
<1>10. OwnNumber' BY <1>1, <1>2, <1>6 DEF OwnNumber
<1>11. Alone' BY <1>1, <1>2, <1>6 DEF Alone
<1>12. \A f \in Open(ek) : ek.of[f] \in EchoClients /\ ek.of[f] # c
  BY <1>7, OpenClient DEF FdOf
<1>13. Fresh'
  <2>1. \A f \in Open(ek) : ec'[ek.of[f]].state = ec[ek.of[f]].state BY <1>3, <1>12
  <2>2. Fresh OBVIOUS
  <2> HIDE DEF EchoInv
  <2> QED BY <1>1, <1>2, <1>6, <2>1, <2>2, FreshKept
<1>14. EchoOwn'
  <2>1. \A d \in EchoClients : FdOf(d) # {} =>
          /\ ec'[d].state = ec[d].state /\ ec'[d].reads = ec[d].reads
          /\ ec'[d].replies = ec[d].replies
    BY <1>3, <1>7
  <2> QED BY <1>2, <1>5, <2>1 DEF EchoOwn
<1>15. Listening' /\ Latest'
  <2>1. \A f \in Open(ek) : PollIn(ek', ec', f) => PollIn(ek, ec, f)
    BY <1>2, <1>3, <1>12 DEF PollIn
  <2>2. Listening' BY <1>2 DEF Listening
  <2>3. Latest /\ ek.ready \subseteq ek'.ready BY <1>2
  <2>4. Latest'
    <3> HIDE DEF EchoInv
    <3> QED BY <1>1, <1>2, <1>6, <2>1, <2>3, LatestKept
  <2> QED BY <2>2, <2>4
<1>16. StaysConnected'
  <2>1. \A d \in EchoClients : Contains(ek.backlog, d) => Contains(ek'.backlog, d)
    BY <1>8 DEF Contains
  <2>2. Contains(ek'.backlog, c) BY <1>8 DEF Contains
  <2> QED BY <1>2, <1>3, <1>5, <2>1, <2>2 DEF StaysConnected
<1> QED BY <1>4, <1>9, <1>10, <1>11, <1>13, <1>14, <1>15, <1>16

(* A client leaves: its descriptor becomes ready.                          *)
LEMMA EchoLeaveOK ==
  ASSUME EchoInv, NEW c \in EchoClients, NEW how \in {"eof", "reset", "dead"}, EchoLeave(c, how)
  PROVE  EchoInv'
<1> USE DEF EchoInv
<1>1. /\ em' = em
      /\ ek' = [ek EXCEPT !.ready = @ \cup FdOf(c)]
      /\ ec[c].state = "connected" \/ (ec[c].state = "eof" /\ how = "dead")
      /\ ec' = [ec EXCEPT ![c].state = how]
  BY DEF EchoLeave
<1>2. /\ ek'.of = ek.of /\ ek'.mask = ek.mask /\ ek'.data = ek.data /\ ek'.backlog = ek.backlog
      /\ ek'.overlap = ek.overlap /\ ek'.failed = ek.failed
      /\ ek'.ready = ek.ready \cup FdOf(c)
      /\ ek' \in EchoKernel
  <2>1. FdOf(c) \subseteq FdNum BY DEF FdOf, FdNum
  <2> QED BY <1>1, <2>1 DEF EchoTypeOK, EchoKernel
<1>3. /\ ec' \in [EchoClients -> EchoClient]
      /\ ec'[c].state = how
      /\ \A d \in EchoClients : /\ ec'[d].reads = ec[d].reads
                                /\ ec'[d].replies = ec[d].replies
                                /\ d # c => ec'[d] = ec[d]
  BY <1>1 DEF EchoTypeOK, EchoClient
<1>4. EchoTypeOK' BY <1>1, <1>2, <1>3 DEF EchoTypeOK
<1>5. \A d \in EchoClients : FdOf(d)' = FdOf(d) BY <1>2 DEF FdOf
<1>6. Open(ek') = Open(ek) BY <1>2 DEF Open, Free, IsOpen
<1>7. InLine'
  <2>1. \A d \in EchoClients : Waits(d)' = Waits(d) BY <1>2 DEF Waits
  <2>2. \A d \in EchoClients : ec'[d].state = "new" => ec[d].state = "new"
    BY <1>3
  <2> QED BY <1>2, <1>3, <1>5, <2>1, <2>2 DEF InLine
<1>8. OwnNumber' BY <1>1, <1>2, <1>6 DEF OwnNumber
<1>9. Alone' BY <1>1, <1>2, <1>6 DEF Alone
<1>10. \A d \in EchoClients : ec[d].state \in Reset => ec'[d].state \in Reset
  BY <1>1, <1>3 DEF Reset
<1>11. Fresh'
  <2>1. \A f \in Open(ek) : ec[ek.of[f]].state \in Reset => ec'[ek.of[f]].state \in Reset
    BY <1>10, OpenClient
  <2>2. \A i \in 1 .. Len(em.batch) : ~ ek.overlap /\ em.batch[i].fd # SFD =>
          /\ em.batch[i].fd \in Open(ek)
          /\ "IN" \in em.batch[i].on => ek.mask[em.batch[i].fd] = "IN"
          /\ em.batch[i].on = {"OUT"} => ek.mask[em.batch[i].fd] = "OUT"
          /\ "ERR" \in em.batch[i].on => ec'[ek.of[em.batch[i].fd]].state \in Reset
    BY <2>1 DEF Fresh
  <2>3. ~ ek.overlap =>
          \A i, j \in 1 .. Len(em.batch) : em.batch[i].fd = em.batch[j].fd => i = j
    BY DEF Fresh
  <2> QED BY <1>1, <1>2, <1>6, <2>2, <2>3 DEF Fresh
<1>12. EchoOwn'
  <2> SUFFICES ASSUME ~ ek'.overlap, NEW d \in EchoClients, FdOf(d)' # {}
               PROVE  Given(ec'[d], \E f \in FdOf(d)' : ek'.mask[f] = "OUT")
    BY DEF EchoOwn, Given
  <2>1. Given(ec[d], \E f \in FdOf(d) : ek.mask[f] = "OUT")
    BY <1>2, <1>5 DEF EchoOwn, Given
  <2>2. ec[d].state \in Reset => ec'[d].state \in Reset BY <1>10
  <2> QED BY <1>2, <1>3, <1>5, <2>1, <2>2 DEF Given
<1>13. Listening' /\ Latest'
  <2>1. \A f \in Open(ek) : PollIn(ek', ec', f) => PollIn(ek, ec, f) \/ f \in FdOf(c)
    BY <1>2, <1>3, OpenClient DEF PollIn, FdOf
  <2>2. /\ Latest /\ ek.ready \subseteq ek'.ready
        /\ \A f \in Open(ek) : PollIn(ek', ec', f) => PollIn(ek, ec, f) \/ f \in ek'.ready
    BY <1>2, <2>1
  <2>3. Listening' BY <1>1, <1>2 DEF Listening, Running
  <2>4. Latest'
    <3> HIDE DEF EchoInv
    <3> QED BY <1>1, <1>2, <1>6, <2>2, LatestKept
  <2> QED BY <2>3, <2>4
<1>14. StaysConnected'
  BY <1>2, <1>3, <1>5 DEF StaysConnected
<1> QED BY <1>4, <1>7, <1>8, <1>9, <1>11, <1>12, <1>13, <1>14

(* A sequence of as many different elements as a set has meets them all.   *)
LEMMA OrderOf ==
  ASSUME NEW S, IsFiniteSet(S), NEW order \in SetToSeqs(S)
  PROVE  /\ order \in Seq(S)
         /\ \A i, j \in 1 .. Len(order) : order[i] = order[j] => i = j
         /\ \A f \in S : \E i \in 1 .. Len(order) : order[i] = f
<1> DEFINE n == Cardinality(S)
           D == 1 .. n
<1>1. n \in Nat BY FS_CardinalityType
<1>2. order \in [D -> S] /\ \A i, j \in D : i # j => order[i] # order[j]
  BY DEF SetToSeqs
<1>3. order \in Seq(S) /\ Len(order) = n BY <1>1, <1>2
<1>4. order \in Injection(D, S) BY <1>2, Zenon DEF Injection, IsInjective
<1>5. Cardinality(D) = n
  <2> HIDE DEF n
  <2> QED BY <1>1, FS_Interval
<1>6. order \in Surjection(D, S)
  <2> HIDE DEF D
  <2> QED BY <1>4, <1>5, FS_Injection, Zenon
<1>7. \A f \in S : \E i \in D : order[i] = f
  BY <1>6 DEF Surjection
<1> QED BY <1>2, <1>3, <1>7

(* epoll_wait: what is ready and still due is in the batch.                *)
LEMMA EchoWaitOK ==
  ASSUME EchoInv, EchoWait
  PROVE  EchoInv'
<1> USE DEF EchoInv
<1>0. SFD \notin EchoFds /\ IsFiniteSet(EchoFds) BY EchoAssumption
<1>1. PICK order \in SetToSeqs(Told) :
        em' = [em EXCEPT !.batch = [i \in 1 .. Len(order) |-> EventOf(order[i])]]
  BY DEF EchoWait
<1>2. IsFiniteSet(Told)
  <2>1. IsFiniteSet(FdNum) BY <1>0, FS_AddElement DEF FdNum
  <2>2. Told \in SUBSET FdNum BY EchoTypes DEF Told
  <2> QED BY <2>1, <2>2, FS_Subset, Zenon
<1>3. /\ order \in Seq(Told)
      /\ \A i, j \in 1 .. Len(order) : order[i] = order[j] => i = j
      /\ \A f \in Told : \E i \in 1 .. Len(order) : order[i] = f
  BY <1>2, OrderOf
<1>4. /\ ec' = ec /\ ek' = [ek EXCEPT !.ready = {}] /\ Running
  BY DEF EchoWait
<1>5. /\ ek'.of = ek.of /\ ek'.mask = ek.mask /\ ek'.data = ek.data /\ ek'.backlog = ek.backlog
      /\ ek'.overlap = ek.overlap /\ ek'.failed = ek.failed
      /\ ek'.ready = {}
      /\ ek' \in EchoKernel
  BY <1>4 DEF EchoTypeOK, EchoKernel
<1>6. \A f \in Told : EventOf(f) \in BatchEvent
  <2>1. \A f \in Told : f \in FdNum /\ Report(f) \subseteq {"IN", "OUT", "ERR"}
    BY EchoTypes DEF Told, Report
  <2>2. \A f \in Told : f # SFD => ek.data[f] \in FdNum
    BY EchoTypes, <2>1 DEF FdNum
  <2> QED BY <2>1, <2>2 DEF EventOf, BatchEvent, FdNum
<1>7. /\ em'.batch = [i \in 1 .. Len(order) |-> EventOf(order[i])]
      /\ em'.evfd = em.evfd /\ em'.state = em.state
      /\ em' \in EchoServer
  <2>1. [i \in 1 .. Len(order) |-> EventOf(order[i])] \in Seq(BatchEvent)
    <3>1. Len(order) \in Nat /\ \A i \in 1 .. Len(order) : order[i] \in Told BY <1>3
    <3> QED BY <3>1, <1>6
  <2> QED BY <1>1, <2>1 DEF EchoTypeOK, EchoServer
<1>8. /\ Len(em'.batch) = Len(order) /\ DOMAIN em'.batch = 1 .. Len(order)
      /\ \A i \in 1 .. Len(order) : order[i] \in Told /\ em'.batch[i] = EventOf(order[i])
  BY <1>3, <1>7
<1>9. EchoTypeOK' BY <1>4, <1>5, <1>7 DEF EchoTypeOK
<1>10. \A d \in EchoClients : FdOf(d)' = FdOf(d) BY <1>5 DEF FdOf
<1>11. Open(ek') = Open(ek) BY <1>5 DEF Open, Free, IsOpen
<1>12. InLine' BY <1>4, <1>5, <1>10 DEF InLine, Waits
<1>13. \A f \in Told : f # SFD => f \in Open(ek) /\ f \in EchoFds /\ EventOf(f).fd = ek.data[f]
  BY EchoTypes DEF Told, Report, Open, Free, IsOpen, EventOf
<1>14. OwnNumber'
  <2>1. \A f \in Told : EventOf(f).fd = SFD => f = SFD
    BY <1>13 DEF OwnNumber
  <2>2. EventOf(SFD).on \subseteq {"IN"} BY DEF EventOf, Report
  <2>3. \A f \in Told : EventOf(f).on # {} BY DEF EventOf, Told
  <2>4. \A i \in 1 .. Len(order) : em'.batch[i].fd = SFD => em'.batch[i].on = {"IN"}
    BY <1>8, <2>1, <2>2, <2>3
  <2> QED BY <1>5, <1>7, <1>8, <1>11, <2>4 DEF OwnNumber
<1>15. Alone' BY <1>5, <1>7, <1>11 DEF Alone
<1>16. ASSUME ~ ek.overlap
       PROVE  \A f \in Told : EventOf(f).fd = f /\ EventOf(f).on = Report(f)
  BY <1>13, <1>16 DEF Alone, EventOf
<1>17. Fresh'
  <2> SUFFICES ASSUME ~ ek.overlap PROVE Fresh'
    BY <1>5 DEF Fresh
  <2>1. \A i, j \in 1 .. Len(order) : em'.batch[i].fd = em'.batch[j].fd => i = j
    <3>1. \A i \in 1 .. Len(order) : em'.batch[i].fd = order[i]
      BY <1>8, <1>16
    <3> QED BY <1>3, <3>1
  <2>2. \A f \in Told : f # SFD =>
          /\ "IN" \in Report(f) => ek.mask[f] = "IN"
          /\ Report(f) = {"OUT"} => ek.mask[f] = "OUT"
          /\ "ERR" \in Report(f) => ec[ek.of[f]].state \in Reset
    BY DEF Told, Report
  <2>3. \A i \in 1 .. Len(order) : em'.batch[i].fd # SFD =>
          /\ em'.batch[i].fd \in Open(ek)
          /\ "IN" \in em'.batch[i].on => ek.mask[em'.batch[i].fd] = "IN"
          /\ em'.batch[i].on = {"OUT"} => ek.mask[em'.batch[i].fd] = "OUT"
          /\ "ERR" \in em'.batch[i].on => ec[ek.of[em'.batch[i].fd]].state \in Reset
    BY <1>8, <1>13, <1>16, <2>2
  <2> HIDE DEF EchoInv
  <2> QED BY <1>4, <1>5, <1>8, <1>11, <2>1, <2>3 DEF Fresh
<1>18. EchoOwn' BY <1>4, <1>5, <1>10 DEF EchoOwn
<1>19. Listening' /\ Latest'
  <2>0. em.batch = <<>> BY DEF EchoWait
  <2>1. ek.backlog # <<>> /\ ~ ek.failed => \E i \in 1 .. Len(order) : em'.batch[i].fd = SFD
    <3>1. ek.backlog # <<>> /\ ~ ek.failed => SFD \in Told
      BY <1>4, <2>0 DEF Listening, Told, Report
    <3>2. EventOf(SFD).fd = SFD BY DEF EventOf
    <3> SUFFICES ASSUME ek.backlog # <<>>, ~ ek.failed
                 PROVE  \E i \in 1 .. Len(order) : em'.batch[i].fd = SFD
      OBVIOUS
    <3>3. PICK i \in 1 .. Len(order) : order[i] = SFD BY <1>3, <3>1
    <3>4. em'.batch[i].fd = SFD BY <1>8, <3>2, <3>3
    <3> QED BY <3>4
  <2>2. \A f \in Open(ek) : f = em.evfd => ek.data[f] = f BY <1>4 DEF Latest
  <2>3. ASSUME NEW f \in Open(ek), f = em.evfd, ek.mask[f] = "OUT" \/ PollIn(ek, ec, f)
        PROVE  \E i \in 1 .. Len(order) :
                 em'.batch[i].fd = f /\ (ek.mask[f] = "OUT" => "IN" \notin em'.batch[i].on)
    <3>1. f \in ek.ready BY <1>4, <2>0, <2>3 DEF Latest, Due
    <3>2. f \in EchoFds /\ f # SFD /\ IsOpen(ek, f) BY <1>0 DEF Open, Free
    <3>3. ek.mask[f] \in {"IN", "OUT"} BY <3>2, EchoTypes
    <3>4. Report(f) # {} BY <2>3, <3>2, <3>3 DEF Report
    <3>5. f \in Told BY <3>1, <3>4 DEF Told
    <3>6. PICK i \in 1 .. Len(order) : order[i] = f BY <1>3, <3>5
    <3>7. em'.batch[i] = EventOf(f) BY <1>8, <3>6
    <3>8. EventOf(f).fd = f /\ EventOf(f).on = Report(f)
      BY <2>2, <2>3, <3>2 DEF EventOf
    <3>9. ek.mask[f] = "OUT" => "IN" \notin Report(f) BY <3>2 DEF Report
    <3> QED BY <3>7, <3>8, <3>9
  <2>4. \A f \in Open(ek) : PollIn(ek', ec', f) = PollIn(ek, ec, f)
    BY <1>4, <1>5 DEF PollIn
  <2>5. Listening' BY <1>5, <1>8, <2>1 DEF Listening
  <2>6. ASSUME NEW f \in Open(ek'), f = em'.evfd, ek'.mask[f] = "OUT" \/ PollIn(ek', ec', f)
        PROVE  Due(f)'
    BY <1>5, <1>7, <1>8, <1>11, <2>3, <2>4, <2>6 DEF Due
  <2> QED BY <1>5, <1>7, <1>11, <2>2, <2>5, <2>6 DEF Latest
<1>20. StaysConnected' BY <1>4, <1>5, <1>10 DEF StaysConnected
<1> QED BY <1>9, <1>12, <1>14, <1>15, <1>17, <1>18, <1>19, <1>20

(* A set of numbers that is not empty has a lowest one.                    *)
LEMMA LeastFd ==
  ASSUME NEW T \in SUBSET Nat, T # {}
  PROVE  Lowest1(T) \in T
<1> DEFINE below == {ss \in Nat \X Nat : ss[1] < ss[2]}
<1>1. IsWellFoundedOn(below, Nat)
  BY NatLessThanWellFounded, Zenon DEF OpToRel
<1>2. PICK x \in T : \A y \in T : ~ (<<y, x>> \in below)
  <2> HIDE DEF below
  <2> QED BY <1>1, WFMin
<1>3. \A y \in T : ~ (y < x)
  BY <1>2
<1>4. \A y \in T : x <= y
  BY <1>3
<1> QED BY <1>4 DEF Lowest1

(* The batch after its first event is done with.                           *)
LEMMA Popped ==
  ASSUME EchoTypeOK, em.batch # <<>>, NEW evfd \in FdNum, NEW s \in {"up", "killed"},
         Done(evfd, s)
  PROVE  /\ em' \in EchoServer
         /\ em'.evfd = evfd /\ em'.state = s
         /\ Len(em.batch) \in Nat \ {0}
         /\ Len(em'.batch) = Len(em.batch) - 1
         /\ DOMAIN em'.batch = 1 .. Len(em.batch) - 1
         /\ \A i \in 1 .. Len(em.batch) - 1 : em'.batch[i] = em.batch[i + 1]
         /\ Event = em.batch[1] /\ Event \in BatchEvent
<1>1. em.batch \in Seq(BatchEvent) BY EchoTypes
<1>2. Tail(em.batch) \in Seq(BatchEvent) BY <1>1
<1>3. em' = [batch |-> Tail(em.batch), evfd |-> evfd, state |-> s] BY DEF Done
<1>4. em' \in EchoServer /\ em'.batch = Tail(em.batch) /\ em'.evfd = evfd /\ em'.state = s
  BY <1>2, <1>3 DEF EchoServer
<1>5. Len(em.batch) \in Nat \ {0} /\ em.batch[1] \in BatchEvent BY <1>1
<1> QED BY <1>1, <1>2, <1>4, <1>5 DEF Event

(* As long as no two connections were open at once, a batch has at most    *)
(* one event of a connection, that of the open one; the rest are of the    *)
(* listening socket, which has at most one.                                *)
LEMMA OnlyEvent ==
  ASSUME EchoInv, em.batch # <<>>, NEW evfd \in FdNum, NEW s \in {"up", "killed"},
         Done(evfd, s), Event.fd # SFD, ~ ek.overlap
  PROVE  /\ \A i \in 1 .. Len(em'.batch) : em'.batch[i].fd = SFD
         /\ \A i, j \in 1 .. Len(em'.batch) : i = j
         /\ Event.fd \in Open(ek)
         /\ \A g \in Open(ek) : g = Event.fd
         /\ ek.data[Event.fd] = Event.fd /\ em.evfd = Event.fd
<1> USE DEF EchoInv
<1>1. /\ Len(em.batch) \in Nat \ {0}
      /\ Len(em'.batch) = Len(em.batch) - 1
      /\ \A i \in 1 .. Len(em.batch) - 1 : em'.batch[i] = em.batch[i + 1]
      /\ Event = em.batch[1]
  BY Popped
<1>2. \A i, j \in 1 .. Len(em.batch) : em.batch[i].fd = em.batch[j].fd => i = j
  BY DEF Fresh
<1>3. \A i \in 1 .. Len(em.batch) : em.batch[i].fd # SFD => em.batch[i].fd \in Open(ek)
  BY DEF Fresh
<1>4. Event.fd \in Open(ek) BY <1>1, <1>3
<1>5. \A g \in Open(ek) : g = Event.fd BY <1>4 DEF Alone
<1>6. ek.data[Event.fd] = Event.fd /\ em.evfd = Event.fd BY <1>4 DEF Alone
<1>7. \A i \in 1 .. Len(em.batch) : i # 1 => em.batch[i].fd = SFD
  <2> TAKE i \in 1 .. Len(em.batch)
  <2>1. em.batch[i].fd = em.batch[1].fd => i = 1 BY <1>1, <1>2
  <2>2. em.batch[i].fd # SFD => em.batch[i].fd = em.batch[1].fd BY <1>1, <1>3, <1>5
  <2> QED BY <2>1, <2>2
<1>8. \A i \in 1 .. Len(em.batch) - 1 : i + 1 \in 1 .. Len(em.batch) /\ i + 1 # 1 BY <1>1
<1>9. \A i \in 1 .. Len(em'.batch) : em'.batch[i] = em.batch[i + 1] BY <1>1
<1>10. \A i \in 1 .. Len(em'.batch) : em'.batch[i].fd = SFD BY <1>1, <1>7, <1>8, <1>9
<1>11. \A i, j \in 1 .. Len(em'.batch) : i + 1 = j + 1 => i = j BY <1>1
<1>12. \A i, j \in 1 .. Len(em'.batch) : i + 1 = j + 1
  <2> TAKE i, j \in 1 .. Len(em'.batch)
  <2>1. /\ i + 1 \in 1 .. Len(em.batch) /\ i + 1 # 1
        /\ j + 1 \in 1 .. Len(em.batch) /\ j + 1 # 1
    BY <1>1, <1>8
  <2>2. em.batch[i + 1].fd = em.batch[j + 1].fd BY <1>7, <2>1
  <2> QED BY <1>2, <2>1, <2>2
<1> QED BY <1>4, <1>5, <1>6, <1>10, <1>11, <1>12

(* What the other events of the batch keep.                                *)
LEMMA OwnEvents ==
  ASSUME EchoInv, em.batch # <<>>, NEW evfd \in FdNum, NEW s \in {"up", "killed"},
         Done(evfd, s)
  PROVE  /\ \A i \in 1 .. Len(em'.batch) : em'.batch[i].fd = SFD => em'.batch[i].on = {"IN"}
         /\ Event.fd # SFD => \A f : (\E i \in 1 .. Len(em.batch) : em.batch[i].fd = f)
              => f = Event.fd \/ \E i \in 1 .. Len(em'.batch) : em'.batch[i].fd = f
         /\ \A i \in 1 .. Len(em.batch) : em.batch[i] # Event =>
              \E j \in 1 .. Len(em'.batch) : em'.batch[j] = em.batch[i]
<1> USE DEF EchoInv
<1>1. /\ Len(em.batch) \in Nat \ {0}
      /\ Len(em'.batch) = Len(em.batch) - 1
      /\ \A i \in 1 .. Len(em.batch) - 1 : em'.batch[i] = em.batch[i + 1]
      /\ Event = em.batch[1]
  BY Popped
<1>2. \A i \in 1 .. Len(em.batch) - 1 : i + 1 \in 1 .. Len(em.batch) BY <1>1
<1>3. \A i \in 1 .. Len(em'.batch) : em'.batch[i].fd = SFD => em'.batch[i].on = {"IN"}
  BY <1>1, <1>2 DEF OwnNumber
<1>4. ASSUME NEW i \in 1 .. Len(em.batch), i # 1
      PROVE  \E j \in 1 .. Len(em'.batch) : em'.batch[j] = em.batch[i]
  <2>1. i - 1 \in 1 .. Len(em'.batch) /\ (i - 1) + 1 = i BY <1>1, <1>4
  <2>2. em'.batch[i - 1] = em.batch[(i - 1) + 1] BY <1>1, <2>1
  <2> QED BY <2>1, <2>2
<1> QED BY <1>1, <1>3, <1>4

(* The loop of accept ends: nobody waits, or the failure is on record.     *)
LEMMA OnAcceptEndOK ==
  ASSUME EchoInv, OnAcceptEnd
  PROVE  EchoInv'
<1> USE DEF EchoInv
<1>1. /\ em.batch # <<>> /\ Event.fd = SFD /\ em.state = "up"
      /\ Done(em.evfd, "up") /\ ec' = ec
      /\ ek' = [ek EXCEPT !.failed = ek.backlog # <<>>]
  BY DEF OnAcceptEnd, AtListener, Handling, Running
<1>2. /\ ek'.of = ek.of /\ ek'.mask = ek.mask /\ ek'.data = ek.data /\ ek'.backlog = ek.backlog
      /\ ek'.overlap = ek.overlap /\ ek'.ready = ek.ready
      /\ ek'.failed <=> ek.backlog # <<>>
      /\ ek' \in EchoKernel
  BY <1>1 DEF EchoTypeOK, EchoKernel
<1>3. em.evfd \in FdNum BY EchoTypes
<1>4. /\ em' \in EchoServer
      /\ em'.evfd = em.evfd /\ em'.state = "up"
      /\ Len(em.batch) \in Nat \ {0}
      /\ Len(em'.batch) = Len(em.batch) - 1
      /\ DOMAIN em'.batch = 1 .. Len(em.batch) - 1
      /\ \A i \in 1 .. Len(em.batch) - 1 : em'.batch[i] = em.batch[i + 1]
      /\ Event = em.batch[1]
  BY <1>1, <1>3, Popped
<1>5. \A i \in 1 .. Len(em'.batch) : em'.batch[i].fd = SFD => em'.batch[i].on = {"IN"}
  BY <1>1, <1>3, OwnEvents
<1>6. EchoTypeOK' BY <1>1, <1>2, <1>4 DEF EchoTypeOK
<1>7. \A d \in EchoClients : FdOf(d)' = FdOf(d) BY <1>2 DEF FdOf
<1>8. Open(ek') = Open(ek) BY <1>2 DEF Open, Free, IsOpen
<1>9. InLine' BY <1>1, <1>2, <1>7 DEF InLine, Waits
<1>10. OwnNumber' BY <1>2, <1>4, <1>5, <1>8 DEF OwnNumber
<1>11. Alone' BY <1>2, <1>4, <1>8 DEF Alone
<1>12. \A i \in 1 .. Len(em'.batch) :
         i + 1 \in 1 .. Len(em.batch) /\ em'.batch[i] = em.batch[i + 1]
  BY <1>4
<1>13. Fresh'
  <2>1. \A i, j \in 1 .. Len(em'.batch) : i + 1 = j + 1 => i = j BY <1>4
  <2>2. ~ ek.overlap =>
          \A i, j \in 1 .. Len(em'.batch) : em'.batch[i].fd = em'.batch[j].fd => i = j
    <3> SUFFICES ASSUME ~ ek.overlap, NEW i \in 1 .. Len(em'.batch),
                        NEW j \in 1 .. Len(em'.batch), em'.batch[i].fd = em'.batch[j].fd
                 PROVE  i = j
      OBVIOUS
    <3>1. em.batch[i + 1].fd = em.batch[j + 1].fd BY <1>12
    <3>2. i + 1 = j + 1 BY <1>12, <3>1 DEF Fresh
    <3> QED BY <2>1, <3>2
  <2>3. \A i \in 1 .. Len(em'.batch) : ~ ek.overlap /\ em'.batch[i].fd # SFD =>
          /\ em'.batch[i].fd \in Open(ek)
          /\ "IN" \in em'.batch[i].on => ek.mask[em'.batch[i].fd] = "IN"
          /\ em'.batch[i].on = {"OUT"} => ek.mask[em'.batch[i].fd] = "OUT"
          /\ "ERR" \in em'.batch[i].on => ec[ek.of[em'.batch[i].fd]].state \in Reset
    <3> TAKE i \in 1 .. Len(em'.batch)
    <3>1. i + 1 \in 1 .. Len(em.batch) /\ em'.batch[i] = em.batch[i + 1] BY <1>12
    <3> QED BY <3>1 DEF Fresh
  <2> QED BY <1>1, <1>2, <1>8, <2>2, <2>3 DEF Fresh
<1>14. EchoOwn' BY <1>1, <1>2, <1>7 DEF EchoOwn
<1>15. Listening' /\ Latest'
  <2>1. ASSUME NEW i \in 1 .. Len(em.batch), em.batch[i].fd # SFD
        PROVE  \E j \in 1 .. Len(em'.batch) : em'.batch[j] = em.batch[i]
    <3>1. i - 1 \in 1 .. Len(em'.batch) /\ (i - 1) + 1 = i BY <1>1, <1>4, <2>1
    <3>2. em'.batch[i - 1] = em.batch[(i - 1) + 1] BY <1>4, <3>1
    <3> QED BY <3>1, <3>2
  <2>2. \A f \in Open(ek) : f # SFD /\ PollIn(ek', ec', f) = PollIn(ek, ec, f)
    BY <1>1, <1>2, OpenClient, EchoAssumption DEF PollIn
  <2>3. ASSUME NEW f \in Open(ek), Due(f) PROVE Due(f)'
    BY <1>2, <2>1, <2>2, <2>3 DEF Due
  <2>4. \A f \in Open(ek) : f = em.evfd =>
          /\ ek.data[f] = f
          /\ ek.mask[f] = "OUT" \/ PollIn(ek, ec, f) => Due(f)
    BY <1>1 DEF Latest, Running
  <2>5. Latest' BY <1>2, <1>4, <1>8, <2>2, <2>3, <2>4 DEF Latest
  <2>6. Listening' BY <1>2 DEF Listening
  <2> QED BY <2>5, <2>6
<1>16. StaysConnected' BY <1>1, <1>2, <1>7 DEF StaysConnected
<1> QED BY <1>6, <1>9, <1>10, <1>11, <1>13, <1>14, <1>15, <1>16

(* A connection is accepted: the event stays at the head of the batch, and *)
(* what the client already sent makes its descriptor ready.                *)
LEMMA OnAcceptOK ==
  ASSUME EchoInv, OnAccept
  PROVE  EchoInv'
<1> USE DEF EchoInv
<1>0. NoClient \notin EchoClients /\ EchoFds \subseteq Nat \ {SFD} BY EchoAssumption
<1>f. PICK f \in Free(ek) : f = Lowest1(Free(ek))
  <2>1. Free(ek) \in SUBSET Nat BY <1>0 DEF Free
  <2>2. Free(ek) # {} BY DEF OnAccept
  <2> QED BY <2>1, <2>2, LeastFd
<1>3. f \in EchoFds /\ ek.of[f] = NoClient /\ f # SFD BY <1>0 DEF Free, IsOpen
<1>c. PICK c \in EchoClients : c = Head(ek.backlog)
  <2>1. ek.backlog # <<>> BY DEF OnAccept
  <2> QED BY <2>1, EchoTypes
<1> DEFINE k0 == [ek EXCEPT !.backlog = Tail(@)]
           k1 == [k0 EXCEPT !.of[f] = c, !.overlap = @ \/ Open(k0) # {}]
<1>1. /\ em.batch # <<>> /\ Event.fd = SFD /\ em.state = "up"
      /\ ek.backlog # <<>> /\ ec' = ec
      /\ em' = [em EXCEPT !.evfd = f]
      /\ ek' = AcceptOne(k0, c)
  BY <1>c, <1>f DEF OnAccept, AtListener, Handling, Running
<1>4. /\ c \in EchoClients /\ Tail(ek.backlog) \in Seq(EchoClients)
      /\ Len(ek.backlog) \in Nat \ {0} /\ c = ek.backlog[1]
      /\ Len(Tail(ek.backlog)) = Len(ek.backlog) - 1
      /\ \A i \in 1 .. Len(ek.backlog) - 1 : Tail(ek.backlog)[i] = ek.backlog[i + 1]
  BY <1>1, <1>c, EchoTypes
<1>5. k0 \in EchoKernel /\ Free(k0) = Free(ek) /\ Open(k0) = Open(ek)
  BY <1>4 DEF EchoTypeOK, EchoKernel, Free, Open, IsOpen
<1>6. /\ k1.of = [ek.of EXCEPT ![f] = c] /\ k1.overlap = (ek.overlap \/ Open(ek) # {})
      /\ k1.mask = ek.mask /\ k1.data = ek.data /\ k1.ready = ek.ready
      /\ k1.backlog = Tail(ek.backlog) /\ k1.failed = ek.failed
      /\ k1 \in EchoKernel
  <2>1. [ek.of EXCEPT ![f] = c] \in [EchoFds -> EchoClients \cup {NoClient}] BY <1>4, EchoTypes
  <2> QED BY <1>5, <2>1 DEF EchoTypeOK, EchoKernel
<1>7. ek' = Ctl(k1, ec, f, "IN", f)
  BY <1>1, <1>5, <1>f DEF AcceptOne
<1>8. IsOpen(k1, f) BY <1>0, <1>3, <1>4, <1>6, EchoTypes DEF IsOpen
<1> HIDE DEF k0, k1
<1>9. /\ ek'.of = [ek.of EXCEPT ![f] = c] /\ ek'.overlap = (ek.overlap \/ Open(ek) # {})
      /\ ek'.mask = [ek.mask EXCEPT ![f] = "IN"] /\ ek'.data = [ek.data EXCEPT ![f] = f]
      /\ ek'.ready = IF PollIn(k1, ec, f) THEN ek.ready \cup {f} ELSE ek.ready
      /\ ek'.backlog = Tail(ek.backlog) /\ ek'.failed = ek.failed
      /\ ek' \in EchoKernel
  <2>1. /\ ek.ready \cup {f} \in SUBSET FdNum
        /\ [ek.mask EXCEPT ![f] = "IN"] \in [EchoFds -> {"IN", "OUT"}]
        /\ [ek.data EXCEPT ![f] = f] \in [EchoFds -> FdNum]
    BY <1>3, EchoTypes DEF FdNum
  <2>2. ek' = [k1 EXCEPT !.mask[f] = "IN", !.data[f] = f,
                 !.ready = IF PollIn(k1, ec, f) THEN ek.ready \cup {f} ELSE ek.ready]
    BY <1>6, <1>7, <1>8 DEF Ctl
  <2> QED BY <1>6, <2>1, <2>2 DEF EchoKernel
<1>10. em' \in EchoServer /\ em'.batch = em.batch /\ em'.evfd = f /\ em'.state = em.state
  BY <1>1, <1>3 DEF EchoTypeOK, EchoServer, FdNum
<1>11. EchoTypeOK' BY <1>1, <1>9, <1>10 DEF EchoTypeOK
<1>12. /\ \A g \in EchoFds : g # f => /\ ek'.of[g] = ek.of[g] /\ ek'.mask[g] = ek.mask[g]
                                      /\ ek'.data[g] = ek.data[g]
       /\ ek'.of[f] = c /\ ek'.mask[f] = "IN" /\ ek'.data[f] = f
  BY <1>3, <1>9, EchoTypes
<1>13. Open(ek') = Open(ek) \cup {f}
  <2>1. \A g \in EchoFds : g \in Open(ek') <=> g \in Open(ek) \/ g = f
    BY <1>0, <1>3, <1>4, <1>12 DEF Open, Free, IsOpen
  <2>2. Open(ek') \subseteq EchoFds /\ Open(ek) \subseteq EchoFds BY DEF Open
  <2> QED BY <1>3, <2>1, <2>2
<1>14. FdOf(c)' = FdOf(c) \cup {f} /\ \A d \in EchoClients : d # c => FdOf(d)' = FdOf(d)
  <2>1. \A d \in EchoClients : \A g \in EchoFds :
          ek'.of[g] = d <=> ek.of[g] = d \/ (g = f /\ d = c)
    BY <1>0, <1>3, <1>12
  <2>2. FdOf(c)' = FdOf(c) \cup {f} BY <1>3, <1>4, <2>1 DEF FdOf
  <2>3. \A d \in EchoClients : d # c => FdOf(d)' = FdOf(d) BY <2>1 DEF FdOf
  <2> QED BY <2>2, <2>3
<1>15. Waits(c) /\ FdOf(c) = {} /\ ec[c].state # "new" /\ ec[c].reads = 0 /\ ec[c].replies = 0
  <2>1. Waits(c) BY <1>4 DEF Waits
  <2> QED BY <1>4, <2>1 DEF InLine
<1>16. /\ Len(ek'.backlog) = Len(ek.backlog) - 1
       /\ \A i \in 1 .. Len(ek'.backlog) :
            /\ i + 1 \in 1 .. Len(ek.backlog) /\ i + 1 # 1
            /\ ek'.backlog[i] = ek.backlog[i + 1]
  BY <1>4, <1>9
<1>17. ~ Waits(c)'
  <2> SUFFICES ASSUME NEW i \in 1 .. Len(ek'.backlog), ek'.backlog[i] = c
               PROVE  FALSE
    BY DEF Waits
  <2>1. ek.backlog[i + 1] = ek.backlog[1] BY <1>4, <1>16
  <2>2. i + 1 = 1 BY <1>4, <1>16, <2>1 DEF InLine, Once
  <2> QED BY <1>16, <2>2
<1>18. \A d \in EchoClients : Waits(d)' => Waits(d)
  BY <1>16 DEF Waits
<1>19. InLine'
  <2>1. \A i, j \in 1 .. Len(ek'.backlog) : i + 1 = j + 1 => i = j BY <1>4, <1>16
  <2>2. Once(ek'.backlog)
    <3> SUFFICES ASSUME NEW i \in 1 .. Len(ek'.backlog), NEW j \in 1 .. Len(ek'.backlog),
                        ek'.backlog[i] = ek'.backlog[j]
                 PROVE  i = j
      BY DEF Once
    <3>1. ek.backlog[i + 1] = ek.backlog[j + 1] BY <1>16
    <3>2. i + 1 = j + 1 BY <1>16, <3>1 DEF InLine, Once
    <3> QED BY <2>1, <3>2
  <2>3. \A d \in EchoClients : ec'[d].state = "new" \/ Waits(d)' =>
            FdOf(d)' = {} /\ ec'[d].reads = 0 /\ ec'[d].replies = 0
    <3> SUFFICES ASSUME NEW d \in EchoClients, ec'[d].state = "new" \/ Waits(d)'
                 PROVE  FdOf(d)' = {} /\ ec'[d].reads = 0 /\ ec'[d].replies = 0
      OBVIOUS
    <3>1. d # c BY <1>1, <1>15, <1>17
    <3>2. ec[d].state = "new" \/ Waits(d) BY <1>1, <1>18
    <3> QED BY <1>1, <1>14, <3>1, <3>2 DEF InLine
  <2>4. \A d \in EchoClients : ec'[d].state = "new" => ~ Waits(d)'
    BY <1>1, <1>18 DEF InLine
  <2> QED BY <2>2, <2>3, <2>4 DEF InLine
<1>20. OwnNumber'
  BY <1>3, <1>10, <1>12, <1>13, OpenClient DEF OwnNumber
<1>21. ~ ek'.overlap => ~ ek.overlap /\ Open(ek) = {} BY <1>9
<1>22. Alone' BY <1>10, <1>12, <1>13, <1>21 DEF Alone
<1>23. Fresh'
  <2> SUFFICES ASSUME ~ ek'.overlap PROVE Fresh'
    BY DEF Fresh
  <2>1. \A i \in 1 .. Len(em'.batch) : em'.batch[i].fd = SFD BY <1>10, <1>21 DEF Fresh
  <2>2. \A i, j \in 1 .. Len(em'.batch) : em'.batch[i].fd = em'.batch[j].fd => i = j
    BY <1>10, <1>21 DEF Fresh
  <2> QED BY <2>1, <2>2 DEF Fresh
<1>24. EchoOwn'
  <2> SUFFICES ASSUME ~ ek'.overlap, NEW d \in EchoClients, FdOf(d)' # {}
               PROVE  Given(ec'[d], \E g \in FdOf(d)' : ek'.mask[g] = "OUT")
    BY DEF EchoOwn, Given
  <2>1. FdOf(d)' = {f} /\ d = c
    <3>1. FdOf(d) = {}
      BY <1>0, <1>21, EchoTypes DEF FdOf, Open, Free, IsOpen
    <3> QED BY <1>14, <3>1
  <2> QED BY <1>1, <1>12, <1>15, <2>1 DEF Given
<1>25. Listening' /\ Latest'
  <2>1. /\ DOMAIN em.batch = 1 .. Len(em.batch) /\ Len(em.batch) \in Nat \ {0}
        /\ Event = em.batch[1]
    BY <1>1, EchoTypes DEF Event
  <2>2. \E i \in DOMAIN em'.batch : em'.batch[i].fd = SFD
    BY <1>1, <1>10, <2>1
  <2>3. PollIn(ek', ec', f) <=> PollIn(k1, ec, f)
    BY <1>1, <1>6, <1>9 DEF PollIn
  <2>4. ek'.data[f] = f /\ (ek'.mask[f] = "OUT" \/ PollIn(ek', ec', f) => f \in ek'.ready)
    BY <1>9, <1>12, <2>3
  <2>5. Listening' BY <1>10, <2>1, <2>2 DEF Listening
  <2>6. Latest' BY <1>10, <2>4 DEF Latest, Due
  <2> QED BY <2>5, <2>6
<1>26. StaysConnected'
  <2>1. \A d \in EchoClients : d # c => (Contains(ek.backlog, d) => Contains(ek'.backlog, d))
    <3> SUFFICES ASSUME NEW d \in EchoClients, d # c,
                        NEW i \in 1 .. Len(ek.backlog), ek.backlog[i] = d
                 PROVE  \E j \in 1 .. Len(ek'.backlog) : ek'.backlog[j] = d
      BY DEF Contains
    <3>1. i - 1 \in 1 .. Len(ek'.backlog) /\ (i - 1) + 1 = i BY <1>4, <1>16
    <3>2. ek'.backlog[i - 1] = ek.backlog[(i - 1) + 1] BY <1>16, <3>1
    <3> QED BY <3>1, <3>2
  <2> QED BY <1>1, <1>14, <1>21, <2>1 DEF StaysConnected
<1> QED BY <1>11, <1>19, <1>20, <1>22, <1>23, <1>24, <1>25, <1>26

(* What the handling of an event of descriptor f may change.               *)
Handles(f, s) ==
  /\ ek' \in EchoKernel /\ ec' \in [EchoClients -> EchoClient]
  /\ ek'.backlog = ek.backlog /\ ek'.overlap = ek.overlap /\ ek'.failed = ek.failed
  /\ \A g \in EchoFds : g # f =>
       /\ ek'.of[g] = ek.of[g] /\ ek'.mask[g] = ek.mask[g] /\ ek'.data[g] = ek.data[g]
  /\ \A g \in FdNum : g # f => (g \in ek'.ready <=> g \in ek.ready)
  /\ ek'.of[f] \in {ek.of[f], NoClient}
  /\ ek'.data[f] \in {ek.data[f], em.evfd}
  /\ \A d \in EchoClients :
       /\ ec'[d].state = ec[d].state \/ (ec[d].state = "reset" /\ ec'[d].state = "dead")
       /\ ec'[d].unread > 0 => ec[d].unread > 0
       /\ d # ek.of[f] => ec'[d].reads = ec[d].reads /\ ec'[d].replies = ec[d].replies
  /\ ~ ek.overlap /\ ek'.of[f] = NoClient => ec[ek.of[f]].state # "connected"
  /\ ~ ek.overlap /\ ek'.of[f] # NoClient => Given(ec'[ek.of[f]], ek'.mask[f] = "OUT")
  /\ s = "up" /\ ek'.of[f] # NoClient /\ (ek'.mask[f] = "OUT" \/ PollIn(ek', ec', f)) =>
       \/ f \in ek'.ready
       \/ /\ ek.mask[f] = "OUT" /\ ek'.mask[f] = "OUT" /\ "IN" \in Event.on
          /\ ek'.ready = ek.ready

(* A handler that changes no more than Handles allows keeps the invariant. *)
LEMMA HandlesOK ==
  ASSUME EchoInv, em.batch # <<>>, em.state = "up",
         NEW f \in EchoFds, f = Event.fd,
         NEW s \in {"up", "killed"}, Done(em.evfd, s), Handles(f, s)
  PROVE  EchoInv'
<1> USE DEF EchoInv
<1>0. NoClient \notin EchoClients /\ SFD \notin EchoFds /\ SFD \in FdNum
  BY EchoAssumption DEF FdNum
<1>1. /\ ek' \in EchoKernel /\ ec' \in [EchoClients -> EchoClient]
      /\ ek'.backlog = ek.backlog /\ ek'.overlap = ek.overlap /\ ek'.failed = ek.failed
  BY DEF Handles
<1>2. \A g \in EchoFds : g # f =>
        /\ ek'.of[g] = ek.of[g] /\ ek'.mask[g] = ek.mask[g] /\ ek'.data[g] = ek.data[g]
  BY DEF Handles
<1>3. \A g \in FdNum : g # f => (g \in ek'.ready <=> g \in ek.ready) BY DEF Handles
<1>4. ek'.of[f] \in {ek.of[f], NoClient} /\ ek'.data[f] \in {ek.data[f], em.evfd}
  BY DEF Handles
<1>5. \A d \in EchoClients :
        /\ ec'[d].state = ec[d].state \/ (ec[d].state = "reset" /\ ec'[d].state = "dead")
        /\ ec'[d].unread > 0 => ec[d].unread > 0
        /\ d # ek.of[f] => ec'[d].reads = ec[d].reads /\ ec'[d].replies = ec[d].replies
  BY DEF Handles
<1>6. em.evfd \in FdNum BY EchoTypes
<1>7. em' \in EchoServer /\ em'.evfd = em.evfd /\ em'.state = s
  BY <1>6, Popped
<1>8. \A i \in 1 .. Len(em'.batch) : em'.batch[i].fd = SFD => em'.batch[i].on = {"IN"}
  BY <1>6, OwnEvents
<1>9. \A g : (\E i \in 1 .. Len(em.batch) : em.batch[i].fd = g)
        => g = f \/ \E i \in 1 .. Len(em'.batch) : em'.batch[i].fd = g
  BY <1>0, <1>6, OwnEvents
<1>10. ~ ek.overlap =>
         /\ \A i \in 1 .. Len(em'.batch) : em'.batch[i].fd = SFD
         /\ \A i, j \in 1 .. Len(em'.batch) : i = j
         /\ f \in Open(ek)
         /\ \A g \in Open(ek) : g = f
         /\ ek.data[f] = f /\ em.evfd = f
  BY <1>0, <1>6, OnlyEvent
<1>11. Open(ek') \subseteq Open(ek)
  BY <1>2, <1>4 DEF Open, Free, IsOpen
<1>12. \A d \in EchoClients : FdOf(d)' \subseteq FdOf(d)
  BY <1>0, <1>2, <1>4 DEF FdOf
<1>13. EchoTypeOK' BY <1>1, <1>7 DEF EchoTypeOK
<1>14. InLine'
  <2>1. \A d \in EchoClients : FdOf(d) = {} => d # ek.of[f] BY DEF FdOf
  <2>2. \A d \in EchoClients : Waits(d)' = Waits(d) BY <1>1 DEF Waits
  <2>3. Once(ek'.backlog) BY <1>1 DEF InLine
  <2>4. \A d \in EchoClients : ec'[d].state = "new" \/ Waits(d)' =>
            FdOf(d)' = {} /\ ec'[d].reads = 0 /\ ec'[d].replies = 0
    BY <1>5, <1>12, <2>1, <2>2 DEF InLine
  <2>5. \A d \in EchoClients : ec'[d].state = "new" => ~ Waits(d)'
    BY <1>5, <2>2 DEF InLine
  <2> QED BY <2>3, <2>4, <2>5 DEF InLine
<1>15. OwnNumber'
  <2>1. \A g \in Open(ek') : g \in EchoFds /\ ek'.data[g] # SFD /\ em.evfd # SFD
    BY <1>2, <1>4, <1>11, OpenClient DEF OwnNumber
  <2> QED BY <1>7, <1>8, <2>1 DEF OwnNumber
<1>16. Alone' BY <1>1, <1>4, <1>7, <1>10, <1>11 DEF Alone
<1>17. Fresh' BY <1>1, <1>10 DEF Fresh
<1>18. ASSUME ~ ek.overlap
       PROVE  /\ \A d \in EchoClients : FdOf(d)' # {} => FdOf(d)' = {f} /\ d = ek.of[f]
                                                         /\ ek'.of[f] # NoClient
              /\ Open(ek') # {} => ek'.of[f] # NoClient
  <2>1. \A d \in EchoClients : \A g \in FdOf(d)' : g \in Open(ek) /\ ek'.of[g] = d
    BY <1>0, <1>12 DEF FdOf, Open, Free, IsOpen
  <2>2. \A d \in EchoClients : \A g \in FdOf(d)' : g = f /\ ek'.of[f] = d /\ d = ek.of[f]
    BY <1>0, <1>4, <1>10, <1>18, <2>1
  <2>3. Open(ek') # {} => ek'.of[f] # NoClient
    BY <1>10, <1>11, <1>18 DEF Open, Free, IsOpen
  <2> QED BY <1>0, <2>2, <2>3
<1>19. EchoOwn'
  <2> SUFFICES ASSUME ~ ek'.overlap, NEW d \in EchoClients, FdOf(d)' # {}
               PROVE  Given(ec'[d], \E g \in FdOf(d)' : ek'.mask[g] = "OUT")
    BY DEF EchoOwn, Given
  <2>1. FdOf(d)' = {f} /\ d = ek.of[f] /\ ek'.of[f] # NoClient BY <1>1, <1>18
  <2>2. Given(ec'[d], ek'.mask[f] = "OUT") BY <1>1, <2>1 DEF Handles
  <2>3. (\E g \in FdOf(d)' : ek'.mask[g] = "OUT") <=> ek'.mask[f] = "OUT" BY <2>1
  <2> QED BY <2>2, <2>3 DEF Given
<1>20. Listening' /\ Latest'
  <2>1. DOMAIN em.batch = 1 .. Len(em.batch) /\ DOMAIN em'.batch = 1 .. Len(em'.batch)
    BY <1>7, EchoTypes DEF EchoServer
  <2>2. ek'.backlog # <<>> /\ ~ ek'.failed =>
          SFD \in ek'.ready \/ \E i \in DOMAIN em'.batch : em'.batch[i].fd = SFD
    <3>1. ek.backlog # <<>> /\ ~ ek.failed =>
            SFD \in ek.ready \/ \E i \in 1 .. Len(em.batch) : em.batch[i].fd = SFD
      BY DEF Listening, Running
    <3> QED BY <1>0, <1>1, <1>3, <1>9, <2>1, <3>1
  <2>3. ASSUME NEW g \in Open(ek'), g = em'.evfd
        PROVE  ek'.data[g] = g /\ ek.data[g] = g /\ g \in EchoFds /\ g \in Open(ek)
    <3>1. g \in Open(ek) /\ g \in EchoFds BY <1>11, <2>3, OpenClient
    <3>2. ek.data[g] = g BY <1>7, <2>3, <3>1 DEF Latest, Running
    <3> QED BY <1>2, <1>4, <1>7, <2>3, <3>1, <3>2
  <2>4. ASSUME s = "up", NEW g \in Open(ek'), g = em'.evfd,
               ek'.mask[g] = "OUT" \/ PollIn(ek', ec', g)
        PROVE  Due(g)'
    <3>1. CASE g = f
      <4>1. ek'.of[f] # NoClient BY <2>4, <3>1 DEF Open, Free, IsOpen
      <4>2. CASE f \in ek'.ready BY <3>1, <4>2 DEF Due
      <4>3. CASE /\ ek.mask[f] = "OUT" /\ ek'.mask[f] = "OUT" /\ "IN" \in Event.on
                 /\ ek'.ready = ek.ready
        <5>1. Due(f) BY <1>7, <2>3, <2>4, <3>1, <4>3 DEF Latest, Running
        <5>2. CASE f \in ek.ready BY <3>1, <4>3, <5>2 DEF Due
        <5>3. ASSUME NEW i \in 1 .. Len(em.batch), em.batch[i].fd = f,
                     "IN" \notin em.batch[i].on
              PROVE  Due(g)'
          <6>1. em.batch[i] # Event BY <4>3, <5>3
          <6>2. PICK j \in 1 .. Len(em'.batch) : em'.batch[j] = em.batch[i]
            BY <1>6, <6>1, OwnEvents
          <6> QED BY <3>1, <5>3, <6>2 DEF Due
        <5> QED BY <4>3, <5>1, <5>2, <5>3 DEF Due
      <4> QED BY <2>4, <3>1, <4>1, <4>2, <4>3 DEF Handles
    <3>2. CASE g # f
      <4>1. ek'.of[g] = ek.of[g] /\ ek'.mask[g] = ek.mask[g] /\ ek.of[g] \in EchoClients
        BY <1>2, <2>3, <2>4, <3>2, OpenClient
      <4>2. PollIn(ek', ec', g) => PollIn(ek, ec, g)
        BY <1>5, <4>1 DEF PollIn, Reset
      <4>3. Due(g) BY <1>7, <2>3, <2>4, <4>1, <4>2 DEF Latest, Running
      <4>4. CASE g \in ek.ready
        <5>1. g \in FdNum BY <2>3, <2>4 DEF FdNum
        <5>2. g \in ek'.ready BY <1>3, <3>2, <4>4, <5>1
        <5> QED BY <5>2 DEF Due
      <4>5. ASSUME NEW i \in 1 .. Len(em.batch), em.batch[i].fd = g,
                   ek.mask[g] = "OUT" => "IN" \notin em.batch[i].on
            PROVE  Due(g)'
        <5>1. em.batch[i] # Event BY <3>2, <4>5
        <5>2. PICK j \in 1 .. Len(em'.batch) : em'.batch[j] = em.batch[i]
          BY <1>6, <5>1, OwnEvents
        <5> QED BY <4>1, <4>5, <5>2 DEF Due
      <4> QED BY <4>3, <4>4, <4>5 DEF Due
    <3> QED BY <3>1, <3>2
  <2>5. Listening' BY <1>7, <2>1, <2>2 DEF Listening
  <2>6. Latest' BY <1>7, <2>3, <2>4 DEF Latest, Running
  <2> QED BY <2>5, <2>6
<1>21. StaysConnected'
  <2> SUFFICES ASSUME NEW d \in EchoClients, ~ ek'.overlap, ec'[d].state = "connected",
                      ~ Contains(ek'.backlog, d)
               PROVE  FdOf(d)' # {}
    BY DEF StaysConnected
  <2>1. FdOf(d) # {} BY <1>1, <1>5 DEF StaysConnected
  <2>2. f \in FdOf(d)
    <3>1. \A g \in FdOf(d) : g \in Open(ek) BY <1>0 DEF FdOf, Open, Free, IsOpen
    <3> QED BY <1>1, <1>10, <2>1, <3>1
  <2>3. ek.of[f] = d BY <2>2 DEF FdOf
  <2>4. ek'.of[f] # NoClient BY <1>1, <1>5, <2>3 DEF Handles
  <2> QED BY <1>4, <2>3, <2>4 DEF FdOf
<1> QED BY <1>13, <1>14, <1>15, <1>16, <1>17, <1>19, <1>20, <1>21

(* The connection of a descriptor that is open, and its event if there     *)
(* were never two connections at once.                                     *)
LEMMA FirstEvent ==
  ASSUME EchoInv, em.batch # <<>>
  PROVE  /\ Event \in BatchEvent
         /\ "ERR" \in Event.on \/ Event.on = {"OUT"} => Event.fd \in EchoFds
         /\ Event.fd # SFD => Event.fd \in EchoFds
         /\ ~ ek.overlap /\ Event.fd # SFD =>
              /\ IsOpen(ek, Event.fd)
              /\ em.evfd = Event.fd
              /\ "IN" \in Event.on => ek.mask[Event.fd] = "IN"
              /\ Event.on = {"OUT"} => ek.mask[Event.fd] = "OUT"
              /\ "ERR" \in Event.on => ec[ek.of[Event.fd]].state \in Reset
<1> USE DEF EchoInv
<1>1. /\ Event = em.batch[1] /\ Event \in BatchEvent /\ 1 \in 1 .. Len(em.batch)
  BY EchoTypes DEF Event
<1>2. Event.fd = SFD => Event.on = {"IN"} BY <1>1 DEF OwnNumber
<1>3. Event.fd # SFD => Event.fd \in EchoFds BY <1>1 DEF BatchEvent, FdNum
<1>4. ~ ek.overlap /\ Event.fd # SFD =>
        /\ Event.fd \in Open(ek)
        /\ "IN" \in Event.on => ek.mask[Event.fd] = "IN"
        /\ Event.on = {"OUT"} => ek.mask[Event.fd] = "OUT"
        /\ "ERR" \in Event.on => ec[ek.of[Event.fd]].state \in Reset
  BY <1>1 DEF Fresh
<1>5. ~ ek.overlap /\ Event.fd # SFD => IsOpen(ek, Event.fd) /\ em.evfd = Event.fd
  BY <1>4 DEF Alone, Open, Free
<1>6. "ERR" \in Event.on \/ Event.on = {"OUT"} => Event.fd \in EchoFds
  BY <1>2, <1>3
<1> QED BY <1>1, <1>3, <1>4, <1>5, <1>6

(* Reads and replies of the only connection.                               *)
LEMMA OwnReads ==
  ASSUME EchoInv, ~ ek.overlap, NEW f \in EchoFds, IsOpen(ek, f)
  PROVE  /\ ek.of[f] \in EchoClients
         /\ Given(ec[ek.of[f]], ek.mask[f] = "OUT")
<1> USE DEF EchoInv
<1>1. f \in Open(ek) BY DEF Open, Free
<1>2. ek.of[f] \in EchoClients BY <1>1, OpenClient
<1>3. FdOf(ek.of[f]) = {f}
  <2>1. \A g \in FdOf(ek.of[f]) : g \in Open(ek)
    BY DEF FdOf, Open, Free, IsOpen
  <2> QED BY <1>1, <2>1 DEF Alone, FdOf
<1>4. Given(ec[ek.of[f]], \E g \in FdOf(ek.of[f]) : ek.mask[g] = "OUT")
  BY <1>2, <1>3 DEF EchoOwn, Given
<1>5. (\E g \in FdOf(ek.of[f]) : ek.mask[g] = "OUT") <=> ek.mask[f] = "OUT" BY <1>3
<1> QED BY <1>2, <1>4, <1>5 DEF Given

(* What close makes of the kernel's state.                                 *)
LEMMA ShutIs ==
  ASSUME NEW k \in EchoKernel, NEW f \in EchoFds
  PROVE  /\ Shut(k, f) \in EchoKernel
         /\ Shut(k, f).of = [k.of EXCEPT ![f] = NoClient]
         /\ Shut(k, f).mask = k.mask /\ Shut(k, f).data = k.data
         /\ Shut(k, f).backlog = k.backlog /\ Shut(k, f).overlap = k.overlap
         /\ Shut(k, f).failed = k.failed
         /\ \A g \in FdNum : g # f => (g \in Shut(k, f).ready <=> g \in k.ready)
<1>1. CASE IsOpen(k, f)
  <2>1. /\ k.ready \ {f} \in SUBSET FdNum
        /\ [k.of EXCEPT ![f] = NoClient] \in [EchoFds -> EchoClients \cup {NoClient}]
    BY DEF EchoKernel
  <2>2. Shut(k, f) = [k EXCEPT !.of[f] = NoClient, !.ready = @ \ {f}] BY <1>1 DEF Shut
  <2> QED BY <2>1, <2>2 DEF EchoKernel
<1>2. CASE ~ IsOpen(k, f)
  <2>1. Shut(k, f) = k /\ k.of[f] = NoClient BY <1>2 DEF Shut, IsOpen
  <2>2. k.of \in [EchoFds -> EchoClients \cup {NoClient}] BY DEF EchoKernel
  <2>3. [k.of EXCEPT ![f] = NoClient] = k.of BY <2>1, <2>2
  <2> QED BY <2>1, <2>3
<1> QED BY <1>1, <1>2

(* What epoll_ctl makes, q, of the kernel's state k.                       *)
Registered(q, k, p, f, m, d) ==
  /\ q \in EchoKernel
  /\ q.of = k.of
  /\ q.mask = [k.mask EXCEPT ![f] = m] /\ q.data = [k.data EXCEPT ![f] = d]
  /\ q.backlog = k.backlog /\ q.overlap = k.overlap /\ q.failed = k.failed
  /\ \A g \in FdNum : g # f => (g \in q.ready <=> g \in k.ready)
  /\ m = "OUT" \/ PollIn(k, p, f) => f \in q.ready

(* What epoll_ctl makes of it.                                             *)
LEMMA CtlIs ==
  ASSUME NEW k \in EchoKernel, NEW p, NEW f \in EchoFds, IsOpen(k, f),
         NEW m \in {"IN", "OUT"}, NEW d \in FdNum
  PROVE  Registered(Ctl(k, p, f, m, d), k, p, f, m, d)
<1> DEFINE r == IF m = "OUT" \/ PollIn(k, p, f) THEN k.ready \cup {f} ELSE k.ready
<1>1. /\ r \in SUBSET FdNum
      /\ [k.mask EXCEPT ![f] = m] \in [EchoFds -> {"IN", "OUT"}]
      /\ [k.data EXCEPT ![f] = d] \in [EchoFds -> FdNum]
  BY DEF EchoKernel, FdNum
<1>2. Ctl(k, p, f, m, d) = [k EXCEPT !.mask[f] = m, !.data[f] = d, !.ready = r]
  BY DEF Ctl
<1>3. /\ \A g \in FdNum : g # f => (g \in r <=> g \in k.ready)
      /\ m = "OUT" \/ PollIn(k, p, f) => f \in r
  OBVIOUS
<1> HIDE DEF r
<1> QED BY <1>1, <1>2, <1>3 DEF Registered, EchoKernel

(* EPOLLERR or EPOLLHUP: a connection is closed.                           *)
LEMMA OnErrorOK ==
  ASSUME EchoInv, OnError
  PROVE  EchoInv'
<1> USE DEF EchoInv
<1>1. /\ em.batch # <<>> /\ em.state = "up" /\ "ERR" \in Event.on
      /\ ek' = Shut(ek, Event.fd) /\ Done(em.evfd, "up") /\ ec' = ec
  BY DEF OnError, Handling, Running
<1>2. PICK f \in EchoFds : f = Event.fd BY <1>1, FirstEvent
<1>3. f # SFD BY EchoAssumption
<1>4. ~ ek.overlap => ec[ek.of[f]].state \in Reset BY <1>1, <1>2, <1>3, FirstEvent
<1>5. ek \in EchoKernel /\ ec \in [EchoClients -> EchoClient] BY DEF EchoTypeOK
<1>6. /\ ek' \in EchoKernel
      /\ ek'.of = [ek.of EXCEPT ![f] = NoClient]
      /\ ek'.mask = ek.mask /\ ek'.data = ek.data
      /\ ek'.backlog = ek.backlog /\ ek'.overlap = ek.overlap
      /\ ek'.failed = ek.failed
      /\ \A g \in FdNum : g # f => (g \in ek'.ready <=> g \in ek.ready)
  BY <1>1, <1>2, <1>5, ShutIs
<1>7. ek'.of[f] = NoClient /\ \A g \in EchoFds : g # f => ek'.of[g] = ek.of[g]
  BY <1>6, EchoTypes
<1>8. Handles(f, "up") BY <1>1, <1>4, <1>5, <1>6, <1>7 DEF Handles, Reset
<1> QED BY <1>1, <1>2, <1>8, HandlesOK

(* A connection is read, and closed at its end.                            *)
LEMMA OnReadOK ==
  ASSUME EchoInv, OnRead
  PROVE  EchoInv'
<1> USE DEF EchoInv
<1>1. /\ em.batch # <<>> /\ em.state = "up" /\ "IN" \in Event.on
      /\ Done(em.evfd, "up") /\ Event.fd # SFD
  BY DEF OnRead, Handling, Running
<1>2. PICK f \in EchoFds : f = Event.fd BY <1>1, FirstEvent
<1>3. ek \in EchoKernel /\ ec \in [EchoClients -> EchoClient] BY DEF EchoTypeOK
<1>4. CASE ~ IsOpen(ek, f)
  <2>1. UNCHANGED <<ek, ec>> BY <1>2, <1>4 DEF OnRead
  <2>2. ek.overlap BY <1>1, <1>2, <1>4, FirstEvent
  <2>3. ek.of[f] = NoClient BY <1>4 DEF IsOpen
  <2>4. Handles(f, "up") BY <1>3, <2>1, <2>2, <2>3 DEF Handles
  <2> QED BY <1>1, <1>2, <2>4, HandlesOK
<1>5. CASE IsOpen(ek, f)
  <2>1. PICK c \in EchoClients : c = ek.of[f] BY <1>5, EchoTypes DEF IsOpen
  <2> DEFINE p == [ec EXCEPT ![c].unread = 0,
                             ![c].reads = @ + IF ec[c].unread > 0 THEN 1 ELSE 0]
             k == IF ec[c].unread > 0 THEN Ctl(ek, p, f, "OUT", em.evfd) ELSE ek
  <2>2. ec' = p /\ ek' = IF AtEnd(c) THEN Shut(k, f) ELSE k
    BY <1>2, <1>5, <2>1 DEF OnRead, Interest
  <2>3. /\ ec' \in [EchoClients -> EchoClient]
        /\ ec'[c].unread = 0
        /\ ec'[c].reads = ec[c].reads + IF ec[c].unread > 0 THEN 1 ELSE 0
        /\ \A d \in EchoClients : ec'[d].state = ec[d].state /\ ec'[d].replies = ec[d].replies
        /\ \A d \in EchoClients : d # c => ec'[d].reads = ec[d].reads
                                          /\ ec'[d].unread = ec[d].unread
    BY <1>3, <2>2 DEF EchoClient
  <2>4. em.evfd \in FdNum BY EchoTypes
  <2> HIDE DEF p
  <2>5. /\ k \in EchoKernel /\ k.of = ek.of
        /\ k.backlog = ek.backlog /\ k.overlap = ek.overlap /\ k.failed = ek.failed
        /\ \A g \in FdNum : g # f => (g \in k.ready <=> g \in ek.ready)
        /\ ec[c].unread > 0 => /\ k.mask = [ek.mask EXCEPT ![f] = "OUT"]
                               /\ k.data = [ek.data EXCEPT ![f] = em.evfd]
                               /\ f \in k.ready
        /\ ~ (ec[c].unread > 0) => k.mask = ek.mask /\ k.data = ek.data /\ k.ready = ek.ready
    <3>1. CASE ec[c].unread > 0
      <4>1. k = Ctl(ek, p, f, "OUT", em.evfd) BY <3>1
      <4>2. "OUT" \in {"IN", "OUT"} OBVIOUS
      <4> HIDE DEF k
      <4>3. Registered(k, ek, p, f, "OUT", em.evfd)
        BY <1>3, <1>5, <2>4, <4>1, <4>2, CtlIs, Zenon
      <4> QED BY <3>1, <4>3 DEF Registered
    <3>2. CASE ~ (ec[c].unread > 0) BY <1>3, <3>2
    <3> QED BY <3>1, <3>2
  <2>6. \A g \in EchoFds : g # f => k.mask[g] = ek.mask[g] /\ k.data[g] = ek.data[g]
    BY <1>3, <2>5, EchoTypes
  <2>7. k.data[f] \in {ek.data[f], em.evfd} BY <1>3, <2>5, EchoTypes
  <2>8. k.mask[f] = IF ec[c].unread > 0 THEN "OUT" ELSE ek.mask[f]
    BY <1>3, <2>5, EchoTypes
  <2> HIDE DEF k
  <2>9. CASE AtEnd(c)
    <3>0. ek' = Shut(k, f) BY <2>2, <2>9
    <3>1. /\ ek' \in EchoKernel
          /\ ek'.of = [ek.of EXCEPT ![f] = NoClient]
          /\ ek'.mask = k.mask /\ ek'.data = k.data
          /\ ek'.backlog = ek.backlog /\ ek'.overlap = ek.overlap
          /\ ek'.failed = ek.failed
          /\ \A g \in FdNum : g # f => (g \in ek'.ready <=> g \in k.ready)
      BY <2>5, <3>0, ShutIs
    <3>2. ek'.of[f] = NoClient /\ \A g \in EchoFds : g # f => ek'.of[g] = ek.of[g]
      BY <3>1, EchoTypes
    <3>3. ec[c].state # "connected" BY <2>9 DEF AtEnd, Reset
    <3>4. Handles(f, "up")
      BY <2>1, <2>3, <2>5, <2>6, <2>7, <3>1, <3>2, <3>3 DEF Handles
    <3> QED BY <1>1, <1>2, <3>4, HandlesOK
  <2>10. CASE ~ AtEnd(c)
    <3>0. ek' = k BY <2>2, <2>10
    <3>1. ~ ek.overlap => ek.mask[f] = "IN" BY <1>1, <1>2, FirstEvent
    <3>2. ~ ek.overlap => Given(ec[c], FALSE)
      BY <1>5, <2>1, <3>1, OwnReads DEF Given
    <3>3. ec[c].unread \in Nat /\ ec[c].reads \in Nat /\ ec[c].replies \in Nat
      BY <1>3, <2>1 DEF EchoClient
    <3>4. ~ PollIn(ek', ec', f)
      BY <2>1, <2>3, <2>5, <2>10, <3>0 DEF PollIn, AtEnd
    <3>5. ~ ek.overlap => Given(ec'[c], ek'.mask[f] = "OUT")
      <4>1. CASE ec[c].unread > 0 BY <2>3, <2>8, <3>0, <3>2, <3>3, <4>1 DEF Given
      <4>2. CASE ~ (ec[c].unread > 0)
        BY <2>3, <2>8, <3>0, <3>1, <3>2, <3>3, <4>2 DEF Given
      <4> QED BY <4>1, <4>2
    <3>6. ek'.mask[f] = "OUT" \/ PollIn(ek', ec', f) =>
            \/ f \in ek'.ready
            \/ /\ ek.mask[f] = "OUT" /\ ek'.mask[f] = "OUT" /\ "IN" \in Event.on
               /\ ek'.ready = ek.ready
      BY <1>1, <2>5, <2>8, <3>0, <3>4
    <3>7. ek'.of[f] # NoClient BY <1>5, <2>5, <3>0 DEF IsOpen
    <3>8. Handles(f, "up")
      BY <2>1, <2>3, <2>5, <2>6, <2>7, <3>0, <3>5, <3>6, <3>7 DEF Handles
    <3> QED BY <1>1, <1>2, <3>8, HandlesOK
  <2> QED BY <2>9, <2>10
<1> QED BY <1>4, <1>5

(* A connection is answered, or the program killed by SIGPIPE.             *)
LEMMA OnWriteOK ==
  ASSUME EchoInv, OnWrite
  PROVE  EchoInv'
<1> USE DEF EchoInv
<1>1. em.batch # <<>> /\ em.state = "up" /\ Event.on = {"OUT"} /\ Event.fd # SFD
  BY DEF OnWrite, Handling, Running
<1>2. PICK f \in EchoFds : f = Event.fd BY <1>1, FirstEvent
<1>3. ek \in EchoKernel /\ ec \in [EchoClients -> EchoClient] BY DEF EchoTypeOK
<1>4. ~ ek.overlap => IsOpen(ek, f) /\ ek.mask[f] = "OUT" BY <1>1, <1>2, FirstEvent
<1>5. CASE ~ IsOpen(ek, f)
  <2>1. UNCHANGED <<ek, ec>> /\ Done(em.evfd, "up") BY <1>2, <1>5 DEF OnWrite
  <2>2. ek.of[f] = NoClient BY <1>5 DEF IsOpen
  <2>3. Handles(f, "up") BY <1>3, <1>4, <1>5, <2>1, <2>2 DEF Handles
  <2> QED BY <1>1, <1>2, <2>1, <2>3, HandlesOK
<1>6. CASE IsOpen(ek, f)
  <2>1. PICK c \in EchoClients : c = ek.of[f] BY <1>6, EchoTypes DEF IsOpen
  <2>2. ~ ek.overlap => Given(ec[c], ek.mask[f] = "OUT") BY <1>6, <2>1, OwnReads
  <2>3. CASE ec[c].state = "dead"
    <3>1. UNCHANGED <<ek, ec>> /\ Done(em.evfd, "killed")
      BY <1>2, <1>6, <2>1, <2>3 DEF OnWrite
    <3>2. ek.of[f] # NoClient BY <1>6 DEF IsOpen
    <3>3. Handles(f, "killed") BY <1>3, <1>4, <2>1, <2>2, <3>1, <3>2 DEF Handles
    <3> QED BY <1>1, <1>2, <3>1, <3>3, HandlesOK
  <2>4. CASE ec[c].state # "dead"
    <3> DEFINE p == IF ec[c].state = "reset" THEN [ec EXCEPT ![c].state = "dead"]
                    ELSE [ec EXCEPT ![c].replies = @ + 1]
    <3>1. ec' = p /\ ek' = Ctl(ek, p, f, "IN", em.evfd) /\ Done(em.evfd, "up")
      BY <1>2, <1>6, <2>1, <2>4 DEF OnWrite
    <3>2. /\ ec' \in [EchoClients -> EchoClient]
          /\ IF ec[c].state = "reset"
             THEN ec'[c].state = "dead" /\ ec'[c].replies = ec[c].replies
             ELSE ec'[c].state = ec[c].state /\ ec'[c].replies = ec[c].replies + 1
          /\ ec'[c].reads = ec[c].reads /\ ec'[c].unread = ec[c].unread
          /\ \A d \in EchoClients : d # c => ec'[d] = ec[d]
      <4>1. CASE ec[c].state = "reset"
        <5>1. ec' = [ec EXCEPT ![c].state = "dead"] BY <3>1, <4>1
        <5> QED BY <1>3, <4>1, <5>1 DEF EchoClient
      <4>2. CASE ec[c].state # "reset"
        <5>1. ec' = [ec EXCEPT ![c].replies = @ + 1] BY <3>1, <4>2
        <5> QED BY <1>3, <4>2, <5>1 DEF EchoClient
      <4> QED BY <4>1, <4>2
    <3>3. em.evfd \in FdNum BY EchoTypes
    <3>4. /\ ek' \in EchoKernel /\ ek'.of = ek.of
          /\ ek'.mask = [ek.mask EXCEPT ![f] = "IN"]
          /\ ek'.data = [ek.data EXCEPT ![f] = em.evfd]
          /\ ek'.backlog = ek.backlog /\ ek'.overlap = ek.overlap /\ ek'.failed = ek.failed
          /\ \A g \in FdNum : g # f => (g \in ek'.ready <=> g \in ek.ready)
          /\ PollIn(ek, ec', f) => f \in ek'.ready
      <4> HIDE DEF p
      <4>1. "IN" \in {"IN", "OUT"} OBVIOUS
      <4>2. Registered(ek', ek, p, f, "IN", em.evfd)
        BY <1>3, <1>6, <3>1, <3>3, <4>1, CtlIs, Zenon
      <4> QED BY <3>1, <4>2 DEF Registered
    <3>5. /\ \A g \in EchoFds : g # f => ek'.mask[g] = ek.mask[g] /\ ek'.data[g] = ek.data[g]
          /\ ek'.mask[f] = "IN" /\ ek'.data[f] = em.evfd
      BY <3>4, EchoTypes
    <3>6. ~ ek.overlap => Given(ec'[c], FALSE)
      <4>1. ec[c].reads \in Nat /\ ec[c].replies \in Nat BY <1>3 DEF EchoClient
      <4>2. ~ ek.overlap => ec[c].replies + 1 <= ec[c].reads
                         /\ (ec[c].state \notin Reset => ec[c].replies + 1 = ec[c].reads)
        BY <1>4, <2>2 DEF Given
      <4>3. CASE ec[c].state = "reset"
        BY <3>2, <4>1, <4>2, <4>3 DEF Given, Reset
      <4>4. CASE ec[c].state # "reset"
        BY <3>2, <4>1, <4>2, <4>4 DEF Given
      <4> QED BY <4>3, <4>4
    <3>7. ek'.of[f] # NoClient BY <1>6, <3>4 DEF IsOpen
    <3>8. PollIn(ek', ec', f) => f \in ek'.ready BY <3>4 DEF PollIn
    <3>9. ~ ek.overlap => Given(ec'[c], ek'.mask[f] = "OUT") BY <3>5, <3>6 DEF Given
    <3>10. \A d \in EchoClients :
             /\ ec'[d].state = ec[d].state \/ (ec[d].state = "reset" /\ ec'[d].state = "dead")
             /\ ec'[d].unread = ec[d].unread
             /\ d # c => ec'[d].reads = ec[d].reads /\ ec'[d].replies = ec[d].replies
      BY <3>2
    <3>11. Handles(f, "up")
      BY <2>1, <3>2, <3>4, <3>5, <3>7, <3>8, <3>9, <3>10 DEF Handles
    <3> QED BY <1>1, <1>2, <3>1, <3>11, HandlesOK
  <2> QED BY <2>3, <2>4
<1> QED BY <1>5, <1>6

(* The invariant holds in every state, for any number of clients, messages *)
(* and descriptors.                                                        *)
THEOREM EchoInvariant == EchoSpec => []EchoInv
<1>1. EchoInit => EchoInv BY EchoInitOK
<1>2. EchoInv /\ [EchoNext]_echoVars => EchoInv'
  <2> SUFFICES ASSUME EchoInv, [EchoNext]_echoVars PROVE EchoInv'
    OBVIOUS
  <2>1. CASE EchoNext
    BY <2>1, EchoConnectOK, EchoSendOK, EchoLeaveOK, EchoWaitOK, OnErrorOK, OnAcceptOK,
       OnAcceptEndOK, OnReadOK, OnWriteOK DEF EchoNext
  <2>2. CASE UNCHANGED echoVars
    BY <2>2 DEF echoVars, EchoInv, EchoTypeOK, InLine, Waits, OwnNumber, Alone, Fresh, EchoOwn,
                Listening, Latest, Due, StaysConnected, FdOf, Running
  <2> QED BY <2>1, <2>2
<1> QED BY <1>1, <1>2, PTL DEF EchoSpec

(* In whatever order clients connect, send and leave, connections are      *)
(* accepted, writes fail and accept fails: the connection accepted last    *)
(* loses no edge however many are open, and the listening socket only that *)
(* of clients who wait when accept fails; and until two connections are    *)
(* open at once every client that resets nothing is answered once for      *)
(* every time it was read, none more often, and each stays connected until *)
(* it leaves.                                                              *)
THEOREM EchoSafe == EchoSpec => []EchoCorrect
<1>1. EchoInv => EchoCorrect BY EdgesFrom DEF EchoInv, EchoCorrect
<1> QED BY <1>1, EchoInvariant, PTL
=============================================================================
