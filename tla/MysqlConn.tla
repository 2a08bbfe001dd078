------------------------------ MODULE MysqlConn ------------------------------
(***************************************************************************)
(* c/libgs/ctapi_mysql/ctapi_mysql.c: a handle on a MySQL server that is   *)
(* connected again when the connection was lost.                           *)
(*                                                                         *)
(* The client library is modelled by what the code sees of it: a statement *)
(* is executed, refused by the server, or the connection is lost before or *)
(* after the server executed it.  Every round of a loop is a step, so that *)
(* the connection may be lost between any two.                             *)
(***************************************************************************)
EXTENDS Integers, FiniteSets

CONSTANTS
  MyConns,      \* bound: connections made
  MyQueries     \* bound: statements

ASSUME MyAssumption == MyConns \in Nat /\ MyQueries \in Nat

NoMsp == 0

VARIABLES
  my,       \* the handle, and the call that is running
  mysrv,    \* the MYSQL objects, the connections, what the server did
  mylog     \* history: the last statement and what was answered

mysqlVars == <<my, mysrv, mylog>>

(* MYSQL objects are numbered in the order of mysql_init.  closed: objects *)
(* that were closed twice, or used after that.                             *)
MysqlInit ==
  /\ my = [handle |-> FALSE, msp |-> NoMsp, call |-> "none", retry |-> FALSE, flag |-> FALSE]
  /\ mysrv = [made |-> 0, open |-> {}, up |-> {}, rows |-> NoMsp, of |-> 0, misused |-> FALSE]
  /\ mylog = [ran |-> 0, lost |-> 0, rounds |-> 0, ret |-> "none",
              queries |-> 0, retried |-> {}]

Idle == my.handle /\ my.call = "none"

(* mysql_close.  A null pointer is accepted.                               *)
Closed(s, m) ==
  [s EXCEPT !.open = @ \ {m}, !.up = @ \ {m},
            !.rows = IF @ = m THEN NoMsp ELSE @,
            !.misused = @ \/ m \notin s.open \cup {NoMsp}]

(* The results of _mysql_conn on the library's state s, with the pointer   *)
(* m in the handle: "init" and "option" fail before the handle changes.    *)
_mysql_conn(s, m, how) ==
  LET new == s.made + 1
      made == [s EXCEPT !.made = new, !.open = @ \cup {new}]
  IN CASE how = "init" -> [s |-> s, msp |-> m, ret |-> -1]
       [] how = "option" -> [s |-> Closed(made, new), msp |-> m, ret |-> -1]
       [] how = "refused" -> [s |-> Closed(made, new), msp |-> NoMsp, ret |-> -2]
       [] how = "ok" -> [s |-> [made EXCEPT !.up = @ \cup {new}], msp |-> new, ret |-> 0]

Hows == {"init", "option", "refused", "ok"}
MayConnect == mysrv.made < MyConns

(* ct_mysql_connect: the handle is freed if there is no connection.        *)
ct_mysql_connect ==
  /\ ~ my.handle /\ MayConnect
  /\ \E how \in Hows :
       LET c == _mysql_conn(mysrv, NoMsp, how)
       IN /\ mysrv' = c.s
          /\ my' = IF c.ret = 0 THEN [my EXCEPT !.handle = TRUE, !.msp = c.msp] ELSE my
  /\ UNCHANGED mylog

(* A call on the handle first connects it, if it is not connected.  then:  *)
(* what the call goes on as; failed: what it answers otherwise.  Answers:  *)
(* "ok" is 0, "ER" an error of the server, "error" another.                *)
Begin(then, failed, log) ==
  \/ /\ my.msp # NoMsp
     /\ my' = then
     /\ mylog' = log
     /\ UNCHANGED mysrv
  \/ /\ my.msp = NoMsp /\ MayConnect
     /\ \E how \in Hows :
          LET c == _mysql_conn(mysrv, NoMsp, how)
          IN /\ mysrv' = c.s
             /\ my' = IF c.ret = 0 THEN [then EXCEPT !.msp = c.msp] ELSE my
             /\ mylog' = IF c.ret = 0 THEN log ELSE [log EXCEPT !.ret = failed]

ct_mysql_query(retry) ==
  /\ Idle
  /\ mylog.queries < MyQueries
  /\ Begin([my EXCEPT !.call = "query", !.retry = retry, !.flag = FALSE], "error",
           [mylog EXCEPT !.ran = 0, !.lost = 0, !.rounds = 0, !.ret = "none",
                         !.queries = @ + 1, !.retried = {}])

ct_mysql_store_result(retry) ==
  /\ Idle
  /\ mylog.ret # "rows"
  /\ Begin([my EXCEPT !.call = "store", !.retry = retry, !.flag = FALSE], "null",
           [mylog EXCEPT !.rounds = 0, !.ret = "none", !.retried = @ \ {"store"}])

(* _mysql_options and _mysql_set_server_option.                            *)
_mysql_options ==
  /\ Idle
  /\ Begin(my, "error", [mylog EXCEPT !.ret = "none"])

Return(ret) ==
  /\ my' = [my EXCEPT !.call = "none"]
  /\ mylog' = [mylog EXCEPT !.ret = ret, !.rounds = @ + 1]

(* The connection is closed and made anew.                                 *)
Reopened(how) == _mysql_conn(Closed(mysrv, my.msp), my.msp, how)

(* Mutant of Reconnect: a second loss is followed by a third try.          *)
ReconnectForever(last) ==
  \/ /\ ~ my.retry
     /\ Return(last)
     /\ mysrv' = [mysrv EXCEPT !.rows = NoMsp]
  \/ /\ my.retry
     /\ MayConnect
     /\ \E how \in Hows :
          LET c == Reopened(how)
          IN /\ mysrv' = c.s
             /\ my' = IF c.ret = 0 THEN [my EXCEPT !.msp = c.msp]
                      ELSE [my EXCEPT !.msp = NoMsp, !.call = "none"]
             /\ mylog' = [mylog EXCEPT !.rounds = @ + 1, !.retried = @ \cup {my.call},
                            !.ret = IF c.ret = 0 THEN "none"
                                    ELSE IF my.call = "query" THEN "error" ELSE "null"]

(* The connection was lost in a round: the call ends with the answer last, *)
(* or tries once more on a new connection.  The loop of a query that gives *)
(* up is left the way it is left after a success, with 0.                  *)
Reconnect(last) ==
  \/ /\ ~ my.retry \/ my.flag
     /\ Return(last)
     /\ mysrv' = [mysrv EXCEPT !.rows = NoMsp]
  \/ /\ my.retry /\ ~ my.flag
     /\ MayConnect
     /\ \E how \in Hows :
          LET c == Reopened(how)
          IN /\ mysrv' = c.s
             /\ my' = IF c.ret = 0 THEN [my EXCEPT !.msp = c.msp, !.flag = TRUE]
                      ELSE [my EXCEPT !.msp = NoMsp, !.call = "none"]
             /\ mylog' = [mylog EXCEPT !.rounds = @ + 1, !.retried = @ \cup {my.call},
                            !.ret = IF c.ret = 0 THEN "none"
                                    ELSE IF my.call = "query" THEN "error" ELSE "null"]

(* The server loses its connections; mysql_real_query then finds it gone.  *)
ServerGone ==
  /\ mysrv.up # {}
  /\ mysrv' = [mysrv EXCEPT !.up = {}]
  /\ UNCHANGED <<my, mylog>>

Querying == my.call = "query"
Connected == my.msp \in mysrv.up

(* The statement is executed: with rows or without.  While the rows of an  *)
(* earlier one are waiting the library only answers "out of sync".         *)
QueryRuns ==
  /\ Querying /\ Connected /\ mysrv.rows = NoMsp
  /\ \E rows \in {NoMsp, my.msp} :
       mysrv' = [mysrv EXCEPT !.rows = rows, !.of = mylog.queries]
  /\ my' = [my EXCEPT !.call = "none"]
  /\ mylog' = [mylog EXCEPT !.ran = @ + 1, !.ret = "ok", !.rounds = @ + 1]

(* An error of the server, or one of the library.                          *)
QueryFails ==
  /\ Querying /\ (Connected \/ mysrv.rows # NoMsp)
  /\ \E ret \in {"ER", "error"} : Return(ret)
  /\ UNCHANGED mysrv

(* The reply is lost after the statement was executed.                     *)
QueryLost ==
  /\ Querying /\ Connected /\ mysrv.rows = NoMsp
  /\ mysrv' = [mysrv EXCEPT !.up = {}]
  /\ mylog' = [mylog EXCEPT !.ran = @ + 1, !.lost = @ + 1]
  /\ UNCHANGED my

QueryGone ==
  /\ Querying /\ ~ Connected /\ mysrv.rows = NoMsp
  /\ Reconnect("ok")

Storing == my.call = "store"

StoreRows ==
  /\ Storing /\ Connected /\ mysrv.rows = my.msp
  /\ mysrv' = [mysrv EXCEPT !.rows = NoMsp]
  /\ Return("rows")

(* No result was waiting, or an error.                                     *)
StoreNothing ==
  /\ Storing /\ Connected
  /\ Return("null")
  /\ mysrv' = [mysrv EXCEPT !.rows = NoMsp]

StoreGone ==
  /\ Storing /\ ~ Connected
  /\ Reconnect("null")

ct_mysql_disconnect ==
  /\ Idle
  /\ mysrv' = Closed(mysrv, my.msp)
  /\ my' = [my EXCEPT !.handle = FALSE, !.msp = NoMsp]
  /\ mylog' = [mylog EXCEPT !.ret = "none", !.ran = 0]

MysqlNext ==
  \/ ct_mysql_connect
  \/ \E retry \in BOOLEAN : ct_mysql_query(retry) \/ ct_mysql_store_result(retry)
  \/ _mysql_options
  \/ ServerGone
  \/ QueryRuns \/ QueryFails \/ QueryLost \/ QueryGone
  \/ StoreRows \/ StoreNothing \/ StoreGone
  \/ ct_mysql_disconnect
-----------------------------------------------------------------------------
(* Whatever fails, and wherever a reconnection stops, the one MYSQL object *)
(* that is open is the handle's, and none is closed twice.                 *)
OneConnection ==
  /\ mysrv.open = {my.msp} \ {NoMsp}
  /\ ~ my.handle => my.msp = NoMsp
  /\ ~ mysrv.misused

(* A statement is executed at most twice: twice only if the caller asked   *)
(* for a retry and the reply to the first was lost.  An answer of 0 means  *)
(* that it was executed, unless the connection was lost and the caller did *)
(* not ask for a retry, or it was lost again.  A call makes two rounds.    *)
AnsweredOnce ==
  /\ mylog.rounds <= 2
  /\ mylog.ran <= 1 + mylog.lost
  /\ mylog.ran >= 2 => "query" \in mylog.retried /\ mylog.ran = 2
  /\ my.call = "none" /\ mylog.ret = "ok" /\ mylog.ran = 0 =>
       ~ my.retry \/ "query" \in mylog.retried

(* Rows are those of a statement that was executed, on the same connection *)
(* and with its reply: a result that was lost with its connection is never *)
(* replaced, whatever the retry option of ct_mysql_store_result.  They are *)
(* those of the last statement, unless that was answered with an error     *)
(* because the rows of the one before it were still waiting.               *)
RowsOfQuery ==
  /\ mysrv.rows # NoMsp => mysrv.rows = my.msp
  /\ mylog.ret = "rows" =>
       /\ "store" \notin mylog.retried
       /\ mysrv.of = mylog.queries => mylog.ran >= 1
       /\ mysrv.of # mylog.queries => mylog.ran = 0
  /\ mysrv.rows # NoMsp /\ mylog.ret = "ok" => mysrv.of = mylog.queries

(* Losing the connection at any point of a query or of its result, with    *)
(* and without the retry option, neither loses nor doubles a connection,   *)
(* and never passes off other rows for those of the statement.             *)
RetryIsSound ==
  /\ OneConnection
  /\ AnsweredOnce
  /\ RowsOfQuery
=============================================================================
