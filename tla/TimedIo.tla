------------------------------- MODULE TimedIo -------------------------------
(***************************************************************************)
(* Reads and writes with a timeout: read_fd_timeout and write_fd_timeout   *)
(* of samples/server_epoll/utils.c, of which samples/iorw_timeout.c holds  *)
(* another version, and safe_read and read_line of ctproxy/ctio.c.         *)
(*                                                                         *)
(* Every round of a loop is a step; the kernel may let select run out, be  *)
(* interrupted, or accept a part of the data.  Characters that a read has  *)
(* not replaced are what the buffer held before.  The peer may send one    *)
(* byte at a time as urgent: until a read passes its place in the stream,  *)
(* select reports an exception of the descriptor.                          *)
(***************************************************************************)
EXTENDS Integers, Sequences, SequencesExt

CONSTANTS
  IoChar,        \* characters that the peer sends
  IoLen,         \* bound: characters in flight or read by one call
  IoCalls,       \* bound: calls
  ReadBuf,       \* size of the buffer of read_fd_timeout
  LineBuf,       \* size of the buffer of read_line
  IoTimeout,     \* timeout, in units of the clock
  IoClock        \* bound: the clock

EOL == "LF"
RET == "CR"
ZERO == "NUL"

ASSUME IoAssumption ==
  /\ IoTimeout \in Nat \ {0} /\ IoLen \in Nat
  /\ ReadBuf \in Nat \ {0} /\ LineBuf \in Nat \ {0}

VARIABLES
  io,      \* the call that is running, and its descriptor
  iopeer,  \* the other side: what it received; its stream, of which "read" has
           \* been read, out of what was sent since the call or waited then,
           \* and the characters in front of an urgent byte (-1: there is none)
  iolog    \* history: of the call that runs, or of the last one

ioVars == <<io, iopeer, iolog>>

(* lastread is static, and zero when the program starts, long before the   *)
(* clock of the model.                                                     *)
LongAgo == -2 * IoTimeout

NewLog(n) ==
  [fn |-> "none", data |-> <<>>, ret |-> 0, zero |-> FALSE, began |-> 0,
   signal |-> FALSE, urgent |-> FALSE, waited |-> 0, early |-> FALSE, old |-> FALSE,
   error |-> FALSE, buf |-> <<>>, calls |-> n]

IoInit ==
  /\ io = [fn |-> "none", todo |-> <<>>, wrote |-> 0, line |-> <<>>,
           nonblock |-> FALSE, now |-> 0, lastread |-> LongAgo]
  /\ iopeer = [got |-> <<>>, stream |-> <<>>, read |-> <<>>, sent |-> <<>>,
               mark |-> -1, closed |-> FALSE]
  /\ iolog = NewLog(0)

Called == io.fn = "none" /\ iolog.calls < IoCalls

(* The history of the other side, when a call begins.                      *)
Afresh == iopeer' = [iopeer EXCEPT !.got = <<>>, !.read = <<>>, !.sent = iopeer.stream]

IoReturn(fn, ret, nonblock) ==
  /\ io' = [io EXCEPT !.fn = "none", !.todo = <<>>, !.wrote = 0, !.line = <<>>,
                      !.nonblock = nonblock]
  /\ iolog' = [iolog EXCEPT !.fn = fn, !.ret = ret]

-----------------------------------------------------------------------------
(* write_fd_timeout of utils.c ("write") and write_nb_timeout of           *)
(* iorw_timeout.c ("write_nb") begin by making the descriptor non-blocking.*)
write_fd_timeout(d, fn) ==
  /\ Called
  /\ io' = [io EXCEPT !.fn = fn, !.todo = d, !.nonblock = TRUE]
  /\ Afresh
  /\ iolog' = [NewLog(iolog.calls + 1) EXCEPT !.data = d]

(* The descriptor cannot be made non-blocking: nothing is written.         *)
NdelayFails(d, fn) ==
  /\ Called
  /\ Afresh
  /\ iolog' = [NewLog(iolog.calls + 1) EXCEPT !.fn = fn, !.data = d, !.ret = -1, !.zero = iolog.zero]
  /\ UNCHANGED io

Writing == io.fn \in {"write", "write_nb"}

(* Mutant of WriteSome: the rest is written from the start of the buffer.  *)
WriteSomeAgain(k) ==
  /\ iopeer' = [iopeer EXCEPT !.got = @ \o SubSeq(iolog.data, 1, k)]
  /\ io' = [io EXCEPT !.todo = SubSeq(@, k + 1, Len(@)), !.wrote = @ + k]
  /\ UNCHANGED iolog

(* The descriptor takes k characters of what is left.                      *)
WriteSome(k) ==
  /\ iopeer' = [iopeer EXCEPT !.got = @ \o SubSeq(io.todo, 1, k)]
  /\ io' = [io EXCEPT !.todo = SubSeq(@, k + 1, Len(@)), !.wrote = @ + k]
  /\ UNCHANGED iolog

WritePart ==
  /\ Writing
  /\ \E k \in 1 .. Len(io.todo) : WriteSome(k)

WriteDone ==
  /\ Writing /\ io.todo = <<>>
  /\ IoReturn(io.fn, io.wrote, FALSE)
  /\ UNCHANGED iopeer

(* select fails (-1) or runs out (-2), or write fails (-1): an interrupted *)
(* write too, since no errno is equal to both EAGAIN and EINTR.            *)
WriteFails ==
  /\ Writing /\ io.todo # <<>>
  /\ \E ret \in {-1, -2} : IoReturn(io.fn, ret, FALSE)
  /\ UNCHANGED iopeer

(* write takes nothing: the version in utils.c leaves the descriptor       *)
(* non-blocking.                                                           *)
WriteZero ==
  /\ Writing /\ io.todo # <<>>
  /\ io' = [io EXCEPT !.fn = "none", !.todo = <<>>, !.wrote = 0,
                      !.nonblock = (io.fn = "write")]
  /\ iolog' = [iolog EXCEPT !.fn = io.fn, !.ret = -1, !.zero = (io.fn = "write")]
  /\ UNCHANGED iopeer

(* read_fd_timeout and read_nb_timeout: one select and one read of up to   *)
(* ReadBuf characters.                                                     *)
read_fd_timeout ==
  /\ Called
  /\ io' = [io EXCEPT !.fn = "read"]
  /\ Afresh
  /\ iolog' = [NewLog(iolog.calls + 1) EXCEPT !.zero = iolog.zero]

Reading == io.fn = "read"

ReadReturns(ret) ==
  /\ io' = [io EXCEPT !.fn = "none"]
  /\ iolog' = [iolog EXCEPT !.fn = "read", !.ret = ret]

(* A read gets m characters: it stops in front of an urgent byte, unless it*)
(* begins there.                                                           *)
ReadSome(m) ==
  LET s == iopeer.stream
  IN /\ iopeer.mark > 0 => m <= iopeer.mark
     /\ iopeer' = [iopeer EXCEPT !.stream = SubSeq(s, m + 1, Len(s)),
                                 !.read = SubSeq(s, 1, m),
                                 !.mark = IF @ > 0 THEN @ - m ELSE -1]
     /\ ReadReturns(m)

ReadPart ==
  /\ Reading
  /\ \E m \in 1 .. Len(iopeer.stream) : m <= ReadBuf /\ ReadSome(m)

(* Nothing to read: the peer has closed, or select runs out; and select or *)
(* read may fail at any time.                                              *)
ReadNothing ==
  /\ Reading
  /\ \/ iopeer.stream = <<>> /\ ReadReturns(IF iopeer.closed THEN 0 ELSE -2)
     \/ ReadReturns(-1)
  /\ UNCHANGED iopeer

-----------------------------------------------------------------------------
(* todo is the rest of the buffer: what it holds before the call matters,  *)
(* since read_line looks at it after a safe_read that failed.              *)
read_line(buf) ==
  /\ Called
  /\ io' = [io EXCEPT !.fn = "line", !.todo = buf]
  /\ Afresh
  /\ iolog' = [NewLog(iolog.calls + 1) EXCEPT !.zero = iolog.zero, !.began = io.now,
                 !.buf = buf]

Lining == io.fn = "line"

(* There is room for a character and the null after it.                    *)
HasRoom == Len(io.todo) > 1

Answered(log, ret, line) == [log EXCEPT !.fn = "line", !.ret = ret, !.data = line]

(* What read_line makes of the character that is now in its buffer, once   *)
(* safe_read is over.                                                      *)
Examine(new, before) ==
  LET c == new.todo[1]
      log == [before EXCEPT !.began = new.now, !.signal = FALSE, !.urgent = FALSE]
      over == [new EXCEPT !.fn = "none", !.todo = <<>>, !.line = <<>>]
  IN \/ /\ c = ZERO
        /\ io' = over /\ iolog' = Answered(log, 0, <<>>)
     \/ /\ c = EOL
        /\ io' = over /\ iolog' = Answered(log, 1, new.line)
     \/ /\ c = RET
        /\ io' = new /\ iolog' = log
     \/ /\ c \notin {ZERO, EOL, RET}
        /\ io' = [new EXCEPT !.line = Append(@, c), !.todo = Tail(@)]
        /\ iolog' = log

(* safe_read gets its one character.                                       *)
LineChar ==
  /\ Lining /\ HasRoom /\ iopeer.stream # <<>>
  /\ iopeer' = [iopeer EXCEPT !.stream = Tail(@), !.read = Append(@, Head(iopeer.stream)),
                              !.mark = IF @ >= 0 THEN @ - 1 ELSE @]
  /\ Examine([io EXCEPT !.lastread = io.now, !.todo[1] = Head(iopeer.stream)], iolog)

(* read is interrupted after select promised a character: safe_read tries  *)
(* again, with a newer last_read_time.                                     *)
LineInterrupted ==
  /\ Lining /\ HasRoom /\ iopeer.stream # <<>>
  /\ io' = [io EXCEPT !.lastread = io.now]
  /\ UNCHANGED <<iopeer, iolog>>

(* The buffer is full before the end of the line, or safe_read returns 0   *)
(* because the peer has closed.                                            *)
LineEnds ==
  /\ Lining
  /\ ~ HasRoom \/ (iopeer.stream = <<>> /\ iopeer.closed)
  /\ io' = [io EXCEPT !.fn = "none", !.todo = <<>>, !.line = <<>>,
                      !.lastread = IF HasRoom THEN io.now ELSE @]
  /\ iolog' = Answered(iolog, 0, <<>>)
  /\ UNCHANGED iopeer

(* safe_read fails, with -1 or -2, which are not 0: the line goes on with  *)
(* what the buffer happens to hold.                                        *)
LineGoesOn(new, log) ==
  /\ Examine(new, [log EXCEPT !.error = TRUE])
  /\ UNCHANGED iopeer

LineError ==
  /\ Lining /\ HasRoom
  /\ \E t \in {io.lastread, io.now} : LineGoesOn([io EXCEPT !.lastread = t], iolog)

(* The check of safe_read after a select without result.                   *)
Expired(t) == t - io.lastread > IoTimeout

(* safe_read selects, and there is nothing to read.                        *)
Silence == Lining /\ HasRoom /\ iopeer.stream = <<>> /\ ~ iopeer.closed

(* select runs out after the timeout, or is interrupted before.            *)
LineWaits(d, signal) ==
  LET t == io.now + d
      log == [iolog EXCEPT !.signal = @ \/ signal]
  IN /\ Silence /\ iopeer.mark = -1
     /\ t <= IoClock
     /\ IF signal THEN d < IoTimeout ELSE d = IoTimeout
     /\ \/ /\ ~ Expired(t)
           /\ io' = [io EXCEPT !.now = t]
           /\ iolog' = log
           /\ UNCHANGED iopeer
        \/ /\ Expired(t)
           /\ LineGoesOn([io EXCEPT !.now = t],
                         [log EXCEPT !.waited = t - log.began,
                            !.early = t - log.began < IoTimeout,
                            !.old = log.signal /\ io.lastread < log.began])

(* An urgent byte waits: select returns at once with the exception alone,  *)
(* as often as it is called, and safe_read does not look at the time.      *)
LineUrgent(d) ==
  /\ Silence /\ iopeer.mark # -1
  /\ io.now + d <= IoClock
  /\ io' = [io EXCEPT !.now = @ + d]
  /\ iolog' = [iolog EXCEPT !.urgent = TRUE]
  /\ UNCHANGED iopeer

-----------------------------------------------------------------------------
(* What the peer does matters only before and during a read.               *)
Heard == (Called \/ Reading \/ Lining) /\ ~ iopeer.closed

PeerSends(c) ==
  /\ Heard
  /\ Len(iopeer.stream) + (IF Lining THEN Len(iopeer.read) ELSE 0) < IoLen
  /\ iopeer' = [iopeer EXCEPT !.stream = Append(@, c), !.sent = Append(@, c)]
  /\ UNCHANGED <<io, iolog>>

PeerCloses ==
  /\ Heard
  /\ iopeer' = [iopeer EXCEPT !.closed = TRUE]
  /\ UNCHANGED <<io, iolog>>

(* A byte out of band: it is not in the stream.                            *)
PeerUrgent ==
  /\ Heard /\ iopeer.mark = -1
  /\ iopeer' = [iopeer EXCEPT !.mark = Len(iopeer.stream)]
  /\ UNCHANGED <<io, iolog>>

IoData == {<<>>, <<"a">>, <<"a", EOL>>}

(* The buffer of a caller: cleared, or with an older line in it.           *)
LineBufs == {[i \in 1 .. LineBuf |-> ZERO],
             [i \in 1 .. LineBuf |-> IF i % 2 = 1 THEN "a" ELSE EOL]}

IoNext ==
  \/ \E d \in IoData, fn \in {"write", "write_nb"} : write_fd_timeout(d, fn) \/ NdelayFails(d, fn)
  \/ WritePart \/ WriteDone \/ WriteFails \/ WriteZero
  \/ read_fd_timeout \/ ReadPart \/ ReadNothing
  \/ \E buf \in LineBufs : read_line(buf)
  \/ LineChar \/ LineInterrupted \/ LineEnds \/ LineError
  \/ \E d \in 0 .. IoTimeout, signal \in BOOLEAN : LineWaits(d, signal)
  \/ \E d \in 0 .. IoTimeout : LineUrgent(d)
  \/ \E c \in IoChar : PeerSends(c)
  \/ PeerCloses \/ PeerUrgent

-----------------------------------------------------------------------------
(* What the peer of a write got is a prefix of the data, in order and once,*)
(* however the writes were cut, and all of it if a length is returned.     *)
WriteExact ==
  /\ Writing => iopeer.got \o io.todo = iolog.data
  /\ (iolog.fn \in {"write", "write_nb"} /\ iolog.ret >= 0) =>
        /\ iopeer.got = iolog.data
        /\ iolog.ret = Len(iolog.data)

(* The descriptor is blocking again when no write runs, on every way out   *)
(* of the loop but one: write_fd_timeout of utils.c after a write of 0     *)
(* characters, until the next call.                                        *)
BlockingAgain == ~ Writing => (io.nonblock <=> iolog.zero)

(* What was read and what still waits is what the peer sent, each character*)
(* once and in order, whatever came while a read ran; read_fd_timeout      *)
(* returns how much it read, 0 only at the end, and takes nothing when it  *)
(* fails.                                                                  *)
ReadTrue ==
  /\ iopeer.read \o iopeer.stream = iopeer.sent
  /\ iolog.fn = "read" =>
       /\ iolog.ret <= ReadBuf
       /\ iopeer.read = <<>> <=> iolog.ret <= 0
       /\ iolog.ret > 0 => Len(iopeer.read) = iolog.ret
       /\ iolog.ret = 0 => iopeer.closed

(* t is s without its carriage returns: f says where in s the characters   *)
(* of t are, in their order.                                               *)
WithoutReturns(s, t) ==
  \E f \in [1 .. Len(t) -> 1 .. Len(s)] :
    /\ \A i, j \in 1 .. Len(t) : i < j => f[i] < f[j]
    /\ \A i \in 1 .. Len(t) : t[i] = s[f[i]]
    /\ \A k \in 1 .. Len(s) : s[k] # RET <=> \E i \in 1 .. Len(t) : f[i] = k

(* The buffer of the caller was not cleared.                               *)
Dirty(buf) == \E i \in 1 .. Len(buf) : buf[i] # ZERO

(* A line that read_line returns is what the peer sent up to the end of    *)
(* the line, without carriage returns, if nothing failed meanwhile or the  *)
(* caller had cleared the buffer: a failure that comes after a carriage    *)
(* return is then passed over, and any other gives 0.  Otherwise a failure *)
(* of safe_read lets a character of the caller's buffer into the line, but *)
(* only the one that stood at that place, and no character that was        *)
(* neither there nor read.                                                 *)
LineTrue ==
  (iolog.fn = "line" /\ iolog.ret = 1) =>
     /\ \A i \in 1 .. Len(iolog.data) :
          Contains(iopeer.read, iolog.data[i]) \/ (iolog.error /\ iolog.data[i] = iolog.buf[i])
     /\ (Dirty(iolog.buf) => ~ iolog.error) =>
          /\ Last(iopeer.read) = EOL
          /\ ToSet(Front(iopeer.read)) \cap {EOL, ZERO} = {}
          /\ WithoutReturns(Front(iopeer.read), iolog.data)

(* safe_read waits, after it was called or after the last character, no    *)
(* longer than the timeout before it selects once more, and it has given up*)
(* after twice the timeout, whatever signals interrupt its select: but not *)
(* while an urgent byte waits, when it never gives up.  It gives up before *)
(* the timeout only because of a signal, when the last character came long *)
(* before the call.                                                        *)
WaitsBound ==
  /\ (Lining /\ ~ iolog.urgent) => io.now - iolog.began <= IoTimeout
  /\ iolog.waited <= 2 * IoTimeout
  /\ iolog.early => iolog.old

(* Reads and writes with a timeout transfer every character once and in    *)
(* order, restore the descriptor and come back in time, whatever call of   *)
(* theirs fails, is interrupted or is cut short.                           *)
TimedIoCorrect ==
  /\ WriteExact
  /\ BlockingAgain
  /\ ReadTrue
  /\ LineTrue
  /\ WaitsBound
=============================================================================
