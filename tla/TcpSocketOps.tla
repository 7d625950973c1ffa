----------------------------- MODULE TcpSocketOps -----------------------------
(****************************************************************************)
(* The functions of src/src/utils/tcp_socket.c, as operators on a record    *)
(* that holds one ne_tcp_socket_t and the part of libuv it owns.  The event *)
(* loop runs one callback at a time; `frame` names the callback of the user *)
(* that is running ("loop" when none is), so that whatever the user does in *)
(* a callback happens between the code before and after the call.           *)
(*                                                                          *)
(* libuv is external.  It promises what the fields timer, tcp, connect,     *)
(* polling, write and shutdown say, and nothing about the order in which    *)
(* events that are both ready are delivered.                                *)
(****************************************************************************)
EXTENDS Integers

CONSTANT NDEBUG   \* TRUE for a build with -DNDEBUG: NEASSERT checks nothing

ASSUME BuildAssumption == NDEBUG \in BOOLEAN

(* enum ne_tcp_socket_status: the code compares these as numbers.           *)
INVALID       == 0
CONNECTING    == 1
CONNECTED     == 2
SHUTTING_DOWN == 3
SHUT_DOWN     == 4
CLOSING       == 5
CLOSED        == 6

Status == INVALID .. CLOSED

(* on_read is "on_read", "on_EOF" or "on_read_err", and on_write is         *)
(* "on_write" or "on_write_err", by the status the user is given.           *)
Frame == {"loop", "on_connection", "on_connect", "on_read", "on_EOF",
          "on_read_err", "on_write", "on_write_err", "on_shutdown",
          "on_error", "on_close"}

(* What a libuv callback can be told.  "reset" stands for the errors        *)
(* handle_error has a case for (UV_ETIMEDOUT, UV_ECONNRESET,                *)
(* UV_ENETUNREACH), "refused" for the ones it has none for (UV_ECONNREFUSED,*)
(* UV_EPIPE, UV_ENOBUFS, ...).                                              *)
Outcome  == {"ok", "reset", "refused"}
UvStatus == Outcome \cup {"eof", "canceled"}

TimerState   == {"stopped", "running", "due", "closing", "closed"}
HandleState  == {"open", "closing", "closed"}
ConnectState == {"none", "pending", "up", "down"}
WriteState   == {"none", "queued"} \cup Outcome   \* settled: callback is due
From         == {"none", "read", "write", "connect", "shutdown", "timer"}
Fault        == {"none", "uv_close", "read_start", "canceled", "refused"}

SocketType ==
    [status       : Status,
     reading      : BOOLEAN,
     receiveEOF   : BOOLEAN,
     timeout      : BOOLEAN,        \* socket->timeout > 0
     timer_closed : BOOLEAN,
     socket_closed: BOOLEAN,
     \* libuv
     timer        : TimerState,
     tcp          : HandleState,
     connect      : ConnectState,   \* connect_req
     polling      : BOOLEAN,        \* uv_read_start is in effect
     write        : WriteState,     \* write_req
     shutdown     : BOOLEAN,        \* shutdown_req is outstanding
     \* control
     frame        : Frame,
     from         : From,           \* the callback that reports on_error
     fault        : Fault]          \* what aborted the process

(* ne_tcp_socket_init.                                                      *)
FreshSocket ==
    [status |-> INVALID, reading |-> FALSE, receiveEOF |-> FALSE,
     timeout |-> TRUE, timer_closed |-> FALSE, socket_closed |-> FALSE,
     timer |-> "stopped", tcp |-> "open", connect |-> "none",
     polling |-> FALSE, write |-> "none", shutdown |-> FALSE,
     frame |-> "loop", from |-> "none", fault |-> "none"]

Enter(s, callback) == [s EXCEPT !.frame = callback]
Leave(s)           == [s EXCEPT !.frame = "loop", !.from = "none"]
Abort(s, why)      == [s EXCEPT !.fault = why]
-----------------------------------------------------------------------------
(* The timeout timer.  uv_timer_again does nothing to a timer that was      *)
(* never started, and libuv refuses to touch one that is closing.           *)
TimerStart(s) ==
    IF s.timeout /\ s.timer \notin {"closing", "closed"}
      THEN [s EXCEPT !.timer = "running"] ELSE s

TimerReset(s) ==
    IF s.timeout /\ s.timer \in {"running", "due"}
      THEN [s EXCEPT !.timer = "running"] ELSE s

BugStatusKept(s) ==
    IF s.tcp # "open"
      THEN Abort(s, "uv_close")
      ELSE [s EXCEPT !.timer = "closing", !.tcp = "closing", !.polling = FALSE]

(* ne_tcp_socket_close.  uv_close stops the reads at once and aborts the    *)
(* process when the handle is closing already; the requests it cancels are  *)
(* answered from the loop, before the socket's close callback.              *)
TcpClose(s) ==
    IF s.tcp # "open"
      THEN Abort(s, "uv_close")
      ELSE [s EXCEPT !.status = CLOSING, !.timer = "closing",
                     !.tcp = "closing", !.polling = FALSE]

BugEitherClosed(s) ==
    IF s.timer_closed \/ s.socket_closed
      THEN Enter([s EXCEPT !.status = CLOSED], "on_close")
      ELSE s

BugCountClosed(s) == Enter([s EXCEPT !.status = @ + 1], "on_close")

CheckClose(s) ==
    IF s.timer_closed /\ s.socket_closed
      THEN Enter([s EXCEPT !.status = CLOSED], "on_close")
      ELSE s

BugTimerUnflagged(s) == CheckClose([s EXCEPT !.timer = "closed"])

TimerCloseCb(s) ==
    CheckClose([s EXCEPT !.timer = "closed", !.timer_closed = TRUE])

SocketCloseCb(s) ==
    CheckClose([s EXCEPT !.tcp = "closed", !.socket_closed = TRUE])
-----------------------------------------------------------------------------
BugUnanswered(s, from) ==
    IF from = "read" THEN Enter([s EXCEPT !.reading = FALSE], "on_read_err")
                     ELSE Leave(s)

BugReadingKept(s, from) ==
    CASE from = "read"  -> Enter(s, "on_read_err")
      [] from = "write" -> Enter(s, "on_write_err")
      [] OTHER          -> Leave(s)

(* What the callback `from` does when handle_error returned true.           *)
Handled(s, from) ==
    CASE from = "read"  -> Enter([s EXCEPT !.reading = FALSE], "on_read_err")
      [] from = "write" -> Enter(s, "on_write_err")
      [] OTHER          -> Leave(s)

BugClosingUnchecked(s, from, status, proceed) ==
    CASE status \in {"ok", "eof"} -> proceed
      [] status = "reset" -> Enter([s EXCEPT !.from = from], "on_error")
      [] status \in {"canceled", "refused"} ->
             IF NDEBUG THEN proceed ELSE Abort(s, status)

(* __ne_tcp_socket_handle_error called by the callback `from`, which goes   *)
(* on to `proceed` when it returns false.  When on_error is called, the     *)
(* rest happens in AfterError, once the user returns from it.               *)
HandleError(s, from, status, proceed) ==
    CASE status = "ok" -> proceed
      [] status # "ok" /\ s.status >= CLOSING -> Handled(s, from)
      [] status = "eof" /\ s.status < CLOSING -> proceed
      [] status = "reset" /\ s.status < CLOSING ->
             Enter([s EXCEPT !.from = from], "on_error")
      [] status \in {"canceled", "refused"} /\ s.status < CLOSING ->
             IF NDEBUG THEN proceed ELSE Abort(s, status)

AfterError(s) == Handled(TcpClose(s), s.from)

TimeoutCb(s) == Enter([s EXCEPT !.from = "timer", !.timer = "running"],
                      "on_error")
-----------------------------------------------------------------------------
BugUnwatched(s) == Enter([s EXCEPT !.status = CONNECTED, !.connect = "up"],
                         "on_connection")

(* A connection: accepted from a listening socket, or made by connect.      *)
Accepted(s) == [TimerStart([s EXCEPT !.status = CONNECTED, !.connect = "up"])
                  EXCEPT !.frame = "on_connection"]

(* ne_tcp_socket_connect when uv_tcp_connect returns 0.                     *)
TcpConnect(s) == TimerStart([s EXCEPT !.connect = "pending",
                                      !.status = CONNECTING])

(* uv_tcp_connect fails at once with an error the switch has no case for;   *)
(* the errors it knows are returned and change nothing.                     *)
TcpConnectFails(s) == IF NDEBUG THEN s ELSE Abort(s, "refused")

ConnectCb(s, status) ==
    LET done == [s EXCEPT !.connect = IF status = "ok" THEN "up" ELSE "down"]
    IN  HandleError(done, "connect", status,
                    Enter(TimerReset(done), "on_connect"))
-----------------------------------------------------------------------------
(* Reading.  read_start asserts that the socket is neither closing nor at   *)
(* its end; uv_read_start refuses a closing handle, and the result of       *)
(* ne_tcp_socket_read_start is not looked at by the library.                *)
TcpReadStart(s) ==
    IF ~NDEBUG /\ (s.status > SHUT_DOWN \/ s.receiveEOF)
      THEN Abort(s, "read_start")
      ELSE [s EXCEPT !.reading = TRUE, !.polling = (s.tcp = "open")]

TcpReadStop(s) == [s EXCEPT !.reading = FALSE, !.polling = FALSE]

(* The callback's EOF branch calls read_stop itself.                        *)
ReadEOF(s) == Enter(TcpReadStop([TimerReset(s) EXCEPT !.receiveEOF = TRUE]),
                    "on_EOF")

(* libuv stops polling a stream that fails or ends.                         *)
ReadCb(s, status) ==
    LET done == [s EXCEPT !.polling = (status = "ok")]
    IN  HandleError(done, "read", status,
                    IF status = "eof" THEN ReadEOF(done)
                                      ELSE Enter(TimerReset(done), "on_read"))
-----------------------------------------------------------------------------
BugWriteResets(s, result) == [TimerReset(s) EXCEPT !.write = result]

(* Writing and shutting down.  write_req and shutdown_req are fields of the *)
(* socket, so there is one of each.                                         *)
TcpWrite(s, result) == [s EXCEPT !.write = result]

(* uv_close leaves a settled request its result and cancels a queued one.   *)
WriteStatus(s) == IF s.write = "queued" THEN "canceled" ELSE s.write

BugUncheckedWrite(s) == Enter([s EXCEPT !.write = "none"], "on_write")

WriteCb(s) ==
    LET done == [s EXCEPT !.write = "none"]
    IN  HandleError(done, "write", WriteStatus(s), Enter(done, "on_write"))

TcpShutdown(s) == [s EXCEPT !.status = SHUTTING_DOWN, !.shutdown = TRUE]

BugUncheckedShutdown(s, status) ==
    Enter([s EXCEPT !.shutdown = FALSE, !.status = SHUT_DOWN], "on_shutdown")

ShutdownCb(s, status) ==
    LET done == [s EXCEPT !.shutdown = FALSE]
    IN  HandleError(done, "shutdown", status,
                    Enter([done EXCEPT !.status = SHUT_DOWN], "on_shutdown"))
=============================================================================
