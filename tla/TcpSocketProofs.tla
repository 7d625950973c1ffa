--------------------------- MODULE TcpSocketProofs ----------------------------
(****************************************************************************)
(* Proofs about TcpSocket, for both builds (NDEBUG or not) unless a theorem *)
(* says otherwise.  SocketInv is the inductive invariant: what TcpSocket's  *)
(* invariants say of the states between callbacks only follows from what    *)
(* holds of the handles, the requests and the callback that is running.     *)
(****************************************************************************)
EXTENDS TcpSocket, SocketLemmas

(* The socket and its timer are closed together, by ne_tcp_socket_close     *)
(* only, and the status and the two flags say how far that has come.        *)
HandlesAgree ==
    IF sock.status < CLOSING
      THEN /\ sock.tcp = "open"
           /\ sock.timer \in {"stopped", "running", "due"}
           /\ ~sock.timer_closed
           /\ ~sock.socket_closed
      ELSE /\ sock.tcp \in {"closing", "closed"}
           /\ sock.timer \in {"closing", "closed"}
           /\ ~sock.polling
           /\ sock.timer_closed <=> sock.timer = "closed"
           /\ sock.socket_closed <=> sock.tcp = "closed"
           /\ (sock.status = CLOSED) <=> (sock.timer_closed /\ sock.socket_closed)

(* A handle that is closed has no request left; a socket that was never     *)
(* connected has none yet.                                                  *)
RequestsAgree ==
    /\ sock.tcp = "closed" =>
         sock.connect # "pending" /\ sock.write = "none" /\ ~sock.shutdown
    /\ sock.status = INVALID =>
         /\ sock.connect = "none" /\ sock.write = "none" /\ ~sock.shutdown
         /\ ~sock.reading /\ ~sock.polling
         /\ sock.timer = "stopped"

(* on_error runs on a socket that is still open, and on behalf of a write   *)
(* only when that write has been taken off.                                 *)
ErrorPending ==
    sock.frame = "on_error" =>
        /\ Connected
        /\ sock.from = "write" => sock.write = "none"

(* `reading` is out of date only while a failing read is reported.          *)
ReadingAgrees ==
    Running /\ sock.status < CLOSING /\ sock.frame # "on_error" /\ ~NDEBUG =>
        (sock.reading <=> sock.polling)

(* What is polled is being read.  The user who is told that reading failed  *)
(* or is at its end cannot start it again in that callback: the socket is   *)
(* closing, or receiveEOF is set.                                           *)
ReadingTold ==
    /\ sock.polling => sock.reading
    /\ sock.frame = "on_read_err" => ~sock.reading /\ sock.status >= CLOSING
    /\ sock.frame = "on_EOF" => ~sock.reading /\ sock.receiveEOF

SocketInv == /\ TypeOK
             /\ HandlesAgree
             /\ RequestsAgree
             /\ ErrorPending
             /\ ReadingAgrees
             /\ ReadingTold
             /\ WatchdogArmed
             /\ OnlyRefusedAborts

USE DEF INVALID, CONNECTING, CONNECTED, SHUTTING_DOWN, SHUT_DOWN, CLOSING,
        CLOSED

-----------------------------------------------------------------------------
LEMMA NextType == TypeOK /\ [Next]_sock => TypeOK'
<1> SUFFICES ASSUME sock \in SocketType, [Next]_sock
             PROVE  sock' \in SocketType
  BY DEF TypeOK
<1>1. CASE DisableTimeout
  BY <1>1 DEF DisableTimeout, SocketType
<1>2. CASE Connect \/ ConnectFails \/ ReadStart \/ ReadStop \/ Shutdown
  BY <1>2, UserType, Literals
  DEF Connect, ConnectFails, ReadStart, ReadStop, Shutdown
<1>3. CASE \E result \in Outcome \cup {"queued"} : Write(result)
  BY <1>3, UserType DEF Write, WriteState
<1>4. CASE Close \/ Return
  BY <1>4, TcpCloseType, LeaveType, ErrorReturnType DEF Close, Return
<1>5. CASE Accept
  BY <1>5, AcceptedType DEF Accept
<1>6. CASE \E status \in UvStatus :
             ConnectDone(status) \/ ShutdownDone(status) \/ ReadReady(status)
  BY <1>6, ConnectCbType, ShutdownCbType, ReadCbType
  DEF ConnectDone, ShutdownDone, ReadReady
<1>7. CASE \E status \in UvStatus : WriteSettles(status)
  BY <1>7 DEF WriteSettles, SocketType, WriteState
<1>8. CASE WriteDone
  BY <1>8, WriteCbType DEF WriteDone
<1>9. CASE TimerDue
  BY <1>9, Literals DEF TimerDue, SocketType
<1>10. CASE TimedOut \/ TimerClosed \/ TcpClosed
  BY <1>10, ErrorReturnType, CloseCbType DEF TimedOut, TimerClosed, TcpClosed
<1>11. CASE Rest \/ UNCHANGED sock
  BY <1>11 DEF Rest
<1>12. QED
  BY <1>1, <1>2, <1>3, <1>4, <1>5, <1>6, <1>7, <1>8, <1>9, <1>10, <1>11
  DEF Next, User, Loop, Requests

LEMMA InitInv == Init => SocketInv
<1>1. FreshSocket \in SocketType
  BY Literals DEF FreshSocket, SocketType
<1>2. QED
  BY <1>1 DEF Init, FreshSocket, SocketInv, TypeOK, HandlesAgree, RequestsAgree,
      ErrorPending, ReadingAgrees, ReadingTold, WatchdogArmed,
      OnlyRefusedAborts, Connected

LEMMA DisableTimeoutInv ==
    ASSUME SocketInv, TypeOK', DisableTimeout
    PROVE  SocketInv'
  BY DEF DisableTimeout, UserTurn,
      SocketInv, TypeOK, SocketType, HandlesAgree, RequestsAgree, ErrorPending,
      ReadingAgrees, ReadingTold, WatchdogArmed, OnlyRefusedAborts, Running,
      Connected

LEMMA ConnectInv ==
    ASSUME SocketInv, TypeOK', Connect
    PROVE  SocketInv'
  BY DEF Connect, UserTurn, TcpConnect, TimerStart,
      SocketInv, TypeOK, SocketType, HandlesAgree, RequestsAgree, ErrorPending,
      ReadingAgrees, ReadingTold, WatchdogArmed, OnlyRefusedAborts, Running,
      Connected

LEMMA ConnectFailsInv ==
    ASSUME SocketInv, TypeOK', ConnectFails
    PROVE  SocketInv'
  BY DEF ConnectFails, UserTurn, TcpConnectFails, Abort,
      SocketInv, TypeOK, SocketType, HandlesAgree, RequestsAgree, ErrorPending,
      ReadingAgrees, ReadingTold, WatchdogArmed, OnlyRefusedAborts, Running,
      Connected

(* A user who keeps the contract does not meet the assertions of read_start.*)
LEMMA ReadStartLegal ==
    ASSUME SocketInv, ReadStart
    PROVE  /\ UserTurn /\ Connected /\ ~sock.receiveEOF
           /\ sock' = [sock EXCEPT !.reading = TRUE, !.polling = TRUE]
<1>1. sock.status \in 0 .. 6 /\ sock.status < CLOSING
  BY DEF ReadStart, UserTurn, SocketInv, TypeOK, SocketType, Status
<1>2. sock.tcp = "open" /\ ~sock.receiveEOF /\ ~(sock.status > SHUT_DOWN)
  BY <1>1 DEF ReadStart, SocketInv, HandlesAgree
<1>3. QED
  BY <1>2 DEF ReadStart, TcpReadStart

LEMMA ReadStartInv ==
    ASSUME SocketInv, TypeOK', ReadStart
    PROVE  SocketInv'
<1>1. /\ UserTurn /\ Connected /\ ~sock.receiveEOF
      /\ sock' = [sock EXCEPT !.reading = TRUE, !.polling = TRUE]
  BY ReadStartLegal
<1>2. QED
  BY <1>1 DEF UserTurn,
      SocketInv, TypeOK, SocketType, HandlesAgree, RequestsAgree, ErrorPending,
      ReadingAgrees, ReadingTold, WatchdogArmed, OnlyRefusedAborts, Running,
      Connected

LEMMA ReadStopInv ==
    ASSUME SocketInv, TypeOK', ReadStop
    PROVE  SocketInv'
  BY DEF ReadStop, UserTurn, TcpReadStop,
      SocketInv, TypeOK, SocketType, HandlesAgree, RequestsAgree, ErrorPending,
      ReadingAgrees, ReadingTold, WatchdogArmed, OnlyRefusedAborts, Running,
      Connected

LEMMA WriteInv ==
    ASSUME SocketInv, TypeOK', (\E result \in Outcome \cup {"queued"} : Write(result))
    PROVE  SocketInv'
  BY DEF Write, UserTurn, TcpWrite,
      SocketInv, TypeOK, SocketType, HandlesAgree, RequestsAgree, ErrorPending,
      ReadingAgrees, ReadingTold, WatchdogArmed, OnlyRefusedAborts, Running,
      Connected

LEMMA ShutdownInv ==
    ASSUME SocketInv, TypeOK', Shutdown
    PROVE  SocketInv'
  BY DEF Shutdown, UserTurn, TcpShutdown,
      SocketInv, TypeOK, SocketType, HandlesAgree, RequestsAgree, ErrorPending,
      ReadingAgrees, ReadingTold, WatchdogArmed, OnlyRefusedAborts, Running,
      Connected

LEMMA CloseInv ==
    ASSUME SocketInv, TypeOK', Close
    PROVE  SocketInv'
  BY DEF Close, UserTurn, TcpClose, Abort,
      SocketInv, TypeOK, SocketType, HandlesAgree, RequestsAgree, ErrorPending,
      ReadingAgrees, ReadingTold, WatchdogArmed, OnlyRefusedAborts, Running,
      Connected

LEMMA AcceptInv ==
    ASSUME SocketInv, TypeOK', Accept
    PROVE  SocketInv'
  BY DEF Accept, InLoop, Accepted, FreshSocket, TimerStart,
      SocketInv, TypeOK, SocketType, HandlesAgree, RequestsAgree, ErrorPending,
      ReadingAgrees, ReadingTold, WatchdogArmed, OnlyRefusedAborts, Running,
      Connected

LEMMA WriteSettlesInv ==
    ASSUME SocketInv, TypeOK', (\E status \in UvStatus : WriteSettles(status))
    PROVE  SocketInv'
  BY DEF WriteSettles, InLoop,
      SocketInv, TypeOK, SocketType, HandlesAgree, RequestsAgree, ErrorPending,
      ReadingAgrees, ReadingTold, WatchdogArmed, OnlyRefusedAborts, Running,
      Connected

LEMMA TimerDueInv ==
    ASSUME SocketInv, TypeOK', TimerDue
    PROVE  SocketInv'
  BY DEF TimerDue,
      SocketInv, TypeOK, SocketType, HandlesAgree, RequestsAgree, ErrorPending,
      ReadingAgrees, ReadingTold, WatchdogArmed, OnlyRefusedAborts, Running,
      Connected

LEMMA TimedOutInv ==
    ASSUME SocketInv, TypeOK', TimedOut
    PROVE  SocketInv'
<1>1. sock.status \in Status /\ sock.timer = "due"
  BY DEF SocketInv, TypeOK, SocketType, TimedOut
<1>2. Connected
  BY <1>1 DEF SocketInv, HandlesAgree, RequestsAgree, Connected, Status
<1>3. QED
  BY <1>1, <1>2 DEF TimedOut, InLoop, TimeoutCb, Enter,
      SocketInv, TypeOK, SocketType, HandlesAgree, RequestsAgree, ErrorPending,
      ReadingAgrees, ReadingTold, WatchdogArmed, OnlyRefusedAborts, Running,
      Connected

LEMMA TimerClosedInv ==
    ASSUME SocketInv, TypeOK', TimerClosed
    PROVE  SocketInv'
  BY DEF TimerClosed, InLoop, TimerCloseCb, CheckClose, Enter,
      SocketInv, TypeOK, SocketType, HandlesAgree, RequestsAgree, ErrorPending,
      ReadingAgrees, ReadingTold, WatchdogArmed, OnlyRefusedAborts, Running,
      Connected

LEMMA TcpClosedInv ==
    ASSUME SocketInv, TypeOK', TcpClosed
    PROVE  SocketInv'
  BY DEF TcpClosed, InLoop, SocketCloseCb, CheckClose, Enter,
      SocketInv, TypeOK, SocketType, HandlesAgree, RequestsAgree, ErrorPending,
      ReadingAgrees, ReadingTold, WatchdogArmed, OnlyRefusedAborts, Running,
      Connected

LEMMA ReturnInv ==
    ASSUME SocketInv, TypeOK', Return
    PROVE  SocketInv'
<1>1. CASE sock.frame # "on_error"
  BY <1>1 DEF Return, Leave,
      SocketInv, TypeOK, SocketType, HandlesAgree, RequestsAgree, ErrorPending,
      ReadingAgrees, ReadingTold, WatchdogArmed, OnlyRefusedAborts, Running,
      Connected
<1>2. CASE sock.frame = "on_error"
  <2>1. sock.status < CLOSING /\ sock.tcp = "open"
    BY <1>2 DEF SocketInv, TypeOK, SocketType, Status, ErrorPending, Connected,
        HandlesAgree
  <2>2. TcpClose(sock) = [sock EXCEPT !.status = CLOSING, !.timer = "closing",
                                      !.tcp = "closing", !.polling = FALSE]
    BY <2>1 DEF TcpClose
  <2>3. sock' = Handled(TcpClose(sock), sock.from)
    BY <1>2 DEF Return, AfterError
  <2>4. TcpClose(sock) \in SocketType
    BY TcpCloseType DEF SocketInv, TypeOK
  <2>5. /\ sock'.status = CLOSING /\ sock'.timer = "closing"
        /\ sock'.tcp = "closing" /\ sock'.polling = FALSE
        /\ sock'.timer_closed = sock.timer_closed
        /\ sock'.socket_closed = sock.socket_closed
        /\ sock'.fault = sock.fault
        /\ sock'.frame \notin {"on_error", "on_EOF"}
        /\ sock'.frame = "on_read_err" => ~sock'.reading
    <3> DEFINE c == TcpClose(sock)
    <3>1. /\ c.status = CLOSING /\ c.timer = "closing"
          /\ c.tcp = "closing" /\ c.polling = FALSE
          /\ c.timer_closed = sock.timer_closed
          /\ c.socket_closed = sock.socket_closed
          /\ c.fault = sock.fault
      BY <2>2 DEF SocketInv, TypeOK, SocketType
    <3>2. c \in SocketType /\ sock' = Handled(c, sock.from)
      BY <2>3, <2>4
    <3> HIDE DEF c
    <3>3. QED
      BY <3>1, <3>2, HandledFields
  <2>6. QED
    BY <2>1, <2>5 DEF SocketInv, TypeOK, HandlesAgree, RequestsAgree,
        ErrorPending, ReadingAgrees, ReadingTold, WatchdogArmed,
        OnlyRefusedAborts, Running, Connected
<1>3. QED
  BY <1>1, <1>2

(* Answering a request of a closing socket keeps the invariant.             *)
LEMMA AnswerWhenClosing ==
    ASSUME SocketInv, TypeOK', sock.status >= CLOSING,
           sock'.status = sock.status,
           sock'.tcp = sock.tcp, sock'.timer = sock.timer,
           sock'.polling = sock.polling,
           sock'.timer_closed = sock.timer_closed,
           sock'.socket_closed = sock.socket_closed,
           sock'.connect \in {sock.connect, "down", "up"},
           sock'.write \in {sock.write, "none"},
           sock'.shutdown => sock.shutdown,
           sock'.fault = sock.fault,
           sock'.frame \notin {"on_error", "on_read_err", "on_EOF"}
    PROVE  SocketInv'
<1>1. sock.status \in Status
  BY DEF SocketInv, TypeOK, SocketType
<1>2. ~(sock.status < CLOSING) /\ sock.status # INVALID /\ ~Connected'
  BY <1>1 DEF Status, Connected
<1>3. HandlesAgree' /\ RequestsAgree'
  BY <1>1, <1>2 DEF SocketInv, HandlesAgree, RequestsAgree
<1>4. ErrorPending' /\ ReadingAgrees' /\ WatchdogArmed' /\ OnlyRefusedAborts'
  BY <1>1, <1>2 DEF SocketInv, ErrorPending, ReadingAgrees, WatchdogArmed,
      OnlyRefusedAborts
<1>5. ReadingTold'
  BY <1>2 DEF SocketInv, HandlesAgree, ReadingTold
<1>6. QED
  BY <1>3, <1>4, <1>5 DEF SocketInv

LEMMA ConnectDoneInv ==
    ASSUME SocketInv, TypeOK', NEW st \in UvStatus, ConnectDone(st)
    PROVE  SocketInv'
<1> DEFINE done == [sock EXCEPT !.connect = IF st = "ok" THEN "up" ELSE "down"]
<1>0. /\ done \in SocketType
      /\ done.status = sock.status /\ done.tcp = sock.tcp
      /\ done.timer = sock.timer /\ done.polling = sock.polling
      /\ done.timeout = sock.timeout
      /\ done.timer_closed = sock.timer_closed
      /\ done.socket_closed = sock.socket_closed
      /\ done.write = sock.write /\ done.shutdown = sock.shutdown
      /\ done.connect \in {"up", "down"} /\ done.fault = sock.fault
  BY Literals DEF SocketInv, TypeOK, SocketType
<1>1. sock' = HandleError(done, "connect", st, Enter(TimerReset(done), "on_connect"))
  BY DEF ConnectDone, ConnectCb
<1>2. /\ sock.status < CLOSING => Connected /\ sock.tcp = "open" /\ st # "canceled"
      /\ sock.status >= CLOSING => st = "canceled"
  BY DEF ConnectDone, SocketInv, HandlesAgree, RequestsAgree, TypeOK, SocketType,
         Status, Connected, Outcome
<1>3. CASE st = "ok" /\ sock' = Enter(TimerReset(done), "on_connect")
  <2> DEFINE t == TimerReset(done)
  <2>1. done.reading = sock.reading /\ done.polling = sock.polling
    BY <1>3 DEF ConnectDone, SocketInv, TypeOK, SocketType
  <2> HIDE DEF done
  <2>2. /\ t \in SocketType
        /\ t.status = sock.status /\ t.tcp = sock.tcp
        /\ t.timer \in {sock.timer, "running"} /\ t.timeout = sock.timeout
        /\ sock.timer = "stopped" => t.timer = "stopped"
        /\ t.timer_closed = sock.timer_closed
        /\ t.socket_closed = sock.socket_closed
        /\ t.connect = done.connect /\ t.write = sock.write
        /\ t.shutdown = sock.shutdown /\ t.fault = sock.fault
        /\ t.reading = sock.reading /\ t.polling = sock.polling
    BY <1>0, <2>1, TimerType, TimerResetFields
  <2>3. sock' = [t EXCEPT !.frame = "on_connect"]
    BY <1>3 DEF Enter
  <2> HIDE DEF t
  <2>4. /\ sock'.status = sock.status /\ sock'.tcp = sock.tcp
        /\ sock'.timer \in {sock.timer, "running"}
        /\ sock'.timeout = sock.timeout
        /\ sock.timer = "stopped" => sock'.timer = "stopped"
        /\ sock'.timer_closed = sock.timer_closed
        /\ sock'.socket_closed = sock.socket_closed
        /\ sock'.connect = done.connect /\ sock'.write = sock.write
        /\ sock'.shutdown = sock.shutdown /\ sock'.fault = sock.fault
        /\ sock'.reading = sock.reading /\ sock'.polling = sock.polling
        /\ sock'.frame = "on_connect"
    BY <2>2, <2>3 DEF SocketType
  <2>5. /\ sock.frame = "loop" /\ sock.fault = "none"
        /\ sock.status < CLOSING /\ Connected
    BY <1>2, <1>3 DEF ConnectDone, InLoop, Running, SocketInv, TypeOK, SocketType,
        Status
  <2>6. QED
    BY <1>0, <1>2, <2>4, <2>5 DEF SocketInv, HandlesAgree, RequestsAgree,
        ErrorPending, ReadingAgrees, ReadingTold, WatchdogArmed,
        OnlyRefusedAborts, Running, Connected
<1>4. CASE sock.status >= CLOSING /\ sock' = Handled(done, "connect")
  <2> HIDE DEF done
  <2>1. QED
    BY <1>0, <1>4, HandledFields, AnswerWhenClosing
<1>5. CASE /\ sock.status < CLOSING
           /\ sock' = Enter([done EXCEPT !.from = "connect"], "on_error")
  BY <1>2, <1>5 DEF ConnectDone, InLoop, Enter,
      SocketInv, TypeOK, SocketType, HandlesAgree, RequestsAgree, ErrorPending,
      ReadingAgrees, ReadingTold, WatchdogArmed, OnlyRefusedAborts, Running,
      Connected
<1>6. CASE sock.status < CLOSING /\ st = "refused" /\ sock' = Abort(done, st)
  BY <1>2, <1>6 DEF ConnectDone, InLoop, Abort,
      SocketInv, TypeOK, SocketType, HandlesAgree, RequestsAgree, ErrorPending,
      ReadingAgrees, ReadingTold, WatchdogArmed, OnlyRefusedAborts, Running,
      Connected
<1>7. CASE /\ NDEBUG /\ sock.status < CLOSING
           /\ sock' = Enter(TimerReset(done), "on_connect")
  BY <1>2, <1>7 DEF ConnectDone, InLoop, TimerReset, Enter,
      SocketInv, TypeOK, SocketType, HandlesAgree, RequestsAgree, ErrorPending,
      ReadingAgrees, ReadingTold, WatchdogArmed, OnlyRefusedAborts, Running,
      Connected
<1>8. st # "eof"
  BY DEF ConnectDone, Outcome
<1> HIDE DEF done
<1>9. QED
  BY <1>0, <1>1, <1>2, <1>3, <1>4, <1>5, <1>6, <1>7, <1>8, HandleErrorCases

LEMMA ReadReadyInv ==
    ASSUME SocketInv, TypeOK', NEW st \in UvStatus, ReadReady(st)
    PROVE  SocketInv'
<1> DEFINE done == [sock EXCEPT !.polling = (st = "ok")]
           next == IF st = "eof" THEN ReadEOF(done)
                                 ELSE Enter(TimerReset(done), "on_read")
<1>0. /\ done \in SocketType
      /\ done.status = sock.status /\ done.tcp = sock.tcp
      /\ done.timer = sock.timer /\ done.timeout = sock.timeout
      /\ done.timer_closed = sock.timer_closed
      /\ done.socket_closed = sock.socket_closed
      /\ done.connect = sock.connect /\ done.write = sock.write
      /\ done.shutdown = sock.shutdown /\ done.fault = sock.fault
  BY DEF SocketInv, TypeOK, SocketType
<1>1. sock' = HandleError(done, "read", st, next)
  BY DEF ReadReady, ReadCb
<1>2. Connected /\ sock.status < CLOSING /\ sock.tcp = "open" /\ st # "canceled"
  BY DEF ReadReady, SocketInv, HandlesAgree, RequestsAgree, TypeOK, SocketType,
         Status, Connected
<1>3. CASE st = "ok" /\ sock' = Enter(TimerReset(done), "on_read")
  <2> DEFINE t == TimerReset(done)
  <2>1. done.reading = sock.reading /\ done.polling = sock.polling
    BY <1>3 DEF ReadReady, SocketInv, TypeOK, SocketType
  <2> HIDE DEF done
  <2>2. /\ t \in SocketType
        /\ t.status = sock.status /\ t.tcp = sock.tcp
        /\ t.timer \in {sock.timer, "running"} /\ t.timeout = sock.timeout
        /\ sock.timer = "stopped" => t.timer = "stopped"
        /\ t.timer_closed = sock.timer_closed
        /\ t.socket_closed = sock.socket_closed
        /\ t.connect = done.connect /\ t.write = sock.write
        /\ t.shutdown = sock.shutdown /\ t.fault = sock.fault
        /\ t.reading = sock.reading /\ t.polling = sock.polling
    BY <1>0, <2>1, TimerType, TimerResetFields
  <2>3. sock' = [t EXCEPT !.frame = "on_read"]
    BY <1>3 DEF Enter
  <2> HIDE DEF t
  <2>4. /\ sock'.status = sock.status /\ sock'.tcp = sock.tcp
        /\ sock'.timer \in {sock.timer, "running"}
        /\ sock'.timeout = sock.timeout
        /\ sock.timer = "stopped" => sock'.timer = "stopped"
        /\ sock'.timer_closed = sock.timer_closed
        /\ sock'.socket_closed = sock.socket_closed
        /\ sock'.connect = done.connect /\ sock'.write = sock.write
        /\ sock'.shutdown = sock.shutdown /\ sock'.fault = sock.fault
        /\ sock'.reading = sock.reading /\ sock'.polling = sock.polling
        /\ sock'.frame = "on_read"
    BY <2>2, <2>3 DEF SocketType
  <2>5. sock.frame = "loop" /\ sock.fault = "none"
    BY DEF ReadReady, InLoop, Running
  <2>6. QED
    BY <1>0, <1>2, <2>4, <2>5 DEF SocketInv, HandlesAgree, RequestsAgree,
        ErrorPending, ReadingAgrees, ReadingTold, WatchdogArmed,
        OnlyRefusedAborts, Running, Connected
<1>4. CASE st = "eof" /\ sock' = ReadEOF(done)
  <2> DEFINE t == TimerReset(done)
             u == [t EXCEPT !.receiveEOF = TRUE]
  <2>1. /\ t \in SocketType
        /\ t.status = sock.status /\ t.tcp = sock.tcp
        /\ t.timer \in {sock.timer, "running"} /\ t.timeout = sock.timeout
        /\ sock.timer = "stopped" => t.timer = "stopped"
        /\ t.timer_closed = sock.timer_closed
        /\ t.socket_closed = sock.socket_closed
        /\ t.connect = sock.connect /\ t.write = sock.write
        /\ t.shutdown = sock.shutdown /\ t.fault = sock.fault
    <3> HIDE DEF done
    <3>1. QED
      BY <1>0, TimerType, TimerResetFields
  <2> HIDE DEF t
  <2>2. /\ sock' = Enter(TcpReadStop(u), "on_EOF")
        /\ u \in SocketType
        /\ u.status = t.status /\ u.tcp = t.tcp
        /\ u.timer = t.timer /\ u.timeout = t.timeout
        /\ u.timer_closed = t.timer_closed
        /\ u.socket_closed = t.socket_closed
        /\ u.connect = t.connect /\ u.write = t.write
        /\ u.shutdown = t.shutdown /\ u.fault = t.fault
        /\ u.receiveEOF
    BY <1>4, <2>1 DEF ReadEOF, SocketType, t
  <2> HIDE DEF u
  <2>3. /\ sock'.status = u.status /\ sock'.tcp = u.tcp
        /\ sock'.timer = u.timer /\ sock'.timeout = u.timeout
        /\ sock'.timer_closed = u.timer_closed
        /\ sock'.socket_closed = u.socket_closed
        /\ sock'.connect = u.connect /\ sock'.write = u.write
        /\ sock'.shutdown = u.shutdown /\ sock'.fault = u.fault
        /\ ~sock'.reading /\ ~sock'.polling /\ sock'.frame = "on_EOF"
        /\ sock'.receiveEOF
    BY <2>2 DEF Enter, TcpReadStop, SocketType
  <2>4. QED
    BY <1>2, <2>1, <2>2, <2>3 DEF SocketInv, HandlesAgree, RequestsAgree,
        ErrorPending, ReadingAgrees, ReadingTold, WatchdogArmed,
        OnlyRefusedAborts, Running, Connected
<1>5. CASE sock' = Enter([done EXCEPT !.from = "read"], "on_error")
  BY <1>2, <1>5 DEF ReadReady, InLoop, Enter,
      SocketInv, TypeOK, SocketType, HandlesAgree, RequestsAgree, ErrorPending,
      ReadingAgrees, ReadingTold, WatchdogArmed, OnlyRefusedAborts, Running,
      Connected
<1>6. CASE st = "refused" /\ sock' = Abort(done, st)
  BY <1>2, <1>6 DEF ReadReady, InLoop, Abort,
      SocketInv, TypeOK, SocketType, HandlesAgree, RequestsAgree, ErrorPending,
      ReadingAgrees, ReadingTold, WatchdogArmed, OnlyRefusedAborts, Running,
      Connected
<1>7. CASE NDEBUG /\ sock' = Enter(TimerReset(done), "on_read")
  BY <1>2, <1>7 DEF ReadReady, InLoop, TimerReset, Enter,
      SocketInv, TypeOK, SocketType, HandlesAgree, RequestsAgree, ErrorPending,
      ReadingAgrees, ReadingTold, WatchdogArmed, OnlyRefusedAborts, Running,
      Connected
<1>8. (st = "eof" => next = ReadEOF(done))
      /\ (st # "eof" => next = Enter(TimerReset(done), "on_read"))
  OBVIOUS
<1> HIDE DEF done, next
<1>9. QED
  BY <1>0, <1>1, <1>2, <1>3, <1>4, <1>5, <1>6, <1>7, <1>8, HandleErrorCases
  DEF SocketInv, TypeOK, SocketType, Status

LEMMA WriteDoneInv ==
    ASSUME SocketInv, TypeOK', WriteDone
    PROVE  SocketInv'
<1> DEFINE done == [sock EXCEPT !.write = "none"]
           st == WriteStatus(sock)
<1>0. /\ done \in SocketType
      /\ done.status = sock.status /\ done.tcp = sock.tcp
      /\ done.timer = sock.timer /\ done.timer_closed = sock.timer_closed
      /\ done.socket_closed = sock.socket_closed
      /\ done.fault = sock.fault
      /\ done.polling = sock.polling /\ done.connect = sock.connect
      /\ done.write = "none" /\ done.shutdown = sock.shutdown
  BY Literals DEF SocketInv, TypeOK, SocketType
<1>1. sock' = HandleError(done, "write", st, Enter(done, "on_write"))
  BY DEF WriteDone, WriteCb
<1>2. /\ st \in UvStatus
      /\ st # "eof"
      /\ sock.status < CLOSING => Connected /\ sock.tcp = "open" /\ st # "canceled"
      /\ sock.status # INVALID
  BY DEF WriteDone, WriteStatus, SocketInv, HandlesAgree, RequestsAgree, TypeOK,
         SocketType, Status, Connected, WriteState, Outcome, UvStatus
<1>3. CASE sock' = Enter(done, "on_write")
  BY <1>2, <1>3 DEF WriteDone, InLoop, Enter,
      SocketInv, TypeOK, SocketType, HandlesAgree, RequestsAgree, ErrorPending,
      ReadingAgrees, ReadingTold, WatchdogArmed, OnlyRefusedAborts, Running,
      Connected
<1>4. CASE sock.status >= CLOSING /\ sock' = Handled(done, "write")
  <2> HIDE DEF done
  <2>1. QED
    BY <1>0, <1>4, HandledFields, AnswerWhenClosing
<1>5. CASE /\ sock.status < CLOSING
           /\ sock' = Enter([done EXCEPT !.from = "write"], "on_error")
  BY <1>2, <1>5 DEF WriteDone, InLoop, Enter,
      SocketInv, TypeOK, SocketType, HandlesAgree, RequestsAgree, ErrorPending,
      ReadingAgrees, ReadingTold, WatchdogArmed, OnlyRefusedAborts, Running,
      Connected
<1>6. CASE sock.status < CLOSING /\ st = "refused" /\ sock' = Abort(done, st)
  BY <1>2, <1>6 DEF WriteDone, InLoop, Abort,
      SocketInv, TypeOK, SocketType, HandlesAgree, RequestsAgree, ErrorPending,
      ReadingAgrees, ReadingTold, WatchdogArmed, OnlyRefusedAborts, Running,
      Connected
<1> HIDE DEF done, st
<1>7. QED
  BY <1>0, <1>1, <1>2, <1>3, <1>4, <1>5, <1>6, HandleErrorCases

LEMMA ShutdownDoneInv ==
    ASSUME SocketInv, TypeOK', NEW st \in UvStatus, ShutdownDone(st)
    PROVE  SocketInv'
<1> DEFINE done == [sock EXCEPT !.shutdown = FALSE]
           next == Enter([done EXCEPT !.status = SHUT_DOWN], "on_shutdown")
<1>0. /\ done \in SocketType
      /\ done.status = sock.status /\ done.tcp = sock.tcp
      /\ done.timer = sock.timer /\ done.timer_closed = sock.timer_closed
      /\ done.socket_closed = sock.socket_closed
      /\ done.fault = sock.fault
      /\ done.polling = sock.polling /\ done.connect = sock.connect
      /\ done.write = sock.write /\ done.shutdown = FALSE
  BY DEF SocketInv, TypeOK, SocketType
<1>1. sock' = HandleError(done, "shutdown", st, next)
  BY DEF ShutdownDone, ShutdownCb
<1>2. /\ sock.status < CLOSING => Connected /\ sock.tcp = "open" /\ st # "canceled"
      /\ sock.status >= CLOSING => st = "canceled"
      /\ st # "eof"
  BY DEF ShutdownDone, SocketInv, HandlesAgree, RequestsAgree, TypeOK, SocketType,
         Status, Connected, Outcome
<1>3. CASE sock.status < CLOSING /\ sock' = next
  BY <1>2, <1>3 DEF ShutdownDone, InLoop, Enter,
      SocketInv, TypeOK, SocketType, HandlesAgree, RequestsAgree, ErrorPending,
      ReadingAgrees, ReadingTold, WatchdogArmed, OnlyRefusedAborts, Running,
      Connected
<1>4. CASE sock.status >= CLOSING /\ sock' = Handled(done, "shutdown")
  <2> HIDE DEF done
  <2>1. QED
    BY <1>0, <1>4, HandledFields, AnswerWhenClosing
<1>5. CASE /\ sock.status < CLOSING
           /\ sock' = Enter([done EXCEPT !.from = "shutdown"], "on_error")
  BY <1>2, <1>5 DEF ShutdownDone, InLoop, Enter,
      SocketInv, TypeOK, SocketType, HandlesAgree, RequestsAgree, ErrorPending,
      ReadingAgrees, ReadingTold, WatchdogArmed, OnlyRefusedAborts, Running,
      Connected
<1>6. CASE sock.status < CLOSING /\ st = "refused" /\ sock' = Abort(done, st)
  BY <1>2, <1>6 DEF ShutdownDone, InLoop, Abort,
      SocketInv, TypeOK, SocketType, HandlesAgree, RequestsAgree, ErrorPending,
      ReadingAgrees, ReadingTold, WatchdogArmed, OnlyRefusedAborts, Running,
      Connected
<1>7. sock.status < CLOSING \/ sock.status >= CLOSING
  BY DEF SocketInv, TypeOK, SocketType, Status
<1> HIDE DEF done, next
<1>8. QED
  BY <1>0, <1>1, <1>2, <1>3, <1>4, <1>5, <1>6, <1>7, HandleErrorCases

LEMMA NextInv == SocketInv /\ [Next]_sock => SocketInv'
<1> SUFFICES ASSUME SocketInv, [Next]_sock
             PROVE  SocketInv'
  OBVIOUS
<1>1. TypeOK'
  BY NextType DEF SocketInv
<1>2. CASE User
  BY <1>1, <1>2, DisableTimeoutInv, ConnectInv, ConnectFailsInv,
     ReadStartInv, ReadStopInv, WriteInv, ShutdownInv, CloseInv, ReturnInv DEF User
<1>3. CASE Loop
  BY <1>1, <1>3, AcceptInv, ConnectDoneInv, ReadReadyInv, WriteDoneInv,
     WriteSettlesInv, ShutdownDoneInv, TimerDueInv, TimedOutInv,
     TimerClosedInv, TcpClosedInv DEF Loop, Requests
<1>4. CASE Rest \/ UNCHANGED sock
  <2>1. sock' = sock
    BY <1>4 DEF Rest
  <2>2. QED
    BY <2>1 DEF SocketInv, TypeOK, HandlesAgree, RequestsAgree, ErrorPending,
        ReadingAgrees, ReadingTold, WatchdogArmed, OnlyRefusedAborts, Running,
      Connected
<1>5. QED
  BY <1>2, <1>3, <1>4 DEF Next

LEMMA SocketInvariant == Spec => []SocketInv
  BY InitInv, NextInv, PTL DEF Spec
-----------------------------------------------------------------------------
(* The socket always has its type.                                          *)
THEOREM TypeCorrect == Spec => []TypeOK
<1>1. SocketInv => TypeOK
  BY DEF SocketInv
<1>2. QED
  BY <1>1, SocketInvariant, PTL

(* A CLOSED socket has nothing left in libuv: no handle, no request.        *)
THEOREM FreeableWhenClosed == Spec => []ClosedMeansFreeable
<1>1. SocketInv => ClosedMeansFreeable
  BY DEF SocketInv, HandlesAgree, RequestsAgree, ClosedMeansFreeable
<1>2. QED
  BY <1>1, SocketInvariant, PTL

(* uv_close is never called twice and no UV_ECANCELED reaches the switch.   *)
THEOREM AbortsOnlyOnRefusal == Spec => []OnlyRefusedAborts
<1>1. SocketInv => OnlyRefusedAborts
  BY DEF SocketInv
<1>2. QED
  BY <1>1, SocketInvariant, PTL

(* No connection is without a running timer while it has a timeout.         *)
THEOREM WatchdogCorrect == Spec => []WatchdogArmed
<1>1. SocketInv => WatchdogArmed
  BY DEF SocketInv
<1>2. QED
  BY <1>1, SocketInvariant, PTL

(* With assertions, `reading` and what libuv does never drift apart.        *)
THEOREM ReadingCorrect == ~NDEBUG => (Spec => []ReadingMeansPolling)
<1> SUFFICES ASSUME ~NDEBUG PROVE Spec => []ReadingMeansPolling
  OBVIOUS
<1>1. SocketInv => ReadingMeansPolling
  BY DEF SocketInv, TypeOK, SocketType, Status, HandlesAgree, ReadingAgrees,
      ReadingTold, ReadingMeansPolling
<1>2. QED
  BY <1>1, SocketInvariant, PTL
-----------------------------------------------------------------------------
(* What a user can see of a step, without the state libuv keeps: the kinds  *)
(* of steps the action properties and the refinement are about.             *)
SameLife == sock'.status = sock.status /\ sock'.fault = sock.fault
SameWrite == (sock'.write = "none") <=> (sock.write = "none")

Silent == SameLife /\ SameWrite /\ sock'.frame = sock.frame /\ sock'.from = sock.from

Opens == /\ sock.status = INVALID /\ sock'.status \in {CONNECTING, CONNECTED}
         /\ sock.write = "none" /\ sock'.write = "none"
         /\ sock'.fault = sock.fault /\ Running
         /\ sock.frame # "on_error"
         /\ sock'.frame \in {sock.frame, "on_connection"}

News == /\ SameLife /\ SameWrite /\ InLoop /\ Connected
        /\ \/ sock'.frame \in {"on_connect", "on_read", "on_EOF"}
           \/ sock'.frame = "on_error" /\ sock'.from # "write"

Returns == /\ SameLife /\ SameWrite /\ Running
           /\ sock.frame # "on_error" /\ sock'.frame = "loop"

Asks == /\ SameLife /\ Running /\ sock.status \in {CONNECTING, CONNECTED}
        /\ sock.write = "none" /\ sock'.write # "none"
        /\ sock.frame # "on_error" /\ sock'.frame = sock.frame

Shuts == /\ SameWrite /\ Running /\ sock'.fault = sock.fault
         /\ sock.status < CLOSING /\ Connected /\ sock.frame # "on_error"
         /\ \/ /\ sock.status \in {CONNECTING, CONNECTED}
               /\ sock'.status = SHUTTING_DOWN /\ sock'.frame = sock.frame
            \/ sock'.status = SHUT_DOWN /\ sock'.frame = "on_shutdown"

Closes == /\ SameWrite /\ Running /\ sock'.fault = sock.fault
          /\ sock.status < CLOSING /\ sock'.status = CLOSING
          /\ sock.frame # "on_error" /\ sock'.frame = sock.frame

Fails == /\ SameWrite /\ Running /\ sock'.fault = sock.fault
         /\ Connected /\ sock'.status = CLOSING
         /\ sock.frame = "on_error"
         /\ sock'.frame \in {"loop", "on_read_err", "on_write_err"}
         /\ sock.from = "write" <=> sock'.frame = "on_write_err"

Answers == /\ SameLife /\ InLoop /\ sock.write # "none" /\ sock'.write = "none"
           /\ sock.status \in CONNECTING .. CLOSING
           /\ \/ sock'.frame = "on_write" /\ (sock.write = "ok" \/ NDEBUG)
              \/ sock'.frame = "on_write_err" /\ sock.status = CLOSING
              \/ /\ sock'.frame = "on_error" /\ sock'.from = "write"
                 /\ Connected

Finishes == /\ InLoop /\ sock'.fault = sock.fault
            /\ sock.status = CLOSING /\ sock'.status = CLOSED
            /\ sock.write = "none" /\ sock'.write = "none"
            /\ sock'.frame = "on_close"

Crashes == /\ InLoop /\ Connected /\ sock'.fault # "none" /\ ~NDEBUG
           /\ sock'.status = sock.status /\ sock'.frame = "loop"

Refused == /\ Running /\ sock.status = INVALID /\ SameWrite
           /\ sock'.fault # "none" /\ ~NDEBUG
           /\ sock'.status = sock.status /\ sock'.frame = sock.frame

Step == \/ Silent \/ Opens \/ News \/ Returns \/ Asks \/ Shuts
        \/ Closes \/ Fails \/ Answers \/ Finishes \/ Crashes \/ Refused

LEMMA UserStep == ASSUME SocketInv, User PROVE Step
<1>0. sock \in SocketType
  BY DEF SocketInv, TypeOK
<1>1. CASE DisableTimeout \/ ReadStart \/ ReadStop
  <2>1. Silent
    BY <1>0, <1>1, ReadStartLegal DEF DisableTimeout, ReadStop,
        TcpReadStop, Silent, SameLife, SameWrite, SocketType
  <2>2. QED
    BY <2>1 DEF Step
<1>2. CASE Connect
  <2>1. Opens
    BY <1>0, <1>2 DEF Connect, UserTurn, TcpConnect, TimerStart, Opens,
        SocketInv, RequestsAgree, SocketType
  <2>2. QED
    BY <2>1 DEF Step
<1>a. CASE ConnectFails
  <2>1. Silent \/ Refused
    BY <1>0, <1>a DEF ConnectFails, UserTurn, TcpConnectFails, Abort, Silent,
        Refused, SameLife, SameWrite, SocketType
  <2>2. QED
    BY <2>1 DEF Step
<1>3. CASE \E result \in Outcome \cup {"queued"} : Write(result)
  <2>1. Asks
    BY <1>0, <1>3 DEF Write, UserTurn, TcpWrite, Asks, SameLife, SocketType,
        Outcome
  <2>2. QED
    BY <2>1 DEF Step
<1>4. CASE Shutdown
  <2>1. Shuts
    BY <1>0, <1>4 DEF Shutdown, UserTurn, TcpShutdown, Shuts, SameWrite,
        Connected, SocketType
  <2>2. QED
    BY <2>1 DEF Step
<1>5. CASE Close
  <2>1. sock.tcp = "open"
    BY <1>5 DEF Close, UserTurn, SocketInv, HandlesAgree
  <2>2. Closes
    BY <1>0, <1>5, <2>1 DEF Close, UserTurn, TcpClose, Closes, SameWrite,
        SocketType
  <2>3. QED
    BY <2>2 DEF Step
<1>6. CASE Return
  <2>1. CASE sock.frame # "on_error"
    BY <1>0, <1>6, <2>1 DEF Return, Leave, Step, Returns, SameLife, SameWrite,
        SocketType
  <2>2. CASE sock.frame = "on_error"
    <3> DEFINE c == TcpClose(sock)
    <3>1. Connected /\ sock.tcp = "open" /\ c \in SocketType
      BY <1>0, <2>2, TcpCloseType DEF SocketInv, ErrorPending, HandlesAgree,
          Connected, SocketType, Status
    <3>2. c.status = CLOSING /\ c.write = sock.write /\ c.fault = sock.fault
      BY <1>0, <3>1 DEF TcpClose, SocketType
    <3>3. sock' = Handled(c, sock.from)
      BY <1>6, <2>2 DEF Return, AfterError
    <3> HIDE DEF c
    <3>4. Fails
      BY <1>6, <2>2, <3>1, <3>2, <3>3, HandledFields DEF Return, Fails, SameWrite
    <3>5. QED
      BY <3>4 DEF Step
  <2>3. QED
    BY <2>1, <2>2
<1>7. QED
  BY <1>1, <1>2, <1>a, <1>3, <1>4, <1>5, <1>6 DEF User

LEMMA ConnectDoneStep ==
    ASSUME SocketInv, NEW st \in UvStatus, ConnectDone(st)
    PROVE  Step
<1> DEFINE done == [sock EXCEPT !.connect = IF st = "ok" THEN "up" ELSE "down"]
           next == Enter(TimerReset(done), "on_connect")
<1>0. /\ sock \in SocketType /\ done \in SocketType
      /\ done.status = sock.status /\ done.write = sock.write
      /\ done.fault = sock.fault /\ done.frame = sock.frame
  BY Literals DEF SocketInv, TypeOK, SocketType
<1>1. sock' = HandleError(done, "connect", st, next)
  BY DEF ConnectDone, ConnectCb
<1>2. /\ sock.status < CLOSING => Connected
      /\ sock.status >= CLOSING => st = "canceled"
      /\ sock.frame = "loop"
      /\ st # "eof"
  BY <1>0 DEF ConnectDone, InLoop, SocketInv, HandlesAgree, RequestsAgree,
      SocketType, Status, Connected, Outcome
<1> HIDE DEF done
<1>3. CASE sock.status < CLOSING /\ sock' = next
  <2>1. TimerReset(done) \in SocketType
    BY <1>0, TimerType
  <2>2. News
    BY <1>0, <1>2, <1>3, <2>1, TimerResetFields
    DEF ConnectDone, News, Enter, SameLife, SameWrite, SocketType
  <2>3. QED
    BY <2>2 DEF Step
<1>4. CASE sock.status >= CLOSING /\ sock' = Handled(done, "connect")
  BY <1>0, <1>2, <1>4, HandledFields
  DEF ConnectDone, InLoop, Step, Returns, SameLife, SameWrite
<1>5. CASE /\ sock.status < CLOSING
           /\ sock' = Enter([done EXCEPT !.from = "connect"], "on_error")
  BY <1>0, <1>2, <1>5
  DEF ConnectDone, Step, News, Enter, SameLife, SameWrite, SocketType
<1>6. CASE /\ sock.status < CLOSING /\ ~NDEBUG /\ st \in {"canceled", "refused"}
           /\ sock' = Abort(done, st)
  BY <1>0, <1>2, <1>6 DEF ConnectDone, Step, Crashes, Abort, SocketType
<1>7. sock.status < CLOSING \/ sock.status >= CLOSING
  BY <1>0 DEF SocketType, Status
<1> HIDE DEF next
<1>8. QED
  BY <1>0, <1>1, <1>2, <1>3, <1>4, <1>5, <1>6, <1>7, HandleErrorCases

LEMMA ReadReadyStep ==
    ASSUME SocketInv, NEW st \in UvStatus, ReadReady(st)
    PROVE  Step
<1> DEFINE done == [sock EXCEPT !.polling = (st = "ok")]
           next == IF st = "eof" THEN ReadEOF(done)
                                 ELSE Enter(TimerReset(done), "on_read")
<1>0. /\ sock \in SocketType /\ done \in SocketType
      /\ done.status = sock.status /\ done.write = sock.write
      /\ done.fault = sock.fault /\ done.frame = sock.frame
  BY DEF SocketInv, TypeOK, SocketType
<1>1. sock' = HandleError(done, "read", st, next)
  BY DEF ReadReady, ReadCb
<1>2. /\ Connected /\ sock.status < CLOSING /\ ~(sock.status >= CLOSING)
      /\ sock.frame = "loop"
  BY <1>0 DEF ReadReady, InLoop, SocketInv, HandlesAgree, RequestsAgree,
      SocketType, Status, Connected
<1> HIDE DEF done
<1>3. CASE sock' = next
  <2> DEFINE t == TimerReset(done)
  <2>1. t \in SocketType /\ t.status = sock.status /\ t.write = sock.write
        /\ t.fault = sock.fault
    BY <1>0, TimerType, TimerResetFields
  <2> HIDE DEF t
  <2>2. CASE sock' = Enter(TcpReadStop([t EXCEPT !.receiveEOF = TRUE]), "on_EOF")
    BY <1>0, <1>2, <2>1, <2>2 DEF ReadReady, Step, News, Enter, TcpReadStop,
        SameLife, SameWrite, SocketType
  <2>3. CASE sock' = Enter(t, "on_read")
    BY <1>0, <1>2, <2>1, <2>3 DEF ReadReady, Step, News, Enter, SameLife,
        SameWrite, SocketType
  <2>4. QED
    BY <1>3, <2>2, <2>3 DEF ReadEOF, t
<1>4. CASE sock' = Enter([done EXCEPT !.from = "read"], "on_error")
  BY <1>0, <1>2, <1>4
  DEF ReadReady, Step, News, Enter, SameLife, SameWrite, SocketType
<1>5. CASE /\ ~NDEBUG /\ st \in {"canceled", "refused"}
           /\ sock' = Abort(done, st)
  BY <1>0, <1>2, <1>5 DEF ReadReady, Step, Crashes, Abort, SocketType
<1> HIDE DEF next
<1>6. QED
  BY <1>0, <1>1, <1>2, <1>3, <1>4, <1>5, HandleErrorCases

LEMMA WriteDoneStep == ASSUME SocketInv, WriteDone PROVE Step
<1> DEFINE done == [sock EXCEPT !.write = "none"]
           st == WriteStatus(sock)
<1>0. /\ sock \in SocketType /\ done \in SocketType
      /\ done.status = sock.status /\ done.write = "none"
      /\ done.fault = sock.fault /\ done.frame = sock.frame
  BY Literals DEF SocketInv, TypeOK, SocketType
<1>1. sock' = HandleError(done, "write", st, Enter(done, "on_write"))
  BY DEF WriteDone, WriteCb
<1>2. /\ st \in UvStatus /\ st # "eof"
      /\ st = "ok" => sock.write = "ok"
      /\ sock.status < CLOSING => Connected
      /\ sock.status \in CONNECTING .. CLOSING
      /\ sock.frame = "loop"
  BY <1>0 DEF WriteDone, WriteStatus, InLoop, SocketInv, HandlesAgree,
      RequestsAgree, SocketType, Status, Connected, WriteState, Outcome, UvStatus
<1> HIDE DEF done, st
<1>3. CASE (st = "ok" \/ NDEBUG) /\ sock' = Enter(done, "on_write")
  <2>1. sock'.status = sock.status /\ sock'.write = "none"
        /\ sock'.fault = sock.fault /\ sock'.frame = "on_write"
    BY <1>0, <1>3 DEF Enter, SocketType
  <2>2. Answers
    BY <1>2, <1>3, <2>1 DEF WriteDone, Answers, SameLife
  <2>3. QED
    BY <2>2 DEF Step
<1>4. CASE sock.status >= CLOSING /\ sock' = Handled(done, "write")
  BY <1>0, <1>2, <1>4, HandledFields DEF WriteDone, Step, Answers, SameLife
<1>5. CASE /\ sock.status < CLOSING
           /\ sock' = Enter([done EXCEPT !.from = "write"], "on_error")
  BY <1>0, <1>2, <1>5 DEF WriteDone, Step, Answers, Enter, SameLife, SocketType
<1>6. CASE /\ sock.status < CLOSING /\ ~NDEBUG /\ st \in {"canceled", "refused"}
           /\ sock' = Abort(done, st)
  BY <1>0, <1>2, <1>6 DEF WriteDone, Step, Crashes, Abort, SocketType
<1>7. QED
  BY <1>0, <1>1, <1>2, <1>3, <1>4, <1>5, <1>6, HandleErrorCases

LEMMA ShutdownDoneStep ==
    ASSUME SocketInv, NEW st \in UvStatus, ShutdownDone(st)
    PROVE  Step
<1> DEFINE done == [sock EXCEPT !.shutdown = FALSE]
           next == Enter([done EXCEPT !.status = SHUT_DOWN], "on_shutdown")
<1>0. /\ sock \in SocketType /\ done \in SocketType
      /\ done.status = sock.status /\ done.write = sock.write
      /\ done.fault = sock.fault /\ done.frame = sock.frame
  BY DEF SocketInv, TypeOK, SocketType
<1>1. sock' = HandleError(done, "shutdown", st, next)
  BY DEF ShutdownDone, ShutdownCb
<1>2. /\ sock.status < CLOSING => Connected
      /\ sock.status >= CLOSING => st = "canceled"
      /\ sock.frame = "loop"
      /\ st # "eof"
  BY <1>0 DEF ShutdownDone, InLoop, SocketInv, HandlesAgree, RequestsAgree,
      SocketType, Status, Connected, Outcome
<1> HIDE DEF done
<1>3. CASE sock.status < CLOSING /\ sock' = next
  BY <1>0, <1>2, <1>3
  DEF ShutdownDone, InLoop, Step, Shuts, Enter, SameWrite, SocketType
<1>4. CASE sock.status >= CLOSING /\ sock' = Handled(done, "shutdown")
  BY <1>0, <1>2, <1>4, HandledFields
  DEF ShutdownDone, InLoop, Step, Returns, SameLife, SameWrite
<1>5. CASE /\ sock.status < CLOSING
           /\ sock' = Enter([done EXCEPT !.from = "shutdown"], "on_error")
  BY <1>0, <1>2, <1>5
  DEF ShutdownDone, Step, News, Enter, SameLife, SameWrite, SocketType
<1>6. CASE /\ sock.status < CLOSING /\ ~NDEBUG /\ st \in {"canceled", "refused"}
           /\ sock' = Abort(done, st)
  BY <1>0, <1>2, <1>6 DEF ShutdownDone, Step, Crashes, Abort, SocketType
<1>7. sock.status < CLOSING \/ sock.status >= CLOSING
  BY <1>0 DEF SocketType, Status
<1> HIDE DEF next
<1>8. QED
  BY <1>0, <1>1, <1>2, <1>3, <1>4, <1>5, <1>6, <1>7, HandleErrorCases

LEMMA NextStep == ASSUME SocketInv, [Next]_sock PROVE Step
<1>0. sock \in SocketType
  BY DEF SocketInv, TypeOK
<1>1. CASE User
  BY <1>1, UserStep
<1>2. CASE Accept
  <2>1. Opens
    BY <1>0, <1>2 DEF Accept, InLoop, Accepted, FreshSocket, TimerStart, Opens,
        Running, SocketInv, RequestsAgree
  <2>2. QED
    BY <2>1 DEF Step
<1>3. CASE Requests \/ (\E st \in UvStatus : ReadReady(st))
  BY <1>3, ConnectDoneStep, WriteDoneStep, ShutdownDoneStep, ReadReadyStep
  DEF Requests
<1>4. CASE TimerDue
  BY <1>0, <1>4 DEF TimerDue, Step, Silent, SameLife, SameWrite, SocketType
<1>5. CASE \E st \in UvStatus : WriteSettles(st)
  BY <1>0, <1>5 DEF WriteSettles, Outcome, Step, Silent, SameLife, SameWrite,
      SocketType
<1>6. CASE TimedOut
  <2>1. Connected
    BY <1>0, <1>6 DEF TimedOut, SocketInv, HandlesAgree, RequestsAgree,
        Connected, SocketType, Status
  <2>2. QED
    BY <1>0, <1>6, <2>1 DEF TimedOut, TimeoutCb, Enter, Step, News, SameLife,
        SameWrite, SocketType
<1>7. CASE TimerClosed
  <2>1. sock.status = CLOSING
    BY <1>0, <1>7 DEF TimerClosed, SocketInv, HandlesAgree, SocketType, Status
  <2>2. sock.tcp = "closed" => sock.write = "none"
    BY DEF SocketInv, RequestsAgree
  <2>3. sock.socket_closed <=> sock.tcp = "closed"
    BY <2>1 DEF SocketInv, HandlesAgree
  <2>4. CASE ~sock.socket_closed
    BY <1>0, <1>7, <2>4 DEF TimerClosed, TimerCloseCb, CheckClose, Step, Silent,
        SameLife, SameWrite, SocketType
  <2>5. CASE sock.socket_closed
    BY <1>0, <1>7, <2>1, <2>2, <2>3, <2>5 DEF TimerClosed, TimerCloseCb,
        CheckClose, Enter, Step, Finishes, SocketType
  <2>6. QED
    BY <2>4, <2>5
<1>8. CASE TcpClosed
  <2>1. sock.status = CLOSING
    BY <1>0, <1>8 DEF TcpClosed, SocketInv, HandlesAgree, SocketType, Status
  <2>2. CASE ~sock.timer_closed
    BY <1>0, <1>8, <2>2 DEF TcpClosed, SocketCloseCb, CheckClose, Step, Silent,
        SameLife, SameWrite, SocketType
  <2>3. CASE sock.timer_closed
    BY <1>0, <1>8, <2>1, <2>3 DEF TcpClosed, SocketCloseCb, CheckClose, Enter,
        Step, Finishes, SocketType
  <2>4. QED
    BY <2>2, <2>3
<1>9. CASE Rest \/ UNCHANGED sock
  BY <1>9 DEF Rest, Step, Silent, SameLife, SameWrite
<1>10. QED
  BY <1>1, <1>2, <1>3, <1>4, <1>5, <1>6, <1>7, <1>8, <1>9 DEF Next, Loop
-----------------------------------------------------------------------------
(* The status only moves forward in ne_tcp_socket_status.                   *)
THEOREM StatusGoesForward == Spec => StatusForward
<1>1. SocketInv /\ [Next]_sock => sock'.status >= sock.status
  <2> SUFFICES ASSUME SocketInv, [Next]_sock
               PROVE  sock'.status >= sock.status
    OBVIOUS
  <2>1. sock.status \in Status
    BY DEF SocketInv, TypeOK, SocketType
  <2>2. Step
    BY NextStep
  <2>3. QED
    BY <2>1, <2>2 DEF Step, Silent, Opens, News, Returns, Asks, Shuts, Closes,
        Fails, Answers, Finishes, Crashes, Refused, SameLife, Status, Connected
<1>2. QED
  BY <1>1, SocketInvariant, PTL DEF Spec, StatusForward

(* A closing socket is quiet: only answers to what was asked before.        *)
THEOREM ClosingIsQuiet == Spec => QuietWhenClosing
<1> DEFINE Quiet == sock.status >= CLOSING =>
              sock'.frame \in {sock.frame, "loop", "on_read_err", "on_write",
                               "on_write_err", "on_close"}
<1>1. SocketInv /\ [Next]_sock => Quiet
  <2> SUFFICES ASSUME SocketInv, [Next]_sock, sock.status >= CLOSING
               PROVE  Quiet
    OBVIOUS
  <2>1. ~Connected /\ ~(sock.status < CLOSING) /\ sock.status # INVALID
    BY DEF SocketInv, TypeOK, SocketType, Status, Connected
  <2>2. Step
    BY NextStep
  <2>3. QED
    BY <2>1, <2>2 DEF Step, Silent, Opens, News, Returns, Asks, Shuts, Closes,
        Fails, Answers, Finishes, Crashes, Refused
<1>2. QED
  BY <1>1, SocketInvariant, PTL DEF Spec, QuietWhenClosing

(* In a build with assertions, on_write never reports a success that was    *)
(* not one.                                                                 *)
THEOREM WriteReportsTrue == ~NDEBUG => (Spec => WriteReportHonest)
<1> SUFFICES ASSUME ~NDEBUG PROVE Spec => WriteReportHonest
  OBVIOUS
<1> DEFINE Honest == sock.frame # "on_write" /\ sock'.frame = "on_write"
                       => sock.write = "ok"
<1>1. SocketInv /\ [Next]_sock => Honest
  <2> SUFFICES ASSUME SocketInv, [Next]_sock
               PROVE  Honest
    OBVIOUS
  <2>1. Step
    BY NextStep
  <2>2. QED
    BY <2>1 DEF Step, Silent, Opens, News, Returns, Asks, Shuts, Closes, Fails,
        Answers, Finishes, Crashes, Refused
<1>2. QED
  BY <1>1, SocketInvariant, PTL DEF Spec, WriteReportHonest

(* The socket implements SocketPromise: it is opened and closed once, each  *)
(* write is answered exactly once, and it is not freeable before that.      *)
THEOREM SocketKeepsPromise == Spec => PromiseSpec
<1>1. Init => Promise!Init
  BY DEF Init, FreshSocket, Promise!Init, Life, Owed, Told, Running, Connected
<1>2. SocketInv /\ [Next]_sock => [Promise!Next]_<<Life, Owed, Told>>
  <2> SUFFICES ASSUME SocketInv, [Next]_sock
               PROVE  [Promise!Next]_<<Life, Owed, Told>>
    OBVIOUS
  <2>1. sock.status \in Status
    BY DEF SocketInv, TypeOK, SocketType
  <2>2. /\ ~Running => Life = "crashed"
        /\ Running /\ Connected => Life = "open"
        /\ Running /\ sock.status = INVALID => Life = "fresh"
        /\ Running /\ sock.status = CLOSING => Life = "closing"
        /\ Running /\ sock.status = CLOSED => Life = "freeable"
    BY DEF Life, Connected
  <2>3. /\ ~Running' => Life' = "crashed"
        /\ Running' /\ Connected' => Life' = "open"
        /\ Running' /\ sock'.status = INVALID => Life' = "fresh"
        /\ Running' /\ sock'.status = CLOSING => Life' = "closing"
        /\ Running' /\ sock'.status = CLOSED => Life' = "freeable"
    BY DEF Life, Connected
  <2>4. sock.frame = "on_error" /\ sock.from = "write" => sock.write = "none"
    BY DEF SocketInv, ErrorPending
  <2>5. Owed \in BOOLEAN /\ Owed' \in BOOLEAN
    BY DEF Owed
  <2>6. /\ sock.status \in {INVALID, CLOSING, CLOSED} \/ Connected
        /\ Connected => sock.status < CLOSING
    BY <2>1 DEF Status, Connected
  <2>7. Step
    BY NextStep
  <2>8. CASE Silent \/ News \/ Returns
    <3>1. Life' = Life
      BY <2>2, <2>3, <2>6, <2>8
      DEF Silent, News, Returns, SameLife, Running, Connected
    <3>2. Owed' = Owed
      BY <2>8 DEF Silent, News, Returns, SameWrite, InLoop, Owed
    <3>3. Told' = Told \/ (Told /\ Told' = FALSE)
      BY <2>8 DEF Silent, News, Returns, Told, InLoop
    <3>4. QED
      BY <3>1, <3>2, <3>3 DEF Promise!Next, Promise!Return
  <2>9. CASE Opens
    BY <2>2, <2>3, <2>9 DEF Opens, Running, Connected, Owed, Told,
        Promise!Next, Promise!Open, Promise!NotAnswering
  <2>10. CASE Asks
    BY <2>2, <2>3, <2>10 DEF Asks, SameLife, Running, Connected, Owed, Told,
        Promise!Next, Promise!Ask, Promise!NotAnswering
  <2>11. CASE Shuts
    <3>1. Life' = Life
      BY <2>2, <2>3, <2>11 DEF Shuts, Running, Connected
    <3>2. Owed' = Owed
      BY <2>11 DEF Shuts, SameWrite, Owed
    <3>3. Told' = Told \/ (Told /\ Told' = FALSE)
      BY <2>11 DEF Shuts, Told
    <3>4. QED
      BY <3>1, <3>2, <3>3 DEF Promise!Next, Promise!Return
  <2>12. CASE Closes
    <3>1. Life \in {"fresh", "open"} /\ Life' = "closing"
      BY <2>2, <2>3, <2>6, <2>12 DEF Closes, Running
    <3>2. Owed' = Owed /\ Told' = Told
      BY <2>12 DEF Closes, SameWrite, Owed, Told
    <3>3. QED
      BY <3>1, <3>2 DEF Promise!Next, Promise!Close, Promise!NotAnswering
  <2>13. CASE Fails
    <3>1. Life = "open" /\ Life' = "closing" /\ ~Told
      BY <2>2, <2>3, <2>13 DEF Fails, Running, Told
    <3>2. CASE sock.from = "write"
      <4>1. Owed /\ Owed' = FALSE
        BY <2>4, <2>13, <3>2 DEF Fails, SameWrite, Owed
      <4>2. Told' = TRUE
        BY <2>13, <3>2 DEF Fails, Told
      <4>3. QED
        BY <3>1, <4>1, <4>2 DEF Promise!Next, Promise!Answer
    <3>3. CASE sock.from # "write"
      BY <2>13, <3>1, <3>3 DEF Fails, SameWrite, Owed, Told, Promise!Next,
          Promise!Close, Promise!NotAnswering
    <3>4. QED
      BY <3>2, <3>3
  <2>14. CASE Answers
    <3>1. Life \in {"open", "closing"} /\ Life' = Life /\ ~Told
      BY <2>2, <2>3, <2>6, <2>14
      DEF Answers, InLoop, SameLife, Running, Connected, Told
    <3>2. Owed
      BY <2>14 DEF Answers, Owed
    <3>3. CASE sock'.frame = "on_error" /\ sock'.from = "write"
      BY <3>1, <3>2, <3>3 DEF Owed, Told
    <3>4. CASE sock'.frame \in {"on_write", "on_write_err"}
      BY <2>14, <3>1, <3>2, <3>4
      DEF Answers, Owed, Told, Promise!Next, Promise!Answer
    <3>5. QED
      BY <2>14, <3>3, <3>4 DEF Answers
  <2>15. CASE Finishes
    BY <2>2, <2>3, <2>15 DEF Finishes, InLoop, Owed, Told, Running,
        Promise!Next, Promise!Finish, Promise!NotAnswering
  <2>16. CASE Crashes
    BY <2>2, <2>3, <2>5, <2>16 DEF Crashes, InLoop, Running, Told,
        Promise!Next, Promise!Crash, Promise!NotAnswering
  <2>17. CASE Refused
    BY <2>2, <2>3, <2>5, <2>17 DEF Refused, Running, Told,
        Promise!Next, Promise!Crash, Promise!NotAnswering
  <2>18. QED
    BY <2>7, <2>8, <2>9, <2>10, <2>11, <2>12, <2>13, <2>14, <2>15, <2>16,
       <2>17
    DEF Step
<1>3. QED
  BY <1>1, <1>2, SocketInvariant, PTL DEF Spec, PromiseSpec, Promise!Spec
=============================================================================
