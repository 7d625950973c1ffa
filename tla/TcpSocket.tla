------------------------------ MODULE TcpSocket -------------------------------
(****************************************************************************)
(* One TCP socket of src/src/utils/tcp_socket.c, its user and the event     *)
(* loop.  The user does anything the interface and its assertions allow, at *)
(* any point of any callback; the loop delivers whatever libuv has ready.   *)
(*                                                                          *)
(* The user's contract: one write at a time (write_req is a field), one     *)
(* connect, nothing but returning in on_error (the socket "will be closed   *)
(* automatically", tcp_socket.h:80) and nothing once it is closing.         *)
(****************************************************************************)
EXTENDS TcpSocketOps

VARIABLE sock

Running   == sock.fault = "none"
InLoop    == Running /\ sock.frame = "loop"
UserTurn  == Running /\ sock.status < CLOSING /\ sock.frame # "on_error"
Connected == sock.status \in CONNECTING .. SHUT_DOWN

Init == sock = FreshSocket
-----------------------------------------------------------------------------
(* The user.                                                                *)

(* Setting socket->timeout to 0 "after ne_tcp_socket_init": before          *)
(* connecting, or, on an accepted socket, in on_connection.                 *)
DisableTimeout ==
    /\ UserTurn
    /\ sock.status = INVALID \/ sock.frame = "on_connection"
    /\ sock' = [sock EXCEPT !.timeout = FALSE]

(* The user may connect again when uv_tcp_connect fails at once with an     *)
(* error that is returned.                                                  *)
Connect == /\ UserTurn
           /\ sock.status = INVALID
           /\ sock' = TcpConnect(sock)

ConnectFails == /\ UserTurn
                /\ sock.status = INVALID
                /\ sock' = TcpConnectFails(sock)

ReadStart == /\ UserTurn
             /\ Connected
             /\ ~sock.receiveEOF
             /\ sock' = TcpReadStart(sock)

ReadStop == /\ UserTurn
            /\ Connected
            /\ sock' = TcpReadStop(sock)

(* uv_write tries at once when the connection is up.                        *)
Write(result) ==
    /\ UserTurn
    /\ sock.status \in {CONNECTING, CONNECTED}
    /\ sock.write = "none"
    /\ result # "queued" => sock.connect # "pending"
    /\ sock' = TcpWrite(sock, result)

Shutdown == /\ UserTurn
            /\ sock.status \in {CONNECTING, CONNECTED}
            /\ sock' = TcpShutdown(sock)

Close == /\ UserTurn
         /\ sock' = TcpClose(sock)

Return == /\ Running
          /\ sock.frame # "loop"
          /\ sock' = IF sock.frame = "on_error" THEN AfterError(sock)
                                                ELSE Leave(sock)
-----------------------------------------------------------------------------
(* The event loop.                                                          *)

(* The listening socket's __ne_tcp_socket_connection_cb initialises this    *)
(* one and accepts into it.                                                 *)
Accept == /\ InLoop
          /\ sock.status = INVALID
          /\ sock' = Accepted(FreshSocket)

ConnectDone(status) ==
    /\ InLoop
    /\ sock.connect = "pending"
    /\ IF sock.tcp = "open" THEN status \in Outcome ELSE status = "canceled"
    /\ sock' = ConnectCb(sock, status)

ReadReady(status) ==
    /\ InLoop
    /\ sock.polling
    /\ sock.connect # "pending"
    /\ status # "canceled"
    /\ sock' = ReadCb(sock, status)

WriteSettles(status) ==
    /\ InLoop
    /\ sock.write = "queued"
    /\ sock.tcp = "open"
    /\ sock.connect # "pending"
    /\ status \in Outcome
    /\ sock' = [sock EXCEPT !.write = status]

WriteDone ==
    /\ InLoop
    /\ sock.write # "none"
    /\ sock.tcp = "open" => sock.write # "queued"
    /\ sock' = WriteCb(sock)

ShutdownDone(status) ==
    /\ InLoop
    /\ sock.shutdown
    /\ sock.write = "none"
    /\ IF sock.tcp = "open" THEN status \in Outcome /\ sock.connect # "pending"
                            ELSE status = "canceled"
    /\ sock' = ShutdownCb(sock, status)

TimerDue == /\ Running
            /\ sock.timer = "running"
            /\ sock' = [sock EXCEPT !.timer = "due"]

TimedOut == /\ InLoop
            /\ sock.timer = "due"
            /\ sock' = TimeoutCb(sock)

TimerClosed == /\ InLoop
               /\ sock.timer = "closing"
               /\ sock' = TimerCloseCb(sock)

TcpClosed == /\ InLoop
             /\ sock.tcp = "closing"
             /\ sock.connect # "pending"
             /\ sock.write = "none"
             /\ ~sock.shutdown
             /\ sock' = SocketCloseCb(sock)

(* The user has freed the socket, or the process has aborted.               *)
Rest == /\ ~Running \/ (InLoop /\ sock.status = CLOSED)
        /\ UNCHANGED sock

User == \/ DisableTimeout \/ Connect \/ ConnectFails \/ ReadStart \/ ReadStop
        \/ Shutdown \/ Close \/ Return
        \/ \E result \in Outcome \cup {"queued"} : Write(result)

Requests == \/ WriteDone
            \/ \E status \in UvStatus : \/ ConnectDone(status)
                                        \/ ShutdownDone(status)

Loop == \/ Accept \/ Requests \/ TimerDue \/ TimedOut
        \/ TimerClosed \/ TcpClosed
        \/ \E status \in UvStatus : ReadReady(status) \/ WriteSettles(status)

Next == User \/ Loop \/ Rest

(* Callbacks return; time passes; every iteration of uv_run runs the timers *)
(* that are due, so TimedOut is not starved by other callbacks; libuv       *)
(* answers cancelled requests and closes handles.  Nothing is assumed of    *)
(* the peer.                                                                *)
Fairness == /\ WF_sock(Return)
            /\ WF_sock(TimerDue)
            /\ SF_sock(TimedOut)
            /\ WF_sock(sock.tcp # "open" /\ Requests)
            /\ WF_sock(TimerClosed)
            /\ WF_sock(TcpClosed)

Spec == Init /\ [][Next]_sock

FairSpec == Spec /\ Fairness
-----------------------------------------------------------------------------
(* The socket has its type.                                                 *)
TypeOK == sock \in SocketType

(* "The socket can be freed now" (tcp_socket.h:40): a CLOSED socket has     *)
(* both of its libuv handles closed and no request outstanding, whatever    *)
(* was in flight when it was closed and in whichever order libuv answered.  *)
ClosedMeansFreeable ==
    sock.status = CLOSED =>
        /\ sock.timer = "closed" /\ sock.tcp = "closed"
        /\ sock.connect # "pending" /\ sock.write = "none" /\ ~sock.shutdown

(* However timeouts, errors and the user's own close race, uv_close is      *)
(* called once, and UV_ECANCELED reaches handle_error only when "already    *)
(* checked" (tcp_socket.c:112): what can stop the process is an error of    *)
(* the system that a switch has no case for, in handle_error (118) or when  *)
(* connecting (189).                                                        *)
OnlyRefusedAborts == sock.fault \in {"none", "refused"}

(* A socket that is connecting or connected and has a timeout has a timer   *)
(* that will fire; without it a silent peer would hold the socket forever.  *)
WatchdogArmed ==
    Running /\ Connected /\ sock.timeout => sock.timer \in {"running", "due"}

(* `reading` and libuv's polling do not drift apart, through errors, ends   *)
(* of file, stops in the middle of a callback and closes: between callbacks *)
(* they are the same as long as the socket is not closing; libuv never      *)
(* polls a socket that is not reading or is closing; and a user who is told *)
(* that reading failed, which is after on_error and the close, or that the  *)
(* peer has finished, finds a socket that has stopped reading.              *)
ReadingMeansPolling ==
    Running =>
        /\ sock.frame = "loop" /\ sock.status < CLOSING
             => (sock.reading <=> sock.polling)
        /\ sock.polling => sock.reading /\ sock.status < CLOSING
        /\ sock.frame \in {"on_read_err", "on_EOF"} => ~sock.reading

(* The order of ne_tcp_socket_status is the life of a socket: late answers  *)
(* of libuv never take the status back, which `status >= CLOSING`,          *)
(* `status <= SHUT_DOWN` and `status < SHUTTING_DOWN` rely on.              *)
StatusForward == [][sock'.status >= sock.status]_sock

(* Once the socket is closing the user hears of pending writes, of the read *)
(* that failed, and of the close; it is never told that the socket          *)
(* connected, received, shut down or failed.                                *)
QuietWhenClosing ==
    [][sock.status >= CLOSING =>
         sock'.frame \in {sock.frame, "loop", "on_read_err", "on_write",
                          "on_write_err", "on_close"}]_sock

(* on_write reports success only for a write that libuv completed.          *)
WriteReportHonest ==
    [][sock.frame # "on_write" /\ sock'.frame = "on_write"
         => sock.write = "ok"]_sock

(* What a user sees of the socket: how far its life has come, and whether a *)
(* write is still to be answered (one that failed is, until on_error has    *)
(* returned).                                                               *)
Life == CASE ~Running                            -> "crashed"
          [] Running /\ Connected                -> "open"
          [] Running /\ sock.status = INVALID    -> "fresh"
          [] Running /\ sock.status = CLOSING    -> "closing"
          [] Running /\ sock.status = CLOSED     -> "freeable"

Owed == \/ sock.write # "none"
        \/ sock.frame = "on_error" /\ sock.from = "write"

Told == sock.frame \in {"on_write", "on_write_err"}

Promise == INSTANCE SocketPromise
               WITH life <- Life, owed <- Owed, told <- Told

(* The socket implements SocketPromise.                                     *)
PromiseSpec == Promise!Spec

(* A socket that starts closing becomes freeable: on_close is always called.*)
CloseCompletes == (sock.status = CLOSING) ~> (sock.status = CLOSED)

(* A socket whose peer says nothing is given up: as long as a timeout is    *)
(* set, there is news (a connection, data, an end of file) or the socket is *)
(* closed, whatever the user writes meanwhile.                              *)
WatchdogFires ==
    (Running /\ Connected /\ sock.timeout) ~>
        \/ sock.frame \in {"on_connect", "on_read", "on_EOF"}
        \/ sock.status = CLOSED
        \/ ~Running
-----------------------------------------------------------------------------
(* What the interface says and the code does not do.                        *)

(* "Set it to 0 to disable time out." (tcp_socket.h:88-89): a socket whose  *)
(* timeout is 0 never times out.                                            *)
ZeroDisablesTimeout ==
    sock.frame = "on_error" /\ sock.from = "timer" => sock.timeout
=============================================================================
