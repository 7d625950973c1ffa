--------------------------------- MODULE Socks5 ---------------------------------
(****************************************************************************)
(* Accepted SOCKS5 connections that share one buffer pool: the handlers of  *)
(* Socks5Ops, the peers, the user and the event loop.                       *)
(*                                                                          *)
(* A peer sends its greeting, its request and then anything, in pieces of   *)
(* any of the sizes Chunk.  The user starts forwarding once, after          *)
(* on_session; sends back what on_read gives it; shuts down or closes when  *)
(* it likes, but does nothing in on_error, where the socket "will be closed *)
(* automatically" (tcp_socket.h:80).                                        *)
(****************************************************************************)
EXTENDS Socks5Ops

CONSTANTS Conn,      \* the connections
          Script,    \* what a peer may say: [greeting, request, host]
          Chunk      \* how many bytes may arrive at once

ASSUME ScriptAssumption ==
    /\ Script \subseteq [greeting : Greeting, request : Request, host : BOOLEAN]
    /\ Chunk \subseteq Nat \ {0}

VARIABLES tcp,       \* tcp[c]: the ne_tcp_socket_t
          ps,        \* ps[c]: the ne_proxy_socket_socks5_t
          pool,      \* the ne_memory_pool_t they share
          client,    \* client[c]: the script of the peer of c
          stage      \* stage[c]: what the user knows of c

vars == <<tcp, ps, pool, client, stage>>

World(c) == [tcp |-> tcp[c], ps |-> ps[c], pool |-> pool]

(* A callback that c is told moves the user on.                             *)
Told(c, w) == /\ w.ps.frame # ps[c].frame
              /\ w.ps.frame \in {"on_session", "on_read"}

Becomes(c, w, s) ==
    /\ tcp'   = [tcp EXCEPT ![c] = w.tcp]
    /\ ps'    = [ps EXCEPT ![c] = w.ps]
    /\ pool'  = w.pool
    /\ stage' = [stage EXCEPT ![c] = IF Told(c, w) THEN w.ps.frame ELSE s]
    /\ UNCHANGED client

Running == \A c \in Conn : tcp[c].fault = "none" /\ ps[c].fault = "none"
Idle    == \A c \in Conn : tcp[c].frame = "loop" /\ ps[c].frame = "none"
InLoop  == Running /\ Idle

UserTurn(c) == /\ Running
               /\ tcp[c].status \in CONNECTED .. SHUT_DOWN
               /\ ps[c].frame \notin {"on_error", "on_tcp_error"}

Init == /\ tcp    = [c \in Conn |-> FreshSocket]
        /\ ps     = [c \in Conn |-> FreshProxy]
        /\ pool   = BuiltPool
        /\ client \in [Conn -> Script]
        /\ stage  = [c \in Conn |-> "new"]
-----------------------------------------------------------------------------
(* The user.                                                                *)
StartForwarding(c, calloc) ==
    /\ UserTurn(c)
    /\ stage[c] = "on_session"
    /\ Becomes(c, ForwardHandle(World(c), calloc), "forwarding")

(* As the greeting is answered: in the buffer that was read.                *)
Echo(c) ==
    /\ UserTurn(c)
    /\ stage[c] = "on_read"
    /\ tcp[c].status = CONNECTED
    /\ Becomes(c, WriteSocket([World(c) EXCEPT !.ps.write_buf = ps[c].read_buf,
                                               !.ps.read_buf = NULL]),
               "forwarding")

Shutdown(c) ==
    /\ UserTurn(c)
    /\ stage[c] \in {"forwarding", "on_read"}
    /\ tcp[c].status = CONNECTED
    /\ Becomes(c, ProxyShutdown(World(c)), stage[c])

Close(c) ==
    /\ UserTurn(c)
    /\ Becomes(c, ProxyClose(World(c)), stage[c])

(* The user's callback returns; what is left of the handler runs.  In       *)
(* on_close the user frees the session.                                     *)
Return(c) ==
    /\ Running
    /\ ps[c].frame # "none"
    /\ LET w == World(c)
           back == [w EXCEPT !.ps.frame = "none"]
       IN  Becomes(c, CASE ps[c].frame = "on_error" -> AfterNotify(w)
                        [] ps[c].frame = "on_EOF"   -> AfterEOF(w)
                        [] ps[c].frame = "on_tcp_error" ->
                               Dispatch([back EXCEPT !.tcp = AfterError(@)],
                                        "gerr", client[c], TRUE)
                        [] ps[c].frame = "on_close" ->
                               Done([w EXCEPT !.ps.session = SessionFree(@)])
                        [] OTHER -> Done(w),
                   stage[c])
-----------------------------------------------------------------------------
(* The event loop.                                                          *)

(* connection_cb accepts a connection in memory that is new or was freed by *)
(* on_close; the user's on_connection initialises its session and its proxy *)
(* socket and starts it, as open_socks5 of the test does.  Any client may   *)
(* be the next.                                                             *)
Accept(c) ==
    /\ InLoop
    /\ tcp[c].status \in {INVALID, CLOSED}
    /\ \E who \in Script :
          LET w == Done(ProxyStart([World(c) EXCEPT
                       !.tcp = Accepted(FreshSocket),
                       !.ps  = [FreshProxy EXCEPT !.session = NewSession(who.host)]]))
          IN  /\ tcp'    = [tcp EXCEPT ![c] = w.tcp]
              /\ ps'     = [ps EXCEPT ![c] = w.ps]
              /\ client' = [client EXCEPT ![c] = who]
              /\ stage'  = [stage EXCEPT ![c] = "handshake"]
              /\ UNCHANGED pool

CanRead(c) == InLoop /\ tcp[c].polling

ReadData(c, k, malloc) ==
    /\ CanRead(c)
    /\ LET w == AllocCb(World(c), TRUE)
       IN  /\ w.ps.fault = "none"
           /\ k <= Room(w)
           /\ Becomes(c, Dispatch([w EXCEPT !.tcp = ReadCb(@, "ok"),
                                            !.ps.read_pos = @ + k],
                                  "data", client[c], malloc), stage[c])

ReadFails(c, status) ==
    /\ CanRead(c)
    /\ LET w == AllocCb(World(c), TRUE)
       IN  /\ w.ps.fault = "none"
           /\ Room(w) > 0
           /\ Becomes(c, Dispatch([w EXCEPT !.tcp = ReadCb(@, status)],
                                  "error", client[c], TRUE), stage[c])

(* No room is left: libuv reports UV_ENOBUFS and goes on polling.           *)
ReadFull(c) ==
    /\ CanRead(c)
    /\ LET w == AllocCb(World(c), TRUE)
       IN  /\ w.ps.fault = "none"
           /\ Room(w) = 0
           /\ Becomes(c, Dispatch([w EXCEPT
                             !.tcp = [ReadCb(@, "refused") EXCEPT !.polling = TRUE]],
                             "error", client[c], TRUE), stage[c])

ReadNoBuffer(c) ==
    /\ CanRead(c)
    /\ LET w == AllocCb(World(c), FALSE)
       IN  /\ w.ps.fault # "none"
           /\ Becomes(c, w, stage[c])

(* uv_write tries at once, so a write may settle before the handler or the  *)
(* callback that started it returns.                                        *)
WriteSettles(c, status) ==
    /\ Running
    /\ tcp[c].write = "queued"
    /\ tcp[c].tcp = "open"
    /\ tcp' = [tcp EXCEPT ![c].write = status]
    /\ UNCHANGED <<ps, pool, client, stage>>

Calls(c, s) ==
    /\ InLoop
    /\ Becomes(c, Dispatch([World(c) EXCEPT !.tcp = s], "gerr", client[c], TRUE),
               stage[c])

WriteDone(c) ==
    /\ tcp[c].write # "none"
    /\ tcp[c].tcp = "open" => tcp[c].write # "queued"
    /\ Calls(c, WriteCb(tcp[c]))

ShutdownDone(c, status) ==
    /\ tcp[c].shutdown
    /\ tcp[c].write = "none"
    /\ IF tcp[c].tcp = "open" THEN status \in Outcome ELSE status = "canceled"
    /\ Calls(c, ShutdownCb(tcp[c], status))

TimerDue(c) ==
    /\ Running
    /\ tcp[c].timer = "running"
    /\ tcp' = [tcp EXCEPT ![c].timer = "due"]
    /\ UNCHANGED <<ps, pool, client, stage>>

TimedOut(c) == /\ tcp[c].timer = "due"
               /\ Calls(c, TimeoutCb(tcp[c]))

TimerClosed(c) == /\ tcp[c].timer = "closing"
                  /\ Calls(c, TimerCloseCb(tcp[c]))

TcpClosed(c) == /\ tcp[c].tcp = "closing"
                /\ tcp[c].write = "none"
                /\ ~tcp[c].shutdown
                /\ Calls(c, SocketCloseCb(tcp[c]))

(* Every connection has come and gone, or the process has aborted.          *)
Rest == /\ ~Running \/ (Idle /\ \A c \in Conn : tcp[c].status = CLOSED)
        /\ UNCHANGED vars

User(c) == \/ Echo(c) \/ Shutdown(c) \/ Close(c) \/ Return(c)
           \/ \E calloc \in BOOLEAN : StartForwarding(c, calloc)

Requests(c) == \/ WriteDone(c)
               \/ \E status \in UvStatus : ShutdownDone(c, status)

Loop(c) == \/ Accept(c) \/ ReadFull(c) \/ ReadNoBuffer(c) \/ Requests(c)
           \/ TimerDue(c) \/ TimedOut(c) \/ TimerClosed(c) \/ TcpClosed(c)
           \/ \E k \in Chunk, malloc \in BOOLEAN : ReadData(c, k, malloc)
           \/ \E status \in {"eof", "reset", "refused"} : ReadFails(c, status)
           \/ \E status \in Outcome : WriteSettles(c, status)

Next == \/ Rest
        \/ \E c \in Conn : User(c) \/ Loop(c)

Spec == Init /\ [][Next]_vars

(* As for one socket (TcpSocket): callbacks return, time passes, the timers *)
(* that are due run, libuv answers what is cancelled and closes handles.    *)
(* After a read that filled the buffer libuv asks for another at once.      *)
Fairness ==
    \A c \in Conn :
        /\ WF_vars(Return(c))
        /\ WF_vars(ReadFull(c))
        /\ WF_vars(TimerDue(c))
        /\ SF_vars(TimedOut(c))
        /\ SF_vars(tcp[c].tcp # "open" /\ Requests(c))
        /\ SF_vars(TimerClosed(c))
        /\ SF_vars(TcpClosed(c))

FairSpec == Spec /\ Fairness
-----------------------------------------------------------------------------
(* Every variable has its type.                                             *)
TypeOK == /\ tcp \in [Conn -> SocketType]
          /\ ps \in [Conn -> ProxyType]
          /\ pool \in PoolType
          /\ client \in [Conn -> Script]
          /\ stage \in [Conn -> {"new", "handshake", "on_session", "forwarding",
                                 "on_read"}]

(* A session is earned by a greeting and a request that the client has sent *)
(* whole, however they were cut into pieces and whatever went on between    *)
(* them.  The handler leaves the state PS5RVERSION when it has answered the *)
(* greeting: then it has read an acceptable one and no byte more or less.   *)
(* on_session comes only after that, for a request it supports and has read *)
(* to the length the layout gives it, with one exception: of an IPv6        *)
(* request it has read the two bytes more that line 142 waits for.          *)
RequestRead(r) == RequestLength(r) + (IF r.atyp = 4 THEN 2 ELSE 0)

SessionEarned ==
    [][\A c \in Conn :
        /\ ps[c].read_status = PS5RVERSION /\ ps'[c].read_status # PS5RVERSION
             => /\ WellFormed(client[c].greeting)
                /\ ps'[c].read_pos = GreetingLength(client[c].greeting)
        /\ ps[c].frame # "on_session" /\ ps'[c].frame = "on_session"
             => /\ ps'[c].read_status = PS5RREQUEST
                /\ Supported(client[c].request)
                /\ ps'[c].read_pos = RequestRead(client[c].request)]_vars

(* A client is refused for what it sent: a greeting or a request that is    *)
(* not supported or longer than it says, or a greeting that came in pieces; *)
(* or because memory ran out.                                               *)
RefusalDeserved ==
    \A c \in Conn : ps[c].frame = "on_error" =>
        \/ ps[c].error = "ENOMEM"
        \/ ps[c].read_status = PS5RVERSION /\
             \/ ~WellFormed(client[c].greeting)
             \/ ps[c].read_pos < GreetingLength(client[c].greeting)
        \/ ps[c].read_status = PS5RREQUEST /\
             \/ ~Supported(client[c].request)
             \/ ps[c].read_pos > RequestLength(client[c].request)

(* Reads and writes alternate: while a reply or data is on its way out,     *)
(* nothing is read, so that no handler can start a second write with the    *)
(* one write_req or take the buffer that is being written.                  *)
NoReadWhileWriting ==
    \A c \in Conn : tcp[c].write # "none" => ~tcp[c].polling

(* No buffer stays behind: one that is flagged as lent is pointed at by a   *)
(* connection, which gives it back when it closes, so that the pool can be  *)
(* freed when all connections are closed.                                   *)
LentIsHeld ==
    Running => \A b \in Buf :
        (IF b \in Block THEN pool.used[b] ELSE b \in pool.heap)
          => \E c \in Conn : b \in {ps[c].read_buf, ps[c].write_buf}

(* Nothing that was allocated for a session is left when its connection is  *)
(* over, and nothing is freed twice: whatever happened in between, the      *)
(* lengths that ne_session_free goes by count the addresses there are.      *)
SessionFreed ==
    \A c \in Conn : tcp[c].status = CLOSED /\ ps[c].frame = "none"
        => ps[c].session.live = 0

(* uv_close is called twice only for a request of an unknown address type,  *)
(* whatever errors, timeouts and calls of the user meet.                    *)
ClosedOnce ==
    \A c \in Conn : tcp[c].fault = "uv_close"
        => ps[c].error = "EUNKNOWNADDRTYPE"

(* Callbacks come in the order that ProxyPromise describes: at most one     *)
(* session, data only when forwarding and one piece at a time, nothing but  *)
(* on_close after an error or a close, and that when no write is left.      *)
LifeOf(c) ==
    CASE ~Running                                           -> "crashed"
      [] Running /\ tcp[c].status \in {INVALID, CLOSED}     -> "idle"
      [] Running /\ tcp[c].status = CLOSING                 -> "closing"
      [] Running /\ tcp[c].status \in CONNECTED .. SHUT_DOWN ->
             IF ps[c].frame \in {"on_error", "on_tcp_error"} THEN "failed"
             ELSE CASE stage[c] = "on_session" -> "session"
                    [] stage[c] = "on_read"    -> "data"
                    [] OTHER                   -> stage[c]

SaysOf(c) == CASE ~Running -> "none"
               [] Running /\ ps[c].frame = "on_tcp_error" -> "on_error"
               [] OTHER -> ps[c].frame

Promise == INSTANCE ProxyPromise WITH
    life <- [c \in Conn |-> LifeOf(c)],
    says <- [c \in Conn |-> SaysOf(c)],
    owed <- [c \in Conn |-> Running /\ tcp[c].write # "none"]

PromiseSpec == Promise!Spec

(* A handshake ends: whatever a peer sends or leaves out, its connection    *)
(* comes to a session or is closed.                                         *)
HandshakeEnds ==
    \A c \in Conn : stage[c] = "handshake" ~>
        stage[c] # "handshake" \/ tcp[c].status = CLOSED \/ ~Running
(* A connection that is closing is closed: libuv answers what is left, and  *)
(* nothing that these answers set off takes the connection back.            *)
CloseCompletes ==
    \A c \in Conn : tcp[c].status = CLOSING ~> tcp[c].status = CLOSED \/ ~Running

(* A write ends, and with it the claim on its buffer, also when the peer    *)
(* takes nothing: no read resets the timer as long as a write is on its way.*)
WriteEnds ==
    \A c \in Conn : tcp[c].write # "none" ~> tcp[c].write = "none" \/ ~Running
-----------------------------------------------------------------------------
(* What the code says and does not do.                                      *)

(* "NEASSERT(socket->status <= SHUT_DOWN)" (tcp_socket.c:236): reading is   *)
(* never started on a socket that is closing.                               *)
NoReadOnClosing == \A c \in Conn : tcp[c].fault # "read_start"

(* "NEASSERT(psock->write_status = PS5WVERSION)" (proxy_socket_socks5.c:199)*)
(* : forwarding starts in the state that the greeting has left.             *)
ForwardingStarts == \A c \in Conn : ps[c].fault # "write_status"

(* "ASSERT(!ne_memory_pool_free(pool))" (test_memory_pool.c:37, :49): a     *)
(* pool whose buffers are in use is not freed; so a buffer that libuv reads *)
(* into or writes from is flagged as lent.                                  *)
InUse(c) == {b \in {ps[c].read_buf} : tcp[c].polling}
              \cup {b \in {ps[c].write_buf} : tcp[c].write # "none"}

BufferInUseIsLent ==
    Running => \A c \in Conn : \A b \in InUse(c) \cap Block : pool.used[b]

(* "VER | CMD | RSV | ATYP | DST.ADDR | DST.PORT" (proxy_socket_socks5.c:77)*)
(* : a request that the handler is done with has that layout, and its port  *)
(* was read where the layout has it, in the last two bytes.                 *)
RequestHasLayout ==
    \A c \in Conn : ps[c].frame = "on_session"
        => /\ ps[c].read_pos = RequestLength(client[c].request)
           /\ PortAt(client[c].request) + 2 = RequestLength(client[c].request)
================================================================================
