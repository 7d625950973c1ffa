------------------------------- MODULE Socks5Ops -------------------------------
(****************************************************************************)
(* The handlers of src/src/socket/proxy_socket_socks5.c, as operators on    *)
(* the world of a connection (ProxySocketOps).  `client` is the script of   *)
(* the peer: its greeting and its request.                                  *)
(****************************************************************************)
EXTENDS ProxySocketOps

(* __notify_error: on_error runs, AfterNotify is the rest.                  *)
NotifyError(w, err) == CallUser([w EXCEPT !.ps.error = err], "on_error")

BugCloseTwice(w) == Done(ProxyClose(ProxyClose(w)))

(* The default case of the address types closes once more.                  *)
AfterNotify(w) ==
    IF w.ps.error = "EUNKNOWNADDRTYPE"
      THEN Done(ProxyClose(ProxyClose(w)))
      ELSE Done(ProxyClose(w))

WriteSocket(w) == [w EXCEPT !.tcp = TcpWrite(@, "queued")]
-----------------------------------------------------------------------------
(* __socket_read_handle.                                                    *)

BugReplyWhileReading(w) ==
    Done(WriteSocket([w EXCEPT !.ps.write_buf = w.ps.read_buf,
                               !.ps.read_buf = NULL]))

(* The reply is built in the buffer of the greeting.                        *)
GreetingAccepted(w) ==
    Done(WriteSocket([w EXCEPT !.ps.write_buf = w.ps.read_buf,
                               !.ps.read_buf = NULL,
                               !.tcp = TcpReadStop(@)]))

BugKeepReading(w) == CallUser(ReleaseRead(w), "on_session")

(* read_buf keeps pointing at the buffer that is given back.                *)
RequestAccepted(w) ==
    CallUser([BufFree(w, w.ps.read_buf) EXCEPT !.tcp = TcpReadStop(@)],
             "on_session")

BugUncounted(w) == [w EXCEPT !.ps.session.live = @ + 1]

(* The address of the request is copied to malloc'ed memory.                *)
AddressKept(w) ==
    IF w.ps.addr_type = 1
      THEN [w EXCEPT !.ps.session.in_len = 1, !.ps.session.live = @ + 1]
      ELSE [w EXCEPT !.ps.session.in6_len = 1, !.ps.session.live = @ + 1]

GreetingHandle(w, g) ==
    LET verdict == GreetingVerdict(g, w.ps.read_pos)
    IN  CASE verdict = "wait" -> Done(w)
          [] verdict = "ok"   -> GreetingAccepted(w)
          [] verdict \in Socks5Error -> NotifyError(w, verdict)

(* The host name is copied to session->host, which is NULL unless the user  *)
(* has put a buffer there.                                                  *)
RequestHandle(w, r, malloc) ==
    LET host    == w.ps.session.host
        verdict == RequestVerdict(r, w.ps.read_pos)
        typed   == IF w.ps.read_pos >= 8 /\ r.ver = 5 /\ r.cmd = 1
                     THEN [w EXCEPT !.ps.addr_type = r.atyp] ELSE w
    IN  CASE verdict = "wait" -> Done(typed)
          [] verdict \in Socks5Error -> NotifyError(typed, verdict)
          [] verdict = "ok" /\ r.atyp = 3 /\ ~host -> Crash(typed, "host")
          [] verdict = "ok" /\ r.atyp = 3 /\ host  -> RequestAccepted(typed)
          [] verdict = "ok" /\ r.atyp # 3 /\ ~malloc ->
                 NotifyError(typed, "ENOMEM")
          [] verdict = "ok" /\ r.atyp # 3 /\ malloc ->
                 RequestAccepted(AddressKept(typed))

ReadHandle(w, client, malloc) ==
    CASE w.ps.read_status = PS5RVERSION -> GreetingHandle(w, client.greeting)
      [] w.ps.read_status = PS5RREQUEST -> RequestHandle(w, client.request, malloc)
      [] w.ps.read_status = PS5RFORWARDING ->
             CallUser([w EXCEPT !.tcp = TcpReadStop(@)], "on_read")
-----------------------------------------------------------------------------
(* __socket_write_handle.  write_buf keeps pointing at the buffer that is   *)
(* given back.                                                              *)
WriteHandle(w) ==
    LET freed == BufFree(w, w.ps.write_buf)
        next  == CASE w.ps.write_status = PS5WVERSION ->
                          [freed EXCEPT !.ps.read_status = PS5RREQUEST]
                   [] w.ps.write_status = PS5WRESPONSE ->
                          [freed EXCEPT !.ps.read_status = PS5RFORWARDING,
                                        !.ps.write_status = PS5WFORWARDING]
                   [] w.ps.write_status = PS5WFORWARDING -> freed
    IN  Done([next EXCEPT !.tcp = TcpReadStart(@)])

(* __socket_forward_handle.  The first assertion assigns PS5WVERSION, which *)
(* is 0, and so always fails.                                               *)
ForwardHandle(w, calloc) ==
    LET b   == OfferedBuf(w.pool, calloc)
        got == [w EXCEPT !.ps.write_status = PS5WRESPONSE,
                         !.ps.write_buf = b,
                         !.pool = MemoryPoolGetBuf(@, calloc)]
    IN  IF ~NDEBUG THEN Crash(w, "write_status")
        ELSE IF b = NULL THEN NotifyError(got, "ENOMEM")
        ELSE WriteSocket(got)
-----------------------------------------------------------------------------
(* What the proxy socket does with the callback that tcp_socket.c makes.    *)
Dispatch(w, nread, client, malloc) ==
    CASE w.tcp.frame = "loop"         -> w
      [] w.tcp.frame = "on_read"      ->
             ProxyReadCb(w, nread, ReadHandle(w, client, malloc))
      [] w.tcp.frame = "on_EOF"       -> ProxyReadCb(w, "eof", w)
      [] w.tcp.frame = "on_read_err"  -> ProxyReadCb(w, "gerr", w)
      [] w.tcp.frame = "on_write"     -> ProxyWriteCb(w, FALSE, WriteHandle(w))
      [] w.tcp.frame = "on_write_err" -> ProxyWriteCb(w, TRUE, w)
      [] w.tcp.frame = "on_shutdown"  -> ProxyShutdownCb(w)
      [] w.tcp.frame = "on_error"     -> ProxyErrorCb(w)
      [] w.tcp.frame = "on_close"     -> ProxyCloseCb(w)
================================================================================
