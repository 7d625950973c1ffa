---------------------------- MODULE ProxySocketOps -----------------------------
(****************************************************************************)
(* src/src/socket/proxy_socket.c over tcp_socket.c and memory_pool.c.  The  *)
(* functions are operators on a world w of one connection: w.tcp its        *)
(* ne_tcp_socket_t, w.ps its ne_proxy_socket_t, and w.pool the pool that it *)
(* shares with other connections.                                           *)
(*                                                                          *)
(* read_buf and write_buf are pointers: they name a buffer whether or not   *)
(* the buffer is still theirs.  ps.frame is the callback of the user of the *)
(* proxy socket that is running; w.tcp.frame is what it runs under.         *)
(****************************************************************************)
EXTENDS MemoryPoolOps, TcpSocketOps, Socks5Messages

CONSTANT BlockSize      \* bytes in a buffer

ASSUME BlockAssumption == BlockSize \in Nat \ {0}

ProxyFrame == {"none", "on_session", "on_read", "on_error", "on_tcp_error",
               "on_EOF", "on_shutdown", "on_close"}

(* What stops the process in this layer: free() of a heap buffer that was   *)
(* freed, no buffer for libuv to read into, the assertion of the forward    *)
(* handler, a copy to a host name that is NULL.                             *)
ProxyFault == {"none", "double_free", "no_buffer", "write_status", "host"}

(* enum ne_proxy_socket_socks5_read_status and ..._write_status.            *)
PS5RVERSION    == 0
PS5RREQUEST    == 1
PS5RFORWARDING == 2
PS5WVERSION    == 0
PS5WRESPONSE   == 1
PS5WFORWARDING == 2

(* The ne_session_t of the user that psock->session points to: whether host *)
(* points to memory, how many addresses there are, and how much of what was *)
(* malloc'ed for it is still allocated.                                     *)
SessionType == [host : BOOLEAN, in_len : 0 .. 1, in6_len : 0 .. 1, live : 0 .. 2]

(* ne_session_init; the user may then give it memory for the name of a host.*)
NewSession(host) == [host |-> host, in_len |-> 0, in6_len |-> 0,
                     live |-> IF host THEN 1 ELSE 0]

(* ne_session_free leaves the fields as they are.                           *)
SessionFree(s) ==
    [s EXCEPT !.live = @ - s.in_len - s.in6_len - (IF s.host THEN 1 ELSE 0)]

ProxyType ==
    [read_buf     : Buf \cup {NULL},
     write_buf    : Buf \cup {NULL},
     read_pos     : 0 .. BlockSize,
     read_status  : PS5RVERSION .. PS5RFORWARDING,
     write_status : PS5WVERSION .. PS5WFORWARDING,
     addr_type    : Byte,
     session      : SessionType,
     frame        : ProxyFrame,
     error        : Socks5Error \cup {"none"},   \* the argument of on_error
     fault        : ProxyFault]

(* ne_proxy_socket_init.                                                    *)
FreshProxy ==
    [read_buf |-> NULL, write_buf |-> NULL, read_pos |-> 0,
     read_status |-> PS5RVERSION, write_status |-> PS5WVERSION,
     addr_type |-> 0, session |-> NewSession(FALSE), frame |-> "none", error |-> "none", fault |-> "none"]

CallUser(w, callback) == [w EXCEPT !.ps.frame = callback]
Done(w)               == [w EXCEPT !.ps.frame = "none", !.tcp = Leave(@)]
Crash(w, why)         == [w EXCEPT !.ps.fault = why]
-----------------------------------------------------------------------------
(* ne_memory_buf_free from this layer.  Nothing notices that a block of the *)
(* pool is free already; a heap buffer that is freed twice is caught by     *)
(* free().                                                                  *)
BufFree(w, b) ==
    IF b \in HeapBuf \ w.pool.heap
      THEN Crash(w, "double_free")
      ELSE [w EXCEPT !.pool = MemoryBufFree(@, b)]

BugForgetBuffer(w) == [w EXCEPT !.ps.read_buf = NULL]

ReleaseRead(w) ==
    IF w.ps.read_buf = NULL THEN w
    ELSE [BufFree(w, w.ps.read_buf) EXCEPT !.ps.read_buf = NULL]

ReleaseWrite(w) ==
    IF w.ps.write_buf = NULL THEN w
    ELSE [BufFree(w, w.ps.write_buf) EXCEPT !.ps.write_buf = NULL]

(* __socket_alloc_cb.  reserve_read is never set by the library.            *)
AllocCb(w, calloc) ==
    IF w.ps.read_buf # NULL THEN w
    ELSE IF OfferedBuf(w.pool, calloc) = NULL THEN Crash(w, "no_buffer")
    ELSE [w EXCEPT !.ps.read_buf = OfferedBuf(w.pool, calloc),
                   !.ps.read_pos = 0,
                   !.pool = MemoryPoolGetBuf(@, calloc)]

BugRoom(w) == BlockSize

Room(w) == BlockSize - w.ps.read_pos
-----------------------------------------------------------------------------
(* The callbacks that proxy_socket.c installs in the TCP socket.            *)
ProxyCloseCb(w)    == CallUser(ReleaseWrite(ReleaseRead(w)), "on_close")
ProxyShutdownCb(w) == CallUser(ReleaseWrite(w), "on_shutdown")
ProxyErrorCb(w)    == CallUser(w, "on_tcp_error")

(* nread > 0 is "data": on_raw_read has done `handled`.  The codes of libuv *)
(* that are passed on ("error") are neither NE_TCP_EOF nor NE_GERR.         *)
ProxyReadCb(w, nread, handled) ==
    CASE nread = "data"  -> handled
      [] nread = "eof"   -> CallUser(w, "on_EOF")
      [] nread = "gerr"  -> Done(ReleaseRead(w))
      [] nread = "error" -> Done(w)

(* The case of NE_TCP_EOF falls through when on_EOF returns.                *)
AfterEOF(w) == Done(ReleaseRead(w))

ProxyWriteCb(w, error, handled) == IF error THEN Done(w) ELSE handled
-----------------------------------------------------------------------------
ProxyStart(w)    == [w EXCEPT !.tcp = TcpReadStart(@)]
ProxyClose(w)    == [w EXCEPT !.tcp = TcpClose(@)]
ProxyShutdown(w) == [w EXCEPT !.tcp = TcpShutdown(@)]
================================================================================
