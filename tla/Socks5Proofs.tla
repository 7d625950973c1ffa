----------------------------- MODULE Socks5Proofs ------------------------------
(****************************************************************************)
(* Every step of Socks5 keeps its invariant and is a step of ProxyPromise:  *)
(* first for the connection that takes the step, action by action, then for *)
(* the whole, all connections and the pool they share.  At the end the      *)
(* theorems: the invariant Inv, the properties that follow from it, and that *)
(* Socks5 implements ProxyPromise.                                          *)
(****************************************************************************)
EXTENDS Socks5Lemmas

USE DEF INVALID, CONNECTING, CONNECTED, SHUTTING_DOWN, SHUT_DOWN, CLOSING,
        CLOSED, PS5RVERSION, PS5RREQUEST, PS5RFORWARDING, PS5WVERSION,
        PS5WRESPONSE, PS5WFORWARDING
-----------------------------------------------------------------------------
(* Reading: __socket_alloc_cb, the read callback and what it calls.         *)
LEMMA AllocPrepared ==
    ASSUME NEW w, NEW st, NEW cl, LoopTurn(w, st, cl), w.tcp.polling,
           NEW calloc \in BOOLEAN
    PROVE  LET v == AllocCb(w, calloc)
           IN  \/ /\ Prepared(w, v, st, cl) /\ LoopTurn(v, st, cl)
                  /\ v.tcp = w.tcp /\ v.ps.read_buf # NULL
                  /\ v.ps.fault = "none"
               \/ v.ps.fault # "none" /\ LoopStep(w, st, v, cl)
<1> DEFINE v == AllocCb(w, calloc)
<1>1. /\ w \in WorldType /\ SoundPool(w.pool) /\ ConnInv(w.tcp, w.ps, st, cl)
      /\ SoundSocket(w.tcp) /\ w.ps.frame = "none" /\ w.ps.fault = "none"
      /\ w.tcp.fault = "none" /\ w.ps \in ProxyType
  BY DEF LoopTurn, Sound, ConnInv, Fine
<1>2. CASE w.ps.read_buf # NULL
  <2>1. v = w
    BY <1>2 DEF AllocCb
  <2>2. Prepared(w, w, st, cl)
    BY DEF Prepared, LoopTurn, Keeps
  <2>3. QED
    BY <1>1, <1>2, <2>1, <2>2
<1>3. CASE w.ps.read_buf = NULL /\ OfferedBuf(w.pool, calloc) = NULL
  <2>1. v = Crash(w, "no_buffer") /\ "no_buffer" \in ProxyFault \ {"none"}
    BY <1>3 DEF AllocCb, ProxyFault
  <2>2. v.ps.fault = "no_buffer"
    BY <1>1, <2>1, CrashFields
  <2>3. QED
    BY <2>1, <2>2, Dies
<1>4. CASE w.ps.read_buf = NULL /\ OfferedBuf(w.pool, calloc) # NULL
  <2> DEFINE b == OfferedBuf(w.pool, calloc)
             q == MemoryPoolGetBuf(w.pool, calloc)
             p == [w.ps EXCEPT !.read_buf = b, !.read_pos = 0]
  <2>1. b \in Buf /\ SoundPool(q) /\ Taken(q) = Taken(w.pool) \cup {b} /\ q \in PoolType
    BY <1>1, <1>4, SoundGet DEF SoundPool
  <2>2. v = [w EXCEPT !.ps = p, !.pool = q]
    <3>1. v = [w EXCEPT !.ps.read_buf = b, !.ps.read_pos = 0,
                        !.pool = MemoryPoolGetBuf(@, calloc)]
      BY <1>4 DEF AllocCb
    <3> HIDE DEF b, v
    <3>2. QED
      BY <1>1, <3>1 DEF WorldType
  <2> HIDE DEF b, q
  <2>3. /\ p \in ProxyType /\ p.read_buf = b /\ p.read_pos = 0
        /\ p.write_buf = w.ps.write_buf /\ p.read_status = w.ps.read_status
        /\ p.write_status = w.ps.write_status /\ p.session = w.ps.session
        /\ p.frame = "none" /\ p.error = w.ps.error /\ p.fault = "none"
    <3> DEFINE r == [w.ps EXCEPT !.read_buf = b]
    <3>1. /\ r \in ProxyType /\ SameHandshake(w.ps, r) /\ r.read_buf = b
          /\ r.frame = "none" /\ r.fault = "none" /\ r.write_buf = w.ps.write_buf
      BY <1>1, <2>1, PutReadBuf
    <3>2. p = [r EXCEPT !.read_pos = 0] /\ 0 \in 0 .. BlockSize
      BY BlockAssumption
    <3> HIDE DEF r, p
    <3>3. QED
      BY <3>1, <3>2 DEF ProxyType, SameHandshake
  <2> HIDE DEF p, v
  <2>4. v \in WorldType /\ v.tcp = w.tcp /\ v.pool = q /\ v.ps = p
    BY <1>1, <2>1, <2>2, <2>3 DEF WorldType
  <2>5. NULL \notin Buf /\ w.tcp.status \notin {INVALID, CLOSED}
    BY <1>1, SoundOpen, PoolAssumption
  <2>6. ConnInv(v.tcp, v.ps, st, cl)
    <3>1. BuffersAgree(v.tcp, v.ps, st)
      BY <1>1, <2>1, <2>3, <2>4, <2>5 DEF ConnInv, BuffersAgree
    <3>2. Alternates(v.tcp, st)
      BY <1>1, <2>1, <2>3, <2>4, <2>5 DEF ConnInv, Alternates
    <3>3. StagesAgree(v.tcp, v.ps, st)
      BY <1>1, <2>1, <2>3, <2>4, <2>5 DEF ConnInv, StagesAgree
    <3>4. GreetingPassed(v.tcp, v.ps, st, cl)
      BY <1>1, <2>1, <2>3, <2>4, <2>5 DEF ConnInv, Alternates,
         GreetingPassed
    <3>5. Deserved(v.ps, cl)
      BY <1>1, <2>1, <2>3, <2>4, <2>5 DEF ConnInv, Deserved
    <3>6. SessionAgrees(v.tcp, v.ps, st)
      BY <1>1, <2>1, <2>3, <2>4, <2>5 DEF ConnInv, SessionAgrees
    <3>7. FramesAgree(v.tcp, v.ps, st)
      BY <1>1, <2>1, <2>3, <2>4, <2>5 DEF ConnInv, FramesAgree
    <3>8. OneClose(v.tcp, v.ps)
      BY <1>1, <2>1, <2>3, <2>4, <2>5 DEF ConnInv, OneClose
    <3>9. QED
      BY <1>1, <2>1, <2>3, <2>4, <2>5, <3>1, <3>2, <3>3, <3>4, <3>5, <3>6,
         <3>7, <3>8 DEF ConnInv, WorldType, Stage
  <2>7. Keeps(w, v)
    <3>1. NULL \notin Taken(w.pool)
      BY <2>5 DEF Taken
    <3>2. QED
      BY <1>1, <1>4, <2>1, <2>3, <2>4, <3>1 DEF Keeps, Owned
  <2>8. Life(v.tcp, v.ps, st) = Life(w.tcp, w.ps, st) /\ v.ps.fault = "none"
    BY <1>1, <2>3, <2>4 DEF Life
  <2>9. Sound(v, st, cl) /\ Fine(v) /\ v.ps.frame = "none"
    BY <1>1, <2>1, <2>3, <2>4, <2>6 DEF Sound, Fine
  <2>10. Prepared(w, v, st, cl) /\ LoopTurn(v, st, cl)
    BY <1>1, <2>3, <2>4, <2>7, <2>8, <2>9 DEF Prepared, LoopTurn
  <2>11. QED
    BY <2>1, <2>3, <2>4, <2>5, <2>8, <2>10 DEF v
<1>5. QED
  BY <1>2, <1>3, <1>4

(* The world in which the read handler runs.                                *)
LEMMA ReadPrepared ==
    ASSUME NEW v, NEW st, NEW cl, LoopTurn(v, st, cl), v.tcp.polling,
           v.ps.read_buf # NULL,
           NEW t, SoundSocket(t), t.status = v.tcp.status,
           t.polling => v.tcp.polling,
           t.write = v.tcp.write, t.shutdown = v.tcp.shutdown, t.fault = "none",
           NEW n \in 0 .. BlockSize,
           NEW u, u = [v EXCEPT !.tcp = t, !.ps.read_pos = n]
    PROVE  /\ u \in WorldType /\ u.tcp = t /\ u.ps.frame = "none"
           /\ Prepared(v, u, st, cl) /\ Reading(u, st, cl)
<1> DEFINE p == [v.ps EXCEPT !.read_pos = n]
<1>1. /\ v \in WorldType /\ SoundPool(v.pool) /\ ConnInv(v.tcp, v.ps, st, cl)
      /\ SoundSocket(v.tcp) /\ v.ps.frame = "none" /\ v.ps.fault = "none"
      /\ v.tcp.fault = "none" /\ v.ps \in ProxyType /\ t \in SocketType
      /\ Open(v.tcp) /\ v.tcp.status \notin {INVALID, CLOSING, CLOSED}
      /\ ~(v.tcp.status >= CLOSING)
  BY SoundOpen DEF LoopTurn, Sound, ConnInv, Fine, SoundSocket
<1>2. /\ p \in ProxyType /\ p.frame = "none" /\ p.fault = "none"
      /\ p.read_buf = v.ps.read_buf /\ p.write_buf = v.ps.write_buf
      /\ p.read_status = v.ps.read_status /\ p.write_status = v.ps.write_status
      /\ p.session = v.ps.session /\ p.error = v.ps.error
  BY <1>1 DEF ProxyType
<1>3. u = [v EXCEPT !.tcp = t, !.ps = p]
  BY <1>1 DEF WorldType
<1> HIDE DEF p
<1>4. u \in WorldType /\ u.tcp = t /\ u.ps = p /\ u.pool = v.pool
  BY <1>1, <1>2, <1>3 DEF WorldType
<1>5. /\ st \in {"handshake", "forwarding"} /\ v.tcp.write = "none"
      /\ st = "forwarding" => /\ v.ps.read_status = PS5RFORWARDING
                              /\ v.ps.write_status = PS5WFORWARDING
  BY <1>1 DEF ConnInv, Stage, Alternates, StagesAgree
<1>6. ConnInv(u.tcp, u.ps, st, cl)
  BY <1>1, <1>2, <1>4, <1>5 DEF ConnInv, BuffersAgree, Alternates, StagesAgree,
     GreetingPassed, Deserved, SessionAgrees, FramesAgree, OneClose
<1>7. Sound(u, st, cl) /\ Fine(u)
  BY <1>1, <1>2, <1>4, <1>6 DEF Sound, Fine
<1>8. Keeps(v, u) /\ Life(u.tcp, u.ps, st) = Life(v.tcp, v.ps, st)
  BY <1>1, <1>2, <1>4 DEF Keeps, Owned, Life
<1>9. Prepared(v, u, st, cl)
  BY <1>1, <1>2, <1>4, <1>7, <1>8 DEF Prepared, Owes
<1>10. Reading(u, st, cl)
  BY <1>1, <1>2, <1>4, <1>5, <1>7 DEF Reading, LoopTurn, Open
<1>11. QED
  BY <1>2, <1>4, <1>9, <1>10

(* What the proxy socket makes of each callback of the socket.              *)
LEMMA DispatchedData ==
    ASSUME NEW w, NEW cl, NEW malloc, w.tcp.frame = "on_read"
    PROVE  Dispatch(w, "data", cl, malloc) = ReadHandle(w, cl, malloc)
  BY DEF Dispatch, ProxyReadCb

(* The callback that each frame of tcp_socket.c leads to.                   *)
LEMMA Dispatched ==
    ASSUME NEW w, NEW nread, NEW cl
    PROVE  LET x == Dispatch(w, nread, cl, TRUE)
           IN  /\ w.tcp.frame = "loop" => x = w
               /\ w.tcp.frame = "on_read" /\ nread = "error" => x = Done(w)
               /\ w.tcp.frame = "on_EOF" => x = CallUser(w, "on_EOF")
               /\ w.tcp.frame = "on_read_err" => x = Done(ReleaseRead(w))
               /\ w.tcp.frame = "on_write" => x = WriteHandle(w)
               /\ w.tcp.frame = "on_write_err" => x = Done(w)
               /\ w.tcp.frame = "on_shutdown"
                    => x = CallUser(ReleaseWrite(w), "on_shutdown")
               /\ w.tcp.frame = "on_error" => x = CallUser(w, "on_tcp_error")
               /\ w.tcp.frame = "on_close"
                    => x = CallUser(ReleaseWrite(ReleaseRead(w)), "on_close")
  BY DEF Dispatch, ProxyReadCb, ProxyWriteCb, ProxyShutdownCb, ProxyErrorCb,
     ProxyCloseCb

(* Data arrives, in a buffer that there was or that is taken now.           *)
LEMMA ReadDataStep ==
    ASSUME NEW w, NEW st, NEW cl, LoopTurn(w, st, cl), w.tcp.polling,
           NEW k \in Nat, NEW malloc \in BOOLEAN,
           AllocCb(w, TRUE).ps.fault = "none", k <= Room(AllocCb(w, TRUE))
    PROVE  LoopStep(w, st,
               Dispatch([AllocCb(w, TRUE) EXCEPT !.tcp = ReadCb(@, "ok"),
                                                 !.ps.read_pos = @ + k],
                        "data", cl, malloc), cl)
<1> DEFINE v == AllocCb(w, TRUE)
           t == ReadCb(v.tcp, "ok")
           n == v.ps.read_pos + k
           u == [v EXCEPT !.tcp = t, !.ps.read_pos = n]
<1>1. Prepared(w, v, st, cl) /\ LoopTurn(v, st, cl) /\ v.ps.read_buf # NULL
  BY AllocPrepared
<1>2. v.tcp.polling /\ v \in WorldType /\ v.ps \in ProxyType
  BY AllocPrepared, <1>1 DEF LoopTurn, Sound, WorldType
<1>a. k <= BlockSize - v.ps.read_pos
  BY DEF Room
<1> HIDE DEF v
<1>3. n \in 0 .. BlockSize
  BY <1>2, <1>a, ProxyFields, BlockAssumption
<1>4. /\ SoundSocket(t) /\ t.status = v.tcp.status /\ t.polling
      /\ t.write = v.tcp.write /\ t.shutdown = v.tcp.shutdown
      /\ t.fault = "none" /\ t.frame = "on_read"
  <2>1. SoundSocket(v.tcp) /\ v.tcp.fault = "none"
    BY <1>1 DEF LoopTurn, Sound, ConnInv, Fine
  <2>2. QED
    BY <1>2, <2>1, SoundReadCb
<1>5. [v EXCEPT !.tcp = ReadCb(@, "ok"), !.ps.read_pos = @ + k] = u
  BY <1>2 DEF WorldType
<1> HIDE DEF t, n
<1>b. u = [v EXCEPT !.tcp = t, !.ps.read_pos = n]
  OBVIOUS
<1> HIDE DEF u
<1>6. u.tcp = t /\ Prepared(v, u, st, cl) /\ Reading(u, st, cl)
  <2>1. LoopTurn(v, st, cl) /\ v.tcp.polling /\ v.ps.read_buf # NULL
    BY <1>1, <1>2
  <2>2. /\ SoundSocket(t) /\ t.status = v.tcp.status
        /\ t.polling => v.tcp.polling
        /\ t.write = v.tcp.write /\ t.shutdown = v.tcp.shutdown
        /\ t.fault = "none"
    BY <1>2, <1>4
  <2>3. Prepared(v, u, st, cl) /\ Reading(u, st, cl)
    BY <2>1, <2>2, <1>3, <1>b, ReadPrepared
  <2>4. u.tcp = t
    BY <1>2, <1>b DEF WorldType
  <2>5. QED
    BY <2>3, <2>4
<1>7. Dispatch(u, "data", cl, malloc) = ReadHandle(u, cl, malloc)
  BY <1>4, <1>6, DispatchedData
<1>8. LoopStep(u, st, ReadHandle(u, cl, malloc), cl)
  BY <1>6, ReadStep
<1>9. LoopStep(w, st, Dispatch(u, "data", cl, malloc), cl)
  <2>1. LoopStep(v, st, Dispatch(u, "data", cl, malloc), cl)
    BY <1>6, <1>7, <1>8, PreparedStep
  <2>2. QED
    BY <1>1, <2>1, PreparedStep
<1>10. QED
  BY <1>5, <1>9 DEF v

(* The read ends or fails.  In a build without assertions an error that     *)
(* handle_error does not know is passed on to a handler that ignores it.    *)
LEMMA ReadFailsStep ==
    ASSUME NEW w, NEW st, NEW cl, LoopTurn(w, st, cl), w.tcp.polling,
           w.tcp.frame = "loop", NEW status \in {"eof", "reset", "refused"},
           AllocCb(w, TRUE).ps.fault = "none"
    PROVE  LoopStep(w, st,
               Dispatch([AllocCb(w, TRUE) EXCEPT !.tcp = ReadCb(@, status)],
                        "error", cl, TRUE), cl)
<1> DEFINE v == AllocCb(w, TRUE)
           t == ReadCb(v.tcp, status)
           u == [v EXCEPT !.tcp = t]
           x == Dispatch(u, "error", cl, TRUE)
<1>1. /\ Prepared(w, v, st, cl) /\ LoopTurn(v, st, cl) /\ v.ps.read_buf # NULL
      /\ v.tcp = w.tcp
  BY AllocPrepared
<1>2. v.tcp.polling /\ v \in WorldType /\ v.ps \in ProxyType /\ Open(v.tcp)
  BY <1>1, SoundOpen DEF LoopTurn, Sound, WorldType, ConnInv
<1> HIDE DEF v
<1>3. /\ SoundSocket(t) /\ t.status = v.tcp.status
      /\ t.write = v.tcp.write /\ t.shutdown = v.tcp.shutdown /\ ~t.polling
      /\ \/ t.fault = "none" /\ status = "eof" /\ t.frame = "on_EOF"
         \/ t.fault = "none" /\ status = "reset" /\ t.frame = "on_error"
         \/ t.fault = "none" /\ status = "refused" /\ t.frame = "on_read"
         \/ t.fault = "refused" /\ status = "refused" /\ t.frame = "loop"
      /\ t \in SocketType
  <2>1. SoundSocket(v.tcp) /\ v.tcp.fault = "none" /\ v.tcp.frame = "loop"
    BY <1>1 DEF LoopTurn, Sound, ConnInv, Fine
  <2>2. SoundSocket(t) => t \in SocketType
    BY DEF SoundSocket
  <2>3. CASE status = "eof"
    BY <1>2, <2>1, <2>2, <2>3, SoundReadCb
  <2>4. CASE status = "reset"
    BY <1>2, <2>1, <2>2, <2>4, SoundReadCb
  <2>5. CASE status = "refused"
    BY <1>2, <2>1, <2>2, <2>5, SoundReadCb
  <2>6. QED
    BY <2>3, <2>4, <2>5
<1> HIDE DEF t
<1>4. /\ u \in WorldType /\ u.tcp = t /\ u.pool = v.pool /\ u.ps = v.ps
      /\ u.ps.frame = "none"
  BY <1>1, <1>2, <1>3, PutTcp DEF LoopTurn
<1>5. SUFFICES LoopStep(v, st, x, cl)
  BY <1>1, PreparedStep DEF v, t
<1>6. CASE t.fault = "none" /\ t.frame = "on_EOF"
  <2> DEFINE n == v.ps.read_pos
             y == [v EXCEPT !.tcp = t, !.ps.read_pos = n]
  <2>1. n \in 0 .. BlockSize
    BY <1>2 DEF ProxyType
  <2>2. y = u
    BY <1>2 DEF WorldType, ProxyType
  <2> HIDE DEF n
  <2>a. y = [v EXCEPT !.tcp = t, !.ps.read_pos = n]
    OBVIOUS
  <2> HIDE DEF u, y
  <2>3. Prepared(v, y, st, cl) /\ Reading(y, st, cl)
    BY <1>1, <1>2, <1>3, <1>6, <2>1, <2>a, ReadPrepared
  <2>4. LoopStep(u, st, CallUser(u, "on_EOF"), cl)
    BY <2>2, <2>3, TellsEOF
  <2>5. x = CallUser(u, "on_EOF")
    BY <1>4, <1>6, Dispatched
  <2>6. QED
    BY <2>2, <2>3, <2>4, <2>5, PreparedStep
<1> HIDE DEF u
<1>7. CASE t.fault = "none" /\ t.frame = "on_error"
  <2>1. x = CallUser(u, "on_tcp_error") /\ "on_tcp_error" \in ProxyFrame
    BY <1>4, <1>7, Dispatched DEF ProxyFrame
  <2> HIDE DEF x
  <2>2. /\ x \in WorldType /\ x.tcp = t /\ x.pool = v.pool
        /\ SameHandshake(v.ps, x.ps) /\ x.ps.frame = "on_tcp_error"
        /\ x.ps.fault = v.ps.fault /\ x.ps.read_buf = v.ps.read_buf
        /\ x.ps.write_buf = v.ps.write_buf
    BY <1>4, <2>1, CallUserFields
  <2>3. QED
    BY <1>1, <1>2, <1>3, <1>7, <2>2, Fails
<1>8. CASE t.fault = "none" /\ t.frame = "on_read"
  <2>1. x = Done(u)
    BY <1>4, <1>8, Dispatched
  <2> HIDE DEF x
  <2>2. /\ x \in WorldType /\ x.pool = v.pool
        /\ SoundSocket(x.tcp) /\ SameButFrame(t, x.tcp)
        /\ SameHandshake(v.ps, x.ps) /\ x.ps.frame = "none"
        /\ x.ps.fault = v.ps.fault /\ x.ps.read_buf = v.ps.read_buf
        /\ x.ps.write_buf = v.ps.write_buf
    BY <1>3, <1>4, <2>1, DoneFields
  <2>3. /\ x.tcp.status = v.tcp.status /\ ~x.tcp.polling
        /\ x.tcp.write = v.tcp.write /\ x.tcp.shutdown = v.tcp.shutdown
        /\ x.tcp.fault = "none"
    BY <1>3, <1>8, <2>2 DEF SameButFrame
  <2>4. QED
    BY <1>1, <2>2, <2>3, Untold
<1>9. CASE t.fault = "refused" /\ t.frame = "loop"
  <2>1. x = u
    BY <1>4, <1>9, Dispatched
  <2>2. QED
    BY <1>1, <1>3, <1>4, <1>9, <2>1, Untold DEF SameHandshake
<1>10. QED
  BY <1>3, <1>6, <1>7, <1>8, <1>9

(* No room is left in the buffer.                                           *)
LEMMA ReadFullStep ==
    ASSUME NEW w, NEW st, NEW cl, LoopTurn(w, st, cl), w.tcp.polling,
           w.tcp.frame = "loop", AllocCb(w, TRUE).ps.fault = "none"
    PROVE  LoopStep(w, st,
               Dispatch([AllocCb(w, TRUE) EXCEPT
                            !.tcp = [ReadCb(@, "refused") EXCEPT !.polling = TRUE]],
                        "error", cl, TRUE), cl)
<1> DEFINE v == AllocCb(w, TRUE)
           r == ReadCb(v.tcp, "refused")
           t == [r EXCEPT !.polling = TRUE]
           u == [v EXCEPT !.tcp = t]
           x == Dispatch(u, "error", cl, TRUE)
<1>1. /\ Prepared(w, v, st, cl) /\ LoopTurn(v, st, cl) /\ v.tcp = w.tcp
  BY AllocPrepared
<1>2. v.tcp.polling /\ v \in WorldType /\ Open(v.tcp) /\ SoundSocket(v.tcp)
      /\ v.tcp.fault = "none"
  BY <1>1, SoundOpen DEF LoopTurn, Sound, WorldType, ConnInv, Fine
<1> HIDE DEF v
<1>3. /\ SoundSocket(t) /\ t.status = v.tcp.status
      /\ t.write = v.tcp.write /\ t.shutdown = v.tcp.shutdown
      /\ \/ t.fault = "none" /\ t.frame = "on_read"
         \/ t.fault = "refused" /\ t.frame = "loop"
      /\ t \in SocketType
  <2>1. /\ SoundSocket(r) /\ r.status = v.tcp.status
        /\ r.write = v.tcp.write /\ r.shutdown = v.tcp.shutdown
        /\ \/ r.fault = "none" /\ r.frame = "on_read"
           \/ r.fault = "refused" /\ r.frame = "loop"
    BY <1>1, <1>2, SoundReadCb
  <2> HIDE DEF r
  <2>2. Open(r)
    BY <1>2, <2>1 DEF Open
  <2>3. QED
    BY <2>1, <2>2, SoundPolling DEF SoundSocket
<1> HIDE DEF t
<1>4. /\ u \in WorldType /\ u.tcp = t /\ u.pool = v.pool /\ u.ps = v.ps
      /\ u.ps.frame = "none"
  BY <1>1, <1>2, <1>3, PutTcp DEF LoopTurn
<1>5. SUFFICES LoopStep(v, st, x, cl)
  BY <1>1, PreparedStep DEF v, t
<1> HIDE DEF u
<1>6. CASE t.fault = "none" /\ t.frame = "on_read"
  <2>1. x = Done(u)
    BY <1>4, <1>6, Dispatched
  <2> HIDE DEF x
  <2>2. /\ x \in WorldType /\ x.pool = v.pool
        /\ SoundSocket(x.tcp) /\ SameButFrame(t, x.tcp)
        /\ SameHandshake(v.ps, x.ps) /\ x.ps.frame = "none"
        /\ x.ps.fault = v.ps.fault /\ x.ps.read_buf = v.ps.read_buf
        /\ x.ps.write_buf = v.ps.write_buf
    BY <1>3, <1>4, <2>1, DoneFields
  <2>3. /\ x.tcp.status = v.tcp.status /\ x.tcp.write = v.tcp.write
        /\ x.tcp.shutdown = v.tcp.shutdown /\ x.tcp.fault = "none"
    BY <1>3, <1>6, <2>2 DEF SameButFrame
  <2>4. QED
    BY <1>1, <1>2, <2>2, <2>3, Untold
<1>7. CASE t.fault = "refused" /\ t.frame = "loop"
  <2>1. x = u
    BY <1>4, <1>7, Dispatched
  <2>2. QED
    BY <1>1, <1>2, <1>3, <1>4, <1>7, <2>1, Untold DEF SameHandshake
<1>8. QED
  BY <1>3, <1>6, <1>7
-----------------------------------------------------------------------------
(* The other callbacks of libuv: t is what the socket makes of it, u the    *)
(* world in which the proxy socket is called.                               *)

(* The proxy socket is not called, or ignores the call.                     *)
LEMMA QuietCall ==
    ASSUME NEW w, NEW st, NEW cl, LoopTurn(w, st, cl),
           NEW t, SoundSocket(t), t.frame \in {"loop", "on_write_err"},
           t.status = w.tcp.status,
           t.polling => w.tcp.polling, t.write \in {"none", w.tcp.write},
           t.shutdown => w.tcp.shutdown, t.fault # "uv_close",
           t.fault = "none" /\ t.write # w.tcp.write => w.tcp.status = CLOSING,
           NEW u \in WorldType, u.tcp = t, u.pool = w.pool, u.ps = w.ps
    PROVE  LoopStep(w, st, Dispatch(u, "gerr", cl, TRUE), cl)
<1> DEFINE x == Dispatch(u, "gerr", cl, TRUE)
<1>1. /\ w \in WorldType /\ w.ps.frame = "none" /\ w.ps.fault = "none"
      /\ t \in SocketType
  BY DEF LoopTurn, Sound, Fine, SoundSocket
<1>3. CASE t.frame = "loop"
  <2>1. x = u
    BY <1>3, Dispatched
  <2>2. QED
    BY <1>1, <2>1, Untold DEF SameHandshake, Fine
<1>4. CASE t.frame = "on_write_err"
  <2>1. x = Done(u)
    BY <1>4, Dispatched
  <2> HIDE DEF x
  <2>2. /\ x \in WorldType /\ x.pool = w.pool
        /\ SoundSocket(x.tcp) /\ SameButFrame(t, x.tcp)
        /\ SameHandshake(w.ps, x.ps) /\ x.ps.frame = "none"
        /\ x.ps.fault = w.ps.fault /\ x.ps.read_buf = w.ps.read_buf
        /\ x.ps.write_buf = w.ps.write_buf
    BY <1>1, <2>1, DoneFields
  <2>3. /\ x.tcp.status = w.tcp.status
        /\ x.tcp.polling => w.tcp.polling
        /\ x.tcp.write \in {"none", w.tcp.write}
        /\ x.tcp.shutdown => w.tcp.shutdown
        /\ x.tcp.fault # "uv_close"
        /\ Fine(x) /\ x.tcp.write # w.tcp.write => w.tcp.status = CLOSING
    BY <2>2 DEF SameButFrame, Fine
  <2>4. LoopStep(w, st, x, cl)
    BY <2>2, <2>3, Untold
  <2>5. QED
    BY <2>4 DEF x
<1>5. QED
  BY <1>3, <1>4

(* on_error is called.                                                      *)
LEMMA FailCall ==
    ASSUME NEW w, NEW st, NEW cl, LoopTurn(w, st, cl), Open(w.tcp),
           NEW t, SoundSocket(t), t.frame = "on_error",
           t.status = w.tcp.status,
           t.polling => w.tcp.polling, t.write \in {"none", w.tcp.write},
           t.shutdown => w.tcp.shutdown, t.fault = "none",
           NEW u \in WorldType, u.tcp = t, u.pool = w.pool, u.ps = w.ps
    PROVE  LoopStep(w, st, Dispatch(u, "gerr", cl, TRUE), cl)
<1> DEFINE x == Dispatch(u, "gerr", cl, TRUE)
<1>3. x = CallUser(u, "on_tcp_error") /\ "on_tcp_error" \in ProxyFrame
  BY Dispatched DEF ProxyFrame
<1> HIDE DEF x
<1>4. /\ x \in WorldType /\ x.tcp = t /\ x.pool = w.pool
      /\ SameHandshake(w.ps, x.ps) /\ x.ps.frame = "on_tcp_error"
      /\ x.ps.fault = w.ps.fault /\ x.ps.read_buf = w.ps.read_buf
      /\ x.ps.write_buf = w.ps.write_buf
  BY <1>3, CallUserFields
<1>5. QED
  BY <1>4, Fails DEF x

(* The write handler: the buffer is given back and reading goes on.         *)
LEMMA Answers ==
    ASSUME NEW w, NEW st, NEW cl, LoopTurn(w, st, cl), w.tcp.write # "none",
           NEW t, SoundSocket(t), t.status = w.tcp.status,
           t.polling = w.tcp.polling, t.write = "none",
           t.shutdown = w.tcp.shutdown, t.fault = "none",
           NEW u \in WorldType, u.tcp = t, u.pool = w.pool, u.ps = w.ps
    PROVE  LoopStep(w, st, WriteHandle(u), cl)
<1> DEFINE x == WriteHandle(u)
           b == u.ps.write_buf
           f == BufFree(u, b)
           n == CASE u.ps.write_status = PS5WVERSION ->
                          [f EXCEPT !.ps.read_status = PS5RREQUEST]
                  [] u.ps.write_status = PS5WRESPONSE ->
                          [f EXCEPT !.ps.read_status = PS5RFORWARDING,
                                    !.ps.write_status = PS5WFORWARDING]
                  [] u.ps.write_status = PS5WFORWARDING -> f
           s == TcpReadStart(t)
           v == [n EXCEPT !.tcp = TcpReadStart(@)]
<1>1. /\ w \in WorldType /\ SoundPool(w.pool) /\ ConnInv(w.tcp, w.ps, st, cl)
      /\ SoundSocket(w.tcp) /\ w.ps.frame = "none" /\ w.ps.fault = "none"
      /\ w.tcp.status \notin {INVALID, CLOSED} /\ ~w.tcp.polling
      /\ t \in SocketType /\ b \in Buf
  <2>1. /\ w \in WorldType /\ SoundPool(w.pool) /\ ConnInv(w.tcp, w.ps, st, cl)
        /\ SoundSocket(w.tcp) /\ w.ps.frame = "none" /\ w.ps.fault = "none"
        /\ t \in SocketType
    BY DEF LoopTurn, Sound, ConnInv, Fine, SoundSocket
  <2>2. b \in Buf \cup {NULL} /\ b # NULL /\ ~w.tcp.polling
    BY <2>1, ProxyFields DEF WorldType, ConnInv, BuffersAgree, Alternates
  <2>3. w.tcp.status \notin {INVALID, CLOSED}
    BY <2>1 DEF SoundSocket
  <2>4. QED
    BY <2>1, <2>2, <2>3
<1>5. x = Done(v)
  BY DEF WriteHandle
<1>2. b = w.ps.write_buf
  OBVIOUS
<1> HIDE DEF b
<1>3. /\ f \in WorldType /\ f.tcp = t /\ SoundPool(f.pool)
      /\ SameHandshake(w.ps, f.ps) /\ f.ps.frame = "none"
      /\ f.ps.read_buf = w.ps.read_buf /\ f.ps.write_buf = b
      /\ \/ f.ps.fault = "none" /\ Taken(f.pool) = Taken(w.pool) \ {b}
         \/ f.ps.fault = "double_free"
  <2>1. SoundPool(u.pool) /\ b \in Buf
    BY <1>1
  <2>2. /\ f \in WorldType /\ f.tcp = u.tcp /\ SoundPool(f.pool)
        /\ SameHandshake(u.ps, f.ps) /\ f.ps.frame = u.ps.frame
        /\ f.ps.read_buf = u.ps.read_buf /\ f.ps.write_buf = u.ps.write_buf
        /\ \/ f.ps.fault = u.ps.fault /\ Taken(f.pool) = Taken(u.pool) \ {b}
           \/ f.ps.fault = "double_free"
    BY <2>1, BufFreeFields
  <2> HIDE DEF f
  <2>3. QED
    BY <1>1, <1>2, <2>2
<1>4. /\ SoundSocket(s) /\ s.status = w.tcp.status /\ s.write = "none"
      /\ s.shutdown = w.tcp.shutdown /\ s \in SocketType
      /\ s.fault \in {"none", "read_start"}
  BY <1>1, SoundStart DEF SoundSocket
<1>6. /\ st \in {"handshake", "forwarding"}
      /\ st = "handshake" => w.ps.write_status = PS5WVERSION
      /\ st = "forwarding" =>
           \/ w.ps.write_status = PS5WRESPONSE
           \/ /\ w.ps.write_status = PS5WFORWARDING
              /\ w.ps.read_status = PS5RFORWARDING
  BY <1>1 DEF ConnInv, Stage, Alternates, StagesAgree
<1> HIDE DEF s
<1>7. /\ n \in WorldType /\ n.tcp = t /\ n.pool = f.pool
      /\ n.ps.read_pos = w.ps.read_pos /\ n.ps.session = w.ps.session
      /\ n.ps.error = w.ps.error /\ n.ps.frame = "none"
      /\ n.ps.fault = f.ps.fault /\ n.ps.read_buf = w.ps.read_buf
      /\ n.ps.write_buf = b
      /\ st = "handshake" =>
           n.ps.read_status = PS5RREQUEST /\ n.ps.write_status = PS5WVERSION
      /\ st = "forwarding" => /\ n.ps.read_status = PS5RFORWARDING
                              /\ n.ps.write_status = PS5WFORWARDING
  <2>1. f.ps \in ProxyType
    BY <1>3 DEF WorldType
  <2>2. CASE w.ps.write_status = PS5WVERSION
    <3> DEFINE q == [f.ps EXCEPT !.read_status = PS5RREQUEST]
    <3>1. n = [f EXCEPT !.ps = q]
      BY <2>2
    <3>2. /\ q \in ProxyType /\ q.read_pos = f.ps.read_pos
          /\ q.session = f.ps.session /\ q.error = f.ps.error
          /\ q.frame = f.ps.frame /\ q.fault = f.ps.fault
          /\ q.read_buf = f.ps.read_buf /\ q.write_buf = f.ps.write_buf
          /\ q.read_status = PS5RREQUEST /\ q.write_status = f.ps.write_status
      BY <2>1 DEF ProxyType
    <3> HIDE DEF q, f, n
    <3>3. n \in WorldType /\ n.tcp = t /\ n.pool = f.pool /\ n.ps = q
      BY <1>3, <3>1, <3>2 DEF WorldType
    <3>4. QED
      BY <1>3, <1>6, <2>2, <3>2, <3>3 DEF SameHandshake
  <2>3. CASE w.ps.write_status = PS5WRESPONSE
    <3> DEFINE r == [f.ps EXCEPT !.read_status = PS5RFORWARDING]
               q == [r EXCEPT !.write_status = PS5WFORWARDING]
    <3>1. n = [f EXCEPT !.ps = q]
      <4>1. n = [f EXCEPT !.ps.read_status = PS5RFORWARDING,
                          !.ps.write_status = PS5WFORWARDING]
        BY <2>3
      <4> HIDE DEF n, f
      <4>2. QED
        BY <1>3, <4>1 DEF WorldType
    <3> HIDE DEF f, n
    <3>2. /\ r \in ProxyType /\ r.read_pos = f.ps.read_pos
          /\ r.session = f.ps.session /\ r.error = f.ps.error
          /\ r.frame = f.ps.frame /\ r.fault = f.ps.fault
          /\ r.read_buf = f.ps.read_buf /\ r.write_buf = f.ps.write_buf
          /\ r.read_status = PS5RFORWARDING
      BY <2>1 DEF ProxyType
    <3> HIDE DEF r
    <3>3. /\ q \in ProxyType /\ q.read_pos = r.read_pos
          /\ q.session = r.session /\ q.error = r.error
          /\ q.frame = r.frame /\ q.fault = r.fault
          /\ q.read_buf = r.read_buf /\ q.write_buf = r.write_buf
          /\ q.read_status = r.read_status /\ q.write_status = PS5WFORWARDING
      BY <3>2 DEF ProxyType
    <3> HIDE DEF q
    <3>4. n \in WorldType /\ n.tcp = t /\ n.pool = f.pool /\ n.ps = q
      BY <1>3, <3>1, <3>3 DEF WorldType
    <3>5. QED
      BY <1>3, <1>6, <2>3, <3>2, <3>3, <3>4 DEF SameHandshake
  <2>4. CASE w.ps.write_status = PS5WFORWARDING
    <3>1. n = f
      BY <2>4
    <3> HIDE DEF n, f
    <3>2. QED
      BY <1>3, <1>6, <2>4, <3>1 DEF SameHandshake
  <2>5. QED
    BY <1>6, <2>2, <2>3, <2>4
<1> HIDE DEF f, n
<1>a. v = [n EXCEPT !.tcp = s]
  BY <1>7 DEF s
<1> HIDE DEF v, x
<1>8. v \in WorldType /\ v.tcp = s /\ v.pool = f.pool /\ v.ps = n.ps
  BY <1>4, <1>7, <1>a, PutTcp
<1>9. /\ x \in WorldType /\ x.pool = f.pool /\ SoundSocket(x.tcp)
      /\ x.tcp.status = w.tcp.status /\ x.tcp.write = "none"
      /\ x.tcp.shutdown = w.tcp.shutdown
      /\ x.tcp.fault \in {"none", "read_start"}
      /\ SameHandshake(n.ps, x.ps) /\ x.ps.frame = "none"
      /\ x.ps.fault = f.ps.fault /\ x.ps.read_buf = w.ps.read_buf
      /\ x.ps.write_buf = b
  BY <1>4, <1>5, <1>7, <1>8, DoneFields DEF SameButFrame
<1>10. NextStage(w.ps, x.ps, st) = st
  BY <1>9 DEF NextStage
<1>11. ConnInv(x.tcp, x.ps, st, cl)
  <2>1. BuffersAgree(x.tcp, x.ps, st)
    BY <1>1, <1>6, <1>7, <1>9 DEF ConnInv, SameHandshake, BuffersAgree
  <2>2. Alternates(x.tcp, st)
    BY <1>1, <1>6, <1>7, <1>9 DEF ConnInv, SameHandshake, Alternates
  <2>3. StagesAgree(x.tcp, x.ps, st)
    BY <1>1, <1>6, <1>7, <1>9 DEF ConnInv, SameHandshake, StagesAgree
  <2>4. GreetingPassed(x.tcp, x.ps, st, cl)
    BY <1>1, <1>6, <1>7, <1>9 DEF ConnInv, SameHandshake, GreetingPassed
  <2>5. Deserved(x.ps, cl)
    BY <1>1, <1>6, <1>7, <1>9 DEF ConnInv, SameHandshake, Deserved
  <2>6. SessionAgrees(x.tcp, x.ps, st)
    BY <1>1, <1>6, <1>7, <1>9 DEF ConnInv, SameHandshake, SessionAgrees
  <2>7. FramesAgree(x.tcp, x.ps, st)
    BY <1>1, <1>6, <1>7, <1>9 DEF ConnInv, SameHandshake, FramesAgree
  <2>8. OneClose(x.tcp, x.ps)
    BY <1>1, <1>6, <1>7, <1>9 DEF ConnInv, SameHandshake, OneClose
  <2>9. QED
    BY <1>1, <1>6, <1>7, <1>9, <2>1, <2>2, <2>3, <2>4, <2>5, <2>6, <2>7, <2>8
       DEF ConnInv, WorldType, Stage
<1>12. Keeps(w, x)
  BY <1>1, <1>2, <1>3, <1>9 DEF Keeps, Fine, Owned
<1>13. /\ Life(x.tcp, x.ps, st) = Life(w.tcp, w.ps, st) /\ Says(x.ps) = "none"
       /\ Owes(w.tcp) /\ ~Owes(x.tcp)
  BY <1>1, <1>9 DEF Life, Says, Owes
<1>p. Passes(w.ps, x.ps, cl)
  BY <1>1, <1>7, <1>9 DEF ConnInv, SameHandshake, GreetingPassed,
     Passes
<1>14. QED
  BY <1>3, <1>9, <1>10, <1>11, <1>12, <1>13, <1>p DEF x, LoopStep, Sound, LoopMove

(* The shutdown is over: a write_buf that was given back is given back once *)
(* more.                                                                    *)
LEMMA ShutdownCall ==
    ASSUME NEW w, NEW st, NEW cl, LoopTurn(w, st, cl), Open(w.tcp),
           w.tcp.write = "none", w.tcp.shutdown,
           NEW t, SoundSocket(t), t.frame = "on_shutdown", Open(t),
           t.polling = w.tcp.polling, t.write = "none", ~t.shutdown,
           t.fault = "none",
           NEW u \in WorldType, u.tcp = t, u.pool = w.pool, u.ps = w.ps
    PROVE  LoopStep(w, st, Dispatch(u, "gerr", cl, TRUE), cl)
<1> DEFINE x == Dispatch(u, "gerr", cl, TRUE)
           r == ReleaseWrite(u)
<1>1. /\ w \in WorldType /\ SoundPool(w.pool) /\ ConnInv(w.tcp, w.ps, st, cl)
      /\ SoundSocket(w.tcp) /\ w.ps.frame = "none" /\ w.ps.fault = "none"
      /\ w.tcp.status \notin {INVALID, CLOSING, CLOSED}
      /\ ~(w.tcp.status >= CLOSING)
      /\ t.status \notin {INVALID, CLOSING, CLOSED} /\ ~(t.status >= CLOSING)
  BY SoundOpen DEF LoopTurn, Sound, ConnInv, Fine
<1>2. x = CallUser(r, "on_shutdown") /\ "on_shutdown" \in ProxyFrame
  BY Dispatched DEF ProxyFrame
<1> HIDE DEF x
<1>3. /\ r \in WorldType /\ r.tcp = u.tcp /\ SoundPool(r.pool)
      /\ SameHandshake(u.ps, r.ps) /\ r.ps.frame = u.ps.frame
      /\ r.ps.read_buf = u.ps.read_buf
      /\ \/ /\ r.ps.fault = u.ps.fault
            /\ Taken(r.pool) = Taken(u.pool) \ {u.ps.write_buf}
         \/ r.ps.fault = "double_free"
  BY <1>1, ReleaseWriteFields
<1> HIDE DEF r
<1>4. /\ x \in WorldType /\ x.tcp = t /\ SoundPool(x.pool)
      /\ SameHandshake(w.ps, x.ps) /\ x.ps.frame = "on_shutdown"
      /\ x.ps.read_buf = w.ps.read_buf
      /\ \/ /\ x.ps.fault = "none"
            /\ Taken(x.pool) = Taken(w.pool) \ {w.ps.write_buf}
         \/ x.ps.fault = "double_free"
  BY <1>1, <1>2, <1>3, CallUserFields DEF SameHandshake
<1>5. st \in {"forwarding", "on_read"}
  BY <1>1 DEF ConnInv, StagesAgree
<1>6. NextStage(w.ps, x.ps, st) = st
  BY <1>4 DEF NextStage
<1>7. ConnInv(x.tcp, x.ps, st, cl)
  <2>1. BuffersAgree(x.tcp, x.ps, st)
    BY <1>1, <1>4, <1>5 DEF ConnInv, SameHandshake, Open, BuffersAgree
  <2>2. Alternates(x.tcp, st)
    BY <1>1, <1>4, <1>5 DEF ConnInv, SameHandshake, Open, Alternates
  <2>3. StagesAgree(x.tcp, x.ps, st)
    BY <1>1, <1>4, <1>5 DEF ConnInv, SameHandshake, Open, StagesAgree
  <2>4. GreetingPassed(x.tcp, x.ps, st, cl)
    BY <1>1, <1>4, <1>5 DEF ConnInv, SameHandshake, Open, GreetingPassed
  <2>5. Deserved(x.ps, cl)
    BY <1>1, <1>4, <1>5 DEF ConnInv, SameHandshake, Open, Deserved
  <2>6. SessionAgrees(x.tcp, x.ps, st)
    BY <1>1, <1>4, <1>5 DEF ConnInv, SameHandshake, Open, SessionAgrees
  <2>7. FramesAgree(x.tcp, x.ps, st)
    BY <1>1, <1>4, <1>5 DEF ConnInv, SameHandshake, Open, FramesAgree
  <2>8. OneClose(x.tcp, x.ps)
    BY <1>1, <1>4, <1>5 DEF ConnInv, SameHandshake, Open, OneClose
  <2>9. QED
    BY <1>1, <1>4, <1>5, <2>1, <2>2, <2>3, <2>4, <2>5, <2>6, <2>7, <2>8 DEF
       ConnInv, WorldType, Stage
<1>8. Keeps(w, x)
  BY <1>1, <1>4 DEF Keeps, Fine, Owned
<1>9. /\ Life(w.tcp, w.ps, st) \in {"forwarding", "data"} /\ ~Owes(w.tcp)
      /\ Life(x.tcp, x.ps, st) = Life(w.tcp, w.ps, st)
      /\ Says(x.ps) = "on_shutdown" /\ ~Owes(x.tcp)
  BY <1>1, <1>4, <1>5 DEF Life, Says, Owes
<1>p. Passes(w.ps, x.ps, cl)
  BY <1>4 DEF SameHandshake, Passes
<1>10. LoopStep(w, st, x, cl)
  BY <1>1, <1>4, <1>6, <1>7, <1>8, <1>9, <1>p DEF LoopStep, Sound, LoopMove
<1>11. QED
  BY <1>10 DEF x

(* Both handles are closed: the buffers are given back.                     *)
LEMMA CloseCall ==
    ASSUME NEW w, NEW st, NEW cl, LoopTurn(w, st, cl), w.tcp.status = CLOSING,
           w.tcp.write = "none",
           NEW t, SoundSocket(t), t.frame = "on_close", t.status = CLOSED,
           ~t.polling, t.write = "none", ~t.shutdown, t.fault = "none",
           NEW u \in WorldType, u.tcp = t, u.pool = w.pool, u.ps = w.ps
    PROVE  LoopStep(w, st, Dispatch(u, "gerr", cl, TRUE), cl)
<1> DEFINE x == Dispatch(u, "gerr", cl, TRUE)
           r == ReleaseRead(u)
           v == ReleaseWrite(r)
<1>1. /\ w \in WorldType /\ SoundPool(w.pool) /\ ConnInv(w.tcp, w.ps, st, cl)
      /\ SoundSocket(w.tcp) /\ w.ps.frame = "none" /\ w.ps.fault = "none"
      /\ w.tcp.status >= CLOSING
  BY SoundOpen DEF LoopTurn, Sound, ConnInv, Fine
<1>2. x = CallUser(v, "on_close") /\ "on_close" \in ProxyFrame
  BY Dispatched DEF ProxyFrame
<1> HIDE DEF x
<1>3. /\ r \in WorldType /\ r.tcp = u.tcp /\ SoundPool(r.pool)
      /\ SameHandshake(u.ps, r.ps) /\ r.ps.frame = u.ps.frame
      /\ r.ps.read_buf = NULL /\ r.ps.write_buf = u.ps.write_buf
      /\ \/ /\ r.ps.fault = u.ps.fault
            /\ Taken(r.pool) = Taken(u.pool) \ {u.ps.read_buf}
         \/ r.ps.fault = "double_free"
  BY <1>1, ReleaseReadFields
<1> HIDE DEF r
<1>4. /\ v \in WorldType /\ v.tcp = r.tcp /\ SoundPool(v.pool)
      /\ SameHandshake(r.ps, v.ps) /\ v.ps.frame = r.ps.frame
      /\ v.ps.write_buf = NULL /\ v.ps.read_buf = r.ps.read_buf
      /\ \/ /\ v.ps.fault = r.ps.fault
            /\ Taken(v.pool) = Taken(r.pool) \ {r.ps.write_buf}
         \/ v.ps.fault = "double_free"
  BY <1>3, ReleaseWriteFields
<1> HIDE DEF v
<1>5. /\ x \in WorldType /\ x.tcp = t /\ SoundPool(x.pool)
      /\ SameHandshake(w.ps, x.ps) /\ x.ps.frame = "on_close"
      /\ x.ps.read_buf = NULL /\ x.ps.write_buf = NULL
      /\ \/ /\ x.ps.fault = "none"
            /\ Taken(x.pool) = (Taken(w.pool) \ {w.ps.read_buf}) \ {w.ps.write_buf}
         \/ x.ps.fault = "double_free"
  BY <1>1, <1>2, <1>3, <1>4, CallUserFields DEF SameHandshake
<1>6. NextStage(w.ps, x.ps, st) = st
  BY <1>5 DEF NextStage
<1>7. ConnInv(x.tcp, x.ps, st, cl)
  <2>1. BuffersAgree(x.tcp, x.ps, st)
    BY <1>1, <1>5 DEF ConnInv, SameHandshake, Open, BuffersAgree
  <2>2. Alternates(x.tcp, st)
    BY <1>1, <1>5 DEF ConnInv, SameHandshake, Open, Alternates
  <2>3. StagesAgree(x.tcp, x.ps, st)
    BY <1>1, <1>5 DEF ConnInv, SameHandshake, Open, StagesAgree
  <2>4. GreetingPassed(x.tcp, x.ps, st, cl)
    BY <1>1, <1>5 DEF ConnInv, SameHandshake, Open, GreetingPassed
  <2>5. Deserved(x.ps, cl)
    BY <1>1, <1>5 DEF ConnInv, SameHandshake, Open, Deserved
  <2>6. SessionAgrees(x.tcp, x.ps, st)
    BY <1>1, <1>5 DEF ConnInv, SameHandshake, Open, SessionAgrees
  <2>7. FramesAgree(x.tcp, x.ps, st)
    BY <1>1, <1>5 DEF ConnInv, SameHandshake, Open, FramesAgree
  <2>8. OneClose(x.tcp, x.ps)
    BY <1>1, <1>5 DEF ConnInv, SameHandshake, Open, OneClose
  <2>9. QED
    BY <1>1, <1>5, <2>1, <2>2, <2>3, <2>4, <2>5, <2>6, <2>7, <2>8 DEF ConnInv,
       WorldType, Stage
<1>8. Keeps(w, x)
  BY <1>1, <1>5 DEF Keeps, Fine, Owned
<1>9. /\ Life(w.tcp, w.ps, st) = "closing" /\ ~Owes(w.tcp)
      /\ Life(x.tcp, x.ps, st) = "idle"
      /\ Says(x.ps) = "on_close" /\ ~Owes(x.tcp)
  BY <1>1, <1>5 DEF Life, Says, Owes
<1>p. Passes(w.ps, x.ps, cl)
  BY <1>5 DEF SameHandshake, Passes
<1>10. LoopStep(w, st, x, cl)
  BY <1>1, <1>5, <1>6, <1>7, <1>8, <1>9, <1>p DEF LoopStep, Sound, LoopMove
<1>11. QED
  BY <1>10 DEF x

(* One lemma for each callback of libuv that is not a read.                 *)
LEMMA WriteDoneStep ==
    ASSUME NEW w, NEW st, NEW cl, LoopTurn(w, st, cl), w.tcp.frame = "loop",
           w.tcp.write # "none"
    PROVE  LoopStep(w, st,
               Dispatch([w EXCEPT !.tcp = WriteCb(w.tcp)], "gerr", cl, TRUE), cl)
<1> DEFINE t == WriteCb(w.tcp)
           u == [w EXCEPT !.tcp = t]
<1>1. w \in WorldType /\ SoundSocket(w.tcp) /\ w.tcp.fault = "none"
  BY DEF LoopTurn, Sound, ConnInv, Fine
<1>2. /\ SoundSocket(t)
      /\ t.status = w.tcp.status /\ t.polling = w.tcp.polling
      /\ t.write = "none" /\ t.shutdown = w.tcp.shutdown
      /\ \/ t.fault = "none" /\ t.frame = "on_write"
         \/ t.fault = "none" /\ t.frame = "on_write_err" /\ ~Open(w.tcp)
         \/ t.fault = "none" /\ t.frame = "on_error" /\ Open(w.tcp)
         \/ t.fault \in {"canceled", "refused"} /\ t.frame = "loop"
      /\ t \in SocketType
  BY <1>1, SoundWriteCb DEF SoundSocket
<1> HIDE DEF t
<1>3. u \in WorldType /\ u.tcp = t /\ u.pool = w.pool /\ u.ps = w.ps
  BY <1>1, <1>2, PutTcp
<1> HIDE DEF u
<1>4. SUFFICES LoopStep(w, st, Dispatch(u, "gerr", cl, TRUE), cl)
  BY DEF t, u
<1>5. CASE t.fault = "none" /\ t.frame = "on_write"
  <2>1. LoopStep(w, st, WriteHandle(u), cl)
    BY <1>2, <1>3, <1>5, Answers
  <2>2. Dispatch(u, "gerr", cl, TRUE) = WriteHandle(u)
    BY <1>3, <1>5, Dispatched
  <2>3. QED
    BY <2>1, <2>2
<1>6. CASE t.fault = "none" /\ t.frame = "on_write_err" /\ ~Open(w.tcp)
  <2>1. w.tcp.status = CLOSING
    BY <1>1, <1>6, SoundOpen DEF SoundSocket
  <2>2. QED
    BY <1>2, <1>3, <1>6, <2>1, QuietCall
<1>7. CASE t.fault = "none" /\ t.frame = "on_error" /\ Open(w.tcp)
  BY <1>2, <1>3, <1>7, FailCall
<1>8. CASE t.fault \in {"canceled", "refused"} /\ t.frame = "loop"
  BY <1>2, <1>3, <1>8, QuietCall
<1>9. QED
  BY <1>2, <1>5, <1>6, <1>7, <1>8

(* libuv answers the shutdown.                                              *)
LEMMA ShutdownDoneStep ==
    ASSUME NEW w, NEW st, NEW cl, LoopTurn(w, st, cl), w.tcp.frame = "loop",
           w.tcp.shutdown, w.tcp.write = "none", NEW status \in UvStatus,
           IF w.tcp.tcp = "open" THEN status \in Outcome ELSE status = "canceled"
    PROVE  LoopStep(w, st,
               Dispatch([w EXCEPT !.tcp = ShutdownCb(w.tcp, status)],
                        "gerr", cl, TRUE), cl)
<1> DEFINE t == ShutdownCb(w.tcp, status)
           u == [w EXCEPT !.tcp = t]
<1>1. w \in WorldType /\ SoundSocket(w.tcp) /\ w.tcp.fault = "none"
  BY DEF LoopTurn, Sound, ConnInv, Fine
<1>2. /\ SoundSocket(t)
      /\ t.polling = w.tcp.polling /\ t.write = "none" /\ ~t.shutdown
      /\ \/ /\ Open(w.tcp) /\ Open(t)
            /\ t.fault = "none" /\ t.frame = "on_shutdown"
         \/ /\ ~Open(w.tcp) /\ t.status = w.tcp.status
            /\ t.fault = "none" /\ t.frame = "loop"
         \/ /\ Open(w.tcp) /\ t.status = w.tcp.status
            /\ t.fault = "none" /\ t.frame = "on_error"
         \/ /\ Open(w.tcp) /\ t.status = w.tcp.status
            /\ t.fault \in {"canceled", "refused"} /\ t.frame = "loop"
      /\ t \in SocketType
  BY <1>1, SoundShutdownCb DEF SoundSocket
<1> HIDE DEF t
<1>3. u \in WorldType /\ u.tcp = t /\ u.pool = w.pool /\ u.ps = w.ps
  BY <1>1, <1>2, PutTcp
<1> HIDE DEF u
<1>4. SUFFICES LoopStep(w, st, Dispatch(u, "gerr", cl, TRUE), cl)
  BY DEF t, u
<1>5. CASE Open(w.tcp) /\ Open(t) /\ t.fault = "none" /\ t.frame = "on_shutdown"
  BY <1>2, <1>3, <1>5, ShutdownCall
<1>6. CASE t.status = w.tcp.status /\ t.frame = "loop" /\ t.fault # "uv_close"
  BY <1>2, <1>3, <1>6, QuietCall
<1>7. CASE /\ Open(w.tcp) /\ t.status = w.tcp.status
           /\ t.fault = "none" /\ t.frame = "on_error"
  BY <1>2, <1>3, <1>7, FailCall
<1>8. QED
  BY <1>2, <1>5, <1>6, <1>7

(* The timer fires.                                                         *)
LEMMA TimedOutStep ==
    ASSUME NEW w, NEW st, NEW cl, LoopTurn(w, st, cl), w.tcp.timer = "due"
    PROVE  LoopStep(w, st,
               Dispatch([w EXCEPT !.tcp = TimeoutCb(w.tcp)], "gerr", cl, TRUE), cl)
<1> DEFINE t == TimeoutCb(w.tcp)
           u == [w EXCEPT !.tcp = t]
<1>1. w \in WorldType /\ SoundSocket(w.tcp) /\ w.tcp.fault = "none"
  BY DEF LoopTurn, Sound, ConnInv, Fine
<1>2. /\ Open(w.tcp) /\ SoundSocket(t)
      /\ t.status = w.tcp.status /\ t.polling = w.tcp.polling
      /\ t.write = w.tcp.write /\ t.shutdown = w.tcp.shutdown
      /\ t.fault = "none" /\ t.frame = "on_error" /\ t \in SocketType
  BY <1>1, SoundTimeout DEF SoundSocket, SameButFrame
<1> HIDE DEF t
<1>3. u \in WorldType /\ u.tcp = t /\ u.pool = w.pool /\ u.ps = w.ps
  BY <1>1, <1>2, PutTcp
<1> HIDE DEF u
<1>4. LoopStep(w, st, Dispatch(u, "gerr", cl, TRUE), cl)
  BY <1>2, <1>3, FailCall
<1>5. QED
  BY <1>4 DEF t, u

(* One of the handles is closed: the first, or the last.                    *)
LEMMA HandleClosedStep ==
    ASSUME NEW w, NEW st, NEW cl, LoopTurn(w, st, cl), w.tcp.frame = "loop",
           NEW t, w.tcp.status = CLOSING, SoundSocket(t),
           \/ SameButFrame(w.tcp, t) /\ t.frame = w.tcp.frame
           \/ /\ t.status = CLOSED /\ ~t.polling /\ t.write = w.tcp.write
              /\ t.write = "none" /\ ~t.shutdown
              /\ t.fault = w.tcp.fault /\ t.frame = "on_close"
    PROVE  LoopStep(w, st,
               Dispatch([w EXCEPT !.tcp = t], "gerr", cl, TRUE), cl)
<1> DEFINE u == [w EXCEPT !.tcp = t]
<1>1. w \in WorldType /\ w.tcp.fault = "none" /\ t \in SocketType
  BY DEF LoopTurn, Sound, Fine, SoundSocket
<1>2. u \in WorldType /\ u.tcp = t /\ u.pool = w.pool /\ u.ps = w.ps
  BY <1>1, PutTcp
<1> HIDE DEF u
<1>3. CASE SameButFrame(w.tcp, t) /\ t.frame = w.tcp.frame
  <2>1. /\ t.status = w.tcp.status /\ t.polling = w.tcp.polling
        /\ t.write = w.tcp.write /\ t.shutdown = w.tcp.shutdown
        /\ t.fault = "none" /\ t.frame = "loop"
    BY <1>1, <1>3 DEF SameButFrame
  <2>2. LoopStep(w, st, Dispatch(u, "gerr", cl, TRUE), cl)
    BY <1>2, <2>1, QuietCall
  <2>3. QED
    BY <2>2 DEF u
<1>4. CASE /\ t.status = CLOSED /\ ~t.polling /\ t.write = w.tcp.write
           /\ t.write = "none" /\ ~t.shutdown
           /\ t.fault = w.tcp.fault /\ t.frame = "on_close"
  <2>1. LoopStep(w, st, Dispatch(u, "gerr", cl, TRUE), cl)
    BY <1>1, <1>2, <1>4, CloseCall
  <2>2. QED
    BY <2>1 DEF u
<1>5. QED
  BY <1>3, <1>4

(* A proxy socket that has been initialised is one.                         *)
LEMMA FreshFields ==
    ASSUME NEW host \in BOOLEAN
    PROVE  LET p == [FreshProxy EXCEPT !.session = NewSession(host)]
           IN  /\ p \in ProxyType
               /\ p.read_buf = NULL /\ p.write_buf = NULL
               /\ p.read_status = PS5RVERSION /\ p.write_status = PS5WVERSION
               /\ p.session.live = Held(p.session)
               /\ p.session.in_len = 0 /\ p.session.in6_len = 0
               /\ p.frame = "none" /\ p.error = "none" /\ p.fault = "none"
<1> DEFINE n == NewSession(host)
           p == [FreshProxy EXCEPT !.session = n]
<1>1. /\ n \in SessionType /\ n.live = Held(n)
      /\ n.in_len = 0 /\ n.in6_len = 0
  BY DEF NewSession, SessionType, Held
<1> HIDE DEF n
<1>2. 0 \in Byte /\ 0 \in 0 .. BlockSize
  BY BlockAssumption DEF Byte
<1>3. p \in ProxyType
  BY <1>1, <1>2 DEF FreshProxy, ProxyType, ProxyFrame, ProxyFault
<1>4. QED
  BY <1>1, <1>3 DEF FreshProxy, n

(* A connection is accepted in memory that is free.                         *)
LEMMA AcceptStep ==
    ASSUME NEW w, NEW st, NEW cl, LoopTurn(w, st, cl),
           w.tcp.status \in {INVALID, CLOSED}, NEW who \in Script,
           NEW x, x = Done(ProxyStart([w EXCEPT
                       !.tcp = Accepted(FreshSocket),
                       !.ps  = [FreshProxy EXCEPT !.session = NewSession(who.host)]]))
    PROVE  /\ Sound(x, "handshake", who) /\ x.pool = w.pool
           /\ x.ps.frame = "none" /\ x.ps.read_status = PS5RVERSION
           /\ Keeps(w, x)
           /\ Fine(x) => LoopMove(Life(w.tcp, w.ps, st), Owes(w.tcp),
                                  Life(x.tcp, x.ps, "handshake"), Says(x.ps),
                                  Owes(x.tcp))
<1> DEFINE t == Accepted(FreshSocket)
           p == [FreshProxy EXCEPT !.session = NewSession(who.host)]
           u == [w EXCEPT !.tcp = t, !.ps = p]
           s == TcpReadStart(t)
           v == [u EXCEPT !.tcp = s]
<1>1. /\ w \in WorldType /\ SoundPool(w.pool) /\ ConnInv(w.tcp, w.ps, st, cl)
      /\ SoundSocket(w.tcp) /\ w.ps.frame = "none"
  BY DEF LoopTurn, Sound, ConnInv
<1>2. /\ p \in ProxyType
      /\ p.read_buf = NULL /\ p.write_buf = NULL
      /\ p.read_status = PS5RVERSION /\ p.write_status = PS5WVERSION
      /\ p.session.live = Held(p.session)
      /\ p.session.in_len = 0 /\ p.session.in6_len = 0
      /\ p.frame = "none" /\ p.error = "none" /\ p.fault = "none"
  <2>1. who.host \in BOOLEAN
    BY ScriptAssumption
  <2>2. QED
    BY <2>1, FreshFields
<1>3. /\ SoundSocket(t) /\ t.status = CONNECTED
      /\ ~t.polling /\ t.write = "none" /\ ~t.shutdown /\ t.fault = "none"
      /\ t \in SocketType
  BY SoundAccepted DEF SoundSocket
<1>4. x = Done(ProxyStart(u))
  OBVIOUS
<1> HIDE DEF p, t
<1>5. u \in WorldType /\ u.tcp = t /\ u.pool = w.pool /\ u.ps = p
  BY <1>1, <1>2, <1>3 DEF WorldType
<1>6. /\ SoundSocket(s) /\ s.status = CONNECTED /\ s.write = "none"
      /\ ~s.shutdown /\ s.fault \in {"none", "read_start"} /\ s \in SocketType
  BY <1>3, SoundStart DEF SoundSocket
<1>7. v \in WorldType /\ v.tcp = s /\ v.pool = w.pool /\ v.ps = p
  <2> HIDE DEF u, s
  <2>1. QED
    BY <1>5, <1>6, PutTcp
<1>8. x = Done(v)
  BY <1>4, <1>5 DEF ProxyStart
<1> HIDE DEF u, s, v
<1>9. /\ x \in WorldType /\ x.pool = w.pool /\ SoundSocket(x.tcp)
      /\ x.tcp.status = CONNECTED /\ x.tcp.write = "none" /\ ~x.tcp.shutdown
      /\ x.tcp.fault \in {"none", "read_start"}
      /\ SameHandshake(p, x.ps) /\ x.ps.frame = "none"
      /\ x.ps.fault = "none" /\ x.ps.read_buf = NULL /\ x.ps.write_buf = NULL
  BY <1>2, <1>6, <1>7, <1>8, DoneFields DEF SameButFrame
<1> DEFINE k == "handshake"
<1>10. ConnInv(x.tcp, x.ps, k, who)
  <2>1. BuffersAgree(x.tcp, x.ps, k)
    BY <1>2, <1>9 DEF SameHandshake, Open, BuffersAgree
  <2>2. Alternates(x.tcp, k)
    BY <1>2, <1>9 DEF SameHandshake, Open, Alternates
  <2>3. StagesAgree(x.tcp, x.ps, k)
    BY <1>2, <1>9 DEF SameHandshake, Open, StagesAgree
  <2>4. GreetingPassed(x.tcp, x.ps, k, who)
    BY <1>2, <1>9 DEF SameHandshake, Open, GreetingPassed
  <2>5. Deserved(x.ps, who)
    BY <1>2, <1>9 DEF SameHandshake, Open, Deserved
  <2>6. SessionAgrees(x.tcp, x.ps, k)
    BY <1>2, <1>9 DEF SameHandshake, Open, SessionAgrees
  <2>7. FramesAgree(x.tcp, x.ps, k)
    BY <1>2, <1>9 DEF SameHandshake, Open, FramesAgree
  <2>8. OneClose(x.tcp, x.ps)
    BY <1>2, <1>9 DEF SameHandshake, Open, OneClose
  <2>9. QED
    BY <1>2, <1>9, <2>1, <2>2, <2>3, <2>4, <2>5, <2>6, <2>7, <2>8 DEF ConnInv,
       WorldType, Stage
<1>11. Keeps(w, x)
  <2>1. w.ps.read_buf = NULL /\ w.ps.write_buf = NULL
    BY <1>1 DEF ConnInv, BuffersAgree
  <2>2. NULL \notin Taken(w.pool)
    BY PoolAssumption DEF Taken
  <2>3. QED
    BY <1>1, <1>9, <2>1, <2>2 DEF Keeps, Owned
<1>12. /\ Life(w.tcp, w.ps, st) = "idle" /\ Life(x.tcp, x.ps, "handshake") = "handshake"
       /\ Says(x.ps) = "none" /\ ~Owes(x.tcp)
  BY <1>9 DEF Life, Says, Owes
<1>13. QED
  BY <1>1, <1>2, <1>9, <1>10, <1>11, <1>12 DEF Sound, LoopMove, SameHandshake
-----------------------------------------------------------------------------
(* The user may call: the connection is open, and it is not in on_error.    *)
UserReady(w, st, cl) == /\ Sound(w, st, cl) /\ Fine(w) /\ Open(w.tcp)
                        /\ w.ps.frame \notin {"on_error", "on_tcp_error"}

(* What the user can rely on when it calls.                                 *)
LEMMA ReadyFacts ==
    ASSUME NEW w, NEW st, NEW cl, UserReady(w, st, cl)
    PROVE  /\ w \in WorldType /\ SoundPool(w.pool)
           /\ ConnInv(w.tcp, w.ps, st, cl)
           /\ SoundSocket(w.tcp) /\ w.ps \in ProxyType
           /\ w.ps.fault = "none" /\ w.tcp.fault = "none" /\ Open(w.tcp)
           /\ w.tcp.status \notin {INVALID, CLOSING, CLOSED}
           /\ ~(w.tcp.status >= CLOSING)
           /\ w.ps.frame \notin {"on_error", "on_tcp_error", "on_close"}
           /\ st \in Stage /\ st # "new"
<1>1. /\ w \in WorldType /\ SoundPool(w.pool) /\ ConnInv(w.tcp, w.ps, st, cl)
      /\ SoundSocket(w.tcp) /\ w.ps \in ProxyType
  BY DEF UserReady, Sound, ConnInv
<1>2. /\ w.tcp.status \notin {INVALID, CLOSING, CLOSED}
      /\ ~(w.tcp.status >= CLOSING)
  BY <1>1, SoundOpen DEF UserReady
<1>3. st \in Stage /\ st # "new"
  BY <1>1, <1>2 DEF ConnInv, StagesAgree
<1>4. w.ps.frame # "on_close"
  BY <1>1, <1>2 DEF ConnInv, FramesAgree
<1>5. QED
  BY <1>1, <1>2, <1>3, <1>4 DEF UserReady, Fine

(* ne_proxy_socket_close.                                                   *)
LEMMA CloseStep ==
    ASSUME NEW w, NEW st, NEW cl, UserReady(w, st, cl)
    PROVE  UserStep(w, st, ProxyClose(w), st, cl)
<1> DEFINE t == TcpClose(w.tcp)
           x == ProxyClose(w)
<1>1. /\ w \in WorldType /\ SoundPool(w.pool) /\ ConnInv(w.tcp, w.ps, st, cl)
      /\ SoundSocket(w.tcp) /\ w.ps.fault = "none" /\ w.tcp.fault = "none"
      /\ Open(w.tcp) /\ w.tcp.status \notin {INVALID, CLOSING, CLOSED}
      /\ ~(w.tcp.status >= CLOSING)
      /\ w.ps.frame \notin {"on_error", "on_tcp_error", "on_close"}
      /\ st \in Stage /\ st # "new"
  BY ReadyFacts
<1>2. /\ SoundSocket(t) /\ t.status = CLOSING /\ ~t.polling
      /\ t.write = w.tcp.write /\ t.shutdown = w.tcp.shutdown
      /\ t.fault = "none" /\ t \in SocketType
  BY <1>1, SoundClose DEF SoundSocket
<1>3. x = [w EXCEPT !.tcp = t]
  BY DEF ProxyClose
<1> HIDE DEF t, x
<1>4. x \in WorldType /\ x.tcp = t /\ x.pool = w.pool /\ x.ps = w.ps
  BY <1>1, <1>2, <1>3, PutTcp
<1>5. NextStage(w.ps, x.ps, st) = st
  BY <1>4 DEF NextStage
<1>6. ConnInv(x.tcp, x.ps, st, cl)
  <2>1. BuffersAgree(x.tcp, x.ps, st)
    BY <1>1, <1>2, <1>4 DEF ConnInv, Open, BuffersAgree
  <2>2. Alternates(x.tcp, st)
    BY <1>1, <1>2, <1>4 DEF ConnInv, Open, Alternates
  <2>3. StagesAgree(x.tcp, x.ps, st)
    BY <1>1, <1>2, <1>4 DEF ConnInv, Open, StagesAgree
  <2>4. GreetingPassed(x.tcp, x.ps, st, cl)
    BY <1>1, <1>2, <1>4 DEF ConnInv, Open, GreetingPassed
  <2>5. Deserved(x.ps, cl)
    BY <1>1, <1>2, <1>4 DEF ConnInv, Open, Deserved
  <2>6. SessionAgrees(x.tcp, x.ps, st)
    BY <1>1, <1>2, <1>4 DEF ConnInv, Open, SessionAgrees
  <2>7. FramesAgree(x.tcp, x.ps, st)
    BY <1>1, <1>2, <1>4 DEF ConnInv, Open, FramesAgree
  <2>8. OneClose(x.tcp, x.ps)
    BY <1>1, <1>2, <1>4 DEF ConnInv, Open, OneClose
  <2>9. QED
    BY <1>1, <1>2, <1>4, <2>1, <2>2, <2>3, <2>4, <2>5, <2>6, <2>7, <2>8 DEF
       ConnInv, WorldType, Stage
<1>7. Keeps(w, x)
  BY <1>1, <1>2, <1>4 DEF Keeps, Owned
<1>8. /\ Life(w.tcp, w.ps, st) \in Promise!Served
      /\ Life(x.tcp, x.ps, st) = "closing"
      /\ Says(x.ps) = Says(w.ps) /\ Owes(x.tcp) = Owes(w.tcp)
  BY <1>1, <1>2, <1>4 DEF Life, Says, Owes, Stage, Promise!Served
<1>p. Passes(w.ps, x.ps, cl)
  BY <1>4 DEF Passes
<1>9. QED
  BY <1>1, <1>2, <1>4, <1>5, <1>6, <1>7, <1>8, <1>p DEF x, UserStep, Sound, UserMove

(* ne_proxy_socket_shutdown.                                                *)
LEMMA ShutdownStep ==
    ASSUME NEW w, NEW st, NEW cl, UserReady(w, st, cl),
           st \in {"forwarding", "on_read"}
    PROVE  UserStep(w, st, ProxyShutdown(w), st, cl)
<1> DEFINE t == TcpShutdown(w.tcp)
           x == ProxyShutdown(w)
<1>1. /\ w \in WorldType /\ SoundPool(w.pool) /\ ConnInv(w.tcp, w.ps, st, cl)
      /\ SoundSocket(w.tcp) /\ w.ps.fault = "none" /\ w.tcp.fault = "none"
      /\ Open(w.tcp) /\ w.tcp.status \notin {INVALID, CLOSING, CLOSED}
      /\ ~(w.tcp.status >= CLOSING)
      /\ w.ps.frame \notin {"on_error", "on_tcp_error", "on_close"}
  BY ReadyFacts
<1>2. /\ SoundSocket(t) /\ Open(t) /\ t.polling = w.tcp.polling
      /\ t.write = w.tcp.write /\ t.shutdown
      /\ t.fault = "none" /\ t \in SocketType
      /\ t.status \notin {INVALID, CLOSING, CLOSED} /\ ~(t.status >= CLOSING)
  BY <1>1, SoundShutdown, SoundOpen DEF SoundSocket
<1>3. x = [w EXCEPT !.tcp = t]
  BY DEF ProxyShutdown
<1> HIDE DEF t, x
<1>4. x \in WorldType /\ x.tcp = t /\ x.pool = w.pool /\ x.ps = w.ps
  BY <1>1, <1>2, <1>3, PutTcp
<1>5. NextStage(w.ps, x.ps, st) = st
  BY <1>4 DEF NextStage
<1>6. ConnInv(x.tcp, x.ps, st, cl)
  <2>1. BuffersAgree(x.tcp, x.ps, st)
    BY <1>1, <1>2, <1>4 DEF ConnInv, BuffersAgree
  <2>2. Alternates(x.tcp, st)
    BY <1>1, <1>2, <1>4 DEF ConnInv, Alternates
  <2>3. StagesAgree(x.tcp, x.ps, st)
    BY <1>1, <1>2, <1>4 DEF ConnInv, StagesAgree
  <2>4. GreetingPassed(x.tcp, x.ps, st, cl)
    BY <1>1, <1>2, <1>4 DEF ConnInv, GreetingPassed
  <2>5. Deserved(x.ps, cl)
    BY <1>1, <1>2, <1>4 DEF ConnInv, Deserved
  <2>6. SessionAgrees(x.tcp, x.ps, st)
    BY <1>1, <1>2, <1>4 DEF ConnInv, SessionAgrees
  <2>7. FramesAgree(x.tcp, x.ps, st)
    BY <1>1, <1>2, <1>4 DEF ConnInv, FramesAgree
  <2>8. OneClose(x.tcp, x.ps)
    BY <1>1, <1>2, <1>4 DEF ConnInv, OneClose
  <2>9. QED
    BY <1>1, <1>2, <1>4, <2>1, <2>2, <2>3, <2>4, <2>5, <2>6, <2>7, <2>8 DEF
       ConnInv, WorldType, Stage
<1>7. Keeps(w, x)
  BY <1>1, <1>2, <1>4 DEF Keeps, Owned
<1>8. /\ Life(x.tcp, x.ps, st) = Life(w.tcp, w.ps, st)
      /\ Says(x.ps) = Says(w.ps) /\ Owes(x.tcp) = Owes(w.tcp)
  BY <1>1, <1>2, <1>4 DEF Life, Owes
<1>p. Passes(w.ps, x.ps, cl)
  BY <1>4 DEF Passes
<1>9. QED
  BY <1>1, <1>2, <1>4, <1>5, <1>6, <1>7, <1>8, <1>p DEF x, UserStep, Sound, UserMove

(* The user writes back what was read.                                      *)
LEMMA EchoStep ==
    ASSUME NEW w, NEW st, NEW cl, UserReady(w, st, cl), st = "on_read",
           NEW x, x = WriteSocket([w EXCEPT !.ps.write_buf = w.ps.read_buf,
                                            !.ps.read_buf = NULL])
    PROVE  UserStep(w, st, x, "forwarding", cl)
<1> DEFINE q == [w.ps EXCEPT !.write_buf = w.ps.read_buf]
           r == [q EXCEPT !.read_buf = NULL]
           v == [w EXCEPT !.ps = r]
           k == "forwarding"
<1>1. /\ w \in WorldType /\ SoundPool(w.pool) /\ ConnInv(w.tcp, w.ps, st, cl)
      /\ SoundSocket(w.tcp) /\ w.ps.fault = "none" /\ w.tcp.fault = "none"
      /\ Open(w.tcp) /\ w.tcp.status \notin {INVALID, CLOSING, CLOSED}
      /\ ~(w.tcp.status >= CLOSING) /\ w.ps \in ProxyType
      /\ w.ps.frame \notin {"on_error", "on_tcp_error", "on_close"}
  BY ReadyFacts
<1>2. w.ps.read_buf \in Buf /\ NULL \notin Buf /\ w.tcp.write = "none"
  BY <1>1, ProxyFields, PoolAssumption DEF ConnInv, BuffersAgree, Alternates
<1>3. x = WriteSocket(v)
  BY <1>1 DEF WorldType
<1>4. /\ r \in ProxyType /\ SameHandshake(w.ps, r) /\ r.read_buf = NULL
      /\ r.write_buf = w.ps.read_buf /\ r.fault = w.ps.fault
      /\ r.frame = w.ps.frame
  <2>1. /\ q \in ProxyType /\ SameHandshake(w.ps, q)
        /\ q.write_buf = w.ps.read_buf /\ q.fault = w.ps.fault
        /\ q.frame = w.ps.frame
    BY <1>1, <1>2, PutWriteBuf
  <2> HIDE DEF q
  <2>2. /\ r \in ProxyType /\ SameHandshake(q, r) /\ r.read_buf = NULL
        /\ r.write_buf = q.write_buf /\ r.fault = q.fault /\ r.frame = q.frame
    BY <2>1, PutReadBuf
  <2> HIDE DEF r
  <2>3. QED
    BY <2>1, <2>2 DEF SameHandshake
<1> HIDE DEF r
<1>5. v \in WorldType /\ v.tcp = w.tcp /\ v.pool = w.pool /\ v.ps = r
  BY <1>1, <1>4 DEF WorldType
<1> HIDE DEF v
<1>6. /\ x \in WorldType /\ x.pool = w.pool /\ x.ps = r /\ SoundSocket(x.tcp)
      /\ x.tcp.status = w.tcp.status /\ x.tcp.polling = w.tcp.polling
      /\ x.tcp.write = "queued" /\ x.tcp.shutdown = w.tcp.shutdown
      /\ x.tcp.fault = "none"
  BY <1>1, <1>3, <1>5, WriteSocketFields
<1>7. NextStage(w.ps, x.ps, k) = k
  BY <1>4, <1>6 DEF NextStage
<1>8. ConnInv(x.tcp, x.ps, k, cl)
  <2>1. BuffersAgree(x.tcp, x.ps, k)
    BY <1>1, <1>2, <1>4, <1>6 DEF ConnInv, SameHandshake, Open, BuffersAgree
  <2>2. Alternates(x.tcp, k)
    BY <1>1, <1>2, <1>4, <1>6 DEF ConnInv, SameHandshake, Open, Alternates
  <2>3. StagesAgree(x.tcp, x.ps, k)
    BY <1>1, <1>2, <1>4, <1>6 DEF ConnInv, SameHandshake, Open, StagesAgree
  <2>4. GreetingPassed(x.tcp, x.ps, k, cl)
    BY <1>1, <1>2, <1>4, <1>6 DEF ConnInv, SameHandshake, Open, StagesAgree,
       GreetingPassed
  <2>5. Deserved(x.ps, cl)
    BY <1>1, <1>2, <1>4, <1>6 DEF ConnInv, SameHandshake, Open, Deserved
  <2>6. SessionAgrees(x.tcp, x.ps, k)
    BY <1>1, <1>2, <1>4, <1>6 DEF ConnInv, SameHandshake, Open, SessionAgrees
  <2>7. FramesAgree(x.tcp, x.ps, k)
    BY <1>1, <1>2, <1>4, <1>6 DEF ConnInv, SameHandshake, Open, FramesAgree
  <2>8. OneClose(x.tcp, x.ps)
    BY <1>1, <1>2, <1>4, <1>6 DEF ConnInv, SameHandshake, Open, OneClose
  <2>9. QED
    BY <1>1, <1>2, <1>4, <1>6, <2>1, <2>2, <2>3, <2>4, <2>5, <2>6, <2>7, <2>8
       DEF ConnInv, WorldType, Stage
<1>9. Keeps(w, x)
  BY <1>1, <1>2, <1>4, <1>6 DEF Keeps, Owned
<1>10. /\ Life(w.tcp, w.ps, st) = "data" /\ Life(x.tcp, x.ps, k) = "forwarding"
       /\ Says(x.ps) = Says(w.ps) /\ ~Owes(w.tcp) /\ Owes(x.tcp)
  BY <1>1, <1>2, <1>4, <1>6 DEF Life, Says, Owes
<1>11. x.ps.frame # "on_session" \/ w.ps.frame = "on_session"
  BY <1>4, <1>6
<1>p. Passes(w.ps, x.ps, cl)
  BY <1>4, <1>6 DEF SameHandshake, Passes
<1>12. QED
  BY <1>1, <1>6, <1>7, <1>8, <1>9, <1>10, <1>11, <1>p DEF UserStep, Sound, UserMove

(* __socket_forward_handle.                                                 *)
LEMMA ForwardStep ==
    ASSUME NEW w, NEW st, NEW cl, UserReady(w, st, cl), st = "on_session",
           NEW calloc \in BOOLEAN
    PROVE  UserStep(w, st, ForwardHandle(w, calloc), "forwarding", cl)
<1> DEFINE b == OfferedBuf(w.pool, calloc)
           m == MemoryPoolGetBuf(w.pool, calloc)
           q == [w.ps EXCEPT !.write_status = PS5WRESPONSE]
           r == [q EXCEPT !.write_buf = b]
           v == [w EXCEPT !.ps = r, !.pool = m]
           g == [w EXCEPT !.ps.write_status = PS5WRESPONSE,
                          !.ps.write_buf = b,
                          !.pool = MemoryPoolGetBuf(@, calloc)]
           x == ForwardHandle(w, calloc)
           k == "forwarding"
<1>1. /\ w \in WorldType /\ SoundPool(w.pool) /\ ConnInv(w.tcp, w.ps, st, cl)
      /\ SoundSocket(w.tcp) /\ w.ps.fault = "none" /\ w.tcp.fault = "none"
      /\ Open(w.tcp) /\ w.tcp.status \notin {INVALID, CLOSING, CLOSED}
      /\ ~(w.tcp.status >= CLOSING) /\ w.ps \in ProxyType
      /\ w.ps.frame \notin {"on_error", "on_tcp_error", "on_close"}
  BY ReadyFacts
<1>2. /\ ~w.tcp.polling /\ w.tcp.write = "none" /\ ~w.tcp.shutdown
      /\ w.ps.write_status = PS5WVERSION /\ w.ps.read_status = PS5RREQUEST
      /\ NULL \notin Buf
  BY <1>1, PoolAssumption DEF ConnInv, Alternates, StagesAgree
<1>3. CASE ~NDEBUG
  <2>1. x = Crash(w, "write_status") /\ "write_status" \in ProxyFault
    BY <1>3 DEF ForwardHandle, ProxyFault
  <2> HIDE DEF x
  <2>2. /\ x \in WorldType /\ x.pool = w.pool /\ x.tcp = w.tcp
        /\ SameHandshake(w.ps, x.ps) /\ x.ps.frame = w.ps.frame
        /\ x.ps.fault = "write_status"
        /\ x.ps.read_buf = w.ps.read_buf /\ x.ps.write_buf = w.ps.write_buf
    BY <1>1, <2>1, CrashFields
  <2>3. NextStage(w.ps, x.ps, k) = k
    BY <2>2 DEF NextStage
  <2>4. ConnInv(x.tcp, x.ps, k, cl)
    <3>1. BuffersAgree(x.tcp, x.ps, k)
      BY <1>1, <1>2, <2>2 DEF ConnInv, SameHandshake, BuffersAgree
    <3>2. Alternates(x.tcp, k)
      BY <1>1, <1>2, <2>2 DEF ConnInv, SameHandshake, Alternates
    <3>3. StagesAgree(x.tcp, x.ps, k)
      BY <1>1, <1>2, <2>2 DEF ConnInv, SameHandshake, StagesAgree
    <3>4. GreetingPassed(x.tcp, x.ps, k, cl)
      BY <1>1, <1>2, <2>2 DEF ConnInv, SameHandshake, GreetingPassed
    <3>5. Deserved(x.ps, cl)
      BY <1>1, <1>2, <2>2 DEF ConnInv, SameHandshake, Deserved
    <3>6. SessionAgrees(x.tcp, x.ps, k)
      BY <1>1, <1>2, <2>2 DEF ConnInv, SameHandshake, SessionAgrees
    <3>7. FramesAgree(x.tcp, x.ps, k)
      BY <1>1, <1>2, <2>2 DEF ConnInv, SameHandshake, FramesAgree
    <3>8. OneClose(x.tcp, x.ps)
      BY <1>1, <1>2, <2>2 DEF ConnInv, SameHandshake, OneClose
    <3>9. QED
      BY <1>1, <1>2, <2>2, <3>1, <3>2, <3>3, <3>4, <3>5, <3>6, <3>7, <3>8 DEF
         ConnInv, WorldType, Stage
  <2>5. ~Fine(x) /\ (x.ps.frame # "on_session" \/ w.ps.frame = "on_session")
    BY <2>2 DEF Fine
  <2>p. Passes(w.ps, x.ps, cl)
    BY <2>2 DEF SameHandshake, Passes
  <2>6. UserStep(w, st, x, k, cl)
    BY <1>1, <2>2, <2>3, <2>4, <2>5, <2>p DEF UserStep, Sound, Keeps
  <2>7. QED
    BY <2>6 DEF x
<1>4. SUFFICES ASSUME NDEBUG PROVE UserStep(w, st, x, k, cl)
  BY <1>3
<1>5. x = IF b = NULL THEN NotifyError(g, "ENOMEM") ELSE WriteSocket(g)
  BY <1>4 DEF ForwardHandle
<1>6. /\ b \in Buf \cup {NULL} /\ SoundPool(m) /\ m \in PoolType
      /\ b = NULL => m = w.pool
      /\ b # NULL => Taken(m) = Taken(w.pool) \cup {b}
  <2>1. CASE b = NULL
    <3>1. m = w.pool
      BY <2>1 DEF MemoryPoolGetBuf, OfferedBuf
    <3> HIDE DEF m, b
    <3>2. QED
      BY <1>1, <2>1, <3>1 DEF SoundPool
  <2>2. CASE b # NULL
    BY <1>1, <2>2, SoundGet DEF SoundPool
  <2>3. QED
    BY <2>1, <2>2
<1>7. g = v
  <2> HIDE DEF b
  <2>1. QED
    BY <1>1 DEF WorldType
<1> HIDE DEF b, m, g
<1>8. /\ r \in ProxyType /\ r.read_pos = w.ps.read_pos
      /\ r.read_status = PS5RREQUEST /\ r.write_status = PS5WRESPONSE
      /\ r.session = w.ps.session /\ r.error = w.ps.error
      /\ r.frame = w.ps.frame /\ r.fault = "none"
      /\ r.read_buf = w.ps.read_buf /\ r.write_buf = b
  <2>1. /\ q \in ProxyType /\ q.read_pos = w.ps.read_pos
        /\ q.read_status = PS5RREQUEST /\ q.write_status = PS5WRESPONSE
        /\ q.session = w.ps.session /\ q.error = w.ps.error
        /\ q.frame = w.ps.frame /\ q.fault = "none"
        /\ q.read_buf = w.ps.read_buf
    BY <1>1, <1>2 DEF ProxyType
  <2> HIDE DEF q
  <2>2. /\ r \in ProxyType /\ SameHandshake(q, r) /\ r.write_buf = b
        /\ r.frame = q.frame /\ r.fault = q.fault /\ r.read_buf = q.read_buf
    BY <1>6, <2>1, PutWriteBuf
  <2> HIDE DEF r
  <2>3. QED
    BY <2>1, <2>2 DEF SameHandshake
<1> HIDE DEF r
<1>9. v \in WorldType /\ v.tcp = w.tcp /\ v.pool = m /\ v.ps = r
  BY <1>1, <1>6, <1>8 DEF WorldType
<1> HIDE DEF v, x
<1>10. /\ Life(w.tcp, w.ps, st) = "session" /\ ~Owes(w.tcp)
  BY <1>1, <1>2 DEF Life, Owes
<1>11. CASE b = NULL
  <2> DEFINE e == [r EXCEPT !.error = "ENOMEM"]
             u == [v EXCEPT !.ps = e]
  <2>1. x = CallUser(u, "on_error") /\ "on_error" \in ProxyFrame
    BY <1>5, <1>7, <1>9, <1>11 DEF NotifyError, ProxyFrame
  <2>2. /\ e \in ProxyType /\ e.read_pos = r.read_pos
        /\ e.read_status = PS5RREQUEST /\ e.write_status = PS5WRESPONSE
        /\ e.session = r.session /\ e.error = "ENOMEM" /\ e.fault = "none"
        /\ e.read_buf = r.read_buf /\ e.write_buf = b
    BY <1>8 DEF ProxyType, Socks5Error
  <2> HIDE DEF e
  <2>3. u \in WorldType /\ u.tcp = w.tcp /\ u.pool = m /\ u.ps = e
    BY <1>9, <2>2 DEF WorldType
  <2> HIDE DEF u
  <2>4. /\ x \in WorldType /\ x.tcp = w.tcp /\ x.pool = w.pool
        /\ SameHandshake(e, x.ps) /\ x.ps.frame = "on_error"
        /\ x.ps.fault = "none" /\ x.ps.read_buf = w.ps.read_buf
        /\ x.ps.write_buf = NULL
    BY <1>6, <1>8, <1>11, <2>1, <2>2, <2>3, CallUserFields
  <2>5. NextStage(w.ps, x.ps, k) = k
    BY <2>4 DEF NextStage
  <2>6. ConnInv(x.tcp, x.ps, k, cl)
    <3>1. BuffersAgree(x.tcp, x.ps, k)
      BY <1>1, <1>2, <1>8, <2>2, <2>4 DEF ConnInv, SameHandshake, BuffersAgree
    <3>2. Alternates(x.tcp, k)
      BY <1>1, <1>2, <1>8, <2>2, <2>4 DEF ConnInv, SameHandshake, Alternates
    <3>3. StagesAgree(x.tcp, x.ps, k)
      BY <1>1, <1>2, <1>8, <2>2, <2>4 DEF ConnInv, SameHandshake, StagesAgree
    <3>4. GreetingPassed(x.tcp, x.ps, k, cl)
      BY <1>1, <1>2, <1>8, <2>2, <2>4 DEF ConnInv, SameHandshake, GreetingPassed
    <3>5. Deserved(x.ps, cl)
      BY <1>1, <1>2, <1>8, <2>2, <2>4 DEF ConnInv, SameHandshake, Deserved
    <3>6. SessionAgrees(x.tcp, x.ps, k)
      BY <1>1, <1>2, <1>8, <2>2, <2>4 DEF ConnInv, SameHandshake, SessionAgrees
    <3>7. FramesAgree(x.tcp, x.ps, k)
      BY <1>1, <1>2, <1>8, <2>2, <2>4 DEF ConnInv, SameHandshake, FramesAgree
    <3>8. OneClose(x.tcp, x.ps)
      BY <1>1, <1>2, <1>8, <2>2, <2>4 DEF ConnInv, SameHandshake, OneClose
    <3>9. QED
      BY <1>1, <1>2, <1>8, <2>2, <2>4, <3>1, <3>2, <3>3, <3>4, <3>5, <3>6,
         <3>7, <3>8 DEF ConnInv, WorldType, Stage
  <2>7. Keeps(w, x)
    BY <1>1, <1>2, <2>4 DEF Keeps, Owned
  <2>8. /\ Life(x.tcp, x.ps, k) = "failed" /\ Says(x.ps) = "on_error"
        /\ ~Owes(x.tcp)
    BY <1>1, <1>2, <2>4 DEF Life, Says, Owes
  <2>p. Passes(w.ps, x.ps, cl)
    BY <1>2 DEF Passes
  <2>9. QED
    BY <1>1, <1>10, <2>4, <2>5, <2>6, <2>7, <2>8, <2>p DEF UserStep, Sound, UserMove
<1>12. CASE b # NULL
  <2>1. x = WriteSocket(v)
    BY <1>5, <1>7, <1>12
  <2>2. /\ x \in WorldType /\ x.pool = m /\ x.ps = r /\ SoundSocket(x.tcp)
        /\ x.tcp.status = w.tcp.status /\ ~x.tcp.polling
        /\ x.tcp.write = "queued" /\ x.tcp.shutdown = w.tcp.shutdown
        /\ x.tcp.fault = "none"
    BY <1>1, <1>2, <1>9, <2>1, WriteSocketFields
  <2>3. NextStage(w.ps, x.ps, k) = k
    BY <1>8, <2>2 DEF NextStage
  <2>4. ConnInv(x.tcp, x.ps, k, cl)
    <3>1. BuffersAgree(x.tcp, x.ps, k)
      BY <1>1, <1>2, <1>8, <1>12, <2>2 DEF ConnInv, Open, BuffersAgree
    <3>2. Alternates(x.tcp, k)
      BY <1>1, <1>2, <1>8, <1>12, <2>2 DEF ConnInv, Open, Alternates
    <3>3. StagesAgree(x.tcp, x.ps, k)
      BY <1>1, <1>2, <1>8, <1>12, <2>2 DEF ConnInv, Open, StagesAgree
    <3>4. GreetingPassed(x.tcp, x.ps, k, cl)
      BY <1>1, <1>2, <1>8, <1>12, <2>2 DEF ConnInv, Open, GreetingPassed
    <3>5. Deserved(x.ps, cl)
      BY <1>1, <1>2, <1>8, <1>12, <2>2 DEF ConnInv, Open, Deserved
    <3>6. SessionAgrees(x.tcp, x.ps, k)
      BY <1>1, <1>2, <1>8, <1>12, <2>2 DEF ConnInv, Open, SessionAgrees
    <3>7. FramesAgree(x.tcp, x.ps, k)
      BY <1>1, <1>2, <1>8, <1>12, <2>2 DEF ConnInv, Open, FramesAgree
    <3>8. OneClose(x.tcp, x.ps)
      BY <1>1, <1>2, <1>8, <1>12, <2>2 DEF ConnInv, Open, OneClose
    <3>9. QED
      BY <1>1, <1>2, <1>8, <1>12, <2>2, <3>1, <3>2, <3>3, <3>4, <3>5, <3>6,
         <3>7, <3>8 DEF ConnInv, WorldType, Stage
  <2>5. Keeps(w, x)
    BY <1>1, <1>2, <1>6, <1>8, <1>12, <2>2 DEF Keeps, Owned
  <2>6. /\ Life(x.tcp, x.ps, k) = "forwarding" /\ Says(x.ps) = Says(w.ps)
        /\ Owes(x.tcp) /\ (x.ps.frame # "on_session" \/ w.ps.frame = "on_session")
    BY <1>1, <1>8, <2>2 DEF Life, Says, Owes
  <2>p. Passes(w.ps, x.ps, cl)
    BY <1>2 DEF Passes
  <2>7. QED
    BY <1>6, <1>10, <2>2, <2>3, <2>4, <2>5, <2>6, <2>p DEF UserStep, Sound, UserMove
<1>13. QED
  BY <1>11, <1>12

(* libuv moves on in its own books: a write settles, a timer is due.        *)
LEMMA SilentStep ==
    ASSUME NEW w, NEW st, NEW cl, Sound(w, st, cl), Fine(w),
           NEW t, SoundSocket(t), t.status = w.tcp.status,
           t.polling = w.tcp.polling, t.shutdown = w.tcp.shutdown,
           t.write = "none" <=> w.tcp.write = "none", t.fault = w.tcp.fault,
           NEW x, x.tcp = t, x.ps = w.ps, x.pool = w.pool, x \in WorldType
    PROVE  UserStep(w, st, x, st, cl)
<1>1. /\ w \in WorldType /\ SoundPool(w.pool) /\ ConnInv(w.tcp, w.ps, st, cl)
      /\ w.tcp.fault = "none"
  BY DEF Sound, Fine
<1>2. NextStage(w.ps, x.ps, st) = st
  BY DEF NextStage
<1>3. ConnInv(x.tcp, x.ps, st, cl)
  <2>1. BuffersAgree(x.tcp, x.ps, st)
    BY <1>1 DEF ConnInv, Open, BuffersAgree
  <2>2. Alternates(x.tcp, st)
    BY <1>1 DEF ConnInv, Open, Alternates
  <2>3. StagesAgree(x.tcp, x.ps, st)
    BY <1>1 DEF ConnInv, Open, StagesAgree
  <2>4. GreetingPassed(x.tcp, x.ps, st, cl)
    BY <1>1 DEF ConnInv, Open, GreetingPassed
  <2>5. Deserved(x.ps, cl)
    BY <1>1 DEF ConnInv, Open, Deserved
  <2>6. SessionAgrees(x.tcp, x.ps, st)
    BY <1>1 DEF ConnInv, Open, SessionAgrees
  <2>7. FramesAgree(x.tcp, x.ps, st)
    BY <1>1 DEF ConnInv, Open, FramesAgree
  <2>8. OneClose(x.tcp, x.ps)
    BY <1>1 DEF ConnInv, Open, OneClose
  <2>9. QED
    BY <1>1, <2>1, <2>2, <2>3, <2>4, <2>5, <2>6, <2>7, <2>8 DEF ConnInv,
       WorldType, Stage
<1>4. Keeps(w, x)
  BY <1>1 DEF Keeps, Owned
<1>5. /\ Life(x.tcp, x.ps, st) = Life(w.tcp, w.ps, st)
      /\ Says(x.ps) = Says(w.ps) /\ Owes(x.tcp) = Owes(w.tcp)
  BY <1>1 DEF Life, Owes
<1>p. Passes(w.ps, x.ps, cl)
  BY DEF Passes
<1>6. QED
  BY <1>1, <1>2, <1>3, <1>4, <1>5, <1>p DEF UserStep, Sound, UserMove

(* A callback of the user returns, and what is left of the handler runs: an *)
(* error is over, or the socket is left as it is.                           *)
LEMMA Returned ==
    ASSUME NEW w, NEW st, NEW cl, Sound(w, st, cl), Fine(w),
           w.ps.frame \notin {"none", "on_close"},
           NEW x \in WorldType, SoundPool(x.pool), SoundSocket(x.tcp),
           SameHandshake(w.ps, x.ps), x.ps.frame = "none",
           x.ps.write_buf = w.ps.write_buf,
           x.tcp.write = w.tcp.write, x.tcp.shutdown = w.tcp.shutdown,
           IF w.ps.frame \in {"on_error", "on_tcp_error"}
             THEN x.tcp.status = CLOSING /\ ~x.tcp.polling
             ELSE x.tcp.status = w.tcp.status /\ x.tcp.polling = w.tcp.polling,
           \/ x.tcp.fault = w.tcp.fault
           \/ w.ps.error = "EUNKNOWNADDRTYPE",
           \/ /\ x.ps.fault = "none" /\ Taken(x.pool) = Taken(w.pool)
              /\ x.ps.read_buf = w.ps.read_buf
           \/ /\ w.ps.frame \in {"on_EOF", "on_tcp_error"}
              /\ x.ps.read_buf = NULL
              /\ \/ /\ x.ps.fault = "none"
                    /\ Taken(x.pool) = Taken(w.pool) \ {w.ps.read_buf}
                 \/ x.ps.fault = "double_free"
    PROVE  UserStep(w, st, x, st, cl)
<1>1. /\ w \in WorldType /\ SoundPool(w.pool) /\ ConnInv(w.tcp, w.ps, st, cl)
      /\ SoundSocket(w.tcp) /\ w.ps.fault = "none" /\ w.tcp.fault = "none"
  BY DEF Sound, ConnInv, Fine
<1>2. /\ w.tcp.status # CLOSED
      /\ w.ps.frame \in {"on_error", "on_tcp_error"} => Open(w.tcp)
      /\ w.ps.frame = "on_EOF" => st # "on_read"
  BY <1>1 DEF ConnInv, FramesAgree
<1>3. /\ w.ps.frame \in {"on_error", "on_tcp_error"} =>
           w.tcp.status \notin {INVALID, CLOSING, CLOSED}
      /\ x.tcp.status = CLOSING => x.tcp.status >= CLOSING
  <2>1. x.tcp.status = CLOSING => x.tcp.status >= CLOSING
    OBVIOUS
  <2>2. Open(w.tcp) => w.tcp.status \notin {INVALID, CLOSING, CLOSED}
    BY <1>1, SoundOpen
  <2>3. QED
    BY <1>2, <2>1, <2>2
<1>4. NextStage(w.ps, x.ps, st) = st
  BY DEF NextStage
<1>5. ConnInv(x.tcp, x.ps, st, cl)
  <2>1. BuffersAgree(x.tcp, x.ps, st)
    BY <1>1, <1>2, <1>3 DEF ConnInv, SameHandshake, Open, BuffersAgree
  <2>2. Alternates(x.tcp, st)
    BY <1>1, <1>2, <1>3 DEF ConnInv, SameHandshake, Open, Alternates
  <2>3. StagesAgree(x.tcp, x.ps, st)
    BY <1>1, <1>2, <1>3 DEF ConnInv, SameHandshake, Open, StagesAgree
  <2>4. GreetingPassed(x.tcp, x.ps, st, cl)
    BY <1>1, <1>2, <1>3 DEF ConnInv, SameHandshake, Open, GreetingPassed
  <2>5. Deserved(x.ps, cl)
    BY <1>1, <1>2, <1>3 DEF ConnInv, SameHandshake, Open, Deserved
  <2>6. SessionAgrees(x.tcp, x.ps, st)
    BY <1>1, <1>2, <1>3 DEF ConnInv, SameHandshake, Open, SessionAgrees
  <2>7. FramesAgree(x.tcp, x.ps, st)
    BY <1>1, <1>2, <1>3 DEF ConnInv, SameHandshake, Open, FramesAgree
  <2>8. OneClose(x.tcp, x.ps)
    BY <1>1, <1>2, <1>3 DEF ConnInv, SameHandshake, Open, OneClose
  <2>9. QED
    BY <1>1, <1>2, <1>3, <2>1, <2>2, <2>3, <2>4, <2>5, <2>6, <2>7, <2>8 DEF
       ConnInv, WorldType, Stage
<1>6. Keeps(w, x)
  BY <1>1, <1>2, <1>3 DEF Keeps, Fine, Owned
<1>7. /\ Life(x.tcp, x.ps, st) =
           IF Life(w.tcp, w.ps, st) = "failed" THEN "closing"
           ELSE Life(w.tcp, w.ps, st)
      /\ Says(w.ps) # "none" /\ Says(x.ps) = "none" /\ Owes(x.tcp) = Owes(w.tcp)
  <2>1. st \in Stage
    BY <1>1 DEF ConnInv
  <2>2. Says(w.ps) # "none" /\ Says(x.ps) = "none" /\ Owes(x.tcp) = Owes(w.tcp)
    BY DEF Says, Owes
  <2>3. CASE w.ps.frame \in {"on_error", "on_tcp_error"}
    BY <1>1, <1>3, <2>2, <2>3 DEF Life
  <2>4. CASE w.ps.frame \notin {"on_error", "on_tcp_error"}
    BY <2>1, <2>2, <2>4 DEF Life, Stage
  <2>5. QED
    BY <2>3, <2>4
<1>p. Passes(w.ps, x.ps, cl)
  BY DEF SameHandshake, Passes
<1>8. QED
  BY <1>1, <1>4, <1>5, <1>6, <1>7, <1>p DEF UserStep, Sound, UserMove

(* __notify_error goes on.                                                  *)
LEMMA ReturnErrorStep ==
    ASSUME NEW w, NEW st, NEW cl, Sound(w, st, cl), Fine(w),
           w.ps.frame = "on_error"
    PROVE  UserStep(w, st, AfterNotify(w), st, cl)
<1> DEFINE twice == w.ps.error = "EUNKNOWNADDRTYPE"
           t == IF twice THEN TcpClose(TcpClose(w.tcp)) ELSE TcpClose(w.tcp)
           u == [w EXCEPT !.tcp = t]
           x == AfterNotify(w)
<1>1. /\ w \in WorldType /\ SoundPool(w.pool) /\ ConnInv(w.tcp, w.ps, st, cl)
      /\ SoundSocket(w.tcp) /\ w.ps.fault = "none" /\ w.tcp.fault = "none"
  BY DEF Sound, ConnInv, Fine
<1>2. Open(w.tcp)
  BY <1>1 DEF ConnInv, FramesAgree
<1>3. /\ SoundSocket(t) /\ t.status = CLOSING /\ ~t.polling
      /\ t.write = w.tcp.write /\ t.shutdown = w.tcp.shutdown
      /\ t.fault = "none" \/ twice
      /\ t \in SocketType
  <2>1. CASE twice
    BY <1>1, <1>2, <2>1, SoundCloseTwice DEF SoundSocket
  <2>2. CASE ~twice
    BY <1>1, <1>2, <2>2, SoundClose DEF SoundSocket
  <2>3. QED
    BY <2>1, <2>2
<1>4. x = Done(u)
  <2>1. CASE twice
    <3>1. ProxyClose(ProxyClose(w)) = [w EXCEPT !.tcp = TcpClose(TcpClose(w.tcp))]
      BY <1>1 DEF ProxyClose, WorldType
    <3>2. QED
      BY <2>1, <3>1 DEF AfterNotify
  <2>2. CASE ~twice
    BY <2>2 DEF AfterNotify, ProxyClose
  <2>3. QED
    BY <2>1, <2>2
<1> HIDE DEF t, x
<1>5. u \in WorldType /\ u.tcp = t /\ u.pool = w.pool /\ u.ps = w.ps
  BY <1>1, <1>3, PutTcp
<1> HIDE DEF u
<1>6. /\ x \in WorldType /\ x.pool = w.pool /\ SoundSocket(x.tcp)
      /\ x.tcp.status = CLOSING /\ ~x.tcp.polling
      /\ x.tcp.write = w.tcp.write /\ x.tcp.shutdown = w.tcp.shutdown
      /\ x.tcp.fault = "none" \/ twice
      /\ SameHandshake(w.ps, x.ps) /\ x.ps.frame = "none"
      /\ x.ps.fault = "none" /\ x.ps.read_buf = w.ps.read_buf
      /\ x.ps.write_buf = w.ps.write_buf
  BY <1>1, <1>3, <1>4, <1>5, DoneFields DEF SameButFrame
<1>7. UserStep(w, st, x, st, cl)
  BY <1>1, <1>6, Returned
<1>8. QED
  BY <1>7 DEF x

(* The read callback goes on after on_EOF.                                  *)
LEMMA ReturnEOFStep ==
    ASSUME NEW w, NEW st, NEW cl, Sound(w, st, cl), Fine(w),
           w.ps.frame = "on_EOF"
    PROVE  UserStep(w, st, AfterEOF(w), st, cl)
<1> DEFINE r == ReleaseRead(w)
           x == AfterEOF(w)
<1>1. /\ w \in WorldType /\ SoundPool(w.pool)
      /\ SoundSocket(w.tcp) /\ w.ps.fault = "none" /\ w.tcp.fault = "none"
  BY DEF Sound, ConnInv, Fine
<1>2. x = Done(r)
  BY DEF AfterEOF
<1>3. /\ r \in WorldType /\ r.tcp = w.tcp /\ SoundPool(r.pool)
      /\ SameHandshake(w.ps, r.ps)
      /\ r.ps.read_buf = NULL /\ r.ps.write_buf = w.ps.write_buf
      /\ \/ /\ r.ps.fault = "none"
            /\ Taken(r.pool) = Taken(w.pool) \ {w.ps.read_buf}
         \/ r.ps.fault = "double_free"
  BY <1>1, ReleaseReadFields
<1> HIDE DEF r, x
<1>4. /\ x \in WorldType /\ SoundPool(x.pool) /\ SoundSocket(x.tcp)
      /\ x.tcp.status = w.tcp.status /\ x.tcp.polling = w.tcp.polling
      /\ x.tcp.write = w.tcp.write /\ x.tcp.shutdown = w.tcp.shutdown
      /\ x.tcp.fault = w.tcp.fault
      /\ SameHandshake(w.ps, x.ps) /\ x.ps.frame = "none"
      /\ x.ps.read_buf = NULL /\ x.ps.write_buf = w.ps.write_buf
      /\ \/ /\ x.ps.fault = "none"
            /\ Taken(x.pool) = Taken(w.pool) \ {w.ps.read_buf}
         \/ x.ps.fault = "double_free"
  BY <1>1, <1>2, <1>3, DoneFields DEF SameButFrame, SameHandshake
<1>5. UserStep(w, st, x, st, cl)
  BY <1>4, Returned
<1>6. QED
  BY <1>5 DEF x

(* handle_error goes on after on_error: it closes, and the callback that    *)
(* called it may report the failure once more.                              *)
LEMMA ReturnTcpErrorStep ==
    ASSUME NEW w, NEW st, NEW cl, Sound(w, st, cl), Fine(w),
           w.ps.frame = "on_tcp_error",
           NEW u \in WorldType, u.tcp = AfterError(w.tcp), u.pool = w.pool,
           SameHandshake(w.ps, u.ps), u.ps.frame = "none",
           u.ps.fault = w.ps.fault, u.ps.read_buf = w.ps.read_buf,
           u.ps.write_buf = w.ps.write_buf
    PROVE  UserStep(w, st, Dispatch(u, "gerr", cl, TRUE), st, cl)
<1> DEFINE t == AfterError(w.tcp)
           r == ReleaseRead(u)
           x == Dispatch(u, "gerr", cl, TRUE)
<1>1. /\ w \in WorldType /\ SoundPool(w.pool) /\ ConnInv(w.tcp, w.ps, st, cl)
      /\ SoundSocket(w.tcp) /\ w.ps.fault = "none" /\ w.tcp.fault = "none"
      /\ w.ps \in ProxyType
  BY DEF Sound, ConnInv, Fine
<1>2. Open(w.tcp)
  BY <1>1 DEF ConnInv, FramesAgree
<1>3. /\ SoundSocket(t) /\ t.status = CLOSING /\ ~t.polling
      /\ t.write = w.tcp.write /\ t.shutdown = w.tcp.shutdown
      /\ t.fault = "none" /\ t \in SocketType
      /\ t.frame \in {"loop", "on_read_err", "on_write_err"}
  BY <1>1, <1>2, SoundAfterError DEF SoundSocket
<1>4. u.tcp = t
  OBVIOUS
<1> HIDE DEF t
<1>6. /\ x \in WorldType /\ SoundPool(x.pool) /\ SoundSocket(x.tcp)
      /\ x.tcp.status = CLOSING /\ ~x.tcp.polling
      /\ x.tcp.write = w.tcp.write /\ x.tcp.shutdown = w.tcp.shutdown
      /\ x.tcp.fault = "none"
      /\ SameHandshake(w.ps, x.ps) /\ x.ps.frame = "none"
      /\ x.ps.write_buf = w.ps.write_buf
      /\ \/ /\ x.ps.fault = "none" /\ Taken(x.pool) = Taken(w.pool)
            /\ x.ps.read_buf = w.ps.read_buf
         \/ /\ x.ps.read_buf = NULL
            /\ \/ /\ x.ps.fault = "none"
                  /\ Taken(x.pool) = Taken(w.pool) \ {w.ps.read_buf}
               \/ x.ps.fault = "double_free"
  <2>1. CASE t.frame = "loop"
    <3>1. x = u
      BY <1>4, <2>1, Dispatched
    <3>2. QED
      BY <1>1, <1>3, <1>4, <3>1
  <2>2. CASE t.frame = "on_write_err"
    <3>1. x = Done(u)
      BY <1>4, <2>2, Dispatched
    <3> HIDE DEF x
    <3>2. QED
      BY <1>1, <1>3, <1>4, <3>1, DoneFields DEF SameButFrame, SameHandshake
  <2>3. CASE t.frame = "on_read_err"
    <3>1. x = Done(r)
      BY <1>4, <2>3, Dispatched
    <3>2. /\ r \in WorldType /\ r.tcp = t /\ SoundPool(r.pool)
          /\ SameHandshake(w.ps, r.ps)
          /\ r.ps.read_buf = NULL /\ r.ps.write_buf = w.ps.write_buf
          /\ \/ /\ r.ps.fault = "none"
                /\ Taken(r.pool) = Taken(w.pool) \ {w.ps.read_buf}
             \/ r.ps.fault = "double_free"
      <4>1. SoundPool(u.pool)
        BY <1>1
      <4>2. /\ r \in WorldType /\ r.tcp = u.tcp /\ SoundPool(r.pool)
            /\ SameHandshake(u.ps, r.ps)
            /\ r.ps.read_buf = NULL /\ r.ps.write_buf = u.ps.write_buf
            /\ \/ /\ r.ps.fault = u.ps.fault
                  /\ Taken(r.pool) = Taken(u.pool) \ {u.ps.read_buf}
               \/ r.ps.fault = "double_free"
        BY <4>1, ReleaseReadFields
      <4> HIDE DEF r
      <4>3. QED
        BY <1>1, <1>4, <4>2 DEF SameHandshake
    <3> HIDE DEF r, x
    <3>3. /\ x \in WorldType /\ x.pool = r.pool
          /\ SoundSocket(x.tcp) /\ SameButFrame(t, x.tcp)
          /\ SameHandshake(r.ps, x.ps) /\ x.ps.frame = "none"
          /\ x.ps.fault = r.ps.fault /\ x.ps.read_buf = NULL
          /\ x.ps.write_buf = w.ps.write_buf
      BY <1>3, <3>1, <3>2, DoneFields
    <3>4. QED
      BY <1>3, <1>4, <3>2, <3>3 DEF SameButFrame, SameHandshake
  <2>4. QED
    BY <1>3, <2>1, <2>2, <2>3
<1> HIDE DEF x
<1>7. UserStep(w, st, x, st, cl)
  BY <1>1, <1>6, Returned
<1>8. QED
  BY <1>7 DEF x

(* on_close: the user frees the session.                                    *)
LEMMA ReturnCloseStep ==
    ASSUME NEW w, NEW st, NEW cl, Sound(w, st, cl), Fine(w),
           w.ps.frame = "on_close"
    PROVE  UserStep(w, st, Done([w EXCEPT !.ps.session = SessionFree(@)]), st, cl)
<1> DEFINE n == SessionFree(w.ps.session)
           q == [w.ps EXCEPT !.session = n]
           u == [w EXCEPT !.ps = q]
           x == Done(u)
<1>1. /\ w \in WorldType /\ SoundPool(w.pool) /\ ConnInv(w.tcp, w.ps, st, cl)
      /\ SoundSocket(w.tcp) /\ w.ps.fault = "none" /\ w.tcp.fault = "none"
      /\ w.ps \in ProxyType
  BY DEF Sound, ConnInv, Fine
<1>2. w.tcp.status = CLOSED /\ w.ps.session \in SessionType
      /\ w.ps.session.live = Held(w.ps.session)
  BY <1>1 DEF ConnInv, FramesAgree, SessionAgrees, ProxyType
<1>3. /\ n \in SessionType /\ n.live = 0 /\ n.in_len = w.ps.session.in_len
      /\ n.in6_len = w.ps.session.in6_len
  BY <1>2 DEF SessionFree, SessionType, Held
<1> HIDE DEF n
<1>4. /\ q \in ProxyType /\ q.read_pos = w.ps.read_pos
      /\ q.read_status = w.ps.read_status /\ q.write_status = w.ps.write_status
      /\ q.session = n /\ q.error = w.ps.error /\ q.fault = "none"
      /\ q.read_buf = w.ps.read_buf /\ q.write_buf = w.ps.write_buf
  BY <1>1, <1>3 DEF ProxyType
<1> HIDE DEF q
<1>5. u \in WorldType /\ u.tcp = w.tcp /\ u.pool = w.pool /\ u.ps = q
  BY <1>1, <1>4 DEF WorldType
<1>6. [w EXCEPT !.ps.session = SessionFree(@)] = u
  BY <1>1 DEF n, q, WorldType
<1> HIDE DEF u
<1>7. /\ x \in WorldType /\ x.pool = w.pool
      /\ SoundSocket(x.tcp) /\ SameButFrame(w.tcp, x.tcp)
      /\ SameHandshake(q, x.ps) /\ x.ps.frame = "none"
      /\ x.ps.fault = "none" /\ x.ps.read_buf = w.ps.read_buf
      /\ x.ps.write_buf = w.ps.write_buf
  BY <1>1, <1>4, <1>5, DoneFields
<1> HIDE DEF x
<1>8. NextStage(w.ps, x.ps, st) = st
  BY <1>7 DEF NextStage
<1>9. ConnInv(x.tcp, x.ps, st, cl)
  <2>1. BuffersAgree(x.tcp, x.ps, st)
    BY <1>1, <1>2, <1>3, <1>4, <1>7 DEF ConnInv, SameHandshake, SameButFrame,
       Open, BuffersAgree
  <2>2. Alternates(x.tcp, st)
    BY <1>1, <1>2, <1>3, <1>4, <1>7 DEF ConnInv, SameHandshake, SameButFrame,
       Open, Alternates
  <2>3. StagesAgree(x.tcp, x.ps, st)
    BY <1>1, <1>2, <1>3, <1>4, <1>7 DEF ConnInv, SameHandshake, SameButFrame,
       Open, StagesAgree
  <2>4. GreetingPassed(x.tcp, x.ps, st, cl)
    BY <1>1, <1>2, <1>3, <1>4, <1>7 DEF ConnInv, SameHandshake, SameButFrame,
       Open, GreetingPassed
  <2>5. Deserved(x.ps, cl)
    BY <1>1, <1>2, <1>3, <1>4, <1>7 DEF ConnInv, SameHandshake, SameButFrame,
       Open, Deserved
  <2>6. SessionAgrees(x.tcp, x.ps, st)
    BY <1>1, <1>2, <1>3, <1>4, <1>7 DEF ConnInv, SameHandshake, SameButFrame,
       Open, SessionAgrees
  <2>7. FramesAgree(x.tcp, x.ps, st)
    BY <1>1, <1>2, <1>3, <1>4, <1>7 DEF ConnInv, SameHandshake, SameButFrame,
       Open, FramesAgree
  <2>8. OneClose(x.tcp, x.ps)
    BY <1>1, <1>2, <1>3, <1>4, <1>7 DEF ConnInv, SameHandshake, SameButFrame,
       Open, OneClose
  <2>9. QED
    BY <1>1, <1>2, <1>3, <1>4, <1>7, <2>1, <2>2, <2>3, <2>4, <2>5, <2>6, <2>7,
       <2>8 DEF ConnInv, WorldType, Stage
<1>10. Keeps(w, x)
  BY <1>1, <1>2, <1>7 DEF Keeps, Owned, SameButFrame
<1>11. /\ Life(x.tcp, x.ps, st) = "idle" /\ Life(w.tcp, w.ps, st) = "idle"
       /\ Says(w.ps) = "on_close" /\ Says(x.ps) = "none"
       /\ Owes(x.tcp) = Owes(w.tcp)
  BY <1>2, <1>7 DEF Life, Says, Owes, SameButFrame
<1>p. Passes(w.ps, x.ps, cl)
  BY <1>4, <1>7 DEF SameHandshake, Passes
<1>12. UserStep(w, st, x, st, cl)
  BY <1>1, <1>7, <1>8, <1>9, <1>10, <1>11, <1>p DEF UserStep, Sound, UserMove
<1>13. QED
  BY <1>6, <1>12 DEF x

(* on_session, on_read or on_shutdown.                                      *)
LEMMA ReturnStep ==
    ASSUME NEW w, NEW st, NEW cl, Sound(w, st, cl), Fine(w),
           w.ps.frame \in {"on_session", "on_read", "on_shutdown"}
    PROVE  UserStep(w, st, Done(w), st, cl)
<1> DEFINE x == Done(w)
<1>1. /\ w \in WorldType /\ SoundPool(w.pool)
      /\ SoundSocket(w.tcp) /\ w.ps.fault = "none"
  BY DEF Sound, ConnInv, Fine
<1>2. /\ x \in WorldType /\ x.pool = w.pool
      /\ SoundSocket(x.tcp) /\ SameButFrame(w.tcp, x.tcp)
      /\ SameHandshake(w.ps, x.ps) /\ x.ps.frame = "none"
      /\ x.ps.fault = "none" /\ x.ps.read_buf = w.ps.read_buf
      /\ x.ps.write_buf = w.ps.write_buf
  BY <1>1, DoneFields
<1> HIDE DEF x
<1>3. /\ x.tcp.status = w.tcp.status /\ x.tcp.polling = w.tcp.polling
      /\ x.tcp.write = w.tcp.write /\ x.tcp.shutdown = w.tcp.shutdown
      /\ x.tcp.fault = w.tcp.fault
  BY <1>2 DEF SameButFrame
<1>4. UserStep(w, st, x, st, cl)
  BY <1>1, <1>2, <1>3, Returned
<1>5. QED
  BY <1>4 DEF x
-----------------------------------------------------------------------------
(* From the step of one connection to a step of all.                        *)

(* The step of connection c leaves it with the world x, at the stage k and  *)
(* with the client cl.                                                      *)
Leaves(c, x, k, cl) ==
    /\ tcp'    = [tcp EXCEPT ![c] = x.tcp]
    /\ ps'     = [ps EXCEPT ![c] = x.ps]
    /\ pool'   = x.pool
    /\ stage'  = [stage EXCEPT ![c] = k]
    /\ client' = [client EXCEPT ![c] = cl]

(* What every step of a connection is.                                      *)
Moves(c, x, k, cl) ==
    /\ Running
    /\ Leaves(c, x, k, cl)
    /\ Sound(x, k, cl)
    /\ Keeps(World(c), x)
    /\ x.ps.frame = "on_session" /\ ps[c].frame # "on_session"
         => cl = client[c] /\ Earned(x.ps, cl)
    /\ x.ps.read_status # PS5RVERSION
         => cl = client[c] /\ Passes(ps[c], x.ps, cl)
    /\ Fine(x) =>
         \/ /\ Idle
            /\ LoopMove(Life(tcp[c], ps[c], stage[c]), Owes(tcp[c]),
                        Life(x.tcp, x.ps, k), Says(x.ps), Owes(x.tcp))
         \/ UserMove(Life(tcp[c], ps[c], stage[c]), Says(ps[c]), Owes(tcp[c]),
                     Life(x.tcp, x.ps, k), Says(x.ps), Owes(x.tcp))

Steps(c) == \E x, k, cl : Moves(c, x, k, cl)
-----------------------------------------------------------------------------
(* What the invariant says of one connection.                               *)
LEMMA InvSound ==
    ASSUME Inv, NEW c \in Conn
    PROVE  /\ Sound(World(c), stage[c], client[c])
           /\ World(c).tcp = tcp[c] /\ World(c).ps = ps[c] /\ World(c).pool = pool
           /\ Running => Fine(World(c))
           /\ InLoop => /\ LoopTurn(World(c), stage[c], client[c])
                        /\ tcp[c].frame = "loop"
           /\ UserTurn(c) => UserReady(World(c), stage[c], client[c])
<1>1. ConnInv(tcp[c], ps[c], stage[c], client[c]) /\ SoundPool(pool)
  BY DEF Inv, ConnsInv
<1>2. World(c).tcp = tcp[c] /\ World(c).ps = ps[c] /\ World(c).pool = pool
  BY DEF World
<1>3. World(c) \in WorldType
  BY <1>1 DEF World, WorldType, ConnInv, SoundSocket, SoundPool
<1>4. Sound(World(c), stage[c], client[c])
  BY <1>1, <1>2, <1>3 DEF Sound
<1>5. Running => Fine(World(c))
  BY <1>2 DEF Running, Fine
<1>6. InLoop => /\ LoopTurn(World(c), stage[c], client[c])
                /\ tcp[c].frame = "loop"
  BY <1>2, <1>4, <1>5 DEF InLoop, Idle, LoopTurn
<1>7. ConnInv(tcp[c], ps[c], stage[c], client[c]) => tcp[c].status \in Status
  BY DEF ConnInv, SoundSocket, SocketType
<1>8. UserTurn(c) => UserReady(World(c), stage[c], client[c])
  BY <1>2, <1>4, <1>5 DEF UserTurn, UserReady, Open
<1>9. QED
  BY <1>2, <1>4, <1>5, <1>6, <1>8

(* A handler that the loop calls.                                           *)
LEMMA LoopSteps ==
    ASSUME Inv, InLoop, NEW c \in Conn, NEW x, Becomes(c, x, stage[c]),
           LoopStep(World(c), stage[c], x, client[c])
    PROVE  Steps(c)
<1> DEFINE k == NextStage(ps[c], x.ps, stage[c])
<1>1. World(c).tcp = tcp[c] /\ World(c).ps = ps[c]
  BY InvSound
<1>2. Leaves(c, x, k, client[c])
  BY DEF Becomes, Told, Leaves, NextStage, Inv, TypeOK
<1>3. /\ Sound(x, k, client[c]) /\ Keeps(World(c), x)
      /\ x.ps.frame = "on_session" => Earned(x.ps, client[c])
      /\ Passes(ps[c], x.ps, client[c])
      /\ Fine(x) => LoopMove(Life(tcp[c], ps[c], stage[c]), Owes(tcp[c]),
                             Life(x.tcp, x.ps, k), Says(x.ps), Owes(x.tcp))
  BY <1>1 DEF LoopStep
<1> HIDE DEF k
<1>4. Moves(c, x, k, client[c])
  BY <1>2, <1>3 DEF Moves, InLoop
<1>5. QED
  BY <1>4 DEF Steps

(* What the user does, or time and libuv do without a callback.             *)
LEMMA UserSteps ==
    ASSUME Inv, Running, NEW c \in Conn, NEW x, NEW s, Becomes(c, x, s),
           UserStep(World(c), stage[c], x, s, client[c])
    PROVE  Steps(c)
<1> DEFINE k == NextStage(ps[c], x.ps, s)
<1>1. World(c).tcp = tcp[c] /\ World(c).ps = ps[c]
  BY InvSound
<1>2. Leaves(c, x, k, client[c])
  BY DEF Becomes, Told, Leaves, NextStage, Inv, TypeOK
<1>3. /\ Sound(x, k, client[c]) /\ Keeps(World(c), x)
      /\ x.ps.frame # "on_session" \/ ps[c].frame = "on_session"
      /\ Passes(ps[c], x.ps, client[c])
      /\ Fine(x) => UserMove(Life(tcp[c], ps[c], stage[c]), Says(ps[c]),
                             Owes(tcp[c]), Life(x.tcp, x.ps, k), Says(x.ps),
                             Owes(x.tcp))
  BY <1>1 DEF UserStep
<1> HIDE DEF k
<1>4. Moves(c, x, k, client[c])
  BY <1>2, <1>3 DEF Moves
<1>5. QED
  BY <1>4 DEF Steps
-----------------------------------------------------------------------------
(* The user's actions.                                                      *)
LEMMA StartForwardingSteps ==
    ASSUME Inv, NEW c \in Conn, NEW calloc \in BOOLEAN, StartForwarding(c, calloc)
    PROVE  Steps(c)
<1> DEFINE x == ForwardHandle(World(c), calloc)
<1>1. Running /\ UserTurn(c) /\ stage[c] = "on_session" /\ Becomes(c, x, "forwarding")
  BY DEF StartForwarding, UserTurn
<1>2. UserReady(World(c), stage[c], client[c])
  BY <1>1, InvSound
<1>3. UserStep(World(c), stage[c], x, "forwarding", client[c])
  BY <1>1, <1>2, ForwardStep
<1> HIDE DEF x
<1>4. QED
  BY <1>1, <1>3, UserSteps

(* The user writes back what it was given.                                  *)
LEMMA EchoSteps ==
    ASSUME Inv, NEW c \in Conn, Echo(c)
    PROVE  Steps(c)
<1> DEFINE x == WriteSocket([World(c) EXCEPT !.ps.write_buf = ps[c].read_buf,
                                             !.ps.read_buf = NULL])
<1>1. Running /\ UserTurn(c) /\ stage[c] = "on_read" /\ Becomes(c, x, "forwarding")
  BY DEF Echo, UserTurn
<1>2. UserReady(World(c), stage[c], client[c]) /\ World(c).ps = ps[c]
  BY <1>1, InvSound
<1>3. x = WriteSocket([World(c) EXCEPT !.ps.write_buf = World(c).ps.read_buf,
                                       !.ps.read_buf = NULL])
  BY <1>2
<1> HIDE DEF x
<1>4. UserStep(World(c), stage[c], x, "forwarding", client[c])
  BY <1>1, <1>2, <1>3, EchoStep
<1>5. QED
  BY <1>1, <1>4, UserSteps

(* The user shuts down.                                                     *)
LEMMA ShutdownSteps ==
    ASSUME Inv, NEW c \in Conn, Shutdown(c)
    PROVE  Steps(c)
<1> DEFINE x == ProxyShutdown(World(c))
<1>1. /\ Running /\ UserTurn(c) /\ stage[c] \in {"forwarding", "on_read"}
      /\ Becomes(c, x, stage[c])
  BY DEF Shutdown, UserTurn
<1>2. UserReady(World(c), stage[c], client[c])
  BY <1>1, InvSound
<1>3. UserStep(World(c), stage[c], x, stage[c], client[c])
  BY <1>1, <1>2, ShutdownStep
<1> HIDE DEF x
<1>4. QED
  BY <1>1, <1>3, UserSteps

(* The user closes.                                                         *)
LEMMA CloseSteps ==
    ASSUME Inv, NEW c \in Conn, Close(c)
    PROVE  Steps(c)
<1> DEFINE x == ProxyClose(World(c))
<1>1. Running /\ UserTurn(c) /\ Becomes(c, x, stage[c])
  BY DEF Close, UserTurn
<1>2. UserReady(World(c), stage[c], client[c])
  BY <1>1, InvSound
<1>3. UserStep(World(c), stage[c], x, stage[c], client[c])
  BY <1>2, CloseStep
<1> HIDE DEF x
<1>4. QED
  BY <1>1, <1>3, UserSteps

(* The rest of a handler, by the callback that returns.                     *)
LEMMA ReturnSteps ==
    ASSUME Inv, NEW c \in Conn, Return(c)
    PROVE  Steps(c)
<1> DEFINE w == World(c)
           back == [w EXCEPT !.ps.frame = "none"]
           u == [back EXCEPT !.tcp = AfterError(@)]
           st == stage[c]
           cl == client[c]
<1>1. /\ Running /\ ps[c].frame # "none"
      /\ Becomes(c, CASE ps[c].frame = "on_error" -> AfterNotify(w)
                      [] ps[c].frame = "on_EOF"   -> AfterEOF(w)
                      [] ps[c].frame = "on_tcp_error" -> Dispatch(u, "gerr", cl, TRUE)
                      [] ps[c].frame = "on_close" ->
                             Done([w EXCEPT !.ps.session = SessionFree(@)])
                      [] OTHER -> Done(w), st)
  BY DEF Return
<1>2. /\ Sound(w, st, cl) /\ Fine(w) /\ w.ps = ps[c]
      /\ w \in WorldType /\ SoundSocket(w.tcp) /\ w.ps \in ProxyType
      /\ "none" \in ProxyFrame
  BY <1>1, InvSound DEF Sound, ConnInv, ProxyFrame
<1>3. w.ps.frame \in ProxyFrame
  BY <1>2 DEF ProxyType
<1>4. CASE ps[c].frame = "on_error"
  <2>1. Becomes(c, AfterNotify(w), st)
    BY <1>1, <1>4
  <2>2. UserStep(w, st, AfterNotify(w), st, cl)
    BY <1>2, <1>4, ReturnErrorStep
  <2>3. QED
    BY <1>1, <2>1, <2>2, UserSteps
<1>5. CASE ps[c].frame = "on_EOF"
  <2>1. Becomes(c, AfterEOF(w), st)
    BY <1>1, <1>5
  <2>2. UserStep(w, st, AfterEOF(w), st, cl)
    BY <1>2, <1>5, ReturnEOFStep
  <2>3. QED
    BY <1>1, <2>1, <2>2, UserSteps
<1>6. CASE ps[c].frame = "on_tcp_error"
  <2> DEFINE q == [w.ps EXCEPT !.frame = "none"]
             x == Dispatch(u, "gerr", cl, TRUE)
  <2>1. Becomes(c, x, st)
    BY <1>1, <1>6
  <2>2. /\ q \in ProxyType /\ SameHandshake(w.ps, q) /\ q.frame = "none"
        /\ q.fault = w.ps.fault /\ q.read_buf = w.ps.read_buf
        /\ q.write_buf = w.ps.write_buf
    BY <1>2, PutFrame
  <2>3. back = [w EXCEPT !.ps = q]
    OBVIOUS
  <2> HIDE DEF q
  <2>4. /\ back \in WorldType /\ back.tcp = w.tcp /\ back.pool = w.pool
        /\ back.ps = q
    BY <1>2, <2>2, <2>3 DEF WorldType
  <2> HIDE DEF back
  <2>5. Open(w.tcp)
    BY <1>2, <1>6 DEF Sound, ConnInv, FramesAgree
  <2>6. AfterError(w.tcp) \in SocketType
    BY <1>2, <2>5, SoundAfterError DEF SoundSocket
  <2>7. u = [back EXCEPT !.tcp = AfterError(w.tcp)]
    BY <2>4
  <2> HIDE DEF u
  <2>8. /\ u \in WorldType /\ u.tcp = AfterError(w.tcp) /\ u.pool = w.pool
        /\ u.ps = q
    BY <2>4, <2>6, <2>7, PutTcp
  <2>9. UserStep(w, st, x, st, cl)
    BY <1>2, <1>6, <2>2, <2>8, ReturnTcpErrorStep
  <2> HIDE DEF x
  <2>10. QED
    BY <1>1, <2>1, <2>9, UserSteps
<1>7. CASE ps[c].frame = "on_close"
  <2> DEFINE x == Done([w EXCEPT !.ps.session = SessionFree(@)])
  <2>1. Becomes(c, x, st)
    BY <1>1, <1>7
  <2>2. UserStep(w, st, x, st, cl)
    BY <1>2, <1>7, ReturnCloseStep
  <2> HIDE DEF x
  <2>3. QED
    BY <1>1, <2>1, <2>2, UserSteps
<1>8. CASE ps[c].frame \in {"on_session", "on_read", "on_shutdown"}
  <2>1. Becomes(c, Done(w), st)
    BY <1>1, <1>8
  <2>2. UserStep(w, st, Done(w), st, cl)
    BY <1>2, <1>8, ReturnStep
  <2>3. QED
    BY <1>1, <2>1, <2>2, UserSteps
<1>9. QED
  BY <1>1, <1>2, <1>3, <1>4, <1>5, <1>6, <1>7, <1>8 DEF ProxyFrame

(* All of them.                                                             *)
LEMMA UserActionSteps ==
    ASSUME Inv, NEW c \in Conn, User(c)
    PROVE  Steps(c)
  BY EchoSteps, ShutdownSteps, CloseSteps, ReturnSteps, StartForwardingSteps
  DEF User
-----------------------------------------------------------------------------
(* The loop's actions.  A connection is accepted in fresh memory.           *)
LEMMA AcceptSteps ==
    ASSUME Inv, NEW c \in Conn, Accept(c)
    PROVE  Steps(c)
<1>1. InLoop /\ tcp[c].status \in {INVALID, CLOSED} /\ Running /\ Idle
  BY DEF Accept, InLoop
<1>2. PICK who \in Script :
        LET w == Done(ProxyStart([World(c) EXCEPT
                     !.tcp = Accepted(FreshSocket),
                     !.ps  = [FreshProxy EXCEPT !.session = NewSession(who.host)]]))
        IN  /\ tcp'    = [tcp EXCEPT ![c] = w.tcp]
            /\ ps'     = [ps EXCEPT ![c] = w.ps]
            /\ client' = [client EXCEPT ![c] = who]
            /\ stage'  = [stage EXCEPT ![c] = "handshake"]
            /\ UNCHANGED pool
  BY DEF Accept
<1> DEFINE x == Done(ProxyStart([World(c) EXCEPT
                   !.tcp = Accepted(FreshSocket),
                   !.ps  = [FreshProxy EXCEPT !.session = NewSession(who.host)]]))
<1>3. /\ LoopTurn(World(c), stage[c], client[c]) /\ World(c).tcp = tcp[c]
      /\ World(c).ps = ps[c] /\ World(c).pool = pool
  BY <1>1, InvSound
<1>4. /\ tcp' = [tcp EXCEPT ![c] = x.tcp] /\ ps' = [ps EXCEPT ![c] = x.ps]
      /\ client' = [client EXCEPT ![c] = who] /\ pool' = pool
      /\ stage' = [stage EXCEPT ![c] = "handshake"]
  BY <1>2
<1>5. x = Done(ProxyStart([World(c) EXCEPT
             !.tcp = Accepted(FreshSocket),
             !.ps  = [FreshProxy EXCEPT !.session = NewSession(who.host)]]))
  OBVIOUS
<1> HIDE DEF x
<1>6. /\ Sound(x, "handshake", who) /\ x.pool = World(c).pool
      /\ x.ps.frame = "none" /\ x.ps.read_status = PS5RVERSION
      /\ Keeps(World(c), x)
      /\ Fine(x) => LoopMove(Life(World(c).tcp, World(c).ps, stage[c]),
                             Owes(World(c).tcp),
                             Life(x.tcp, x.ps, "handshake"), Says(x.ps),
                             Owes(x.tcp))
  BY <1>1, <1>3, <1>5, AcceptStep
<1>7. Leaves(c, x, "handshake", who)
  BY <1>3, <1>4, <1>6 DEF Leaves
<1>8. Moves(c, x, "handshake", who)
  BY <1>1, <1>3, <1>6, <1>7 DEF Moves
<1>9. QED
  BY <1>8 DEF Steps

(* libuv asks for a buffer and reads into it, or cannot have one.           *)
LEMMA ReadDataSteps ==
    ASSUME Inv, NEW c \in Conn, NEW k \in Chunk, NEW malloc \in BOOLEAN,
           ReadData(c, k, malloc)
    PROVE  Steps(c)
<1> DEFINE v == AllocCb(World(c), TRUE)
           x == Dispatch([v EXCEPT !.tcp = ReadCb(@, "ok"), !.ps.read_pos = @ + k],
                         "data", client[c], malloc)
<1>1. /\ InLoop /\ tcp[c].polling /\ v.ps.fault = "none" /\ k <= Room(v)
      /\ Becomes(c, x, stage[c])
  BY DEF ReadData, CanRead
<1>2. LoopTurn(World(c), stage[c], client[c]) /\ World(c).tcp.polling /\ k \in Nat
  BY <1>1, InvSound, ScriptAssumption
<1>3. LoopStep(World(c), stage[c], x, client[c])
  BY <1>1, <1>2, ReadDataStep
<1> HIDE DEF x
<1>4. QED
  BY <1>1, <1>3, LoopSteps

(* The read fails, or the peer has finished.                                *)
LEMMA ReadFailsSteps ==
    ASSUME Inv, NEW c \in Conn, NEW status \in {"eof", "reset", "refused"},
           ReadFails(c, status)
    PROVE  Steps(c)
<1> DEFINE v == AllocCb(World(c), TRUE)
           x == Dispatch([v EXCEPT !.tcp = ReadCb(@, status)], "error", client[c],
                         TRUE)
<1>1. /\ InLoop /\ tcp[c].polling /\ v.ps.fault = "none"
      /\ Becomes(c, x, stage[c])
  BY DEF ReadFails, CanRead
<1>2. /\ LoopTurn(World(c), stage[c], client[c]) /\ World(c).tcp.polling
      /\ World(c).tcp.frame = "loop"
  BY <1>1, InvSound
<1>3. LoopStep(World(c), stage[c], x, client[c])
  BY <1>1, <1>2, ReadFailsStep
<1> HIDE DEF x
<1>4. QED
  BY <1>1, <1>3, LoopSteps

(* The buffer is full.                                                      *)
LEMMA ReadFullSteps ==
    ASSUME Inv, NEW c \in Conn, ReadFull(c)
    PROVE  Steps(c)
<1> DEFINE v == AllocCb(World(c), TRUE)
           x == Dispatch([v EXCEPT
                             !.tcp = [ReadCb(@, "refused") EXCEPT !.polling = TRUE]],
                         "error", client[c], TRUE)
<1>1. /\ InLoop /\ tcp[c].polling /\ v.ps.fault = "none"
      /\ Becomes(c, x, stage[c])
  BY DEF ReadFull, CanRead
<1>2. /\ LoopTurn(World(c), stage[c], client[c]) /\ World(c).tcp.polling
      /\ World(c).tcp.frame = "loop"
  BY <1>1, InvSound
<1>3. LoopStep(World(c), stage[c], x, client[c])
  BY <1>1, <1>2, ReadFullStep
<1> HIDE DEF x
<1>4. QED
  BY <1>1, <1>3, LoopSteps

(* There is no buffer to read into: the process stops.                      *)
LEMMA ReadNoBufferSteps ==
    ASSUME Inv, NEW c \in Conn, ReadNoBuffer(c)
    PROVE  Steps(c)
<1> DEFINE x == AllocCb(World(c), FALSE)
<1>1. InLoop /\ tcp[c].polling /\ x.ps.fault # "none" /\ Becomes(c, x, stage[c])
  BY DEF ReadNoBuffer, CanRead
<1>2. LoopTurn(World(c), stage[c], client[c]) /\ World(c).tcp.polling
  BY <1>1, InvSound
<1>3. \/ x.ps.fault = "none"
      \/ x.ps.fault # "none" /\ LoopStep(World(c), stage[c], x, client[c])
  BY <1>2, AllocPrepared
<1> HIDE DEF x
<1>4. QED
  BY <1>1, <1>3, LoopSteps

(* The callbacks of libuv for requests, the timer and the handles.          *)
LEMMA WriteDoneSteps ==
    ASSUME Inv, NEW c \in Conn, WriteDone(c)
    PROVE  Steps(c)
<1> DEFINE s == WriteCb(tcp[c])
           x == Dispatch([World(c) EXCEPT !.tcp = s], "gerr", client[c], TRUE)
<1>1. InLoop /\ tcp[c].write # "none" /\ Becomes(c, x, stage[c])
  BY DEF WriteDone, Calls
<1>2. /\ LoopTurn(World(c), stage[c], client[c]) /\ World(c).tcp = tcp[c]
      /\ tcp[c].frame = "loop" /\ SoundSocket(tcp[c])
  BY <1>1, InvSound DEF LoopTurn, Sound, ConnInv
<1>3. LoopStep(World(c), stage[c], x, client[c])
  BY <1>1, <1>2, WriteDoneStep
<1> HIDE DEF x
<1>4. QED
  BY <1>1, <1>3, LoopSteps

(* The shutdown is answered.                                                *)
LEMMA ShutdownDoneSteps ==
    ASSUME Inv, NEW c \in Conn, NEW status \in UvStatus, ShutdownDone(c, status)
    PROVE  Steps(c)
<1> DEFINE s == ShutdownCb(tcp[c], status)
           x == Dispatch([World(c) EXCEPT !.tcp = s], "gerr", client[c], TRUE)
<1>1. InLoop /\ tcp[c].shutdown /\ tcp[c].write = "none"
      /\ (IF tcp[c].tcp = "open" THEN status \in Outcome ELSE status = "canceled")
      /\ Becomes(c, x, stage[c])
  BY DEF ShutdownDone, Calls
<1>2. /\ LoopTurn(World(c), stage[c], client[c]) /\ World(c).tcp = tcp[c]
      /\ tcp[c].frame = "loop" /\ SoundSocket(tcp[c])
  BY <1>1, InvSound DEF LoopTurn, Sound, ConnInv
<1>3. LoopStep(World(c), stage[c], x, client[c])
  BY <1>1, <1>2, ShutdownDoneStep
<1> HIDE DEF x
<1>4. QED
  BY <1>1, <1>3, LoopSteps

(* The timer fires.                                                         *)
LEMMA TimedOutSteps ==
    ASSUME Inv, NEW c \in Conn, TimedOut(c)
    PROVE  Steps(c)
<1> DEFINE s == TimeoutCb(tcp[c])
           x == Dispatch([World(c) EXCEPT !.tcp = s], "gerr", client[c], TRUE)
<1>1. InLoop /\ tcp[c].timer = "due" /\ Becomes(c, x, stage[c])
  BY DEF TimedOut, Calls
<1>2. /\ LoopTurn(World(c), stage[c], client[c]) /\ World(c).tcp = tcp[c]
      /\ tcp[c].frame = "loop" /\ SoundSocket(tcp[c])
  BY <1>1, InvSound DEF LoopTurn, Sound, ConnInv
<1>3. LoopStep(World(c), stage[c], x, client[c])
  BY <1>1, <1>2, TimedOutStep
<1> HIDE DEF x
<1>4. QED
  BY <1>1, <1>3, LoopSteps

(* The timer is closed.                                                     *)
LEMMA TimerClosedSteps ==
    ASSUME Inv, NEW c \in Conn, TimerClosed(c)
    PROVE  Steps(c)
<1> DEFINE s == TimerCloseCb(tcp[c])
           x == Dispatch([World(c) EXCEPT !.tcp = s], "gerr", client[c], TRUE)
<1>1. InLoop /\ tcp[c].timer = "closing" /\ Becomes(c, x, stage[c])
  BY DEF TimerClosed, Calls
<1>2. /\ LoopTurn(World(c), stage[c], client[c]) /\ World(c).tcp = tcp[c]
      /\ tcp[c].frame = "loop" /\ SoundSocket(tcp[c])
  BY <1>1, InvSound DEF LoopTurn, Sound, ConnInv
<1> HIDE DEF x
<1> DEFINE w == World(c)
<1>3. /\ w.tcp.status = CLOSING /\ SoundSocket(s)
      /\ \/ SameButFrame(w.tcp, s) /\ s.frame = w.tcp.frame
         \/ /\ s.status = CLOSED /\ ~s.polling /\ s.write = w.tcp.write
            /\ s.write = "none" /\ ~s.shutdown
            /\ s.fault = w.tcp.fault /\ s.frame = "on_close"
  BY <1>1, <1>2, SoundTimerClosed
<1>4. LoopTurn(w, stage[c], client[c]) /\ w.tcp.frame = "loop"
  BY <1>2
<1> HIDE DEF s, w
<1>5. LoopStep(w, stage[c], Dispatch([w EXCEPT !.tcp = s], "gerr", client[c], TRUE),
               client[c])
  BY <1>3, <1>4, HandleClosedStep
<1>6. LoopStep(World(c), stage[c], x, client[c])
  BY <1>5 DEF x, w
<1> HIDE DEF x
<1>7. QED
  BY <1>1, <1>6, LoopSteps

(* The socket is closed.                                                    *)
LEMMA TcpClosedSteps ==
    ASSUME Inv, NEW c \in Conn, TcpClosed(c)
    PROVE  Steps(c)
<1> DEFINE s == SocketCloseCb(tcp[c])
           x == Dispatch([World(c) EXCEPT !.tcp = s], "gerr", client[c], TRUE)
<1>1. InLoop /\ tcp[c].tcp = "closing" /\ tcp[c].write = "none"
      /\ ~tcp[c].shutdown /\ Becomes(c, x, stage[c])
  BY DEF TcpClosed, Calls
<1>2. /\ LoopTurn(World(c), stage[c], client[c]) /\ World(c).tcp = tcp[c]
      /\ tcp[c].frame = "loop" /\ SoundSocket(tcp[c])
  BY <1>1, InvSound DEF LoopTurn, Sound, ConnInv
<1> HIDE DEF x
<1> DEFINE w == World(c)
<1>3. /\ w.tcp.status = CLOSING /\ SoundSocket(s)
      /\ \/ SameButFrame(w.tcp, s) /\ s.frame = w.tcp.frame
         \/ /\ s.status = CLOSED /\ ~s.polling /\ s.write = w.tcp.write
            /\ s.write = "none" /\ ~s.shutdown
            /\ s.fault = w.tcp.fault /\ s.frame = "on_close"
  BY <1>1, <1>2, SoundTcpClosed
<1>4. LoopTurn(w, stage[c], client[c]) /\ w.tcp.frame = "loop"
  BY <1>2
<1> HIDE DEF s, w
<1>5. LoopStep(w, stage[c], Dispatch([w EXCEPT !.tcp = s], "gerr", client[c], TRUE),
               client[c])
  BY <1>3, <1>4, HandleClosedStep
<1>6. LoopStep(World(c), stage[c], x, client[c])
  BY <1>5 DEF x, w
<1> HIDE DEF x
<1>7. QED
  BY <1>1, <1>6, LoopSteps

(* What goes on without a callback.                                         *)
LEMMA WriteSettlesSteps ==
    ASSUME Inv, NEW c \in Conn, NEW status \in Outcome, WriteSettles(c, status)
    PROVE  Steps(c)
<1> DEFINE t == [tcp[c] EXCEPT !.write = status]
           w == World(c)
           x == [w EXCEPT !.tcp = t]
<1>1. /\ Running /\ tcp[c].write = "queued" /\ tcp' = [tcp EXCEPT ![c] = t]
      /\ UNCHANGED <<ps, pool, client, stage>>
  BY DEF WriteSettles, Inv, TypeOK
<1>2. /\ Sound(w, stage[c], client[c]) /\ Fine(w) /\ w \in WorldType
      /\ w.tcp = tcp[c] /\ w.ps = ps[c] /\ w.pool = pool
      /\ SoundSocket(tcp[c])
  BY <1>1, InvSound DEF Sound, ConnInv
<1>3. /\ SoundSocket(t) /\ t \in SocketType /\ t.status = tcp[c].status
      /\ t.polling = tcp[c].polling /\ t.shutdown = tcp[c].shutdown
      /\ (t.write = "none" <=> tcp[c].write = "none")
      /\ t.fault = tcp[c].fault
  BY <1>1, <1>2, SoundSettled DEF SoundSocket, SameButFrame
<1> HIDE DEF t, w
<1>4. x \in WorldType /\ x.tcp = t /\ x.ps = w.ps /\ x.pool = w.pool
  BY <1>2, <1>3, PutTcp
<1> HIDE DEF x
<1>5. UserStep(w, stage[c], x, stage[c], client[c])
  BY <1>2, <1>3, <1>4, SilentStep
<1>6. Becomes(c, x, stage[c])
  BY <1>1, <1>2, <1>4 DEF Becomes, Told, Inv, TypeOK
<1>7. QED
  BY <1>1, <1>5, <1>6, UserSteps DEF w

(* Time passes until the timer is due.                                      *)
LEMMA TimerDueSteps ==
    ASSUME Inv, NEW c \in Conn, TimerDue(c)
    PROVE  Steps(c)
<1> DEFINE t == [tcp[c] EXCEPT !.timer = "due"]
           w == World(c)
           x == [w EXCEPT !.tcp = t]
<1>1. /\ Running /\ tcp[c].timer = "running" /\ tcp' = [tcp EXCEPT ![c] = t]
      /\ UNCHANGED <<ps, pool, client, stage>>
  BY DEF TimerDue, Inv, TypeOK
<1>2. /\ Sound(w, stage[c], client[c]) /\ Fine(w) /\ w \in WorldType
      /\ w.tcp = tcp[c] /\ w.ps = ps[c] /\ w.pool = pool
      /\ SoundSocket(tcp[c])
  BY <1>1, InvSound DEF Sound, ConnInv
<1>3. /\ SoundSocket(t) /\ t \in SocketType /\ t.status = tcp[c].status
      /\ t.polling = tcp[c].polling /\ t.shutdown = tcp[c].shutdown
      /\ (t.write = "none" <=> tcp[c].write = "none")
      /\ t.fault = tcp[c].fault
  BY <1>1, <1>2, SoundDue DEF SoundSocket, SameButFrame
<1> HIDE DEF t, w
<1>4. x \in WorldType /\ x.tcp = t /\ x.ps = w.ps /\ x.pool = w.pool
  BY <1>2, <1>3, PutTcp
<1> HIDE DEF x
<1>5. UserStep(w, stage[c], x, stage[c], client[c])
  BY <1>2, <1>3, <1>4, SilentStep
<1>6. Becomes(c, x, stage[c])
  BY <1>1, <1>2, <1>4 DEF Becomes, Told, Inv, TypeOK
<1>7. QED
  BY <1>1, <1>5, <1>6, UserSteps DEF w

(* All of them.                                                             *)
LEMMA LoopActionSteps ==
    ASSUME Inv, NEW c \in Conn, Loop(c)
    PROVE  Steps(c)
  BY AcceptSteps, ReadDataSteps, ReadFailsSteps, ReadFullSteps, ReadNoBufferSteps,
     WriteDoneSteps, ShutdownDoneSteps, TimedOutSteps, TimerClosedSteps,
     TcpClosedSteps, WriteSettlesSteps, TimerDueSteps
  DEF Loop, Requests

(* Every step is one of these, or none at all.                              *)
LEMMA NextSteps ==
    ASSUME Inv, [Next]_vars
    PROVE  UNCHANGED vars \/ \E c \in Conn : Steps(c)
  BY UserActionSteps, LoopActionSteps DEF Next, Rest
-----------------------------------------------------------------------------
(* The invariant holds at first, and every step keeps it.                   *)
LEMMA InitInv == Init => Inv
<1> SUFFICES ASSUME Init PROVE Inv
  OBVIOUS
<1> DEFINE p == [FreshProxy EXCEPT !.session = NewSession(FALSE)]
<1>1. /\ p \in ProxyType /\ p.read_buf = NULL /\ p.write_buf = NULL
      /\ p.read_status = PS5RVERSION /\ p.write_status = PS5WVERSION
      /\ p.session.live = Held(p.session)
      /\ p.session.in_len = 0 /\ p.session.in6_len = 0
      /\ p.frame = "none" /\ p.error = "none" /\ p.fault = "none"
  BY FreshFields
<1>2. FreshProxy = p
  <2> DEFINE n == NewSession(FALSE)
             f == [read_buf |-> NULL, write_buf |-> NULL, read_pos |-> 0,
                   read_status |-> 0, write_status |-> 0, addr_type |-> 0,
                   session |-> n, frame |-> "none", error |-> "none",
                   fault |-> "none"]
  <2>1. n \in SessionType /\ 0 \in Byte /\ 0 \in 0 .. BlockSize
    BY BlockAssumption DEF NewSession, SessionType, Byte
  <2>2. FreshProxy = f
    BY DEF FreshProxy
  <2> HIDE DEF n
  <2>3. f \in ProxyType /\ f.session = n
    BY <2>1 DEF ProxyType, ProxyFrame, ProxyFault
  <2> HIDE DEF f
  <2>4. f = [f EXCEPT !.session = n]
    BY <2>3 DEF ProxyType
  <2>5. QED
    BY <2>2, <2>4 DEF n
<1> HIDE DEF p
<1>3. /\ SoundSocket(FreshSocket) /\ FreshSocket.status = INVALID
      /\ FreshSocket.write = "none" /\ ~FreshSocket.polling
      /\ ~FreshSocket.shutdown /\ FreshSocket.fault = "none"
  <2>1. FreshSocket \in SocketType
    BY Literals DEF FreshSocket, SocketType
  <2>2. QED
    BY <2>1 DEF FreshSocket, SoundSocket
<1>4. SoundPool(pool) /\ Taken(pool) = {}
  BY SoundBuilt DEF Init
<1>5. \A c \in Conn : /\ tcp[c] = FreshSocket /\ ps[c] = p /\ stage[c] = "new"
                      /\ client[c] \in Script
  BY <1>2 DEF Init
<1>6. ASSUME NEW c \in Conn
      PROVE  ConnInv(tcp[c], ps[c], stage[c], client[c])
  <2> DEFINE s == FreshSocket
  <2>1. SoundSocket(s) /\ "new" \in Stage
    BY <1>3 DEF Stage
  <2> HIDE DEF s
  <2> DEFINE st == "new"
             cl == client[c]
  <2>2. tcp[c] = s /\ ps[c] = p /\ stage[c] = st
    BY <1>5 DEF s
  <2>3. /\ s.status = INVALID /\ s.write = "none" /\ ~s.polling
        /\ ~s.shutdown /\ s.fault = "none"
    BY <1>3 DEF s
  <2>4. ~Open(s)
    BY <2>3 DEF Open
  <2>5. BuffersAgree(s, p, st) /\ Alternates(s, st)
    BY <1>1, <2>3, <2>4 DEF BuffersAgree, Alternates
  <2>6. StagesAgree(s, p, st)
    BY <1>1, <2>3 DEF StagesAgree
  <2>7. GreetingPassed(s, p, st, cl) /\ Deserved(p, cl)
    BY <1>1, <2>3 DEF GreetingPassed, Deserved
  <2>8. SessionAgrees(s, p, st) /\ FramesAgree(s, p, st) /\ OneClose(s, p)
    BY <1>1, <2>3 DEF SessionAgrees, FramesAgree, OneClose
  <2>9. ConnInv(s, p, st, cl)
    BY <1>1, <1>5, <2>1, <2>5, <2>6, <2>7, <2>8 DEF ConnInv
  <2>10. QED
    BY <2>2, <2>9
<1>7. TypeOK
  BY <1>1, <1>2, <1>3, <1>4 DEF Init, TypeOK, SoundSocket, SoundPool
<1>8. QED
  BY <1>4, <1>6, <1>7 DEF Inv, ConnsInv, LentInv

(* A step of one connection keeps the invariant of all.                     *)
LEMMA MovesInv ==
    ASSUME Inv, NEW c \in Conn, NEW x, NEW k, NEW cl, Moves(c, x, k, cl)
    PROVE  Inv'
<1>1. /\ Running /\ Leaves(c, x, k, cl) /\ Sound(x, k, cl) /\ Keeps(World(c), x)
      /\ World(c).tcp = tcp[c] /\ World(c).ps = ps[c] /\ World(c).pool = pool
  BY InvSound DEF Moves
<1>2. /\ TypeOK /\ ConnsInv /\ SoundPool(pool) /\ LentInv
      /\ x \in WorldType /\ SoundPool(x.pool) /\ ConnInv(x.tcp, x.ps, k, cl)
      /\ x.tcp \in SocketType /\ x.ps \in ProxyType /\ x.pool \in PoolType
      /\ k \in Stage /\ cl \in Script
  BY <1>1 DEF Inv, Sound, ConnInv, WorldType
<1>3. /\ tcp'[c] = x.tcp /\ ps'[c] = x.ps /\ stage'[c] = k /\ client'[c] = cl
      /\ pool' = x.pool
      /\ \A d \in Conn \ {c} : /\ tcp'[d] = tcp[d] /\ ps'[d] = ps[d]
                               /\ stage'[d] = stage[d] /\ client'[d] = client[d]
  BY <1>1, <1>2 DEF Leaves, TypeOK
<1>4. TypeOK'
  BY <1>1, <1>2 DEF Leaves, TypeOK, Stage
<1>5. ConnsInv'
  BY <1>2, <1>3 DEF ConnsInv
<1>6. LentInv'
  <2> SUFFICES ASSUME Running', NEW b \in Taken(x.pool)
               PROVE  \E d \in Conn : b \in Owned(tcp'[d], ps'[d])
    BY <1>3 DEF LentInv
  <2>1. Fine(x)
    BY <1>3 DEF Running, Fine
  <2>2. CASE b \in Owned(x.tcp, x.ps)
    BY <1>3, <2>2
  <2>3. CASE b \in Taken(pool) /\ b \notin Owned(tcp[c], ps[c])
    <3>1. PICK d \in Conn : b \in Owned(tcp[d], ps[d])
      BY <1>1, <1>2, <2>3 DEF LentInv
    <3>2. d # c
      BY <2>3, <3>1
    <3>3. QED
      BY <1>3, <3>1, <3>2
  <2>4. QED
    BY <1>1, <2>1, <2>2, <2>3 DEF Keeps
<1>7. QED
  BY <1>2, <1>3, <1>4, <1>5, <1>6 DEF Inv

(* Every step keeps the invariant.                                          *)
LEMMA NextInv == Inv /\ [Next]_vars => Inv'
<1> SUFFICES ASSUME Inv, [Next]_vars PROVE Inv'
  OBVIOUS
<1>1. CASE UNCHANGED vars
  BY <1>1 DEF vars, Inv, TypeOK, ConnsInv, LentInv, Running
<1>2. CASE \E c \in Conn : Steps(c)
  BY <1>2, MovesInv DEF Steps
<1>3. QED
  BY <1>1, <1>2, NextSteps
-----------------------------------------------------------------------------
(* Inv holds in every state that Socks5 reaches: for each connection, that  *)
(* its socket, its buffers, the stage it is in, the greeting and the        *)
(* session agree; for all of them, that a buffer which is lent has a holder.*)
THEOREM Invariant == Spec => []Inv
  BY InitInv, NextInv, PTL DEF Spec

(* Every variable keeps its type.                                           *)
THEOREM TypeCorrect == Spec => []TypeOK
<1>1. Inv => TypeOK
  BY DEF Inv
<1>2. QED
  BY <1>1, Invariant, PTL

(* Nothing is read while a reply or data is on its way out.                 *)
THEOREM ReadsAndWritesAlternate == Spec => []NoReadWhileWriting
<1>1. Inv => NoReadWhileWriting
  BY DEF Inv, ConnsInv, ConnInv, Alternates, NoReadWhileWriting
<1>2. QED
  BY <1>1, Invariant, PTL

(* A client is refused for what it sent, or because memory ran out.         *)
THEOREM RefusalsDeserved == Spec => []RefusalDeserved
<1>1. Inv => RefusalDeserved
  BY DEF Inv, ConnsInv, ConnInv, Deserved, RefusalDeserved
<1>2. QED
  BY <1>1, Invariant, PTL

(* What was allocated for a session is freed, once, when it is over.        *)
THEOREM SessionsFreed == Spec => []SessionFreed
<1>1. Inv => SessionFreed
  BY DEF Inv, ConnsInv, ConnInv, SessionAgrees, SessionFreed
<1>2. QED
  BY <1>1, Invariant, PTL

(* A handle is closed twice only for an unknown address type.               *)
THEOREM ClosesOnce == Spec => []ClosedOnce
<1>1. Inv => ClosedOnce
  BY DEF Inv, ConnsInv, ConnInv, OneClose, ClosedOnce
<1>2. QED
  BY <1>1, Invariant, PTL

(* A buffer that is flagged as lent is pointed at by a connection.          *)
THEOREM NoBufferLost == Spec => []LentIsHeld
<1>1. Inv => LentIsHeld
  BY DEF Inv, LentInv, Taken, Owned, LentIsHeld
<1>2. QED
  BY <1>1, Invariant, PTL

(* A session is earned: the greeting that is passed and the request that is *)
(* accepted are acceptable, and have been read to the length the layout     *)
(* gives them, an IPv6 request to two bytes more.                           *)
THEOREM SessionsEarned == Spec => SessionEarned
<1> DEFINE Passed(c) ==
             ps[c].read_status = PS5RVERSION /\ ps'[c].read_status # PS5RVERSION
               => /\ WellFormed(client[c].greeting)
                  /\ ps'[c].read_pos = GreetingLength(client[c].greeting)
           Accepts(c) ==
             ps[c].frame # "on_session" /\ ps'[c].frame = "on_session"
               => /\ ps'[c].read_status = PS5RREQUEST
                  /\ Supported(client[c].request)
                  /\ ps'[c].read_pos = RequestRead(client[c].request)
           Good == \A c \in Conn : /\ Passed(c)
                                   /\ Accepts(c)
<1>1. Inv /\ [Next]_vars => Good \/ UNCHANGED vars
  <2> SUFFICES ASSUME Inv, NEW c \in Conn, Steps(c) PROVE Good
    BY NextSteps
  <2>1. PICK x, k, cl : Moves(c, x, k, cl)
    BY DEF Steps
  <2>2. ps' = [ps EXCEPT ![c] = x.ps] /\ ps \in [Conn -> ProxyType]
    BY <2>1 DEF Moves, Leaves, Inv, TypeOK
  <2>3. /\ ps[c].frame # "on_session" /\ x.ps.frame = "on_session"
             => Earned(x.ps, client[c])
        /\ x.ps.read_status # PS5RVERSION
             => cl = client[c] /\ Passes(ps[c], x.ps, client[c])
    BY <2>1 DEF Moves
  <2>4. x.ps.read_status # PS5RVERSION => WellFormed(cl.greeting)
    BY <2>1 DEF Moves, Sound, ConnInv, GreetingPassed
  <2>5. ps'[c] = x.ps /\ \A d \in Conn \ {c} : ps'[d] = ps[d]
    BY <2>2
  <2>6. Passed(c)
    BY <2>3, <2>4, <2>5 DEF Passes
  <2>7. Accepts(c)
    BY <2>3, <2>5 DEF Earned
  <2>8. \A d \in Conn \ {c} : Passed(d) /\ Accepts(d)
    BY <2>5
  <2>9. QED
    BY <2>6, <2>7, <2>8
<1>2. QED
  BY <1>1, Invariant, PTL DEF Spec, SessionEarned
-----------------------------------------------------------------------------
(* The refinement mapping, as Life, Says and Owes give it.                  *)
LEMMA Mapped ==
    ASSUME Inv, Running, NEW c \in Conn
    PROVE  /\ LifeOf(c) = Life(tcp[c], ps[c], stage[c])
           /\ SaysOf(c) = Says(ps[c])
<1>1. SoundSocket(tcp[c])
  BY DEF Inv, ConnsInv, ConnInv
<1>2. tcp[c].status \in {INVALID, CLOSING, CLOSED} \/ Open(tcp[c])
  BY <1>1, SoundOpen
<1>3. LifeOf(c) = Life(tcp[c], ps[c], stage[c])
  BY <1>2 DEF LifeOf, Life, Open
<1>4. SaysOf(c) = Says(ps[c])
  BY DEF SaysOf, Says
<1>5. QED
  BY <1>3, <1>4

(* The same after the step.                                                 *)
LEMMA MappedNext ==
    ASSUME Inv', Running', NEW c \in Conn
    PROVE  /\ LifeOf(c)' = Life(tcp'[c], ps'[c], stage'[c])
           /\ SaysOf(c)' = Says(ps'[c])
<1>1. SoundSocket(tcp'[c])
  BY DEF Inv, ConnsInv, ConnInv
<1>2. tcp'[c].status \in {INVALID, CLOSING, CLOSED} \/ Open(tcp'[c])
  BY <1>1, SoundOpen
<1>3. LifeOf(c)' = Life(tcp'[c], ps'[c], stage'[c])
  BY <1>2 DEF LifeOf, Life, Open
<1>4. SaysOf(c)' = Says(ps'[c])
  BY DEF SaysOf, Says
<1>5. QED
  BY <1>3, <1>4

(* A step of c changes what ProxyPromise knows of c, and nothing else.      *)
LEMMA MovesBecomes ==
    ASSUME Inv, Running', NEW c \in Conn, NEW x, NEW k, NEW cl,
           Moves(c, x, k, cl)
    PROVE  /\ Promise!Becomes(c, Life(x.tcp, x.ps, k), Says(x.ps), Owes(x.tcp))
           /\ Fine(x)
<1>1. Running /\ Leaves(c, x, k, cl) /\ TypeOK
  BY DEF Moves, Inv, TypeOK
<1>2. /\ tcp'[c] = x.tcp /\ ps'[c] = x.ps /\ stage'[c] = k
      /\ \A d \in Conn \ {c} : /\ tcp'[d] = tcp[d] /\ ps'[d] = ps[d]
                               /\ stage'[d] = stage[d]
  BY <1>1 DEF Leaves, TypeOK
<1>3. Inv'
  BY MovesInv
<1>4. \A d \in Conn : /\ LifeOf(d)' = Life(tcp'[d], ps'[d], stage'[d])
                      /\ SaysOf(d)' = Says(ps'[d])
  BY <1>3, MappedNext
<1>5. \A d \in Conn : /\ LifeOf(d) = Life(tcp[d], ps[d], stage[d])
                      /\ SaysOf(d) = Says(ps[d])
  BY <1>1, Mapped
<1>6. [d \in Conn |-> LifeOf(d)]'
        = [[d \in Conn |-> LifeOf(d)] EXCEPT ![c] = Life(x.tcp, x.ps, k)]
  <2>1. \A d \in Conn : LifeOf(d)' = IF d = c THEN Life(x.tcp, x.ps, k) ELSE LifeOf(d)
    BY <1>2, <1>4, <1>5
  <2>2. QED
    BY <2>1, Zenon
<1>7. [d \in Conn |-> SaysOf(d)]'
        = [[d \in Conn |-> SaysOf(d)] EXCEPT ![c] = Says(x.ps)]
  <2>1. \A d \in Conn : SaysOf(d)' = IF d = c THEN Says(x.ps) ELSE SaysOf(d)
    BY <1>2, <1>4, <1>5
  <2>2. QED
    BY <2>1, Zenon
<1>8. [d \in Conn |-> Running /\ tcp[d].write # "none"]'
        = [[d \in Conn |-> Running /\ tcp[d].write # "none"]
             EXCEPT ![c] = Owes(x.tcp)]
  BY <1>1, <1>2 DEF Owes
<1>9. Fine(x)
  BY <1>2 DEF Running, Fine
<1>10. QED
  BY <1>6, <1>7, <1>8, <1>9 DEF Promise!Becomes

(* Every step of a connection is one of ProxyPromise.                       *)
LEMMA MovesPromised ==
    ASSUME Inv, NEW c \in Conn, NEW x, NEW k, NEW cl, Moves(c, x, k, cl)
    PROVE  Promise!Next \/ UNCHANGED Promise!vars
<1> DEFINE life == [d \in Conn |-> LifeOf(d)]
           says == [d \in Conn |-> SaysOf(d)]
           owed == [d \in Conn |-> Running /\ tcp[d].write # "none"]
           l == Life(tcp[c], ps[c], stage[c])
           e == Says(ps[c])
           o == Owes(tcp[c])
           m == Life(x.tcp, x.ps, k)
           f == Says(x.ps)
           q == Owes(x.tcp)
<1>1. CASE ~Running'
  <2>1. \A d \in Conn : LifeOf(d)' = "crashed" /\ SaysOf(d)' = "none"
    BY <1>1 DEF LifeOf, SaysOf
  <2>2. /\ life' = [d \in Conn |-> "crashed"] /\ says' = [d \in Conn |-> "none"]
        /\ owed' = [d \in Conn |-> FALSE]
    BY <1>1, <2>1
  <2>3. QED
    BY <2>2 DEF Promise!Next, Promise!Crash
<1>2. CASE Running'
  <2>1. Promise!Becomes(c, m, f, q) /\ Fine(x)
    BY <1>2, MovesBecomes
  <2>2. Running
    BY DEF Moves
  <2>3. life[c] = l /\ says[c] = e /\ owed[c] = o
    BY <2>2, Mapped DEF Owes
  <2>4. q \in BOOLEAN /\ o \in BOOLEAN
    BY DEF Owes
  <2>5. Idle => \A d \in Conn : says[d] = "none"
    BY <2>2, Mapped DEF Idle, Says
  <2>6. \/ Idle /\ LoopMove(l, o, m, f, q)
        \/ UserMove(l, e, o, m, f, q)
    BY <2>1 DEF Moves
  <2>7. /\ life' = [life EXCEPT ![c] = m] /\ says' = [says EXCEPT ![c] = f]
        /\ owed' = [owed EXCEPT ![c] = q]
    BY <2>1 DEF Promise!Becomes
  <2> DEFINE Unmoved == UNCHANGED <<life, says, owed>>
  <2>8. m = l /\ f = e /\ q = o => Unmoved
    BY <2>3, <2>7
  <2>9. Idle => Promise!Quiet
    BY <2>5 DEF Promise!Quiet
  <2>10. q = TRUE \/ q = FALSE
    BY <2>4
  <2> HIDE DEF l, e, o, m, f, q, Unmoved
  <2> SUFFICES Promise!Next \/ Unmoved
    BY DEF Promise!vars, Unmoved
  <2>11. CASE Idle /\ LoopMove(l, o, m, f, q)
    <3>1. CASE m = l /\ f = "none" /\ q = o
      BY <2>3, <2>5, <2>8, <2>11, <3>1
    <3>2. CASE l = "idle" /\ m = "handshake" /\ f = "none" /\ ~q
      <4>1. Promise!Accept(c)
        BY <2>1, <2>3, <2>9, <2>10, <2>11, <3>2 DEF Promise!Accept
      <4>2. QED
        BY <4>1 DEF Promise!Next
    <3>3. CASE l = "handshake" /\ ~o /\ m = "session" /\ f = "on_session" /\ ~q
      <4>1. Promise!Session(c)
        BY <2>1, <2>3, <2>9, <2>10, <2>11, <3>3 DEF Promise!Session
      <4>2. QED
        BY <4>1 DEF Promise!Next
    <3>4. CASE l = "forwarding" /\ ~o /\ m = "data" /\ f = "on_read" /\ ~q
      <4>1. Promise!Data(c)
        BY <2>1, <2>3, <2>9, <2>10, <2>11, <3>4 DEF Promise!Data
      <4>2. QED
        BY <4>1 DEF Promise!Next
    <3>5. CASE l \in {"handshake", "forwarding"} /\ ~o /\ m = l /\ f = "on_EOF" /\ ~q
      <4>1. Promise!End(c)
        BY <2>1, <2>3, <2>9, <2>10, <2>11, <3>5 DEF Promise!End
      <4>2. QED
        BY <4>1 DEF Promise!Next
    <3>6. CASE l \in {"forwarding", "data"} /\ ~o /\ m = l /\ f = "on_shutdown"
          /\ ~q
      <4>1. Promise!HasShut(c)
        BY <2>1, <2>3, <2>9, <2>10, <2>11, <3>6 DEF Promise!HasShut
      <4>2. QED
        BY <4>1 DEF Promise!Next
    <3>7. CASE l \in Promise!Served /\ m = "failed" /\ f = "on_error"
          /\ (~q \/ q = o)
      <4>1. Promise!Error(c)
        BY <2>1, <2>3, <2>9, <2>10, <2>11, <3>7 DEF Promise!Error
      <4>2. QED
        BY <4>1 DEF Promise!Next
    <3>8. CASE l = "closing" /\ ~o /\ m = "idle" /\ f = "on_close" /\ ~q
      <4>1. Promise!Finish(c)
        BY <2>1, <2>3, <2>9, <2>10, <2>11, <3>8 DEF Promise!Finish
      <4>2. QED
        BY <4>1 DEF Promise!Next
    <3>9. CASE l = "handshake" /\ ~o /\ m = l /\ f = "none" /\ q
      <4>1. Promise!Reply(c)
        BY <2>1, <2>3, <2>9, <2>10, <2>11, <3>9 DEF Promise!Reply
      <4>2. QED
        BY <4>1 DEF Promise!Next
    <3>10. CASE o /\ m = l /\ f = "none" /\ ~q
      <4>1. Promise!Answer(c)
        BY <2>1, <2>3, <2>9, <2>10, <2>11, <3>10 DEF Promise!Answer
      <4>2. QED
        BY <4>1 DEF Promise!Next
    <3>11. QED
      BY <2>11, <3>1, <3>2, <3>3, <3>4, <3>5, <3>6, <3>7, <3>8, <3>9, <3>10 DEF LoopMove
  <2>12. CASE UserMove(l, e, o, m, f, q)
    <3>1. CASE m = l /\ f = e /\ q = o
      BY <2>8, <3>1
    <3>2. CASE l = "session" /\ ~o /\ m = "forwarding" /\ f = e /\ q
      <4>1. Promise!Forward(c)
        BY <2>1, <2>3, <2>10, <3>2 DEF Promise!Forward
      <4>2. QED
        BY <4>1 DEF Promise!Next
    <3>3. CASE l = "session" /\ ~o /\ m = "failed" /\ f = "on_error" /\ ~q
      <4>1. Promise!Forward(c)
        BY <2>1, <2>3, <2>10, <3>3 DEF Promise!Forward
      <4>2. QED
        BY <4>1 DEF Promise!Next
    <3>4. CASE l = "data" /\ ~o /\ m = "forwarding" /\ f = e /\ q
      <4>1. Promise!Write(c)
        BY <2>1, <2>3, <2>10, <3>4 DEF Promise!Write
      <4>2. QED
        BY <4>1 DEF Promise!Next
    <3>5. CASE l \in Promise!Served /\ m = "closing" /\ f = e /\ q = o
      <4>1. /\ life[c] \in Promise!Served
            /\ life' = [life EXCEPT ![c] = "closing"]
            /\ says' = [says EXCEPT ![c] = says[c]]
            /\ owed' = [owed EXCEPT ![c] = owed[c]]
        BY <2>3, <2>7, <3>5
      <4>2. Promise!Close(c)
        BY <4>1 DEF Promise!Close, Promise!Becomes
      <4>3. QED
        BY <4>2 DEF Promise!Next
    <3>6. CASE e # "none" /\ m = (IF l = "failed" THEN "closing" ELSE l)
          /\ f = "none" /\ q = o
      <4>1. /\ says[c] # "none"
            /\ life' = [life EXCEPT ![c] = IF life[c] = "failed" THEN "closing"
                                           ELSE life[c]]
            /\ says' = [says EXCEPT ![c] = "none"]
            /\ owed' = [owed EXCEPT ![c] = owed[c]]
        BY <2>3, <2>7, <3>6
      <4>2. Promise!Return(c)
        BY <4>1 DEF Promise!Return, Promise!Becomes
      <4>3. QED
        BY <4>2 DEF Promise!Next
    <3>7. QED
      BY <2>12, <3>1, <3>2, <3>3, <3>4, <3>5, <3>6 DEF UserMove
  <2>13. QED
    BY <2>6, <2>11, <2>12
<1>3. QED
  BY <1>1, <1>2

(* The proxy sockets implement ProxyPromise: for any number of connections, *)
(* any pool and any clients, in both builds, their users hear what they are *)
(* promised and in that order, until the process aborts.                    *)
THEOREM ProxyKeepsPromise == Spec => PromiseSpec
<1>1. Init => Promise!Init
  <2> SUFFICES ASSUME Init PROVE Promise!Init
    OBVIOUS
  <2>1. \A c \in Conn : /\ tcp[c].status = INVALID /\ tcp[c].fault = "none"
                        /\ tcp[c].write = "none"
                        /\ ps[c].fault = "none" /\ ps[c].frame = "none"
    BY DEF Init, FreshSocket, FreshProxy
  <2>2. Running
    BY <2>1 DEF Running
  <2>3. \A c \in Conn : LifeOf(c) = "idle" /\ SaysOf(c) = "none"
    BY <2>1, <2>2 DEF LifeOf, SaysOf
  <2>4. QED
    BY <2>1, <2>3 DEF Promise!Init
<1>2. Inv /\ [Next]_vars => [Promise!Next]_(Promise!vars)
  <2> SUFFICES ASSUME Inv, [Next]_vars
               PROVE  Promise!Next \/ UNCHANGED Promise!vars
    OBVIOUS
  <2>1. CASE UNCHANGED vars
    BY <2>1 DEF vars, Promise!vars, LifeOf, SaysOf, Running
  <2>2. CASE \E c \in Conn : Steps(c)
    BY <2>2, MovesPromised DEF Steps
  <2>3. QED
    BY <2>1, <2>2, NextSteps
<1>3. QED
  BY <1>1, <1>2, Invariant, PTL DEF Spec, PromiseSpec, Promise!Spec
================================================================================
