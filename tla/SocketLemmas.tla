----------------------------- MODULE SocketLemmas ------------------------------
(****************************************************************************)
(* What the operators of MemoryPoolOps and TcpSocketOps do to a pool and to *)
(* a socket: the lemmas that the proofs about MemoryPool and TcpSocket share *)
(* with those about Socks5.                                                 *)
(****************************************************************************)
EXTENDS MemoryPoolOps, TcpSocketOps, FiniteSetTheorems, TLAPS

(* What __memory_buf_create and the ALLOC branch of ne_memory_buf_free do.  *)
LEMMA CreateFields ==
    ASSUME NEW p \in PoolType, NEW b \in HeapBuf
    PROVE  LET q == MemoryBufCreate(p, b)
           IN  /\ q.first = p.first /\ q.next = p.next
               /\ q.used = p.used /\ q.heap = p.heap \cup {b}
               /\ q.alloc_bufs = p.alloc_bufs + 1
               /\ q \in PoolType
<1> DEFINE r == [p EXCEPT !.alloc_bufs = @ + 1]
<1>1. /\ r.first = p.first /\ r.next = p.next /\ r.used = p.used
      /\ r.heap = p.heap /\ r.alloc_bufs = p.alloc_bufs + 1
      /\ r \in PoolType
  BY DEF PoolType
<1>2. MemoryBufCreate(p, b) = [r EXCEPT !.heap = r.heap \cup {b}]
  BY DEF MemoryBufCreate, PoolType
<1> HIDE DEF r
<1>3. QED
  BY <1>1, <1>2 DEF PoolType

(* A buffer that was calloc'ed is freed.                                    *)
LEMMA FreeHeapFields ==
    ASSUME NEW p \in PoolType, NEW b \in HeapBuf, p.alloc_bufs # 0
    PROVE  LET q == MemoryBufFree(p, b)
           IN  /\ q.first = p.first /\ q.next = p.next
               /\ q.used = p.used /\ q.heap = p.heap \ {b}
               /\ q.alloc_bufs = p.alloc_bufs - 1
               /\ q \in PoolType
<1> DEFINE r == [p EXCEPT !.alloc_bufs = @ - 1]
<1>1. /\ r.first = p.first /\ r.next = p.next /\ r.used = p.used
      /\ r.heap = p.heap /\ r.alloc_bufs = p.alloc_bufs - 1
      /\ r \in PoolType
  BY DEF PoolType
<1>2. MemoryBufFree(p, b) = [r EXCEPT !.heap = r.heap \ {b}]
  BY DEF MemoryBufFree, PoolType
<1> HIDE DEF r
<1>3. QED
  BY <1>1, <1>2 DEF PoolType
-----------------------------------------------------------------------------
(* The buffers that a pool counts as lent.                                  *)
Taken(p) == {b \in Buf : IF b \in Block THEN p.used[b] ELSE b \in p.heap}

(* What holds of a pool even if its users break the contract and give a     *)
(* block back that they do not hold.                                        *)
SoundPool(p) == /\ p \in PoolType
                /\ IsFiniteSet(p.heap)
                /\ p.alloc_bufs = Cardinality(p.heap)

(* A pool that was just built is sound, and nothing of it is lent.          *)
LEMMA SoundBuilt == SoundPool(BuiltPool) /\ Taken(BuiltPool) = {}
<1> USE PoolAssumption
<1>1. BlockCount \in Nat /\ (BlockCount # 0 => BlockCount - 1 \in Block)
  BY DEF Block
<1>2. \A b \in Block : b \in Nat /\ (b # 0 => b - 1 \in Block)
  BY <1>1 DEF Block
<1>3. /\ BuiltPool \in PoolType /\ BuiltPool.heap = {} /\ BuiltPool.alloc_bufs = 0
      /\ BuiltPool.used = [b \in Block |-> FALSE]
  BY <1>1, <1>2 DEF BuiltPool, ZeroPool, PoolType
<1>4. QED
  BY <1>3, FS_EmptySet DEF SoundPool, Taken

(* A buffer that is got is counted, and no other is forgotten.              *)
LEMMA SoundGet ==
    ASSUME NEW p, SoundPool(p), NEW calloc \in BOOLEAN,
           OfferedBuf(p, calloc) # NULL
    PROVE  LET b == OfferedBuf(p, calloc)
               q == MemoryPoolGetBuf(p, calloc)
           IN  b \in Buf /\ SoundPool(q) /\ Taken(q) = Taken(p) \cup {b}
<1> USE PoolAssumption
<1> DEFINE b == OfferedBuf(p, calloc)
           q == MemoryPoolGetBuf(p, calloc)
<1>1. p \in PoolType
  BY DEF SoundPool
<1>2. CASE p.first # NULL
  <2>1. b = p.first /\ b \in Block /\ b \in Buf
    BY <1>1, <1>2 DEF OfferedBuf, PoolType, Buf
  <2> DEFINE r == [p EXCEPT !.first = p.next[p.first]]
  <2>2. /\ r \in PoolType /\ r.heap = p.heap /\ r.alloc_bufs = p.alloc_bufs
        /\ r.used = p.used
    BY <1>1, <2>1 DEF PoolType
  <2>2a. q = [r EXCEPT !.used = [r.used EXCEPT ![b] = TRUE]]
    BY <1>2, <2>1 DEF MemoryPoolGetBuf, TakeFirst, SlistRemoveHead
  <2> HIDE DEF r
  <2>3. /\ q \in PoolType /\ q.heap = p.heap /\ q.alloc_bufs = p.alloc_bufs
        /\ q.used = [p.used EXCEPT ![b] = TRUE]
    <3> DEFINE used == [p.used EXCEPT ![b] = TRUE]
    <3>1. used \in [Block -> BOOLEAN]
      BY <1>1, <2>1 DEF PoolType
    <3>2. q = [r EXCEPT !.used = used]
      BY <2>2, <2>2a
    <3> HIDE DEF used, q
    <3>3. QED
      BY <2>2, <3>1, <3>2 DEF PoolType, used
  <2> HIDE DEF b, q
  <2>4. Taken(q) = Taken(p) \cup {b}
    BY <1>1, <2>1, <2>3 DEF Taken, PoolType
  <2>5. SoundPool(q)
    BY <2>3 DEF SoundPool
  <2>6. QED
    BY <2>1, <2>4, <2>5 DEF b, q
<1>3. CASE p.first = NULL
  <2>1. b \in HeapBuf \ p.heap /\ q = MemoryBufCreate(p, b)
    BY <1>3 DEF OfferedBuf, MemoryPoolGetBuf
  <2> HIDE DEF b, q
  <2>2. /\ q \in PoolType /\ q.heap = p.heap \cup {b}
        /\ q.alloc_bufs = p.alloc_bufs + 1 /\ q.used = p.used
    BY <1>1, <2>1, CreateFields
  <2>3. /\ IsFiniteSet(p.heap \cup {b})
        /\ Cardinality(p.heap \cup {b}) = Cardinality(p.heap) + 1
    BY <2>1, FS_AddElement DEF SoundPool
  <2>4. SoundPool(q)
    BY <2>2, <2>3 DEF SoundPool
  <2>5. b \in Buf /\ b \notin Block
    BY <2>1 DEF Buf
  <2>6. Taken(q) = Taken(p) \cup {b}
    BY <2>1, <2>2, <2>5 DEF Taken
  <2>7. QED
    BY <2>4, <2>5, <2>6 DEF b, q
<1>4. QED
  BY <1>2, <1>3

(* A buffer that is given back is not counted any more, and no other is     *)
(* forgotten; whether a block was lent makes no difference.                 *)
LEMMA SoundFree ==
    ASSUME NEW p, SoundPool(p), NEW b \in Buf, b \in HeapBuf => b \in p.heap
    PROVE  LET q == MemoryBufFree(p, b)
           IN  SoundPool(q) /\ Taken(q) = Taken(p) \ {b}
<1> USE PoolAssumption
<1> DEFINE q == MemoryBufFree(p, b)
<1>1. p \in PoolType
  BY DEF SoundPool
<1>2. CASE b \in HeapBuf
  <2>1. /\ IsFiniteSet(p.heap \ {b})
        /\ Cardinality(p.heap \ {b}) = Cardinality(p.heap) - 1
    BY <1>2, FS_RemoveElement DEF SoundPool
  <2>2. p.alloc_bufs # 0
    <3>1. Cardinality(p.heap \ {b}) \in Nat /\ p.alloc_bufs \in Nat
      BY <1>1, <2>1, FS_CardinalityType DEF PoolType
    <3>2. QED
      BY <2>1, <3>1 DEF SoundPool
  <2>3. /\ q \in PoolType /\ q.heap = p.heap \ {b}
        /\ q.alloc_bufs = p.alloc_bufs - 1 /\ q.used = p.used
    BY <1>1, <1>2, <2>2, FreeHeapFields
  <2> HIDE DEF q
  <2>4. SoundPool(q)
    BY <2>1, <2>3 DEF SoundPool
  <2>5. b \notin Block
    BY <1>2
  <2>6. Taken(q) = Taken(p) \ {b}
    BY <2>3, <2>5 DEF Taken
  <2>7. QED
    BY <2>4, <2>6 DEF q
<1>3. CASE b \notin HeapBuf
  <2>1. b \in Block
    BY <1>3 DEF Buf
  <2> DEFINE r == [p EXCEPT !.used[b] = FALSE]
  <2>2. /\ r \in PoolType /\ r.heap = p.heap /\ r.alloc_bufs = p.alloc_bufs
        /\ r.used = [p.used EXCEPT ![b] = FALSE] /\ r.first = p.first
    BY <1>1, <2>1 DEF PoolType
  <2>2a. q = [r EXCEPT !.next = [r.next EXCEPT ![b] = r.first], !.first = b]
    BY <1>3 DEF MemoryBufFree, SlistInsertHead
  <2> HIDE DEF r
  <2>3. /\ q \in PoolType /\ q.heap = p.heap /\ q.alloc_bufs = p.alloc_bufs
        /\ q.used = [p.used EXCEPT ![b] = FALSE]
    <3> DEFINE next == [r.next EXCEPT ![b] = r.first]
    <3>1. next \in [Block -> Block \cup {NULL}]
      BY <1>1, <2>1, <2>2 DEF PoolType
    <3>2. q = [r EXCEPT !.next = next, !.first = b]
      BY <2>2a
    <3> HIDE DEF next, q
    <3>3. QED
      BY <2>1, <2>2, <3>1, <3>2 DEF PoolType
  <2> HIDE DEF q
  <2>4. Taken(q) = Taken(p) \ {b}
    BY <1>1, <2>1, <2>3 DEF Taken, PoolType
  <2>5. SoundPool(q)
    BY <2>3 DEF SoundPool
  <2>6. QED
    BY <2>4, <2>5 DEF q
<1>4. QED
  BY <1>2, <1>3
-----------------------------------------------------------------------------

USE DEF INVALID, CONNECTING, CONNECTED, SHUTTING_DOWN, SHUT_DOWN, CLOSING,
        CLOSED

-----------------------------------------------------------------------------
(* The constants the code assigns are in the types of the fields.           *)
LEMMA Literals ==
    /\ {INVALID, CONNECTING, CONNECTED, SHUTTING_DOWN, SHUT_DOWN, CLOSING, CLOSED}
         \subseteq Status
    /\ {"loop", "on_connection", "on_connect", "on_read", "on_EOF",
        "on_read_err", "on_write", "on_write_err", "on_shutdown", "on_error",
        "on_close"} \subseteq Frame
    /\ {"stopped", "running", "due", "closing", "closed"} \subseteq TimerState
    /\ {"open", "closing", "closed"} \subseteq HandleState
    /\ {"none", "pending", "up", "down"} \subseteq ConnectState
    /\ {"none", "queued", "ok", "reset", "refused"} \subseteq WriteState
    /\ {"none", "read", "write", "connect", "shutdown", "timer"} \subseteq From
    /\ {"none", "uv_close", "read_start", "canceled", "refused"} \subseteq Fault
  BY DEF Status, Frame, TimerState, HandleState, ConnectState, WriteState,
      Outcome, From, Fault

(* Every function of tcp_socket.c leaves a socket a socket.                 *)
LEMMA EnterType == ASSUME NEW s \in SocketType, NEW f \in Frame
                   PROVE  Enter(s, f) \in SocketType
  BY DEF Enter, SocketType

LEMMA LeaveType == ASSUME NEW s \in SocketType
                   PROVE  Leave(s) \in SocketType
  BY Literals DEF Leave, SocketType

LEMMA AbortType == ASSUME NEW s \in SocketType, NEW why \in Fault
                   PROVE  Abort(s, why) \in SocketType
  BY DEF Abort, SocketType

LEMMA TimerType == ASSUME NEW s \in SocketType
                   PROVE  TimerStart(s) \in SocketType /\ TimerReset(s) \in SocketType
  BY Literals DEF TimerStart, TimerReset, SocketType

LEMMA TimerResetFields ==
    ASSUME NEW s \in SocketType
    PROVE  LET t == TimerReset(s)
           IN  /\ t.status = s.status /\ t.tcp = s.tcp
               /\ t.timer \in {s.timer, "running"} /\ t.timeout = s.timeout
               /\ s.timer = "stopped" => t.timer = "stopped"
               /\ t.timer_closed = s.timer_closed
               /\ t.socket_closed = s.socket_closed
               /\ t.connect = s.connect /\ t.write = s.write
               /\ t.shutdown = s.shutdown /\ t.fault = s.fault
               /\ t.reading = s.reading /\ t.polling = s.polling
  BY DEF TimerReset, SocketType

LEMMA TcpCloseType == ASSUME NEW s \in SocketType
                      PROVE  TcpClose(s) \in SocketType
  BY Literals DEF TcpClose, Abort, SocketType

LEMMA CheckCloseType == ASSUME NEW s \in SocketType
                        PROVE  CheckClose(s) \in SocketType
  BY Literals DEF CheckClose, Enter, SocketType

LEMMA CloseCbType == ASSUME NEW s \in SocketType
                     PROVE  /\ TimerCloseCb(s) \in SocketType
                            /\ SocketCloseCb(s) \in SocketType
<1>1. /\ [s EXCEPT !.timer = "closed", !.timer_closed = TRUE] \in SocketType
      /\ [s EXCEPT !.tcp = "closed", !.socket_closed = TRUE] \in SocketType
  BY Literals DEF SocketType
<1>2. QED
  BY <1>1, CheckCloseType DEF TimerCloseCb, SocketCloseCb

LEMMA HandledType == ASSUME NEW s \in SocketType, NEW from
                     PROVE  Handled(s, from) \in SocketType
<1>1. [s EXCEPT !.reading = FALSE] \in SocketType
  BY DEF SocketType
<1>2. QED
  BY <1>1, Literals, EnterType, LeaveType DEF Handled

(* What reporting a failure to the user changes: the callback that runs.    *)
LEMMA HandledFields ==
    ASSUME NEW s \in SocketType, NEW from
    PROVE  LET h == Handled(s, from)
           IN  /\ h.status = s.status
               /\ h.timeout = s.timeout
               /\ h.timer_closed = s.timer_closed
               /\ h.socket_closed = s.socket_closed
               /\ h.timer = s.timer /\ h.tcp = s.tcp
               /\ h.connect = s.connect /\ h.polling = s.polling
               /\ h.write = s.write /\ h.shutdown = s.shutdown
               /\ h.fault = s.fault
               /\ from = "read" => ~h.reading
               /\ h.frame = IF from = "read" THEN "on_read_err"
                            ELSE IF from = "write" THEN "on_write_err"
                            ELSE "loop"
<1>1. CASE from = "read"
  BY <1>1 DEF Handled, Enter, SocketType
<1>2. CASE from = "write"
  BY <1>2 DEF Handled, Enter, SocketType
<1>3. CASE from \notin {"read", "write"}
  BY <1>3 DEF Handled, Leave, SocketType
<1>4. QED
  BY <1>1, <1>2, <1>3

(* The four ways out of __ne_tcp_socket_handle_error.                       *)
LEMMA HandleErrorCases ==
    ASSUME NEW s \in SocketType, NEW from, NEW st \in UvStatus, NEW p
    PROVE  \/ /\ st = "ok" \/ (st = "eof" /\ s.status < CLOSING)
                          \/ (NDEBUG /\ st \in {"canceled", "refused"} /\ s.status < CLOSING)
              /\ HandleError(s, from, st, p) = p
           \/ /\ st # "ok" /\ s.status >= CLOSING
              /\ HandleError(s, from, st, p) = Handled(s, from)
           \/ /\ st = "reset" /\ s.status < CLOSING
              /\ HandleError(s, from, st, p)
                    = Enter([s EXCEPT !.from = from], "on_error")
           \/ /\ ~NDEBUG /\ st \in {"canceled", "refused"} /\ s.status < CLOSING
              /\ HandleError(s, from, st, p) = Abort(s, st)
<1>1. s.status \in Int
  BY DEF SocketType, Status
<1>2. CASE st = "ok"
  BY <1>2 DEF HandleError
<1>3. CASE st # "ok" /\ s.status >= CLOSING
  BY <1>1, <1>3 DEF HandleError
<1>4. CASE st = "eof" /\ s.status < CLOSING
  BY <1>1, <1>4 DEF HandleError
<1>5. CASE st = "reset" /\ s.status < CLOSING
  BY <1>1, <1>5 DEF HandleError
<1>6. CASE st \in {"canceled", "refused"} /\ s.status < CLOSING
  BY <1>1, <1>6, BuildAssumption DEF HandleError
<1>7. QED
  BY <1>1, <1>2, <1>3, <1>4, <1>5, <1>6 DEF UvStatus, Outcome

LEMMA HandleErrorType ==
    ASSUME NEW s \in SocketType, NEW from \in From, NEW st \in UvStatus,
           NEW p \in SocketType
    PROVE  HandleError(s, from, st, p) \in SocketType
<1>1. [s EXCEPT !.from = from] \in SocketType
  BY DEF SocketType
<1>2. st \in {"canceled", "refused"} => st \in Fault
  BY Literals
<1>3. Handled(s, from) \in SocketType
  BY HandledType
<1>4. Enter([s EXCEPT !.from = from], "on_error") \in SocketType
  BY <1>1, EnterType, Literals
<1>5. st \in {"canceled", "refused"} => Abort(s, st) \in SocketType
  BY <1>2, AbortType
<1>6. QED
  BY <1>3, <1>4, <1>5, HandleErrorCases

LEMMA AcceptedType == Accepted(FreshSocket) \in SocketType
<1>1. FreshSocket \in SocketType
  BY Literals DEF FreshSocket, SocketType
<1>2. [FreshSocket EXCEPT !.status = CONNECTED, !.connect = "up"] \in SocketType
  BY <1>1, Literals DEF SocketType
<1>3. QED
  BY <1>2, TimerType, EnterType, Literals DEF Accepted, Enter

LEMMA UserType ==
    ASSUME NEW s \in SocketType, NEW result \in WriteState
    PROVE  /\ TcpConnect(s) \in SocketType
           /\ TcpConnectFails(s) \in SocketType
           /\ TcpReadStart(s) \in SocketType
           /\ TcpReadStop(s) \in SocketType
           /\ TcpWrite(s, result) \in SocketType
           /\ TcpShutdown(s) \in SocketType
<1>1. [s EXCEPT !.connect = "pending", !.status = CONNECTING] \in SocketType
  BY Literals DEF SocketType
<1>2. TcpConnect(s) \in SocketType
  BY <1>1, TimerType DEF TcpConnect
<1>a. TcpConnectFails(s) \in SocketType
  BY AbortType, Literals DEF TcpConnectFails
<1>3. TcpReadStart(s) \in SocketType /\ TcpReadStop(s) \in SocketType
  BY Literals DEF TcpReadStart, TcpReadStop, Abort, SocketType
<1>4. TcpWrite(s, result) \in SocketType
  BY DEF TcpWrite, SocketType
<1>5. TcpShutdown(s) \in SocketType
  BY Literals DEF TcpShutdown, SocketType
<1>6. QED
  BY <1>2, <1>a, <1>3, <1>4, <1>5

LEMMA ErrorReturnType == ASSUME NEW s \in SocketType
                         PROVE  AfterError(s) \in SocketType /\ TimeoutCb(s) \in SocketType
<1>1. [s EXCEPT !.from = "timer", !.timer = "running"] \in SocketType
  BY Literals DEF SocketType
<1>2. QED
  BY <1>1, TcpCloseType, HandledType, EnterType, Literals DEF AfterError, TimeoutCb

LEMMA ConnectCbType == ASSUME NEW s \in SocketType, NEW st \in UvStatus
                       PROVE  ConnectCb(s, st) \in SocketType
<1> DEFINE done == [s EXCEPT !.connect = IF st = "ok" THEN "up" ELSE "down"]
<1>1. done \in SocketType
  BY Literals DEF SocketType
<1>2. Enter(TimerReset(done), "on_connect") \in SocketType
  BY <1>1, TimerType, EnterType, Literals
<1> HIDE DEF done
<1>3. HandleError(done, "connect", st, Enter(TimerReset(done), "on_connect")) \in SocketType
  BY <1>1, <1>2, HandleErrorType, Literals
<1>4. QED
  BY <1>3 DEF ConnectCb, done

LEMMA ReadCbType == ASSUME NEW s \in SocketType, NEW st \in UvStatus
                    PROVE  ReadCb(s, st) \in SocketType
<1> DEFINE done == [s EXCEPT !.polling = (st = "ok")]
           next == IF st = "eof" THEN ReadEOF(done)
                                 ELSE Enter(TimerReset(done), "on_read")
<1>1. done \in SocketType
  BY DEF SocketType
<1> HIDE DEF done
<1>2. TimerReset(done) \in SocketType
  BY <1>1, TimerType
<1>3. [TimerReset(done) EXCEPT !.receiveEOF = TRUE] \in SocketType
  BY <1>2 DEF SocketType
<1>4. ReadEOF(done) \in SocketType
  BY <1>3, UserType, EnterType, Literals DEF ReadEOF
<1>5. next \in SocketType
  BY <1>2, <1>4, EnterType, Literals
<1> HIDE DEF next
<1>6. HandleError(done, "read", st, next) \in SocketType
  BY <1>1, <1>5, HandleErrorType, Literals
<1>7. QED
  BY <1>6 DEF ReadCb, done, next

LEMMA WriteCbType == ASSUME NEW s \in SocketType, s.write # "none"
                     PROVE  WriteCb(s) \in SocketType /\ WriteStatus(s) \in UvStatus
<1> DEFINE done == [s EXCEPT !.write = "none"]
<1>1. done \in SocketType
  BY Literals DEF SocketType
<1> HIDE DEF done
<1>2. WriteStatus(s) \in UvStatus
  BY DEF WriteStatus, SocketType, WriteState, UvStatus, Outcome
<1>3. HandleError(done, "write", WriteStatus(s), Enter(done, "on_write")) \in SocketType
  BY <1>1, <1>2, HandleErrorType, EnterType, Literals
<1>4. QED
  BY <1>2, <1>3 DEF WriteCb, done

LEMMA ShutdownCbType == ASSUME NEW s \in SocketType, NEW st \in UvStatus
                        PROVE  ShutdownCb(s, st) \in SocketType
<1> DEFINE done == [s EXCEPT !.shutdown = FALSE]
<1>1. done \in SocketType
  BY DEF SocketType
<1>2. [done EXCEPT !.status = SHUT_DOWN] \in SocketType
  BY <1>1, Literals DEF SocketType
<1> HIDE DEF done
<1>3. HandleError(done, "shutdown", st,
                  Enter([done EXCEPT !.status = SHUT_DOWN], "on_shutdown")) \in SocketType
  BY <1>1, <1>2, HandleErrorType, EnterType, Literals
<1>4. QED
  BY <1>3 DEF ShutdownCb, done
-----------------------------------------------------------------------------
(* What holds of a socket that is accepted, whoever uses it: its handles    *)
(* are closed together and in the order of the status, and its requests end *)
(* before its handle.                                                       *)
Open(s) == s.status \in CONNECTED .. SHUT_DOWN

SoundSocket(s) ==
    /\ s \in SocketType
    /\ s.status # CONNECTING
    /\ IF s.status < CLOSING
         THEN /\ s.tcp = "open"
              /\ s.timer \in {"stopped", "running", "due"}
              /\ ~s.timer_closed
              /\ ~s.socket_closed
         ELSE /\ s.tcp \in {"closing", "closed"}
              /\ s.timer \in {"closing", "closed"}
              /\ ~s.polling
              /\ s.timer_closed <=> s.timer = "closed"
              /\ s.socket_closed <=> s.tcp = "closed"
              /\ (s.status = CLOSED) <=> (s.timer_closed /\ s.socket_closed)
    /\ s.tcp = "closed" => s.write = "none" /\ ~s.shutdown
    /\ s.status = INVALID =>
         /\ s.write = "none" /\ ~s.shutdown /\ ~s.polling
         /\ s.timer = "stopped"

(* t is s for all that a user of the socket can tell.                       *)
SameButFrame(s, t) ==
    /\ t.status = s.status
    /\ t.polling = s.polling
    /\ t.write = s.write
    /\ t.shutdown = s.shutdown
    /\ t.fault = s.fault

(* What the status says of the handles.                                     *)
LEMMA SoundOpen ==
    ASSUME NEW s, SoundSocket(s)
    PROVE  /\ s.status \in {INVALID, CLOSING, CLOSED} \/ Open(s)
           /\ Open(s) => /\ s.status < CLOSING /\ ~(s.status >= CLOSING)
                         /\ s.tcp = "open" /\ s.status # INVALID
                         /\ s.status \notin {CLOSING, CLOSED}
           /\ s.status \in {CLOSING, CLOSED} => s.status >= CLOSING /\ ~(s.status < CLOSING)
           /\ s.polling => Open(s)
           /\ s.tcp = "open" <=> s.status < CLOSING
           /\ s.status < CLOSING <=> s.status \notin {CLOSING, CLOSED}
  BY DEF SoundSocket, SocketType, Status, Open

(* A callback starts or returns.                                            *)
LEMMA SoundFrame ==
    ASSUME NEW s, SoundSocket(s), NEW f \in Frame, NEW from \in From
    PROVE  /\ SoundSocket(Enter(s, f)) /\ SameButFrame(s, Enter(s, f))
           /\ Enter(s, f).frame = f
           /\ SoundSocket(Leave(s)) /\ SameButFrame(s, Leave(s))
           /\ Leave(s).frame = "loop"
           /\ SoundSocket([s EXCEPT !.from = from])
           /\ SameButFrame(s, [s EXCEPT !.from = from])
<1> s \in SocketType
  BY DEF SoundSocket
<1>1. /\ Enter(s, f) \in SocketType /\ Leave(s) \in SocketType
      /\ [s EXCEPT !.from = from] \in SocketType
  BY EnterType, LeaveType DEF SocketType
<1>2. SoundSocket(Enter(s, f)) /\ SameButFrame(s, Enter(s, f)) /\ Enter(s, f).frame = f
  BY <1>1 DEF Enter, SoundSocket, SameButFrame, SocketType
<1>3. SoundSocket(Leave(s)) /\ SameButFrame(s, Leave(s)) /\ Leave(s).frame = "loop"
  BY <1>1 DEF Leave, SoundSocket, SameButFrame, SocketType
<1>4. /\ SoundSocket([s EXCEPT !.from = from])
      /\ SameButFrame(s, [s EXCEPT !.from = from])
  BY <1>1 DEF SoundSocket, SameButFrame, SocketType
<1>5. QED
  BY <1>2, <1>3, <1>4

(* An assertion fails.                                                      *)
LEMMA SoundAbort ==
    ASSUME NEW s, SoundSocket(s), NEW why \in Fault
    PROVE  LET t == Abort(s, why)
           IN  /\ SoundSocket(t)
               /\ t.status = s.status /\ t.polling = s.polling
               /\ t.write = s.write /\ t.shutdown = s.shutdown
               /\ t.fault = why /\ t.frame = s.frame
<1>1. s \in SocketType /\ Abort(s, why) \in SocketType
  BY AbortType DEF SoundSocket
<1>2. QED
  BY <1>1 DEF Abort, SoundSocket, SocketType

(* The timer is reset.                                                      *)
LEMMA SoundReset ==
    ASSUME NEW s, SoundSocket(s)
    PROVE  /\ SoundSocket(TimerReset(s)) /\ SameButFrame(s, TimerReset(s))
           /\ TimerReset(s).frame = s.frame
<1>1. s \in SocketType /\ TimerReset(s) \in SocketType
  BY TimerType DEF SoundSocket
<1>2. QED
  BY <1>1 DEF TimerReset, SoundSocket, SameButFrame, SocketType
-----------------------------------------------------------------------------
(* What a user's calls do to an open socket.                                *)
LEMMA SoundStop ==
    ASSUME NEW s, SoundSocket(s)
    PROVE  LET t == TcpReadStop(s)
           IN  /\ SoundSocket(t)
               /\ t.status = s.status /\ ~t.polling /\ t.write = s.write
               /\ t.shutdown = s.shutdown /\ t.fault = s.fault
               /\ t.frame = s.frame
<1>1. s \in SocketType /\ TcpReadStop(s) \in SocketType
  BY UserType, Literals DEF SoundSocket
<1>2. QED
  BY <1>1 DEF TcpReadStop, SoundSocket, SocketType

(* In a build with assertions a socket that cannot read stops the process.  *)
LEMMA SoundStart ==
    ASSUME NEW s, SoundSocket(s), s.status # INVALID
    PROVE  LET t == TcpReadStart(s)
           IN  /\ SoundSocket(t)
               /\ t.status = s.status /\ t.write = s.write
               /\ t.shutdown = s.shutdown /\ t.frame = s.frame
               /\ \/ t.fault = "read_start" /\ t.polling = s.polling
                  \/ t.fault = s.fault /\ t.polling = Open(s)
<1>1. s \in SocketType /\ TcpReadStart(s) \in SocketType
  BY UserType, Literals DEF SoundSocket
<1>2. (s.tcp = "open") = Open(s)
  BY DEF SoundSocket, SocketType, Status, Open
<1>3. QED
  BY <1>1, <1>2 DEF TcpReadStart, Abort, SoundSocket, SocketType

(* ne_tcp_write.                                                            *)
LEMMA SoundWrite ==
    ASSUME NEW s, SoundSocket(s), Open(s), NEW result \in WriteState
    PROVE  LET t == TcpWrite(s, result)
           IN  /\ SoundSocket(t)
               /\ t.status = s.status /\ t.polling = s.polling
               /\ t.write = result /\ t.shutdown = s.shutdown
               /\ t.fault = s.fault /\ t.frame = s.frame
<1>1. s \in SocketType /\ TcpWrite(s, result) \in SocketType
  BY UserType DEF SoundSocket
<1>2. s.tcp = "open" /\ s.status # INVALID
  BY SoundOpen
<1>3. QED
  BY <1>1, <1>2 DEF TcpWrite, SoundSocket, SocketType

(* ne_tcp_shutdown.                                                         *)
LEMMA SoundShutdown ==
    ASSUME NEW s, SoundSocket(s), Open(s)
    PROVE  LET t == TcpShutdown(s)
           IN  /\ SoundSocket(t)
               /\ Open(t) /\ t.polling = s.polling
               /\ t.write = s.write /\ t.shutdown
               /\ t.fault = s.fault /\ t.frame = s.frame
<1>1. s \in SocketType /\ TcpShutdown(s) \in SocketType
  BY UserType, Literals DEF SoundSocket
<1>2. s.tcp = "open" /\ s.status # INVALID /\ s.status < CLOSING
  BY SoundOpen
<1>3. QED
  BY <1>1, <1>2 DEF TcpShutdown, SoundSocket, SocketType, Open

(* ne_tcp_close.                                                            *)
LEMMA SoundClose ==
    ASSUME NEW s, SoundSocket(s), Open(s)
    PROVE  LET t == TcpClose(s)
           IN  /\ SoundSocket(t)
               /\ t.status = CLOSING /\ t.tcp = "closing" /\ ~t.polling
               /\ t.write = s.write /\ t.shutdown = s.shutdown
               /\ t.fault = s.fault /\ t.frame = s.frame
<1>1. s \in SocketType /\ TcpClose(s) \in SocketType
  BY TcpCloseType DEF SoundSocket
<1>2. s.tcp = "open" /\ s.status < CLOSING
  BY SoundOpen
<1>3. QED
  BY <1>1, <1>2 DEF TcpClose, SoundSocket, SocketType

(* ne_tcp_close once more: uv_close aborts.                                 *)
LEMMA SoundCloseTwice ==
    ASSUME NEW s, SoundSocket(s), Open(s)
    PROVE  LET t == TcpClose(TcpClose(s))
           IN  /\ SoundSocket(t)
               /\ t.status = CLOSING /\ ~t.polling /\ t.write = s.write
               /\ t.shutdown = s.shutdown /\ t.fault = "uv_close"
<1> DEFINE c == TcpClose(s)
<1>1. /\ SoundSocket(c) /\ c.status = CLOSING /\ c.tcp = "closing" /\ ~c.polling
      /\ c.write = s.write /\ c.shutdown = s.shutdown
  BY SoundClose
<1> HIDE DEF c
<1>2. TcpClose(c) = Abort(c, "uv_close")
  BY <1>1 DEF TcpClose
<1>3. "uv_close" \in Fault
  BY DEF Fault
<1>4. QED
  BY <1>1, <1>2, <1>3, SoundAbort DEF c

(* After on_error: the socket is closed, and the failure reported.          *)
LEMMA SoundAfterError ==
    ASSUME NEW s, SoundSocket(s), Open(s)
    PROVE  LET t == AfterError(s)
           IN  /\ SoundSocket(t)
               /\ t.status = CLOSING /\ ~t.polling /\ t.write = s.write
               /\ t.shutdown = s.shutdown /\ t.fault = s.fault
               /\ t.frame \in {"loop", "on_read_err", "on_write_err"}
<1> DEFINE c == TcpClose(s)
           t == Handled(c, s.from)
<1>1. /\ SoundSocket(c) /\ c.status = CLOSING /\ c.tcp = "closing" /\ ~c.polling
      /\ c.write = s.write /\ c.shutdown = s.shutdown /\ c.fault = s.fault
  BY SoundClose
<1>2. AfterError(s) = t
  BY DEF AfterError
<1> HIDE DEF c
<1>3. c \in SocketType /\ t \in SocketType
  BY <1>1, HandledType DEF SoundSocket
<1>4. /\ t.status = c.status /\ t.timer_closed = c.timer_closed
      /\ t.socket_closed = c.socket_closed
      /\ t.timer = c.timer /\ t.tcp = c.tcp /\ t.polling = c.polling
      /\ t.write = c.write /\ t.shutdown = c.shutdown /\ t.fault = c.fault
      /\ t.frame \in {"loop", "on_read_err", "on_write_err"}
  BY <1>3, HandledFields
<1> HIDE DEF t
<1>5. QED
  BY <1>1, <1>2, <1>3, <1>4 DEF SoundSocket
-----------------------------------------------------------------------------
(* The callbacks of libuv.                                                  *)
LEMMA SoundAccepted ==
    LET t == Accepted(FreshSocket)
    IN  /\ SoundSocket(t) /\ t.status = CONNECTED
        /\ ~t.polling /\ t.write = "none" /\ ~t.shutdown /\ t.fault = "none"
<1>1. Accepted(FreshSocket) \in SocketType
  BY AcceptedType
<1>2. QED
  BY <1>1 DEF Accepted, FreshSocket, TimerStart, SoundSocket

(* What a callback that fails leads to.  A settled write (done) is taken    *)
(* off before.                                                              *)
LEMMA SoundError ==
    ASSUME NEW s, SoundSocket(s), NEW from \in From
    PROVE  LET t == Enter([s EXCEPT !.from = from], "on_error")
           IN  SoundSocket(t) /\ SameButFrame(s, t) /\ t.frame = "on_error"
<1> DEFINE u == [s EXCEPT !.from = from]
<1>1. "on_error" \in Frame
  BY DEF Frame
<1>2. SoundSocket(u) /\ SameButFrame(s, u)
  BY <1>1, SoundFrame
<1> HIDE DEF u
<1>3. /\ SoundSocket(Enter(u, "on_error")) /\ SameButFrame(u, Enter(u, "on_error"))
      /\ Enter(u, "on_error").frame = "on_error"
  BY <1>1, <1>2, SoundFrame DEF From
<1>4. QED
  BY <1>2, <1>3 DEF SameButFrame, u

(* handle_error of a closing socket reports to who asked.                   *)
LEMMA SoundHandled ==
    ASSUME NEW s, SoundSocket(s), NEW from
    PROVE  LET t == Handled(s, from)
           IN  /\ SoundSocket(t) /\ SameButFrame(s, t)
               /\ t.frame = IF from = "read" THEN "on_read_err"
                            ELSE IF from = "write" THEN "on_write_err"
                            ELSE "loop"
<1> DEFINE t == Handled(s, from)
<1>1. s \in SocketType /\ t \in SocketType
  BY HandledType DEF SoundSocket
<1>2. /\ t.status = s.status /\ t.timer_closed = s.timer_closed
      /\ t.socket_closed = s.socket_closed
      /\ t.timer = s.timer /\ t.tcp = s.tcp /\ t.polling = s.polling
      /\ t.write = s.write /\ t.shutdown = s.shutdown /\ t.fault = s.fault
      /\ t.frame = IF from = "read" THEN "on_read_err"
                   ELSE IF from = "write" THEN "on_write_err"
                   ELSE "loop"
  BY <1>1, HandledFields
<1> HIDE DEF t
<1>3. SoundSocket(t) /\ SameButFrame(s, t)
  BY <1>1, <1>2 DEF SoundSocket, SameButFrame
<1>4. QED
  BY <1>2, <1>3 DEF t

(* __read_cb, by what libuv reports.                                        *)
LEMMA SoundReadCb ==
    ASSUME NEW s, SoundSocket(s), s.polling,
           NEW status \in {"ok", "eof", "reset", "refused"}
    PROVE  LET t == ReadCb(s, status)
           IN  /\ SoundSocket(t)
               /\ t.status = s.status /\ t.polling = (status = "ok")
               /\ t.write = s.write /\ t.shutdown = s.shutdown
               /\ \/ /\ t.fault = s.fault
                     /\ t.frame = CASE status = "ok"    -> "on_read"
                                    [] status = "eof"   -> "on_EOF"
                                    [] status = "reset" -> "on_error"
                                    [] OTHER            -> "on_read"
                     /\ status = "refused" => NDEBUG
                  \/ /\ status = "refused" /\ t.fault = "refused" /\ ~NDEBUG
                     /\ t.frame = s.frame
<1> DEFINE done == [s EXCEPT !.polling = (status = "ok")]
           u    == TimerReset(done)
           next == IF status = "eof" THEN ReadEOF(done) ELSE Enter(u, "on_read")
<1>0. Open(s) /\ s.status < CLOSING /\ ~(s.status >= CLOSING)
  BY SoundOpen
<1>1. /\ SoundSocket(done) /\ done.status = s.status
      /\ done.polling = (status = "ok") /\ done.write = s.write
      /\ done.shutdown = s.shutdown /\ done.fault = s.fault
      /\ done.frame = s.frame
  <2>1. s \in SocketType /\ s.tcp = "open"
    BY SoundOpen DEF SoundSocket
  <2>2. done \in SocketType
    BY <2>1 DEF SocketType
  <2>3. QED
    BY <1>0, <2>1, <2>2 DEF SoundSocket, SocketType, Open
<1>2. ReadCb(s, status) = HandleError(done, "read", status, next)
  BY DEF ReadCb
<1> HIDE DEF done
<1>3. SoundSocket(u) /\ SameButFrame(done, u)
  BY <1>1, SoundReset
<1> HIDE DEF u
<1>4. /\ {"on_read", "on_EOF", "on_error"} \subseteq Frame /\ "read" \in From
      /\ "refused" \in Fault
  BY DEF Frame, From, Fault
<1>5. CASE status = "ok"
  <2>1. ReadCb(s, status) = Enter(u, "on_read")
    BY <1>2, <1>5 DEF HandleError
  <2>2. /\ SoundSocket(Enter(u, "on_read")) /\ SameButFrame(u, Enter(u, "on_read"))
        /\ Enter(u, "on_read").frame = "on_read"
    BY <1>3, <1>4, SoundFrame
  <2>3. QED
    BY <1>1, <1>3, <1>5, <2>1, <2>2 DEF SameButFrame
<1>6. CASE status = "eof"
  <2> DEFINE v == [u EXCEPT !.receiveEOF = TRUE]
             x == TcpReadStop(v)
  <2>1. ReadCb(s, status) = Enter(x, "on_EOF")
    BY <1>0, <1>1, <1>2, <1>6 DEF HandleError, ReadEOF, u
  <2>2. SoundSocket(v) /\ SameButFrame(u, v)
    <3>1. u \in SocketType /\ v \in SocketType
      BY <1>3 DEF SoundSocket, SocketType
    <3>2. QED
      BY <1>3, <3>1 DEF SoundSocket, SameButFrame, SocketType
  <2> HIDE DEF v
  <2>3. /\ SoundSocket(x) /\ x.status = v.status /\ ~x.polling
        /\ x.write = v.write /\ x.shutdown = v.shutdown /\ x.fault = v.fault
    BY <2>2, SoundStop
  <2>4. x.polling \in BOOLEAN
    BY <2>3 DEF SoundSocket, SocketType
  <2> HIDE DEF x
  <2>5. /\ SoundSocket(Enter(x, "on_EOF")) /\ SameButFrame(x, Enter(x, "on_EOF"))
        /\ Enter(x, "on_EOF").frame = "on_EOF"
    BY <1>4, <2>3, SoundFrame
  <2>6. QED
    BY <1>1, <1>3, <1>6, <2>1, <2>2, <2>3, <2>4, <2>5 DEF SameButFrame
<1>7. CASE status = "reset"
  <2> DEFINE e == Enter([done EXCEPT !.from = "read"], "on_error")
  <2>1. ReadCb(s, status) = e
    BY <1>0, <1>1, <1>2, <1>7 DEF HandleError
  <2>2. SoundSocket(e) /\ SameButFrame(done, e) /\ e.frame = "on_error"
    BY <1>1, <1>4, SoundError
  <2>3. QED
    BY <1>1, <1>7, <2>1, <2>2 DEF SameButFrame
<1>8. CASE status = "refused" /\ NDEBUG
  <2>1. ReadCb(s, status) = Enter(u, "on_read")
    BY <1>0, <1>1, <1>2, <1>8 DEF HandleError
  <2>2. /\ SoundSocket(Enter(u, "on_read")) /\ SameButFrame(u, Enter(u, "on_read"))
        /\ Enter(u, "on_read").frame = "on_read"
    BY <1>3, <1>4, SoundFrame
  <2>3. QED
    BY <1>1, <1>3, <1>8, <2>1, <2>2 DEF SameButFrame
<1>9. CASE status = "refused" /\ ~NDEBUG
  <2>1. ReadCb(s, status) = Abort(done, "refused")
    BY <1>0, <1>1, <1>2, <1>9 DEF HandleError
  <2>2. QED
    BY <1>1, <1>4, <1>9, <2>1, SoundAbort
<1>10. QED
  BY <1>5, <1>6, <1>7, <1>8, <1>9

(* A read that finds no room is reported, and libuv goes on polling.        *)
LEMMA SoundPolling ==
    ASSUME NEW s, SoundSocket(s), Open(s)
    PROVE  LET t == [s EXCEPT !.polling = TRUE]
           IN  /\ SoundSocket(t) /\ t.status = s.status /\ t.polling
               /\ t.write = s.write /\ t.shutdown = s.shutdown
               /\ t.fault = s.fault /\ t.frame = s.frame
<1>1. s \in SocketType /\ [s EXCEPT !.polling = TRUE] \in SocketType
  BY DEF SoundSocket, SocketType
<1>2. QED
  BY <1>1, SoundOpen DEF SoundSocket, SocketType

(* __write_cb: the write is over, and it is told to whom it concerns.       *)
LEMMA SoundWriteCb ==
    ASSUME NEW s, SoundSocket(s), s.write # "none"
    PROVE  LET t == WriteCb(s)
           IN  /\ SoundSocket(t)
               /\ t.status = s.status /\ t.polling = s.polling
               /\ t.write = "none" /\ t.shutdown = s.shutdown
               /\ \/ t.fault = s.fault /\ t.frame = "on_write"
                  \/ t.fault = s.fault /\ t.frame = "on_write_err" /\ ~Open(s)
                  \/ t.fault = s.fault /\ t.frame = "on_error" /\ Open(s)
                  \/ /\ t.fault \in {"canceled", "refused"} /\ ~NDEBUG /\ Open(s)
                     /\ t.frame = s.frame
<1> DEFINE done == [s EXCEPT !.write = "none"]
           st   == WriteStatus(s)
           next == Enter(done, "on_write")
<1>1. /\ SoundSocket(done) /\ done.status = s.status /\ done.polling = s.polling
      /\ done.write = "none" /\ done.shutdown = s.shutdown /\ done.fault = s.fault
      /\ done.frame = s.frame
  <2>1. s \in SocketType
    BY DEF SoundSocket
  <2>2. done \in SocketType
    BY <2>1, Literals DEF SocketType
  <2>3. QED
    BY <2>1, <2>2 DEF SoundSocket, SocketType
<1>2. st \in UvStatus /\ st # "eof"
  BY WriteCbType DEF SoundSocket, WriteStatus, SocketType, WriteState, Outcome
<1>3. WriteCb(s) = HandleError(done, "write", st, next)
  BY DEF WriteCb
<1>4. s.status < CLOSING <=> Open(s)
  BY SoundOpen DEF SoundSocket
<1>5. /\ {"on_write", "on_error"} \subseteq Frame /\ "write" \in From
      /\ {"canceled", "refused"} \subseteq Fault
  BY DEF Frame, From, Fault
<1> HIDE DEF done, st
<1>6. SoundSocket(next) /\ SameButFrame(done, next) /\ next.frame = "on_write"
  BY <1>1, <1>5, SoundFrame
<1>7. LET e == Enter([done EXCEPT !.from = "write"], "on_error")
      IN  SoundSocket(e) /\ SameButFrame(done, e) /\ e.frame = "on_error"
  BY <1>1, <1>5, SoundError
<1>8. LET h == Handled(done, "write")
      IN  SoundSocket(h) /\ SameButFrame(done, h) /\ h.frame = "on_write_err"
  BY <1>1, SoundHandled
<1>9. st \in {"canceled", "refused"} =>
        LET a == Abort(done, st)
        IN  /\ SoundSocket(a)
            /\ a.status = done.status /\ a.polling = done.polling
            /\ a.write = done.write /\ a.shutdown = done.shutdown
            /\ a.fault = st /\ a.frame = done.frame
  BY <1>1, <1>5, SoundAbort
<1> HIDE DEF next
<1>10. done \in SocketType /\ done.status \in Int
  BY <1>1 DEF SoundSocket, SocketType, Status
<1>11. \/ WriteCb(s) = next
       \/ s.status >= CLOSING /\ WriteCb(s) = Handled(done, "write")
       \/ /\ s.status < CLOSING
          /\ WriteCb(s) = Enter([done EXCEPT !.from = "write"], "on_error")
       \/ /\ ~NDEBUG /\ st \in {"canceled", "refused"} /\ s.status < CLOSING
          /\ WriteCb(s) = Abort(done, st)
  BY <1>1, <1>2, <1>3, <1>10, HandleErrorCases
<1>12. s.status >= CLOSING => ~Open(s)
  BY <1>1, <1>4, <1>10
<1>13. QED
  BY <1>1, <1>4, <1>6, <1>7, <1>8, <1>9, <1>11, <1>12 DEF SameButFrame

(* __shutdown_cb: the shutdown is over.                                     *)
LEMMA SoundShutdownCb ==
    ASSUME NEW s, SoundSocket(s), s.shutdown, NEW st \in UvStatus,
           IF s.tcp = "open" THEN st \in Outcome ELSE st = "canceled"
    PROVE  LET t == ShutdownCb(s, st)
           IN  /\ SoundSocket(t)
               /\ t.polling = s.polling /\ t.write = s.write
               /\ \/ /\ Open(s) /\ Open(t)
                     /\ t.fault = s.fault /\ ~t.shutdown /\ t.frame = "on_shutdown"
                  \/ /\ ~Open(s) /\ t.status = s.status
                     /\ t.fault = s.fault /\ ~t.shutdown /\ t.frame = "loop"
                  \/ /\ Open(s) /\ t.status = s.status
                     /\ t.fault = s.fault /\ ~t.shutdown /\ t.frame = "on_error"
                  \/ /\ Open(s) /\ t.status = s.status
                     /\ t.fault \in {"canceled", "refused"} /\ ~NDEBUG
                     /\ ~t.shutdown /\ t.frame = s.frame
<1> DEFINE done == [s EXCEPT !.shutdown = FALSE]
           down == [done EXCEPT !.status = SHUT_DOWN]
           next == Enter(down, "on_shutdown")
<1>0. s \in SocketType /\ s.status # INVALID /\ s.status \in Int
  BY DEF SoundSocket, SocketType, Status
<1>1. /\ SoundSocket(done) /\ done.status = s.status /\ done.polling = s.polling
      /\ done.write = s.write /\ ~done.shutdown /\ done.fault = s.fault
      /\ done.tcp = s.tcp /\ done.frame = s.frame
  <2>1. done \in SocketType
    BY <1>0 DEF SocketType
  <2>2. QED
    BY <1>0, <2>1 DEF SoundSocket, SocketType
<1>2. ShutdownCb(s, st) = HandleError(done, "shutdown", st, next)
  BY DEF ShutdownCb
<1>3. s.status < CLOSING <=> Open(s)
  BY <1>0, SoundOpen
<1>4. s.status >= CLOSING => ~Open(s)
  BY <1>0, <1>3
<1>5. (s.tcp = "open") <=> Open(s)
  BY <1>0, <1>3 DEF SoundSocket
<1>6. /\ {"on_shutdown", "on_error"} \subseteq Frame /\ "shutdown" \in From
      /\ {"canceled", "refused"} \subseteq Fault
  BY DEF Frame, From, Fault
<1>7. Open(s) => /\ SoundSocket(down) /\ down.status = SHUT_DOWN
                /\ down.polling = s.polling /\ down.write = s.write
                /\ ~down.shutdown /\ down.fault = s.fault
  <2>1. done \in SocketType /\ down \in SocketType
    BY <1>1, Literals DEF SoundSocket, SocketType
  <2> HIDE DEF done
  <2>2. QED
    BY <1>0, <1>1, <1>3, <2>1 DEF SoundSocket, SocketType
<1> HIDE DEF down
<1>8. Open(s) => SoundSocket(next) /\ SameButFrame(down, next) /\ next.frame = "on_shutdown"
  BY <1>6, <1>7, SoundFrame
<1>9. LET e == Enter([done EXCEPT !.from = "shutdown"], "on_error")
      IN  SoundSocket(e) /\ SameButFrame(done, e) /\ e.frame = "on_error"
  BY <1>1, <1>6, SoundError
<1>10. LET h == Handled(done, "shutdown")
       IN  SoundSocket(h) /\ SameButFrame(done, h) /\ h.frame = "loop"
  BY <1>1, SoundHandled
<1>11. st \in {"canceled", "refused"} =>
        LET a == Abort(done, st)
        IN  /\ SoundSocket(a)
            /\ a.status = done.status /\ a.polling = done.polling
            /\ a.write = done.write /\ a.shutdown = done.shutdown
            /\ a.fault = st /\ a.frame = done.frame
  BY <1>1, <1>6, SoundAbort
<1> HIDE DEF done, next
<1>12. done \in SocketType
  BY <1>1 DEF SoundSocket
<1>13. \/ Open(s) /\ ShutdownCb(s, st) = next
       \/ s.status >= CLOSING /\ ShutdownCb(s, st) = Handled(done, "shutdown")
       \/ /\ s.status < CLOSING
          /\ ShutdownCb(s, st) = Enter([done EXCEPT !.from = "shutdown"], "on_error")
       \/ /\ ~NDEBUG /\ st \in {"canceled", "refused"} /\ s.status < CLOSING
          /\ ShutdownCb(s, st) = Abort(done, st)
  <2>1. st = "ok" \/ st = "eof" => Open(s)
    BY <1>5 DEF Outcome
  <2>2. QED
    BY <1>1, <1>2, <1>3, <1>12, <2>1, HandleErrorCases
<1>14. Open(down) <=> down.status \in CONNECTED .. SHUT_DOWN
  BY DEF Open
<1>15. QED
  BY <1>1, <1>3, <1>4, <1>7, <1>8, <1>9, <1>10, <1>11, <1>13
  DEF SameButFrame, Open

(* __timeout_cb: an error of an open socket.                                *)
LEMMA SoundTimeout ==
    ASSUME NEW s, SoundSocket(s), s.timer = "due"
    PROVE  LET t == TimeoutCb(s)
           IN  /\ Open(s)
               /\ SoundSocket(t) /\ SameButFrame(s, t) /\ t.frame = "on_error"
<1>1. s \in SocketType /\ TimeoutCb(s) \in SocketType
  BY ErrorReturnType DEF SoundSocket
<1>2. Open(s)
  BY DEF SoundSocket, SocketType, Status, Open
<1>3. QED
  BY <1>1, <1>2, SoundOpen DEF TimeoutCb, Enter, SoundSocket, SameButFrame, SocketType

(* libuv's half of a step: the timer comes due, a queued write settles.     *)
LEMMA SoundDue ==
    ASSUME NEW s, SoundSocket(s), s.timer = "running"
    PROVE  LET t == [s EXCEPT !.timer = "due"]
           IN  SoundSocket(t) /\ SameButFrame(s, t) /\ t.frame = s.frame
<1>1. s \in SocketType /\ [s EXCEPT !.timer = "due"] \in SocketType
  BY Literals DEF SoundSocket, SocketType
<1>2. QED
  BY <1>1 DEF SoundSocket, SameButFrame, SocketType

(* A write settles.                                                         *)
LEMMA SoundSettled ==
    ASSUME NEW s, SoundSocket(s), s.write = "queued", NEW result \in Outcome
    PROVE  LET t == [s EXCEPT !.write = result]
           IN  /\ SoundSocket(t) /\ t.status = s.status /\ t.polling = s.polling
               /\ t.write = result /\ result # "none" /\ t.shutdown = s.shutdown
               /\ t.fault = s.fault /\ t.frame = s.frame
<1>1. s \in SocketType /\ [s EXCEPT !.write = result] \in SocketType /\ result # "none"
  BY DEF SoundSocket, SocketType, WriteState, Outcome
<1>2. QED
  BY <1>1 DEF SoundSocket, SocketType

(* The last of the two close callbacks calls on_close.                      *)
LEMMA SoundTimerClosed ==
    ASSUME NEW s, SoundSocket(s), s.timer = "closing"
    PROVE  LET t == TimerCloseCb(s)
           IN  /\ s.status = CLOSING /\ SoundSocket(t)
               /\ \/ SameButFrame(s, t) /\ t.frame = s.frame
                  \/ /\ t.status = CLOSED /\ ~t.polling /\ t.write = s.write
                     /\ t.write = "none" /\ ~t.shutdown
                     /\ t.fault = s.fault /\ t.frame = "on_close"
<1>1. s \in SocketType /\ TimerCloseCb(s) \in SocketType
  BY CloseCbType DEF SoundSocket
<1>2. s.status = CLOSING
  BY DEF SoundSocket, SocketType, Status
<1>3. QED
  BY <1>1, <1>2 DEF TimerCloseCb, CheckClose, Enter, SoundSocket, SameButFrame,
      SocketType

(* The close callback of the socket: the last one of two makes it CLOSED.   *)
LEMMA SoundTcpClosed ==
    ASSUME NEW s, SoundSocket(s), s.tcp = "closing", s.write = "none", ~s.shutdown
    PROVE  LET t == SocketCloseCb(s)
           IN  /\ s.status = CLOSING /\ SoundSocket(t)
               /\ \/ SameButFrame(s, t) /\ t.frame = s.frame
                  \/ /\ t.status = CLOSED /\ ~t.polling /\ t.write = s.write
                     /\ t.write = "none" /\ ~t.shutdown
                     /\ t.fault = s.fault /\ t.frame = "on_close"
<1>1. s \in SocketType /\ SocketCloseCb(s) \in SocketType
  BY CloseCbType DEF SoundSocket
<1>2. s.status = CLOSING
  BY DEF SoundSocket, SocketType, Status
<1>3. QED
  BY <1>1, <1>2 DEF SocketCloseCb, CheckClose, Enter, SoundSocket, SameButFrame,
      SocketType
================================================================================
