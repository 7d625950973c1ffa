----------------------------- MODULE Socks5Lemmas ------------------------------
(****************************************************************************)
(* What the verdicts of Socks5Messages say of every message, the inductive  *)
(* invariant of Socks5, and what each handler of Socks5Ops does to a        *)
(* connection for which it holds.                                           *)
(****************************************************************************)
EXTENDS Socks5, SocketLemmas

(* A greeting is answered only when it is whole and offers method 0: the    *)
(* handler (proxy_socket_socks5.c:33-63) never answers a part of it.        *)
THEOREM GreetingAnsweredWhole ==
    ASSUME NEW g \in Greeting, NEW n \in Nat, GreetingVerdict(g, n) = "ok"
    PROVE  WellFormed(g) /\ n = GreetingLength(g)
<1>1. g.nmethods \in Nat
  BY DEF Greeting, Byte
<1>2. QED
  BY <1>1 DEF GreetingVerdict, WellFormed, GreetingLength

(* A well-formed greeting that arrives at once is answered.                 *)
THEOREM WholeGreetingAnswered ==
    ASSUME NEW g \in Greeting, WellFormed(g)
    PROVE  GreetingVerdict(g, GreetingLength(g)) = "ok"
<1>1. g.nmethods \in Nat
  BY DEF Greeting, Byte
<1>2. QED
  BY <1>1 DEF GreetingVerdict, WellFormed, GreetingLength

(* A request for an IPv4 address or a domain name is waited for as long as  *)
(* it is not whole, and accepted when it is: it makes no difference in      *)
(* which pieces it comes (proxy_socket_socks5.c:79-137).  A name has at     *)
(* least one byte.                                                          *)
THEOREM RequestInPieces ==
    ASSUME NEW r \in Request, NEW n \in Nat,
           Supported(r), r.atyp # 4, r.atyp = 3 => r.alen > 0
    PROVE  /\ n < RequestLength(r) => RequestVerdict(r, n) = "wait"
           /\ RequestVerdict(r, RequestLength(r)) = "ok"
<1>1. r.alen \in Nat
  BY DEF Request, Byte
<1>2. CASE r.atyp = 1
  BY <1>2 DEF RequestVerdict, RequestLength, AddrLength, Expected, Supported
<1>3. CASE r.atyp = 3
  BY <1>1, <1>3 DEF RequestVerdict, RequestLength, AddrLength, Expected, Supported
<1>4. QED
  BY <1>2, <1>3 DEF Supported

(* The handler insists on two bytes more than an IPv6 request has: a client *)
(* that sends one and no more is left waiting (proxy_socket_socks5.c:142).  *)
THEOREM IPv6NeverAccepted ==
    ASSUME NEW r \in Request, Supported(r), r.atyp = 4
    PROVE  RequestVerdict(r, RequestLength(r)) = "wait"
  BY DEF RequestVerdict, RequestLength, AddrLength, Expected, Supported

(* Whatever a client sends, an accepted request has its port among the      *)
(* bytes received: no byte of a former message is taken for it.             *)
THEOREM PortReceived ==
    ASSUME NEW r \in Request, NEW n \in Nat, RequestVerdict(r, n) = "ok"
    PROVE  PortAt(r) + 2 <= n /\ n = Expected(r) /\ Supported(r)
<1>1. r.alen \in Nat
  BY DEF Request, Byte
<1>2. Supported(r) /\ ~(n < Expected(r)) /\ ~(n > Expected(r))
  BY DEF RequestVerdict, TooLong, Supported
<1>3. CASE r.atyp = 1
  BY <1>2, <1>3 DEF PortAt, Expected
<1>4. CASE r.atyp = 3
  BY <1>1, <1>2, <1>4 DEF PortAt, Expected
<1>5. CASE r.atyp = 4
  BY <1>2, <1>5 DEF PortAt, Expected
<1>6. QED
  BY <1>2, <1>3, <1>4, <1>5 DEF Supported

(* A request is accepted only when it is supported and has been read to the *)
(* length of the layout, an IPv6 request to two bytes more.                 *)
THEOREM RequestAcceptedWhole ==
    ASSUME NEW r \in Request, NEW n \in Nat, RequestVerdict(r, n) = "ok"
    PROVE  Supported(r) /\ n = RequestRead(r)
<1>1. r.alen \in Nat
  BY DEF Request, Byte
<1>2. Supported(r) /\ n = Expected(r)
  BY PortReceived
<1>3. Expected(r) = RequestRead(r)
  BY <1>1, <1>2 DEF Supported, Expected, RequestRead, RequestLength, AddrLength
<1>4. QED
  BY <1>2, <1>3

(* A verdict is one of three kinds, which the handlers tell apart.          *)
LEMMA Verdicts ==
    ASSUME NEW g, NEW r, NEW n
    PROVE  /\ GreetingVerdict(g, n) \in {"wait", "ok"} \cup Socks5Error
           /\ RequestVerdict(r, n) \in {"wait", "ok"} \cup Socks5Error
           /\ "wait" \notin Socks5Error /\ "ok" \notin Socks5Error
  BY DEF GreetingVerdict, RequestVerdict, TooLong, Socks5Error

(* A greeting is refused for what it says or because a part is missing      *)
(* (proxy_socket_socks5.c:34-55).                                           *)
THEOREM GreetingRefused ==
    ASSUME NEW g \in Greeting, NEW n \in Nat, GreetingVerdict(g, n) \in Socks5Error
    PROVE  ~WellFormed(g) \/ n < GreetingLength(g)
<1>1. g.nmethods \in Nat /\ g.noauth \in BOOLEAN
  BY DEF Greeting, Byte
<1>2. QED
  BY <1>1 DEF GreetingVerdict, WellFormed, GreetingLength, Socks5Error

(* A request is refused for what it says or because it is longer than it    *)
(* says (proxy_socket_socks5.c:79-180), never because a part is missing.    *)
THEOREM RequestRefused ==
    ASSUME NEW r \in Request, NEW n \in Nat, RequestVerdict(r, n) \in Socks5Error
    PROVE  ~Supported(r) \/ n > RequestLength(r)
<1>1. r.alen \in Nat
  BY DEF Request, Byte
<1>2. SUFFICES ASSUME Supported(r) PROVE n > RequestLength(r)
  OBVIOUS
<1>3. n > Expected(r)
  BY <1>1, <1>2 DEF RequestVerdict, Supported, Expected, Socks5Error
<1>4. Expected(r) >= RequestLength(r)
  BY <1>1, <1>2 DEF Supported, Expected, RequestLength, AddrLength
<1>5. RequestLength(r) \in Nat /\ Expected(r) \in Nat
  BY <1>1, <1>2 DEF Supported, Expected, RequestLength, AddrLength
<1>6. QED
  BY <1>3, <1>4, <1>5
-----------------------------------------------------------------------------
USE DEF PS5RVERSION, PS5RREQUEST, PS5RFORWARDING, PS5WVERSION, PS5WRESPONSE,
        PS5WFORWARDING
-----------------------------------------------------------------------------
(* The invariant of one connection: s is its socket, p its proxy socket, st *)
(* its stage and cl the script of its peer.                                 *)
Stage == {"new", "handshake", "on_session", "forwarding", "on_read"}

(* Which pointers name a buffer.                                            *)
BuffersAgree(s, p, st) ==
    /\ s.status \in {INVALID, CLOSED} => p.read_buf = NULL /\ p.write_buf = NULL
    /\ s.write # "none" => p.write_buf # NULL
    /\ st = "on_read" /\ Open(s) => p.read_buf # NULL

(* Reads and writes alternate, and neither goes on while the user has yet   *)
(* to answer on_session or on_read.                                         *)
Alternates(s, st) ==
    /\ s.polling => s.write = "none"
    /\ st \in {"on_session", "on_read"} => ~s.polling /\ s.write = "none"

(* What the two states of the handlers say of the stage.                    *)
StagesAgree(s, p, st) ==
    /\ s.status = INVALID <=> st = "new"
    /\ s.shutdown => st \in {"forwarding", "on_read"}
    /\ st \in {"new", "handshake"} =>
         /\ p.write_status = PS5WVERSION
         /\ p.read_status \in {PS5RVERSION, PS5RREQUEST}
         /\ s.write # "none" => p.read_status = PS5RVERSION
    /\ st = "on_session" =>
         p.write_status = PS5WVERSION /\ p.read_status = PS5RREQUEST
    /\ st = "forwarding" =>
         \/ p.write_status = PS5WFORWARDING /\ p.read_status = PS5RFORWARDING
         \/ p.write_status = PS5WRESPONSE /\ p.read_status = PS5RREQUEST /\ ~s.polling
         \/ p.fault # "none" /\ ~s.polling
    /\ st = "on_read" =>
         p.write_status = PS5WFORWARDING /\ p.read_status = PS5RFORWARDING

(* The greeting has been found acceptable when it is answered; while the    *)
(* answer is on its way out, read_pos is still its length.                  *)
GreetingPassed(s, p, st, cl) ==
    /\ p.read_status # PS5RVERSION \/ s.write # "none" => WellFormed(cl.greeting)
    /\ p.read_status = PS5RVERSION /\ s.write # "none" =>
         p.read_pos = GreetingLength(cl.greeting)

Deserved(p, cl) ==
    p.frame = "on_error" =>
        \/ p.error = "ENOMEM"
        \/ p.read_status = PS5RVERSION /\
             \/ ~WellFormed(cl.greeting)
             \/ p.read_pos < GreetingLength(cl.greeting)
        \/ p.read_status = PS5RREQUEST /\
             \/ ~Supported(cl.request)
             \/ p.read_pos > RequestLength(cl.request)

(* What ne_session_free is going to free, by the fields of the session.     *)
Held(sn) == sn.in_len + sn.in6_len + (IF sn.host THEN 1 ELSE 0)

SessionAgrees(s, p, st) ==
    /\ p.session.live = IF s.status = CLOSED /\ p.frame = "none"
                          THEN 0 ELSE Held(p.session)
    /\ st \in {"new", "handshake"} => p.session.in_len = 0 /\ p.session.in6_len = 0

(* When the callbacks of the user can run.                                  *)
FramesAgree(s, p, st) ==
    /\ p.frame \in {"on_error", "on_tcp_error"} => Open(s)
    /\ p.frame = "on_close" => s.status = CLOSED
    /\ s.status = CLOSED => p.frame \in {"none", "on_close"}
    /\ p.frame = "on_EOF" => st # "on_read"

OneClose(s, p) == s.fault = "uv_close" => p.error = "EUNKNOWNADDRTYPE"

ConnInv(s, p, st, cl) ==
    /\ SoundSocket(s)
    /\ p \in ProxyType
    /\ st \in Stage
    /\ cl \in Script
    /\ BuffersAgree(s, p, st)
    /\ Alternates(s, st)
    /\ StagesAgree(s, p, st)
    /\ GreetingPassed(s, p, st, cl)
    /\ Deserved(p, cl)
    /\ SessionAgrees(s, p, st)
    /\ FramesAgree(s, p, st)
    /\ OneClose(s, p)

(* The pool: a buffer that it counts as lent is held by a connection.  A    *)
(* write_buf that was given back keeps its value, so it counts only while   *)
(* it is written from or will be given back again.                          *)
Owned(s, p) ==
    {p.read_buf} \cup
    (IF s.write # "none" \/ s.status >= CLOSING
          \/ p.frame \in {"on_error", "on_tcp_error"}
       THEN {p.write_buf} ELSE {})

ConnsInv == \A c \in Conn : ConnInv(tcp[c], ps[c], stage[c], client[c])
LentInv  == Running => \A b \in Taken(pool) : \E c \in Conn : b \in Owned(tcp[c], ps[c])
Inv      == TypeOK /\ ConnsInv /\ SoundPool(pool) /\ LentInv
-----------------------------------------------------------------------------
(* The operators of ProxySocketOps, field by field.                         *)
WorldType == [tcp : SocketType, ps : ProxyType, pool : PoolType]

(* What only the handlers of Socks5Ops assign.                              *)
SameHandshake(p, q) ==
    /\ q.read_pos = p.read_pos
    /\ q.read_status = p.read_status
    /\ q.write_status = p.write_status
    /\ q.session = p.session
    /\ q.error = p.error

(* The fields of a proxy socket have their types.                           *)
LEMMA ProxyFields ==
    ASSUME NEW p \in ProxyType
    PROVE  /\ p.read_buf \in Buf \cup {NULL} /\ p.write_buf \in Buf \cup {NULL}
           /\ p.read_pos \in Nat /\ p.read_pos <= BlockSize
           /\ p.read_status \in {0, 1, 2} /\ p.write_status \in {0, 1, 2}
           /\ p.frame \in ProxyFrame /\ p.session \in SessionType
  BY BlockAssumption DEF ProxyType

(* One field of a proxy socket at a time.                                   *)
LEMMA PutFrame ==
    ASSUME NEW p \in ProxyType, NEW x \in ProxyFrame
    PROVE  LET q == [p EXCEPT !.frame = x]
           IN  /\ q \in ProxyType /\ SameHandshake(p, q) /\ q.frame = x
               /\ q.fault = p.fault /\ q.read_buf = p.read_buf
               /\ q.write_buf = p.write_buf
  BY DEF ProxyType, SameHandshake

(* The same of the fault.                                                   *)
LEMMA PutFault ==
    ASSUME NEW p \in ProxyType, NEW x \in ProxyFault
    PROVE  LET q == [p EXCEPT !.fault = x]
           IN  /\ q \in ProxyType /\ SameHandshake(p, q) /\ q.fault = x
               /\ q.frame = p.frame /\ q.read_buf = p.read_buf
               /\ q.write_buf = p.write_buf
  BY DEF ProxyType, SameHandshake

(* The same of read_buf.                                                    *)
LEMMA PutReadBuf ==
    ASSUME NEW p \in ProxyType, NEW x \in Buf \cup {NULL}
    PROVE  LET q == [p EXCEPT !.read_buf = x]
           IN  /\ q \in ProxyType /\ SameHandshake(p, q) /\ q.read_buf = x
               /\ q.frame = p.frame /\ q.fault = p.fault
               /\ q.write_buf = p.write_buf
  BY DEF ProxyType, SameHandshake

(* The same of write_buf.                                                   *)
LEMMA PutWriteBuf ==
    ASSUME NEW p \in ProxyType, NEW x \in Buf \cup {NULL}
    PROVE  LET q == [p EXCEPT !.write_buf = x]
           IN  /\ q \in ProxyType /\ SameHandshake(p, q) /\ q.write_buf = x
               /\ q.frame = p.frame /\ q.fault = p.fault
               /\ q.read_buf = p.read_buf
  BY DEF ProxyType, SameHandshake
-----------------------------------------------------------------------------
(* A callback of the user starts: nothing else changes.                     *)
LEMMA CallUserFields ==
    ASSUME NEW w \in WorldType, NEW f \in ProxyFrame
    PROVE  LET x == CallUser(w, f)
           IN  /\ x \in WorldType /\ x.tcp = w.tcp /\ x.pool = w.pool
               /\ SameHandshake(w.ps, x.ps) /\ x.ps.frame = f
               /\ x.ps.fault = w.ps.fault /\ x.ps.read_buf = w.ps.read_buf
               /\ x.ps.write_buf = w.ps.write_buf
<1> DEFINE q == [w.ps EXCEPT !.frame = f]
<1>1. w.ps \in ProxyType
  BY DEF WorldType
<1>2. /\ q \in ProxyType /\ SameHandshake(w.ps, q) /\ q.frame = f
      /\ q.fault = w.ps.fault /\ q.read_buf = w.ps.read_buf
      /\ q.write_buf = w.ps.write_buf
  BY <1>1, PutFrame
<1>3. CallUser(w, f) = [w EXCEPT !.ps = q]
  BY DEF CallUser
<1> HIDE DEF q
<1>4. QED
  BY <1>2, <1>3 DEF WorldType

(* The process stops: nothing else changes.                                 *)
LEMMA CrashFields ==
    ASSUME NEW w \in WorldType, NEW why \in ProxyFault
    PROVE  LET x == Crash(w, why)
           IN  /\ x \in WorldType /\ x.tcp = w.tcp /\ x.pool = w.pool
               /\ SameHandshake(w.ps, x.ps) /\ x.ps.frame = w.ps.frame
               /\ x.ps.fault = why /\ x.ps.read_buf = w.ps.read_buf
               /\ x.ps.write_buf = w.ps.write_buf
<1> DEFINE q == [w.ps EXCEPT !.fault = why]
<1>1. w.ps \in ProxyType
  BY DEF WorldType
<1>2. /\ q \in ProxyType /\ SameHandshake(w.ps, q) /\ q.fault = why
      /\ q.frame = w.ps.frame /\ q.read_buf = w.ps.read_buf
      /\ q.write_buf = w.ps.write_buf
  BY <1>1, PutFault
<1>3. Crash(w, why) = [w EXCEPT !.ps = q]
  BY DEF Crash
<1> HIDE DEF q
<1>4. QED
  BY <1>2, <1>3 DEF WorldType

(* The callbacks of both layers return: nothing else changes.               *)
LEMMA DoneFields ==
    ASSUME NEW w \in WorldType, SoundSocket(w.tcp)
    PROVE  LET x == Done(w)
           IN  /\ x \in WorldType /\ x.pool = w.pool
               /\ SoundSocket(x.tcp) /\ SameButFrame(w.tcp, x.tcp)
               /\ x.tcp.frame = "loop"
               /\ SameHandshake(w.ps, x.ps) /\ x.ps.frame = "none"
               /\ x.ps.fault = w.ps.fault /\ x.ps.read_buf = w.ps.read_buf
               /\ x.ps.write_buf = w.ps.write_buf
<1> DEFINE q == [w.ps EXCEPT !.frame = "none"]
           s == Leave(w.tcp)
<1>1. w.ps \in ProxyType /\ "none" \in ProxyFrame
  BY DEF WorldType, ProxyFrame
<1>2. /\ q \in ProxyType /\ SameHandshake(w.ps, q) /\ q.frame = "none"
      /\ q.fault = w.ps.fault /\ q.read_buf = w.ps.read_buf
      /\ q.write_buf = w.ps.write_buf
  BY <1>1, PutFrame
<1>3. SoundSocket(s) /\ SameButFrame(w.tcp, s) /\ s.frame = "loop"
  BY SoundFrame, Literals
<1>4. Done(w) = [w EXCEPT !.ps = q, !.tcp = s]
  BY DEF Done
<1>5. s \in SocketType
  BY <1>3 DEF SoundSocket
<1> HIDE DEF q, s
<1>6. QED
  BY <1>2, <1>3, <1>4, <1>5 DEF WorldType

(* A buffer is given back, or free() stops the process.                     *)
LEMMA BufFreeFields ==
    ASSUME NEW w \in WorldType, SoundPool(w.pool), NEW b \in Buf
    PROVE  LET x == BufFree(w, b)
           IN  /\ x \in WorldType /\ x.tcp = w.tcp /\ SoundPool(x.pool)
               /\ SameHandshake(w.ps, x.ps) /\ x.ps.frame = w.ps.frame
               /\ x.ps.read_buf = w.ps.read_buf /\ x.ps.write_buf = w.ps.write_buf
               /\ \/ /\ x.ps.fault = w.ps.fault
                     /\ Taken(x.pool) = Taken(w.pool) \ {b}
                  \/ x.ps.fault = "double_free"
<1>1. CASE b \in HeapBuf \ w.pool.heap
  <2>1. "double_free" \in ProxyFault
    BY DEF ProxyFault
  <2>2. BufFree(w, b) = Crash(w, "double_free")
    BY <1>1 DEF BufFree
  <2>3. QED
    BY <2>1, <2>2, CrashFields
<1>2. CASE b \notin HeapBuf \ w.pool.heap
  <2> DEFINE q == MemoryBufFree(w.pool, b)
  <2>1. SoundPool(q) /\ Taken(q) = Taken(w.pool) \ {b}
    BY <1>2, SoundFree
  <2>2. BufFree(w, b) = [w EXCEPT !.pool = q]
    BY <1>2 DEF BufFree
  <2>3. q \in PoolType
    BY <2>1 DEF SoundPool
  <2> HIDE DEF q
  <2>4. QED
    BY <2>1, <2>2, <2>3 DEF WorldType, SameHandshake
<1>3. QED
  BY <1>1, <1>2

(* The buffer of read_buf is given back, if there is one.                   *)
LEMMA ReleaseReadFields ==
    ASSUME NEW w \in WorldType, SoundPool(w.pool)
    PROVE  LET x == ReleaseRead(w)
           IN  /\ x \in WorldType /\ x.tcp = w.tcp /\ SoundPool(x.pool)
               /\ SameHandshake(w.ps, x.ps) /\ x.ps.frame = w.ps.frame
               /\ x.ps.read_buf = NULL /\ x.ps.write_buf = w.ps.write_buf
               /\ \/ /\ x.ps.fault = w.ps.fault
                     /\ Taken(x.pool) = Taken(w.pool) \ {w.ps.read_buf}
                  \/ x.ps.fault = "double_free"
<1>1. CASE w.ps.read_buf = NULL
  BY <1>1, PoolAssumption DEF ReleaseRead, SameHandshake, Taken
<1>2. CASE w.ps.read_buf # NULL
  <2> DEFINE f == BufFree(w, w.ps.read_buf)
             q == [f.ps EXCEPT !.read_buf = NULL]
  <2>1. w.ps.read_buf \in Buf
    BY <1>2, ProxyFields DEF WorldType
  <2>2. /\ f \in WorldType /\ f.tcp = w.tcp /\ SoundPool(f.pool)
        /\ SameHandshake(w.ps, f.ps) /\ f.ps.frame = w.ps.frame
        /\ f.ps.write_buf = w.ps.write_buf
        /\ \/ /\ f.ps.fault = w.ps.fault
              /\ Taken(f.pool) = Taken(w.pool) \ {w.ps.read_buf}
           \/ f.ps.fault = "double_free"
    BY <2>1, BufFreeFields
  <2>3. ReleaseRead(w) = [f EXCEPT !.ps = q]
    BY <1>2 DEF ReleaseRead
  <2> HIDE DEF f
  <2>4. f.ps \in ProxyType
    BY <2>2 DEF WorldType
  <2>5. /\ q \in ProxyType /\ SameHandshake(f.ps, q) /\ q.read_buf = NULL
        /\ q.frame = f.ps.frame /\ q.fault = f.ps.fault
        /\ q.write_buf = f.ps.write_buf
    BY <2>4, PutReadBuf
  <2> HIDE DEF q
  <2>6. QED
    BY <2>2, <2>3, <2>5 DEF WorldType, SameHandshake
<1>3. QED
  BY <1>1, <1>2

(* The buffer of write_buf is given back, if there is one.                  *)
LEMMA ReleaseWriteFields ==
    ASSUME NEW w \in WorldType, SoundPool(w.pool)
    PROVE  LET x == ReleaseWrite(w)
           IN  /\ x \in WorldType /\ x.tcp = w.tcp /\ SoundPool(x.pool)
               /\ SameHandshake(w.ps, x.ps) /\ x.ps.frame = w.ps.frame
               /\ x.ps.write_buf = NULL /\ x.ps.read_buf = w.ps.read_buf
               /\ \/ /\ x.ps.fault = w.ps.fault
                     /\ Taken(x.pool) = Taken(w.pool) \ {w.ps.write_buf}
                  \/ x.ps.fault = "double_free"
<1>1. CASE w.ps.write_buf = NULL
  BY <1>1, PoolAssumption DEF ReleaseWrite, SameHandshake, Taken
<1>2. CASE w.ps.write_buf # NULL
  <2> DEFINE f == BufFree(w, w.ps.write_buf)
             q == [f.ps EXCEPT !.write_buf = NULL]
  <2>1. w.ps.write_buf \in Buf
    BY <1>2, ProxyFields DEF WorldType
  <2>2. /\ f \in WorldType /\ f.tcp = w.tcp /\ SoundPool(f.pool)
        /\ SameHandshake(w.ps, f.ps) /\ f.ps.frame = w.ps.frame
        /\ f.ps.read_buf = w.ps.read_buf
        /\ \/ /\ f.ps.fault = w.ps.fault
              /\ Taken(f.pool) = Taken(w.pool) \ {w.ps.write_buf}
           \/ f.ps.fault = "double_free"
    BY <2>1, BufFreeFields
  <2>3. ReleaseWrite(w) = [f EXCEPT !.ps = q]
    BY <1>2 DEF ReleaseWrite
  <2> HIDE DEF f
  <2>4. f.ps \in ProxyType
    BY <2>2 DEF WorldType
  <2>5. /\ q \in ProxyType /\ SameHandshake(f.ps, q) /\ q.write_buf = NULL
        /\ q.frame = f.ps.frame /\ q.fault = f.ps.fault
        /\ q.read_buf = f.ps.read_buf
    BY <2>4, PutWriteBuf
  <2> HIDE DEF q
  <2>6. QED
    BY <2>2, <2>3, <2>5 DEF WorldType, SameHandshake
<1>3. QED
  BY <1>1, <1>2

(* The socket of a world is replaced.                                       *)
LEMMA PutTcp ==
    ASSUME NEW w \in WorldType, NEW s \in SocketType
    PROVE  LET x == [w EXCEPT !.tcp = s]
           IN  /\ x \in WorldType /\ x.tcp = s /\ x.pool = w.pool /\ x.ps = w.ps
  BY DEF WorldType

(* A write is started on an open socket.                                    *)
LEMMA WriteSocketFields ==
    ASSUME NEW w \in WorldType, SoundSocket(w.tcp), Open(w.tcp)
    PROVE  LET x == WriteSocket(w)
           IN  /\ x \in WorldType /\ x.pool = w.pool /\ x.ps = w.ps
               /\ SoundSocket(x.tcp)
               /\ x.tcp.status = w.tcp.status /\ x.tcp.polling = w.tcp.polling
               /\ x.tcp.write = "queued" /\ x.tcp.shutdown = w.tcp.shutdown
               /\ x.tcp.fault = w.tcp.fault
<1> DEFINE s == TcpWrite(w.tcp, "queued")
<1>1. /\ SoundSocket(s)
      /\ s.status = w.tcp.status /\ s.polling = w.tcp.polling
      /\ s.write = "queued" /\ s.shutdown = w.tcp.shutdown
      /\ s.fault = w.tcp.fault
  BY SoundWrite, Literals
<1>2. s \in SocketType
  BY <1>1 DEF SoundSocket
<1>3. WriteSocket(w) = [w EXCEPT !.tcp = s]
  BY DEF WriteSocket
<1> HIDE DEF s
<1>4. QED
  BY <1>1, <1>2, <1>3, PutTcp
-----------------------------------------------------------------------------
(* One connection in a step.  w is its world before and x after, st the     *)
(* stage before and s the stage that the step asks for.                     *)
Fine(w) == w.tcp.fault = "none" /\ w.ps.fault = "none"

Sound(w, st, cl) == /\ w \in WorldType
                    /\ SoundPool(w.pool)
                    /\ ConnInv(w.tcp, w.ps, st, cl)

(* What Becomes makes of the stage.                                         *)
NextStage(p, q, s) ==
    IF q.frame # p.frame /\ q.frame \in {"on_session", "on_read"} THEN q.frame ELSE s

(* A buffer that is lent after the step is held by the connection, or was   *)
(* lent before and not to it.                                               *)
Keeps(w, x) ==
    Fine(x) => \A b \in Taken(x.pool) :
                  \/ b \in Owned(x.tcp, x.ps)
                  \/ b \in Taken(w.pool) /\ b \notin Owned(w.tcp, w.ps)

(* What SessionEarned asks of the step that leaves the state PS5RVERSION,   *)
(* and of the one that starts on_session.                                   *)
Passes(p, q, cl) ==
    p.read_status = PS5RVERSION /\ q.read_status # PS5RVERSION =>
        q.read_pos = GreetingLength(cl.greeting)

Earned(p, cl) == /\ p.read_status = PS5RREQUEST
                 /\ Supported(cl.request)
                 /\ p.read_pos = RequestRead(cl.request)

(* The connection as ProxyPromise sees it, in a process that runs.          *)
Life(s, p, st) ==
    IF s.status \in {INVALID, CLOSED} THEN "idle"
    ELSE IF s.status = CLOSING THEN "closing"
    ELSE IF p.frame \in {"on_error", "on_tcp_error"} THEN "failed"
    ELSE IF st = "on_session" THEN "session"
    ELSE IF st = "on_read" THEN "data"
    ELSE st

Says(p) == IF p.frame = "on_tcp_error" THEN "on_error" ELSE p.frame

Owes(s) == s.write # "none"

(* The moves of ProxyPromise that are the loop's, from life l and debt o to *)
(* life k, callback f and debt q; and the user's, which may happen in a     *)
(* callback e.                                                              *)
LoopMove(l, o, k, f, q) ==
    \/ k = l /\ f = "none" /\ q = o
    \/ l = "idle" /\ k = "handshake" /\ f = "none" /\ ~q
    \/ l = "handshake" /\ ~o /\ k = "session" /\ f = "on_session" /\ ~q
    \/ l = "forwarding" /\ ~o /\ k = "data" /\ f = "on_read" /\ ~q
    \/ l \in {"handshake", "forwarding"} /\ ~o /\ k = l /\ f = "on_EOF" /\ ~q
    \/ l \in {"forwarding", "data"} /\ ~o /\ k = l /\ f = "on_shutdown" /\ ~q
    \/ l \in Promise!Served /\ k = "failed" /\ f = "on_error" /\ (~q \/ q = o)
    \/ l = "closing" /\ ~o /\ k = "idle" /\ f = "on_close" /\ ~q
    \/ l = "handshake" /\ ~o /\ k = l /\ f = "none" /\ q
    \/ o /\ k = l /\ f = "none" /\ ~q

UserMove(l, e, o, k, f, q) ==
    \/ k = l /\ f = e /\ q = o
    \/ l = "session" /\ ~o /\ k = "forwarding" /\ f = e /\ q
    \/ l = "session" /\ ~o /\ k = "failed" /\ f = "on_error" /\ ~q
    \/ l = "data" /\ ~o /\ k = "forwarding" /\ f = e /\ q
    \/ l \in Promise!Served /\ k = "closing" /\ f = e /\ q = o
    \/ /\ e # "none" /\ k = (IF l = "failed" THEN "closing" ELSE l)
       /\ f = "none" /\ q = o

LoopStep(w, st, x, cl) ==
    LET k == NextStage(w.ps, x.ps, st)
    IN  /\ Sound(x, k, cl)
        /\ Keeps(w, x)
        /\ x.ps.frame = "on_session" => Earned(x.ps, cl)
        /\ Passes(w.ps, x.ps, cl)
        /\ Fine(x) => LoopMove(Life(w.tcp, w.ps, st), Owes(w.tcp),
                               Life(x.tcp, x.ps, k), Says(x.ps), Owes(x.tcp))

UserStep(w, st, x, s, cl) ==
    LET k == NextStage(w.ps, x.ps, s)
    IN  /\ Sound(x, k, cl)
        /\ Keeps(w, x)
        /\ x.ps.frame # "on_session" \/ w.ps.frame = "on_session"
        /\ Passes(w.ps, x.ps, cl)
        /\ Fine(x) => UserMove(Life(w.tcp, w.ps, st), Says(w.ps), Owes(w.tcp),
                               Life(x.tcp, x.ps, k), Says(x.ps), Owes(x.tcp))

(* v is w after what a handler does first and nobody sees.                  *)
Prepared(w, v, st, cl) ==
    /\ Sound(v, st, cl)
    /\ Fine(v)
    /\ v.ps.frame = w.ps.frame
    /\ v.ps.read_status = w.ps.read_status
    /\ Keeps(w, v)
    /\ Life(v.tcp, v.ps, st) = Life(w.tcp, w.ps, st)
    /\ Owes(v.tcp) = Owes(w.tcp)

(* What is done first may be left out of a step.                            *)
LEMMA PreparedStep ==
    ASSUME NEW w, NEW v, NEW x, NEW st, NEW cl,
           Prepared(w, v, st, cl), LoopStep(v, st, x, cl)
    PROVE  LoopStep(w, st, x, cl)
<1>1. NextStage(v.ps, x.ps, st) = NextStage(w.ps, x.ps, st)
  BY DEF Prepared, NextStage
<1>2. Keeps(w, x)
  BY DEF Prepared, LoopStep, Keeps
<1>3. Passes(w.ps, x.ps, cl)
  BY DEF Prepared, LoopStep, Passes
<1>4. QED
  BY <1>1, <1>2, <1>3 DEF Prepared, LoopStep

(* What is done first may be done in two parts.                             *)
LEMMA PreparedTwice ==
    ASSUME NEW w, NEW v, NEW u, NEW st, NEW cl,
           Prepared(w, v, st, cl), Prepared(v, u, st, cl)
    PROVE  Prepared(w, u, st, cl)
<1>1. Keeps(w, u)
  BY DEF Prepared, Keeps
<1>2. QED
  BY <1>1 DEF Prepared
-----------------------------------------------------------------------------
(* The loop is about to call back.                                          *)
LoopTurn(w, st, cl) == Sound(w, st, cl) /\ Fine(w) /\ w.ps.frame = "none"

(* A callback of libuv of which the user is not told.                       *)
LEMMA Untold ==
    ASSUME NEW w, NEW x \in WorldType, NEW st, NEW cl, LoopTurn(w, st, cl),
           x.pool = w.pool, SameHandshake(w.ps, x.ps),
           x.ps.frame = "none", x.ps.fault = w.ps.fault,
           x.ps.read_buf = w.ps.read_buf, x.ps.write_buf = w.ps.write_buf,
           SoundSocket(x.tcp), x.tcp.status = w.tcp.status,
           x.tcp.polling => w.tcp.polling,
           x.tcp.write \in {"none", w.tcp.write},
           x.tcp.shutdown => w.tcp.shutdown, x.tcp.fault # "uv_close",
           Fine(x) /\ x.tcp.write # w.tcp.write => w.tcp.status = CLOSING
    PROVE  LoopStep(w, st, x, cl)
<1>1. /\ w \in WorldType /\ SoundPool(w.pool) /\ ConnInv(w.tcp, w.ps, st, cl)
      /\ SoundSocket(w.tcp) /\ w.ps.frame = "none" /\ w.ps.fault = "none"
  BY DEF LoopTurn, Sound, ConnInv, Fine
<1>2. x.tcp.write # "none" => w.tcp.write # "none"
  OBVIOUS
<1>3. NextStage(w.ps, x.ps, st) = st
  BY DEF NextStage
<1>4. ConnInv(x.tcp, x.ps, st, cl)
  <2>1. BuffersAgree(x.tcp, x.ps, st)
    BY <1>1, <1>2 DEF ConnInv, Open, BuffersAgree
  <2>2. Alternates(x.tcp, st)
    BY <1>1, <1>2 DEF ConnInv, SameHandshake, Alternates
  <2>3. StagesAgree(x.tcp, x.ps, st)
    BY <1>1, <1>2 DEF ConnInv, SameHandshake, StagesAgree
  <2>4. GreetingPassed(x.tcp, x.ps, st, cl)
    BY <1>1, <1>2 DEF ConnInv, SameHandshake, GreetingPassed
  <2>5. Deserved(x.ps, cl)
    BY <1>1, <1>2 DEF ConnInv, SameHandshake, Deserved
  <2>6. SessionAgrees(x.tcp, x.ps, st)
    BY <1>1, <1>2 DEF ConnInv, SameHandshake, SessionAgrees
  <2>7. FramesAgree(x.tcp, x.ps, st)
    BY <1>1, <1>2 DEF ConnInv, SameHandshake, FramesAgree
  <2>8. OneClose(x.tcp, x.ps)
    BY <1>1, <1>2 DEF ConnInv, SameHandshake, OneClose
  <2>9. QED
    BY <1>1, <1>2, <2>1, <2>2, <2>3, <2>4, <2>5, <2>6, <2>7, <2>8 DEF ConnInv,
       WorldType, Stage
<1>5. Keeps(w, x)
  <2>1. SUFFICES ASSUME Fine(x) PROVE Owned(w.tcp, w.ps) = Owned(x.tcp, x.ps)
    BY DEF Keeps
  <2>2. x.tcp.write = w.tcp.write \/ w.tcp.status = CLOSING
    BY <2>1
  <2>3. w.tcp.status = CLOSING => w.tcp.status >= CLOSING
    BY <1>1, SoundOpen
  <2>4. QED
    BY <1>1, <2>2, <2>3 DEF Owned
<1>6. Life(x.tcp, x.ps, st) = Life(w.tcp, w.ps, st) /\ Says(x.ps) = "none"
  BY <1>1 DEF Life, Says
<1>7. Owes(x.tcp) = Owes(w.tcp) \/ (Owes(w.tcp) /\ ~Owes(x.tcp))
  BY DEF Owes
<1>p. Passes(w.ps, x.ps, cl)
  BY DEF SameHandshake, Passes
<1>8. QED
  BY <1>1, <1>3, <1>4, <1>5, <1>6, <1>7, <1>p DEF LoopStep, Sound, LoopMove

(* A callback of libuv that reports a failure, to the user as well.         *)
LEMMA Fails ==
    ASSUME NEW w, NEW x \in WorldType, NEW st, NEW cl, LoopTurn(w, st, cl),
           Open(w.tcp),
           x.pool = w.pool, SameHandshake(w.ps, x.ps),
           x.ps.frame = "on_tcp_error", x.ps.fault = w.ps.fault,
           x.ps.read_buf = w.ps.read_buf, x.ps.write_buf = w.ps.write_buf,
           SoundSocket(x.tcp), x.tcp.status = w.tcp.status,
           x.tcp.polling => w.tcp.polling,
           x.tcp.write \in {"none", w.tcp.write},
           x.tcp.shutdown => w.tcp.shutdown, x.tcp.fault = "none"
    PROVE  LoopStep(w, st, x, cl)
<1>1. /\ w \in WorldType /\ SoundPool(w.pool) /\ ConnInv(w.tcp, w.ps, st, cl)
      /\ SoundSocket(w.tcp) /\ w.ps.frame = "none" /\ w.ps.fault = "none"
      /\ w.tcp.status \notin {INVALID, CLOSING, CLOSED}
      /\ ~(w.tcp.status >= CLOSING)
  BY SoundOpen DEF LoopTurn, Sound, ConnInv, Fine
<1>2. x.tcp.write # "none" => w.tcp.write # "none"
  OBVIOUS
<1>3. NextStage(w.ps, x.ps, st) = st
  BY DEF NextStage
<1>4. ConnInv(x.tcp, x.ps, st, cl)
  <2>1. BuffersAgree(x.tcp, x.ps, st)
    BY <1>1, <1>2 DEF ConnInv, Open, BuffersAgree
  <2>2. Alternates(x.tcp, st)
    BY <1>1, <1>2 DEF ConnInv, SameHandshake, Alternates
  <2>3. StagesAgree(x.tcp, x.ps, st)
    BY <1>1, <1>2 DEF ConnInv, SameHandshake, StagesAgree
  <2>4. GreetingPassed(x.tcp, x.ps, st, cl)
    BY <1>1, <1>2 DEF ConnInv, SameHandshake, GreetingPassed
  <2>5. Deserved(x.ps, cl)
    BY <1>1, <1>2 DEF ConnInv, SameHandshake, Deserved
  <2>6. SessionAgrees(x.tcp, x.ps, st)
    BY <1>1, <1>2 DEF ConnInv, SameHandshake, SessionAgrees
  <2>7. FramesAgree(x.tcp, x.ps, st)
    BY <1>1 DEF ConnInv, Open, FramesAgree
  <2>8. OneClose(x.tcp, x.ps)
    BY <1>1, <1>2 DEF ConnInv, SameHandshake, OneClose
  <2>9. QED
    BY <1>1, <1>2, <2>1, <2>2, <2>3, <2>4, <2>5, <2>6, <2>7, <2>8 DEF ConnInv,
       WorldType, Stage
<1>5. Keeps(w, x)
  BY <1>1 DEF Keeps, Owned
<1>6. /\ Life(w.tcp, w.ps, st) \in Promise!Served
      /\ Life(x.tcp, x.ps, st) = "failed" /\ Says(x.ps) = "on_error"
  <2>1. st \in Stage /\ st # "new"
    BY <1>1 DEF ConnInv, StagesAgree
  <2>2. QED
    BY <1>1, <2>1 DEF Life, Says, Stage, Promise!Served
<1>7. Owes(x.tcp) = Owes(w.tcp) \/ ~Owes(x.tcp)
  BY DEF Owes
<1>p. Passes(w.ps, x.ps, cl)
  BY DEF SameHandshake, Passes
<1>8. QED
  BY <1>1, <1>3, <1>4, <1>5, <1>6, <1>7, <1>p DEF LoopStep, Sound, LoopMove
-----------------------------------------------------------------------------
(* The read handler.                                                        *)
Reading(w, st, cl) ==
    /\ LoopTurn(w, st, cl)
    /\ w.ps.read_buf # NULL
    /\ Open(w.tcp)
    /\ w.tcp.write = "none"
    /\ st \in {"handshake", "forwarding"}
    /\ st = "forwarding" => /\ w.ps.read_status = PS5RFORWARDING
                            /\ w.ps.write_status = PS5WFORWARDING

(* What holds when a handler is about to look at what was read.             *)
LEMMA ReadingFacts ==
    ASSUME NEW w, NEW st, NEW cl, Reading(w, st, cl)
    PROVE  /\ w \in WorldType /\ SoundPool(w.pool)
           /\ ConnInv(w.tcp, w.ps, st, cl)
           /\ SoundSocket(w.tcp) /\ w.ps.frame = "none" /\ Open(w.tcp)
           /\ w.tcp.status \notin {INVALID, CLOSING, CLOSED}
           /\ ~(w.tcp.status >= CLOSING)
           /\ w.tcp.write = "none" /\ w.tcp.fault = "none"
           /\ w.ps.fault = "none" /\ w.ps.read_buf \in Buf
           /\ st \in {"handshake", "forwarding"}
           /\ w.ps.read_status # PS5RFORWARDING => st = "handshake"
           /\ w.ps.read_status = PS5RFORWARDING => st = "forwarding"
           /\ w.ps.read_pos \in Nat
<1>1. /\ w \in WorldType /\ SoundPool(w.pool) /\ ConnInv(w.tcp, w.ps, st, cl)
      /\ SoundSocket(w.tcp)
  BY DEF Reading, LoopTurn, Sound, ConnInv
<1>2. w.ps \in ProxyType
  BY <1>1 DEF WorldType
<1>3. st = "handshake" => w.ps.read_status # PS5RFORWARDING
  BY <1>1 DEF ConnInv, StagesAgree
<1>4. QED
  BY <1>1, <1>2, <1>3, SoundOpen, ProxyFields DEF Reading, LoopTurn, Fine

(* The handler of a message refuses the client.                             *)
LEMMA Refuses ==
    ASSUME NEW w, NEW st, NEW cl, Reading(w, st, cl), NEW err \in Socks5Error,
           \/ err = "ENOMEM"
           \/ w.ps.read_status = PS5RVERSION /\
                \/ ~WellFormed(cl.greeting)
                \/ w.ps.read_pos < GreetingLength(cl.greeting)
           \/ w.ps.read_status = PS5RREQUEST /\
                \/ ~Supported(cl.request)
                \/ w.ps.read_pos > RequestLength(cl.request)
    PROVE  LoopStep(w, st, NotifyError(w, err), cl)
<1> DEFINE x == NotifyError(w, err)
           e == [w.ps EXCEPT !.error = err]
           v == [w EXCEPT !.ps = e]
<1>1. /\ w \in WorldType /\ SoundPool(w.pool) /\ ConnInv(w.tcp, w.ps, st, cl)
      /\ SoundSocket(w.tcp) /\ w.ps.frame = "none" /\ Open(w.tcp)
      /\ w.tcp.status \notin {INVALID, CLOSING, CLOSED}
      /\ w.tcp.write = "none" /\ w.tcp.fault = "none"
      /\ st \in {"handshake", "forwarding"}
  BY ReadingFacts
<1>a. /\ e \in ProxyType /\ e.read_pos = w.ps.read_pos
      /\ e.read_status = w.ps.read_status
      /\ e.write_status = w.ps.write_status /\ e.session = w.ps.session
      /\ e.error = err /\ e.fault = w.ps.fault
      /\ e.read_buf = w.ps.read_buf /\ e.write_buf = w.ps.write_buf
  BY <1>1 DEF WorldType, ProxyType
<1>b. x = CallUser(v, "on_error") /\ "on_error" \in ProxyFrame
  BY DEF NotifyError, ProxyFrame
<1> HIDE DEF e
<1>c. v \in WorldType /\ v.tcp = w.tcp /\ v.pool = w.pool /\ v.ps = e
  BY <1>1, <1>a DEF WorldType
<1> HIDE DEF v, x
<1>2. /\ x \in WorldType /\ x.tcp = w.tcp /\ x.pool = w.pool
      /\ x.ps.read_pos = w.ps.read_pos
      /\ x.ps.read_status = w.ps.read_status
      /\ x.ps.write_status = w.ps.write_status /\ x.ps.session = w.ps.session
      /\ x.ps.error = err /\ x.ps.frame = "on_error"
      /\ x.ps.fault = w.ps.fault /\ x.ps.read_buf = w.ps.read_buf
      /\ x.ps.write_buf = w.ps.write_buf
  BY <1>a, <1>b, <1>c, CallUserFields DEF SameHandshake
<1>3. NextStage(w.ps, x.ps, st) = st
  BY <1>2 DEF NextStage
<1>4. ConnInv(x.tcp, x.ps, st, cl)
  <2>1. BuffersAgree(x.tcp, x.ps, st)
    BY <1>1, <1>2 DEF ConnInv, BuffersAgree
  <2>2. Alternates(x.tcp, st)
    BY <1>1, <1>2 DEF ConnInv, Alternates
  <2>3. StagesAgree(x.tcp, x.ps, st)
    BY <1>1, <1>2 DEF ConnInv, StagesAgree
  <2>4. GreetingPassed(x.tcp, x.ps, st, cl)
    BY <1>1, <1>2 DEF ConnInv, GreetingPassed
  <2>5. Deserved(x.ps, cl)
    BY <1>1, <1>2 DEF ConnInv, Deserved
  <2>6. SessionAgrees(x.tcp, x.ps, st)
    BY <1>1, <1>2 DEF ConnInv, SessionAgrees
  <2>7. FramesAgree(x.tcp, x.ps, st)
    BY <1>1, <1>2 DEF ConnInv, FramesAgree
  <2>8. OneClose(x.tcp, x.ps)
    BY <1>1, <1>2 DEF ConnInv, OneClose
  <2>9. QED
    BY <1>1, <1>2, <2>1, <2>2, <2>3, <2>4, <2>5, <2>6, <2>7, <2>8 DEF ConnInv,
       WorldType, Stage
<1>5. Keeps(w, x)
  BY <1>2 DEF Keeps, Owned
<1>6. /\ Life(w.tcp, w.ps, st) \in Promise!Served
      /\ Life(x.tcp, x.ps, st) = "failed"
      /\ ~Owes(x.tcp) /\ Says(x.ps) = "on_error"
  BY <1>1, <1>2 DEF Life, Owes, Says, Promise!Served
<1>p. Passes(w.ps, x.ps, cl)
  BY <1>2 DEF Passes
<1>7. QED
  BY <1>1, <1>2, <1>3, <1>4, <1>5, <1>6, <1>p DEF x, LoopStep, Sound, LoopMove

(* The handler of a message waits for more of it.                           *)
LEMMA Waits ==
    ASSUME NEW w, NEW st, NEW cl, Reading(w, st, cl)
    PROVE  LoopStep(w, st, Done(w), cl)
<1>1. /\ w \in WorldType /\ SoundSocket(w.tcp) /\ w.ps.frame = "none"
      /\ w.tcp.fault = "none"
  BY ReadingFacts
<1> DEFINE x == Done(w)
<1>2. /\ x \in WorldType /\ x.pool = w.pool
      /\ SoundSocket(x.tcp) /\ SameButFrame(w.tcp, x.tcp)
      /\ SameHandshake(w.ps, x.ps) /\ x.ps.frame = "none"
      /\ x.ps.fault = w.ps.fault /\ x.ps.read_buf = w.ps.read_buf
      /\ x.ps.write_buf = w.ps.write_buf
  BY <1>1, DoneFields
<1> HIDE DEF x
<1>3. LoopTurn(w, st, cl)
  BY DEF Reading
<1>4. LoopStep(w, st, x, cl)
  BY <1>1, <1>2, <1>3, Untold DEF SameButFrame
<1>5. QED
  BY <1>4 DEF x

(* The greeting is answered in the buffer it was read into.                 *)
LEMMA Greets ==
    ASSUME NEW w, NEW st, NEW cl, Reading(w, st, cl),
           w.ps.read_status = PS5RVERSION, WellFormed(cl.greeting),
           w.ps.read_pos = GreetingLength(cl.greeting)
    PROVE  LoopStep(w, st, GreetingAccepted(w), cl)
<1> DEFINE x == GreetingAccepted(w)
           s == TcpReadStop(w.tcp)
           q == [w.ps EXCEPT !.write_buf = w.ps.read_buf]
           r == [q EXCEPT !.read_buf = NULL]
           v == [w EXCEPT !.ps = r, !.tcp = s]
           u == WriteSocket(v)
<1>1. /\ w \in WorldType /\ SoundPool(w.pool) /\ ConnInv(w.tcp, w.ps, st, cl)
      /\ SoundSocket(w.tcp) /\ w.ps.frame = "none" /\ Open(w.tcp)
      /\ w.tcp.status \notin {INVALID, CLOSING, CLOSED}
      /\ ~(w.tcp.status >= CLOSING)
      /\ w.tcp.write = "none" /\ w.tcp.fault = "none" /\ w.ps.fault = "none"
      /\ w.ps.read_buf \in Buf /\ st = "handshake"
  BY ReadingFacts
<1>a. x = Done(u)
  BY DEF GreetingAccepted
<1>b. /\ SoundSocket(s) /\ s.status = w.tcp.status /\ ~s.polling
      /\ s.shutdown = w.tcp.shutdown /\ s.fault = w.tcp.fault
      /\ s \in SocketType /\ Open(s)
  BY <1>1, SoundStop DEF Open, SoundSocket
<1>c. /\ r \in ProxyType /\ SameHandshake(w.ps, r) /\ r.read_buf = NULL
      /\ r.write_buf = w.ps.read_buf /\ r.fault = w.ps.fault
  <2>1. w.ps \in ProxyType
    BY <1>1 DEF WorldType
  <2>2. /\ q \in ProxyType /\ SameHandshake(w.ps, q)
        /\ q.write_buf = w.ps.read_buf /\ q.fault = w.ps.fault
    BY <1>1, <2>1, PutWriteBuf
  <2> HIDE DEF q
  <2>3. /\ r \in ProxyType /\ SameHandshake(q, r) /\ r.read_buf = NULL
        /\ r.write_buf = q.write_buf /\ r.fault = q.fault
    BY <2>2, PutReadBuf
  <2> HIDE DEF r
  <2>4. QED
    BY <2>2, <2>3 DEF SameHandshake
<1> HIDE DEF s, r
<1>d. v \in WorldType /\ v.tcp = s /\ v.pool = w.pool /\ v.ps = r
  BY <1>1, <1>b, <1>c DEF WorldType
<1> HIDE DEF v
<1>e. /\ u \in WorldType /\ u.pool = w.pool /\ u.ps = r /\ SoundSocket(u.tcp)
      /\ u.tcp.status = w.tcp.status /\ ~u.tcp.polling
      /\ u.tcp.write = "queued" /\ u.tcp.shutdown = w.tcp.shutdown
      /\ u.tcp.fault = w.tcp.fault
  BY <1>b, <1>d, WriteSocketFields
<1> HIDE DEF u, x
<1>2. /\ x \in WorldType /\ x.pool = w.pool /\ SoundSocket(x.tcp)
      /\ x.tcp.status = w.tcp.status /\ ~x.tcp.polling
      /\ x.tcp.write = "queued" /\ x.tcp.shutdown = w.tcp.shutdown
      /\ x.tcp.fault = w.tcp.fault
      /\ SameHandshake(w.ps, x.ps) /\ x.ps.frame = "none"
      /\ x.ps.fault = w.ps.fault /\ x.ps.read_buf = NULL
      /\ x.ps.write_buf = w.ps.read_buf /\ NULL \notin Buf
  BY <1>a, <1>c, <1>e, DoneFields, PoolAssumption DEF SameHandshake, SameButFrame
<1>3. NextStage(w.ps, x.ps, st) = st
  BY <1>2 DEF NextStage
<1>4. ConnInv(x.tcp, x.ps, st, cl)
  <2>1. BuffersAgree(x.tcp, x.ps, st)
    BY <1>1, <1>2 DEF ConnInv, SameHandshake, BuffersAgree
  <2>2. Alternates(x.tcp, st)
    BY <1>1, <1>2 DEF ConnInv, SameHandshake, Alternates
  <2>3. StagesAgree(x.tcp, x.ps, st)
    BY <1>1, <1>2 DEF ConnInv, SameHandshake, StagesAgree
  <2>4. GreetingPassed(x.tcp, x.ps, st, cl)
    BY <1>1, <1>2 DEF ConnInv, SameHandshake, GreetingPassed
  <2>5. Deserved(x.ps, cl)
    BY <1>1, <1>2 DEF ConnInv, SameHandshake, Deserved
  <2>6. SessionAgrees(x.tcp, x.ps, st)
    BY <1>1, <1>2 DEF ConnInv, SameHandshake, SessionAgrees
  <2>7. FramesAgree(x.tcp, x.ps, st)
    BY <1>1, <1>2 DEF ConnInv, SameHandshake, FramesAgree
  <2>8. OneClose(x.tcp, x.ps)
    BY <1>1, <1>2 DEF ConnInv, SameHandshake, OneClose
  <2>9. QED
    BY <1>1, <1>2, <2>1, <2>2, <2>3, <2>4, <2>5, <2>6, <2>7, <2>8 DEF ConnInv,
       WorldType, Stage
<1>5. Keeps(w, x)
  BY <1>1, <1>2 DEF Keeps, Owned
<1>6. /\ Life(w.tcp, w.ps, st) = "handshake" /\ ~Owes(w.tcp)
      /\ Life(x.tcp, x.ps, st) = "handshake" /\ Owes(x.tcp) /\ Says(x.ps) = "none"
  BY <1>1, <1>2 DEF Life, Owes, Says
<1>p. Passes(w.ps, x.ps, cl)
  BY <1>2 DEF SameHandshake, Passes
<1>7. QED
  BY <1>1, <1>2, <1>3, <1>4, <1>5, <1>6, <1>p DEF x, LoopStep, Sound, LoopMove

(* v is w with the address of the request.                                  *)
LEMMA TellsSession ==
    ASSUME NEW w, NEW st, NEW cl, Reading(w, st, cl),
           w.ps.read_status = PS5RREQUEST,
           Supported(cl.request), w.ps.read_pos = RequestRead(cl.request),
           NEW v \in WorldType, v.tcp = w.tcp, v.pool = w.pool,
           v.ps.read_pos = w.ps.read_pos, v.ps.read_status = w.ps.read_status,
           v.ps.write_status = w.ps.write_status, v.ps.error = w.ps.error,
           v.ps.read_buf = w.ps.read_buf, v.ps.write_buf = w.ps.write_buf,
           v.ps.fault = w.ps.fault, v.ps.session.live = Held(v.ps.session)
    PROVE  LoopStep(w, st, RequestAccepted(v), cl)
<1> DEFINE x == RequestAccepted(v)
           f == BufFree(v, w.ps.read_buf)
           s == TcpReadStop(w.tcp)
           u == [f EXCEPT !.tcp = s]
<1>1. /\ w \in WorldType /\ SoundPool(w.pool) /\ ConnInv(w.tcp, w.ps, st, cl)
      /\ SoundSocket(w.tcp) /\ w.ps.frame = "none" /\ Open(w.tcp)
      /\ w.tcp.status \notin {INVALID, CLOSING, CLOSED}
      /\ ~(w.tcp.status >= CLOSING)
      /\ w.tcp.write = "none" /\ w.tcp.fault = "none" /\ w.ps.fault = "none"
      /\ w.ps.read_buf \in Buf /\ st = "handshake"
  BY ReadingFacts
<1>b. /\ SoundSocket(s) /\ s.status = w.tcp.status /\ ~s.polling
      /\ s.shutdown = w.tcp.shutdown /\ s.fault = w.tcp.fault
      /\ s.write = w.tcp.write /\ s \in SocketType
  BY <1>1, SoundStop DEF SoundSocket
<1>c. /\ f \in WorldType /\ f.tcp = w.tcp /\ SoundPool(f.pool)
      /\ SameHandshake(v.ps, f.ps)
      /\ f.ps.read_buf = w.ps.read_buf /\ f.ps.write_buf = w.ps.write_buf
      /\ \/ /\ f.ps.fault = w.ps.fault
            /\ Taken(f.pool) = Taken(w.pool) \ {w.ps.read_buf}
         \/ f.ps.fault = "double_free"
  BY <1>1, BufFreeFields
<1>a. x = CallUser(u, "on_session") /\ "on_session" \in ProxyFrame
  BY <1>c DEF RequestAccepted, ProxyFrame
<1> HIDE DEF s, f
<1>d. u \in WorldType /\ u.tcp = s /\ u.pool = f.pool /\ u.ps = f.ps
  BY <1>b, <1>c, PutTcp
<1> HIDE DEF u, x
<1>2. /\ x \in WorldType /\ SoundPool(x.pool) /\ SoundSocket(x.tcp)
      /\ x.tcp.status = w.tcp.status /\ ~x.tcp.polling
      /\ x.tcp.write = "none" /\ x.tcp.shutdown = w.tcp.shutdown
      /\ x.tcp.fault = w.tcp.fault
      /\ x.ps.read_pos = w.ps.read_pos /\ x.ps.read_status = w.ps.read_status
      /\ x.ps.write_status = w.ps.write_status /\ x.ps.error = w.ps.error
      /\ x.ps.session.live = Held(x.ps.session)
      /\ x.ps.frame = "on_session"
      /\ x.ps.read_buf = w.ps.read_buf /\ x.ps.write_buf = w.ps.write_buf
      /\ \/ Taken(x.pool) = Taken(w.pool) \ {w.ps.read_buf}
         \/ x.ps.fault # "none"
  BY <1>1, <1>a, <1>b, <1>c, <1>d, CallUserFields DEF SameHandshake
<1>3. NextStage(w.ps, x.ps, st) = "on_session"
  BY <1>1, <1>2 DEF NextStage
<1>4. ConnInv(x.tcp, x.ps, "on_session", cl)
  <2>1. BuffersAgree(x.tcp, x.ps, "on_session")
    BY <1>1, <1>2 DEF ConnInv, BuffersAgree
  <2>2. Alternates(x.tcp, "on_session")
    BY <1>1, <1>2 DEF ConnInv, Alternates
  <2>3. StagesAgree(x.tcp, x.ps, "on_session")
    BY <1>1, <1>2 DEF ConnInv, StagesAgree
  <2>4. GreetingPassed(x.tcp, x.ps, "on_session", cl)
    BY <1>1, <1>2 DEF ConnInv, GreetingPassed
  <2>5. Deserved(x.ps, cl)
    BY <1>1, <1>2 DEF ConnInv, Deserved
  <2>6. SessionAgrees(x.tcp, x.ps, "on_session")
    BY <1>1, <1>2 DEF ConnInv, SessionAgrees
  <2>7. FramesAgree(x.tcp, x.ps, "on_session")
    BY <1>1, <1>2 DEF ConnInv, FramesAgree
  <2>8. OneClose(x.tcp, x.ps)
    BY <1>1, <1>2 DEF ConnInv, OneClose
  <2>9. QED
    BY <1>1, <1>2, <2>1, <2>2, <2>3, <2>4, <2>5, <2>6, <2>7, <2>8 DEF ConnInv,
       WorldType, Stage
<1>5. Keeps(w, x)
  BY <1>1, <1>2 DEF Keeps, Owned, Fine
<1>6. /\ Life(w.tcp, w.ps, st) = "handshake" /\ ~Owes(w.tcp)
      /\ Life(x.tcp, x.ps, "on_session") = "session"
      /\ ~Owes(x.tcp) /\ Says(x.ps) = "on_session"
  BY <1>1, <1>2 DEF Life, Owes, Says
<1>7. Earned(x.ps, cl)
  BY <1>2 DEF Earned
<1>p. Passes(w.ps, x.ps, cl)
  BY <1>2 DEF Passes
<1>8. QED
  BY <1>1, <1>2, <1>3, <1>4, <1>5, <1>6, <1>7, <1>p DEF x, LoopStep, Sound, LoopMove

(* Data that arrived while forwarding is given to the user.                 *)
LEMMA TellsData ==
    ASSUME NEW w, NEW st, NEW cl, Reading(w, st, cl),
           w.ps.read_status = PS5RFORWARDING
    PROVE  LoopStep(w, st, CallUser([w EXCEPT !.tcp = TcpReadStop(@)], "on_read"), cl)
<1> DEFINE s == TcpReadStop(w.tcp)
           u == [w EXCEPT !.tcp = s]
           x == CallUser(u, "on_read")
<1>1. /\ w \in WorldType /\ SoundPool(w.pool) /\ ConnInv(w.tcp, w.ps, st, cl)
      /\ SoundSocket(w.tcp) /\ w.ps.frame = "none" /\ Open(w.tcp)
      /\ w.tcp.status \notin {INVALID, CLOSING, CLOSED}
      /\ ~(w.tcp.status >= CLOSING)
      /\ w.tcp.write = "none" /\ w.tcp.fault = "none" /\ w.ps.fault = "none"
      /\ w.ps.read_buf \in Buf /\ st = "forwarding"
  BY ReadingFacts
<1>b. /\ SoundSocket(s) /\ s.status = w.tcp.status /\ ~s.polling
      /\ s.shutdown = w.tcp.shutdown /\ s.fault = w.tcp.fault
      /\ s.write = w.tcp.write /\ s \in SocketType
  BY <1>1, SoundStop DEF SoundSocket
<1>c. [w EXCEPT !.tcp = TcpReadStop(@)] = u /\ "on_read" \in ProxyFrame
  BY DEF ProxyFrame
<1> HIDE DEF s
<1>d. u \in WorldType /\ u.tcp = s /\ u.pool = w.pool /\ u.ps = w.ps
  BY <1>1, <1>b, PutTcp
<1> HIDE DEF u
<1>2. /\ x \in WorldType /\ x.pool = w.pool /\ SoundSocket(x.tcp)
      /\ x.tcp.status = w.tcp.status /\ ~x.tcp.polling
      /\ x.tcp.write = "none" /\ x.tcp.shutdown = w.tcp.shutdown
      /\ x.tcp.fault = w.tcp.fault
      /\ SameHandshake(w.ps, x.ps) /\ x.ps.frame = "on_read"
      /\ x.ps.fault = w.ps.fault
      /\ x.ps.read_buf = w.ps.read_buf /\ x.ps.write_buf = w.ps.write_buf
      /\ NULL \notin Buf
  BY <1>1, <1>b, <1>c, <1>d, CallUserFields, PoolAssumption
<1> HIDE DEF x
<1>3. NextStage(w.ps, x.ps, st) = "on_read"
  BY <1>1, <1>2 DEF NextStage
<1>4. ConnInv(x.tcp, x.ps, "on_read", cl)
  <2>1. BuffersAgree(x.tcp, x.ps, "on_read")
    BY <1>1, <1>2 DEF ConnInv, SameHandshake, BuffersAgree
  <2>2. Alternates(x.tcp, "on_read")
    BY <1>1, <1>2 DEF ConnInv, SameHandshake, Alternates
  <2>3. StagesAgree(x.tcp, x.ps, "on_read")
    BY <1>1, <1>2 DEF Reading, ConnInv, SameHandshake, StagesAgree
  <2>4. GreetingPassed(x.tcp, x.ps, "on_read", cl)
    BY <1>1, <1>2 DEF ConnInv, SameHandshake, GreetingPassed
  <2>5. Deserved(x.ps, cl)
    BY <1>1, <1>2 DEF ConnInv, SameHandshake, Deserved
  <2>6. SessionAgrees(x.tcp, x.ps, "on_read")
    BY <1>1, <1>2 DEF ConnInv, SameHandshake, SessionAgrees
  <2>7. FramesAgree(x.tcp, x.ps, "on_read")
    BY <1>1, <1>2 DEF ConnInv, SameHandshake, FramesAgree
  <2>8. OneClose(x.tcp, x.ps)
    BY <1>1, <1>2 DEF ConnInv, SameHandshake, OneClose
  <2>9. QED
    BY <1>1, <1>2, <2>1, <2>2, <2>3, <2>4, <2>5, <2>6, <2>7, <2>8 DEF ConnInv,
       WorldType, Stage
<1>5. Keeps(w, x)
  BY <1>1, <1>2 DEF Keeps, Owned
<1>6. /\ Life(w.tcp, w.ps, st) = "forwarding" /\ ~Owes(w.tcp)
      /\ Life(x.tcp, x.ps, "on_read") = "data"
      /\ ~Owes(x.tcp) /\ Says(x.ps) = "on_read"
  BY <1>1, <1>2 DEF Life, Owes, Says
<1>p. Passes(w.ps, x.ps, cl)
  BY <1>2 DEF SameHandshake, Passes
<1>7. QED
  BY <1>1, <1>2, <1>3, <1>4, <1>5, <1>6, <1>c, <1>p DEF x, LoopStep, Sound, LoopMove

(* The user is told that the peer has finished.                             *)
LEMMA TellsEOF ==
    ASSUME NEW w, NEW st, NEW cl, Reading(w, st, cl)
    PROVE  LoopStep(w, st, CallUser(w, "on_EOF"), cl)
<1> DEFINE x == CallUser(w, "on_EOF")
<1>1. /\ w \in WorldType /\ SoundPool(w.pool) /\ ConnInv(w.tcp, w.ps, st, cl)
      /\ SoundSocket(w.tcp) /\ w.ps.frame = "none" /\ Open(w.tcp)
      /\ w.tcp.status \notin {INVALID, CLOSING, CLOSED}
      /\ ~(w.tcp.status >= CLOSING)
      /\ w.tcp.write = "none" /\ w.tcp.fault = "none" /\ w.ps.fault = "none"
      /\ w.ps.read_buf \in Buf /\ st \in {"handshake", "forwarding"}
  BY ReadingFacts
<1>2. /\ x \in WorldType /\ x.pool = w.pool /\ x.tcp = w.tcp
      /\ SameHandshake(w.ps, x.ps) /\ x.ps.frame = "on_EOF"
      /\ x.ps.fault = w.ps.fault
      /\ x.ps.read_buf = w.ps.read_buf /\ x.ps.write_buf = w.ps.write_buf
  BY <1>1, CallUserFields DEF ProxyFrame
<1> HIDE DEF x
<1>3. NextStage(w.ps, x.ps, st) = st
  BY <1>2 DEF NextStage
<1>4. ConnInv(x.tcp, x.ps, st, cl)
  <2>1. BuffersAgree(x.tcp, x.ps, st)
    BY <1>1, <1>2 DEF ConnInv, SameHandshake, BuffersAgree
  <2>2. Alternates(x.tcp, st)
    BY <1>1, <1>2 DEF ConnInv, SameHandshake, Alternates
  <2>3. StagesAgree(x.tcp, x.ps, st)
    BY <1>1, <1>2 DEF ConnInv, SameHandshake, StagesAgree
  <2>4. GreetingPassed(x.tcp, x.ps, st, cl)
    BY <1>1, <1>2 DEF ConnInv, SameHandshake, GreetingPassed
  <2>5. Deserved(x.ps, cl)
    BY <1>1, <1>2 DEF ConnInv, SameHandshake, Deserved
  <2>6. SessionAgrees(x.tcp, x.ps, st)
    BY <1>1, <1>2 DEF ConnInv, SameHandshake, SessionAgrees
  <2>7. FramesAgree(x.tcp, x.ps, st)
    BY <1>1, <1>2 DEF ConnInv, SameHandshake, FramesAgree
  <2>8. OneClose(x.tcp, x.ps)
    BY <1>1, <1>2 DEF ConnInv, SameHandshake, OneClose
  <2>9. QED
    BY <1>1, <1>2, <2>1, <2>2, <2>3, <2>4, <2>5, <2>6, <2>7, <2>8 DEF ConnInv,
       WorldType, Stage
<1>5. Keeps(w, x)
  BY <1>1, <1>2 DEF Keeps, Owned
<1>6. /\ Life(w.tcp, w.ps, st) \in {"handshake", "forwarding"} /\ ~Owes(w.tcp)
      /\ Life(x.tcp, x.ps, st) = Life(w.tcp, w.ps, st)
      /\ ~Owes(x.tcp) /\ Says(x.ps) = "on_EOF"
  BY <1>1, <1>2 DEF Life, Owes, Says
<1>p. Passes(w.ps, x.ps, cl)
  BY <1>2 DEF SameHandshake, Passes
<1>7. QED
  BY <1>1, <1>2, <1>3, <1>4, <1>5, <1>6, <1>p DEF x, LoopStep, Sound, LoopMove

(* The process stops in the proxy socket.                                   *)
LEMMA Dies ==
    ASSUME NEW w, NEW st, NEW cl, LoopTurn(w, st, cl),
           NEW why \in ProxyFault \ {"none"}
    PROVE  LoopStep(w, st, Crash(w, why), cl)
<1> DEFINE x == Crash(w, why)
<1>1. /\ w \in WorldType /\ SoundPool(w.pool) /\ ConnInv(w.tcp, w.ps, st, cl)
      /\ SoundSocket(w.tcp) /\ w.ps.frame = "none" /\ w.ps.fault = "none"
      /\ w.tcp.fault = "none"
  BY DEF LoopTurn, Sound, ConnInv, Fine
<1>2. /\ x \in WorldType /\ x.pool = w.pool /\ x.tcp = w.tcp
      /\ SameHandshake(w.ps, x.ps) /\ x.ps.frame = "none" /\ x.ps.fault = why
      /\ x.ps.read_buf = w.ps.read_buf /\ x.ps.write_buf = w.ps.write_buf
  BY <1>1, CrashFields
<1> HIDE DEF x
<1>3. NextStage(w.ps, x.ps, st) = st
  BY <1>2 DEF NextStage
<1>4. ConnInv(x.tcp, x.ps, st, cl)
  <2>1. BuffersAgree(x.tcp, x.ps, st)
    BY <1>1, <1>2 DEF ConnInv, SameHandshake, BuffersAgree
  <2>2. Alternates(x.tcp, st)
    BY <1>1, <1>2 DEF ConnInv, SameHandshake, Alternates
  <2>3. StagesAgree(x.tcp, x.ps, st)
    BY <1>1, <1>2 DEF ConnInv, SameHandshake, StagesAgree
  <2>4. GreetingPassed(x.tcp, x.ps, st, cl)
    BY <1>1, <1>2 DEF ConnInv, SameHandshake, GreetingPassed
  <2>5. Deserved(x.ps, cl)
    BY <1>1, <1>2 DEF ConnInv, SameHandshake, Deserved
  <2>6. SessionAgrees(x.tcp, x.ps, st)
    BY <1>1, <1>2 DEF ConnInv, SameHandshake, SessionAgrees
  <2>7. FramesAgree(x.tcp, x.ps, st)
    BY <1>1, <1>2 DEF ConnInv, SameHandshake, FramesAgree
  <2>8. OneClose(x.tcp, x.ps)
    BY <1>1, <1>2 DEF ConnInv, SameHandshake, OneClose
  <2>9. QED
    BY <1>1, <1>2, <2>1, <2>2, <2>3, <2>4, <2>5, <2>6, <2>7, <2>8 DEF ConnInv,
       WorldType, Stage
<1>5. ~Fine(x)
  BY <1>2 DEF Fine
<1>p. Passes(w.ps, x.ps, cl)
  BY <1>2 DEF SameHandshake, Passes
<1>6. QED
  BY <1>1, <1>2, <1>3, <1>4, <1>5, <1>p DEF x, LoopStep, Sound, Keeps

(* __socket_read_handle, for bytes that are in the buffer.                  *)
LEMMA GreetingStep ==
    ASSUME NEW w, NEW st, NEW cl, Reading(w, st, cl),
           w.ps.read_status = PS5RVERSION
    PROVE  LoopStep(w, st, GreetingHandle(w, cl.greeting), cl)
<1> DEFINE v == GreetingVerdict(cl.greeting, w.ps.read_pos)
<1>1. cl.greeting \in Greeting /\ w.ps.read_pos \in Nat
  BY ReadingFacts, ScriptAssumption DEF ConnInv
<1>2. /\ v \in {"wait", "ok"} \cup Socks5Error
      /\ "wait" \notin Socks5Error /\ "ok" \notin Socks5Error
  BY Verdicts
<1>3. CASE v = "wait"
  BY <1>2, <1>3, Waits DEF GreetingHandle
<1>4. CASE v = "ok"
  <2>1. /\ WellFormed(cl.greeting)
        /\ w.ps.read_pos = GreetingLength(cl.greeting)
    BY <1>1, <1>4, GreetingAnsweredWhole
  <2>2. QED
    BY <1>2, <1>4, <2>1, Greets DEF GreetingHandle
<1>5. CASE v \in Socks5Error
  <2>1. ~WellFormed(cl.greeting) \/ w.ps.read_pos < GreetingLength(cl.greeting)
    BY <1>1, <1>5, GreetingRefused
  <2>2. LoopStep(w, st, NotifyError(w, v), cl)
    BY <1>5, <2>1, Refuses
  <2>3. QED
    BY <1>2, <1>5, <2>2 DEF GreetingHandle
<1>6. QED
  BY <1>2, <1>3, <1>4, <1>5

(* An address that is kept is one that ne_session_free counts.              *)
LEMMA AddressCounted ==
    ASSUME NEW n \in SessionType, n.live = Held(n), n.in_len = 0, n.in6_len = 0
    PROVE  LET a == [n EXCEPT !.in_len = 1, !.live = @ + 1]
               b == [n EXCEPT !.in6_len = 1, !.live = @ + 1]
           IN  /\ a \in SessionType /\ a.live = Held(a)
               /\ b \in SessionType /\ b.live = Held(b)
<1>1. n.live \in {0, 1} /\ n.host \in BOOLEAN /\ n.live = IF n.host THEN 1 ELSE 0
  BY DEF SessionType, Held
<1>2. n.live + 1 \in 0 .. 2 /\ 1 \in 0 .. 1
  BY <1>1
<1> DEFINE m == n.live + 1
           a == [n EXCEPT !.in_len = 1, !.live = m]
           b == [n EXCEPT !.in6_len = 1, !.live = m]
<1>3. /\ [n EXCEPT !.in_len = 1, !.live = @ + 1] = a
      /\ [n EXCEPT !.in6_len = 1, !.live = @ + 1] = b
  BY DEF SessionType
<1>4. m = 1 + (IF n.host THEN 1 ELSE 0) /\ m \in 0 .. 2
  BY <1>1, <1>2
<1> HIDE DEF m
<1>5. /\ a \in SessionType /\ a.host = n.host /\ a.in_len = 1 /\ a.in6_len = 0
      /\ a.live = m
  BY <1>2, <1>4 DEF SessionType
<1>6. /\ b \in SessionType /\ b.host = n.host /\ b.in_len = 0 /\ b.in6_len = 1
      /\ b.live = m
  BY <1>2, <1>4 DEF SessionType
<1> HIDE DEF a, b
<1>7. a.live = Held(a) /\ b.live = Held(b)
  BY <1>4, <1>5, <1>6 DEF Held
<1>8. QED
  BY <1>3, <1>5, <1>6, <1>7

(* The handler of the request, whatever its verdict.                        *)
LEMMA RequestStep ==
    ASSUME NEW w, NEW st, NEW cl, Reading(w, st, cl), NEW malloc \in BOOLEAN,
           w.ps.read_status = PS5RREQUEST
    PROVE  LoopStep(w, st, RequestHandle(w, cl.request, malloc), cl)
<1> DEFINE r == cl.request
           v == RequestVerdict(r, w.ps.read_pos)
           t == IF w.ps.read_pos >= 8 /\ r.ver = 5 /\ r.cmd = 1
                  THEN [w EXCEPT !.ps.addr_type = r.atyp] ELSE w
           x == RequestHandle(w, r, malloc)
<1>1. r \in Request /\ w.ps.read_pos \in Nat
  BY ReadingFacts, ScriptAssumption DEF ConnInv
<1>2. /\ w \in WorldType /\ SoundPool(w.pool) /\ ConnInv(w.tcp, w.ps, st, cl)
      /\ w.ps.frame = "none" /\ w.ps.fault = "none" /\ w.tcp.fault = "none"
      /\ st = "handshake" /\ Open(w.tcp)
      /\ w.tcp.status \notin {INVALID, CLOSING, CLOSED}
  BY ReadingFacts
<1>3. /\ t \in WorldType /\ t.tcp = w.tcp /\ t.pool = w.pool
      /\ SameHandshake(w.ps, t.ps) /\ t.ps.frame = "none"
      /\ t.ps.fault = "none"
      /\ t.ps.read_buf = w.ps.read_buf /\ t.ps.write_buf = w.ps.write_buf
  <2> DEFINE p == [w.ps EXCEPT !.addr_type = r.atyp]
  <2>1. r.atyp \in Byte /\ w.ps \in ProxyType
    BY <1>1, <1>2 DEF Request, WorldType
  <2>2. /\ p \in ProxyType /\ SameHandshake(w.ps, p) /\ p.frame = w.ps.frame
        /\ p.fault = w.ps.fault
        /\ p.read_buf = w.ps.read_buf /\ p.write_buf = w.ps.write_buf
    BY <2>1 DEF ProxyType, SameHandshake
  <2> HIDE DEF p
  <2>3. [w EXCEPT !.ps = p] \in WorldType
    BY <1>2, <2>2 DEF WorldType
  <2>4. t = w \/ t = [w EXCEPT !.ps = p]
    BY DEF p
  <2> HIDE DEF t
  <2>5. QED
    BY <1>2, <2>2, <2>3, <2>4 DEF WorldType, SameHandshake
<1>4. \/ v = "wait" /\ x = Done(t)
      \/ v \in Socks5Error /\ x = NotifyError(t, v)
      \/ v = "ok" /\ x = Crash(t, "host")
      \/ v = "ok" /\ x = RequestAccepted(t)
      \/ v = "ok" /\ x = NotifyError(t, "ENOMEM")
      \/ v = "ok" /\ x = RequestAccepted(AddressKept(t))
  <2>1. /\ v \in {"wait", "ok"} \cup Socks5Error
        /\ "wait" \notin Socks5Error /\ "ok" \notin Socks5Error
    BY Verdicts
  <2>2. w.ps.session.host \in BOOLEAN
    BY <1>2 DEF WorldType, ProxyType, SessionType
  <2> DEFINE tt == t
  <2>3. x = CASE v = "wait" -> Done(tt)
              [] v \in Socks5Error -> NotifyError(tt, v)
              [] v = "ok" /\ r.atyp = 3 /\ ~w.ps.session.host -> Crash(tt, "host")
              [] v = "ok" /\ r.atyp = 3 /\ w.ps.session.host  -> RequestAccepted(tt)
              [] v = "ok" /\ r.atyp # 3 /\ ~malloc -> NotifyError(tt, "ENOMEM")
              [] v = "ok" /\ r.atyp # 3 /\ malloc -> RequestAccepted(AddressKept(tt))
    BY DEF RequestHandle
  <2> HIDE DEF tt, v, x
  <2>4. QED
    BY <2>1, <2>2, <2>3 DEF tt
<1> HIDE DEF t, x
<1>5. ConnInv(t.tcp, t.ps, st, cl)
  <2>1. t.ps \in ProxyType
    BY <1>3 DEF WorldType
  <2>2. QED
    BY <1>2, <1>3, <2>1 DEF ConnInv, SameHandshake, BuffersAgree, StagesAgree,
       GreetingPassed, Deserved, SessionAgrees, FramesAgree, OneClose
<1>6. Prepared(w, t, st, cl)
  <2>1. Keeps(w, t)
    BY <1>2, <1>3 DEF Keeps, Owned
  <2>2. Life(t.tcp, t.ps, st) = Life(w.tcp, w.ps, st)
    BY <1>2, <1>3 DEF Life
  <2>3. QED
    BY <1>2, <1>3, <1>5, <2>1, <2>2 DEF Prepared, Sound, Fine, SameHandshake
<1>7. Reading(t, st, cl) /\ t.ps.read_status = PS5RREQUEST /\ t.ps.read_pos = w.ps.read_pos
  BY <1>2, <1>3, <1>5 DEF Reading, LoopTurn, Sound, Fine, SameHandshake
<1>8. SUFFICES LoopStep(t, st, x, cl)
  BY <1>6, PreparedStep DEF x
<1>9. CASE v = "wait" /\ x = Done(t)
  BY <1>7, <1>9, Waits
<1>10. CASE v \in Socks5Error /\ x = NotifyError(t, v)
  <2>1. ~Supported(r) \/ w.ps.read_pos > RequestLength(r)
    BY <1>1, <1>10, RequestRefused
  <2>2. QED
    BY <1>7, <1>10, <2>1, Refuses
<1>11. CASE v = "ok" /\ x = Crash(t, "host")
  BY <1>7, <1>11, Dies DEF ProxyFault, Reading
<1>12. CASE v = "ok" /\ x = NotifyError(t, "ENOMEM")
  BY <1>7, <1>12, Refuses DEF Socks5Error
<1>13. v = "ok" => Supported(r) /\ t.ps.read_pos = RequestRead(r)
  BY <1>1, <1>7, RequestAcceptedWhole
<1>14. /\ t.ps.session.live = Held(t.ps.session)
       /\ t.ps.session.in_len = 0 /\ t.ps.session.in6_len = 0
  <2>1. SessionAgrees(t.tcp, t.ps, st) /\ t.tcp.status # CLOSED /\ st = "handshake"
    BY <1>2, <1>3, <1>5 DEF ConnInv
  <2>2. QED
    BY <2>1 DEF SessionAgrees
<1>15. CASE v = "ok" /\ x = RequestAccepted(t)
  BY <1>3, <1>7, <1>13, <1>14, <1>15, TellsSession
<1>16. CASE v = "ok" /\ x = RequestAccepted(AddressKept(t))
  <2> DEFINE u == AddressKept(t)
             n == IF t.ps.addr_type = 1
                    THEN [t.ps.session EXCEPT !.in_len = 1, !.live = @ + 1]
                    ELSE [t.ps.session EXCEPT !.in6_len = 1, !.live = @ + 1]
             p == [t.ps EXCEPT !.session = n]
  <2>1. n \in SessionType /\ n.live = Held(n)
    <3>1. t.ps.session \in SessionType
      BY <1>3 DEF WorldType, ProxyType
    <3>2. QED
      BY <1>14, <3>1, AddressCounted
  <2>2. u = [t EXCEPT !.ps = p]
    BY <1>3 DEF AddressKept, WorldType, ProxyType
  <2> HIDE DEF n
  <2>3. /\ p \in ProxyType /\ p.session = n
        /\ p.read_pos = t.ps.read_pos /\ p.read_status = t.ps.read_status
        /\ p.write_status = t.ps.write_status /\ p.error = t.ps.error
        /\ p.read_buf = t.ps.read_buf /\ p.write_buf = t.ps.write_buf
        /\ p.fault = t.ps.fault
    BY <1>3, <2>1 DEF WorldType, ProxyType
  <2> HIDE DEF p, u
  <2>4. u \in WorldType /\ u.tcp = t.tcp /\ u.pool = t.pool /\ u.ps = p
    BY <1>3, <2>2, <2>3 DEF WorldType
  <2>5. LoopStep(t, st, RequestAccepted(u), cl)
    BY <1>7, <1>13, <1>16, <2>1, <2>3, <2>4, TellsSession
  <2>6. QED
    BY <1>16, <2>5 DEF u
<1>17. QED
  BY <1>4, <1>9, <1>10, <1>11, <1>12, <1>15, <1>16

(* The read handler, whatever state it is in.                               *)
LEMMA ReadStep ==
    ASSUME NEW w, NEW st, NEW cl, Reading(w, st, cl), NEW malloc \in BOOLEAN
    PROVE  LoopStep(w, st, ReadHandle(w, cl, malloc), cl)
<1>1. w.ps.read_status \in {PS5RVERSION, PS5RREQUEST, PS5RFORWARDING}
  BY ReadingFacts, ProxyFields DEF WorldType
<1>2. CASE w.ps.read_status = PS5RVERSION
  BY <1>2, GreetingStep DEF ReadHandle
<1>3. CASE w.ps.read_status = PS5RREQUEST
  BY <1>3, RequestStep DEF ReadHandle
<1>4. CASE w.ps.read_status = PS5RFORWARDING
  BY <1>4, TellsData DEF ReadHandle
<1>5. QED
  BY <1>1, <1>2, <1>3, <1>4
================================================================================
