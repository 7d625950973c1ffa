---------------------------- MODULE Socks5Messages -----------------------------
(****************************************************************************)
(* How src/src/socket/proxy_socket_socks5.c judges the bytes it has in its  *)
(* read buffer.  A message is the fields the handler looks at; n is the     *)
(* number of bytes received so far (read_pos).  `noauth` says whether       *)
(* method 0 is among the first `nmethods` methods, `alen` is the first byte *)
(* of DST.ADDR (the length of a domain name).                               *)
(****************************************************************************)
EXTENDS Naturals

Byte == 0 .. 255

Greeting == [ver : Byte, nmethods : Byte, noauth : BOOLEAN]
Request  == [ver : Byte, cmd : Byte, atyp : Byte, alen : Byte]

(* The errors that the handlers report.                                     *)
Socks5Error == {"EVERSION", "EAUTHMETHOD", "ECOMMAND", "EIPV4ADDR", "EDEST",
                "EUNKNOWNADDRTYPE", "ENOMEM"}

BugOffByOne(g, n) ==
    IF g.ver # 5 THEN "EVERSION"
    ELSE IF n < 2 \/ g.nmethods + 2 < n THEN "wait"
    ELSE IF g.nmethods = 0 \/ g.nmethods + 2 >= n \/ ~g.noauth THEN "EAUTHMETHOD"
    ELSE "ok"

BugPartAnswered(g, n) ==
    IF g.ver # 5 THEN "EVERSION"
    ELSE IF n < 2 \/ g.nmethods + 2 < n THEN "wait"
    ELSE IF g.nmethods = 0 \/ ~g.noauth THEN "EAUTHMETHOD"
    ELSE "ok"

(* The case PS5RVERSION.                                                    *)
GreetingVerdict(g, n) ==
    IF g.ver # 5 THEN "EVERSION"
    ELSE IF n < 2 \/ g.nmethods + 2 < n THEN "wait"
    ELSE IF g.nmethods = 0 \/ g.nmethods + 2 > n \/ ~g.noauth THEN "EAUTHMETHOD"
    ELSE "ok"

(* The length the case PS5RREQUEST insists on, and what it reports of a     *)
(* longer message.                                                          *)
Expected(r) == CASE r.atyp = 1 -> 10
                 [] r.atyp = 3 -> r.alen + 7
                 [] r.atyp = 4 -> 24

TooLong(r) == IF r.atyp = 3 THEN "EDEST" ELSE "EIPV4ADDR"

RequestVerdict(r, n) ==
    IF n < 8 THEN "wait"
    ELSE IF r.ver # 5 THEN "EVERSION"
    ELSE IF r.cmd # 1 THEN "ECOMMAND"
    ELSE IF r.atyp \notin {1, 3, 4} THEN "EUNKNOWNADDRTYPE"
    ELSE IF n < Expected(r) THEN "wait"
    ELSE IF n > Expected(r) THEN TooLong(r)
    ELSE "ok"

(* Where the handler reads the two bytes of the port.                       *)
PortAt(r) == CASE r.atyp = 1 -> 8
               [] r.atyp = 3 -> 4 + r.alen
               [] r.atyp = 4 -> 20
-----------------------------------------------------------------------------
(* The reference: the layout in the comment at line 77,                     *)
(* "VER | CMD | RSV | ATYP | DST.ADDR | DST.PORT", with the addresses that  *)
(* the handler itself copies.                                               *)
GreetingLength(g) == 2 + g.nmethods

AddrLength(r) == CASE r.atyp = 1 -> 4
                   [] r.atyp = 3 -> 1 + r.alen
                   [] r.atyp = 4 -> 16

RequestLength(r) == 4 + AddrLength(r) + 2

WellFormed(g) == g.ver = 5 /\ g.noauth /\ g.nmethods > 0

Supported(r) == r.ver = 5 /\ r.cmd = 1 /\ r.atyp \in {1, 3, 4}
================================================================================
