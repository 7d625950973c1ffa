-------------------------------- MODULE MCSocks5 --------------------------------
(****************************************************************************)
(* Instances of Socks5 for TLC.                                             *)
(****************************************************************************)
EXTENDS Socks5Lemmas, TLC

Hello(n, noauth)  == [ver |-> 5, nmethods |-> n, noauth |-> noauth]
Ask(cmd, atyp, n) == [ver |-> 5, cmd |-> cmd, atyp |-> atyp, alen |-> n]
Client(g, r)        == [greeting |-> g, request |-> r, host |-> TRUE]

Good == Client(Hello(1, TRUE), Ask(1, 1, 0))

(* One of each kind of client that the handlers tell apart.                 *)
EveryKind ==
    {Good,
     Client(Hello(3, TRUE), Ask(1, 3, 2)),
     Client(Hello(1, TRUE), Ask(1, 4, 0)),
     Client(Hello(1, TRUE), Ask(1, 2, 0)),
     Client(Hello(1, TRUE), Ask(2, 1, 0)),
     Client(Hello(0, FALSE), Ask(1, 1, 0)),
     Client(Hello(2, FALSE), Ask(1, 1, 0)),
     [Good EXCEPT !.greeting.ver = 4],
     [Good EXCEPT !.request.ver = 4],
     [Client(Hello(1, TRUE), Ask(1, 3, 2)) EXCEPT !.host = FALSE]}

OnlyGood   == {Good}
InTens     == {Client(Hello(8, TRUE), Ask(1, 1, 0))}
OtherAddrs == {Client(Hello(1, TRUE), Ask(1, 3, 2)),
               Client(Hello(1, TRUE), Ask(1, 4, 0))}
AnySize    == 1 .. BlockSize

(* A timer may become due at any moment and is noticed only when the loop   *)
(* runs it: nothing is lost when it becomes due just then, one at a time.   *)
OneDue ==
    \A c, d \in Conn :
        tcp[c].timer = "due" => InLoop /\ (tcp[d].timer = "due" => c = d)

ConnSymmetry == Permutations(Conn)
================================================================================
