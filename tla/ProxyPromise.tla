----------------------------- MODULE ProxyPromise ------------------------------
(****************************************************************************)
(* What a proxy socket promises its user (src/include/proxy_socket.h), for  *)
(* connections that are accepted, served and, once over, accepted again in  *)
(* the same memory: the callbacks come one at a time and in this order.     *)
(*                                                                          *)
(*   handshake --on_session--> session --start_forwarding--> forwarding     *)
(*   forwarding --on_read--> data --the user's write--> forwarding          *)
(*                                                                          *)
(* From each of them on_error or a close leads to closing, in which the     *)
(* user hears of nothing but on_close, and of that when no write is owed    *)
(* an answer any more.                                                      *)
(****************************************************************************)
CONSTANT Conn

VARIABLES life,   \* life[c]: where connection c is
          says,   \* says[c]: the callback of the user that is running
          owed    \* owed[c]: a write has been started and not been answered

vars == <<life, says, owed>>

Served == {"handshake", "session", "forwarding", "data"}
Quiet  == \A c \in Conn : says[c] = "none"

Becomes(c, l, s, o) == /\ life' = [life EXCEPT ![c] = l]
                       /\ says' = [says EXCEPT ![c] = s]
                       /\ owed' = [owed EXCEPT ![c] = o]

Init == /\ life = [c \in Conn |-> "idle"]
        /\ says = [c \in Conn |-> "none"]
        /\ owed = [c \in Conn |-> FALSE]

Accept(c) == Quiet /\ life[c] = "idle" /\ Becomes(c, "handshake", "none", FALSE)

(* A session once, data when the user has dealt with the data before.       *)
Session(c)  == /\ Quiet /\ life[c] = "handshake" /\ ~owed[c]
               /\ Becomes(c, "session", "on_session", FALSE)

Data(c)     == /\ Quiet /\ life[c] = "forwarding" /\ ~owed[c]
               /\ Becomes(c, "data", "on_read", FALSE)

End(c)      == /\ Quiet /\ life[c] \in {"handshake", "forwarding"} /\ ~owed[c]
               /\ Becomes(c, life[c], "on_EOF", FALSE)

HasShut(c)  == /\ Quiet /\ life[c] \in {"forwarding", "data"} /\ ~owed[c]
               /\ Becomes(c, life[c], "on_shutdown", FALSE)

(* The failure may be that of the write that is owed.                       *)
Error(c)    == /\ Quiet /\ life[c] \in Served
               /\ \E o \in {FALSE, owed[c]} : Becomes(c, "failed", "on_error", o)

Finish(c)   == /\ Quiet /\ life[c] = "closing" /\ ~owed[c]
               /\ Becomes(c, "idle", "on_close", FALSE)

(* What the user asks for, in a callback or outside; forwarding may fail.   *)
Forward(c)  == /\ life[c] = "session" /\ ~owed[c]
               /\ \/ Becomes(c, "forwarding", says[c], TRUE)
                  \/ Becomes(c, "failed", "on_error", FALSE)

Write(c)    == /\ life[c] = "data" /\ ~owed[c]
               /\ Becomes(c, "forwarding", says[c], TRUE)

Close(c)    == life[c] \in Served /\ Becomes(c, "closing", says[c], owed[c])

(* The reply to the greeting, the answer of a write: not told to the user.  *)
Reply(c)    == /\ Quiet /\ life[c] = "handshake" /\ ~owed[c]
               /\ Becomes(c, "handshake", "none", TRUE)

Answer(c)   == Quiet /\ owed[c] /\ Becomes(c, life[c], "none", FALSE)

Return(c)   == /\ says[c] # "none"
               /\ Becomes(c, IF life[c] = "failed" THEN "closing" ELSE life[c],
                          "none", owed[c])

(* An assertion, or memory that cannot be had, ends the process.            *)
Crash == /\ life' = [c \in Conn |-> "crashed"]
         /\ says' = [c \in Conn |-> "none"]
         /\ owed' = [c \in Conn |-> FALSE]

Next == \/ Crash
        \/ \E c \in Conn :
              \/ Accept(c) \/ Session(c) \/ Data(c) \/ End(c) \/ HasShut(c)
              \/ Error(c) \/ Finish(c) \/ Forward(c) \/ Write(c) \/ Close(c)
              \/ Reply(c) \/ Answer(c) \/ Return(c)

Spec == Init /\ [][Next]_vars
================================================================================
