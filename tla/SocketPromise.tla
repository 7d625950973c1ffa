---------------------------- MODULE SocketPromise -----------------------------
(****************************************************************************)
(* What ne_tcp_socket promises its user (src/include/tcp_socket.h): the     *)
(* socket is opened once and closed once, every write is answered through   *)
(* on_write exactly once, on_write is called for no other reason, and the   *)
(* socket becomes freeable ("The socket can be freed now", line 40) only    *)
(* when no answer is owed any more, so that no buffer is lost with it.      *)
(****************************************************************************)
VARIABLES life,   \* "fresh", "open", "closing", "freeable" or "crashed"
          owed,   \* a write has been queued and not been answered
          told    \* on_write is running

Init == life = "fresh" /\ owed = FALSE /\ told = FALSE

(* A step that is not an answer may end one (on_write returns).             *)
NotAnswering == told' => told

Open == life = "fresh" /\ life' = "open" /\ UNCHANGED owed /\ NotAnswering

Ask == /\ life = "open" /\ UNCHANGED life
       /\ ~owed /\ owed' = TRUE
       /\ NotAnswering

(* A write that fails may close the socket before it is answered.           *)
Answer == /\ \/ life \in {"open", "closing"} /\ UNCHANGED life
             \/ life = "open" /\ life' = "closing"
          /\ owed /\ owed' = FALSE
          /\ ~told /\ told' = TRUE

(* Asked to by the user, or by the watchdog or an error of the peer.        *)
Close == /\ life \in {"fresh", "open"} /\ life' = "closing"
         /\ UNCHANGED owed
         /\ NotAnswering

Finish == /\ life = "closing" /\ life' = "freeable"
          /\ ~owed /\ UNCHANGED owed
          /\ NotAnswering

Return == UNCHANGED <<life, owed>> /\ told /\ told' = FALSE

(* An assertion ends the process.                                           *)
Crash == /\ life \in {"fresh", "open"} /\ life' = "crashed"
         /\ owed' \in BOOLEAN /\ NotAnswering

Next == Open \/ Ask \/ Answer \/ Close \/ Finish \/ Return \/ Crash

Spec == Init /\ [][Next]_<<life, owed, told>>
=============================================================================
