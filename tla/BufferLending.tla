---------------------------- MODULE BufferLending ----------------------------
(****************************************************************************)
(* What a memory pool promises to the sockets that borrow buffers from it,  *)
(* without free list, flags or counters: a buffer is lent to at most one    *)
(* client at a time, and the pool is torn down only when nothing is lent.   *)
(* MemoryPool implements this specification.                                *)
(****************************************************************************)
CONSTANTS Client,   \* the users of the pool (proxy sockets)
          Buf       \* the buffers that can be lent

VARIABLES phase,    \* "raw", "ready", "failed" or "freed"
          holds     \* holds[c]: the buffers client c has and has not given back

vars == <<phase, holds>>

Lent == UNION {holds[c] : c \in Client}

Init == /\ phase = "raw"
        /\ holds = [c \in Client |-> {}]

Open == /\ phase = "raw"
        /\ phase' \in {"ready", "failed"}
        /\ UNCHANGED holds

Lend(c, b) == /\ phase = "ready"
              /\ b \notin Lent
              /\ holds' = [holds EXCEPT ![c] = @ \cup {b}]
              /\ UNCHANGED phase

Return(c, b) == /\ phase = "ready"
                /\ b \in holds[c]
                /\ holds' = [holds EXCEPT ![c] = @ \ {b}]
                /\ UNCHANGED phase

Retire == /\ phase = "ready"
          /\ Lent = {}
          /\ phase' = "freed"
          /\ UNCHANGED holds

Next == \/ Open
        \/ Retire
        \/ \E c \in Client, b \in Buf : Lend(c, b) \/ Return(c, b)

Spec == Init /\ [][Next]_vars
=============================================================================
