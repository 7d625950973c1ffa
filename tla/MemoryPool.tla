------------------------------ MODULE MemoryPool ------------------------------
(****************************************************************************)
(* One pool of MemoryPoolOps and its clients.  The clients keep the contract*)
(* of the interface: they give back what they hold, once.                   *)
(****************************************************************************)
EXTENDS MemoryPoolOps

CONSTANT Client        \* the users of the pool

VARIABLES phase,   \* "raw", "ready", "failed" (NE_ENOMEM) or "freed"
          pool,    \* the ne_memory_pool_t and its ne_memory_buf_t's
          holds,   \* holds[c]: the buffers client c was given and still has
          leaked   \* allocations no pointer leads to any more

vars == <<phase, pool, holds, leaked>>

Lent == UNION {holds[c] : c \in Client}
-----------------------------------------------------------------------------
Init == /\ phase  = "raw"
        /\ pool   = ZeroPool
        /\ holds  = [c \in Client |-> {}]
        /\ leaked = {}

(* ne_memory_pool_init: success, no memory for the data, or no memory for   *)
(* the buffer headers, in which case pool_data is never freed.              *)
PoolInit ==
    /\ phase = "raw"
    /\ \/ /\ phase' = "ready"
          /\ pool'  = BuiltPool
          /\ UNCHANGED leaked
       \/ /\ phase' = "failed"
          /\ UNCHANGED <<pool, leaked>>
       \/ /\ phase'  = "failed"
          /\ leaked' = leaked \cup {"pool_data"}
          /\ UNCHANGED pool
    /\ UNCHANGED holds

GetPooled(c) ==
    /\ phase = "ready"
    /\ pool.first # NULL
    /\ pool'  = TakeFirst(pool)
    /\ holds' = [holds EXCEPT ![c] = @ \cup {pool.first}]
    /\ UNCHANGED <<phase, leaked>>

GetCreated(c, b) ==
    /\ phase = "ready"
    /\ pool.first = NULL
    /\ b \in HeapBuf \ (pool.heap \cup leaked)
    /\ pool'  = MemoryBufCreate(pool, b)
    /\ holds' = [holds EXCEPT ![c] = @ \cup {b}]
    /\ UNCHANGED <<phase, leaked>>

(* The second calloc of __memory_buf_create fails: NULL is returned and the *)
(* header b stays allocated.  When the first one fails nothing changes.     *)
GetFails(b) ==
    /\ phase = "ready"
    /\ pool.first = NULL
    /\ b \in HeapBuf \ (pool.heap \cup leaked)
    /\ leaked' = leaked \cup {b}
    /\ UNCHANGED <<phase, pool, holds>>

FreeBuf(c, b) ==
    /\ phase = "ready"
    /\ b \in holds[c]
    /\ pool'  = MemoryBufFree(pool, b)
    /\ holds' = [holds EXCEPT ![c] = @ \ {b}]
    /\ UNCHANGED <<phase, leaked>>

(* ne_memory_pool_free when it returns true; otherwise it changes nothing.  *)
PoolFree ==
    /\ phase = "ready"
    /\ ~MemoryPoolUsed(pool)
    /\ phase' = "freed"
    /\ UNCHANGED <<pool, holds, leaked>>

(* Nobody uses a pool that failed to initialise or has been freed.          *)
Rest == phase \in {"failed", "freed"} /\ UNCHANGED vars

Next == \/ PoolInit
        \/ PoolFree
        \/ Rest
        \/ \E b \in HeapBuf : GetFails(b)
        \/ \E c \in Client : \/ GetPooled(c)
                             \/ \E b \in HeapBuf : GetCreated(c, b)
                             \/ \E b \in Buf : FreeBuf(c, b)

Spec == Init /\ [][Next]_vars
-----------------------------------------------------------------------------
(* Every variable has its type.                                             *)
TypeOK == /\ phase \in {"raw", "ready", "failed", "freed"}
          /\ pool \in PoolType
          /\ holds \in [Client -> SUBSET Buf]
          /\ leaked \subseteq HeapBuf \cup {"pool_data"}

(* s[1], ..., s[n] are the elements of the free list, first to last.        *)
ListsFree(n, s) ==
    /\ pool.first = IF n = 0 THEN NULL ELSE s[1]
    /\ \A i \in 1 .. n : pool.next[s[i]] = IF i = n THEN NULL ELSE s[i + 1]
    /\ \A i, j \in 1 .. n : s[i] = s[j] => i = j
    /\ \A b \in Block : (~ pool.used[b]) <=> (\E i \in 1 .. n : s[i] = b)

(* The linked list is finite, visits no block twice, and visits exactly the *)
(* blocks whose `used` flag is off: whatever order buffers come back in, no *)
(* block is lost from the list and none is on it while it is lent.          *)
FreeListExact ==
    phase = "ready" =>
        \E n \in 0 .. BlockCount : \E s \in [1 .. n -> Block] : ListsFree(n, s)

(* The flags and the counter that ne_memory_pool_free trusts agree with     *)
(* what clients hold: no buffer is used by two, a block is flagged exactly  *)
(* while it is lent, alloc_bufs counts the ALLOC buffers outstanding, and   *)
(* no buffer of a pool that is not there is in use.                         *)
AccountsExact ==
    /\ \A c, d \in Client : c # d => holds[c] \cap holds[d] = {}
    /\ \A b \in Block : pool.used[b] <=> b \in Lent
    /\ pool.heap = Lent \cap HeapBuf
    /\ IsFiniteSet(pool.heap)
    /\ pool.alloc_bufs = Cardinality(pool.heap)
    /\ phase # "ready" => Lent = {}

(* The heap is a last resort: a buffer is calloc'ed only when every block   *)
(* of the pool is in some client's hands.                                   *)
HeapOnlyWhenExhausted ==
    [][pool'.alloc_bufs > pool.alloc_bufs => Block \subseteq Lent]_vars

Lending == INSTANCE BufferLending

(* The pool implements BufferLending: a buffer is lent to one client at a   *)
(* time and ne_memory_pool_free succeeds only when nothing is lent.         *)
LendingSpec == Lending!Spec
=============================================================================
