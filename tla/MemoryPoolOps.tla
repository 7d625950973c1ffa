----------------------------- MODULE MemoryPoolOps -----------------------------
(****************************************************************************)
(* The buffer pool of src/src/utils/memory_pool.c: BlockCount preallocated  *)
(* blocks on a singly linked free list (SLIST of src/include/queue.h), and  *)
(* a calloc'ed buffer when the list is empty.  The list is kept as the      *)
(* pointers the code writes, so that a broken list stays broken.            *)
(*                                                                          *)
(* A pool is a record; every function of the file is an operator from a     *)
(* pool to a pool, so that a handler can call several of them in one step.  *)
(****************************************************************************)
EXTENDS Naturals, FiniteSets

CONSTANTS BlockCount,  \* block_count of ne_memory_pool_init
          HeapBuf,     \* the buffers calloc can still provide (bounds the heap)
          NULL

Block == 0 .. BlockCount - 1
Buf   == Block \cup HeapBuf

ASSUME PoolAssumption == /\ BlockCount \in Nat
                         /\ HeapBuf \cap Block = {}
                         /\ NULL \notin Buf
-----------------------------------------------------------------------------
(* The struct after the memset of ne_memory_pool_init; `heap` is the set of *)
(* the ALLOC buffers that are allocated and not freed.                      *)
ZeroPool == [first      |-> NULL,
             next       |-> [b \in Block |-> NULL],
             used       |-> [b \in Block |-> FALSE],
             alloc_bufs |-> 0,
             heap       |-> {}]

PoolType == [first      : Block \cup {NULL},
             next       : [Block -> Block \cup {NULL}],
             used       : [Block -> BOOLEAN],
             alloc_bufs : Nat,
             heap       : SUBSET HeapBuf]

(* The loop of ne_memory_pool_init puts block 0, then 1, ... at the head.   *)
BuiltPool == [ZeroPool EXCEPT
                !.first = IF BlockCount = 0 THEN NULL ELSE BlockCount - 1,
                !.next  = [b \in Block |-> IF b = 0 THEN NULL ELSE b - 1]]

BugSwappedInsert(p, b) == [p EXCEPT !.first = b, !.next[b] = b]

SlistInsertHead(p, b) == [p EXCEPT !.next[b] = p.first, !.first = b]

BugLoseRest(p) == [p EXCEPT !.first = NULL]

SlistRemoveHead(p) == [p EXCEPT !.first = p.next[p.first]]

BugForgetUsed(p) == SlistRemoveHead(p)

(* ne_memory_pool_get_buf when the list is not empty; it returns p.first.   *)
TakeFirst(p) == [SlistRemoveHead(p) EXCEPT !.used[p.first] = TRUE]

(* __memory_buf_create when both callocs succeed and return buffer b.       *)
MemoryBufCreate(p, b) == [p EXCEPT !.alloc_bufs = @ + 1,
                                   !.heap = @ \cup {b}]

(* What ne_memory_pool_get_buf returns: the first free block, or else a new *)
(* heap buffer, or NULL when calloc fails or has none; and the pool it      *)
(* leaves.                                                                  *)
OfferedBuf(p, calloc) ==
    IF p.first # NULL THEN p.first
    ELSE IF calloc /\ HeapBuf \ p.heap # {} THEN CHOOSE b \in HeapBuf \ p.heap : TRUE
    ELSE NULL

MemoryPoolGetBuf(p, calloc) ==
    IF p.first # NULL THEN TakeFirst(p)
    ELSE IF OfferedBuf(p, calloc) # NULL
           THEN MemoryBufCreate(p, OfferedBuf(p, calloc))
    ELSE p

BugAlwaysUncount(p, b) ==
    IF b \in HeapBuf
      THEN [p EXCEPT !.alloc_bufs = @ - 1, !.heap = @ \ {b}]
      ELSE SlistInsertHead([p EXCEPT !.used[b] = FALSE, !.alloc_bufs = @ - 1], b)

MemoryBufFree(p, b) ==
    IF b \in HeapBuf
      THEN [p EXCEPT !.alloc_bufs = @ - 1, !.heap = @ \ {b}]
      ELSE SlistInsertHead([p EXCEPT !.used[b] = FALSE], b)

BugIgnoreHeap(p) == \E b \in Block : p.used[b]

MemoryPoolUsed(p) == \/ p.alloc_bufs # 0
                     \/ \E b \in Block : p.used[b]
==============================================================================
