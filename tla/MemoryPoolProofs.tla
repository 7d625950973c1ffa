--------------------------- MODULE MemoryPoolProofs ---------------------------
(****************************************************************************)
(* Proofs about MemoryPool for every number of blocks, every set of clients *)
(* and every heap.  The inductive invariant PoolInv is the conjunction of   *)
(* the three invariants the run checks: the free list must be exact for the *)
(* accounts to stay exact (a block taken from the list must not be lent),   *)
(* and the accounts must be exact for the list to stay exact (a block given *)
(* back must not be on it already).                                         *)
(****************************************************************************)
EXTENDS MemoryPool, SocketLemmas

PoolInv == TypeOK /\ FreeListExact /\ AccountsExact

(* The list of a pool p, as ListsFree states it of the variable.            *)
Lists(p, n, s) ==
    /\ p.first = IF n = 0 THEN NULL ELSE s[1]
    /\ \A i \in 1 .. n : p.next[s[i]] = IF i = n THEN NULL ELSE s[i + 1]
    /\ \A i, j \in 1 .. n : s[i] = s[j] => i = j
    /\ \A b \in Block : (~ p.used[b]) <=> (\E i \in 1 .. n : s[i] = b)

(* An enumeration of blocks without repetition is no longer than the pool.  *)
LEMMA ListFits ==
    ASSUME NEW n \in Nat, NEW s \in [1 .. n -> Block],
           \A i, j \in 1 .. n : s[i] = s[j] => i = j
    PROVE  n \in 0 .. BlockCount
<1>1. SUFFICES ASSUME n > BlockCount PROVE FALSE
  BY PoolAssumption
<1>2. IsFiniteSet(1 .. n) /\ Cardinality(1 .. n) = n
  BY <1>1, FS_Interval, PoolAssumption
<1>3. IsFiniteSet(Block) /\ Cardinality(Block) = BlockCount
  BY FS_Interval, PoolAssumption DEF Block
<1>4. \E i, j \in 1 .. n : i # j /\ s[i] = s[j]
  BY <1>1, <1>2, <1>3, FS_PigeonHole
<1>5. QED
  BY <1>4

(* SLIST_REMOVE_HEAD and `used = true` turn a list into the list of its     *)
(* tail.                                                                    *)
LEMMA TakeFirstLists ==
    ASSUME NEW p \in PoolType, NEW n \in Nat, NEW s \in [1 .. n -> Block],
           Lists(p, n, s), p.first # NULL
    PROVE  /\ p.first \in Block
           /\ ~ p.used[p.first]
           /\ TakeFirst(p) \in PoolType
           /\ \E m \in Nat : \E t \in [1 .. m -> Block] :
                 Lists(TakeFirst(p), m, t)
<1> DEFINE m == n - 1
           t == [i \in 1 .. m |-> s[i + 1]]
           q == TakeFirst(p)
<1>1. n # 0 /\ p.first = s[1] /\ p.first \in Block
  BY DEF Lists
<1>2. ~ p.used[p.first]
  BY <1>1 DEF Lists
<1>3. m \in Nat /\ t \in [1 .. m -> Block]
  BY <1>1
<1>4. /\ q.first = p.next[s[1]]
      /\ q.next = p.next
      /\ q.used = [p.used EXCEPT ![s[1]] = TRUE]
      /\ q \in PoolType
  BY <1>1 DEF TakeFirst, SlistRemoveHead, PoolType
<1>5. q.first = IF m = 0 THEN NULL ELSE t[1]
  BY <1>1, <1>4 DEF Lists
<1>6. \A i \in 1 .. m : q.next[t[i]] = IF i = m THEN NULL ELSE t[i + 1]
  BY <1>1, <1>4 DEF Lists
<1>7. \A i, j \in 1 .. m : t[i] = t[j] => i = j
  BY <1>1 DEF Lists
<1>8. ASSUME NEW b \in Block
      PROVE  (~ q.used[b]) <=> (\E i \in 1 .. m : t[i] = b)
  <2>1. CASE b = s[1]
    <3>1. q.used[b]
      BY <1>4, <2>1 DEF PoolType
    <3>2. \A i \in 1 .. m : s[i + 1] # s[1]
      BY <1>1 DEF Lists
    <3>3. QED
      BY <2>1, <3>1, <3>2
  <2>2. CASE b # s[1]
    <3>1. q.used[b] = p.used[b]
      BY <1>1, <1>4, <2>2 DEF PoolType
    <3>2. (\E i \in 1 .. n : s[i] = b) <=> (\E i \in 1 .. m : t[i] = b)
      <4>1. ASSUME NEW i \in 1 .. n, s[i] = b
            PROVE  \E k \in 1 .. m : t[k] = b
        <5>1. i - 1 \in 1 .. m /\ t[i - 1] = b
          BY <4>1, <2>2
        <5>2. QED
          BY <5>1
      <4>2. ASSUME NEW k \in 1 .. m, t[k] = b
            PROVE  \E i \in 1 .. n : s[i] = b
        <5>1. k + 1 \in 1 .. n /\ s[k + 1] = b
          BY <4>2, <1>1
        <5>2. QED
          BY <5>1
      <4>3. QED
        BY <4>1, <4>2
    <3>3. QED
      BY <3>1, <3>2 DEF Lists
  <2>3. QED
    BY <2>1, <2>2
<1>9. Lists(q, m, t)
  BY <1>5, <1>6, <1>7, <1>8 DEF Lists
<1>10. QED
  BY <1>1, <1>2, <1>3, <1>4, <1>9

(* SLIST_INSERT_HEAD of a block that is not on the list, with its flag off, *)
(* prepends it to the list.                                                 *)
LEMMA FreeBlockLists ==
    ASSUME NEW p \in PoolType, NEW n \in Nat, NEW s \in [1 .. n -> Block],
           Lists(p, n, s), NEW b \in Block, p.used[b]
    PROVE  /\ MemoryBufFree(p, b) \in PoolType
           /\ \E m \in Nat : \E t \in [1 .. m -> Block] :
                 Lists(MemoryBufFree(p, b), m, t)
<1> DEFINE m == n + 1
           t == [i \in 1 .. m |-> IF i = 1 THEN b ELSE s[i - 1]]
           q == MemoryBufFree(p, b)
<1>1. b \notin HeapBuf
  BY PoolAssumption
<1>2. /\ q.first = b
      /\ q.next = [p.next EXCEPT ![b] = p.first]
      /\ q.used = [p.used EXCEPT ![b] = FALSE]
      /\ q \in PoolType
  BY <1>1 DEF MemoryBufFree, SlistInsertHead, PoolType
<1>3. \A i \in 1 .. n : s[i] # b
  BY DEF Lists
<1>4. m \in Nat /\ t \in [1 .. m -> Block]
  OBVIOUS
<1>5. /\ m # 0 /\ t[1] = b
      /\ \A i \in 1 .. n : i + 1 \in 1 .. m /\ t[i + 1] = s[i]
      /\ \A i \in 1 .. m : i # 1 => i - 1 \in 1 .. n /\ t[i] = s[i - 1]
  OBVIOUS
<1>6. \A i \in 1 .. m : q.next[t[i]] = IF i = m THEN NULL ELSE t[i + 1]
  <2> SUFFICES ASSUME NEW i \in 1 .. m
               PROVE  q.next[t[i]] = IF i = m THEN NULL ELSE t[i + 1]
    OBVIOUS
  <2>1. CASE i = 1
    <3>1. q.next[t[i]] = p.first
      BY <1>2, <2>1, <1>5 DEF PoolType
    <3>2. p.first = IF n = 0 THEN NULL ELSE s[1]
      BY DEF Lists
    <3>3. QED
      BY <2>1, <3>1, <3>2
  <2>2. CASE i # 1
    <3>1. i - 1 \in 1 .. n /\ t[i] = s[i - 1]
      BY <2>2, <1>5
    <3>2. q.next[t[i]] = p.next[s[i - 1]]
      BY <3>1, <1>2, <1>3 DEF PoolType
    <3>3. p.next[s[i - 1]] = IF i - 1 = n THEN NULL ELSE s[i]
      BY <3>1 DEF Lists
    <3>4. i # m => t[i + 1] = s[i]
      BY <3>1
    <3>5. QED
      BY <3>1, <3>2, <3>3, <3>4
  <2>3. QED
    BY <2>1, <2>2
<1>7. \A i, j \in 1 .. m : t[i] = t[j] => i = j
  BY <1>3, <1>5 DEF Lists
<1>8. ASSUME NEW a \in Block
      PROVE  (~ q.used[a]) <=> (\E i \in 1 .. m : t[i] = a)
  <2>1. CASE a = b
    <3>1. ~ q.used[a]
      BY <1>2, <2>1 DEF PoolType
    <3>2. 1 \in 1 .. m /\ t[1] = a
      BY <2>1
    <3>3. QED
      BY <3>1, <3>2
  <2>2. CASE a # b
    <3>1. q.used[a] = p.used[a]
      BY <1>2, <2>2 DEF PoolType
    <3>2. (\E i \in 1 .. n : s[i] = a) <=> (\E i \in 1 .. m : t[i] = a)
      BY <1>5, <2>2
    <3>3. QED
      BY <3>1, <3>2 DEF Lists
  <2>3. QED
    BY <2>1, <2>2
<1>9. Lists(q, m, t)
  BY <1>2, <1>5, <1>6, <1>7, <1>8 DEF Lists
<1>10. QED
  BY <1>2, <1>4, <1>9

(* What FreeListExact says, with the length not yet bounded, in this state  *)
(* and in the next.                                                         *)
LEMMA ListsExact ==
    FreeListExact <=>
        (phase = "ready" => \E n \in Nat : \E s \in [1 .. n -> Block] :
                               Lists(pool, n, s))
<1>1. ASSUME NEW n \in Nat, NEW s \in [1 .. n -> Block]
      PROVE  ListsFree(n, s) <=> Lists(pool, n, s)
  BY DEF ListsFree, Lists
<1>2. ASSUME NEW n \in Nat, NEW s \in [1 .. n -> Block], Lists(pool, n, s)
      PROVE  n \in 0 .. BlockCount
  BY <1>2, ListFits DEF Lists
<1>3. QED
  BY <1>1, <1>2, PoolAssumption DEF FreeListExact

LEMMA ListsExactNext ==
    ASSUME NEW n \in Nat, NEW s \in [1 .. n -> Block], Lists(pool', n, s)
    PROVE  FreeListExact'
<1>1. n \in 0 .. BlockCount
  BY ListFits DEF Lists
<1>2. ListsFree(n, s)'
  BY DEF ListsFree, Lists
<1>3. QED
  BY <1>1, <1>2 DEF FreeListExact
(* Lending a buffer nobody has, and taking one back, keep clients disjoint. *)
Disjoint == \A c, d \in Client : c # d => holds[c] \cap holds[d] = {}

LEMMA LentMore ==
    ASSUME holds \in [Client -> SUBSET Buf], Disjoint, NEW c \in Client,
           NEW b, b \notin Lent, holds' = [holds EXCEPT ![c] = @ \cup {b}]
    PROVE  Disjoint' /\ Lent' = Lent \cup {b}
<1>1. \A d \in Client : b \notin holds[d]
  BY DEF Lent
<1>2. \A d \in Client :
         holds'[d] = IF d = c THEN holds[d] \cup {b} ELSE holds[d]
  OBVIOUS
<1>3. ASSUME NEW d \in Client, NEW e \in Client, d # e
      PROVE  holds'[d] \cap holds'[e] = {}
  <2>1. holds[d] \cap holds[e] = {}
    BY <1>3 DEF Disjoint
  <2>2. QED
    BY <1>1, <1>2, <1>3, <2>1
<1>4. Lent' = Lent \cup {b}
  BY <1>2 DEF Lent
<1>5. QED
  BY <1>3, <1>4 DEF Disjoint

LEMMA LentLess ==
    ASSUME holds \in [Client -> SUBSET Buf], Disjoint, NEW c \in Client,
           NEW b \in holds[c], holds' = [holds EXCEPT ![c] = @ \ {b}]
    PROVE  Disjoint' /\ b \in Lent /\ Lent' = Lent \ {b}
<1>1. \A d \in Client : d # c => b \notin holds[d]
  BY DEF Disjoint
<1>2. \A d \in Client : holds'[d] = IF d = c THEN holds[d] \ {b} ELSE holds[d]
  OBVIOUS
<1>3. Disjoint'
  BY <1>2 DEF Disjoint
<1>4. b \in Lent /\ Lent' = Lent \ {b}
  BY <1>1, <1>2 DEF Lent
<1>5. QED
  BY <1>3, <1>4
-----------------------------------------------------------------------------
LEMMA InitInv == Init => PoolInv
<1> SUFFICES ASSUME Init PROVE PoolInv
  OBVIOUS
<1>1. TypeOK
  BY DEF Init, TypeOK, ZeroPool, PoolType
<1>2. FreeListExact
  BY DEF Init, FreeListExact
<1>3. Lent = {}
  BY DEF Init, Lent
<1>4. AccountsExact
  BY <1>3, FS_EmptySet DEF Init, AccountsExact, ZeroPool
<1>5. QED
  BY <1>1, <1>2, <1>4 DEF PoolInv

(* The list ne_memory_pool_init builds: block n - 1, n - 2, ..., 0.         *)
LEMMA PoolInitInv == PoolInv /\ PoolInit => PoolInv'
<1> SUFFICES ASSUME PoolInv, PoolInit PROVE PoolInv'
  OBVIOUS
<1> USE PoolAssumption
<1>1. TypeOK'
  <2>1. ZeroPool \in PoolType
    BY DEF ZeroPool, PoolType
  <2>2. BuiltPool \in PoolType
    <3>1. BlockCount # 0 => BlockCount - 1 \in Block
      BY DEF Block
    <3>2. \A b \in Block : b # 0 => b - 1 \in Block
      BY DEF Block
    <3>3. QED
      BY <2>1, <3>1, <3>2 DEF BuiltPool, PoolType
  <2>3. pool' \in PoolType
    BY <2>2 DEF PoolInv, PoolInit, TypeOK
  <2>4. QED
    BY <2>3 DEF PoolInv, PoolInit, TypeOK
<1>2. CASE phase' = "failed"
  <2>1. UNCHANGED <<pool, holds>>
    BY <1>2 DEF PoolInit
  <2>2. AccountsExact'
    BY <1>2, <2>1 DEF PoolInv, PoolInit, AccountsExact, Lent
  <2>3. QED
    BY <1>1, <1>2, <2>2 DEF PoolInv, FreeListExact
<1>3. CASE phase' = "ready"
  <2> DEFINE n == BlockCount
             s == [i \in 1 .. n |-> n - i]
  <2>1. pool' = BuiltPool /\ UNCHANGED holds
    BY <1>3 DEF PoolInit
  <2>2. /\ pool'.used = [b \in Block |-> FALSE]
        /\ pool'.heap = {} /\ pool'.alloc_bufs = 0
        /\ pool'.first = IF n = 0 THEN NULL ELSE n - 1
        /\ pool'.next = [b \in Block |-> IF b = 0 THEN NULL ELSE b - 1]
    BY <2>1 DEF BuiltPool, ZeroPool
  <2>3. s \in [1 .. n -> Block]
    BY DEF Block
  <2>4. \A i \in 1 .. n : pool'.next[s[i]] = IF i = n THEN NULL ELSE s[i + 1]
    BY <2>2, <2>3 DEF Block
  <2>5. \A b \in Block : n - b \in 1 .. n /\ s[n - b] = b
    BY DEF Block
  <2>6. Lists(pool', n, s)
    <3>1. pool'.first = IF n = 0 THEN NULL ELSE s[1]
      BY <2>2
    <3>2. \A i, j \in 1 .. n : s[i] = s[j] => i = j
      OBVIOUS
    <3>3. \A b \in Block : (~ pool'.used[b]) <=> (\E i \in 1 .. n : s[i] = b)
      BY <2>2, <2>5
    <3>4. QED
      BY <2>4, <3>1, <3>2, <3>3 DEF Lists
  <2>7. FreeListExact'
    BY <2>3, <2>6, ListsExactNext
  <2>8. Lent' = {}
    <3>1. phase = "raw"
      BY DEF PoolInit
    <3>2. QED
      BY <2>1, <3>1 DEF PoolInv, AccountsExact, Lent
  <2>9. AccountsExact'
    BY <2>1, <2>2, <2>8, FS_EmptySet DEF PoolInv, AccountsExact
  <2>10. QED
    BY <1>1, <2>7, <2>9 DEF PoolInv
<1>4. QED
  BY <1>2, <1>3 DEF PoolInit

LEMMA GetPooledInv ==
    ASSUME PoolInv, NEW c \in Client, GetPooled(c)
    PROVE  PoolInv'
<1> DEFINE b == pool.first
<1> USE PoolAssumption
<1>1. PICK n \in Nat : \E s \in [1 .. n -> Block] : Lists(pool, n, s)
  BY ListsExact DEF PoolInv, GetPooled
<1>2. pool \in PoolType /\ pool' = TakeFirst(pool) /\ pool.first # NULL
  BY DEF PoolInv, TypeOK, GetPooled
<1>3. /\ b \in Block /\ ~ pool.used[b] /\ pool' \in PoolType
      /\ \E m \in Nat : \E t \in [1 .. m -> Block] : Lists(pool', m, t)
  BY <1>1, <1>2, TakeFirstLists
<1>4. TypeOK'
  BY <1>3 DEF PoolInv, TypeOK, GetPooled, Buf
<1>5. FreeListExact'
  BY <1>3, ListsExactNext
<1>6. b \notin Lent /\ b \notin HeapBuf
  BY <1>3 DEF PoolInv, AccountsExact
<1>7. Disjoint' /\ Lent' = Lent \cup {b}
  BY <1>6, LentMore DEF PoolInv, TypeOK, AccountsExact, Disjoint, GetPooled
<1>8. /\ pool'.used = [pool.used EXCEPT ![b] = TRUE]
      /\ pool'.heap = pool.heap /\ pool'.alloc_bufs = pool.alloc_bufs
  BY <1>2 DEF TakeFirst, SlistRemoveHead, PoolType
<1>9. AccountsExact'
  <2>1. (\A d, e \in Client : d # e => holds[d] \cap holds[e] = {})'
    BY <1>7 DEF Disjoint
  <2>2. (\A a \in Block : pool.used[a] <=> a \in Lent)'
    BY <1>2, <1>3, <1>7, <1>8 DEF PoolInv, AccountsExact, PoolType
  <2>3. (pool.heap = Lent \cap HeapBuf)'
    BY <1>6, <1>7, <1>8 DEF PoolInv, AccountsExact
  <2>4. QED
    BY <1>8, <2>1, <2>2, <2>3 DEF PoolInv, AccountsExact, GetPooled
<1>10. QED
  BY <1>4, <1>5, <1>9 DEF PoolInv

LEMMA GetCreatedInv ==
    ASSUME PoolInv, NEW c \in Client, NEW b \in HeapBuf, GetCreated(c, b)
    PROVE  PoolInv'
<1> USE PoolAssumption
<1>1. /\ pool \in PoolType /\ pool' = MemoryBufCreate(pool, b)
      /\ b \notin pool.heap /\ b \notin Block /\ phase = "ready"
  BY DEF PoolInv, TypeOK, GetCreated
<1>2. /\ pool'.first = pool.first /\ pool'.next = pool.next
      /\ pool'.used = pool.used /\ pool'.heap = pool.heap \cup {b}
      /\ pool'.alloc_bufs = pool.alloc_bufs + 1
      /\ pool' \in PoolType
  BY <1>1, CreateFields
<1>3. TypeOK'
  BY <1>2 DEF PoolInv, TypeOK, GetCreated, Buf
<1>4. FreeListExact'
  <2>1. PICK n \in Nat : \E s \in [1 .. n -> Block] : Lists(pool, n, s)
    BY <1>1, ListsExact DEF PoolInv
  <2>2. \E s \in [1 .. n -> Block] : Lists(pool', n, s)
    BY <1>2, <2>1 DEF Lists
  <2>3. QED
    BY <2>2, ListsExactNext
<1>5. b \notin Lent
  BY <1>1 DEF PoolInv, AccountsExact
<1>6. Disjoint' /\ Lent' = Lent \cup {b}
  BY <1>5, LentMore DEF PoolInv, TypeOK, AccountsExact, Disjoint, GetCreated
<1>7. AccountsExact'
  <2>1. (\A d, e \in Client : d # e => holds[d] \cap holds[e] = {})'
    BY <1>6 DEF Disjoint
  <2>2. (\A a \in Block : pool.used[a] <=> a \in Lent)'
    BY <1>1, <1>2, <1>6 DEF PoolInv, AccountsExact
  <2>3. (pool.heap = Lent \cap HeapBuf)'
    BY <1>2, <1>6 DEF PoolInv, AccountsExact
  <2>4. (IsFiniteSet(pool.heap) /\ pool.alloc_bufs = Cardinality(pool.heap))'
    <3>1. IsFiniteSet(pool.heap) /\ pool.alloc_bufs = Cardinality(pool.heap)
      BY DEF PoolInv, AccountsExact
    <3>2. /\ IsFiniteSet(pool.heap \cup {b})
          /\ Cardinality(pool.heap \cup {b}) = Cardinality(pool.heap) + 1
      BY <1>1, <3>1, FS_AddElement
    <3>3. QED
      BY <1>2, <3>1, <3>2
  <2>5. QED
    BY <2>1, <2>2, <2>3, <2>4 DEF AccountsExact, GetCreated
<1>8. QED
  BY <1>3, <1>4, <1>7 DEF PoolInv

LEMMA FreeBufInv ==
    ASSUME PoolInv, NEW c \in Client, NEW b \in Buf, FreeBuf(c, b)
    PROVE  PoolInv'
<1> USE PoolAssumption
<1>1. /\ pool \in PoolType /\ pool' = MemoryBufFree(pool, b)
      /\ phase = "ready" /\ phase' = "ready"
  BY DEF PoolInv, TypeOK, FreeBuf
<1>2. Disjoint' /\ b \in Lent /\ Lent' = Lent \ {b}
  BY LentLess DEF PoolInv, TypeOK, AccountsExact, Disjoint, FreeBuf
<1>3. PICK n \in Nat : \E s \in [1 .. n -> Block] : Lists(pool, n, s)
  BY <1>1, ListsExact DEF PoolInv
<1>4. /\ IsFiniteSet(pool.heap) /\ Cardinality(pool.heap) \in Nat
      /\ pool.alloc_bufs = Cardinality(pool.heap)
  BY FS_CardinalityType DEF PoolInv, AccountsExact
<1>5. (\A d, e \in Client : d # e => holds[d] \cap holds[e] = {})'
  BY <1>2 DEF Disjoint
<1>6. CASE b \in Block
  <2>1. b \notin HeapBuf /\ pool.used[b]
    BY <1>2, <1>6 DEF PoolInv, AccountsExact
  <2>2. /\ pool' \in PoolType
        /\ \E m \in Nat : \E t \in [1 .. m -> Block] : Lists(pool', m, t)
    BY <1>1, <1>3, <1>6, <2>1, FreeBlockLists
  <2>3. /\ pool'.used = [pool.used EXCEPT ![b] = FALSE]
        /\ pool'.heap = pool.heap /\ pool'.alloc_bufs = pool.alloc_bufs
    BY <1>1, <2>1 DEF MemoryBufFree, SlistInsertHead, PoolType
  <2>4. TypeOK'
    BY <2>2 DEF PoolInv, TypeOK, FreeBuf
  <2>5. FreeListExact'
    BY <2>2, ListsExactNext
  <2>6. (\A a \in Block : pool.used[a] <=> a \in Lent)'
    BY <1>1, <1>2, <1>6, <2>3 DEF PoolInv, AccountsExact, PoolType
  <2>7. (pool.heap = Lent \cap HeapBuf)'
    BY <1>2, <2>1, <2>3 DEF PoolInv, AccountsExact
  <2>8. AccountsExact'
    BY <1>1, <1>4, <1>5, <2>3, <2>6, <2>7 DEF AccountsExact
  <2>9. QED
    BY <2>4, <2>5, <2>8 DEF PoolInv
<1>7. CASE b \in HeapBuf
  <2>1. b \in pool.heap
    BY <1>2, <1>7 DEF PoolInv, AccountsExact
  <2>2. /\ IsFiniteSet(pool.heap \ {b})
        /\ Cardinality(pool.heap \ {b}) = Cardinality(pool.heap) - 1
        /\ Cardinality(pool.heap) # 0
    BY <1>4, <2>1, FS_RemoveElement, FS_EmptySet
  <2>3. /\ pool'.first = pool.first /\ pool'.next = pool.next
        /\ pool'.used = pool.used /\ pool'.heap = pool.heap \ {b}
        /\ pool'.alloc_bufs = pool.alloc_bufs - 1
        /\ pool' \in PoolType
    BY <1>1, <1>4, <1>7, <2>2, FreeHeapFields
  <2>4. TypeOK'
    BY <2>3 DEF PoolInv, TypeOK, FreeBuf
  <2>5. \E s \in [1 .. n -> Block] : Lists(pool', n, s)
    <3>1. PICK s \in [1 .. n -> Block] : Lists(pool, n, s)
      BY <1>3
    <3>2. Lists(pool', n, s)
      BY <2>3, <3>1 DEF Lists
    <3>3. QED
      BY <3>2
  <2>6. FreeListExact'
    BY <2>5, ListsExactNext
  <2>7. (\A a \in Block : pool.used[a] <=> a \in Lent)'
    BY <1>2, <1>7, <2>3 DEF PoolInv, AccountsExact
  <2>8. (pool.heap = Lent \cap HeapBuf)'
    BY <1>2, <2>3 DEF PoolInv, AccountsExact
  <2>9. (IsFiniteSet(pool.heap) /\ pool.alloc_bufs = Cardinality(pool.heap))'
    BY <1>4, <2>2, <2>3
  <2>10. AccountsExact'
    BY <1>1, <1>5, <2>7, <2>8, <2>9 DEF AccountsExact
  <2>11. QED
    BY <2>4, <2>6, <2>10 DEF PoolInv
<1>8. QED
  BY <1>6, <1>7 DEF Buf

(* The counter and the flags ne_memory_pool_free tests are enough.          *)
LEMMA UnusedMeansNothingLent ==
    ASSUME PoolInv, ~ MemoryPoolUsed(pool)
    PROVE  Lent = {}
<1>1. pool.heap = {}
  BY FS_EmptySet DEF PoolInv, AccountsExact, MemoryPoolUsed
<1>2. Lent \subseteq Block \cup HeapBuf
  BY DEF PoolInv, TypeOK, Lent, Buf
<1>3. QED
  BY <1>1, <1>2 DEF PoolInv, AccountsExact, MemoryPoolUsed

(* The steps that leave the pool and the clients alone.                     *)
LEMMA QuietInv ==
    ASSUME PoolInv, UNCHANGED <<pool, holds>>, TypeOK',
           phase' = phase \/ (phase' = "freed" /\ Lent = {})
    PROVE  PoolInv'
<1>1. FreeListExact'
  BY DEF PoolInv, FreeListExact, ListsFree
<1>2. Lent' = Lent
  BY DEF Lent
<1>3. AccountsExact'
  BY <1>2 DEF PoolInv, AccountsExact
<1>4. QED
  BY <1>1, <1>3 DEF PoolInv

LEMMA NextInv == PoolInv /\ [Next]_vars => PoolInv'
<1> SUFFICES ASSUME PoolInv, [Next]_vars PROVE PoolInv'
  OBVIOUS
<1>1. CASE PoolInit
  BY <1>1, PoolInitInv
<1>2. CASE PoolFree
  <2>1. Lent = {}
    BY <1>2, UnusedMeansNothingLent DEF PoolFree
  <2>2. TypeOK'
    BY <1>2 DEF PoolFree, PoolInv, TypeOK
  <2>3. QED
    BY <1>2, <2>1, <2>2, QuietInv DEF PoolFree
<1>3. CASE Rest \/ UNCHANGED vars
  <2>1. TypeOK'
    BY <1>3 DEF Rest, vars, PoolInv, TypeOK
  <2>2. QED
    BY <1>3, <2>1, QuietInv DEF Rest, vars
<1>4. ASSUME NEW b \in HeapBuf, GetFails(b) PROVE PoolInv'
  <2>1. TypeOK'
    BY <1>4 DEF GetFails, PoolInv, TypeOK
  <2>2. QED
    BY <1>4, <2>1, QuietInv DEF GetFails
<1>5. ASSUME NEW c \in Client, GetPooled(c) PROVE PoolInv'
  BY <1>5, GetPooledInv
<1>6. ASSUME NEW c \in Client, NEW b \in HeapBuf, GetCreated(c, b)
      PROVE  PoolInv'
  BY <1>6, GetCreatedInv
<1>7. ASSUME NEW c \in Client, NEW b \in Buf, FreeBuf(c, b) PROVE PoolInv'
  BY <1>7, FreeBufInv
<1>8. QED
  BY <1>1, <1>2, <1>3, <1>4, <1>5, <1>6, <1>7 DEF Next

LEMMA PoolInvariant == Spec => []PoolInv
BY InitInv, NextInv, PTL DEF Spec
-----------------------------------------------------------------------------
(* ne_memory_pool_init, ne_memory_pool_get_buf, ne_memory_buf_free and      *)
(* ne_memory_pool_free keep every variable in its type.                     *)
THEOREM TypeCorrect == Spec => []TypeOK
<1>1. PoolInv => TypeOK
  BY DEF PoolInv
<1>2. QED
  BY <1>1, PoolInvariant, PTL

(* For a pool of any size and any order of gets and frees, the linked list  *)
(* is exactly the list of the free blocks.                                  *)
THEOREM FreeListCorrect == Spec => []FreeListExact
<1>1. PoolInv => FreeListExact
  BY DEF PoolInv
<1>2. QED
  BY <1>1, PoolInvariant, PTL

(* The flags and the counter of the pool always tell what is outstanding,   *)
(* and no buffer is ever in the hands of two clients.                       *)
THEOREM AccountsCorrect == Spec => []AccountsExact
<1>1. PoolInv => AccountsExact
  BY DEF PoolInv
<1>2. QED
  BY <1>1, PoolInvariant, PTL

(* __memory_buf_create is reached only when every block is lent.            *)
THEOREM HeapIsLastResort == Spec => HeapOnlyWhenExhausted
<1>1. ASSUME PoolInv, PoolInv', [Next]_vars
      PROVE  [pool'.alloc_bufs > pool.alloc_bufs => Block \subseteq Lent]_vars
  <2> SUFFICES ASSUME pool'.alloc_bufs > pool.alloc_bufs
               PROVE  Block \subseteq Lent
    OBVIOUS
  <2>0. pool \in PoolType /\ pool.alloc_bufs \in Nat
    BY <1>1 DEF PoolInv, TypeOK, PoolType
  <2>1. CASE \E c \in Client, b \in HeapBuf : GetCreated(c, b)
    <3>1. phase = "ready" /\ pool.first = NULL
      BY <2>1 DEF GetCreated
    <3>2. PICK n \in Nat : \E s \in [1 .. n -> Block] : Lists(pool, n, s)
      BY <1>1, <3>1, ListsExact DEF PoolInv
    <3>3. PICK s \in [1 .. n -> Block] : Lists(pool, n, s)
      BY <3>2
    <3>4. n = 0
      BY <3>1, <3>3, PoolAssumption DEF Lists, Buf
    <3>5. \A b \in Block : pool.used[b]
      BY <3>3, <3>4 DEF Lists
    <3>6. QED
      BY <1>1, <3>5 DEF PoolInv, AccountsExact
  <2>2. CASE \E c \in Client : GetPooled(c)
    <3>1. pool'.alloc_bufs = pool.alloc_bufs
      BY <2>0, <2>2 DEF GetPooled, TakeFirst, SlistRemoveHead, PoolType
    <3>2. QED
      BY <2>0, <3>1
  <2>3. CASE \E c \in Client, b \in Buf : FreeBuf(c, b)
    <3>1. pool'.alloc_bufs = pool.alloc_bufs \/ pool'.alloc_bufs = pool.alloc_bufs - 1
      BY <2>0, <2>3 DEF FreeBuf, MemoryBufFree, SlistInsertHead, PoolType
    <3>2. QED
      BY <2>0, <3>1
  <2>4. CASE PoolInit
    <3>1. pool' = pool \/ pool'.alloc_bufs = 0
      BY <2>4 DEF PoolInit, BuiltPool, ZeroPool
    <3>2. QED
      BY <2>0, <3>1
  <2>5. CASE PoolFree \/ Rest \/ (\E b \in HeapBuf : GetFails(b)) \/ UNCHANGED vars
    <3>1. pool' = pool
      BY <2>5 DEF PoolFree, Rest, GetFails, vars
    <3>2. QED
      BY <2>0, <3>1
  <2>6. QED
    BY <1>1, <2>1, <2>2, <2>3, <2>4, <2>5 DEF Next
<1>2. QED
  BY <1>1, PoolInvariant, PTL DEF Spec, HeapOnlyWhenExhausted

(* MemoryPool implements BufferLending: every step lends a buffer nobody    *)
(* has, takes one back, opens or retires the pool, or changes nothing a     *)
(* client can see.                                                          *)
THEOREM PoolLends == Spec => LendingSpec
<1>1. Init => Lending!Init
  BY DEF Init, Lending!Init
<1>2. PoolInv /\ [Next]_vars => [Lending!Next]_(Lending!vars)
  <2> SUFFICES ASSUME PoolInv, [Next]_vars
               PROVE  [Lending!Next]_(Lending!vars)
    OBVIOUS
  <2>1. Lending!Lent = Lent
    BY DEF Lending!Lent, Lent
  <2>2. CASE PoolInit
    BY <2>2 DEF PoolInit, Lending!Next, Lending!Open
  <2>3. CASE PoolFree
    BY <2>1, <2>3, UnusedMeansNothingLent
       DEF PoolFree, Lending!Next, Lending!Retire
  <2>4. ASSUME NEW c \in Client, GetPooled(c)
        PROVE  Lending!Next
    <3>1. PICK n \in Nat : \E s \in [1 .. n -> Block] : Lists(pool, n, s)
      BY <2>4, ListsExact DEF PoolInv, GetPooled
    <3>2. pool.first \in Block /\ ~ pool.used[pool.first]
      BY <2>4, <3>1, TakeFirstLists DEF PoolInv, TypeOK, GetPooled
    <3>3. pool.first \in Buf /\ pool.first \notin Lent
      BY <3>2 DEF PoolInv, AccountsExact, Buf
    <3>4. Lending!Lend(c, pool.first)
      BY <2>1, <2>4, <3>3 DEF GetPooled, Lending!Lend
    <3>5. QED
      BY <3>3, <3>4 DEF Lending!Next
  <2>5. ASSUME NEW c \in Client, NEW b \in HeapBuf, GetCreated(c, b)
        PROVE  Lending!Next
    <3>1. b \in Buf /\ b \notin Lent
      BY <2>5 DEF PoolInv, AccountsExact, GetCreated, Buf
    <3>2. Lending!Lend(c, b)
      BY <2>1, <2>5, <3>1 DEF GetCreated, Lending!Lend
    <3>3. QED
      BY <3>1, <3>2 DEF Lending!Next
  <2>6. ASSUME NEW c \in Client, NEW b \in Buf, FreeBuf(c, b)
        PROVE  Lending!Next
    BY <2>6 DEF FreeBuf, Lending!Next, Lending!Return
  <2>7. CASE Rest \/ (\E b \in HeapBuf : GetFails(b)) \/ UNCHANGED vars
    BY <2>7 DEF Rest, GetFails, vars, Lending!vars
  <2>8. QED
    BY <2>2, <2>3, <2>4, <2>5, <2>6, <2>7 DEF Next
<1>3. QED
  BY <1>1, <1>2, PoolInvariant, PTL DEF Spec, LendingSpec, Lending!Spec
=============================================================================
