------------------------------ MODULE TreeLemmas -------------------------------
(****************************************************************************)
(* What the pointers of a tree lead to, and how an assignment changes it:   *)
(* first what every kind of tree needs, then, for what carries parents too  *)
(* (Good), what the macros and assignments of RB_GENERATE do to a tree.     *)
(****************************************************************************)
EXTENDS RedBlackOps, TLAPS

LEMMA SideFacts ==
  /\ NULL \notin Node /\ SCRATCH \notin Node /\ NULL # SCRATCH /\ NULL \notin Cell
  /\ \A d \in Side : Opp(d) \in Side /\ Opp(Opp(d)) = d /\ Opp(d) # d
  /\ \A d, e \in Side : e = d \/ e = Opp(d)
  /\ \A d \in Side : d # HERE
  /\ LEFT \in Side /\ RIGHT \in Side /\ Opp(LEFT) = RIGHT /\ Opp(RIGHT) = LEFT /\ LEFT # RIGHT
BY TreeAssumption DEF NULL, SCRATCH, Side, Opp, Cell, LEFT, RIGHT, HERE

LEMMA PutType ==
  ASSUME NEW k \in Memory, NEW d \in Side, NEW n \in Cell, NEW v \in Pointer
  PROVE  Put(k, d, n, v) \in Memory
BY DEF Put, Memory

LEMMA PutAt ==
  ASSUME NEW k \in Memory, NEW d \in Side, NEW n, NEW v, NEW e \in Side, NEW m \in Cell
  PROVE  Put(k, d, n, v)[e][m] = IF e = d /\ m = n THEN v ELSE k[e][m]
BY DEF Put, Memory

LEMMA PutBothType ==
  ASSUME NEW k \in Memory, NEW n \in Cell, NEW l \in Pointer, NEW r \in Pointer
  PROVE  PutBoth(k, n, l, r) \in Memory
<1>1. Put(k, LEFT, n, l) \in Memory
  BY SideFacts, PutType
<1>2. QED
  BY <1>1, SideFacts, PutType DEF PutBoth

LEMMA PutBothAt ==
  ASSUME NEW k \in Memory, NEW n \in Cell, NEW l \in Pointer, NEW r \in Pointer,
         NEW e \in Side, NEW m \in Cell
  PROVE  PutBoth(k, n, l, r)[e][m] = IF m = n THEN IF e = LEFT THEN l ELSE r ELSE k[e][m]
<1>1. Put(k, LEFT, n, l) \in Memory
  BY SideFacts, PutType
<1>2. PutBoth(k, n, l, r)[e][m]
        = IF e = RIGHT /\ m = n THEN r ELSE Put(k, LEFT, n, l)[e][m]
  BY <1>1, SideFacts, PutAt DEF PutBoth
<1>3. Put(k, LEFT, n, l)[e][m] = IF e = LEFT /\ m = n THEN l ELSE k[e][m]
  BY SideFacts, PutAt
<1>4. QED
  BY <1>2, <1>3, SideFacts DEF Side

LEMMA MemoryEqual ==
  ASSUME NEW k \in Memory, NEW k2 \in Memory,
         \A d \in Side, n \in Cell : k2[d][n] = k[d][n]
  PROVE  k2 = k
<1>1. \A d \in Side : k2[d] = k[d]
  BY DEF Memory
<1>2. QED
  BY <1>1 DEF Memory

LEMMA KidType ==
  ASSUME NEW k \in Memory, NEW d \in Side, NEW n \in Cell
  PROVE  k[d][n] \in Pointer
BY DEF Memory

LEMMA TowardFacts ==
  ASSUME NEW x \in Node, NEW y \in Node
  PROVE  /\ Toward(Key[x], x) = HERE
         /\ \A d \in Side : Toward(Key[x], y) = d <=> Toward(Key[y], x) = Opp(d)
         /\ Toward(Key[x], y) \in Side \cup {HERE}
         /\ Toward(Key[x], y) = HERE <=> Key[x] = Key[y]
<1>1. Key[x] \in Nat /\ Key[y] \in Nat
  BY TreeAssumption
<1>2. QED
  BY <1>1 DEF Toward, Opp, Side, LEFT, RIGHT, HERE

LEMMA TowardTransitive ==
  ASSUME NEW x \in Node, NEW y \in Node, NEW z \in Node, NEW d \in Side,
         Toward(Key[x], y) = d, Toward(Key[y], z) = d
  PROVE  Toward(Key[x], z) = d
<1>1. Key[x] \in Nat /\ Key[y] \in Nat /\ Key[z] \in Nat
  BY TreeAssumption
<1>2. QED
  BY <1>1 DEF Toward, Side, LEFT, RIGHT, HERE

LEMMA NoElements ==
  ASSUME NEW k
  PROVE  Elements(k, NULL) = {}
BY DEF Elements

LEMMA ElementsAreNodes ==
  ASSUME NEW k, NEW n
  PROVE  Elements(k, n) \subseteq Node
BY DEF Elements

(* n itself is there, and with a node its kids.                             *)
LEMMA ElementsClosed ==
  ASSUME NEW k \in Memory, NEW n \in Node
  PROVE  n \in Elements(k, n) /\ Closed(k, Elements(k, n))
<1>1. n # NULL
  BY SideFacts
<1>2. n \in Elements(k, n)
  BY <1>1 DEF Elements
<1>3. ASSUME NEW m \in Elements(k, n), NEW d \in Side, k[d][m] # NULL
      PROVE  k[d][m] \in Elements(k, n)
  <2>1. m \in Node /\ k[d][m] \in Node
    BY <1>3, <1>1, KidType DEF Elements, Pointer, Cell
  <2>2. ASSUME NEW S \in SUBSET Node, n \in S, Closed(k, S)
        PROVE  k[d][m] \in S
    BY <1>1, <1>3, <2>2 DEF Elements, Closed
  <2>3. QED
    BY <1>1, <2>1, <2>2 DEF Elements
<1>4. QED
  BY <1>2, <1>3 DEF Closed

(* ... and nothing else.                                                    *)
LEMMA ElementsLeast ==
  ASSUME NEW k, NEW n \in Node, NEW S \in SUBSET Node, n \in S, Closed(k, S)
  PROVE  Elements(k, n) \subseteq S
BY SideFacts DEF Elements

LEMMA ElementsBelow ==
  ASSUME NEW k \in Memory, NEW n \in Pointer, NEW m \in Elements(k, n)
  PROVE  /\ Elements(k, m) \subseteq Elements(k, n)
         /\ \A d \in Side : Elements(k, k[d][m]) \subseteq Elements(k, n)
<1>1. n \in Node /\ m \in Node
  BY NoElements, ElementsAreNodes DEF Pointer
<1>2. ASSUME NEW x \in Elements(k, n) PROVE Elements(k, x) \subseteq Elements(k, n)
  <2>1. x \in Node
    BY ElementsAreNodes
  <2>2. QED
    BY <1>1, <2>1, ElementsClosed, ElementsLeast, ElementsAreNodes
<1>3. ASSUME NEW d \in Side PROVE Elements(k, k[d][m]) \subseteq Elements(k, n)
  <2>1. k[d][m] \in Elements(k, n) \cup {NULL}
    BY <1>1, ElementsClosed DEF Closed
  <2>2. QED
    BY <2>1, <1>2, NoElements
<1>4. QED
  BY <1>2, <1>3

LEMMA ElementsUnfold ==
  ASSUME NEW k \in Memory, NEW n \in Node
  PROVE  Elements(k, n) = {n} \cup Elements(k, k[LEFT][n]) \cup Elements(k, k[RIGHT][n])
<1> DEFINE T == {n} \cup Elements(k, k[LEFT][n]) \cup Elements(k, k[RIGHT][n])
<1>1. T \subseteq Elements(k, n)
  BY ElementsBelow, ElementsClosed DEF Pointer, Side
<1>2. T \subseteq Node
  BY ElementsAreNodes
<1>3. ASSUME NEW m \in T, NEW d \in Side PROVE k[d][m] \in T \cup {NULL}
  <2>1. ASSUME NEW e \in Side, m \in Elements(k, k[e][n])
        PROVE  k[d][m] \in Elements(k, k[e][n]) \cup {NULL}
    <3>1. k[e][n] \in Node
      BY <2>1, NoElements, KidType DEF Pointer, Cell
    <3>2. QED
      BY <2>1, <3>1, ElementsClosed DEF Closed
  <2>2. ASSUME m = n PROVE k[d][m] \in T \cup {NULL}
    <3>1. k[d][n] \in Pointer
      BY KidType DEF Cell
    <3>2. k[d][n] \in Node => k[d][n] \in Elements(k, k[d][n])
      BY ElementsClosed
    <3>3. QED
      BY <2>2, <3>1, <3>2 DEF Pointer, Side
  <2>3. QED
    BY <1>3, <2>1, <2>2 DEF Side
<1>4. Elements(k, n) \subseteq T
  <2>1. Closed(k, T)
    BY <1>3 DEF Closed
  <2>2. QED
    BY <1>2, <2>1, ElementsLeast
<1>5. QED
  BY <1>1, <1>4

(* What is assigned elsewhere does not matter.                              *)
LEMMA ElementsFrame ==
  ASSUME NEW k \in Memory, NEW k2 \in Memory, NEW n \in Pointer,
         \A m \in Elements(k, n), d \in Side : k2[d][m] = k[d][m]
  PROVE  Elements(k2, n) = Elements(k, n)
<1>1. CASE n = NULL
  BY <1>1, NoElements
<1>2. CASE n \in Node
  <2> DEFINE A == Elements(k, n)
             B == Elements(k2, n)
  <2>1. n \in A /\ Closed(k, A) /\ n \in B /\ Closed(k2, B) /\ A \subseteq Node /\ B \subseteq Node
    BY <1>2, ElementsClosed, ElementsAreNodes
  <2>2. Closed(k2, A)
    BY <2>1 DEF Closed
  <2>3. B \subseteq A
    BY <1>2, <2>1, <2>2, ElementsLeast
  <2>4. Closed(k, B)
    BY <2>1, <2>3 DEF Closed
  <2>5. A \subseteq B
    BY <1>2, <2>1, <2>4, ElementsLeast
  <2>6. QED
    BY <2>3, <2>5
<1>3. QED
  BY <1>1, <1>2 DEF Pointer
-----------------------------------------------------------------------------
LEMMA NullTree ==
  ASSUME NEW k
  PROVE  SearchTree(k, NULL)
BY NoElements DEF SearchTree

LEMMA SubTree ==
  ASSUME NEW k \in Memory, NEW n \in Pointer, SearchTree(k, n), NEW m \in Elements(k, n)
  PROVE  /\ SearchTree(k, m)
         /\ \A d \in Side : SearchTree(k, k[d][m])
BY ElementsBelow DEF SearchTree

LEMMA SearchTreeFrame ==
  ASSUME NEW k \in Memory, NEW k2 \in Memory, NEW n \in Pointer,
         \A m \in Elements(k, n), d \in Side : k2[d][m] = k[d][m]
  PROVE  /\ Elements(k2, n) = Elements(k, n)
         /\ SearchTree(k, n) => SearchTree(k2, n)
<1>1. Elements(k2, n) = Elements(k, n)
  BY ElementsFrame
<1>2. ASSUME NEW m \in Elements(k, n), NEW d \in Side
      PROVE  k2[d][m] = k[d][m] /\ Elements(k2, k[d][m]) = Elements(k, k[d][m])
  <2>1. Elements(k, k[d][m]) \subseteq Elements(k, n)
    BY ElementsBelow
  <2>2. k[d][m] \in Pointer
    BY KidType, ElementsAreNodes DEF Cell
  <2>3. QED
    BY <2>1, <2>2, ElementsFrame
<1>3. QED
  BY <1>1, <1>2 DEF SearchTree

(* A node over two trees, each on its side of it.                           *)
LEMMA MakeTree ==
  ASSUME NEW k \in Memory, NEW n \in Node,
         \A d \in Side : /\ SearchTree(k, k[d][n])
                         /\ \A x \in Elements(k, k[d][n]) : Toward(Key[x], n) = d
  PROVE  SearchTree(k, n)
<1>1. SUFFICES ASSUME NEW m \in Elements(k, n), NEW d \in Side, NEW x \in Elements(k, k[d][m])
               PROVE  Toward(Key[x], m) = d
  BY DEF SearchTree
<1>2. m = n \/ \E e \in Side : m \in Elements(k, k[e][n])
  BY ElementsUnfold DEF Side
<1>3. QED
  BY <1>2 DEF SearchTree

LEMMA TreeAtRoot ==
  ASSUME NEW k \in Memory, NEW n \in Node, SearchTree(k, n), NEW d \in Side
  PROVE  /\ k[d][n] \in Pointer
         /\ SearchTree(k, k[d][n])
         /\ n \notin Elements(k, k[d][n])
         /\ \A x \in Elements(k, k[d][n]) : Toward(Key[x], n) = d
         /\ Elements(k, k[d][n]) \subseteq Elements(k, n)
<1>1. n \in Elements(k, n)
  BY ElementsClosed
<1>2. \A x \in Elements(k, k[d][n]) : Toward(Key[x], n) = d
  BY <1>1 DEF SearchTree
<1>3. n \notin Elements(k, k[d][n])
  BY <1>2, TowardFacts, SideFacts
<1>4. QED
  BY <1>1, <1>2, <1>3, SubTree, ElementsBelow, KidType DEF Pointer, Cell

(* Which side of the root an element is on says in which subtree it is.     *)
LEMMA SideOfRoot ==
  ASSUME NEW k \in Memory, NEW n \in Node, SearchTree(k, n), NEW x \in Elements(k, n)
  PROVE  /\ Toward(Key[x], n) = HERE <=> x = n
         /\ \A d \in Side : Toward(Key[x], n) = d <=> x \in Elements(k, k[d][n])
<1>1. x = n \/ \E d \in Side : x \in Elements(k, k[d][n])
  BY ElementsUnfold DEF Side
<1>2. \A d \in Side : \A y \in Elements(k, k[d][n]) : Toward(Key[y], n) = d
  BY TreeAtRoot
<1>3. Toward(Key[n], n) = HERE
  BY TowardFacts
<1>4. QED
  BY <1>1, <1>2, <1>3, SideFacts

(* A tree hung at a free place: where its keys belong, at the end of what   *)
(* is there on that side.                                                   *)
LEMMA Graft ==
  ASSUME NEW k \in Memory, NEW d \in Side, NEW n \in Node, NEW c \in Pointer,
         NEW last \in Elements(k, n), k[d][last] = NULL,
         SearchTree(k, n), SearchTree(k, c),
         \A m \in Elements(k, n) : /\ m = last \/ Toward(Key[last], m) = d
                                   /\ \A x \in Elements(k, c) : Toward(Key[x], m) = d
  PROVE  LET k2 == Put(k, d, last, c)
         IN  /\ k2 \in Memory
             /\ SearchTree(k2, n)
             /\ Elements(k2, n) = Elements(k, n) \cup Elements(k, c)
             /\ SearchTree(k2, c) /\ Elements(k2, c) = Elements(k, c)
<1> DEFINE k2 == Put(k, d, last, c)
           C  == Elements(k, c)
<1>1. last \in Node /\ last \in Cell /\ C \subseteq Node
  BY ElementsAreNodes DEF Cell
<1>2. /\ k2 \in Memory
      /\ \A e \in Side, m \in Cell : k2[e][m] = IF e = d /\ m = last THEN c ELSE k[e][m]
  <2>1. k2 \in Memory
    BY <1>1, PutType
  <2>2. QED
    BY <2>1, PutAt
<1>3. last \notin C
  BY <1>1, TowardFacts, SideFacts
<1>4. SearchTree(k2, c) /\ Elements(k2, c) = C
  <2>1. \A m \in C, e \in Side : k2[e][m] = k[e][m]
    BY <1>1, <1>2, <1>3 DEF Cell
  <2>2. QED
    BY <1>2, <2>1, SearchTreeFrame
<1>5. ASSUME NEW y \in Elements(k, n)
      PROVE  Elements(k2, y) = Elements(k, y) \cup (IF last \in Elements(k, y) THEN C ELSE {})
  <2> DEFINE Y == Elements(k, y)
             Z == Y \cup (IF last \in Y THEN C ELSE {})
  <2>1. y \in Node /\ y \in Y /\ Closed(k, Y) /\ Y \subseteq Node
    BY ElementsAreNodes, ElementsClosed
  <2>2. Closed(k2, Z)
    <3>1. SUFFICES ASSUME NEW m \in Z, NEW e \in Side PROVE k2[e][m] \in Z \cup {NULL}
      BY DEF Closed
    <3>2. ASSUME m \in C, c \in Node PROVE k[e][m] \in C \cup {NULL}
      BY <3>2, ElementsClosed DEF Closed
    <3>3. C # {} => c \in Node /\ c \in C
      BY NoElements, ElementsClosed DEF Pointer
    <3>4. c \in C \cup {NULL}
      BY <3>3, ElementsClosed DEF Pointer
    <3>5. m \in Cell
      BY <1>1, <2>1 DEF Cell
    <3>6. CASE m \in Y
      BY <3>6, <3>5, <3>4, <1>2, <2>1 DEF Closed
    <3>7. CASE m \in C /\ last \in Y
      BY <3>7, <3>5, <3>2, <3>3, <1>2, <1>3
    <3>8. QED
      BY <3>6, <3>7
  <2>3. Elements(k2, y) \subseteq Z
    BY <1>1, <1>2, <2>1, <2>2, ElementsLeast
  <2>4. Closed(k, Elements(k2, y))
    <3>1. Closed(k2, Elements(k2, y)) /\ Elements(k2, y) \subseteq Node
      BY <1>2, <2>1, ElementsClosed, ElementsAreNodes
    <3>2. QED
      BY <3>1, <1>2 DEF Closed, Cell
  <2>5. Y \subseteq Elements(k2, y)
    <3>1. y \in Elements(k2, y) /\ Elements(k2, y) \subseteq Node
      BY <1>2, <2>1, ElementsClosed, ElementsAreNodes
    <3>2. QED
      BY <3>1, <2>1, <2>4, ElementsLeast
  <2>6. last \in Y => C \subseteq Elements(k2, y)
    <3>1. SUFFICES ASSUME last \in Y PROVE C \subseteq Elements(k2, y)
      OBVIOUS
    <3>2. last \in Elements(k2, y)
      BY <2>5, <3>1
    <3>3. Elements(k2, k2[d][last]) \subseteq Elements(k2, y)
      BY <1>2, <2>1, <3>2, ElementsBelow DEF Pointer
    <3>4. QED
      BY <1>1, <1>2, <1>4, <3>3
  <2>7. QED
    BY <2>3, <2>5, <2>6
<1>6. Elements(k2, n) = Elements(k, n) \cup C
  BY <1>5, ElementsClosed
<1>7. SearchTree(k2, n)
  <2>1. SUFFICES ASSUME NEW m \in Elements(k2, n), NEW e \in Side,
                        NEW x \in Elements(k2, k2[e][m])
                 PROVE  Toward(Key[x], m) = e
    BY DEF SearchTree
  <2>2. CASE m \in C
    <3>1. m \in Elements(k2, c)
      BY <2>2, <1>4
    <3>2. QED
      BY <3>1, <1>4 DEF SearchTree
  <2>3. CASE m \in Elements(k, n) /\ e = d /\ m = last
    BY <2>3, <1>1, <1>2, <1>4
  <2>4. CASE m \in Elements(k, n) /\ ~(e = d /\ m = last)
    <3>1. m \in Cell /\ k2[e][m] = k[e][m]
      BY <2>4, <1>2, ElementsAreNodes DEF Cell
    <3>2. k[e][m] \in Elements(k, n) \cup {NULL}
      BY <2>4, ElementsClosed DEF Closed
    <3>3. k[e][m] \in Elements(k, n)
      BY <3>1, <3>2, NoElements
    <3>4. CASE x \in Elements(k, k[e][m])
      BY <2>4, <3>4 DEF SearchTree
    <3>5. CASE last \in Elements(k, k[e][m]) /\ x \in C
      <4>1. Toward(Key[last], m) = e
        BY <2>4, <3>5 DEF SearchTree
      <4>2. m # last
        BY <4>1, <1>1, TowardFacts, SideFacts
      <4>3. Toward(Key[last], m) = d /\ Toward(Key[x], m) = d
        BY <2>4, <3>5, <4>2
      <4>4. QED
        BY <4>1, <4>3
    <3>6. QED
      BY <3>1, <3>3, <3>4, <3>5, <1>5
  <2>5. QED
    BY <2>2, <2>3, <2>4, <1>6
<1>8. QED
  BY <1>2, <1>4, <1>6, <1>7
-----------------------------------------------------------------------------
(* A rotation, pointer by pointer.                                          *)
LEMMA RotateAt ==
  ASSUME NEW k \in Memory, NEW r \in Node, NEW d \in Side, k[d][r] \in Node
  PROVE  /\ Rotate(k, r, d) \in Memory
         /\ \A e \in Side, m \in Cell :
               Rotate(k, r, d)[e][m] = IF e = Opp(d) /\ m = k[d][r] THEN r
                                       ELSE IF e = d /\ m = r THEN k[Opp(d)][k[d][r]]
                                       ELSE k[e][m]
<1> DEFINE v  == k[Opp(d)][k[d][r]]
           k1 == Put(k, d, r, v)
<1>1. Opp(d) \in Side /\ r \in Cell /\ k[d][r] \in Cell /\ r \in Pointer
  BY SideFacts DEF Cell, Pointer
<1>2. v \in Pointer
  BY <1>1, KidType
<1>3. k1 \in Memory
  <2> HIDE DEF v
  <2>1. QED
    BY <1>1, <1>2, PutType
<1>4. \A e \in Side, m \in Cell : k1[e][m] = IF e = d /\ m = r THEN v ELSE k[e][m]
  <2> HIDE DEF v
  <2>1. QED
    BY PutAt
<1>5. Rotate(k, r, d) = Put(k1, Opp(d), k[d][r], r)
  BY DEF Rotate
<1> HIDE DEF k1, v
<1>6. Rotate(k, r, d) \in Memory
  BY <1>1, <1>3, <1>5, PutType
<1>7. \A e \in Side, m \in Cell :
         Rotate(k, r, d)[e][m] = IF e = Opp(d) /\ m = k[d][r] THEN r ELSE k1[e][m]
  BY <1>1, <1>3, <1>5, PutAt
<1>8. QED
  BY <1>4, <1>6, <1>7 DEF v

(* The kid on side d comes up, with all that is below it on that side.      *)
LEMMA RotateTree ==
  ASSUME NEW k \in Memory, NEW r \in Node, NEW d \in Side, k[d][r] \in Node,
         SearchTree(k, r)
  PROVE  LET c  == k[d][r]
             k2 == Rotate(k, r, d)
         IN  /\ k2 \in Memory /\ SearchTree(k2, c)
             /\ Elements(k2, c) = Elements(k, r)
             /\ r # c /\ k2[d][c] = k[d][c]
             /\ \A e \in Side, m \in Cell : m # r /\ m # c => k2[e][m] = k[e][m]
<1> DEFINE c  == k[d][r]
           k2 == Rotate(k, r, d)
           o  == Opp(d)
           A  == k[d][c]
           B  == k[o][c]
           D  == k[o][r]
<1>1. o \in Side /\ o # d /\ Opp(o) = d /\ \A e \in Side : e = d \/ e = o
  BY SideFacts
<1>2. /\ k2 \in Memory
      /\ \A e \in Side, m \in Cell :
            k2[e][m] = IF e = o /\ m = c THEN r ELSE IF e = d /\ m = r THEN B ELSE k[e][m]
  BY RotateAt
<1> HIDE DEF k2
<1>3. /\ c \in Elements(k, c) /\ r \notin Elements(k, c) /\ SearchTree(k, c)
      /\ \A x \in Elements(k, c) : Toward(Key[x], r) = d
  BY TreeAtRoot, ElementsClosed
<1>4. /\ D \in Pointer /\ SearchTree(k, D) /\ r \notin Elements(k, D)
      /\ \A x \in Elements(k, D) : Toward(Key[x], r) = o
  BY <1>1, TreeAtRoot
<1>5. /\ A \in Pointer /\ SearchTree(k, A) /\ c \notin Elements(k, A)
      /\ \A x \in Elements(k, A) : Toward(Key[x], c) = d
      /\ Elements(k, A) \subseteq Elements(k, c)
  BY <1>3, TreeAtRoot
<1>6. /\ B \in Pointer /\ SearchTree(k, B) /\ c \notin Elements(k, B)
      /\ \A x \in Elements(k, B) : Toward(Key[x], c) = o
      /\ Elements(k, B) \subseteq Elements(k, c)
  BY <1>1, <1>3, TreeAtRoot
<1>7. c # r /\ c \notin Elements(k, D)
  BY <1>1, <1>3, <1>4
<1> HIDE DEF c, o, A, B, D
<1>8. ASSUME NEW t \in {A, B, D}
      PROVE  SearchTree(k2, t) /\ Elements(k2, t) = Elements(k, t)
  <2>1. t \in Pointer /\ SearchTree(k, t) /\ r \notin Elements(k, t) /\ c \notin Elements(k, t)
    BY <1>3, <1>4, <1>5, <1>6, <1>7
  <2>2. \A m \in Elements(k, t), e \in Side : k2[e][m] = k[e][m]
    BY <1>2, <2>1, ElementsAreNodes DEF Cell
  <2>3. QED
    BY <1>2, <2>1, <2>2, SearchTreeFrame
<1>9. r \in Cell /\ c \in Cell /\ c \in Node
  BY DEF Cell, c
<1>10. k2[d][r] = B /\ k2[o][r] = D /\ k2[d][c] = A /\ k2[o][c] = r
  BY <1>1, <1>2, <1>7, <1>9 DEF A, B, D
<1>11. SearchTree(k2, r) /\ Elements(k2, r) = {r} \cup Elements(k, B) \cup Elements(k, D)
  <2>1. SearchTree(k2, r)
    BY <1>1, <1>2, <1>3, <1>4, <1>6, <1>8, <1>10, MakeTree
  <2>2. Elements(k2, r) = {r} \cup Elements(k2, k2[d][r]) \cup Elements(k2, k2[o][r])
    BY <1>1, <1>2, ElementsUnfold, SideFacts DEF o
  <2>3. QED
    BY <2>1, <2>2, <1>8, <1>10
<1>12. \A x \in Elements(k2, r) : Toward(Key[x], c) = o
  <2>1. Toward(Key[r], c) = o
    BY <1>1, <1>3, <1>9, TowardFacts DEF o
  <2>2. ASSUME NEW x \in Elements(k, D) PROVE Toward(Key[x], c) = o
    <3>1. x \in Node /\ Toward(Key[x], r) = o
      BY <1>4, ElementsAreNodes
    <3>2. QED
      BY <1>1, <1>9, <2>1, <3>1, TowardTransitive
  <2>3. QED
    BY <1>6, <1>11, <2>1, <2>2
<1>13. SearchTree(k2, c)
  BY <1>1, <1>2, <1>5, <1>8, <1>9, <1>10, <1>11, <1>12, MakeTree
<1>14. Elements(k2, c) = Elements(k, r)
  <2>1. Elements(k2, c) = {c} \cup Elements(k2, A) \cup Elements(k2, r)
    BY <1>1, <1>2, <1>9, <1>10, ElementsUnfold, SideFacts DEF o
  <2>2. Elements(k, r) = {r} \cup Elements(k, c) \cup Elements(k, D)
    BY <1>1, ElementsUnfold, SideFacts DEF o, c, D
  <2>3. Elements(k, c) = {c} \cup Elements(k, A) \cup Elements(k, B)
    BY <1>1, <1>9, ElementsUnfold, SideFacts DEF o, A, B
  <2>4. QED
    BY <2>1, <2>2, <2>3, <1>8, <1>11
<1>15. QED
  BY <1>2, <1>7, <1>9, <1>10, <1>13, <1>14 DEF A, B, D, c, k2
-----------------------------------------------------------------------------
(* What a red-black tree is, but for its colours.                           *)

In(t) == Elements(t.kid, t.root)

Typed(t) == t \in [root : Pointer, kid : Memory, parent : [Node -> Pointer], red : SUBSET Node]

(* From n down, a search tree whose parents lead back.                      *)
Rooted(t, n) ==
    /\ SearchTree(t.kid, n)
    /\ \A m \in Elements(t.kid, n), d \in Side :
          t.kid[d][m] # NULL => t.parent[t.kid[d][m]] = m

Good(t) == /\ Typed(t)
           /\ Rooted(t, t.root)
           /\ t.root # NULL => t.parent[t.root] = NULL

LEMMA TypedFacts ==
  ASSUME NEW t, Typed(t)
  PROVE  /\ t.root \in Pointer /\ t.kid \in Memory /\ t.parent \in [Node -> Pointer]
         /\ t.red \subseteq Node
         /\ \A n \in Node : /\ t.parent[n] \in Pointer /\ n \in Cell
                            /\ \A d \in Side : t.kid[d][n] \in Pointer
BY KidType DEF Typed, Cell

(* What is not on top hangs from something.                                 *)
LEMMA HasParent ==
  ASSUME NEW k \in Memory, NEW n \in Pointer, NEW z \in Elements(k, n), z # n
  PROVE  \E m \in Elements(k, n), d \in Side : k[d][m] = z
<1> DEFINE S == Elements(k, n) \ {z}
<1>1. n \in Node /\ Elements(k, n) \subseteq Node
  BY NoElements, ElementsAreNodes DEF Pointer
<1>2. n \in Elements(k, n) /\ Closed(k, Elements(k, n))
  BY <1>1, ElementsClosed
<1>3. SUFFICES ASSUME \A m \in Elements(k, n), d \in Side : k[d][m] # z
               PROVE  FALSE
  OBVIOUS
<1>4. Closed(k, S)
  BY <1>2, <1>3 DEF Closed
<1>5. Elements(k, n) \subseteq S
  BY <1>1, <1>2, <1>4, ElementsLeast
<1>6. QED
  BY <1>5

(* An element has one place in the tree.                                    *)
LEMMA OnePlace ==
  ASSUME NEW t, Good(t), NEW m \in In(t), NEW d \in Side, t.kid[d][m] # NULL
  PROVE  /\ t.kid[d][m] \in In(t) /\ t.kid[d][m] \in Node /\ t.kid[d][m] # m
         /\ t.parent[t.kid[d][m]] = m
         /\ SideOf(t, t.kid[d][m], m) = d
         /\ t.kid[d][m] # t.root
<1>1. /\ t.kid \in Memory /\ t.root \in Pointer /\ m \in Node /\ t.kid[d][m] \in Pointer
      /\ SearchTree(t.kid, t.root)
  BY TypedFacts, ElementsAreNodes DEF Good, Rooted, In
<1>2. t.kid[d][m] \in Node
  BY <1>1 DEF Pointer
<1>3. t.kid[d][m] \in Elements(t.kid, t.kid[d][m])
  BY <1>1, <1>2, ElementsClosed
<1>4. t.kid[d][m] \in In(t)
  BY <1>1, <1>3, ElementsBelow DEF In
<1>5. t.parent[t.kid[d][m]] = m
  BY DEF Good, Rooted, In
<1>6. ASSUME NEW e \in Side, t.kid[e][m] = t.kid[d][m] PROVE e = d
  <2>1. Toward(Key[t.kid[d][m]], m) = d /\ Toward(Key[t.kid[d][m]], m) = e
    BY <1>1, <1>3, <1>6 DEF SearchTree, In
  <2>2. QED
    BY <2>1
<1>7. SideOf(t, t.kid[d][m], m) = d
  BY <1>6, SideFacts DEF SideOf, Side
<1>8. t.kid[d][m] # m
  <2>1. SearchTree(t.kid, m)
    BY <1>1, SubTree DEF In
  <2>2. m \notin Elements(t.kid, t.kid[d][m])
    BY <1>1, <2>1, TreeAtRoot
  <2>3. QED
    BY <1>3, <2>2
<1>9. t.kid[d][m] # t.root
  <2>1. t.root \in Node
    BY <1>1, NoElements DEF In, Pointer
  <2>2. m # NULL
    BY <1>1, SideFacts
  <2>3. QED
    BY <1>5, <2>1, <2>2, SideFacts DEF Good
<1>10. QED
  BY <1>2, <1>4, <1>5, <1>7, <1>8, <1>9

(* ... where its parent says.                                               *)
LEMMA ParentOf ==
  ASSUME NEW t, Good(t), NEW z \in In(t)
  PROVE  /\ z \in Node /\ t.parent[z] \in Pointer
         /\ t.parent[z] = NULL <=> z = t.root
         /\ t.parent[z] # NULL =>
               /\ t.parent[z] \in In(t) /\ t.parent[z] \in Node
               /\ SideOf(t, z, t.parent[z]) \in Side
               /\ t.kid[SideOf(t, z, t.parent[z])][t.parent[z]] = z
<1>1. /\ t.kid \in Memory /\ t.root \in Pointer /\ z \in Node /\ t.parent[z] \in Pointer
      /\ SearchTree(t.kid, t.root) /\ z # NULL
  BY TypedFacts, ElementsAreNodes, SideFacts DEF Good, Rooted, In
<1>2. CASE z = t.root
  BY <1>1, <1>2 DEF Good
<1>3. CASE z # t.root
  <2>1. PICK m \in In(t), d \in Side : t.kid[d][m] = z
    BY <1>1, <1>3, HasParent DEF In
  <2>2. t.parent[z] = m /\ SideOf(t, z, m) = d
    BY <1>1, <2>1, OnePlace
  <2>3. m \in Node
    BY ElementsAreNodes DEF In
  <2>4. QED
    BY <1>1, <1>3, <2>1, <2>2, <2>3, SideFacts
<1>4. QED
  BY <1>2, <1>3

(* What is assigned elsewhere does not matter.                              *)
LEMMA RootedFrame ==
  ASSUME NEW t, NEW t2, Typed(t), Typed(t2), NEW n \in Pointer, Rooted(t, n),
         \A m \in Elements(t.kid, n) :
            /\ \A d \in Side : t2.kid[d][m] = t.kid[d][m]
            /\ m = n \/ t2.parent[m] = t.parent[m]
  PROVE  Rooted(t2, n) /\ Elements(t2.kid, n) = Elements(t.kid, n)
<1>1. t.kid \in Memory /\ t2.kid \in Memory /\ SearchTree(t.kid, n)
  BY TypedFacts DEF Rooted
<1>2. SearchTree(t2.kid, n) /\ Elements(t2.kid, n) = Elements(t.kid, n)
  BY <1>1, SearchTreeFrame
<1>3. ASSUME NEW m \in Elements(t2.kid, n), NEW d \in Side, t2.kid[d][m] # NULL
      PROVE  t2.parent[t2.kid[d][m]] = m
  <2> DEFINE v == t.kid[d][m]
  <2>1. m \in Elements(t.kid, n) /\ t2.kid[d][m] = v /\ v # NULL /\ m \in Node
    BY <1>2, <1>3, ElementsAreNodes
  <2>2. t.parent[v] = m
    BY <2>1 DEF Rooted
  <2>3. n \in Node /\ v \in Node
    BY <1>1, <2>1, NoElements, KidType DEF Pointer, Cell
  <2>4. v \in Elements(t.kid, v) /\ v \in Elements(t.kid, n)
    BY <1>1, <2>1, <2>3, ElementsBelow, ElementsClosed
  <2>5. v # n
    <3>1. CASE m = n
      BY <1>1, <2>3, <2>4, <3>1, TreeAtRoot
    <3>2. CASE m # n
      <4>1. PICK e \in Side : m \in Elements(t.kid, t.kid[e][n])
        BY <1>1, <2>1, <2>3, <3>2, ElementsUnfold, SideFacts
      <4>2. t.kid[e][n] \in Pointer /\ n \notin Elements(t.kid, t.kid[e][n])
        BY <1>1, <2>3, TreeAtRoot
      <4>3. v \in Elements(t.kid, t.kid[e][n])
        BY <1>1, <2>4, <4>1, <4>2, ElementsBelow
      <4>4. QED
        BY <4>2, <4>3
    <3>3. QED
      BY <3>1, <3>2
  <2>6. QED
    BY <2>1, <2>2, <2>4, <2>5
<1>4. QED
  BY <1>2, <1>3 DEF Rooted

LEMMA GoodBelow ==
  ASSUME NEW t, Good(t), NEW n \in In(t)
  PROVE  /\ n \in Node /\ Rooted(t, n) /\ Elements(t.kid, n) \subseteq In(t)
         /\ \A d \in Side : /\ Rooted(t, t.kid[d][n]) /\ t.kid[d][n] \in Pointer
                            /\ Elements(t.kid, t.kid[d][n]) \subseteq In(t)
                            /\ n \notin Elements(t.kid, t.kid[d][n])
                            /\ \A x \in Elements(t.kid, t.kid[d][n]) : Toward(Key[x], n) = d
<1>1. /\ t.kid \in Memory /\ t.root \in Pointer /\ n \in Node /\ SearchTree(t.kid, t.root)
      /\ \A m \in In(t), d \in Side : t.kid[d][m] # NULL => t.parent[t.kid[d][m]] = m
  BY TypedFacts, ElementsAreNodes DEF Good, Rooted, In
<1>2. /\ Elements(t.kid, n) \subseteq In(t) /\ SearchTree(t.kid, n)
      /\ \A d \in Side : Elements(t.kid, t.kid[d][n]) \subseteq In(t) /\ SearchTree(t.kid, t.kid[d][n])
  BY <1>1, ElementsBelow, SubTree DEF In
<1>3. \A d \in Side : /\ t.kid[d][n] \in Pointer
                      /\ n \notin Elements(t.kid, t.kid[d][n])
                      /\ \A x \in Elements(t.kid, t.kid[d][n]) : Toward(Key[x], n) = d
  BY <1>1, <1>2, TreeAtRoot
<1>4. QED
  BY <1>1, <1>2, <1>3 DEF Rooted
-----------------------------------------------------------------------------
(* x hangs on side s of p, or is the root.                                  *)
Place(t, x, p, s) == IF p = NULL THEN t.root = x
                     ELSE p \in In(t) /\ s \in Side /\ t.kid[s][p] = x

(* To get there, one goes to side d of m.                                   *)
Leads(t, m, d, p, s) == (m = p /\ d = s) \/ p \in Elements(t.kid, t.kid[d][m])

LEMMA PlaceApart ==
  ASSUME NEW t, Good(t), NEW x \in Pointer, NEW p \in Pointer, NEW s \in Side, Place(t, x, p, s)
  PROVE  /\ Elements(t.kid, x) \subseteq In(t)
         /\ p = NULL => In(t) = Elements(t.kid, x)
         /\ p # NULL => p \in In(t) /\ p \notin Elements(t.kid, x)
         /\ \A m \in In(t) \ Elements(t.kid, x), d \in Side :
               t.kid[d][m] \in Elements(t.kid, x) => m = p /\ d = s
<1> DEFINE X == Elements(t.kid, x)
<1>1. p = NULL => In(t) = X
  BY DEF Place, In
<1>2. p # NULL => p \in In(t) /\ X \subseteq In(t) /\ p \notin X
  BY GoodBelow DEF Place
<1>3. ASSUME NEW m \in In(t) \ X, NEW d \in Side, t.kid[d][m] \in X
      PROVE  m = p /\ d = s
  <2> DEFINE v == t.kid[d][m]
  <2>1. v \in Node /\ v # NULL
    BY <1>3, ElementsAreNodes, SideFacts
  <2>2. t.parent[v] = m /\ SideOf(t, v, m) = d /\ v # t.root
    BY <1>3, <2>1, OnePlace
  <2>3. v = x
    <3>1. SUFFICES ASSUME v # x PROVE FALSE
      OBVIOUS
    <3>2. t.kid \in Memory
      BY TypedFacts DEF Good
    <3>3. PICK n \in X, e \in Side : t.kid[e][n] = v
      BY <1>3, <3>1, <3>2, HasParent
    <3>4. n \in In(t)
      BY <1>1, <1>2
    <3>5. t.parent[v] = n
      BY <2>1, <3>3, <3>4, OnePlace
    <3>6. QED
      BY <1>3, <2>2, <3>5
  <2>4. p # NULL /\ p \in In(t) /\ t.kid[s][p] = v
    BY <2>2, <2>3 DEF Place
  <2>5. t.parent[v] = p /\ SideOf(t, v, p) = s
    BY <2>1, <2>4, OnePlace
  <2>6. QED
    BY <2>2, <2>5
<1>4. QED
  BY <1>1, <1>2, <1>3

(* In t2, the tree of y has the place of the tree of x.                     *)
Swapped(t, t2, x, y, p, s) ==
    /\ Place(t, x, p, s)
    /\ t2.root = IF p = NULL THEN y ELSE t.root
    /\ Rooted(t2, y)
    /\ y # NULL => t2.parent[y] = p
    /\ \A m \in In(t) \ Elements(t.kid, x) :
          /\ t2.parent[m] = t.parent[m]
          /\ \A d \in Side :
                /\ t2.kid[d][m] = IF m = p /\ d = s THEN y ELSE t.kid[d][m]
                /\ Leads(t, m, d, p, s) => \A z \in Elements(t2.kid, y) : Toward(Key[z], m) = d

LEMMA Replaced ==
  ASSUME NEW t, NEW t2, Good(t), Typed(t2), NEW x \in Pointer, NEW y \in Pointer,
         NEW p \in Pointer, NEW s \in Side, Swapped(t, t2, x, y, p, s)
  PROVE  /\ Good(t2)
         /\ In(t2) = (In(t) \ Elements(t.kid, x)) \cup Elements(t2.kid, y)
         /\ \A n \in In(t) \ Elements(t.kid, x) :
               Elements(t2.kid, n) = (Elements(t.kid, n) \ Elements(t.kid, x))
                                     \cup (IF p \in Elements(t.kid, n) THEN Elements(t2.kid, y) ELSE {})
<1> DEFINE k  == t.kid
           k2 == t2.kid
           X  == Elements(k, x)
           Y  == Elements(k2, y)
           R  == In(t) \ X
<1>1. /\ Place(t, x, p, s) /\ Rooted(t2, y)
      /\ t2.root = IF p = NULL THEN y ELSE t.root
      /\ y # NULL => t2.parent[y] = p
      /\ \A m \in R : t2.parent[m] = t.parent[m]
  BY DEF Swapped
<1>2. /\ k \in Memory /\ k2 \in Memory /\ t.root \in Pointer /\ t2.root \in Pointer
      /\ SearchTree(k, t.root) /\ SearchTree(k2, y)
  BY <1>1, TypedFacts DEF Good, Rooted
<1>3. /\ X \subseteq In(t) /\ In(t) \subseteq Node /\ Y \subseteq Node
      /\ p = NULL => In(t) = X
      /\ p # NULL => p \in R
      /\ \A m \in R, d \in Side : k[d][m] \in X => m = p /\ d = s
  <2>1. In(t) \subseteq Node /\ Y \subseteq Node
    BY ElementsAreNodes DEF In
  <2>2. QED
    BY <1>1, <2>1, PlaceApart
<1>4. \A m \in R, d \in Side : k2[d][m] = IF m = p /\ d = s THEN y ELSE k[d][m]
  BY DEF Swapped
<1>5. \A m \in R, d \in Side, z \in Y : Leads(t, m, d, p, s) => Toward(Key[z], m) = d
  BY DEF Swapped
<1>6. \A m \in R, d \in Side : k[d][m] \in In(t) \cup {NULL}
  <2>1. ASSUME NEW m \in In(t), NEW d \in Side PROVE k[d][m] \in In(t) \cup {NULL}
    BY <2>1, OnePlace
  <2>2. QED
    BY <2>1
<1>7. y \in Y \cup {NULL} /\ (y = NULL => Y = {})
  BY <1>2, NoElements, ElementsClosed DEF Pointer
<1>8. \A m \in Y, d \in Side : k2[d][m] \in Y \cup {NULL}
  BY <1>2, <1>7, ElementsClosed DEF Pointer, Closed
<1>9. ASSUME NEW n \in R
      PROVE  Elements(k2, n) = (Elements(k, n) \ X) \cup (IF p \in Elements(k, n) THEN Y ELSE {})
  <2> DEFINE N == Elements(k, n)
             M == Elements(k2, n)
             Z == (N \ X) \cup (IF p \in N THEN Y ELSE {})
  <2>1. n \in Node /\ n \in N /\ Closed(k, N) /\ n \in M /\ Closed(k2, M) /\ N \subseteq In(t)
    BY <1>2, <1>3, ElementsClosed, GoodBelow
  <2>2. Closed(k2, Z)
    <3>1. ASSUME NEW m \in N \ X, NEW d \in Side PROVE k2[d][m] \in Z \cup {NULL}
      <4>1. m \in R /\ k[d][m] \in N \cup {NULL}
        BY <2>1, <3>1 DEF Closed
      <4>2. CASE m = p /\ d = s
        BY <1>4, <1>7, <3>1, <4>1, <4>2
      <4>3. CASE ~(m = p /\ d = s)
        BY <1>3, <1>4, <4>1, <4>3
      <4>4. QED
        BY <4>2, <4>3
    <3>2. QED
      BY <1>8, <3>1 DEF Closed
  <2>3. M \subseteq Z
    BY <1>2, <1>3, <2>1, <2>2, ElementsLeast
  <2>4. N \ X \subseteq M
    <3> DEFINE S == (M \cap R) \cup X
    <3>1. Closed(k, S)
      <4>1. ASSUME NEW m \in M \cap R, NEW d \in Side, k[d][m] \notin X
            PROVE  k[d][m] \in S \cup {NULL}
        <5>1. k[d][m] \in R \cup {NULL}
          BY <1>6, <4>1
        <5>2. CASE m = p /\ d = s
          <6>1. k[d][m] = x
            BY <1>1, <1>3, <4>1, <5>2, SideFacts DEF Place
          <6>2. x = NULL
            BY <1>2, <4>1, <6>1, ElementsClosed DEF Pointer
          <6>3. QED
            BY <6>1, <6>2
        <5>3. CASE ~(m = p /\ d = s)
          <6>1. k2[d][m] = k[d][m]
            BY <1>4, <4>1, <5>3
          <6>2. k2[d][m] \in M \cup {NULL}
            BY <2>1, <4>1 DEF Closed
          <6>3. QED
            BY <5>1, <6>1, <6>2
        <5>4. QED
          BY <5>2, <5>3
      <4>2. \A m \in X, d \in Side : k[d][m] \in X \cup {NULL}
        BY <1>2, NoElements, ElementsClosed DEF Pointer, Closed
      <4>3. QED
        BY <4>1, <4>2 DEF Closed
    <3>2. N \subseteq S
      BY <1>2, <1>3, <2>1, <3>1, ElementsLeast
    <3>3. QED
      BY <3>2
  <2>5. p \in N => Y \subseteq M
    <3>1. SUFFICES ASSUME p \in N PROVE Y \subseteq M
      OBVIOUS
    <3>2. p \in R
      BY <1>3, <2>1, <3>1, SideFacts
    <3>3. p \in M /\ k2[s][p] = y
      BY <1>4, <2>4, <3>1, <3>2
    <3>4. QED
      BY <1>2, <2>1, <3>3, ElementsBelow DEF Pointer
  <2>6. QED
    BY <2>3, <2>4, <2>5
<1>10. In(t2) = R \cup Y
  <2>1. CASE p = NULL
    BY <1>1, <1>3, <2>1 DEF In
  <2>2. CASE p # NULL
    <3>1. t.root \in Node /\ t.root \in In(t)
      BY <1>2, <1>3, <2>2, NoElements, ElementsClosed DEF In, Pointer
    <3>2. t.root \notin X
      <4>1. SUFFICES ASSUME t.root \in X PROVE FALSE
        OBVIOUS
      <4>2. In(t) \subseteq X
        <5>1. x \in Pointer /\ k \in Memory
          BY <1>2
        <5>2. Elements(k, t.root) \subseteq Elements(k, x)
          BY <4>1, <5>1, ElementsBelow
        <5>3. QED
          BY <5>2 DEF In
      <4>3. QED
        BY <1>3, <2>2, <4>2
    <3>3. t2.root = t.root /\ p \in Elements(k, t.root)
      BY <1>1, <1>3, <2>2 DEF In
    <3>4. QED
      BY <1>9, <3>1, <3>2, <3>3 DEF In
  <2>3. QED
    BY <2>1, <2>2
<1>11. SearchTree(k2, t2.root)
  <2>1. SUFFICES ASSUME NEW m \in In(t2), NEW d \in Side, NEW z \in Elements(k2, k2[d][m])
                 PROVE  Toward(Key[z], m) = d
    BY DEF SearchTree, In
  <2>2. CASE m \in Y
    BY <1>2, <2>2 DEF SearchTree
  <2>3. CASE m \in R /\ m = p /\ d = s
    <3>1. z \in Y
      BY <1>4, <2>3
    <3>2. QED
      BY <1>5, <2>3, <3>1 DEF Leads
  <2>4. CASE m \in R /\ ~(m = p /\ d = s)
    <3>1. k2[d][m] = k[d][m] /\ k[d][m] \in R
      <4>1. k2[d][m] = k[d][m]
        BY <1>4, <2>4
      <4>2. k[d][m] # NULL
        BY <4>1, NoElements
      <4>3. QED
        BY <1>3, <1>6, <2>4, <4>1, <4>2
    <3>2. z \in Elements(k, k[d][m]) \/ (p \in Elements(k, k[d][m]) /\ z \in Y)
      BY <1>9, <3>1
    <3>3. CASE z \in Elements(k, k[d][m])
      BY <1>2, <2>4, <3>3 DEF SearchTree, In
    <3>4. CASE p \in Elements(k, k[d][m]) /\ z \in Y
      BY <1>5, <2>4, <3>4 DEF Leads
    <3>5. QED
      BY <3>2, <3>3, <3>4
  <2>5. QED
    BY <1>10, <2>2, <2>3, <2>4
<1>12. ASSUME NEW m \in In(t2), NEW d \in Side, k2[d][m] # NULL
       PROVE  t2.parent[k2[d][m]] = m
  <2>1. CASE m \in Y
    BY <1>1, <1>12, <2>1 DEF Rooted
  <2>2. CASE m \in R /\ m = p /\ d = s
    BY <1>1, <1>4, <1>12, <2>2
  <2>3. CASE m \in R /\ ~(m = p /\ d = s)
    <3>1. k2[d][m] = k[d][m] /\ k[d][m] \in R
      BY <1>3, <1>4, <1>6, <1>12, <2>3
    <3>2. t.parent[k[d][m]] = m
      BY <1>12, <2>3, <3>1, OnePlace
    <3>3. QED
      BY <1>1, <3>1, <3>2
  <2>4. QED
    BY <1>10, <2>1, <2>2, <2>3
<1>13. t2.root # NULL => t2.parent[t2.root] = NULL
  <2>1. CASE p = NULL
    BY <1>1, <2>1
  <2>2. CASE p # NULL
    <3>1. t.root \in Node /\ t.root \in In(t)
      BY <1>2, <1>3, <2>2, NoElements, ElementsClosed DEF In, Pointer
    <3>2. t.root \notin X
      <4>1. SUFFICES ASSUME t.root \in X PROVE FALSE
        OBVIOUS
      <4>2. Elements(k, t.root) \subseteq Elements(k, x)
        BY <1>2, <4>1, ElementsBelow
      <4>3. QED
        BY <1>3, <2>2, <4>2 DEF In
    <3>3. t2.parent[t.root] = t.parent[t.root]
      BY <1>1, <3>1, <3>2
    <3>4. QED
      BY <1>1, <2>2, <3>1, <3>3, SideFacts DEF Good
  <2>3. QED
    BY <2>1, <2>2
<1>14. Good(t2)
  BY <1>11, <1>12, <1>13 DEF Good, Rooted, In
<1>15. QED
  BY <1>9, <1>10, <1>14
-----------------------------------------------------------------------------
(* All elements below a place lie where it leads.                           *)
LEMMA LeadsBelow ==
  ASSUME NEW t, Good(t), NEW x \in Pointer, NEW p \in Pointer, NEW s \in Side, Place(t, x, p, s),
         NEW m \in In(t) \ Elements(t.kid, x), NEW d \in Side, Leads(t, m, d, p, s),
         NEW z \in Elements(t.kid, x)
  PROVE  Toward(Key[z], m) = d
<1>1. p # NULL /\ p \in In(t) /\ t.kid[s][p] = x
  <2>1. p # NULL
    BY PlaceApart
  <2>2. QED
    BY <2>1 DEF Place
<1>2. CASE m = p /\ d = s
  BY <1>1, <1>2, GoodBelow
<1>3. CASE p \in Elements(t.kid, t.kid[d][m])
  <2>1. t.kid \in Memory /\ t.kid[d][m] \in Pointer
    BY TypedFacts, GoodBelow DEF Good
  <2>2. z \in Elements(t.kid, t.kid[d][m])
    BY <1>1, <1>3, <2>1, ElementsBelow
  <2>3. QED
    BY <2>2, GoodBelow
<1>4. QED
  BY <1>2, <1>3 DEF Leads

LEMMA SetParentAt ==
  ASSUME NEW t, Typed(t), NEW n \in Pointer, NEW p \in Pointer
  PROVE  LET t2 == SetParent(t, n, p)
         IN  /\ Typed(t2) /\ t2.root = t.root /\ t2.kid = t.kid /\ t2.red = t.red
             /\ \A m \in Node : t2.parent[m] = IF m = n THEN p ELSE t.parent[m]
<1>1. CASE n = NULL
  BY <1>1, SideFacts DEF SetParent
<1>2. CASE n \in Node
  <2>1. SetParent(t, n, p) = [t EXCEPT !.parent[n] = p]
    BY <1>2, SideFacts DEF SetParent
  <2>2. QED
    BY <1>2, <2>1 DEF Typed
<1>3. QED
  BY <1>1, <1>2 DEF Pointer

LEMMA HangAt ==
  ASSUME NEW t, Typed(t), NEW p \in Pointer, NEW e, NEW new \in Pointer
  PROVE  LET t2 == Hang(t, p, e, new)
         IN  /\ Typed(t2) /\ t2.parent = t.parent /\ t2.red = t.red
             /\ t2.root = IF p = NULL THEN new ELSE t.root
             /\ \A m \in Node, f \in Side :
                   t2.kid[f][m] = IF m = p /\ f = SideOf(t, e, p) THEN new ELSE t.kid[f][m]
<1>1. CASE p = NULL
  BY <1>1, SideFacts DEF Hang, Typed
<1>2. CASE p \in Node
  <2> DEFINE s == SideOf(t, e, p)
             k == Put(t.kid, s, p, new)
  <2>1. s \in Side /\ p \in Cell /\ t.kid \in Memory /\ \A m \in Node : m \in Cell
    BY <1>2, SideFacts, TypedFacts DEF SideOf, Cell
  <2>2. k \in Memory
    BY <2>1, PutType
  <2>3. \A m \in Node, f \in Side : k[f][m] = IF f = s /\ m = p THEN new ELSE t.kid[f][m]
    <3> HIDE DEF s
    <3>1. QED
      BY <2>1, PutAt
  <2>4. Hang(t, p, e, new) = [t EXCEPT !.kid = k]
    BY <1>2, SideFacts DEF Hang
  <2> HIDE DEF k
  <2>5. QED
    BY <1>2, <2>2, <2>3, <2>4, SideFacts DEF Typed
<1>3. QED
  BY <1>1, <1>2 DEF Pointer

LEMMA SetKid ==
  ASSUME NEW t, Typed(t), NEW k \in Memory
  PROVE  LET t2 == [t EXCEPT !.kid = k]
         IN  Typed(t2) /\ t2.kid = k /\ t2.root = t.root /\ t2.parent = t.parent /\ t2.red = t.red
BY DEF Typed

(* A rotation, pointer by pointer.                                          *)
LEMMA RbRotateAt ==
  ASSUME NEW t, Typed(t), NEW e \in Node, NEW d \in Side, t.kid[d][e] \in Node,
         t.parent[e] # e, t.parent[e] # t.kid[d][e]
  PROVE  LET c     == t.kid[d][e]
             inner == t.kid[Opp(d)][c]
             p     == t.parent[e]
             t2    == RbRotate(t, e, d)
         IN  /\ Typed(t2) /\ t2.red = t.red
             /\ t2.root = IF p = NULL THEN c ELSE t.root
             /\ \A m \in Node :
                  /\ t2.parent[m] = IF m = e THEN c ELSE IF m = c THEN p
                                    ELSE IF m = inner THEN e ELSE t.parent[m]
                  /\ \A f \in Side :
                        t2.kid[f][m] = IF m = c /\ f = Opp(d) THEN e
                                       ELSE IF m = e /\ f = d THEN inner
                                       ELSE IF m = p /\ f = SideOf(t, e, p) THEN c
                                       ELSE t.kid[f][m]
<1> DEFINE c     == t.kid[d][e]
           inner == t.kid[Opp(d)][c]
           p     == t.parent[e]
           k     == Rotate(t.kid, e, d)
           t1    == [t EXCEPT !.kid = k]
           t2    == SetParent(t1, inner, e)
           t3    == SetParent(t2, c, p)
           t4    == Hang(t3, p, e, c)
           t5    == SetParent(t4, e, c)
<1>1. /\ t.kid \in Memory /\ p \in Pointer /\ inner \in Pointer /\ e \in Pointer /\ c \in Pointer
      /\ \A m \in Node : m \in Cell
  BY SideFacts, TypedFacts DEF Pointer
<1>2. /\ k \in Memory
      /\ \A f \in Side, m \in Node :
            k[f][m] = IF f = Opp(d) /\ m = c THEN e ELSE IF f = d /\ m = e THEN inner
                      ELSE t.kid[f][m]
  BY <1>1, RotateAt
<1>3. RbRotate(t, e, d) = t5
  BY DEF RbRotate
<1> HIDE DEF k
<1>4. Typed(t1) /\ t1.kid = k /\ t1.root = t.root /\ t1.parent = t.parent /\ t1.red = t.red
  BY <1>2, SetKid
<1> HIDE DEF t1, c, inner, p
<1>5. /\ Typed(t2) /\ t2.kid = k /\ t2.root = t.root /\ t2.red = t.red
      /\ \A m \in Node : t2.parent[m] = IF m = inner THEN e ELSE t.parent[m]
  <2>1. inner \in Pointer /\ e \in Pointer /\ Typed(t1)
    BY <1>1, <1>4
  <2>2. /\ Typed(t2) /\ t2.kid = t1.kid /\ t2.root = t1.root /\ t2.red = t1.red
        /\ \A m \in Node : t2.parent[m] = IF m = inner THEN e ELSE t1.parent[m]
    BY <2>1, SetParentAt
  <2>3. QED
    BY <1>4, <2>2
<1> HIDE DEF t2
<1>6. /\ Typed(t3) /\ t3.kid = k /\ t3.root = t.root /\ t3.red = t.red
      /\ \A m \in Node : t3.parent[m] = IF m = c THEN p ELSE t2.parent[m]
  <2>1. /\ Typed(t3) /\ t3.kid = t2.kid /\ t3.root = t2.root /\ t3.red = t2.red
        /\ \A m \in Node : t3.parent[m] = IF m = c THEN p ELSE t2.parent[m]
    <3>1. c \in Pointer /\ p \in Pointer /\ Typed(t2)
      BY <1>1, <1>5
    <3>2. QED
      BY <3>1, SetParentAt
  <2>2. QED
    BY <1>5, <2>1
<1> HIDE DEF t3
<1>7. /\ Typed(t4) /\ t4.parent = t3.parent /\ t4.red = t.red
      /\ t4.root = IF p = NULL THEN c ELSE t.root
      /\ \A m \in Node, f \in Side :
            t4.kid[f][m] = IF m = p /\ f = SideOf(t3, e, p) THEN c ELSE k[f][m]
  BY <1>1, <1>6, HangAt
<1> HIDE DEF t4
<1>8. /\ Typed(t5) /\ t5.root = t4.root /\ t5.kid = t4.kid /\ t5.red = t4.red
      /\ \A m \in Node : t5.parent[m] = IF m = e THEN c ELSE t4.parent[m]
  <2> HIDE DEF t5
  <2>1. c \in Pointer /\ e \in Pointer /\ Typed(t4) /\ t5 = SetParent(t4, e, c)
    BY <1>1, <1>7 DEF t5
  <2>2. QED
    BY <2>1, SetParentAt
<1> HIDE DEF t5
<1>9. p # e /\ p # c
  BY DEF p, c
<1>10. p \in Node => SideOf(t3, e, p) = SideOf(t, e, p)
  <2>1. p \in Node => t3.kid[LEFT][p] = t.kid[LEFT][p]
    BY <1>2, <1>6, <1>9, SideFacts
  <2>2. QED
    BY <2>1 DEF SideOf
<1>11. ASSUME NEW m \in Node
       PROVE  t5.parent[m] = IF m = e THEN c ELSE IF m = c THEN p
                             ELSE IF m = inner THEN e ELSE t.parent[m]
  BY <1>5, <1>6, <1>7, <1>8
<1>12. ASSUME NEW m \in Node, NEW f \in Side
       PROVE  t5.kid[f][m] = IF m = c /\ f = Opp(d) THEN e
                             ELSE IF m = e /\ f = d THEN inner
                             ELSE IF m = p /\ f = SideOf(t, e, p) THEN c
                             ELSE t.kid[f][m]
  <2>1. t5.kid[f][m] = IF m = p /\ f = SideOf(t, e, p) THEN c ELSE k[f][m]
    BY <1>7, <1>8, <1>10
  <2>2. QED
    BY <1>2, <1>9, <2>1
<1>13. QED
  BY <1>3, <1>7, <1>8, <1>11, <1>12 DEF c, inner, p

(* A red-black tree with the same elements, e below what was its kid.       *)
LEMMA RbRotated ==
  ASSUME NEW t, Good(t), NEW e \in In(t), NEW d \in Side, t.kid[d][e] # NULL
  PROVE  LET c     == t.kid[d][e]
             inner == t.kid[Opp(d)][c]
             p     == t.parent[e]
             s     == SideOf(t, e, p)
             t2    == RbRotate(t, e, d)
         IN  /\ Good(t2) /\ In(t2) = In(t) /\ t2.red = t.red
             /\ c \in In(t) /\ c \in Node /\ c # e /\ p # e /\ p # c
             /\ p # NULL => p \in In(t) /\ s \in Side /\ t.kid[s][p] = e
             /\ t2.root = IF p = NULL THEN c ELSE t.root
             /\ t2.parent[e] = c /\ t2.parent[c] = p
             /\ \A m \in In(t), f \in Side :
                   t2.kid[f][m] = IF m = c /\ f = Opp(d) THEN e
                                  ELSE IF m = e /\ f = d THEN inner
                                  ELSE IF m = p /\ f = s THEN c
                                  ELSE t.kid[f][m]
<1> DEFINE c     == t.kid[d][e]
           o     == Opp(d)
           inner == t.kid[o][c]
           p     == t.parent[e]
           s     == SideOf(t, e, p)
           t2    == RbRotate(t, e, d)
           X     == Elements(t.kid, e)
<1>1. /\ Typed(t) /\ t.kid \in Memory /\ e \in Node /\ e \in Pointer /\ SearchTree(t.kid, e)
      /\ In(t) \subseteq Node /\ o \in Side /\ o # d /\ \A f \in Side : f = d \/ f = o
  BY TypedFacts, GoodBelow, ElementsAreNodes, SideFacts DEF Good, Rooted, In, Pointer
<1>2. c \in In(t) /\ c \in Node /\ c # e /\ t.parent[c] = e /\ SideOf(t, c, e) = d
  BY OnePlace
<1>3. /\ p \in Pointer /\ (p = NULL <=> e = t.root)
      /\ p # NULL => p \in In(t) /\ s \in Side /\ t.kid[s][p] = e
  BY ParentOf
<1>4. c \in X /\ e \in X /\ X \subseteq In(t)
  BY <1>1, <1>2, ElementsClosed, GoodBelow DEF Closed
<1>5. PICK side \in Side : /\ Place(t, e, p, side) /\ (p # NULL => side = s)
                           /\ p \notin X
  <2>1. PICK side \in Side : (p # NULL => side = s)
    BY <1>3, SideFacts
  <2>2. Place(t, e, p, side)
    BY <1>3, <2>1 DEF Place
  <2>3. p # NULL => p \notin X
    BY <1>1, <1>3, <2>2, PlaceApart
  <2>4. NULL \notin X
    BY <1>1, <1>4, SideFacts
  <2>5. QED
    BY <2>1, <2>2, <2>3, <2>4
<1>6. p # e /\ p # c
  BY <1>4, <1>5
<1>7. /\ Typed(t2) /\ t2.red = t.red
      /\ t2.root = IF p = NULL THEN c ELSE t.root
      /\ \A m \in Node :
           /\ t2.parent[m] = IF m = e THEN c ELSE IF m = c THEN p
                             ELSE IF m = inner THEN e ELSE t.parent[m]
           /\ \A f \in Side :
                 t2.kid[f][m] = IF m = c /\ f = o THEN e
                                ELSE IF m = e /\ f = d THEN inner
                                ELSE IF m = p /\ f = s THEN c
                                ELSE t.kid[f][m]
  BY <1>1, <1>2, <1>6, RbRotateAt
<1> HIDE DEF t2
<1>8. inner # NULL => /\ inner \in Node /\ inner # c /\ inner # e /\ t.parent[inner] = c
                      /\ SideOf(t, inner, c) = o
  <2>1. inner # NULL => /\ inner \in Node /\ inner # c /\ t.parent[inner] = c
                        /\ SideOf(t, inner, c) = o
    BY <1>1, <1>2, OnePlace
  <2>2. QED
    BY <1>6, <2>1
<1> DEFINE k == Rotate(t.kid, e, d)
<1>9. /\ k \in Memory /\ SearchTree(k, c) /\ Elements(k, c) = X
  BY <1>1, <1>2, RotateTree
<1>10. \A m \in X, f \in Side : t2.kid[f][m] = k[f][m]
  <2>1. \A f \in Side, m \in Cell :
           k[f][m] = IF f = o /\ m = c THEN e ELSE IF f = d /\ m = e THEN inner
                     ELSE t.kid[f][m]
    BY <1>1, <1>2, RotateAt
  <2>2. \A m \in X : m \in Node /\ m \in Cell /\ m # p
    BY <1>1, <1>4, <1>5 DEF Cell
  <2> HIDE DEF k
  <2>3. QED
    BY <1>7, <2>1, <2>2
<1> HIDE DEF k
<1>11. SearchTree(t2.kid, c) /\ Elements(t2.kid, c) = X
  <2>1. t2.kid \in Memory /\ c \in Pointer
    BY <1>2, <1>7, TypedFacts DEF Pointer
  <2>2. QED
    BY <1>9, <1>10, <2>1, SearchTreeFrame
<1>12. ASSUME NEW m \in X, NEW f \in Side, t2.kid[f][m] # NULL
       PROVE  t2.parent[t2.kid[f][m]] = m
  <2>1. m \in Node /\ m \in In(t) /\ m # p
    BY <1>1, <1>4, <1>5
  <2>2. CASE m = c /\ f = o
    BY <1>1, <1>7, <2>1, <2>2
  <2>3. CASE m = e /\ f = d
    <3>1. t2.kid[f][m] = inner
      BY <1>2, <1>7, <2>1, <2>3
    <3>2. QED
      BY <1>7, <1>8, <1>12, <2>3, <3>1
  <2>4. CASE ~(m = c /\ f = o) /\ ~(m = e /\ f = d)
    <3> DEFINE v == t.kid[f][m]
    <3>1. t2.kid[f][m] = v
      BY <1>7, <2>1, <2>4
    <3>2. v \in Node /\ t.parent[v] = m /\ SideOf(t, v, m) = f
      BY <1>12, <2>1, <3>1, OnePlace
    <3>3. v # e
      BY <2>1, <3>2
    <3>4. v # c
      BY <1>2, <2>4, <3>2
    <3>5. v # inner
      BY <1>8, <2>4, <3>2, SideFacts
    <3>6. QED
      BY <1>7, <3>1, <3>2, <3>3, <3>4, <3>5
  <2>5. QED
    BY <2>2, <2>3, <2>4
<1>13. Rooted(t2, c)
  BY <1>11, <1>12 DEF Rooted
<1>14. ASSUME NEW m \in In(t) \ X
       PROVE  /\ t2.parent[m] = t.parent[m]
              /\ \A f \in Side : /\ t2.kid[f][m] = IF m = p /\ f = side THEN c ELSE t.kid[f][m]
                                 /\ Leads(t, m, f, p, side) =>
                                       \A z \in Elements(t2.kid, c) : Toward(Key[z], m) = f
  <2>1. m \in Node /\ m # e /\ m # c
    BY <1>1, <1>4
  <2>2. inner \in X \cup {NULL}
    BY <1>1, <1>4, ElementsClosed DEF Closed
  <2>3. m # inner
    BY <2>1, <2>2, SideFacts
  <2>4. \A f \in Side : t2.kid[f][m] = IF m = p /\ f = side THEN c ELSE t.kid[f][m]
    BY <1>5, <1>7, <2>1, SideFacts
  <2>5. \A f \in Side : Leads(t, m, f, p, side) =>
                           \A z \in Elements(t2.kid, c) : Toward(Key[z], m) = f
    BY <1>1, <1>3, <1>5, <1>11, LeadsBelow
  <2>6. QED
    BY <1>7, <2>1, <2>3, <2>4, <2>5
<1>15. t2.parent[c] = p /\ t2.parent[e] = c
  BY <1>1, <1>2, <1>7
<1>16. Good(t2) /\ In(t2) = (In(t) \ X) \cup X
  <2>1. c \in Pointer /\ side \in Side
    BY <1>2 DEF Pointer
  <2> HIDE DEF c, s, inner
  <2>2. Good(t2) /\ In(t2) = (In(t) \ X) \cup Elements(t2.kid, c)
    <3>1. Swapped(t, t2, e, c, p, side)
      BY <1>1, <1>3, <1>5, <1>7, <1>13, <1>14, <1>15 DEF Swapped
    <3>2. QED
      BY <1>1, <1>3, <1>7, <2>1, <3>1, Replaced
  <2>3. QED
    BY <1>11, <2>2
<1>17. In(t2) = In(t)
  BY <1>4, <1>16
<1>18. \A m \in In(t), f \in Side :
          t2.kid[f][m] = IF m = c /\ f = o THEN e
                         ELSE IF m = e /\ f = d THEN inner
                         ELSE IF m = p /\ f = s THEN c
                         ELSE t.kid[f][m]
  BY <1>1, <1>7
<1>19. QED
  BY <1>2, <1>3, <1>6, <1>7, <1>15, <1>16, <1>17, <1>18 DEF t2
-----------------------------------------------------------------------------
(* An element that is not there yet, below the place where a search for it  *)
(* ends.                                                                    *)
LEMMA Attached ==
  ASSUME NEW t, Good(t), NEW e \in Node, e \notin In(t), NEW p \in Pointer, NEW s \in Side,
         Place(t, NULL, p, s), p # NULL => s = Toward(Key[e], p),
         \A m \in In(t), d \in Side : Leads(t, m, d, p, s) => Toward(Key[e], m) = d
  PROVE  LET t2 == Attach(t, e, p)
         IN  /\ Good(t2) /\ In(t2) = In(t) \cup {e} /\ t2.red = t.red \cup {e}
             /\ t2.root = IF p = NULL THEN e ELSE t.root
             /\ t2.parent[e] = p
             /\ \A d \in Side : t2.kid[d][e] = NULL
             /\ \A m \in In(t), d \in Side :
                   t2.kid[d][m] = IF m = p /\ d = s THEN e ELSE t.kid[d][m]
<1> DEFINE t2   == Attach(t, e, p)
           k    == PutBoth(t.kid, e, NULL, NULL)
           k2   == IF p = NULL THEN k ELSE Put(k, s, p, e)
<1>1. /\ Typed(t) /\ t.kid \in Memory /\ t.parent \in [Node -> Pointer]
      /\ In(t) \subseteq Node /\ NULL \in Pointer /\ e \in Pointer /\ e \in Cell
      /\ \A m \in Node : m \in Cell
  BY TypedFacts, ElementsAreNodes DEF Good, In, Pointer
<1>2. p # e
  BY <1>1, SideFacts DEF Place
<1>3. k \in Memory /\ \A m \in Cell, d \in Side : k[d][m] = IF m = e THEN NULL ELSE t.kid[d][m]
  <2>1. k \in Memory
    BY <1>1, PutBothType
  <2>2. ASSUME NEW m \in Cell, NEW d \in Side PROVE k[d][m] = IF m = e THEN NULL ELSE t.kid[d][m]
    BY <1>1, PutBothAt
  <2>3. QED
    BY <2>1, <2>2
<1> HIDE DEF k
<1>4. /\ k2 \in Memory
      /\ \A m \in Node, d \in Side :
            k2[d][m] = IF m = p /\ d = s THEN e ELSE IF m = e THEN NULL ELSE t.kid[d][m]
  <2>1. CASE p = NULL
    BY <1>1, <1>3, <2>1, SideFacts
  <2>2. CASE p # NULL
    <3>1. p \in Cell
      BY <1>1, <2>2 DEF Pointer
    <3>2. k2 = Put(k, s, p, e)
      BY <2>2
    <3>3. k2 \in Memory
      BY <1>1, <1>3, <3>1, <3>2, PutType
    <3>4. \A m \in Cell, d \in Side : k2[d][m] = IF d = s /\ m = p THEN e ELSE k[d][m]
      BY <1>3, <3>2, PutAt
    <3>5. QED
      BY <1>1, <1>2, <1>3, <3>3, <3>4
  <2>3. QED
    BY <2>1, <2>2
<1>5. t2 = [root   |-> IF p = NULL THEN e ELSE t.root,
            kid    |-> k2,
            parent |-> [t.parent EXCEPT ![e] = p],
            red    |-> t.red \cup {e}]
  <2>1. CASE p = NULL
    BY <1>1, <2>1 DEF Attach, Typed, k
  <2>2. CASE p # NULL
    BY <1>1, <2>2 DEF Attach, Typed, k
  <2>3. QED
    BY <2>1, <2>2
<1> HIDE DEF k2, t2
<1>6. /\ Typed(t2) /\ t2.red = t.red \cup {e} /\ t2.root = (IF p = NULL THEN e ELSE t.root)
      /\ t2.kid = k2
      /\ \A m \in Node : t2.parent[m] = IF m = e THEN p ELSE t.parent[m]
  BY <1>1, <1>4, <1>5 DEF Typed, Pointer
<1>7. Elements(t.kid, NULL) = {}
  BY NoElements
<1>8. \A d \in Side : t2.kid[d][e] = NULL
  BY <1>2, <1>4, <1>6
<1>9. Elements(t2.kid, e) = {e} /\ Rooted(t2, e)
  <2>1. t2.kid \in Memory
    BY <1>4, <1>6
  <2>2. Elements(t2.kid, e) = {e}
    BY <1>8, <2>1, NoElements, ElementsUnfold, SideFacts
  <2>3. SearchTree(t2.kid, e)
    BY <1>8, <2>2, NoElements DEF SearchTree
  <2>4. QED
    BY <1>8, <2>2, <2>3 DEF Rooted
<1>10. ASSUME NEW m \in In(t) \ Elements(t.kid, NULL)
       PROVE  /\ t2.parent[m] = t.parent[m]
              /\ \A d \in Side :
                    /\ t2.kid[d][m] = IF m = p /\ d = s THEN e ELSE t.kid[d][m]
                    /\ Leads(t, m, d, p, s) => \A z \in Elements(t2.kid, e) : Toward(Key[z], m) = d
  BY <1>1, <1>4, <1>6, <1>9
<1>11. e # NULL => t2.parent[e] = p
  BY <1>6
<1>12. Good(t2) /\ In(t2) = (In(t) \ Elements(t.kid, NULL)) \cup Elements(t2.kid, e)
  <2>1. Swapped(t, t2, NULL, e, p, s)
    BY <1>6, <1>9, <1>10, <1>11 DEF Swapped
  <2>2. QED
    BY <1>1, <1>6, <2>1, Replaced
<1>13. QED
  BY <1>1, <1>6, <1>7, <1>8, <1>9, <1>10, <1>12 DEF t2

(* An element with one kid at most gives its place to that.                 *)
LEMMA Unlinked ==
  ASSUME NEW t, Good(t), NEW e \in In(t), NEW f \in Side, t.kid[Opp(f)][e] = NULL
  PROVE  LET child == t.kid[f][e]
             p     == t.parent[e]
             s     == SideOf(t, e, p)
             t2    == Unlink(t, e, child)
         IN  /\ Good(t2) /\ In(t2) = In(t) \ {e} /\ t2.red = t.red
             /\ child \in Pointer /\ child # e /\ p # e
             /\ child # NULL => child \in In(t2)
             /\ p # NULL => p \in In(t2) /\ s \in Side /\ t.kid[s][p] = e
             /\ t2.root = IF p = NULL THEN child ELSE t.root
             /\ \A m \in In(t2), d \in Side :
                   t2.kid[d][m] = IF m = p /\ d = s THEN child ELSE t.kid[d][m]
             /\ \A m \in Node : t2.parent[m] = IF m = child THEN p ELSE t.parent[m]
             /\ \A n \in In(t) : n # e /\ e \in Elements(t.kid, n) =>
                   Elements(t2.kid, n) = Elements(t.kid, n) \ {e}
<1> DEFINE child == t.kid[f][e]
           p     == t.parent[e]
           s     == SideOf(t, e, p)
           t1    == SetParent(t, child, p)
           t2    == Unlink(t, e, child)
           X     == Elements(t.kid, e)
           Y     == Elements(t.kid, child)
<1>1. /\ Typed(t) /\ t.kid \in Memory /\ e \in Node /\ e \in Pointer /\ In(t) \subseteq Node
      /\ child \in Pointer /\ Rooted(t, child) /\ Y \subseteq In(t) /\ e \notin Y
      /\ X \subseteq In(t)
  BY TypedFacts, GoodBelow, ElementsAreNodes DEF Good, In, Pointer
<1>2. child # NULL => child \in In(t) /\ child # e /\ t.parent[child] = e
  BY OnePlace
<1>3. /\ p \in Pointer /\ (p = NULL <=> e = t.root)
      /\ p # NULL => p \in In(t) /\ s \in Side /\ t.kid[s][p] = e
  BY ParentOf
<1>4. X = {e} \cup Y
  <2>1. X = {e} \cup Elements(t.kid, t.kid[LEFT][e]) \cup Elements(t.kid, t.kid[RIGHT][e])
    BY <1>1, ElementsUnfold
  <2>2. QED
    BY <2>1, NoElements, SideFacts
<1>5. PICK side \in Side : Place(t, e, p, side) /\ (p # NULL => side = s)
  BY <1>3, SideFacts DEF Place
<1>6. p \notin X
  <2>1. p # NULL => p \notin X
    BY <1>1, <1>3, <1>5, PlaceApart
  <2>2. NULL \notin X
    BY <1>1, SideFacts
  <2>3. QED
    BY <2>1, <2>2
<1>7. t2 = Hang(t1, p, e, child)
  BY DEF Unlink
<1>8. /\ Typed(t1) /\ t1.root = t.root /\ t1.kid = t.kid /\ t1.red = t.red
      /\ \A m \in Node : t1.parent[m] = IF m = child THEN p ELSE t.parent[m]
  <2> HIDE DEF child, p
  <2>1. QED
    BY <1>1, <1>3, SetParentAt
<1> HIDE DEF t1, t2
<1>9. /\ Typed(t2) /\ t2.parent = t1.parent /\ t2.red = t1.red
      /\ t2.root = (IF p = NULL THEN child ELSE t1.root)
      /\ \A m \in Node, d \in Side :
            t2.kid[d][m] = IF m = p /\ d = SideOf(t1, e, p) THEN child ELSE t1.kid[d][m]
  <2> HIDE DEF p, child
  <2>1. QED
    BY <1>1, <1>3, <1>7, <1>8, HangAt
<1>10. SideOf(t1, e, p) = s
  BY <1>8 DEF SideOf
<1>11. /\ t2.red = t.red /\ t2.root = (IF p = NULL THEN child ELSE t.root)
       /\ \A m \in Node : /\ t2.parent[m] = IF m = child THEN p ELSE t.parent[m]
                          /\ \A d \in Side :
                                t2.kid[d][m] = IF m = p /\ d = s THEN child ELSE t.kid[d][m]
  BY <1>8, <1>9, <1>10
<1>12. Rooted(t2, child) /\ Elements(t2.kid, child) = Y
  <2>1. \A m \in Y : /\ \A d \in Side : t2.kid[d][m] = t.kid[d][m]
                     /\ m = child \/ t2.parent[m] = t.parent[m]
    BY <1>1, <1>4, <1>6, <1>11
  <2> HIDE DEF child
  <2>2. QED
    BY <1>1, <1>9, <2>1, RootedFrame
<1>13. ASSUME NEW m \in In(t) \ X
       PROVE  /\ t2.parent[m] = t.parent[m]
              /\ \A d \in Side :
                    /\ t2.kid[d][m] = IF m = p /\ d = side THEN child ELSE t.kid[d][m]
                    /\ Leads(t, m, d, p, side) =>
                          \A z \in Elements(t2.kid, child) : Toward(Key[z], m) = d
  <2>1. m \in Node /\ (child # NULL => child \in X)
    BY <1>1, <1>2, <1>4, ElementsClosed DEF Pointer
  <2>2. m # child
    BY <2>1, SideFacts
  <2>3. \A d \in Side : t2.kid[d][m] = IF m = p /\ d = side THEN child ELSE t.kid[d][m]
    BY <1>5, <1>11, <2>1, SideFacts
  <2>4. \A d \in Side : Leads(t, m, d, p, side) =>
                           \A z \in Elements(t2.kid, child) : Toward(Key[z], m) = d
    BY <1>1, <1>3, <1>4, <1>5, <1>12, LeadsBelow
  <2>5. QED
    BY <1>11, <2>1, <2>2, <2>3, <2>4
<1>14. child # NULL => t2.parent[child] = p
  BY <1>1, <1>2, <1>11
<1>15. /\ Good(t2) /\ In(t2) = (In(t) \ X) \cup Y
       /\ \A n \in In(t) \ X :
             Elements(t2.kid, n) = (Elements(t.kid, n) \ X)
                                   \cup (IF p \in Elements(t.kid, n) THEN Y ELSE {})
  <2> HIDE DEF child, s, p, X, Y
  <2>1. /\ Good(t2) /\ In(t2) = (In(t) \ Elements(t.kid, e)) \cup Elements(t2.kid, child)
        /\ \A n \in In(t) \ Elements(t.kid, e) :
              Elements(t2.kid, n) = (Elements(t.kid, n) \ Elements(t.kid, e))
                 \cup (IF p \in Elements(t.kid, n) THEN Elements(t2.kid, child) ELSE {})
    <3>1. Swapped(t, t2, e, child, p, side)
      BY <1>5, <1>11, <1>12, <1>13, <1>14 DEF Swapped, X
    <3>2. e \in Pointer /\ child \in Pointer /\ p \in Pointer /\ Typed(t2)
      BY <1>1, <1>3, <1>9
    <3>3. QED
      BY <3>1, <3>2, Replaced
  <2>2. QED
    BY <1>12, <2>1 DEF X
<1>16. In(t2) = In(t) \ {e}
  BY <1>1, <1>4, <1>15
<1>17. ASSUME NEW n \in In(t), n # e, e \in Elements(t.kid, n)
       PROVE  Elements(t2.kid, n) = Elements(t.kid, n) \ {e}
  <2> DEFINE N == Elements(t.kid, n)
  <2>1. n \in Node /\ n \in Pointer /\ X \subseteq N
    BY <1>1, <1>17, ElementsBelow DEF Pointer
  <2>2. p \in N
    <3>1. PICK m \in N, d \in Side : t.kid[d][m] = e
      BY <1>1, <1>17, <2>1, HasParent
    <3>2. m \in In(t)
      BY <3>1, GoodBelow
    <3>3. t.parent[e] = m
      BY <1>1, <3>1, <3>2, OnePlace, SideFacts
    <3>4. QED
      BY <3>3
  <2>3. n \notin X
    <3>1. SUFFICES ASSUME n \in X PROVE FALSE
      OBVIOUS
    <3>2. N \subseteq X
      BY <1>1, <3>1, ElementsBelow
    <3>3. QED
      BY <1>6, <2>2, <3>2
  <2>4. Elements(t2.kid, n) = (N \ X) \cup Y
    BY <1>15, <2>2, <2>3
  <2>5. QED
    BY <1>4, <1>1, <2>1, <2>4
<1>18. /\ child # NULL => child \in In(t2)
       /\ p # NULL => p \in In(t2)
       /\ child # e /\ p # e
  <2>1. e \in X
    BY <1>4
  <2>2. QED
    BY <1>1, <1>2, <1>3, <1>6, <1>16, <2>1, SideFacts
<1>19. \A m \in In(t2), d \in Side :
          t2.kid[d][m] = IF m = p /\ d = s THEN child ELSE t.kid[d][m]
  BY <1>1, <1>11, <1>16
<1>20. QED
  BY <1>1, <1>3, <1>11, <1>15, <1>16, <1>17, <1>18, <1>19 DEF t2

(* Another element takes the place of one, with its kids and its colour.    *)
TakenAt(t, e, n, t2) ==
    LET p == t.parent[e]
    IN  /\ Typed(t2)
        /\ t2.red = IF e \in t.red THEN t.red \cup {n} ELSE t.red \ {n}
        /\ t2.root = IF p = NULL THEN n ELSE t.root
        /\ \A m \in Node :
             /\ t2.parent[m] = IF m = t.kid[LEFT][e] \/ m = t.kid[RIGHT][e] THEN n
                               ELSE IF m = n THEN p ELSE t.parent[m]
             /\ \A f \in Side :
                   t2.kid[f][m] = IF m = p /\ f = SideOf(t, e, p) THEN n
                                  ELSE IF m = n THEN t.kid[f][e] ELSE t.kid[f][m]

LEMMA TakePlaceAt ==
  ASSUME NEW t, Typed(t), NEW e \in Node, NEW n \in Node, n # e,
         t.parent[e] # e, t.parent[e] # n
  PROVE  TakenAt(t, e, n, TakePlace(t, e, n))
<1> DEFINE p  == t.parent[e]
           s  == SideOf(t, e, p)
           l  == t.kid[LEFT][e]
           r  == t.kid[RIGHT][e]
           k  == PutBoth(t.kid, n, l, r)
           red2 == IF e \in t.red THEN t.red \cup {n} ELSE t.red \ {n}
           t1 == [t EXCEPT !.kid = PutBoth(@, n, @[LEFT][e], @[RIGHT][e]),
                           !.parent[n] = p,
                           !.red = IF e \in @ THEN @ \cup {n} ELSE @ \ {n}]
           t2 == Hang(t1, p, e, n)
           t3 == SetParent(t2, t2.kid[LEFT][e], n)
           t4 == SetParent(t3, t2.kid[RIGHT][e], n)
<1>1. /\ t.kid \in Memory /\ p \in Pointer /\ l \in Pointer /\ r \in Pointer /\ n \in Pointer
      /\ n \in Cell /\ \A m \in Node : m \in Cell
  BY SideFacts, TypedFacts DEF Pointer, Cell
<1>2. /\ k \in Memory
      /\ \A m \in Node, f \in Side : k[f][m] = IF m = n THEN t.kid[f][e] ELSE t.kid[f][m]
  <2> HIDE DEF l, r
  <2>1. k \in Memory
    BY <1>1, PutBothType
  <2>2. ASSUME NEW m \in Node, NEW f \in Side
        PROVE  k[f][m] = IF m = n THEN (IF f = LEFT THEN l ELSE r) ELSE t.kid[f][m]
    BY <1>1, PutBothAt
  <2>3. \A f \in Side : t.kid[f][e] = IF f = LEFT THEN l ELSE r
    BY SideFacts DEF l, r, Side
  <2>4. QED
    BY <2>1, <2>2, <2>3
<1>3. t1 = [root |-> t.root, kid |-> k, parent |-> [t.parent EXCEPT ![n] = p],
            red |-> red2]
  <2>1. t1 = [t EXCEPT !.kid = k, !.parent[n] = p, !.red = red2]
    OBVIOUS
  <2> HIDE DEF t1, k, p, red2
  <2>2. QED
    BY <2>1 DEF Typed
<1>4. TakePlace(t, e, n) = t4
  BY DEF TakePlace
<1> HIDE DEF t1, k, p
<1>5. /\ Typed(t1) /\ t1.root = t.root /\ t1.kid = k
      /\ t1.red = (IF e \in t.red THEN t.red \cup {n} ELSE t.red \ {n})
      /\ \A m \in Node : t1.parent[m] = IF m = n THEN p ELSE t.parent[m]
  BY <1>1, <1>2, <1>3 DEF Typed
<1> HIDE DEF t2
<1>6. /\ Typed(t2) /\ t2.parent = t1.parent /\ t2.red = t1.red
      /\ t2.root = (IF p = NULL THEN n ELSE t1.root)
      /\ \A m \in Node, f \in Side :
            t2.kid[f][m] = IF m = p /\ f = SideOf(t1, e, p) THEN n ELSE t1.kid[f][m]
  <2>1. t2 = Hang(t1, p, e, n)
    BY DEF t2
  <2>2. QED
    BY <1>1, <1>5, <2>1, HangAt
<1>7. p # e /\ p # n
  BY DEF p
<1>8. p \in Node => SideOf(t1, e, p) = s
  BY <1>2, <1>5, <1>7, SideFacts DEF SideOf
<1>9. t2.kid[LEFT][e] = l /\ t2.kid[RIGHT][e] = r
  BY <1>2, <1>5, <1>6, <1>7, SideFacts
<1> HIDE DEF l, r
<1>10. t3 = SetParent(t2, l, n) /\ t4 = SetParent(t3, r, n)
  BY <1>9
<1> HIDE DEF t3, t4
<1>11. /\ Typed(t3) /\ t3.root = t2.root /\ t3.kid = t2.kid /\ t3.red = t2.red
       /\ \A m \in Node : t3.parent[m] = IF m = l THEN n ELSE t2.parent[m]
  <2>1. l \in Pointer /\ n \in Pointer /\ Typed(t2) /\ t3 = SetParent(t2, l, n)
    BY <1>1, <1>6, <1>10
  <2>2. QED
    BY <2>1, SetParentAt
<1>12. /\ Typed(t4) /\ t4.root = t3.root /\ t4.kid = t3.kid /\ t4.red = t3.red
       /\ \A m \in Node : t4.parent[m] = IF m = r THEN n ELSE t3.parent[m]
  <2>1. r \in Pointer /\ n \in Pointer /\ Typed(t3) /\ t4 = SetParent(t3, r, n)
    BY <1>1, <1>10, <1>11
  <2>2. QED
    BY <2>1, SetParentAt
<1>13. ASSUME NEW m \in Node
       PROVE  /\ t4.parent[m] = IF m = t.kid[LEFT][e] \/ m = t.kid[RIGHT][e] THEN n
                                ELSE IF m = n THEN p ELSE t.parent[m]
              /\ \A f \in Side :
                    t4.kid[f][m] = IF m = p /\ f = s THEN n
                                   ELSE IF m = n THEN t.kid[f][e] ELSE t.kid[f][m]
  <2>1. t4.parent[m] = IF m = l \/ m = r THEN n ELSE IF m = n THEN p ELSE t.parent[m]
    BY <1>5, <1>6, <1>11, <1>12
  <2>2. ASSUME NEW f \in Side
        PROVE  t4.kid[f][m] = IF m = p /\ f = s THEN n
                              ELSE IF m = n THEN t.kid[f][e] ELSE t.kid[f][m]
    BY <1>2, <1>5, <1>6, <1>7, <1>8, <1>11, <1>12
  <2>3. QED
    BY <2>1, <2>2 DEF l, r
<1>14. QED
  BY <1>4, <1>5, <1>6, <1>11, <1>12, <1>13 DEF p, TakenAt

(* n has the place of e, below p on side s.                                 *)
Stands(t, t2, e, n, p, s) ==
    /\ In(t2) = (In(t) \ {e}) \cup {n}
    /\ t2.red = IF e \in t.red THEN t.red \cup {n} ELSE t.red \ {n}
    /\ t2.root = IF p = NULL THEN n ELSE t.root
    /\ p = NULL => t.root = e
    /\ p # NULL => p \in In(t) /\ p # e /\ s \in Side /\ t.kid[s][p] = e
    /\ t2.parent[n] = p
    /\ \A m \in In(t) \ {e}, f \in Side :
          t2.kid[f][m] = IF m = p /\ f = s THEN n ELSE t.kid[f][m]
    /\ \A f \in Side : t2.kid[f][n] = t.kid[f][e]
    /\ \A m \in In(t) \ {e} : t2.parent[m] = IF t.parent[m] = e THEN n ELSE t.parent[m]

(* Its key is one that may be there.                                        *)
Suits(t, e, n) ==
    /\ n \in Node /\ n \notin In(t)
    /\ \A d \in Side : \A z \in Elements(t.kid, t.kid[d][e]) : Toward(Key[z], n) = d
    /\ \A m \in In(t) \ Elements(t.kid, e), d \in Side :
          Toward(Key[e], m) = d => Toward(Key[n], m) = d

LEMMA TookPlace ==
  ASSUME NEW t, Good(t), NEW e \in In(t), NEW n, Suits(t, e, n)
  PROVE  LET p  == t.parent[e]
             t2 == TakePlace(t, e, n)
         IN  Good(t2) /\ Stands(t, t2, e, n, p, SideOf(t, e, p))
<1> DEFINE p  == t.parent[e]
           s  == SideOf(t, e, p)
           t2 == TakePlace(t, e, n)
           X  == Elements(t.kid, e)
           Y  == Elements(t2.kid, n)
           B(d) == Elements(t.kid, t.kid[d][e])
<1> SUFFICES ASSUME n \in Node, n \notin In(t),
                      \A d \in Side : \A z \in Elements(t.kid, t.kid[d][e]) : Toward(Key[z], n) = d,
                      \A m \in In(t) \ Elements(t.kid, e), d \in Side :
                         Toward(Key[e], m) = d => Toward(Key[n], m) = d
               PROVE  Good(t2) /\ Stands(t, t2, e, n, p, s)
  BY DEF Suits
<1>1. /\ Typed(t) /\ t.kid \in Memory /\ e \in Node /\ e \in Pointer /\ In(t) \subseteq Node
      /\ X \subseteq In(t) /\ n \in Pointer /\ n # e
      /\ \A d \in Side : /\ B(d) \subseteq In(t) /\ e \notin B(d) /\ Rooted(t, t.kid[d][e])
                         /\ t.kid[d][e] \in Pointer
                         /\ \A z \in B(d) : Toward(Key[z], e) = d
  BY TypedFacts, GoodBelow, ElementsAreNodes DEF Good, In, Pointer
<1>2. /\ p \in Pointer /\ (p = NULL <=> e = t.root)
      /\ p # NULL => p \in In(t) /\ s \in Side /\ t.kid[s][p] = e
  BY ParentOf
<1>3. X = {e} \cup B(LEFT) \cup B(RIGHT)
  BY <1>1, ElementsUnfold
<1>4. PICK side \in Side : Place(t, e, p, side) /\ (p # NULL => side = s)
  BY <1>2, SideFacts DEF Place
<1>5. p \notin X /\ p # e /\ p # n
  <2>1. p # NULL => p \notin X
    BY <1>1, <1>2, <1>4, PlaceApart
  <2>2. NULL \notin X /\ e \in X
    BY <1>1, <1>3, SideFacts
  <2>3. QED
    BY <1>2, <2>1, <2>2, SideFacts
<1>6. /\ Typed(t2)
      /\ t2.red = (IF e \in t.red THEN t.red \cup {n} ELSE t.red \ {n})
      /\ t2.root = (IF p = NULL THEN n ELSE t.root)
      /\ \A m \in Node :
           /\ t2.parent[m] = IF m = t.kid[LEFT][e] \/ m = t.kid[RIGHT][e] THEN n
                             ELSE IF m = n THEN p ELSE t.parent[m]
           /\ \A f \in Side :
                 t2.kid[f][m] = IF m = p /\ f = s THEN n
                                ELSE IF m = n THEN t.kid[f][e] ELSE t.kid[f][m]
  <2>1. Typed(t) /\ e \in Node /\ n # e /\ t.parent[e] # e /\ t.parent[e] # n
    BY <1>1, <1>5
  <2>2. TakenAt(t, e, n, t2)
    BY <2>1, TakePlaceAt
  <2> HIDE DEF t2
  <2>3. QED
    BY <2>2 DEF TakenAt
<1> HIDE DEF t2
<1>7. \A f \in Side : t2.kid[f][n] = t.kid[f][e]
  BY <1>5, <1>6
<1>8. ASSUME NEW m \in In(t)
      PROVE  (m = t.kid[LEFT][e] \/ m = t.kid[RIGHT][e]) <=> t.parent[m] = e
  <2>1. \A d \in Side : m = t.kid[d][e] => t.parent[m] = e
    BY <1>1, <1>8, OnePlace, SideFacts
  <2>2. t.parent[m] = e => \E d \in Side : m = t.kid[d][e]
    BY <1>1, <1>8, ParentOf, SideFacts
  <2>3. QED
    BY <2>1, <2>2, SideFacts DEF Side
<1>9. \A d \in Side : t.kid[d][e] # NULL => t2.parent[t.kid[d][e]] = n
  BY <1>1, <1>6 DEF Pointer, Side
<1>10. ASSUME NEW d \in Side
       PROVE  Rooted(t2, t.kid[d][e]) /\ Elements(t2.kid, t.kid[d][e]) = B(d)
  <2> DEFINE v == t.kid[d][e]
  <2>1. ASSUME NEW m \in B(d)
        PROVE  /\ \A f \in Side : t2.kid[f][m] = t.kid[f][m]
               /\ m = v \/ t2.parent[m] = t.parent[m]
    <3>1. m \in In(t) /\ m \in Node /\ m # p /\ m # n /\ m \in X
      BY <1>1, <1>3, <1>5, <2>1, SideFacts DEF Side
    <3>2. ASSUME NEW f \in Side, m = t.kid[f][e] PROVE f = d
      <4>1. m \in B(f)
        BY <1>1, <3>1, <3>2, ElementsClosed
      <4>2. QED
        BY <1>1, <2>1, <4>1
    <3>3. QED
      BY <1>6, <3>1, <3>2, SideFacts
  <2>2. v \in Pointer /\ Rooted(t, v) /\ Typed(t) /\ Typed(t2)
    BY <1>1, <1>6
  <2> HIDE DEF v
  <2>3. Rooted(t2, v) /\ Elements(t2.kid, v) = Elements(t.kid, v)
    BY <2>1, <2>2, RootedFrame DEF v
  <2>4. QED
    BY <2>3 DEF v
<1>11. Y = {n} \cup B(LEFT) \cup B(RIGHT)
  <2>1. t2.kid \in Memory
    BY <1>6, TypedFacts
  <2>2. Y = {n} \cup Elements(t2.kid, t2.kid[LEFT][n]) \cup Elements(t2.kid, t2.kid[RIGHT][n])
    BY <2>1, ElementsUnfold
  <2>3. QED
    BY <1>7, <1>10, <2>2, SideFacts
<1>12. Rooted(t2, n)
  <2>1. t2.kid \in Memory
    BY <1>6, TypedFacts
  <2>2. \A d \in Side : /\ SearchTree(t2.kid, t2.kid[d][n])
                        /\ \A x \in Elements(t2.kid, t2.kid[d][n]) : Toward(Key[x], n) = d
    BY <1>7, <1>10 DEF Rooted
  <2>3. SearchTree(t2.kid, n)
    BY <2>1, <2>2, MakeTree
  <2>4. ASSUME NEW m \in Y, NEW f \in Side, t2.kid[f][m] # NULL
        PROVE  t2.parent[t2.kid[f][m]] = m
    <3>1. CASE m = n
      BY <1>7, <1>9, <2>4, <3>1
    <3>2. CASE m # n
      <4>1. PICK d \in Side : m \in B(d)
        BY <1>11, <2>4, <3>2, SideFacts
      <4>2. QED
        BY <1>10, <2>4, <4>1 DEF Rooted
    <3>3. QED
      BY <3>1, <3>2
  <2>5. QED
    BY <2>3, <2>4 DEF Rooted
<1>13. ASSUME NEW m \in In(t) \ X
       PROVE  /\ t2.parent[m] = t.parent[m]
              /\ \A d \in Side :
                    /\ t2.kid[d][m] = IF m = p /\ d = side THEN n ELSE t.kid[d][m]
                    /\ Leads(t, m, d, p, side) => \A z \in Y : Toward(Key[z], m) = d
  <2>1. m \in Node /\ m # n /\ m # e /\ t.parent[m] # e
    <3>1. m \in Node /\ m # n /\ m # e
      BY <1>1, <1>3
    <3>2. \A d \in Side : m # t.kid[d][e]
      <4>1. SUFFICES ASSUME NEW d \in Side, m = t.kid[d][e] PROVE FALSE
        OBVIOUS
      <4>2. m \in B(d)
        BY <1>1, <3>1, <4>1, ElementsClosed
      <4>3. QED
        BY <1>3, <1>13, <4>2, SideFacts
    <3>3. QED
      BY <1>8, <1>13, <3>1, <3>2, SideFacts
  <2>2. t2.parent[m] = t.parent[m]
    BY <1>6, <1>8, <1>13, <2>1
  <2>3. \A d \in Side : t2.kid[d][m] = IF m = p /\ d = side THEN n ELSE t.kid[d][m]
    BY <1>4, <1>6, <2>1, SideFacts
  <2>4. ASSUME NEW d \in Side, Leads(t, m, d, p, side), NEW z \in Y PROVE Toward(Key[z], m) = d
    <3>1. \A y \in X : Toward(Key[y], m) = d
      BY <1>1, <1>2, <1>4, <1>13, <2>4, LeadsBelow
    <3>2. QED
      BY <1>3, <1>11, <1>13, <2>4, <3>1
  <2>5. QED
    BY <2>2, <2>3, <2>4
<1>14. n # NULL => t2.parent[n] = p
  <2>1. \A d \in Side : n # t.kid[d][e]
    BY <1>1, OnePlace, SideFacts
  <2>2. QED
    BY <1>6, <2>1, SideFacts
<1>15. Good(t2) /\ In(t2) = (In(t) \ X) \cup Y
  <2>1. Swapped(t, t2, e, n, p, side)
    BY <1>4, <1>6, <1>12, <1>13, <1>14 DEF Swapped
  <2>2. QED
    BY <1>1, <1>2, <1>6, <2>1, Replaced
<1>16. In(t2) = (In(t) \ {e}) \cup {n}
  BY <1>1, <1>3, <1>11, <1>15, SideFacts
<1>17. ASSUME NEW m \in In(t) \ {e}
       PROVE  /\ t2.parent[m] = IF t.parent[m] = e THEN n ELSE t.parent[m]
              /\ \A f \in Side : t2.kid[f][m] = IF m = p /\ f = s THEN n ELSE t.kid[f][m]
  <2>1. m \in Node /\ m # n
    BY <1>1
  <2>2. QED
    BY <1>6, <1>8, <2>1
<1>18. QED
  BY <1>2, <1>5, <1>6, <1>7, <1>14, <1>15, <1>16, <1>17, SideFacts DEF Stands
-----------------------------------------------------------------------------
(* What is not below n lies on one side of all that is.                     *)
LEMMA Outside ==
  ASSUME NEW k \in Memory, NEW r \in Pointer, SearchTree(k, r), NEW n \in Elements(k, r),
         NEW z \in Elements(k, r) \ Elements(k, n)
  PROVE  \E d \in Side : \A w \in Elements(k, n) : Toward(Key[z], w) = d
<1> DEFINE T == Elements(k, r)
           N == Elements(k, n)
           Aside(m) == \E d \in Side : \A w \in N : Toward(Key[m], w) = d
           S == {m \in T : n \in Elements(k, m)} \cup N
                \cup {m \in T : \A x \in Elements(k, m) : Aside(x)}
<1>1. /\ r \in Node /\ n \in Node /\ T \subseteq Node /\ N \subseteq T /\ r \in T /\ n \in N
      /\ Closed(k, T) /\ Closed(k, N)
  <2>1. r \in Node /\ T \subseteq Node /\ n \in Node
    BY NoElements, ElementsAreNodes DEF Pointer
  <2>2. r \in T /\ n \in N /\ Closed(k, T) /\ Closed(k, N)
    BY <2>1, ElementsClosed
  <2>3. N \subseteq T
    BY ElementsBelow
  <2>4. QED
    BY <2>1, <2>2, <2>3
<1>2. ASSUME NEW m \in T, NEW d \in Side, k[d][m] # NULL
      PROVE  /\ m \in Node /\ SearchTree(k, m) /\ k[d][m] \in T /\ k[d][m] \in Node
             /\ \A x \in Elements(k, k[d][m]) : Toward(Key[x], m) = d
             /\ Elements(k, k[d][m]) \subseteq Elements(k, m)
  <2>1. m \in Node /\ SearchTree(k, m)
    BY <1>1, <1>2, SubTree
  <2>2. k[d][m] \in T
    BY <1>1, <1>2 DEF Closed
  <2>3. QED
    BY <1>1, <2>1, <2>2, TreeAtRoot
<1>3. Closed(k, S)
  <2>1. SUFFICES ASSUME NEW m \in S, NEW d \in Side, k[d][m] # NULL PROVE k[d][m] \in S
    BY DEF Closed
  <2> DEFINE v == k[d][m]
  <2>2. m \in T
    BY <1>1, <2>1
  <2>3. /\ m \in Node /\ SearchTree(k, m) /\ v \in T /\ v \in Node
        /\ \A x \in Elements(k, v) : Toward(Key[x], m) = d
        /\ Elements(k, v) \subseteq Elements(k, m)
    BY <1>2, <2>1, <2>2
  <2>4. CASE m \in N
    BY <1>1, <2>1, <2>4 DEF Closed
  <2>5. CASE \A x \in Elements(k, m) : Aside(x)
    BY <2>3, <2>5
  <2>6. CASE n \in Elements(k, m) /\ m \notin N /\ n \notin Elements(k, v)
    <3>1. n # m
      BY <1>1, <2>6
    <3>2. n \in Elements(k, k[Opp(d)][m])
      <4>1. Elements(k, m) = {m} \cup Elements(k, k[LEFT][m]) \cup Elements(k, k[RIGHT][m])
        BY <2>3, ElementsUnfold
      <4>2. QED
        BY <2>6, <3>1, <4>1, SideFacts DEF Side
    <3>3. Opp(d) \in Side /\ k[Opp(d)][m] \in Pointer
      BY <2>3, TreeAtRoot, SideFacts
    <3>4. N \subseteq Elements(k, k[Opp(d)][m])
      BY <3>2, <3>3, ElementsBelow
    <3>5. \A w \in N : Toward(Key[w], m) = Opp(d)
      BY <2>3, <3>3, <3>4, TreeAtRoot
    <3>6. ASSUME NEW x \in Elements(k, v) PROVE Aside(x)
      <4>1. x \in Node /\ Toward(Key[x], m) = d
        BY <2>3, <3>6, ElementsAreNodes
      <4>2. ASSUME NEW w \in N PROVE Toward(Key[x], w) = d
        <5>1. w \in Node /\ Toward(Key[m], w) = d
          BY <1>1, <2>3, <3>5, <4>2, TowardFacts, SideFacts
        <5>2. QED
          BY <2>3, <4>1, <5>1, TowardTransitive
      <4>3. QED
        BY <4>2
    <3>7. QED
      BY <2>3, <3>6
  <2>7. CASE n \in Elements(k, v)
    BY <2>3, <2>7
  <2> HIDE DEF v, N, Aside
  <2>8. QED
    BY <2>1, <2>4, <2>5, <2>6, <2>7 DEF v
<1>4. T \subseteq S
  <2>1. r \in S /\ S \in SUBSET Node
    BY <1>1
  <2> HIDE DEF S
  <2>2. QED
    BY <1>1, <1>3, <2>1, ElementsLeast
<1>5. z \in Node /\ z \in Elements(k, z)
  BY <1>1, ElementsClosed
<1>6. CASE n \in Elements(k, z)
  <2>1. n # z
    BY <1>1
  <2>2. PICK d \in Side : n \in Elements(k, k[d][z])
    <3>1. Elements(k, z) = {z} \cup Elements(k, k[LEFT][z]) \cup Elements(k, k[RIGHT][z])
      BY <1>5, ElementsUnfold
    <3>2. QED
      BY <1>6, <2>1, <3>1, SideFacts
  <2>3. k[d][z] # NULL
    BY <2>2, NoElements
  <2>4. N \subseteq Elements(k, k[d][z]) /\ \A x \in Elements(k, k[d][z]) : Toward(Key[x], z) = d
    BY <1>2, <2>2, <2>3, ElementsBelow DEF Pointer
  <2>5. \A w \in N : Toward(Key[z], w) = Opp(d)
    <3>1. SUFFICES ASSUME NEW w \in N PROVE Toward(Key[z], w) = Opp(d)
      OBVIOUS
    <3>2. w \in Node /\ Toward(Key[w], z) = d
      BY <1>1, <2>4
    <3>3. QED
      BY <1>5, <3>2, TowardFacts, SideFacts
  <2>6. QED
    BY <2>5, SideFacts
<1>7. CASE \A x \in Elements(k, z) : Aside(x)
  BY <1>5, <1>7
<1>8. QED
  BY <1>4, <1>6, <1>7

(* Different elements have different keys.                                  *)
LEMMA DifferentKeys ==
  ASSUME NEW k \in Memory, NEW r \in Pointer, SearchTree(k, r),
         NEW x \in Elements(k, r), NEW y \in Elements(k, r), x # y
  PROVE  Toward(Key[x], y) \in Side /\ Key[x] # Key[y]
<1>1. x \in Node /\ y \in Node /\ y \in Elements(k, y) /\ SearchTree(k, y)
  BY ElementsAreNodes, ElementsClosed, SubTree
<1>2. CASE x \notin Elements(k, y)
  <2>1. PICK d \in Side : \A w \in Elements(k, y) : Toward(Key[x], w) = d
    BY <1>2, Outside
  <2>2. Toward(Key[x], y) = d
    BY <1>1, <2>1
  <2>3. QED
    BY <1>1, <2>2, TowardFacts, SideFacts
<1>3. CASE x \in Elements(k, y)
  <2>1. Toward(Key[x], y) # HERE
    BY <1>1, <1>3, SideOfRoot
  <2>2. QED
    BY <1>1, <2>1, TowardFacts
<1>4. QED
  BY <1>2, <1>3

(* ... in which the rest has kept its place.                                *)
LEMMA UnlinkedMembers ==
  ASSUME NEW t, Good(t), NEW e \in In(t), NEW f \in Side, t.kid[Opp(f)][e] = NULL
  PROVE  LET t2 == Unlink(t, e, t.kid[f][e])
         IN  /\ Good(t2) /\ In(t2) = In(t) \ {e}
             /\ \A n \in In(t) : n # e /\ e \in Elements(t.kid, n) =>
                   Elements(t2.kid, n) = Elements(t.kid, n) \ {e}
BY Unlinked

(* The next element is one that can take the place.                         *)
LEMMA NextFits ==
  ASSUME NEW t, Good(t), NEW e \in In(t), NEW next \in Elements(t.kid, t.kid[RIGHT][e]),
         t.kid[LEFT][next] = NULL,
         \A z \in Elements(t.kid, t.kid[RIGHT][e]) : z = next \/ Toward(Key[z], next) = RIGHT
  PROVE  LET t1 == Unlink(t, next, t.kid[RIGHT][next])
         IN  /\ next \in In(t) /\ next # e
             /\ Good(t1) /\ In(t1) = In(t) \ {next} /\ e \in In(t1)
             /\ Suits(t1, e, next)
<1> DEFINE t1 == Unlink(t, next, t.kid[RIGHT][next])
           E  == Elements(t.kid, e)
<1>1. /\ t.kid \in Memory /\ t.root \in Pointer /\ SearchTree(t.kid, t.root)
      /\ e \in Node /\ E \subseteq In(t) /\ SearchTree(t.kid, e) /\ e \in E
  BY TypedFacts, GoodBelow, ElementsClosed DEF Good, Rooted
<1>2. /\ next \in In(t) /\ next \in Node /\ next # e /\ Toward(Key[next], e) = RIGHT
      /\ next \in E
  <2>1. /\ next \in In(t) /\ next # e /\ Toward(Key[next], e) = RIGHT
    BY GoodBelow, SideFacts
  <2>2. next \in E
    BY <1>1, SideFacts, TreeAtRoot
  <2>3. QED
    BY <2>1, <2>2, GoodBelow
<1>3. /\ Good(t1) /\ In(t1) = In(t) \ {next}
      /\ \A n \in In(t) : n # next /\ next \in Elements(t.kid, n) =>
            Elements(t1.kid, n) = Elements(t.kid, n) \ {next}
  <2>1. RIGHT \in Side /\ t.kid[Opp(RIGHT)][next] = NULL /\ next \in In(t)
    BY <1>2, SideFacts
  <2>2. QED
    BY <2>1, UnlinkedMembers DEF t1
<1> HIDE DEF t1
<1>4. e \in In(t1) /\ Elements(t1.kid, e) = E \ {next}
  BY <1>2, <1>3
<1>5. ASSUME NEW d \in Side, NEW z \in Elements(t1.kid, t1.kid[d][e])
      PROVE  Toward(Key[z], next) = d
  <2>1. z \in Elements(t1.kid, e) /\ Toward(Key[z], e) = d
    <3>1. SearchTree(t1.kid, e) /\ t1.kid \in Memory
      BY <1>3, <1>4, GoodBelow, TypedFacts DEF Good, Rooted
    <3>2. QED
      BY <1>1, <3>1, TreeAtRoot
  <2>2. z \in E /\ z # next /\ z \in Node
    BY <1>4, <2>1, ElementsAreNodes
  <2>3. z \in Elements(t.kid, t.kid[d][e])
    BY <1>1, <2>1, <2>2, SideOfRoot
  <2>4. CASE d = RIGHT
    BY <2>2, <2>3, <2>4
  <2>5. CASE d = LEFT
    <3>1. Toward(Key[e], next) = LEFT
      BY <1>1, <1>2, TowardFacts, SideFacts
    <3>2. QED
      BY <1>1, <1>2, <2>1, <2>2, <2>5, <3>1, TowardTransitive, SideFacts
  <2>6. QED
    BY <2>4, <2>5 DEF Side
<1>6. ASSUME NEW m \in In(t1) \ Elements(t1.kid, e), NEW d \in Side, Toward(Key[e], m) = d
      PROVE  Toward(Key[next], m) = d
  <2>1. m \in In(t) \ E /\ m \in Node
    BY <1>3, <1>4, GoodBelow
  <2>2. PICK f \in Side : \A w \in E : Toward(Key[m], w) = f
    BY <1>1, <2>1, Outside DEF In
  <2>3. Toward(Key[m], e) = Opp(d)
    BY <1>1, <1>6, <2>1, TowardFacts, SideFacts
  <2>4. Toward(Key[m], next) = Opp(d)
    BY <1>1, <1>2, <2>2, <2>3
  <2>5. QED
    BY <1>2, <2>1, <2>4, TowardFacts, SideFacts
<1>7. QED
  BY <1>2, <1>3, <1>4, <1>5, <1>6 DEF t1, Suits

LEMMA Forgotten ==
  ASSUME NEW t, Good(t), NEW e \in Node, e \notin In(t)
  PROVE  LET t2 == Forget(t, e)
         IN  /\ Good(t2) /\ In(t2) = In(t) /\ t2.red = t.red \ {e} /\ t2.root = t.root
             /\ \A m \in In(t) : /\ t2.parent[m] = t.parent[m]
                                 /\ \A d \in Side : t2.kid[d][m] = t.kid[d][m]
<1> DEFINE k  == PutBoth(t.kid, e, NULL, NULL)
           t2 == Forget(t, e)
<1>1. /\ Typed(t) /\ t.kid \in Memory /\ t.root \in Pointer /\ In(t) \subseteq Node
      /\ NULL \in Pointer /\ e \in Cell /\ \A m \in Node : m \in Cell
  BY TypedFacts, ElementsAreNodes DEF Good, In, Pointer
<1>2. k \in Memory /\ \A m \in Cell, d \in Side : m # e => k[d][m] = t.kid[d][m]
  <2>1. k \in Memory
    BY <1>1, PutBothType
  <2>2. ASSUME NEW m \in Cell, NEW d \in Side, m # e PROVE k[d][m] = t.kid[d][m]
    BY <1>1, <2>2, PutBothAt
  <2>3. QED
    BY <2>1, <2>2
<1>3. t2 = [t EXCEPT !.kid = k, !.parent[e] = NULL, !.red = @ \ {e}]
  BY DEF Forget
<1> HIDE DEF k, t2
<1>4. /\ Typed(t2) /\ t2.red = t.red \ {e} /\ t2.root = t.root /\ t2.kid = k
      /\ \A m \in Node : m # e => t2.parent[m] = t.parent[m]
  BY <1>1, <1>2, <1>3 DEF Typed, Pointer
<1>5. \A m \in In(t) : /\ \A d \in Side : t2.kid[d][m] = t.kid[d][m]
                       /\ t2.parent[m] = t.parent[m]
  BY <1>1, <1>2, <1>4
<1>6. Rooted(t2, t.root) /\ Elements(t2.kid, t.root) = In(t)
  BY <1>1, <1>4, <1>5, RootedFrame DEF Good, In
<1>7. t2.root # NULL => t2.parent[t2.root] = NULL
  <2>1. t.root # NULL => t.root \in In(t)
    BY <1>1, ElementsClosed DEF In, Pointer
  <2>2. QED
    BY <1>4, <1>5, <2>1 DEF Good
<1>8. QED
  BY <1>4, <1>5, <1>6, <1>7 DEF Good, In, t2
================================================================================
