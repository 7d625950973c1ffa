------------------------------ MODULE SplayProofs ------------------------------
(****************************************************************************)
(* Proofs about SplayTree, for every set of elements and every order of     *)
(* their keys.  Inv says of the three parts that a splay has taken the tree *)
(* into (Opened) that each is a search tree, and that they lie one behind   *)
(* the other with the key that is looked for between them.  A turn of the   *)
(* loop moves the root to a part (Link), the end puts the parts together    *)
(* (Assemble), and the pieces are always those of the tree.                 *)
(****************************************************************************)
EXTENDS SplayTree, TreeLemmas

LEMMA CutType ==
  ASSUME NEW k \in Memory, NEW a \in [Side -> Cell]
  PROVE  Cut(k, a) \in Memory
<1>1. a[LEFT] \in Cell /\ a[RIGHT] \in Cell /\ NULL \in Pointer
  BY SideFacts DEF Pointer
<1>2. Put(k, RIGHT, a[LEFT], NULL) \in Memory
  BY <1>1, SideFacts, PutType
<1>3. QED
  BY <1>1, <1>2, SideFacts, PutType DEF Cut

LEMMA CutAt ==
  ASSUME NEW k \in Memory, NEW a \in [Side -> Cell], NEW e \in Side, NEW m \in Cell
  PROVE  Cut(k, a)[e][m] = IF m = a[Opp(e)] THEN NULL ELSE k[e][m]
<1>1. a[LEFT] \in Cell /\ NULL \in Pointer
  BY SideFacts DEF Pointer
<1>2. Put(k, RIGHT, a[LEFT], NULL) \in Memory
  BY <1>1, SideFacts, PutType
<1>3. Cut(k, a)[e][m] = IF e = LEFT /\ m = a[RIGHT] THEN NULL
                        ELSE Put(k, RIGHT, a[LEFT], NULL)[e][m]
  BY <1>2, SideFacts, PutAt DEF Cut
<1>4. Put(k, RIGHT, a[LEFT], NULL)[e][m] = IF e = RIGHT /\ m = a[LEFT] THEN NULL ELSE k[e][m]
  BY SideFacts, PutAt
<1>5. QED
  BY <1>3, <1>4, SideFacts DEF Side

LEMMA TurnFacts ==
  ASSUME Calling, pc # "idle", NEW n \in Node
  PROVE  /\ Turn(n) \in Side \cup {HERE}
         /\ \A m \in Node, d \in Side :
               Turn(n) = d /\ Toward(Key[n], m) = d => Turn(m) = d
<1>1. \A m \in Node : Key[m] \in Nat
  BY TreeAssumption
<1>2. QED
  BY <1>1 DEF Turn, Toward, Calling, Side, LEFT, RIGHT, HERE

LEMMA WholeCut ==
  ASSUME NEW k \in Memory, NEW a, Whole(k, a)
  PROVE  /\ Cut(k, a) = k /\ a \in [Side -> Cell]
         /\ \A s \in Side : Part(k, a, s) = {}
<1>1. a \in [Side -> Cell] /\ \A s \in Side : a[s] = SCRATCH
  BY DEF Whole, Apart, Cell
<1>2. \A e \in Side : e \in Side /\ Opp(e) \in Side /\ k[e][SCRATCH] = NULL
  BY SideFacts DEF Whole
<1>3. Cut(k, a) = k
  <2>1. Cut(k, a) \in Memory
    BY <1>1, CutType
  <2>2. \A e \in Side, m \in Cell : Cut(k, a)[e][m] = k[e][m]
    BY <1>1, <1>2, CutAt
  <2>3. QED
    BY <2>1, <2>2, MemoryEqual
<1>4. QED
  BY <1>1, <1>2, <1>3, NoElements DEF Part
-----------------------------------------------------------------------------
(* The macros, pointer by pointer.                                          *)
LEMMA AssembleAt ==
  ASSUME NEW k \in Memory, NEW a \in [Side -> Cell], NEW r \in Node,
         a[LEFT] # r, a[RIGHT] # r
  PROVE  /\ Assemble(k, a, r) \in Memory
         /\ \A e \in Side, m \in Cell :
               Assemble(k, a, r)[e][m]
                 = IF m = SCRATCH THEN NULL
                   ELSE IF m = r THEN IF a[e] = SCRATCH THEN k[e][r] ELSE k[Opp(e)][SCRATCH]
                   ELSE IF m = a[Opp(e)] THEN k[Opp(e)][r] ELSE k[e][m]
<1> DEFINE vl == k[LEFT][r]
           vr == k[RIGHT][r]
           k1 == Put(k, RIGHT, a[LEFT], vl)
           k2 == Put(k1, LEFT, a[RIGHT], vr)
           wl == k2[RIGHT][SCRATCH]
           wr == k2[LEFT][SCRATCH]
           k3 == PutBoth(k2, r, wl, wr)
<1>1. /\ NULL \in Pointer /\ SCRATCH \in Cell /\ r \in Cell /\ SCRATCH # r
      /\ a[LEFT] \in Cell /\ a[RIGHT] \in Cell
  BY SideFacts DEF Pointer, Cell
<1>2. vl \in Pointer /\ vr \in Pointer
  BY <1>1, SideFacts, KidType
<1> HIDE DEF vl, vr
<1>3. k1 \in Memory
  BY <1>1, <1>2, SideFacts, PutType
<1>4. \A e \in Side, m \in Cell : k1[e][m] = IF e = RIGHT /\ m = a[LEFT] THEN vl ELSE k[e][m]
  BY SideFacts, PutAt
<1> HIDE DEF k1
<1>5. k2 \in Memory
  BY <1>1, <1>2, <1>3, SideFacts, PutType
<1>6. \A e \in Side, m \in Cell : k2[e][m] = IF e = LEFT /\ m = a[RIGHT] THEN vr ELSE k1[e][m]
  BY <1>3, SideFacts, PutAt
<1>7. Assemble(k, a, r) = PutBoth(k3, SCRATCH, NULL, NULL)
  BY DEF Assemble, vl, vr, k1
<1> HIDE DEF k2
<1>8. wl \in Pointer /\ wr \in Pointer
  BY <1>1, <1>5, SideFacts, KidType
<1> HIDE DEF wl, wr
<1>9. k3 \in Memory
  BY <1>1, <1>5, <1>8, PutBothType
<1>10. \A e \in Side, m \in Cell :
          k3[e][m] = IF m = r THEN IF e = LEFT THEN wl ELSE wr ELSE k2[e][m]
  BY <1>1, <1>5, <1>8, PutBothAt
<1> HIDE DEF k3
<1>11. Assemble(k, a, r) \in Memory
  BY <1>1, <1>7, <1>9, PutBothType
<1>12. \A e \in Side, m \in Cell :
          Assemble(k, a, r)[e][m] = IF m = SCRATCH THEN NULL ELSE k3[e][m]
  BY <1>1, <1>7, <1>9, PutBothAt
<1>13. ASSUME NEW e \in Side, NEW m \in Cell, m # SCRATCH
       PROVE  k3[e][m] = IF m = r THEN IF a[e] = SCRATCH THEN k[e][r] ELSE k[Opp(e)][SCRATCH]
                         ELSE IF m = a[Opp(e)] THEN k[Opp(e)][r] ELSE k[e][m]
  <2>1. CASE e = LEFT
    BY <2>1, <1>1, <1>4, <1>6, <1>10, <1>13, SideFacts DEF vl, vr, wl, wr
  <2>2. CASE e = RIGHT
    BY <2>2, <1>1, <1>4, <1>6, <1>10, <1>13, SideFacts DEF vl, vr, wl, wr
  <2>3. QED
    BY <2>1, <2>2 DEF Side
<1>14. QED
  BY <1>11, <1>12, <1>13
-----------------------------------------------------------------------------
(* The parts have no element in common, so that what is assigned in one     *)
(* does not matter to another.                                              *)
LEMMA PartsApart ==
  ASSUME NEW k \in Memory, NEW a \in [Side -> Cell], NEW r \in Node, Opened(k, a, r),
         NEW s \in Side
  PROVE  LET c == Cut(k, a)
             h == c[Opp(s)][SCRATCH]
             p == Part(k, a, s)
         IN  /\ c \in Memory /\ r \in Elements(c, r)
             /\ h \in Pointer /\ p = Elements(c, h)
             /\ p \cap Elements(c, r) = {} /\ p \cap Part(k, a, Opp(s)) = {}
             /\ a[s] # r /\ a[s] \notin Elements(c, r) /\ c[Opp(s)][a[s]] = NULL
             /\ IF a[s] = SCRATCH THEN h = NULL /\ p = {}
                                   ELSE h \in Node /\ a[s] \in p /\ a[s] \in Node
<1> DEFINE c == Cut(k, a)
           h == c[Opp(s)][SCRATCH]
           p == Part(k, a, s)
           q == Part(k, a, Opp(s))
<1>1. Opp(s) \in Side /\ Opp(s) # s /\ Opp(Opp(s)) = s /\ SCRATCH \in Cell /\ SCRATCH \notin Node
  BY SideFacts DEF Cell
<1>2. c \in Memory /\ \A e \in Side, m \in Cell : m = a[Opp(e)] => c[e][m] = NULL
  BY CutType, CutAt
<1>3. r \in Elements(c, r) /\ Elements(c, r) \subseteq Node
  BY <1>2, ElementsClosed, ElementsAreNodes
<1>4. h \in Pointer /\ p = Elements(c, h) /\ p \subseteq Node /\ q \subseteq Node
  BY <1>1, <1>2, KidType, ElementsAreNodes DEF Part
<1>5. /\ a[s] \in p \cup {SCRATCH}
      /\ \A m \in p, x \in Elements(c, r) : Toward(Key[x], m) = Opp(s)
      /\ \A m \in q, x \in Elements(c, r) : Toward(Key[x], m) = s
  BY <1>1 DEF Opened
<1> HIDE DEF c, h, p, q
<1>6. p \cap Elements(c, r) = {}
  BY <1>1, <1>3, <1>5, TowardFacts, SideFacts
<1>7. p \cap q = {}
  BY <1>1, <1>3, <1>5
<1>8. a[s] # r /\ a[s] \notin Elements(c, r) /\ c[Opp(s)][a[s]] = NULL
  BY <1>1, <1>2, <1>3, <1>5, <1>6
<1>9. IF a[s] = SCRATCH THEN h = NULL /\ p = {} ELSE h \in Node /\ a[s] \in p /\ a[s] \in Node
  BY <1>1, <1>4, <1>5, <1>8, NoElements DEF h, Pointer
<1>10. QED
  BY <1>2, <1>3, <1>4, <1>6, <1>7, <1>8, <1>9 DEF c, h, p, q

(* Until its kid is rotated or linked the root is where it is in the cut    *)
(* tree.                                                                    *)
LEMMA CutAtRoot ==
  ASSUME NEW k \in Memory, NEW a \in [Side -> Cell], NEW r \in Node, Opened(k, a, r),
         NEW m \in Elements(Cut(k, a), r), NEW d \in Side
  PROVE  m \in Node /\ Cut(k, a)[d][m] = k[d][m]
<1>1. m \in Node /\ m \in Cell
  BY ElementsAreNodes DEF Cell
<1>2. a[Opp(d)] # m
  BY PartsApart, SideFacts
<1>3. QED
  BY <1>1, <1>2, CutAt

LEMMA RotateOpened ==
  ASSUME NEW k \in Memory, NEW a \in [Side -> Cell], NEW r \in Node, Opened(k, a, r),
         NEW d \in Side, k[d][r] \in Node
  PROVE  LET c  == Cut(k, a)
             t  == k[d][r]
             k2 == Rotate(k, r, d)
             c2 == Cut(k2, a)
         IN  /\ k2 \in Memory /\ Opened(k2, a, t)
             /\ Elements(c2, t) = Elements(c, r) /\ k2[d][t] = k[d][t]
             /\ \A s \in Side : Part(k2, a, s) = Part(k, a, s)
             /\ \A e \in Side, m \in Cell : m \notin Elements(c, r) => c2[e][m] = c[e][m]
<1> DEFINE c  == Cut(k, a)
           t  == k[d][r]
           k2 == Rotate(k, r, d)
           c2 == Cut(k2, a)
           M  == Elements(c, r)
<1>1. /\ c \in Memory /\ r \in M /\ SearchTree(c, r)
      /\ M \subseteq Node /\ SCRATCH \in Cell /\ SCRATCH \notin M
  BY PartsApart, SideFacts, ElementsAreNodes DEF Opened, Cell
<1>2. c[d][r] = t /\ t \in M
  <2>1. c[d][r] = t
    BY <1>1, CutAtRoot
  <2>2. c[d][r] \in Elements(c, c[d][r])
    BY <1>1, <2>1, ElementsClosed
  <2>3. QED
    BY <1>1, <2>1, <2>2, TreeAtRoot
<1>3. k2 \in Memory /\ \A e \in Side, m \in Cell :
         k2[e][m] = IF e = Opp(d) /\ m = t THEN r ELSE IF e = d /\ m = r THEN k[Opp(d)][t]
                    ELSE k[e][m]
  BY RotateAt
<1>4. /\ Rotate(c, r, d) \in Memory
      /\ \A e \in Side, m \in Cell :
         Rotate(c, r, d)[e][m] = IF e = Opp(d) /\ m = t THEN r
                                 ELSE IF e = d /\ m = r THEN c[Opp(d)][t] ELSE c[e][m]
  BY <1>1, <1>2, RotateAt
<1>5. c2 = Rotate(c, r, d)
  <2>1. ASSUME NEW e \in Side, NEW m \in Cell PROVE c2[e][m] = Rotate(c, r, d)[e][m]
    <3>1. a[Opp(e)] # t /\ a[Opp(e)] # r
      BY <1>1, <1>2, PartsApart, SideFacts
    <3>2. c[Opp(d)][t] = k[Opp(d)][t]
      BY <1>2, CutAtRoot, SideFacts
    <3>3. c2[e][m] = IF m = a[Opp(e)] THEN NULL ELSE k2[e][m]
      BY <1>3, CutAt
    <3>4. c[e][m] = IF m = a[Opp(e)] THEN NULL ELSE k[e][m]
      BY CutAt
    <3>5. QED
      BY <3>1, <3>2, <3>3, <3>4, <1>3, <1>4
  <2>2. c2 \in Memory
    BY <1>3, CutType
  <2>3. QED
    BY <1>4, <2>1, <2>2, MemoryEqual
<1>6. /\ c2 \in Memory /\ SearchTree(c2, t) /\ Elements(c2, t) = M
      /\ \A e \in Side, m \in Cell : m # r /\ m # t => c2[e][m] = c[e][m]
  BY <1>1, <1>2, <1>5, RotateTree
<1>7. k2[d][t] = k[d][t]
  <2>1. t # r /\ t \in Cell /\ d # Opp(d)
    BY <1>1, <1>2, RotateTree, SideFacts DEF Cell
  <2>2. QED
    BY <1>3, <2>1
<1> HIDE DEF c, c2, k2, t, M
<1>8. \A e \in Side, m \in Cell : m \notin M => c2[e][m] = c[e][m]
  BY <1>1, <1>2, <1>6
<1>9. ASSUME NEW s \in Side
      PROVE  /\ c2[Opp(s)][SCRATCH] = c[Opp(s)][SCRATCH]
             /\ SearchTree(c2, c2[Opp(s)][SCRATCH])
             /\ Part(k2, a, s) = Part(k, a, s)
  <2>1. c2[Opp(s)][SCRATCH] = c[Opp(s)][SCRATCH]
    BY <1>1, <1>8, SideFacts
  <2>2. /\ c[Opp(s)][SCRATCH] \in Pointer /\ SearchTree(c, c[Opp(s)][SCRATCH])
        /\ Part(k, a, s) = Elements(c, c[Opp(s)][SCRATCH])
        /\ Part(k, a, s) \cap M = {}
    BY PartsApart DEF Opened, c, M
  <2>3. \A m \in Part(k, a, s), e \in Side : c2[e][m] = c[e][m]
    BY <1>8, <2>2, ElementsAreNodes DEF Cell
  <2>4. /\ SearchTree(c2, c[Opp(s)][SCRATCH])
        /\ Elements(c2, c[Opp(s)][SCRATCH]) = Elements(c, c[Opp(s)][SCRATCH])
    BY <1>1, <1>6, <2>2, <2>3, SearchTreeFrame
  <2>5. QED
    BY <2>1, <2>2, <2>4 DEF Part, c2
<1>10. Opened(k2, a, t)
  BY <1>6, <1>9 DEF Opened, c2, c, M
<1>11. QED
  BY <1>3, <1>6, <1>7, <1>8, <1>9, <1>10 DEF c, c2, k2, t, M

(* The root, without its kid on side d, joins the part on the other side.   *)
LEMMA LinkOpened ==
  ASSUME NEW k \in Memory, NEW a \in [Side -> Cell], NEW r \in Node, Opened(k, a, r),
         Calling, pc # "idle", NEW d \in Side, k[d][r] \in Node, Turn(r) = d
  PROVE  LET c  == Cut(k, a)
             t  == k[d][r]
             k2 == Link(k, a, r, d)
             a2 == Ends(a, r, d)
             c2 == Cut(k2, a2)
         IN  /\ k2 \in Memory /\ a2 \in [Side -> Cell] /\ k2[d][r] = t
             /\ Opened(k2, a2, t)
             /\ Part(k2, a2, d) = Part(k, a, d)
             /\ Elements(c2, t) \cup Part(k2, a2, Opp(d)) = Elements(c, r) \cup Part(k, a, Opp(d))
             /\ \A e \in Side, m \in Cell : m # r /\ m # a[Opp(d)] => c2[e][m] = c[e][m]
<1> DEFINE o  == Opp(d)
           c  == Cut(k, a)
           t  == k[d][r]
           u  == c[o][r]
           l  == a[o]
           k2 == Link(k, a, r, d)
           a2 == Ends(a, r, d)
           c1 == Put(c, d, r, NULL)
           c2 == Cut(k2, a2)
           M  == Elements(c, r)
           P  == Part(k, a, o)
           h  == c[d][SCRATCH]
           D  == Elements(c, u)
<1>1. /\ o \in Side /\ o # d /\ Opp(o) = d /\ d # HERE /\ \A e \in Side : e = d \/ e = o
      /\ SCRATCH \in Cell /\ SCRATCH \notin Node /\ r \in Cell /\ r \in Pointer /\ NULL \in Pointer
  BY SideFacts DEF Cell, Pointer
<1>2. /\ c \in Memory /\ r \in M /\ SearchTree(c, r) /\ M \subseteq Node /\ P \subseteq Node
      /\ h \in Pointer /\ P = Elements(c, h) /\ SearchTree(c, h)
      /\ P \cap M = {} /\ l # r /\ l \notin M /\ c[d][l] = NULL
      /\ IF l = SCRATCH THEN h = NULL /\ P = {} ELSE h \in Node /\ l \in P
  <2>1. /\ c \in Memory /\ r \in M /\ P \cap M = {} /\ l # r /\ l \notin M /\ c[d][l] = NULL
        /\ h \in Pointer /\ P = Elements(c, h)
        /\ IF l = SCRATCH THEN h = NULL /\ P = {} ELSE h \in Node /\ l \in P
    <3>1. o \in Side /\ Opp(o) = d
      BY <1>1
    <3> HIDE DEF o
    <3>2. QED
      BY <3>1, PartsApart
  <2>2. SearchTree(c, r) /\ SearchTree(c, h)
    BY <1>1 DEF Opened
  <2>3. QED
    BY <2>1, <2>2, ElementsAreNodes
<1>3. l \in Cell /\ a2 \in [Side -> Cell] /\ \A e \in Side : a2[e] = IF e = o THEN r ELSE a[e]
  BY <1>1 DEF Ends
<1>4. c[d][r] = t /\ c[o][r] = u
  BY <1>1, <1>2, CutAtRoot
<1>5. t \in Node /\ t \in Pointer /\ SearchTree(c, t) /\ r \notin Elements(c, t)
      /\ Elements(c, t) \subseteq M
      /\ \A x \in Elements(c, t) : Toward(Key[x], r) = d
  BY <1>1, <1>2, <1>4, TreeAtRoot DEF Pointer
<1>6. u \in Pointer /\ SearchTree(c, u) /\ r \notin D /\ D \subseteq M
      /\ \A x \in D : Toward(Key[x], r) = o
  BY <1>1, <1>2, <1>4, TreeAtRoot
<1>7. M = {r} \cup Elements(c, t) \cup D
  BY <1>1, <1>2, <1>4, ElementsUnfold, SideFacts
<1>8. k2 \in Memory /\ \A e \in Side, m \in Cell : k2[e][m] = IF e = d /\ m = l THEN r ELSE k[e][m]
  <2>1. k2 = Put(k, d, l, r)
    BY DEF Link
  <2>2. k2 \in Memory
    BY <1>1, <1>3, <2>1, PutType
  <2>3. QED
    BY <2>1, <2>2, PutAt
<1> HIDE DEF k2, a2
<1>9. c1 \in Memory /\ \A e \in Side, m \in Cell : c1[e][m] = IF e = d /\ m = r THEN NULL ELSE c[e][m]
  <2>1. c1 \in Memory
    BY <1>1, <1>2, PutType
  <2>2. QED
    BY <1>2, <2>1, PutAt
<1>10. c2 \in Memory /\ \A e \in Side, m \in Cell :
          c2[e][m] = IF e = d /\ m = l THEN r ELSE c1[e][m]
  <2>1. c2 \in Memory
    BY <1>3, <1>8, CutType
  <2>2. ASSUME NEW e \in Side, NEW m \in Cell
        PROVE  c2[e][m] = IF e = d /\ m = l THEN r ELSE c1[e][m]
    <3>1. c2[e][m] = IF m = a2[Opp(e)] THEN NULL ELSE k2[e][m]
      BY <1>3, <1>8, CutAt
    <3>2. c[e][m] = IF m = a[Opp(e)] THEN NULL ELSE k[e][m]
      BY CutAt
    <3>3. CASE e = d
      BY <3>1, <3>2, <3>3, <1>1, <1>2, <1>3, <1>8, <1>9
    <3>4. CASE e = o
      BY <3>1, <3>2, <3>4, <1>1, <1>2, <1>3, <1>8, <1>9
    <3>5. QED
      BY <3>3, <3>4, <1>1
  <2>3. QED
    BY <2>1, <2>2
<1>11. /\ Turn(r) = d
       /\ \A s \in Side : \A m \in Part(k, a, s) :
             /\ m \in Node /\ Turn(m) = Opp(s)
             /\ m = a[s] \/ Toward(Key[a[s]], m) = Opp(s)
             /\ \A x \in M : Toward(Key[x], m) = Opp(s)
  BY ElementsAreNodes DEF Opened, Part
<1>12. k2[d][r] = t
  BY <1>1, <1>2, <1>8
<1> DEFINE Q == Part(k, a, d)
           g == c[o][SCRATCH]
<1>13. /\ g \in Pointer /\ SearchTree(c, g) /\ Q = Elements(c, g) /\ Q \subseteq Node
       /\ Q \cap M = {} /\ Q \cap P = {} /\ l \notin Q
       /\ a[d] \in Q \cup {SCRATCH}
  <2>1. /\ g \in Pointer /\ SearchTree(c, g) /\ Q = Elements(c, g) /\ Q \subseteq Node
        /\ Q \cap M = {} /\ Q \cap P = {} /\ a[d] \in Q \cup {SCRATCH}
    BY <1>1, PartsApart, ElementsAreNodes DEF Opened, Part
  <2>2. QED
    BY <1>1, <1>2, <2>1
<1> HIDE DEF o, c, t, u, l, k2, a2, c1, c2, M, P, h, D, Q, g
<1>14. SearchTree(c1, r) /\ Elements(c1, r) = {r} \cup D
  <2>1. c1[d][r] = NULL /\ c1[o][r] = u
    BY <1>1, <1>4, <1>9
  <2>2. SearchTree(c1, u) /\ Elements(c1, u) = D
    <3>1. \A m \in D, e \in Side : c1[e][m] = c[e][m]
      BY <1>2, <1>6, <1>9 DEF Cell
    <3>2. QED
      BY <1>2, <1>6, <1>9, <3>1, SearchTreeFrame DEF D
  <2>3. SearchTree(c1, NULL) /\ Elements(c1, NULL) = {}
    BY NullTree, NoElements
  <2>4. SearchTree(c1, r)
    BY <1>1, <1>6, <1>9, <2>1, <2>2, <2>3, MakeTree
  <2>5. Elements(c1, r) = {r} \cup Elements(c1, NULL) \cup Elements(c1, u)
    BY <1>1, <1>9, <2>1, ElementsUnfold, SideFacts
  <2>6. QED
    BY <2>2, <2>3, <2>4, <2>5
<1>15. SearchTree(c2, t) /\ Elements(c2, t) = Elements(c, t)
  <2>1. \A m \in Elements(c, t), e \in Side : c2[e][m] = c[e][m]
    BY <1>2, <1>5, <1>9, <1>10 DEF Cell
  <2>2. QED
    BY <1>2, <1>5, <1>10, <2>1, SearchTreeFrame
<1>16. /\ c2[o][SCRATCH] = g /\ SearchTree(c2, g) /\ Elements(c2, g) = Q
  <2>1. \A m \in Q, e \in Side : c2[e][m] = c[e][m]
    BY <1>2, <1>9, <1>10, <1>13 DEF Cell
  <2>2. c2[o][SCRATCH] = g
    BY <1>1, <1>9, <1>10 DEF g
  <2>3. QED
    BY <1>2, <1>10, <1>13, <2>1, <2>2, SearchTreeFrame
<1>17. /\ SearchTree(c2, c2[d][SCRATCH])
       /\ Elements(c2, c2[d][SCRATCH]) = P \cup {r} \cup D
  <2>1. CASE l = SCRATCH
    <3>1. c2[d][SCRATCH] = r
      BY <2>1, <1>1, <1>10
    <3>2. \A m \in Elements(c1, r), e \in Side : c2[e][m] = c1[e][m]
      BY <2>1, <1>1, <1>2, <1>6, <1>10, <1>14 DEF Cell
    <3>3. SearchTree(c2, r) /\ Elements(c2, r) = {r} \cup D
      BY <1>1, <1>9, <1>10, <1>14, <3>2, SearchTreeFrame
    <3>4. QED
      BY <2>1, <1>2, <3>1, <3>3
  <2>2. CASE l # SCRATCH
    <3>1. h \in Node /\ l \in P
      BY <2>2, <1>2
    <3>2. c2[d][SCRATCH] = h /\ c1[d][l] = NULL
      BY <2>2, <1>1, <1>2, <1>3, <1>9, <1>10 DEF h
    <3>3. SearchTree(c1, h) /\ Elements(c1, h) = P
      <4>1. \A m \in P, e \in Side : c1[e][m] = c[e][m]
        BY <1>2, <1>9 DEF Cell
      <4>2. QED
        BY <1>2, <1>9, <4>1, SearchTreeFrame
    <3>4. \A m \in P : /\ m = l \/ Toward(Key[l], m) = d
                       /\ \A x \in Elements(c1, r) : Toward(Key[x], m) = d
      BY <1>1, <1>2, <1>6, <1>11, <1>14 DEF l, P
    <3>5. c2 = Put(c1, d, l, r)
      <4>1. Put(c1, d, l, r) \in Memory
        BY <1>1, <1>3, <1>9, PutType
      <4>2. \A e \in Side, m \in Cell : c2[e][m] = Put(c1, d, l, r)[e][m]
        BY <1>9, <1>10, PutAt
      <4>3. QED
        BY <1>10, <4>1, <4>2, MemoryEqual
    <3>6. SearchTree(c2, h) /\ Elements(c2, h) = P \cup Elements(c1, r)
      BY <1>1, <1>9, <1>14, <3>1, <3>2, <3>3, <3>4, <3>5, Graft
    <3>7. QED
      BY <1>14, <3>2, <3>6
  <2>3. QED
    BY <2>1, <2>2
<1>18. /\ Part(k2, a2, o) = P \cup {r} \cup D
       /\ Part(k2, a2, d) = Q
  BY <1>1, <1>16, <1>17 DEF Part, c2, o
<1>19. ASSUME NEW m \in P \cup {r} \cup D
       PROVE  /\ Turn(m) = d
              /\ m = r \/ Toward(Key[r], m) = d
              /\ \A x \in Elements(c, t) : Toward(Key[x], m) = d
  <2>1. CASE m \in P
    BY <2>1, <1>1, <1>2, <1>5, <1>11 DEF P
  <2>2. CASE m = r
    BY <2>2, <1>5, <1>11
  <2>3. CASE m \in D
    <3>1. m \in Node /\ Toward(Key[m], r) = o
      BY <2>3, <1>2, <1>6
    <3>2. Toward(Key[r], m) = d
      BY <1>1, <3>1, TowardFacts
    <3>3. Turn(m) = d
      BY <1>11, <3>1, <3>2, TurnFacts
    <3>4. ASSUME NEW x \in Elements(c, t) PROVE Toward(Key[x], m) = d
      <4>1. x \in Node /\ Toward(Key[x], r) = d
        BY <1>2, <1>5
      <4>2. QED
        BY <3>1, <3>2, <4>1, TowardTransitive
    <3>5. QED
      BY <3>2, <3>3, <3>4
  <2>4. QED
    BY <2>1, <2>2, <2>3
<1>20. Opened(k2, a2, t)
  <2>1. ASSUME NEW s \in Side
        PROVE  /\ SearchTree(c2, c2[Opp(s)][SCRATCH])
               /\ a2[s] \in Part(k2, a2, s) \cup {SCRATCH}
               /\ \A m \in Part(k2, a2, s) :
                     /\ Turn(m) = Opp(s)
                     /\ m = a2[s] \/ Toward(Key[a2[s]], m) = Opp(s)
                     /\ \A x \in Elements(c2, t) : Toward(Key[x], m) = Opp(s)
    <3>1. CASE s = o
      BY <3>1, <1>1, <1>3, <1>15, <1>17, <1>18, <1>19
    <3>2. CASE s = d
      <4>1. Opp(s) = o /\ a2[s] = a[s] /\ Part(k2, a2, s) = Q
        BY <3>2, <1>1, <1>3, <1>18 DEF o
      <4>2. \A m \in Q : /\ Turn(m) = Opp(s)
                         /\ m = a[s] \/ Toward(Key[a[s]], m) = Opp(s)
                         /\ \A x \in M : Toward(Key[x], m) = Opp(s)
        BY <3>2, <1>11 DEF Q
      <4>3. QED
        BY <3>2, <4>1, <4>2, <1>5, <1>13, <1>15, <1>16
    <3>3. QED
      BY <3>1, <3>2, <1>1
  <2>2. QED
    BY <1>15, <2>1 DEF Opened, c2
<1>21. \A e \in Side, m \in Cell : m # r /\ m # l => c2[e][m] = c[e][m]
  BY <1>9, <1>10
<1>22. Elements(c2, t) \cup Part(k2, a2, o) = M \cup P
  BY <1>7, <1>15, <1>18
<1>23. QED
  BY <1>3, <1>8, <1>12, <1>18, <1>20, <1>21, <1>22 DEF o, c, t, k2, a2, c2, l, M, P, Q

(* At the end of a splay each kid of the root goes to the end of the part   *)
(* on its side, and the part becomes the kid.                               *)
LEMMA AssembleSide ==
  ASSUME NEW k \in Memory, NEW a \in [Side -> Cell], NEW r \in Node, Opened(k, a, r),
         NEW s \in Side
  PROVE  LET c  == Cut(k, a)
             k2 == Assemble(k, a, r)
         IN  /\ SearchTree(k2, k2[s][r])
             /\ Elements(k2, k2[s][r]) = Part(k, a, s) \cup Elements(c, c[s][r])
<1> DEFINE o  == Opp(s)
           c  == Cut(k, a)
           k2 == Assemble(k, a, r)
           h  == c[o][SCRATCH]
           P  == Part(k, a, s)
           M  == Elements(c, r)
           x  == c[s][r]
           X  == Elements(c, x)
<1>1. /\ o \in Side /\ o # s /\ Opp(o) = s /\ \A e \in Side : e = s \/ e = o
      /\ SCRATCH \in Cell /\ SCRATCH \notin Node /\ r \in Cell
  BY SideFacts DEF Cell
<1>2. /\ c \in Memory /\ r \in M /\ h \in Pointer /\ P = Elements(c, h)
      /\ P \cap M = {} /\ P \cap Part(k, a, o) = {} /\ a[s] \notin M /\ c[o][a[s]] = NULL
      /\ IF a[s] = SCRATCH THEN h = NULL /\ P = {} ELSE h \in Node /\ a[s] \in P
  BY PartsApart
<1>3. /\ SearchTree(c, r) /\ SearchTree(c, h)
      /\ \A m \in P : /\ m = a[s] \/ Toward(Key[a[s]], m) = o
                      /\ \A y \in M : Toward(Key[y], m) = o
  BY DEF Opened
<1>4. a[o] \notin P /\ a[o] \notin M /\ a[LEFT] # r /\ a[RIGHT] # r
  <2>1. a[o] \in Part(k, a, o) \cup {SCRATCH}
    BY <1>1 DEF Opened
  <2>2. P \subseteq Node
    BY <1>2, ElementsAreNodes
  <2>3. \A e \in Side : a[e] # r /\ a[e] \notin M
    BY PartsApart
  <2>4. QED
    BY <1>1, <1>2, <2>1, <2>2, <2>3, SideFacts
<1>5. x = k[s][r] /\ x \in Pointer /\ SearchTree(c, x) /\ r \notin X /\ X \subseteq M
  <2>1. x = k[s][r]
    BY <1>2, CutAtRoot
  <2>2. QED
    BY <1>2, <1>3, <2>1, TreeAtRoot
<1>6. k2 \in Memory /\ \A e \in Side, m \in Cell :
         k2[e][m] = IF m = SCRATCH THEN NULL
                    ELSE IF m = r THEN IF a[e] = SCRATCH THEN k[e][r] ELSE k[Opp(e)][SCRATCH]
                    ELSE IF m = a[Opp(e)] THEN k[Opp(e)][r] ELSE k[e][m]
  BY <1>4, AssembleAt
<1>7. \A e \in Side, m \in Cell : c[e][m] = IF m = a[Opp(e)] THEN NULL ELSE k[e][m]
  BY CutAt
<1>8. k2[s][r] = IF a[s] = SCRATCH THEN x ELSE h
  <2>1. h = k[o][SCRATCH] \/ a[s] = SCRATCH
    BY <1>1, <1>7
  <2>2. QED
    BY <1>1, <1>5, <1>6, <2>1
<1> HIDE DEF o, c, k2, h, P, M, x, X
<1>9. \A m \in X, e \in Side : /\ k2[e][m] = c[e][m]
                               /\ m # a[s] /\ m \in Cell
  <2>1. SUFFICES ASSUME NEW m \in X, NEW e \in Side
                 PROVE  k2[e][m] = c[e][m] /\ m # a[s] /\ m \in Cell
    OBVIOUS
  <2>2. m \in Node /\ m \in Cell /\ m # r /\ m # SCRATCH /\ m # a[s] /\ m # a[o]
    BY <1>1, <1>2, <1>4, <1>5, ElementsAreNodes DEF Cell, X
  <2>3. m # a[Opp(e)]
    BY <1>1, <2>2 DEF o
  <2>4. QED
    BY <1>6, <1>7, <2>2, <2>3
<1>10. CASE a[s] = SCRATCH
  <2>1. SearchTree(k2, x) /\ Elements(k2, x) = X
    BY <1>2, <1>5, <1>6, <1>9, SearchTreeFrame DEF X
  <2>2. QED
    BY <1>2, <1>8, <1>10, <2>1 DEF c, k2, x, X, P
<1>11. CASE a[s] # SCRATCH
  <2> DEFINE g == Put(c, o, a[s], x)
  <2>1. h \in Node /\ a[s] \in P
    BY <1>2, <1>11
  <2>2. \A m \in P : /\ m = a[s] \/ Toward(Key[a[s]], m) = o
                     /\ \A y \in X : Toward(Key[y], m) = o
    BY <1>3, <1>5
  <2>3. g \in Memory /\ SearchTree(g, h) /\ Elements(g, h) = P \cup X
    BY <1>1, <1>2, <1>3, <1>5, <2>1, <2>2, Graft DEF X
  <2>4. \A e \in Side, m \in Cell : g[e][m] = IF e = o /\ m = a[s] THEN x ELSE c[e][m]
    BY <1>1, <1>2, PutAt
  <2> HIDE DEF g
  <2>5. ASSUME NEW m \in P, NEW e \in Side
        PROVE  k2[e][m] = g[e][m]
    <3>1. m \in Cell /\ m # r /\ m # SCRATCH /\ m # a[o]
      BY <1>1, <1>2, <1>4, ElementsAreNodes DEF Cell
    <3>2. CASE e = o
      BY <1>1, <1>5, <1>6, <1>7, <2>4, <3>1, <3>2
    <3>3. CASE e = s
      BY <1>1, <1>6, <1>7, <2>4, <3>1, <3>3 DEF o
    <3>4. QED
      BY <1>1, <3>2, <3>3
  <2>6. \A m \in P \cup X, e \in Side : k2[e][m] = g[e][m]
    BY <1>9, <2>4, <2>5
  <2>7. SearchTree(k2, h) /\ Elements(k2, h) = P \cup X
    BY <1>2, <1>6, <2>3, <2>6, SearchTreeFrame
  <2>8. QED
    BY <1>8, <1>11, <2>7 DEF c, k2, x, X, P
<1>12. QED
  BY <1>10, <1>11

LEMMA AssembleOpened ==
  ASSUME NEW k \in Memory, NEW a \in [Side -> Cell], NEW r \in Node, Opened(k, a, r),
         Turn(r) = HERE \/ \E d \in Side : Turn(r) = d /\ k[d][r] = NULL
  PROVE  LET c  == Cut(k, a)
             k2 == Assemble(k, a, r)
             E  == Elements(c, r) \cup Part(k, a, LEFT) \cup Part(k, a, RIGHT)
         IN  /\ k2 \in Memory /\ Whole(k2, Apart)
             /\ SearchTree(k2, r) /\ Elements(k2, r) = E /\ Splayed(k2, r)
             /\ \A e \in Side, m \in Node : m \notin E => k2[e][m] = c[e][m]
<1> DEFINE c  == Cut(k, a)
           k2 == Assemble(k, a, r)
           M  == Elements(c, r)
           E  == M \cup Part(k, a, LEFT) \cup Part(k, a, RIGHT)
<1>1. /\ SCRATCH \in Cell /\ SCRATCH \notin Node /\ r \in Cell
      /\ \A s \in Side : s = LEFT \/ s = RIGHT
  BY SideFacts DEF Cell, Side
<1>2. SCRATCH # r /\ \A s \in Side : a[s] # r /\ a[s] \in Part(k, a, s) \cup {SCRATCH}
  BY PartsApart, SideFacts DEF Opened
<1>3. c \in Memory /\ SearchTree(c, r) /\ r \in M /\ \A s \in Side : c[s][r] = k[s][r]
  BY PartsApart, CutAtRoot, SideFacts DEF Opened
<1>4. k2 \in Memory /\ \A e \in Side, m \in Cell :
         k2[e][m] = IF m = SCRATCH THEN NULL
                    ELSE IF m = r THEN IF a[e] = SCRATCH THEN k[e][r] ELSE k[Opp(e)][SCRATCH]
                    ELSE IF m = a[Opp(e)] THEN k[Opp(e)][r] ELSE k[e][m]
  BY <1>2, SideFacts, AssembleAt
<1>5. \A e \in Side, m \in Cell : c[e][m] = IF m = a[Opp(e)] THEN NULL ELSE k[e][m]
  BY CutAt
<1>6. \A s \in Side : /\ SearchTree(k2, k2[s][r])
                      /\ Elements(k2, k2[s][r]) = Part(k, a, s) \cup Elements(c, c[s][r])
  BY AssembleSide
<1>7. \A s \in Side : \A m \in Part(k, a, s) : m \in Node /\ Toward(Key[m], r) = s /\ Turn(m) = Opp(s)
  <2>1. SUFFICES ASSUME NEW s \in Side, NEW m \in Part(k, a, s)
                 PROVE  m \in Node /\ Toward(Key[m], r) = s /\ Turn(m) = Opp(s)
    OBVIOUS
  <2>2. m \in Node
    BY ElementsAreNodes DEF Part
  <2>3. Toward(Key[r], m) = Opp(s) /\ Turn(m) = Opp(s)
    BY <1>3 DEF Opened
  <2>4. QED
    BY <2>2, <2>3, TowardFacts, SideFacts
<1>8. \A s \in Side : \A m \in Elements(c, c[s][r]) : Toward(Key[m], r) = s
  BY <1>3, TreeAtRoot
<1>9. M = {r} \cup Elements(c, c[LEFT][r]) \cup Elements(c, c[RIGHT][r])
  BY <1>3, ElementsUnfold
<1> HIDE DEF c, k2, M
<1>10. SearchTree(k2, r)
  BY <1>4, <1>6, <1>7, <1>8, MakeTree
<1>11. Elements(k2, r) = E
  <2>1. Elements(k2, r) = {r} \cup Elements(k2, k2[LEFT][r]) \cup Elements(k2, k2[RIGHT][r])
    BY <1>4, ElementsUnfold
  <2>2. QED
    BY <2>1, <1>6, <1>9, SideFacts
<1>12. Splayed(k2, r)
  <2>1. SUFFICES ASSUME NEW m \in Elements(k2, r), Turn(r) # HERE, Toward(Key[m], r) = Turn(r)
                 PROVE  Turn(m) = Opp(Turn(r))
    BY DEF Splayed
  <2>2. PICK d \in Side : Turn(r) = d /\ k[d][r] = NULL
    BY <2>1
  <2>3. m \in Elements(k2, k2[d][r])
    BY <1>4, <1>10, <2>1, <2>2, SideOfRoot
  <2>4. m \in Part(k, a, d)
    BY <1>3, <1>6, <2>2, <2>3, NoElements
  <2>5. QED
    BY <1>7, <2>2, <2>4
<1>13. Whole(k2, Apart)
  BY <1>1, <1>4 DEF Whole
<1>14. ASSUME NEW e \in Side, NEW m \in Node, m \notin E
       PROVE  k2[e][m] = c[e][m]
  <2>1. m \in Cell /\ m # r /\ m # SCRATCH
    BY <1>1, <1>3, <1>14 DEF Cell
  <2>2. m # a[Opp(e)]
    BY <1>1, <1>2, <1>14, SideFacts
  <2>3. QED
    BY <1>4, <1>5, <2>1, <2>2
<1>15. QED
  BY <1>4, <1>10, <1>11, <1>12, <1>13, <1>14 DEF c, k2, M
-----------------------------------------------------------------------------
(* Taking apart, rotating and assembling keep the elements, and assign      *)
(* nothing to others.                                                       *)
Kept(k, a, r, k2, a2, r2) ==
    /\ Pieces(k2, a2, r2) = Pieces(k, a, r)
    /\ \A e \in Side, m \in Node :
          m \notin Pieces(k, a, r) => Cut(k2, a2)[e][m] = Cut(k, a)[e][m]

LEMMA DescendKept ==
  ASSUME NEW k \in Memory, NEW a \in [Side -> Cell], NEW r \in Node, Opened(k, a, r),
         Calling, pc # "idle", NEW d \in Side, k[d][r] \in Node, Turn(r) = d
  PROVE  LET t  == k[d][r]
             k2 == Link(k, a, r, d)
             a2 == Ends(a, r, d)
         IN  /\ k2 \in Memory /\ a2 \in [Side -> Cell] /\ k2[d][r] = t
             /\ Opened(k2, a2, t) /\ Kept(k, a, r, k2, a2, t)
<1> DEFINE t  == k[d][r]
           k2 == Link(k, a, r, d)
           a2 == Ends(a, r, d)
           c  == Cut(k, a)
           c2 == Cut(k2, a2)
<1>1. /\ k2 \in Memory /\ a2 \in [Side -> Cell] /\ k2[d][r] = t
      /\ Opened(k2, a2, t)
      /\ Part(k2, a2, d) = Part(k, a, d)
      /\ Elements(c2, t) \cup Part(k2, a2, Opp(d)) = Elements(c, r) \cup Part(k, a, Opp(d))
      /\ \A e \in Side, m \in Cell : m # r /\ m # a[Opp(d)] => c2[e][m] = c[e][m]
  BY LinkOpened
<1> HIDE DEF t, k2, a2, c, c2
<1>2. Pieces(k2, a2, t) = Pieces(k, a, r)
  BY <1>1 DEF Pieces, c, c2, Side, Opp
<1>3. ASSUME NEW m \in Node, m \notin Pieces(k, a, r)
      PROVE  m \in Cell /\ m # r /\ m # a[Opp(d)]
  <2>1. r \in Pieces(k, a, r)
    BY PartsApart, SideFacts DEF Pieces
  <2>2. a[Opp(d)] \in Pieces(k, a, r) \cup {SCRATCH}
    BY DEF Opened, Pieces, Side, Opp
  <2>3. QED
    BY <1>3, <2>1, <2>2, SideFacts DEF Cell
<1>4. QED
  BY <1>1, <1>2, <1>3 DEF Kept, t, k2, a2, c, c2

LEMMA RotateKept ==
  ASSUME NEW k \in Memory, NEW a \in [Side -> Cell], NEW r \in Node, Opened(k, a, r),
         NEW d \in Side, k[d][r] \in Node
  PROVE  LET t  == k[d][r]
             k2 == Rotate(k, r, d)
         IN  /\ k2 \in Memory /\ k2[d][t] = k[d][t]
             /\ Opened(k2, a, t) /\ Kept(k, a, r, k2, a, t)
<1> DEFINE t  == k[d][r]
           k2 == Rotate(k, r, d)
<1>1. /\ k2 \in Memory /\ k2[d][t] = k[d][t] /\ Opened(k2, a, t)
      /\ Elements(Cut(k2, a), t) = Elements(Cut(k, a), r)
      /\ \A s \in Side : Part(k2, a, s) = Part(k, a, s)
      /\ \A e \in Side, m \in Cell :
            m \notin Elements(Cut(k, a), r) => Cut(k2, a)[e][m] = Cut(k, a)[e][m]
  BY RotateOpened
<1> HIDE DEF t, k2
<1>2. QED
  BY <1>1, SideFacts DEF Kept, Pieces, Cell, t, k2

LEMMA KeptTwice ==
  ASSUME NEW k, NEW a, NEW r, NEW k2, NEW a2, NEW r2, NEW k3, NEW a3, NEW r3,
         Kept(k, a, r, k2, a2, r2), Kept(k2, a2, r2, k3, a3, r3)
  PROVE  Kept(k, a, r, k3, a3, r3)
BY DEF Kept

LEMMA FinishKept ==
  ASSUME NEW k \in Memory, NEW a \in [Side -> Cell], NEW r \in Node, Opened(k, a, r),
         Turn(r) = HERE \/ \E d \in Side : Turn(r) = d /\ k[d][r] = NULL
  PROVE  LET k2 == Assemble(k, a, r)
         IN  /\ k2 \in Memory /\ Whole(k2, Apart) /\ SearchTree(k2, r) /\ Splayed(k2, r)
             /\ Kept(k, a, r, k2, Apart, r)
<1> DEFINE k2 == Assemble(k, a, r)
<1>1. /\ k2 \in Memory /\ Whole(k2, Apart) /\ SearchTree(k2, r) /\ Splayed(k2, r)
      /\ Elements(k2, r) = Pieces(k, a, r)
      /\ \A e \in Side, m \in Node : m \notin Pieces(k, a, r) => k2[e][m] = Cut(k, a)[e][m]
  BY AssembleOpened DEF Pieces
<1> HIDE DEF k2
<1>2. Cut(k2, Apart) = k2 /\ Part(k2, Apart, LEFT) = {} /\ Part(k2, Apart, RIGHT) = {}
  BY <1>1, WholeCut, SideFacts
<1>3. Pieces(k2, Apart, r) = Elements(k2, r)
  BY <1>2 DEF Pieces
<1>4. QED
  BY <1>1, <1>2, <1>3 DEF Kept, k2

LEMMA WholePieces ==
  ASSUME NEW k \in Memory, NEW a, Whole(k, a), NEW r
  PROVE  Pieces(k, a, r) = Elements(k, r)
BY WholeCut, SideFacts DEF Pieces

(* A splay starts with empty parts.                                         *)
LEMMA StartWhole ==
  ASSUME NEW k \in Memory, NEW a, Whole(k, a)
  PROVE  PutBoth(k, SCRATCH, NULL, NULL) = k /\ a = Apart
<1>1. SCRATCH \in Cell /\ NULL \in Pointer
  BY DEF Cell, Pointer
<1>2. PutBoth(k, SCRATCH, NULL, NULL) \in Memory
  BY <1>1, PutBothType
<1>3. \A e \in Side, m \in Cell : PutBoth(k, SCRATCH, NULL, NULL)[e][m] = k[e][m]
  BY <1>1, PutBothAt DEF Whole
<1>4. QED
  BY <1>2, <1>3, MemoryEqual DEF Whole
-----------------------------------------------------------------------------
LEMMA ZigStep ==
  ASSUME TypeOK, Shape, NEW d \in Side, Zig(d)
  PROVE  /\ kid' \in Memory /\ acc' \in [Side -> Cell] /\ root' \in Node
         /\ Opened(kid', acc', root') /\ Kept(kid, acc, root, kid', acc', root')
<1>1. /\ kid \in Memory /\ acc \in [Side -> Cell] /\ root \in Node
      /\ Opened(kid, acc, root) /\ Calling /\ pc # "idle"
  BY DEF TypeOK, Shape, Zig, Splaying, Pointer
<1>2. kid[d][root] \in Node /\ Turn(root) = d
  BY <1>1, KidType DEF Zig, Splaying, Pointer, Cell
<1>3. /\ kid' = Link(kid, acc, root, d) /\ acc' = Ends(acc, root, d)
      /\ root' = kid'[d][root]
  BY DEF Zig, Descend
<1>4. QED
  BY <1>1, <1>2, <1>3, DescendKept

LEMMA ZigZigStep ==
  ASSUME TypeOK, Shape, NEW d \in Side, ZigZig(d)
  PROVE  /\ kid' \in Memory /\ acc' \in [Side -> Cell] /\ root' \in Node
         /\ Opened(kid', acc', root') /\ Kept(kid, acc, root, kid', acc', root')
<1> DEFINE t == kid[d][root]
           k == Rotate(kid, root, d)
<1>1. /\ kid \in Memory /\ acc \in [Side -> Cell] /\ root \in Node
      /\ Opened(kid, acc, root) /\ Calling /\ pc # "idle"
  BY DEF TypeOK, Shape, ZigZig, Splaying, Pointer
<1>2. t \in Node /\ Turn(t) = d /\ kid[d][t] \in Node
  BY <1>1, KidType DEF ZigZig, Splaying, Pointer, Cell
<1>3. k \in Memory /\ k[d][t] = kid[d][t] /\ Opened(k, acc, t) /\ Kept(kid, acc, root, k, acc, t)
  BY <1>1, <1>2, RotateKept
<1>4. kid' = Link(k, acc, t, d) /\ acc' = Ends(acc, t, d) /\ root' = kid'[d][t]
  BY DEF ZigZig, Descend
<1> HIDE DEF t, k
<1>5. /\ kid' \in Memory /\ acc' \in [Side -> Cell] /\ root' \in Node
      /\ Opened(kid', acc', root') /\ Kept(k, acc, t, kid', acc', root')
  BY <1>1, <1>2, <1>3, <1>4, DescendKept
<1>6. QED
  BY <1>3, <1>5, KeptTwice

LEMMA StopStep ==
  ASSUME TypeOK, Shape, Stop
  PROVE  /\ kid' \in Memory /\ acc' = Apart /\ root' \in Node
         /\ Whole(kid', acc') /\ SearchTree(kid', root') /\ Splayed(kid', root')
         /\ Kept(kid, acc, root, kid', acc', root')
<1>1. kid \in Memory /\ acc \in [Side -> Cell] /\ root \in Node /\ Opened(kid, acc, root)
  BY DEF TypeOK, Shape, Stop, Pointer
<1>2. Turn(root) = HERE \/ \E d \in Side : Turn(root) = d /\ kid[d][root] = NULL
  BY DEF Stop
<1>3. kid' = Assemble(kid, acc, root) /\ acc' = Apart /\ root' = root
  BY DEF Stop, Finish
<1>4. QED
  BY <1>1, <1>2, <1>3, FinishKept

LEMMA RotateAndStopStep ==
  ASSUME TypeOK, Shape, NEW d \in Side, RotateAndStop(d)
  PROVE  /\ kid' \in Memory /\ acc' = Apart /\ root' \in Node
         /\ Whole(kid', acc') /\ SearchTree(kid', root') /\ Splayed(kid', root')
         /\ Kept(kid, acc, root, kid', acc', root')
<1> DEFINE t == kid[d][root]
           k == Rotate(kid, root, d)
<1>1. kid \in Memory /\ acc \in [Side -> Cell] /\ root \in Node /\ Opened(kid, acc, root)
  BY DEF TypeOK, Shape, RotateAndStop, Splaying, Pointer
<1>2. t \in Node /\ Turn(t) = d /\ kid[d][t] = NULL
  BY <1>1, KidType DEF RotateAndStop, Splaying, Pointer, Cell
<1>3. k \in Memory /\ k[d][t] = NULL /\ Opened(k, acc, t) /\ Kept(kid, acc, root, k, acc, t)
  BY <1>1, <1>2, RotateKept
<1>4. kid' = Assemble(k, acc, t) /\ acc' = Apart /\ root' = t
  BY DEF RotateAndStop, Finish
<1> HIDE DEF t, k
<1>5. /\ kid' \in Memory /\ Whole(kid', acc') /\ SearchTree(kid', root') /\ Splayed(kid', root')
      /\ Kept(k, acc, t, kid', acc', root')
  BY <1>1, <1>2, <1>3, <1>4, FinishKept
<1>6. QED
  BY <1>2, <1>3, <1>4, <1>5, KeptTwice

(* What a step of a splay leaves alone, and where the call is after it.     *)
LEMMA SplayPlace ==
  ASSUME pc \in {"splay", "join"}, Splay
  PROVE  /\ UNCHANGED <<call, tmp, gone, result>>
         /\ \/ pc' = pc /\ \E d \in Side : Zig(d) \/ ZigZig(d)
            \/ /\ pc' = IF pc = "splay" THEN "top" ELSE "joined"
               /\ Stop \/ \E d \in Side : RotateAndStop(d)
BY DEF Splay, Stop, Zig, ZigZig, RotateAndStop, Descend, Finish

LEMMA SplayStep ==
  ASSUME TypeOK, Shape, Splay
  PROVE  /\ kid' \in Memory /\ acc' \in [Side -> Cell] /\ root' \in Node
         /\ Kept(kid, acc, root, kid', acc', root')
         /\ UNCHANGED <<call, tmp, gone, result>>
         /\ pc \in {"splay", "join"}
         /\ \/ pc' = pc /\ Opened(kid', acc', root')
            \/ /\ pc' = IF pc = "splay" THEN "top" ELSE "joined"
               /\ Whole(kid', acc') /\ SearchTree(kid', root') /\ Splayed(kid', root')
<1>1. pc \in {"splay", "join"}
  BY DEF Splay, Stop, Zig, ZigZig, RotateAndStop, Splaying
<1>2. Apart \in [Side -> Cell]
  BY DEF Apart, Cell
<1>3. QED
  BY <1>1, <1>2, SplayPlace, ZigStep, ZigZigStep, StopStep, RotateAndStopStep

(* The right side of what is removed waits untouched while the left side is *)
(* splayed.                                                                 *)
LEMMA RestKept ==
  ASSUME TypeOK, Removing, gone # NULL, kid' \in Memory, acc' \in [Side -> Cell],
         Kept(kid, acc, root, kid', acc', root')
  PROVE  /\ Elements(Cut(kid', acc'), tmp) = Elements(Cut(kid, acc), tmp)
         /\ SearchTree(Cut(kid', acc'), tmp)
<1> DEFINE c  == Cut(kid, acc)
           c2 == Cut(kid', acc')
<1>1. c \in Memory /\ c2 \in Memory /\ tmp \in Pointer /\ gone \in Node
  BY CutType DEF TypeOK, Pointer
<1>2. /\ SearchTree(c, tmp)
      /\ \A x \in Elements(c, tmp) : Toward(Key[x], gone) = RIGHT
      /\ \A x \in Pieces(kid, acc, root) : Toward(Key[x], gone) = LEFT
  BY DEF Removing, Rest
<1>3. \A m \in Elements(c, tmp) : m \in Node /\ m \notin Pieces(kid, acc, root)
  BY <1>2, SideFacts, ElementsAreNodes
<1>4. \A m \in Elements(c, tmp), e \in Side : c2[e][m] = c[e][m]
  BY <1>3 DEF Kept
<1> HIDE DEF c, c2
<1>5. Elements(c2, tmp) = Elements(c, tmp) /\ SearchTree(c2, tmp)
  BY <1>1, <1>2, <1>4, SearchTreeFrame
<1>6. QED
  BY <1>5 DEF c, c2

LEMMA SplayHeld ==
  ASSUME TypeOK, Shape, Removing, Splay
  PROVE  /\ Held' = Held /\ Rest' = Rest
         /\ gone # NULL => SearchTree(Cut(kid', acc'), tmp)
<1>1. /\ kid' \in Memory /\ acc' \in [Side -> Cell] /\ gone' = gone /\ tmp' = tmp
      /\ Kept(kid, acc, root, kid', acc', root')
  BY SplayStep
<1>2. Rest' = Rest /\ (gone # NULL => SearchTree(Cut(kid', acc'), tmp))
  BY <1>1, RestKept DEF Rest
<1>3. Pieces(kid', acc', root') = Pieces(kid, acc, root)
  BY <1>1 DEF Kept
<1>4. QED
  BY <1>1, <1>2, <1>3 DEF Held

LEMMA SplayInv ==
  ASSUME Inv, Splay
  PROVE  Inv'
<1>1. TypeOK /\ Shape /\ OnTop /\ Removing /\ Walking /\ RequestedOnTop
  BY DEF Inv
<1>2. /\ kid' \in Memory /\ acc' \in [Side -> Cell] /\ root' \in Node
      /\ Kept(kid, acc, root, kid', acc', root')
      /\ UNCHANGED <<call, tmp, gone, result>>
      /\ pc \in {"splay", "join"}
      /\ \/ pc' = pc /\ Opened(kid', acc', root')
         \/ /\ pc' = IF pc = "splay" THEN "top" ELSE "joined"
            /\ Whole(kid', acc') /\ SearchTree(kid', root') /\ Splayed(kid', root')
  BY <1>1, SplayStep
<1>3. /\ Held' = Held /\ Rest' = Rest /\ Pieces(kid', acc', root') = Pieces(kid, acc, root)
      /\ gone # NULL => SearchTree(Cut(kid', acc'), tmp)
  BY <1>1, <1>2, SplayHeld DEF Kept
<1>4. TypeOK'
  BY <1>1, <1>2 DEF TypeOK, Calling, Pointer
<1>5. Shape'
  BY <1>2, SideFacts DEF Shape, Opened, Turn
<1>6. OnTop'
  BY <1>2 DEF OnTop, Splayed, Turn
<1>7. Removing'
  <2>1. (gone # NULL <=> pc \in {"join", "joined"})'
    BY <1>1, <1>2 DEF Removing
  <2>2. ASSUME gone # NULL
        PROVE  /\ call[1] = "remove" /\ Key[gone] = Key[call[2]]
               /\ \A x \in Rest : Toward(Key[x], gone) = RIGHT
               /\ \A x \in Pieces(kid, acc, root) : Toward(Key[x], gone) = LEFT
    BY <1>1, <2>2 DEF Removing
  <2>3. root' # NULL
    BY <1>2, SideFacts
  <2>4. QED
    BY <1>2, <1>3, <2>1, <2>2, <2>3 DEF Removing
<1>8. Walking'
  BY <1>1, <1>2, <1>3 DEF Walking
<1>9. RequestedOnTop'
  BY <1>2 DEF RequestedOnTop
<1>10. QED
  BY <1>4, <1>5, <1>6, <1>7, <1>8, <1>9 DEF Inv
-----------------------------------------------------------------------------
LEMMA WholeOpened ==
  ASSUME NEW k \in Memory, NEW a, Whole(k, a), NEW r, SearchTree(k, r)
  PROVE  /\ SearchTree(Cut(k, a), r)
         /\ \A s \in Side : /\ SearchTree(Cut(k, a), Cut(k, a)[Opp(s)][SCRATCH])
                            /\ a[s] = SCRATCH /\ Part(k, a, s) = {}
<1>1. Cut(k, a) = k /\ \A s \in Side : Part(k, a, s) = {}
  BY WholeCut
<1>2. \A s \in Side : a[s] = SCRATCH /\ k[Opp(s)][SCRATCH] = NULL
  BY SideFacts DEF Whole, Apart
<1>3. QED
  BY <1>1, <1>2, NullTree

(* When no tree is taken apart, what is held hangs from the root.           *)
LEMMA WholeState ==
  ASSUME Inv, pc \notin {"splay", "join"}
  PROVE  /\ kid \in Memory /\ Whole(kid, acc) /\ SearchTree(kid, root) /\ root \in Pointer
         /\ Pieces(kid, acc, root) = Elements(kid, root) /\ Cut(kid, acc) = kid
         /\ gone = NULL => Held = Elements(kid, root) /\ Rest = {}
         /\ gone # NULL <=> pc = "joined"
<1>1. TypeOK /\ Shape /\ Removing
  BY DEF Inv
<1>2. kid \in Memory /\ root \in Pointer /\ Whole(kid, acc) /\ SearchTree(kid, root)
  BY <1>1 DEF TypeOK, Shape
<1>3. Pieces(kid, acc, root) = Elements(kid, root) /\ Cut(kid, acc) = kid
  BY <1>2, WholePieces, WholeCut
<1>4. gone # NULL <=> pc = "joined"
  BY <1>1 DEF Removing
<1>5. QED
  BY <1>2, <1>3, <1>4 DEF Held, Rest

LEMMA BeginStays ==
  ASSUME Inv, NEW op, NEW e, Begin(op, e)
  PROVE  /\ UNCHANGED <<kid, acc, root, tmp, gone>> /\ call' = <<op, e>> /\ result' = NULL
         /\ pc = "idle" /\ pc' = IF root = NULL THEN "top" ELSE "splay"
<1>1. pc = "idle" /\ kid \in Memory /\ Whole(kid, acc)
  BY WholeState DEF Begin
<1>2. PutBoth(kid, SCRATCH, NULL, NULL) = kid /\ acc = Apart
  BY <1>1, StartWhole
<1>3. QED
  BY <1>1, <1>2 DEF Begin, Start

LEMMA CallsInv ==
  ASSUME Inv, Calls
  PROVE  Inv' /\ Held' = Held
<1>1. PICK op \in {"min", "max", "insert", "remove", "find", "next"}, e \in Pointer :
         /\ Begin(op, e)
         /\ op \in {"min", "max"} => e = NULL
         /\ op \notin {"min", "max"} => e \in Node
         /\ op = "next" => e \in Elements(kid, root)
  BY UsesAssumption, ElementsAreNodes DEF Calls, Pointer
<1>2. /\ UNCHANGED <<kid, acc, root, tmp, gone>> /\ call' = <<op, e>> /\ result' = NULL
      /\ pc = "idle" /\ pc' = IF root = NULL THEN "top" ELSE "splay"
  BY <1>1, BeginStays
<1>3. /\ kid \in Memory /\ Whole(kid, acc) /\ SearchTree(kid, root) /\ root \in Pointer
      /\ Held = Elements(kid, root) /\ gone = NULL
  BY <1>2, WholeState
<1>4. Held' = Held
  BY <1>2 DEF Held, Rest
<1>5. TypeOK'
  BY <1>1, <1>2 DEF Inv, TypeOK, Calling, Pointer
<1>6. Shape'
  <2>1. /\ SearchTree(Cut(kid, acc), root)
        /\ \A s \in Side : /\ SearchTree(Cut(kid, acc), Cut(kid, acc)[Opp(s)][SCRATCH])
                           /\ acc[s] = SCRATCH /\ Part(kid, acc, s) = {}
    BY <1>3, WholeOpened
  <2>2. QED
    BY <1>2, <1>3, <2>1 DEF Shape, Opened
<1>7. OnTop'
  BY <1>2, NoElements DEF OnTop, Splayed
<1>8. Removing'
  BY <1>2, <1>3 DEF Removing
<1>9. Walking'
  BY <1>1, <1>2, <1>3, <1>4 DEF Walking
<1>10. RequestedOnTop'
  BY <1>2 DEF RequestedOnTop
<1>11. QED
  BY <1>4, <1>5, <1>6, <1>7, <1>8, <1>9, <1>10 DEF Inv
-----------------------------------------------------------------------------
(* A call that has splayed.                                                 *)
LEMMA TopState ==
  ASSUME Inv, pc = "top"
  PROVE  /\ kid \in Memory /\ Whole(kid, acc) /\ SearchTree(kid, root) /\ root \in Pointer
         /\ Held = Elements(kid, root) /\ gone = NULL /\ Splayed(kid, root)
         /\ Calling
         /\ \A m \in Elements(kid, root) :
               /\ root \in Node /\ m \in Node
               /\ Turn(m) = HERE => m = root
               /\ Turn(root) = HERE \/ Toward(Key[m], root) # Turn(root) \/ Turn(m) = Opp(Turn(root))
<1>1. /\ kid \in Memory /\ Whole(kid, acc) /\ SearchTree(kid, root) /\ root \in Pointer
      /\ Held = Elements(kid, root) /\ gone = NULL /\ Splayed(kid, root) /\ Calling
  BY WholeState DEF Inv, OnTop, TypeOK
<1>2. ASSUME NEW m \in Elements(kid, root)
      PROVE  root \in Node /\ m \in Node
  BY <1>1, NoElements, ElementsAreNodes DEF Pointer
<1>3. ASSUME NEW m \in Elements(kid, root), Turn(m) = HERE
      PROVE  m = root
  <2>1. Turn(root) = Toward(Key[m], root)
    <3>1. Key[m] \in Nat /\ Key[root] \in Nat
      BY <1>2, TreeAssumption
    <3>2. call[1] \notin {"min", "max"} /\ Key[call[2]] = Key[m]
      <4>1. call[1] \notin {"min", "max"} /\ call[2] \in Node /\ Turn(m) = Toward(Key[call[2]], m)
        BY <1>1, <1>3, SideFacts DEF Turn, Calling
      <4>2. QED
        BY <1>2, <1>3, <4>1, TowardFacts
    <3>3. QED
      BY <3>2 DEF Turn
  <2>2. Turn(root) \in Side \cup {HERE}
    BY <1>2, <2>1, TowardFacts
  <2>3. Turn(root) = HERE
    BY <1>1, <1>3, <2>1, <2>2, SideFacts DEF Splayed
  <2>4. QED
    BY <1>1, <1>2, <2>1, <2>3, SideOfRoot
<1>4. QED
  BY <1>1, <1>2, <1>3 DEF Splayed

(* Nothing lies between the requested key and the root of a splayed tree.   *)
LEMMA SplayedOnTop ==
  ASSUME Inv, pc = "top", call[1] \in {"insert", "find", "next"},
         NEW n \in Elements(kid, root)
  PROVE  /\ ~(Key[call[2]] <= Key[n] /\ Key[n] < Key[root])
         /\ ~(Key[root] < Key[n] /\ Key[n] <= Key[call[2]])
<1>1. /\ root \in Node /\ n \in Node /\ Calling
      /\ Turn(root) = HERE \/ Toward(Key[n], root) # Turn(root) \/ Turn(n) = Opp(Turn(root))
  BY TopState
<1>2. call[2] \in Node
  BY <1>1 DEF Calling
<1>3. Key[root] \in Nat /\ Key[n] \in Nat /\ Key[call[2]] \in Nat
  BY <1>1, <1>2, TreeAssumption
<1>4. Turn(root) = Toward(Key[call[2]], root) /\ Turn(n) = Toward(Key[call[2]], n)
  BY DEF Turn
<1>5. QED
  BY <1>1, <1>3, <1>4 DEF Toward, Opp, LEFT, RIGHT, HERE

LEMMA ReturnInv ==
  ASSUME Inv, pc # "idle", NEW n \in Pointer, Return(n),
         kid' \in Memory, root' \in Pointer, Whole(kid', acc), SearchTree(kid', root'),
         RequestedOnTop'
  PROVE  Inv' /\ Held' = Elements(kid', root')
<1>1. /\ TypeOK
      /\ UNCHANGED <<acc, call>> /\ pc' = "idle" /\ tmp' = NULL /\ gone' = NULL /\ result' = n
  BY DEF Inv, Return
<1>2. TypeOK'
  BY <1>1 DEF TypeOK, Calling, Pointer
<1>3. Pieces(kid', acc, root') = Elements(kid', root')
  BY WholePieces
<1>4. Held' = Elements(kid', root')
  BY <1>1, <1>3 DEF Held, Rest
<1>5. QED
  BY <1>1, <1>2, <1>4 DEF Inv, Shape, OnTop, Removing, Walking

(* An element over the root and what is beyond it, with the rest on its     *)
(* other side.                                                              *)
LEMMA SplitTree ==
  ASSUME NEW k \in Memory, NEW r \in Node, SearchTree(k, r), NEW d \in Side,
         NEW e \in Node, e \notin Elements(k, r), Toward(Key[r], e) = Opp(d),
         \A m \in Elements(k, r) : Toward(Key[m], r) = d => Toward(Key[m], e) = d
  PROVE  LET k2 == Split(k, r, e, d)
         IN  /\ k2 \in Memory /\ SearchTree(k2, e)
             /\ Elements(k2, e) = Elements(k, r) \cup {e}
             /\ \A s \in Side : k2[s][SCRATCH] = k[s][SCRATCH]
<1> DEFINE o  == Opp(d)
           A  == k[d][r]
           D  == k[o][r]
           k1 == Put(k, d, e, A)
           k0 == Put(k1, o, e, r)
           k2 == Split(k, r, e, d)
<1>1. /\ o \in Side /\ o # d /\ Opp(o) = d /\ \A s \in Side : s = d \/ s = o
      /\ r \in Cell /\ e \in Cell /\ r \in Pointer /\ NULL \in Pointer
      /\ SCRATCH \in Cell /\ SCRATCH # r /\ SCRATCH # e
  BY SideFacts DEF Cell, Pointer
<1>2. r \in Elements(k, r) /\ r # e
  BY ElementsClosed
<1>3. /\ A \in Pointer /\ SearchTree(k, A) /\ r \notin Elements(k, A)
      /\ Elements(k, A) \subseteq Elements(k, r)
      /\ \A x \in Elements(k, A) : Toward(Key[x], r) = d
  BY TreeAtRoot
<1>4. /\ D \in Pointer /\ SearchTree(k, D) /\ r \notin Elements(k, D)
      /\ Elements(k, D) \subseteq Elements(k, r)
      /\ \A x \in Elements(k, D) : Toward(Key[x], r) = o
  BY <1>1, TreeAtRoot
<1>5. Elements(k, r) = {r} \cup Elements(k, A) \cup Elements(k, D)
  BY <1>1, ElementsUnfold, SideFacts
<1>6. k2 = Put(k0, d, r, NULL)
  BY DEF Split
<1> HIDE DEF o, A, D, k2
<1>7. k1 \in Memory
  BY <1>1, <1>3, PutType
<1>8. \A s \in Side, m \in Cell : k1[s][m] = IF s = d /\ m = e THEN A ELSE k[s][m]
  BY <1>1, PutAt
<1> HIDE DEF k1
<1>9. k0 \in Memory
  BY <1>1, <1>7, PutType
<1>10. \A s \in Side, m \in Cell : k0[s][m] = IF s = o /\ m = e THEN r ELSE k1[s][m]
  BY <1>1, <1>7, PutAt
<1> HIDE DEF k0
<1>11. k2 \in Memory
  BY <1>1, <1>6, <1>9, PutType
<1>12. \A s \in Side, m \in Cell : k2[s][m] = IF s = d /\ m = r THEN NULL ELSE k0[s][m]
  BY <1>1, <1>6, <1>9, PutAt
<1>13. /\ k2[d][e] = A /\ k2[o][e] = r /\ k2[d][r] = NULL /\ k2[o][r] = D
       /\ \A s \in Side, m \in Cell : m # e /\ m # r => k2[s][m] = k[s][m]
  BY <1>1, <1>2, <1>8, <1>10, <1>12 DEF D
<1>14. ASSUME NEW t \in {A, D}
       PROVE  SearchTree(k2, t) /\ Elements(k2, t) = Elements(k, t)
  <2>1. t \in Pointer /\ SearchTree(k, t) /\ \A m \in Elements(k, t) : m # e /\ m # r
    BY <1>3, <1>4
  <2>2. \A m \in Elements(k, t), s \in Side : k2[s][m] = k[s][m]
    BY <1>13, <2>1, ElementsAreNodes DEF Cell
  <2>3. QED
    BY <1>11, <2>1, <2>2, SearchTreeFrame
<1>15. SearchTree(k2, r) /\ Elements(k2, r) = {r} \cup Elements(k, D)
  <2>1. SearchTree(k2, NULL) /\ Elements(k2, NULL) = {}
    BY NullTree, NoElements
  <2>2. SearchTree(k2, r)
    BY <1>1, <1>4, <1>11, <1>13, <1>14, <2>1, MakeTree
  <2>3. Elements(k2, r) = {r} \cup Elements(k2, NULL) \cup Elements(k2, D)
    BY <1>1, <1>11, <1>13, ElementsUnfold, SideFacts
  <2>4. QED
    BY <1>14, <2>1, <2>2, <2>3
<1>16. \A x \in Elements(k2, r) : Toward(Key[x], e) = o
  <2>1. ASSUME NEW x \in Elements(k, D) PROVE Toward(Key[x], e) = o
    <3>1. x \in Node /\ Toward(Key[x], r) = o /\ Toward(Key[r], e) = o
      BY <1>4, ElementsAreNodes DEF o
    <3>2. QED
      BY <1>1, <3>1, TowardTransitive
  <2>2. QED
    BY <1>15, <2>1 DEF o
<1>17. \A x \in Elements(k2, A) : Toward(Key[x], e) = d
  BY <1>3, <1>14
<1>18. SearchTree(k2, e)
  BY <1>1, <1>11, <1>13, <1>14, <1>15, <1>16, <1>17, MakeTree
<1>19. Elements(k2, e) = {e} \cup Elements(k2, A) \cup Elements(k2, r)
  BY <1>1, <1>11, <1>13, ElementsUnfold, SideFacts
<1>20. Elements(k2, e) = Elements(k, r) \cup {e}
  BY <1>5, <1>14, <1>15, <1>19
<1>21. QED
  BY <1>1, <1>11, <1>13, <1>18, <1>20 DEF k2

LEMMA InsertStep ==
  ASSUME Inv, Insert
  PROVE  Inv' /\ Held' = IF Present THEN Held ELSE Held \cup {call[2]}
<1> DEFINE e == call[2]
           d == Turn(root)
<1>1. pc = "top" /\ call[1] = "insert"
  BY DEF Insert, Called
<1>2. /\ kid \in Memory /\ Whole(kid, acc) /\ SearchTree(kid, root) /\ root \in Pointer
      /\ Held = Elements(kid, root) /\ Calling
  BY <1>1, TopState
<1>3. e \in Node /\ Key[e] \in Nat /\ \A m \in Node : Turn(m) = Toward(Key[e], m)
  BY <1>1, <1>2, TreeAssumption DEF Calling, Turn
<1>4. CASE Present
  <2>1. Return(root) /\ UNCHANGED <<root, kid, call>>
    BY <1>4 DEF Insert, Return
  <2>2. RequestedOnTop'
    BY <1>1, <2>1, SplayedOnTop DEF RequestedOnTop
  <2>3. QED
    BY <1>1, <1>2, <1>4, <2>1, <2>2, ReturnInv
<1>5. CASE ~Present
  <2>1. /\ Return(NULL) /\ root' = e /\ call' = call
        /\ kid' = IF root = NULL THEN PutBoth(kid, e, NULL, NULL) ELSE Split(kid, root, e, d)
    BY <1>5 DEF Insert, Return
  <2>2. RequestedOnTop'
    <3>1. \A m \in Elements(kid', e) : Key[m] \in Nat
      BY TreeAssumption, ElementsAreNodes
    <3>2. QED
      BY <1>3, <2>1, <3>1 DEF RequestedOnTop
  <2>3. e \in Pointer /\ e \in Cell /\ SCRATCH \in Cell /\ SCRATCH # e /\ NULL \in Pointer
    BY <1>3, SideFacts DEF Pointer, Cell
  <2>4. CASE root = NULL
    <3>1. kid' = PutBoth(kid, e, NULL, NULL)
      BY <2>1, <2>4
    <3>2. kid' \in Memory
      BY <1>2, <2>3, <3>1, PutBothType
    <3>3. \A s \in Side, m \in Cell : kid'[s][m] = IF m = e THEN NULL ELSE kid[s][m]
      BY <1>2, <2>3, <3>1, PutBothAt
    <3>4. Whole(kid', acc)
      BY <1>2, <2>3, <3>3 DEF Whole
    <3>5. Elements(kid', NULL) = {} /\ SearchTree(kid', NULL) /\ Elements(kid, root) = {}
      BY <2>4, NoElements, NullTree
    <3>6. \A s \in Side : kid'[s][e] = NULL
      BY <2>3, <3>3
    <3>7. Elements(kid', e) = {e}
      BY <1>3, <3>2, <3>5, <3>6, ElementsUnfold, SideFacts
    <3>8. SearchTree(kid', e)
      BY <1>3, <3>2, <3>5, <3>6, MakeTree
    <3>9. QED
      BY <1>1, <1>2, <1>5, <2>1, <2>2, <2>3, <3>2, <3>4, <3>5, <3>7, <3>8, ReturnInv
  <2>5. CASE root # NULL
    <3>1. root \in Node /\ Turn(root) # HERE
      BY <1>2, <1>5, <2>5 DEF Present, Pointer
    <3>2. d \in Side /\ Toward(Key[e], root) = d
      BY <1>3, <3>1, TowardFacts
    <3>3. e \notin Elements(kid, root)
      BY <1>1, <1>3, <3>1, TopState, TowardFacts
    <3>4. Toward(Key[root], e) = Opp(d)
      BY <1>3, <3>1, <3>2, TowardFacts
    <3>5. ASSUME NEW m \in Elements(kid, root), Toward(Key[m], root) = d
          PROVE  Toward(Key[m], e) = d
      <4>1. m \in Node /\ Turn(m) = Opp(d)
        BY <1>1, <3>1, <3>5, TopState
      <4>2. QED
        BY <1>3, <3>2, <4>1, TowardFacts
    <3>6. kid' = Split(kid, root, e, d)
      BY <2>1, <2>5
    <3> HIDE DEF d, e
    <3>7. /\ kid' \in Memory /\ SearchTree(kid', e)
          /\ Elements(kid', e) = Elements(kid, root) \cup {e}
          /\ \A s \in Side : kid'[s][SCRATCH] = kid[s][SCRATCH]
      BY <1>2, <1>3, <3>1, <3>2, <3>3, <3>4, <3>5, <3>6, SplitTree
    <3>8. Whole(kid', acc)
      BY <1>2, <3>7 DEF Whole
    <3>9. QED
      BY <1>1, <1>2, <1>5, <2>1, <2>2, <2>3, <3>7, <3>8, ReturnInv DEF e
  <2>6. QED
    BY <2>4, <2>5
<1>6. QED
  BY <1>4, <1>5

(* The calls that only ask.                                                 *)
LEMMA AnswerStep ==
  ASSUME Inv, pc \in {"top", "walk"}, NEW n \in Pointer, Return(n), UNCHANGED <<root, kid>>
  PROVE  Inv' /\ Held' = Held
<1>1. /\ kid \in Memory /\ Whole(kid, acc) /\ SearchTree(kid, root) /\ root \in Pointer
      /\ Held = Elements(kid, root)
  BY WholeState
<1>2. call' = call
  BY DEF Return
<1>3. RequestedOnTop'
  <2>1. CASE pc = "top"
    BY <1>2, <2>1, SplayedOnTop DEF RequestedOnTop
  <2>2. CASE pc = "walk"
    <3>1. call[1] = "next" /\ root = call[2] /\ root \in Node
      <4>1. call[1] = "next" /\ root = call[2] /\ Calling
        BY <2>2 DEF Inv, Walking, TypeOK
      <4>2. QED
        BY <2>2, <4>1 DEF Calling
    <3>2. Key[root] \in Nat /\ \A m \in Elements(kid, root) : Key[m] \in Nat
      BY <3>1, TreeAssumption, ElementsAreNodes
    <3>3. QED
      BY <1>2, <3>1, <3>2 DEF RequestedOnTop
  <2>3. QED
    BY <2>1, <2>2
<1>4. QED
  BY <1>1, <1>3, ReturnInv

LEMMA FindStep ==
  ASSUME Inv, Find
  PROVE  Inv' /\ Held' = Held
<1>1. pc = "top" /\ Return(IF Present THEN root ELSE NULL) /\ UNCHANGED <<root, kid>>
  BY DEF Find, Called
<1>2. (IF Present THEN root ELSE NULL) \in Pointer
  BY DEF Inv, TypeOK, Pointer
<1>3. QED
  BY <1>1, <1>2, AnswerStep

LEMMA MinMaxStep ==
  ASSUME Inv, MinMax
  PROVE  Inv' /\ Held' = Held
<1>1. pc = "top" /\ Return(root) /\ UNCHANGED <<root, kid>>
  BY DEF MinMax, Called
<1>2. root \in Pointer
  BY DEF Inv, TypeOK
<1>3. QED
  BY <1>1, <1>2, AnswerStep

LEMMA ForgetTree ==
  ASSUME NEW k \in Memory, NEW n \in Node, NEW r \in Pointer, SearchTree(k, r),
         n \notin Elements(k, r)
  PROVE  LET k2 == ForgetKids(k, n)
         IN  /\ k2 \in Memory /\ SearchTree(k2, r) /\ Elements(k2, r) = Elements(k, r)
             /\ \A s \in Side : k2[s][SCRATCH] = k[s][SCRATCH]
<1> DEFINE k2 == ForgetKids(k, n)
<1>1. /\ n \in Cell /\ NULL \in Pointer /\ SCRATCH \in Cell /\ SCRATCH # n
  BY SideFacts DEF Cell, Pointer
<1>2. k2 \in Memory
  BY <1>1, PutBothType DEF ForgetKids
<1>3. \A s \in Side, m \in Cell : k2[s][m] = IF m = n THEN NULL ELSE k[s][m]
  BY <1>1, PutBothAt DEF ForgetKids
<1> HIDE DEF k2
<1>4. \A m \in Elements(k, r), s \in Side : k2[s][m] = k[s][m]
  BY <1>3, ElementsAreNodes DEF Cell
<1>5. SearchTree(k2, r) /\ Elements(k2, r) = Elements(k, r)
  BY <1>2, <1>4, SearchTreeFrame
<1>6. QED
  BY <1>1, <1>2, <1>3, <1>5 DEF k2

LEMMA RemoveStep ==
  ASSUME Inv, Remove
  PROVE  Inv' /\ Held' = IF Present THEN Held \ {root} ELSE Held
<1>1. pc = "top" /\ call[1] = "remove"
  BY DEF Remove, Called
<1>2. /\ kid \in Memory /\ Whole(kid, acc) /\ SearchTree(kid, root) /\ root \in Pointer
      /\ Held = Elements(kid, root) /\ Calling
  BY <1>1, TopState
<1>3. call[2] \in Pointer /\ NULL \in Pointer
  BY <1>1, <1>2 DEF Calling, Pointer
<1>4. CASE ~Present
  <2>1. Return(NULL) /\ UNCHANGED <<root, kid>>
    BY <1>4 DEF Remove
  <2>2. QED
    BY <1>1, <1>3, <1>4, <2>1, AnswerStep
<1>5. CASE Present
  <2> DEFINE l == kid[LEFT][root]
             r == kid[RIGHT][root]
  <2>1. /\ l = NULL /\ Return(call[2]) /\ root' = r /\ kid' = ForgetKids(kid, root) /\ call' = call
    BY <1>5 DEF Remove, Return
  <2>2. root \in Node
    BY <1>2, <1>5 DEF Present, Pointer
  <2>3. /\ r \in Pointer /\ SearchTree(kid, r) /\ root \notin Elements(kid, r)
    BY <1>2, <2>2, SideFacts, TreeAtRoot
  <2>4. Elements(kid, root) = {root} \cup Elements(kid, l) \cup Elements(kid, r)
    BY <1>2, <2>2, ElementsUnfold
  <2> HIDE DEF r, l
  <2>5. Elements(kid, l) = {}
    BY <2>1, NoElements
  <2>6. /\ kid' \in Memory /\ SearchTree(kid', r) /\ Elements(kid', r) = Elements(kid, r)
        /\ \A s \in Side : kid'[s][SCRATCH] = kid[s][SCRATCH]
    BY <1>2, <2>1, <2>2, <2>3, ForgetTree
  <2>7. Whole(kid', acc) /\ RequestedOnTop'
    BY <1>1, <1>2, <2>1, <2>6 DEF Whole, RequestedOnTop
  <2>8. Inv' /\ Held' = Elements(kid', r)
    BY <1>1, <1>3, <2>1, <2>3, <2>6, <2>7, ReturnInv
  <2>9. QED
    BY <1>2, <1>5, <2>3, <2>4, <2>5, <2>6, <2>8
<1>6. QED
  BY <1>4, <1>5

LEMMA RemoveInnerStep ==
  ASSUME Inv, RemoveInner
  PROVE  Inv' /\ Held' = Held
<1> DEFINE l == kid[LEFT][root]
           r == kid[RIGHT][root]
<1>1. /\ pc = "top" /\ call[1] = "remove" /\ Present /\ l # NULL
      /\ tmp' = r /\ gone' = root /\ root' = l /\ Start("join") /\ UNCHANGED <<call, result>>
  BY DEF RemoveInner, Called
<1>2. /\ kid \in Memory /\ Whole(kid, acc) /\ SearchTree(kid, root) /\ root \in Pointer
      /\ Held = Elements(kid, root) /\ Calling
  BY <1>1, TopState
<1>3. root \in Node /\ Toward(Key[call[2]], root) = HERE /\ call[2] \in Node
  BY <1>1, <1>2 DEF Present, Pointer, Turn, Calling
<1>4. kid' = kid /\ acc' = acc /\ pc' = "join"
  <2>1. PutBoth(kid, SCRATCH, NULL, NULL) = kid /\ acc = Apart
    BY <1>2, StartWhole
  <2>2. QED
    BY <1>1, <2>1 DEF Start
<1>5. /\ l \in Pointer /\ SearchTree(kid, l)
      /\ \A x \in Elements(kid, l) : Toward(Key[x], root) = LEFT
  BY <1>2, <1>3, SideFacts, TreeAtRoot
<1>6. /\ r \in Pointer /\ SearchTree(kid, r)
      /\ \A x \in Elements(kid, r) : Toward(Key[x], root) = RIGHT
  BY <1>2, <1>3, SideFacts, TreeAtRoot
<1>7. Elements(kid, root) = {root} \cup Elements(kid, l) \cup Elements(kid, r)
  BY <1>2, <1>3, ElementsUnfold
<1> HIDE DEF l, r
<1>8. Cut(kid, acc) = kid /\ Pieces(kid, acc, l) = Elements(kid, l) /\ root # NULL
  BY <1>2, <1>3, SideFacts, WholeCut, WholePieces
<1>9. Rest' = Elements(kid, r) /\ Pieces(kid', acc', root') = Elements(kid, l)
  BY <1>1, <1>4, <1>8 DEF Rest
<1>10. Held' = Held
  BY <1>1, <1>2, <1>7, <1>8, <1>9 DEF Held
<1>11. TypeOK'
  BY <1>1, <1>2, <1>4, <1>5, <1>6 DEF Inv, TypeOK, Calling
<1>12. Shape'
  <2>1. /\ SearchTree(Cut(kid, acc), l)
        /\ \A s \in Side : /\ SearchTree(Cut(kid, acc), Cut(kid, acc)[Opp(s)][SCRATCH])
                           /\ acc[s] = SCRATCH /\ Part(kid, acc, s) = {}
    BY <1>2, <1>5, WholeOpened
  <2>2. QED
    BY <1>1, <1>4, <2>1 DEF Shape, Opened
<1>13. Removing'
  <2>1. Key[root] = Key[call[2]]
    BY <1>3, TowardFacts
  <2>2. SearchTree(Cut(kid', acc'), tmp')
    BY <1>1, <1>4, <1>6, <1>8
  <2>3. gone' # NULL /\ root' # NULL /\ pc' \in {"join", "joined"}
    BY <1>1, <1>4, <1>8
  <2>4. QED
    BY <1>1, <1>5, <1>6, <1>9, <2>1, <2>2, <2>3 DEF Removing
<1>14. OnTop' /\ Walking' /\ RequestedOnTop'
  BY <1>1, <1>4 DEF OnTop, Walking, RequestedOnTop
<1>15. QED
  BY <1>10, <1>11, <1>12, <1>13, <1>14 DEF Inv

(* The largest of the left side has nothing right of it, and the right side *)
(* is hung there.                                                           *)
LEMMA JoinStep ==
  ASSUME Inv, Join
  PROVE  Inv' /\ Held' = Held \ {gone}
<1>1. /\ pc = "joined" /\ Return(call[2]) /\ kid' = ForgetKids(Put(kid, RIGHT, root, tmp), gone)
      /\ root' = root /\ call' = call
  BY DEF Join, Return
<1>2. /\ kid \in Memory /\ Whole(kid, acc) /\ SearchTree(kid, root) /\ root \in Pointer
      /\ Pieces(kid, acc, root) = Elements(kid, root) /\ Cut(kid, acc) = kid /\ gone # NULL
  BY <1>1, WholeState
<1>3. /\ call[1] = "remove" /\ Key[gone] = Key[call[2]] /\ root \in Node
      /\ SearchTree(kid, tmp)
      /\ Rest = Elements(kid, tmp)
      /\ \A x \in Elements(kid, tmp) : Toward(Key[x], gone) = RIGHT
      /\ \A x \in Elements(kid, root) : Toward(Key[x], gone) = LEFT
  BY <1>2 DEF Inv, Removing, Rest, Pointer
<1>4. /\ gone \in Node /\ tmp \in Pointer /\ Calling /\ call[2] \in Pointer
  BY <1>1, <1>2, <1>3 DEF Inv, TypeOK, Calling, Pointer
<1>5. \A m \in Elements(kid, root) : m \in Node /\ Turn(m) = RIGHT /\ Toward(Key[gone], m) = RIGHT
  <2>1. SUFFICES ASSUME NEW m \in Elements(kid, root)
                 PROVE  m \in Node /\ Turn(m) = RIGHT /\ Toward(Key[gone], m) = RIGHT
    OBVIOUS
  <2>2. m \in Node /\ Toward(Key[m], gone) = LEFT
    BY <1>3, ElementsAreNodes
  <2>3. Toward(Key[gone], m) = RIGHT
    BY <1>4, <2>2, TowardFacts, SideFacts
  <2>4. QED
    BY <1>3, <2>2, <2>3 DEF Turn
<1>6. root \in Elements(kid, root)
  BY <1>2, <1>3, ElementsClosed
<1>7. Elements(kid, kid[RIGHT][root]) = {}
  <2>1. SUFFICES ASSUME NEW m \in Elements(kid, kid[RIGHT][root]) PROVE FALSE
    OBVIOUS
  <2>2. m \in Elements(kid, root) /\ Toward(Key[m], root) = RIGHT
    BY <1>2, <1>3, SideFacts, TreeAtRoot
  <2>3. Turn(m) = LEFT
    BY <1>1, <1>5, <1>6, <2>2, SideFacts DEF Inv, OnTop, Splayed
  <2>4. QED
    BY <1>5, <2>2, <2>3, SideFacts
<1>8. kid[RIGHT][root] = NULL
  <2>1. kid[RIGHT][root] \in Pointer
    BY <1>2, <1>3, SideFacts, KidType DEF Cell
  <2>2. QED
    BY <1>2, <1>7, <2>1, ElementsClosed DEF Pointer
<1>9. \A m \in Elements(kid, root) : m = root \/ Toward(Key[root], m) = RIGHT
  <2>1. SUFFICES ASSUME NEW m \in Elements(kid, root), m # root
                 PROVE  Toward(Key[root], m) = RIGHT
    OBVIOUS
  <2>2. m \in Elements(kid, kid[LEFT][root])
    BY <1>2, <1>3, <1>7, <2>1, ElementsUnfold
  <2>3. Toward(Key[m], root) = LEFT
    BY <1>2, <1>3, <2>2, SideFacts, TreeAtRoot
  <2>4. QED
    BY <1>3, <1>5, <2>3, TowardFacts, SideFacts
<1>10. ASSUME NEW m \in Elements(kid, root), NEW x \in Elements(kid, tmp)
       PROVE  Toward(Key[x], m) = RIGHT
  <2>1. /\ x \in Node /\ Toward(Key[x], gone) = RIGHT
        /\ m \in Node /\ Toward(Key[gone], m) = RIGHT
    BY <1>3, <1>5, ElementsAreNodes
  <2>2. QED
    BY <1>4, <2>1, SideFacts, TowardTransitive
<1> DEFINE k == Put(kid, RIGHT, root, tmp)
<1>11. /\ k \in Memory /\ SearchTree(k, root)
       /\ Elements(k, root) = Elements(kid, root) \cup Elements(kid, tmp)
  BY <1>2, <1>3, <1>4, <1>6, <1>8, <1>9, <1>10, SideFacts, Graft
<1>12. \A s \in Side : k[s][SCRATCH] = kid[s][SCRATCH]
  BY <1>2, <1>3, SideFacts, PutAt DEF Cell
<1>13. gone \notin Elements(kid, root) /\ gone \notin Elements(kid, tmp)
  BY <1>3, <1>4, TowardFacts, SideFacts
<1> HIDE DEF k
<1>14. /\ kid' \in Memory /\ SearchTree(kid', root) /\ Elements(kid', root) = Elements(k, root)
       /\ \A s \in Side : kid'[s][SCRATCH] = k[s][SCRATCH]
  <2>1. kid' = ForgetKids(k, gone) /\ gone \notin Elements(k, root)
    BY <1>1, <1>11, <1>13 DEF k
  <2>2. QED
    BY <1>2, <1>4, <1>11, <2>1, ForgetTree
<1>15. Whole(kid', acc) /\ RequestedOnTop'
  BY <1>1, <1>2, <1>3, <1>12, <1>14 DEF Whole, RequestedOnTop
<1>16. Inv' /\ Held' = Elements(kid', root)
  BY <1>1, <1>2, <1>4, <1>14, <1>15, ReturnInv
<1>17. Held = Elements(kid, root) \cup Elements(kid, tmp) \cup {gone}
  BY <1>2, <1>3 DEF Held
<1>18. QED
  BY <1>11, <1>13, <1>14, <1>16, <1>17

(* SPLAY_NEXT is called with an element of the tree, and splays it to the   *)
(* root.                                                                    *)
LEMMA NextAtRoot ==
  ASSUME Inv, pc = "top", call[1] = "next"
  PROVE  call[2] = root /\ root \in Node
<1>1. Calling /\ call[2] \in Elements(kid, root) /\ call[2] \in Node
  BY TopState DEF Inv, Walking, Calling
<1>2. Turn(call[2]) = HERE
  BY <1>1, TowardFacts DEF Turn
<1>3. QED
  BY <1>1, <1>2, TopState

(* A step down to n that keeps what Walking says.                           *)
LEMMA WalkInv ==
  ASSUME Inv, pc \in {"top", "walk"}, call[1] = "next", root = call[2], NEW n, Walk(n),
         n \in Elements(kid, kid[RIGHT][root]),
         \A x \in Elements(kid, kid[RIGHT][root]) :
            x \in Elements(kid, n) \/ Toward(Key[x], n) = RIGHT
  PROVE  Inv' /\ Held' = Held
<1>1. UNCHANGED <<root, kid, acc, call, gone, result>> /\ tmp' = n /\ pc' = "walk"
  BY DEF Walk
<1>2. /\ kid \in Memory /\ Whole(kid, acc) /\ SearchTree(kid, root) /\ gone = NULL
      /\ Held = Elements(kid, root)
  BY WholeState
<1>3. n \in Pointer
  BY ElementsAreNodes DEF Pointer
<1>4. TypeOK'
  BY <1>1, <1>3 DEF Inv, TypeOK, Calling
<1>5. Held' = Held
  BY <1>1, <1>2 DEF Held, Rest
<1>6. Walking'
  BY <1>1, <1>5 DEF Inv, Walking
<1>7. QED
  BY <1>1, <1>2, <1>4, <1>5, <1>6 DEF Inv, Shape, OnTop, Removing, RequestedOnTop

LEMMA FollowingStep ==
  ASSUME Inv, Following
  PROVE  Inv' /\ Held' = Held
<1> DEFINE r == kid[RIGHT][root]
<1>1. pc = "top" /\ call[1] = "next" /\ root = call[2] /\ root \in Node
  BY NextAtRoot DEF Following, Called
<1>2. kid \in Memory /\ r \in Pointer
  BY <1>1, TopState, SideFacts, KidType DEF Cell
<1>3. CASE r = NULL
  <2>1. Return(NULL) /\ UNCHANGED <<root, kid>>
    BY <1>1, <1>3 DEF Following
  <2>2. QED
    BY <1>1, <2>1, AnswerStep DEF Pointer
<1>4. CASE r # NULL
  <2>1. Walk(r)
    BY <1>1, <1>4 DEF Following
  <2>2. r \in Elements(kid, r)
    BY <1>2, <1>4, ElementsClosed DEF Pointer
  <2>3. QED
    BY <1>1, <2>1, <2>2, WalkInv
<1>5. QED
  BY <1>3, <1>4

(* Where SPLAY_NEXT has got to: the element it looks for is there or left   *)
(* of it.                                                                   *)
LEMMA WalkState ==
  ASSUME Inv, pc = "walk"
  PROVE  /\ kid \in Memory /\ SearchTree(kid, root) /\ root \in Node /\ Held = Elements(kid, root)
         /\ call[1] = "next" /\ root = call[2]
         /\ tmp \in Elements(kid, kid[RIGHT][root]) /\ tmp \in Node /\ SearchTree(kid, tmp)
         /\ \A x \in Elements(kid, kid[RIGHT][root]) :
               x = tmp \/ x \in Elements(kid, kid[LEFT][tmp]) \/ Toward(Key[x], tmp) = RIGHT
<1> DEFINE above == Elements(kid, kid[RIGHT][root])
<1>1. kid \in Memory /\ SearchTree(kid, root) /\ Held = Elements(kid, root)
  BY WholeState
<1>2. /\ call[1] = "next" /\ root = call[2] /\ tmp \in above /\ Calling
      /\ \A x \in above : x \in Elements(kid, tmp) \/ Toward(Key[x], tmp) = RIGHT
  BY DEF Inv, Walking, TypeOK
<1>3. root \in Node /\ tmp \in Node
  BY <1>2, ElementsAreNodes DEF Calling
<1>4. SearchTree(kid, tmp)
  <2>1. kid[RIGHT][root] \in Pointer /\ SearchTree(kid, kid[RIGHT][root])
    BY <1>1, <1>3, SideFacts, TreeAtRoot
  <2>2. QED
    BY <1>1, <1>2, <2>1, SubTree
<1>5. ASSUME NEW x \in above
      PROVE  x = tmp \/ x \in Elements(kid, kid[LEFT][tmp]) \/ Toward(Key[x], tmp) = RIGHT
  <2>1. Elements(kid, tmp) = {tmp} \cup Elements(kid, kid[LEFT][tmp]) \cup Elements(kid, kid[RIGHT][tmp])
    BY <1>1, <1>3, ElementsUnfold
  <2>2. \A y \in Elements(kid, kid[RIGHT][tmp]) : Toward(Key[y], tmp) = RIGHT
    BY <1>1, <1>3, <1>4, SideFacts, TreeAtRoot
  <2>3. QED
    BY <1>2, <2>1, <2>2
<1>6. QED
  BY <1>1, <1>2, <1>3, <1>4, <1>5

LEMMA WalkOnStep ==
  ASSUME Inv, WalkOn
  PROVE  Inv' /\ Held' = Held
<1> DEFINE l     == kid[LEFT][tmp]
           above == Elements(kid, kid[RIGHT][root])
<1>1. /\ pc = "walk" /\ call[1] = "next" /\ root = call[2] /\ tmp \in above /\ tmp \in Node
      /\ kid \in Memory /\ SearchTree(kid, root) /\ root \in Node /\ SearchTree(kid, tmp)
      /\ \A x \in above : x = tmp \/ x \in Elements(kid, l) \/ Toward(Key[x], tmp) = RIGHT
  BY WalkState DEF WalkOn
<1>2. l \in Pointer /\ kid[RIGHT][root] \in Pointer
  BY <1>1, SideFacts, KidType DEF Cell
<1>3. CASE l = NULL
  <2>1. Return(tmp) /\ UNCHANGED <<root, kid>>
    BY <1>3 DEF WalkOn
  <2>2. QED
    BY <1>1, <2>1, AnswerStep DEF Pointer
<1>4. CASE l # NULL
  <2>1. Walk(l)
    BY <1>4 DEF WalkOn
  <2>2. l \in Node /\ l \in Elements(kid, l)
    BY <1>1, <1>2, <1>4, ElementsClosed DEF Pointer
  <2>3. l \in above /\ \A x \in above : x \in Node
    <3>1. Elements(kid, l) \subseteq above
      BY <1>1, <1>2, SideFacts, ElementsBelow
    <3>2. QED
      BY <2>2, <3>1, ElementsAreNodes
  <2>4. Toward(Key[tmp], l) = RIGHT
    <3>1. Toward(Key[l], tmp) = LEFT
      BY <1>1, <2>2, SideFacts, TreeAtRoot
    <3>2. QED
      BY <1>1, <2>2, <3>1, TowardFacts, SideFacts
  <2>5. ASSUME NEW x \in above PROVE x \in Elements(kid, l) \/ Toward(Key[x], l) = RIGHT
    BY <1>1, <2>2, <2>3, <2>4, SideFacts, TowardTransitive
  <2> HIDE DEF l
  <2>6. QED
    BY <1>1, <2>1, <2>3, <2>5, WalkInv
<1>5. QED
  BY <1>3, <1>4

LEMMA InitInv ==
  ASSUME Init
  PROVE  Inv /\ Held = {}
<1>1. NoKids \in Memory /\ NULL \in Pointer /\ Apart \in [Side -> Cell]
  BY DEF NoKids, Memory, Pointer, Apart, Cell
<1>2. Whole(NoKids, Apart)
  BY DEF Whole, NoKids, Cell
<1>3. /\ SearchTree(NoKids, NULL) /\ Elements(NoKids, NULL) = {}
      /\ Pieces(NoKids, Apart, NULL) = {}
  BY <1>1, <1>2, NullTree, NoElements, WholePieces
<1>4. TypeOK
  BY <1>1 DEF Init, TypeOK, Calling
<1>5. QED
  BY <1>2, <1>3, <1>4 DEF Init, Inv, Shape, OnTop, Removing, Walking, RequestedOnTop, Held, Rest

LEMMA StutterInv ==
  ASSUME Inv, UNCHANGED vars
  PROVE  Inv'
BY DEF Inv, vars, TypeOK, Calling, Shape, Opened, Turn, OnTop, Splayed, Removing, Rest, Walking,
       Held, RequestedOnTop

LEMMA NextInv ==
  ASSUME Inv, [Next]_vars
  PROVE  Inv'
<1>1. CASE Calls
  BY <1>1, CallsInv
<1>2. CASE Splay
  BY <1>2, SplayInv
<1>3. CASE Insert
  BY <1>3, InsertStep
<1>4. CASE Find
  BY <1>4, FindStep
<1>5. CASE MinMax
  BY <1>5, MinMaxStep
<1>6. CASE Remove
  BY <1>6, RemoveStep
<1>7. CASE RemoveInner
  BY <1>7, RemoveInnerStep
<1>8. CASE Join
  BY <1>8, JoinStep
<1>9. CASE Following
  BY <1>9, FollowingStep
<1>10. CASE WalkOn
  BY <1>10, WalkOnStep
<1>11. CASE UNCHANGED vars
  BY <1>11, StutterInv
<1>12. QED
  BY <1>1, <1>2, <1>3, <1>4, <1>5, <1>6, <1>7, <1>8, <1>9, <1>10, <1>11 DEF Next

(* Whatever the program calls, and in the middle of every splay, the parts  *)
(* are search trees on their sides of the requested key.                    *)
THEOREM Invariant == Spec => []Inv
<1>1. Init => Inv
  BY InitInv
<1>2. Inv /\ [Next]_vars => Inv'
  BY NextInv
<1>3. QED
  BY <1>1, <1>2, PTL DEF Spec

(* Between calls a splay tree is a search tree.                             *)
THEOREM AlwaysLinked == Spec => []Linked
<1>1. Inv => Linked
  BY DEF Inv, Shape, Linked
<1>2. QED
  BY <1>1, Invariant, PTL

(* The requested element, or one next to where it would be, is on top after *)
(* the call (tree.h:35 and 157).                                            *)
THEOREM AlwaysRequestedOnTop == Spec => []RequestedOnTop
<1>1. Inv => RequestedOnTop
  BY DEF Inv
<1>2. QED
  BY <1>1, Invariant, PTL
-----------------------------------------------------------------------------
(* A splay tree implements OrderedSet: the elements are those that Held     *)
(* names, also in the middle of a splay, and a call answers by their keys.  *)
LEMMA SmallestIs ==
  ASSUME NEW S \in SUBSET Node, NEW x \in S, \A y \in S : y = x \/ Key[x] < Key[y]
  PROVE  Set!Smallest(S) = x
<1>1. \A y \in S : Key[y] \in Nat
  BY TreeAssumption
<1>2. \A y \in S : Key[x] <= Key[y]
  BY <1>1
<1>3. \A z \in S : (\A y \in S : Key[z] <= Key[y]) => z = x
  BY <1>1
<1>4. (CHOOSE z \in S : \A y \in S : Key[z] <= Key[y]) = x
  BY <1>2, <1>3
<1>5. QED
  BY <1>4 DEF Set!Smallest

LEMMA LargestIs ==
  ASSUME NEW S \in SUBSET Node, NEW x \in S, \A y \in S : y = x \/ Key[y] < Key[x]
  PROVE  Set!Largest(S) = x
<1>1. \A y \in S : Key[y] \in Nat
  BY TreeAssumption
<1>2. \A y \in S : Key[x] >= Key[y]
  BY <1>1
<1>3. \A z \in S : (\A y \in S : Key[z] >= Key[y]) => z = x
  BY <1>1
<1>4. (CHOOSE z \in S : \A y \in S : Key[z] >= Key[y]) = x
  BY <1>2, <1>3
<1>5. QED
  BY <1>4 DEF Set!Largest

LEMMA SameKey ==
  ASSUME Inv, pc = "top", call[1] \in {"insert", "remove", "find"}
  PROVE  /\ Set!Same(call[2]) = IF Present THEN {root} ELSE {}
         /\ Set!Smallest(Set!Same(call[2])) = IF Present THEN root ELSE NULL
<1>1. /\ kid \in Memory /\ root \in Pointer /\ Held = Elements(kid, root) /\ Calling
      /\ \A m \in Held : m \in Node /\ root \in Node /\ (Turn(m) = HERE => m = root)
  BY TopState
<1>2. \A m \in Node : Turn(m) = HERE <=> Key[m] = Key[call[2]]
  <2>1. SUFFICES ASSUME NEW m \in Node PROVE Turn(m) = HERE <=> Key[m] = Key[call[2]]
    OBVIOUS
  <2>2. call[2] \in Node /\ Turn(m) = Toward(Key[call[2]], m)
    BY <1>1 DEF Calling, Turn
  <2>3. Toward(Key[call[2]], m) = HERE <=> Key[call[2]] = Key[m]
    BY <2>2, TowardFacts
  <2>4. QED
    BY <2>2, <2>3
<1>3. Set!Same(call[2]) = {x \in Held : Turn(x) = HERE}
  BY <1>1, <1>2 DEF Set!Same
<1>4. CASE Present
  <2>1. root \in Node /\ root \in Held /\ Turn(root) = HERE
    BY <1>1, <1>4, ElementsClosed DEF Present, Pointer
  <2>2. Set!Same(call[2]) = {root}
    BY <1>1, <1>3, <2>1
  <2>3. QED
    BY <1>4, <2>1, <2>2, SmallestIs
<1>5. CASE ~Present
  <2>1. Set!Same(call[2]) = {}
    BY <1>1, <1>3, <1>5, SideFacts DEF Present
  <2>2. QED
    BY <1>5, <2>1 DEF Set!Smallest
<1>6. QED
  BY <1>4, <1>5

LEMMA CallsImplements ==
  ASSUME Inv, Calls
  PROVE  Set!Calls
<1>1. Held' = Held
  BY CallsInv
<1>2. ASSUME NEW op, NEW e, Begin(op, e)
      PROVE  /\ Set!Begin(op, e) /\ Held = Elements(kid, root)
  <2>1. /\ pc = "idle" /\ pc' # "idle" /\ call' = <<op, e>> /\ result' = NULL
    BY <1>2, BeginStays
  <2>2. Held = Elements(kid, root)
    BY <2>1, WholeState
  <2>3. QED
    BY <1>1, <2>1, <2>2 DEF Set!Begin
<1>3. CASE \E op \in {"min", "max"} : Begin(op, NULL)
  BY <1>2, <1>3 DEF Set!Calls
<1>4. CASE \E op \in {"insert", "remove", "find"}, e \in Uses : Begin(op, e)
  BY <1>2, <1>4, UsesAssumption DEF Set!Calls
<1>5. CASE \E e \in Elements(kid, root) : Begin("next", e)
  BY <1>2, <1>5 DEF Set!Calls
<1>6. QED
  BY <1>3, <1>4, <1>5 DEF Calls

LEMMA SplayImplements ==
  ASSUME Inv, Splay
  PROVE  UNCHANGED <<Held, pc # "idle", call, result>>
<1>1. TypeOK /\ Shape /\ Removing
  BY DEF Inv
<1>2. Held' = Held
  BY <1>1, SplayHeld
<1>3. UNCHANGED <<call, result>> /\ pc \in {"splay", "join"} /\ pc' \in {"splay", "join", "top", "joined"}
  BY <1>1, SplayStep
<1>4. QED
  BY <1>2, <1>3

LEMMA InsertImplements ==
  ASSUME Inv, Insert
  PROVE  Set!Insert(call[2])
<1>1. /\ pc = "top" /\ call[1] = "insert" /\ pc' = "idle" /\ call' = call
      /\ result' = IF Present THEN root ELSE NULL
  BY DEF Insert, Called, Return
<1>2. Held' = IF Present THEN Held ELSE Held \cup {call[2]}
  BY InsertStep
<1>3. QED
  BY <1>1, <1>2, SameKey DEF Set!Insert, Set!Return

LEMMA FindImplements ==
  ASSUME Inv, Find
  PROVE  Set!Find(call[2])
<1>1. /\ pc = "top" /\ call[1] = "find" /\ pc' = "idle" /\ call' = call
      /\ result' = IF Present THEN root ELSE NULL
  BY DEF Find, Called, Return
<1>2. Held' = Held
  BY FindStep
<1>3. QED
  BY <1>1, <1>2, SameKey DEF Set!Find, Set!Answer, Set!Return

LEMMA MinMaxImplements ==
  ASSUME Inv, MinMax
  PROVE  Set!Least \/ Set!Greatest
<1>1. /\ pc = "top" /\ call[1] \in {"min", "max"} /\ pc' = "idle" /\ call' = call
      /\ result' = root
  BY DEF MinMax, Called, Return
<1>2. Held' = Held
  BY MinMaxStep
<1>3. /\ kid \in Memory /\ SearchTree(kid, root) /\ root \in Pointer /\ Held = Elements(kid, root)
      /\ \A m \in Held :
            /\ root \in Node /\ m \in Node
            /\ Turn(root) = HERE \/ Toward(Key[m], root) # Turn(root) \/ Turn(m) = Opp(Turn(root))
  BY <1>1, TopState
<1>4. CASE root = NULL
  BY <1>1, <1>2, <1>3, <1>4, NoElements
  DEF Set!Least, Set!Greatest, Set!Answer, Set!Return, Set!Smallest, Set!Largest
<1>5. CASE root # NULL
  <2> DEFINE d == IF call[1] = "min" THEN LEFT ELSE RIGHT
  <2>1. d \in Side /\ \A m : Turn(m) = d
    BY <1>1, SideFacts DEF Turn
  <2>2. root \in Node /\ root \in Held
    BY <1>3, <1>5, ElementsClosed DEF Pointer
  <2>3. \A m \in Held : m = root \/ Toward(Key[m], root) = Opp(d)
    <3>1. SUFFICES ASSUME NEW m \in Held, m # root PROVE Toward(Key[m], root) = Opp(d)
      OBVIOUS
    <3>2. Toward(Key[m], root) # d
      BY <1>3, <2>1, SideFacts
    <3>3. Toward(Key[m], root) \in Side \cup {HERE} /\ Toward(Key[m], root) # HERE
      BY <1>3, <2>2, <3>1, SideOfRoot, TowardFacts
    <3>4. QED
      BY <2>1, <3>2, <3>3, SideFacts
  <2>4. \A m \in Held : Key[m] \in Nat /\ Key[root] \in Nat
    BY <1>3, TreeAssumption
  <2>5. CASE call[1] = "min"
    <3>1. \A m \in Held : m = root \/ Key[root] < Key[m]
      BY <2>3, <2>4, <2>5 DEF Toward, Opp, LEFT, RIGHT, HERE
    <3>2. Set!Smallest(Held) = root
      BY <1>3, <2>2, <3>1, SmallestIs
    <3>3. QED
      BY <1>1, <1>2, <2>5, <3>2 DEF Set!Least, Set!Answer, Set!Return
  <2>6. CASE call[1] = "max"
    <3>1. \A m \in Held : m = root \/ Key[m] < Key[root]
      BY <2>3, <2>4, <2>6 DEF Toward, Opp, LEFT, RIGHT, HERE
    <3>2. Set!Largest(Held) = root
      BY <1>3, <2>2, <3>1, LargestIs
    <3>3. QED
      BY <1>1, <1>2, <2>6, <3>2 DEF Set!Greatest, Set!Answer, Set!Return
  <2>7. QED
    BY <1>1, <2>5, <2>6
<1>6. QED
  BY <1>4, <1>5

LEMMA RemoveImplements ==
  ASSUME Inv, Remove
  PROVE  Set!Remove(call[2])
<1>1. /\ pc = "top" /\ call[1] = "remove" /\ pc' = "idle" /\ call' = call
      /\ result' = IF Present THEN call[2] ELSE NULL
  BY DEF Remove, Called, Return
<1>2. Held' = IF Present THEN Held \ {root} ELSE Held
  BY RemoveStep
<1>3. Set!Same(call[2]) = IF Present THEN {root} ELSE {}
  BY <1>1, SameKey
<1>4. QED
  BY <1>1, <1>2, <1>3 DEF Set!Remove, Set!Return

LEMMA RemoveInnerImplements ==
  ASSUME Inv, RemoveInner
  PROVE  UNCHANGED <<Held, pc # "idle", call, result>>
<1>1. pc = "top" /\ pc' = "join" /\ UNCHANGED <<call, result>>
  BY DEF RemoveInner, Called, Start
<1>2. QED
  BY <1>1, RemoveInnerStep

LEMMA JoinImplements ==
  ASSUME Inv, Join
  PROVE  Set!Remove(call[2])
<1>1. pc = "joined" /\ pc' = "idle" /\ call' = call /\ result' = call[2]
  BY DEF Join, Return
<1>2. Held' = Held \ {gone}
  BY JoinStep
<1>3. gone # NULL
  BY <1>1, WholeState
<1>4. /\ call[1] = "remove" /\ Key[gone] = Key[call[2]] /\ gone \in Node
      /\ \A x \in Rest : Toward(Key[x], gone) = RIGHT
      /\ \A x \in Pieces(kid, acc, root) : Toward(Key[x], gone) = LEFT
  BY <1>3 DEF Inv, Removing, TypeOK, Pointer
<1>5. Held = Pieces(kid, acc, root) \cup Rest \cup {gone}
  BY <1>3 DEF Held
<1>6. Set!Same(call[2]) = {gone}
  <2>1. ASSUME NEW x \in Pieces(kid, acc, root) \cup Rest PROVE Key[x] # Key[gone]
    <3>1. x \in Node
      BY ElementsAreNodes DEF Pieces, Part, Rest
    <3>2. QED
      BY <1>4, <3>1, TowardFacts, SideFacts
  <2>2. QED
    BY <1>4, <1>5, <2>1 DEF Set!Same
<1>7. QED
  BY <1>1, <1>2, <1>4, <1>6 DEF Set!Remove, Set!Return

(* What is above the root is right of it.                                   *)
LEMMA AboveRoot ==
  ASSUME Inv, pc \in {"top", "walk"}, root \in Node
  PROVE  Set!Above(root) = Elements(kid, kid[RIGHT][root])
<1>1. kid \in Memory /\ SearchTree(kid, root) /\ Held = Elements(kid, root)
  BY WholeState
<1>2. \A x \in Held : Toward(Key[x], root) = RIGHT <=> x \in Elements(kid, kid[RIGHT][root])
  BY <1>1, SideFacts, SideOfRoot
<1>3. \A x \in Held : Toward(Key[x], root) = RIGHT <=> Key[x] > Key[root]
  <2>1. \A x \in Held : Key[x] \in Nat /\ Key[root] \in Nat
    BY <1>1, TreeAssumption, ElementsAreNodes
  <2>2. QED
    BY <2>1 DEF Toward, LEFT, RIGHT, HERE
<1>4. Elements(kid, kid[RIGHT][root]) \subseteq Held
  BY <1>1, SideFacts, TreeAtRoot
<1>5. QED
  BY <1>2, <1>3, <1>4 DEF Set!Above

LEMMA FollowingImplements ==
  ASSUME Inv, Following
  PROVE  Set!NextOf(call[2]) \/ UNCHANGED <<Held, pc # "idle", call, result>>
<1>1. pc = "top" /\ call[1] = "next" /\ root = call[2] /\ root \in Node
  BY NextAtRoot DEF Following, Called
<1>2. Held' = Held
  BY FollowingStep
<1>3. CASE kid[RIGHT][root] = NULL
  <2>1. pc' = "idle" /\ call' = call /\ result' = NULL
    BY <1>1, <1>3 DEF Following, Return
  <2>2. Set!Above(root) = {}
    BY <1>1, <1>3, AboveRoot, NoElements
  <2>3. QED
    BY <1>1, <1>2, <2>1, <2>2 DEF Set!NextOf, Set!Answer, Set!Return, Set!Smallest
<1>4. CASE kid[RIGHT][root] # NULL
  BY <1>1, <1>2, <1>4 DEF Following, Walk
<1>5. QED
  BY <1>3, <1>4

LEMMA WalkOnImplements ==
  ASSUME Inv, WalkOn
  PROVE  Set!NextOf(call[2]) \/ UNCHANGED <<Held, pc # "idle", call, result>>
<1> DEFINE above == Elements(kid, kid[RIGHT][root])
<1>1. /\ pc = "walk" /\ call[1] = "next" /\ root = call[2] /\ tmp \in above
      /\ root \in Node /\ tmp \in Node
      /\ \A x \in above :
            x = tmp \/ x \in Elements(kid, kid[LEFT][tmp]) \/ Toward(Key[x], tmp) = RIGHT
  BY WalkState DEF WalkOn
<1>2. Held' = Held
  BY WalkOnStep
<1>3. CASE kid[LEFT][tmp] = NULL
  <2>1. pc' = "idle" /\ call' = call /\ result' = tmp
    BY <1>3 DEF WalkOn, Return
  <2>2. \A x \in above : x = tmp \/ Toward(Key[x], tmp) = RIGHT
    BY <1>1, <1>3, NoElements
  <2>3. \A x \in above : x \in Node /\ Key[x] \in Nat /\ Key[tmp] \in Nat
    BY <1>1, TreeAssumption, ElementsAreNodes
  <2>4. \A x \in above : x = tmp \/ Key[tmp] < Key[x]
    BY <2>2, <2>3 DEF Toward, LEFT, RIGHT, HERE
  <2>5. Set!Smallest(above) = tmp
    BY <1>1, <2>3, <2>4, SmallestIs
  <2>6. Set!Above(root) = above
    BY <1>1, AboveRoot
  <2>7. QED
    BY <1>1, <1>2, <2>1, <2>5, <2>6 DEF Set!NextOf, Set!Answer, Set!Return
<1>4. CASE kid[LEFT][tmp] # NULL
  BY <1>1, <1>2, <1>4 DEF WalkOn, Walk
<1>5. QED
  BY <1>3, <1>4

(* Every call of a splay tree does what it promises and gives the answer    *)
(* that the order of the keys asks for.                                     *)
THEOREM Implements == Spec => SetSpec
<1>1. Init => Set!Init
  BY InitInv DEF Init, Set!Init
<1>2. ASSUME Inv, [Next]_vars
      PROVE  [Set!Next]_<<Held, pc # "idle", call, result>>
  <2> DEFINE Same == UNCHANGED <<Held, pc # "idle", call, result>>
  <2>1. CASE Calls
    BY <1>2, <2>1, CallsImplements DEF Set!Next
  <2>2. CASE Splay
    BY <1>2, <2>2, SplayImplements
  <2>3. CASE Insert
    BY <1>2, <2>3, InsertImplements DEF Set!Next, Set!Returns
  <2>4. CASE Find
    BY <1>2, <2>4, FindImplements DEF Set!Next, Set!Returns
  <2>5. CASE MinMax
    BY <1>2, <2>5, MinMaxImplements DEF Set!Next, Set!Returns
  <2>6. CASE Remove
    BY <1>2, <2>6, RemoveImplements DEF Set!Next, Set!Returns
  <2>7. CASE RemoveInner
    BY <1>2, <2>7, RemoveInnerImplements
  <2>8. CASE Join
    BY <1>2, <2>8, JoinImplements DEF Set!Next, Set!Returns
  <2>9. CASE Following
    BY <1>2, <2>9, FollowingImplements DEF Set!Next, Set!Returns
  <2>10. CASE WalkOn
    BY <1>2, <2>10, WalkOnImplements DEF Set!Next, Set!Returns
  <2>11. CASE UNCHANGED vars
    BY <2>11 DEF vars, Held, Rest
  <2>12. QED
    BY <1>2, <2>1, <2>2, <2>3, <2>4, <2>5, <2>6, <2>7, <2>8, <2>9, <2>10, <2>11 DEF Next
<1>3. QED
  BY <1>1, <1>2, Invariant, PTL DEF Spec, SetSpec, Set!Spec
================================================================================
