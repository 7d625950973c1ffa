---------------------------- MODULE RedBlackProofs -----------------------------
(****************************************************************************)
(* Proofs about RedBlackTree, for every set of elements and every order of  *)
(* their keys.  Of the inductive invariant Inv, Good says what the pointers *)
(* are in every step, Walk what a call has passed on its way, and Colours   *)
(* that there is a function b that gives each element the number of black   *)
(* nodes below it: the same on every path, but for one place in a removal   *)
(* that lacks one (Lacks), and with no red node below a red one, but for    *)
(* one in an insertion (Ripe).  First the colours, macro by macro; then the *)
(* steps, action by action; the theorems; and the steps of OrderedSet.      *)
(****************************************************************************)
EXTENDS RedBlackTree, TreeLemmas, NaturalsInduction, WellFoundedInduction

(* b[n] is the number of black nodes on each path from n down, where what   *)
(* hangs on side s of g counts for one more than it has.                    *)
Even(t, b, n, d, g, s) ==
    b[n] = b[t.kid[d][n]] + Weight(t, n) + (IF n = g /\ d = s THEN 1 ELSE 0)

Level(t, b, g, s) == /\ b \in [Pointer -> Nat] /\ b[NULL] = 0
                     /\ \A n \in In(t), d \in Side : Even(t, b, n, d, g, s)

(* No red node but x is the root, or hangs from a red one.                  *)
Calm(t, x) ==
    /\ \A n \in In(t), d \in Side : n \in t.red /\ t.kid[d][n] \in t.red => t.kid[d][n] = x
    /\ t.root \in t.red => t.root = x

(* ... or is one from which that does.                                      *)
Loose(t, x) ==
    /\ \A n \in In(t), d \in Side : n \in t.red /\ t.kid[d][n] \in t.red => x \in {n, t.kid[d][n]}
    /\ t.root \in t.red => t.root = x

Coloured(t, b, g, s, x) == Level(t, b, g, s) /\ Calm(t, x)

LEMMA SameEven ==
  ASSUME NEW t, NEW b, NEW n, NEW d, NEW g, NEW s, NEW t2, NEW b2, NEW g2, NEW s2,
         Even(t, b, n, d, g, s), b2[n] = b[n], b2[t2.kid[d][n]] = b[t.kid[d][n]],
         n \in t2.red <=> n \in t.red, (n = g /\ d = s) <=> (n = g2 /\ d = s2)
  PROVE  Even(t2, b2, n, d, g2, s2)
BY DEF Even, Weight

(* Colours are not what Good is about.                                      *)
LEMMA Repainted ==
  ASSUME NEW t, Good(t), NEW R \in SUBSET Node
  PROVE  LET t2 == [t EXCEPT !.red = R]
         IN  /\ Good(t2) /\ In(t2) = In(t) /\ t2.red = R
             /\ t2.kid = t.kid /\ t2.root = t.root /\ t2.parent = t.parent
<1> DEFINE t2 == [t EXCEPT !.red = R]
<1>1. /\ Typed(t2) /\ t2.kid = t.kid /\ t2.root = t.root /\ t2.parent = t.parent /\ t2.red = R
  BY DEF Good, Typed
<1> HIDE DEF t2
<1>2. QED
  BY <1>1 DEF Good, In, Rooted, t2

LEMMA Calmed ==
  ASSUME NEW t, NEW x, Calm(t, x), x \notin t.red
  PROVE  Calm(t, NULL)
BY DEF Calm

LEMMA Loosened ==
  ASSUME NEW t, NEW x
  PROVE  /\ Calm(t, x) => Loose(t, x)
         /\ Loose(t, x) /\ x \notin t.red => Calm(t, x)
BY DEF Calm, Loose

(* A node above e is not below e.                                           *)
LEMMA NotBelow ==
  ASSUME NEW t, Good(t), NEW e \in In(t), NEW d \in Side, NEW x \in Elements(t.kid, t.kid[d][e]),
         NEW f \in Side
  PROVE  t.kid[f][x] # e
<1>1. t.kid \in Memory /\ x \in In(t) /\ x \in Node /\ e \in Node
      /\ t.kid[d][e] \in Pointer /\ e \notin Elements(t.kid, t.kid[d][e])
  BY TypedFacts, GoodBelow, ElementsAreNodes DEF Good
<1>2. CASE t.kid[f][x] = e
  <2>1. t.kid[d][e] \in Node
    BY <1>1, NoElements DEF Pointer
  <2>2. Closed(t.kid, Elements(t.kid, t.kid[d][e]))
    BY <1>1, <2>1, ElementsClosed
  <2>3. e # NULL
    BY <1>1, SideFacts
  <2>4. QED
    BY <1>1, <1>2, <2>2, <2>3 DEF Closed
<1>3. QED
  BY <1>2
-----------------------------------------------------------------------------
(* With the colours R, the counts b2 are right where a rotation at e makes  *)
(* a change, and what is around sees none.                                  *)
Dark(R, n) == IF n \in R THEN 0 ELSE 1

Fits(t, e, d, R, b, b2, g2, s2) ==
    LET c     == t.kid[d][e]
        o     == Opp(d)
        inner == t.kid[o][c]
        outer == t.kid[d][c]
    IN  /\ b2 \in [Pointer -> Nat] /\ b2[NULL] = 0 /\ R \subseteq Node
        /\ \A n \in Pointer : n \notin {e, c, outer} => b2[n] = b[n] /\ (n \in R <=> n \in t.red)
        /\ b2[c] = b[e]
        /\ b2[c] = b2[e] + Dark(R, c)
        /\ b2[c] = b2[outer] + Dark(R, c)
        /\ b2[e] = b[inner] + Dark(R, e)
        /\ b2[e] = b[t.kid[o][e]] + Dark(R, e) + (IF e = g2 /\ s2 = o THEN 1 ELSE 0)
        /\ outer # NULL => b2[outer] + Weight(t, outer) = b[outer] + Dark(R, outer)
        /\ g2 # c /\ (g2 = e => s2 = o)

(* The places in a tree around a rotation at e.                             *)
LEMMA Around ==
  ASSUME NEW t, Good(t), NEW e \in In(t), NEW d \in Side, t.kid[d][e] # NULL
  PROVE  LET c     == t.kid[d][e]
             o     == Opp(d)
             inner == t.kid[o][c]
             outer == t.kid[d][c]
             other == t.kid[o][e]
             p     == t.parent[e]
         IN  /\ c \in In(t) /\ c \in Node /\ c # e /\ o \in Side /\ o # d
             /\ {inner, outer, other} \subseteq Pointer
             /\ inner \notin {e, c} /\ outer \notin {e, c} /\ other \notin {e, c}
             /\ outer # NULL => outer \in In(t) /\ outer \notin {inner, other, p}
             /\ inner # NULL => inner \in In(t) /\ inner # other
             /\ other # NULL => other \in In(t)
             /\ \A f \in Side : outer # NULL => t.kid[f][outer] \notin {e, c, outer}
             /\ \A n \in In(t), f \in Side :
                   /\ t.kid[f][n] = c => n = e /\ f = d
                   /\ t.kid[f][n] = outer /\ outer # NULL => n = c /\ f = d
                   /\ t.kid[f][n] = e => n = p /\ f = SideOf(t, e, p)
<1> DEFINE c     == t.kid[d][e]
           o     == Opp(d)
           inner == t.kid[o][c]
           outer == t.kid[d][c]
           other == t.kid[o][e]
           p     == t.parent[e]
<1>1. /\ Typed(t) /\ t.kid \in Memory /\ o \in Side /\ o # d /\ e \in Node /\ e # NULL
      /\ \A f \in Side : f = d \/ f = o
  BY TypedFacts, GoodBelow, SideFacts DEF Good
<1>2. c \in In(t) /\ c \in Node /\ c # e /\ t.parent[c] = e /\ SideOf(t, c, e) = d
  BY OnePlace
<1>3. \A n \in In(t), f \in Side :
         LET v == t.kid[f][n]
         IN  v # NULL => /\ v \in In(t) /\ v \in Node /\ v # n
                         /\ t.parent[v] = n /\ SideOf(t, v, n) = f
  BY OnePlace
<1>4. {inner, outer, other} \subseteq Pointer
  BY <1>1, <1>2, TypedFacts
<1> HIDE DEF c, o, inner, outer, other, p
<1>5. /\ inner = t.kid[o][c] /\ outer = t.kid[d][c] /\ other = t.kid[o][e] /\ c = t.kid[d][e]
      /\ p = t.parent[e]
  BY DEF inner, outer, other, c, o, p
<1>6. inner # NULL => /\ inner \in In(t) /\ inner # c /\ t.parent[inner] = c
                      /\ SideOf(t, inner, c) = o
  BY <1>1, <1>2, <1>3, <1>5
<1>7. outer # NULL => /\ outer \in In(t) /\ outer # c /\ t.parent[outer] = c
                      /\ SideOf(t, outer, c) = d /\ outer \in Node
  BY <1>2, <1>3, <1>5
<1>8. other # NULL => /\ other \in In(t) /\ other # e /\ t.parent[other] = e
                      /\ SideOf(t, other, e) = o
  BY <1>1, <1>3, <1>5
<1>9. c \in Elements(t.kid, t.kid[d][e])
  BY <1>1, <1>2, <1>5, ElementsClosed
<1>10. inner # e /\ outer # e
  BY <1>1, <1>5, <1>9, NotBelow
<1>11. ASSUME outer # NULL PROVE \A f \in Side : t.kid[f][outer] \notin {e, c, outer}
  <2>1. outer \in Elements(t.kid, t.kid[d][e]) /\ outer \in Elements(t.kid, t.kid[d][c])
    <3>1. c \in Node /\ outer \in Elements(t.kid, c) /\ outer \in Elements(t.kid, t.kid[d][c])
      <4>1. t.kid \in Memory /\ c \in Node /\ outer \in Node /\ t.kid[d][c] = outer /\ outer # NULL
        BY <1>1, <1>2, <1>5, <1>7, <1>11
      <4>2. outer \in Elements(t.kid, outer) /\ c \in Elements(t.kid, c)
        BY <4>1, ElementsClosed
      <4>3. Closed(t.kid, Elements(t.kid, c))
        BY <4>1, ElementsClosed
      <4>4. QED
        BY <4>1, <4>2, <4>3 DEF Closed
    <3>2. QED
      BY <1>5, <3>1
  <2>2. \A f \in Side : t.kid[f][outer] # e
    BY <2>1, NotBelow
  <2>3. \A f \in Side : t.kid[f][outer] # c
    BY <1>2, <2>1, NotBelow
  <2>4. QED
    BY <1>3, <1>7, <1>11, <2>2, <2>3, SideFacts
<1>12. outer # NULL => outer # p
  <2>1. p # NULL => SideOf(t, e, p) \in Side /\ t.kid[SideOf(t, e, p)][p] = e
    BY <1>5, ParentOf
  <2>2. QED
    BY <1>11, <2>1
<1>13. \A n \in In(t), f \in Side :
          /\ t.kid[f][n] = c => n = e /\ f = d
          /\ t.kid[f][n] = outer /\ outer # NULL => n = c /\ f = d
          /\ t.kid[f][n] = e => n = p /\ f = SideOf(t, e, p)
  BY <1>1, <1>2, <1>3, <1>5, <1>7, SideFacts
<1>14. c # NULL /\ inner # c /\ outer # c /\ other # c /\ other # e
  BY <1>1, <1>2, <1>6, <1>7, <1>8, SideFacts
<1>15. /\ outer # NULL => outer # inner /\ outer # other
       /\ inner # NULL => inner # other
  BY <1>1, <1>2, <1>6, <1>7, <1>8
<1>16. QED
  BY <1>1, <1>2, <1>4, <1>6, <1>7, <1>8, <1>10, <1>11, <1>12, <1>13, <1>14, <1>15
     DEF c, o, inner, outer, other, p

LEMMA KidsApart ==
  ASSUME NEW t, Good(t), NEW e \in In(t), NEW d \in Side, NEW c, c = t.kid[d][e], c # NULL,
         NEW inner, inner = t.kid[Opp(d)][c], NEW outer, outer = t.kid[d][c]
  PROVE  /\ inner \in Pointer /\ outer \in Pointer /\ c # e
         /\ inner \notin {e, c} /\ outer \notin {e, c}
         /\ outer # NULL => outer \in In(t) /\ outer # inner
BY Around

LEMMA EvenFacts ==
  ASSUME NEW t, NEW b, NEW n, NEW d, NEW g, NEW s, NEW v, v = t.kid[d][n],
         b[n] \in Nat, b[v] \in Nat, Even(t, b, n, d, g, s)
  PROVE  /\ ~(n = g /\ d = s) => b[n] = b[v] + Dark(t.red, n)
         /\ n = g /\ d = s => b[n] = b[v] + Dark(t.red, n) + 1
         /\ n \in t.red => Dark(t.red, n) = 0
         /\ n \notin t.red => Dark(t.red, n) = 1
         /\ ~(n = g /\ d = s) /\ n \in t.red => b[n] = b[v]
         /\ ~(n = g /\ d = s) /\ n \notin t.red => b[n] = b[v] + 1
         /\ n = g /\ d = s /\ n \in t.red => b[n] = b[v] + 1
         /\ n = g /\ d = s /\ n \notin t.red => b[n] = b[v] + 2
BY DEF Even, Weight, Dark

LEMMA Zero == \A x \in Nat : x + 0 = x /\ x + 0 + 0 = x /\ x + 1 + 0 = x + 1
OBVIOUS

LEMMA EvenHere ==
  ASSUME NEW t, NEW b, NEW n, NEW d, NEW g, NEW s, NEW v,
         b[v] \in Nat, t.kid[d][n] = v, ~(n = g /\ d = s), b[n] = b[v] + Dark(t.red, n)
  PROVE  Even(t, b, n, d, g, s)
BY DEF Even, Weight, Dark

LEMMA RotatedLevel ==
  ASSUME NEW t, Good(t), NEW e \in In(t), NEW d \in Side, t.kid[d][e] # NULL, NEW R, NEW b,
         NEW g, NEW s, Level(t, b, g, s), NEW b2, NEW g2, NEW s2, Fits(t, e, d, R, b, b2, g2, s2),
         \A n \in In(t), f \in Side :
            n \notin {e, t.kid[d][e]} => ((n = g /\ f = s) <=> (n = g2 /\ f = s2))
  PROVE  Level(RbRotate([t EXCEPT !.red = R], e, d), b2, g2, s2)
<1> DEFINE c     == t.kid[d][e]
           o     == Opp(d)
           inner == t.kid[o][c]
           outer == t.kid[d][c]
           other == t.kid[o][e]
           p     == t.parent[e]
           t1    == [t EXCEPT !.red = R]
           t2    == RbRotate(t1, e, d)
<1>1. /\ c \in In(t) /\ c # e /\ o \in Side /\ o # d /\ c # NULL
      /\ \A f \in Side : f = d \/ f = o
      /\ {inner, outer, other} \subseteq Pointer
      /\ inner \notin {e, c} /\ outer \notin {e, c} /\ other \notin {e, c}
      /\ outer # NULL => outer \in In(t) /\ outer \notin {inner, other, p}
      /\ \A f \in Side : outer # NULL => t.kid[f][outer] \notin {e, c, outer}
      /\ \A n \in In(t), f \in Side :
            /\ t.kid[f][n] = c => n = e /\ f = d
            /\ t.kid[f][n] = outer /\ outer # NULL => n = c /\ f = d
            /\ t.kid[f][n] = e => n = p /\ f = SideOf(t, e, p)
  BY Around, SideFacts
<1>2. Fits(t, e, d, R, b, b2, g2, s2) /\ R \in SUBSET Node
  BY DEF Fits
<1>3. /\ Good(t1) /\ In(t1) = In(t) /\ t1.red = R
      /\ t1.kid = t.kid /\ t1.root = t.root /\ t1.parent = t.parent
  BY <1>2, Repainted
<1> HIDE DEF t1
<1>4. e \in In(t1) /\ t1.kid[d][e] # NULL /\ SideOf(t1, e, p) = SideOf(t, e, p)
  BY <1>3 DEF SideOf
<1>5. /\ In(t2) = In(t) /\ t2.red = R
      /\ \A m \in In(t), f \in Side :
            t2.kid[f][m] = IF m = c /\ f = Opp(d) THEN e
                           ELSE IF m = e /\ f = d THEN inner
                           ELSE IF m = p /\ f = SideOf(t, e, p) THEN c
                           ELSE t.kid[f][m]
  <2>1. /\ In(t2) = In(t1) /\ t2.red = t1.red
        /\ \A m \in In(t1), f \in Side :
            t2.kid[f][m] = IF m = t1.kid[d][e] /\ f = Opp(d) THEN e
                           ELSE IF m = e /\ f = d THEN t1.kid[Opp(d)][t1.kid[d][e]]
                           ELSE IF m = t1.parent[e] /\ f = SideOf(t1, e, t1.parent[e]) THEN t1.kid[d][e]
                           ELSE t1.kid[f][m]
    BY <1>3, <1>4, RbRotated
  <2>2. QED
    BY <1>3, <1>4, <2>1
<1>6. p # e /\ p # c
  BY <1>3, <1>4, RbRotated
<1> HIDE DEF t2
<1> HIDE DEF c, o, inner, outer, other, p
<1>7. /\ b2 \in [Pointer -> Nat] /\ b2[NULL] = 0
      /\ \A n \in Pointer : n \notin {e, c, outer} => b2[n] = b[n] /\ (n \in R <=> n \in t.red)
      /\ b2[c] = b[e]
      /\ b2[c] = b2[e] + Dark(R, c)
      /\ b2[c] = b2[outer] + Dark(R, c)
      /\ b2[e] = b[inner] + Dark(R, e)
      /\ b2[e] = b[other] + Dark(R, e) + (IF e = g2 /\ s2 = o THEN 1 ELSE 0)
      /\ outer # NULL => b2[outer] + Weight(t, outer) = b[outer] + Dark(R, outer)
      /\ g2 # c /\ (g2 = e => s2 = o)
  BY <1>2 DEF Fits, c, o, inner, outer, other
<1>8. /\ b \in [Pointer -> Nat] /\ b[NULL] = 0
      /\ \A n \in In(t), f \in Side : Even(t, b, n, f, g, s)
  BY DEF Level
<1>9. /\ c = t.kid[d][e] /\ o = Opp(d) /\ inner = t.kid[o][c] /\ outer = t.kid[d][c]
      /\ other = t.kid[o][e] /\ p = t.parent[e]
  BY DEF c, o, inner, outer, other, p
<1>10. /\ In(t) \subseteq Node /\ e \in Node /\ c \in Node /\ e # NULL
       /\ \A n \in In(t), f \in Side : t.kid[f][n] \in Pointer /\ n \in Pointer
  BY <1>1, GoodBelow, SideFacts DEF Pointer
<1>11. Even(t2, b2, c, o, g2, s2)
  <2>1. t2.kid[o][c] = e /\ ~(c = g2 /\ o = s2)
    BY <1>1, <1>5, <1>7, <1>9
  <2>2. b2[e] \in Nat /\ b2[c] = b2[e] + Dark(t2.red, c)
    BY <1>1, <1>5, <1>7, <1>10 DEF Pointer
  <2>3. QED
    BY <2>1, <2>2, EvenHere
<1>12. Even(t2, b2, c, d, g2, s2)
  <2>1. t2.kid[d][c] = outer /\ ~(c = g2 /\ d = s2)
    BY <1>1, <1>5, <1>6, <1>7, <1>9
  <2>2. b2[outer] \in Nat /\ b2[c] = b2[outer] + Dark(t2.red, c)
    BY <1>1, <1>5, <1>7, <1>10 DEF Pointer
  <2>3. QED
    BY <2>1, <2>2, EvenHere
<1>13. Even(t2, b2, e, d, g2, s2)
  <2>1. t2.kid[d][e] = inner /\ ~(e = g2 /\ d = s2)
    BY <1>1, <1>5, <1>7, <1>9
  <2>2. b2[inner] = b[inner]
    <3>1. inner # NULL => inner # outer
      BY <1>1
    <3>2. QED
      BY <1>1, <1>7, <1>8, <3>1
  <2>3. b2[inner] \in Nat /\ b2[e] = b2[inner] + Dark(t2.red, e)
    BY <1>1, <1>5, <1>7, <1>10, <2>2 DEF Pointer
  <2>4. QED
    BY <2>1, <2>3, EvenHere
<1>14. Even(t2, b2, e, o, g2, s2)
  <2>1. t2.kid[o][e] = other
    BY <1>1, <1>5, <1>6, <1>9
  <2>2. b2[other] = b[other]
    <3>1. other # NULL => other # outer
      BY <1>1
    <3>2. QED
      BY <1>1, <1>7, <1>8, <3>1
  <2>3. QED
    BY <1>5, <1>7, <2>1, <2>2 DEF Even, Weight, Dark
<1>15. ASSUME NEW n \in In(t), NEW f \in Side, n # e, n # c
       PROVE  Even(t2, b2, n, f, g2, s2)
  <2>1. Even(t, b, n, f, g, s) /\ ((n = g /\ f = s) <=> (n = g2 /\ f = s2))
    BY <1>8, <1>9, <1>15
  <2>2. CASE n = outer
    <3>1. /\ n # NULL /\ n # p /\ t.kid[f][n] \notin {e, c, outer} /\ t.kid[f][n] \in Pointer
      BY <1>1, <1>10, <2>2, SideFacts
    <3>2. t2.kid[f][n] = t.kid[f][n] /\ b2[t.kid[f][n]] = b[t.kid[f][n]]
      BY <1>5, <1>7, <1>15, <3>1
    <3>3. b2[n] + Weight(t, n) = b[n] + Dark(R, n) /\ b[t.kid[f][n]] \in Nat /\ b[n] \in Nat /\ b2[n] \in Nat
      BY <1>7, <1>8, <1>10, <2>2, <3>1
    <3>4. QED
      BY <1>5, <2>1, <3>2, <3>3 DEF Even, Weight, Dark
  <2>3. CASE n # outer
    <3>1. b2[n] = b[n] /\ (n \in t2.red <=> n \in t.red)
      BY <1>5, <1>7, <1>10, <1>15, <2>3
    <3>2. b2[t2.kid[f][n]] = b[t.kid[f][n]]
      <4>1. CASE n = p /\ f = SideOf(t, e, p)
        <5>1. t.kid[f][n] = e
          <6>1. p # NULL
            BY <1>10, <4>1, SideFacts
          <6>2. QED
            BY <1>9, <4>1, <6>1, ParentOf
        <5>2. t2.kid[f][n] = c
          BY <1>5, <1>15, <4>1
        <5>3. QED
          BY <1>7, <5>1, <5>2
      <4>2. CASE ~(n = p /\ f = SideOf(t, e, p))
        <5>1. t2.kid[f][n] = t.kid[f][n]
          BY <1>5, <1>15, <4>2
        <5>2. t.kid[f][n] \notin {e, c} /\ (t.kid[f][n] = outer => outer = NULL)
          BY <1>1, <1>15, <4>2
        <5>3. t.kid[f][n] \in Pointer
          BY <1>10
        <5>4. QED
          BY <1>7, <1>8, <5>1, <5>2, <5>3
      <4>3. QED
        BY <4>1, <4>2
    <3>3. QED
      BY <2>1, <3>1, <3>2, SameEven
  <2>4. QED
    BY <2>2, <2>3
<1>16. \A n \in In(t), f \in Side : Even(t2, b2, n, f, g2, s2)
  BY <1>1, <1>11, <1>12, <1>13, <1>14, <1>15
<1>17. QED
  BY <1>5, <1>7, <1>16 DEF Level, t1, t2

Quiet(t, e, d, R, x, x2) ==
    LET c     == t.kid[d][e]
        o     == Opp(d)
        inner == t.kid[o][c]
        outer == t.kid[d][c]
        other == t.kid[o][e]
    IN  /\ R \subseteq Node
        /\ \A n \in Pointer : n \notin {e, c, outer} => (n \in R <=> n \in t.red)
        /\ outer \in R => outer \in t.red
        /\ x = x2 \/ x = c
        /\ c \in R /\ e \in R => e = x2
        /\ c \in R /\ outer \in R => outer = x2
        /\ e \in R /\ inner \in R => inner = x2
        /\ e \in R /\ other \in R => other = x2
        /\ c \in R => c = x2 \/ (e # t.root /\ t.parent[e] \notin t.red)

LEMMA RotatedCalm ==
  ASSUME NEW t, Good(t), NEW e \in In(t), NEW d \in Side, t.kid[d][e] # NULL, NEW R, NEW x,
         Calm(t, x), NEW x2, Quiet(t, e, d, R, x, x2)
  PROVE  Calm(RbRotate([t EXCEPT !.red = R], e, d), x2)
<1> DEFINE c     == t.kid[d][e]
           o     == Opp(d)
           inner == t.kid[o][c]
           outer == t.kid[d][c]
           other == t.kid[o][e]
           p     == t.parent[e]
           t1    == [t EXCEPT !.red = R]
           t2    == RbRotate(t1, e, d)
<1>1. /\ c \in In(t) /\ c # e /\ o \in Side /\ o # d /\ c # NULL
      /\ \A f \in Side : f = d \/ f = o
      /\ {inner, outer, other} \subseteq Pointer
      /\ inner \notin {e, c} /\ outer \notin {e, c} /\ other \notin {e, c}
      /\ outer # NULL => outer \in In(t) /\ outer \notin {inner, other, p}
      /\ \A f \in Side : outer # NULL => t.kid[f][outer] \notin {e, c, outer}
      /\ \A n \in In(t), f \in Side :
            /\ t.kid[f][n] = c => n = e /\ f = d
            /\ t.kid[f][n] = outer /\ outer # NULL => n = c /\ f = d
            /\ t.kid[f][n] = e => n = p /\ f = SideOf(t, e, p)
  BY Around, SideFacts
<1>2. Quiet(t, e, d, R, x, x2) /\ R \in SUBSET Node
  BY DEF Quiet
<1>3. /\ Good(t1) /\ In(t1) = In(t) /\ t1.red = R
      /\ t1.kid = t.kid /\ t1.root = t.root /\ t1.parent = t.parent
  BY <1>2, Repainted
<1> HIDE DEF t1
<1>4. e \in In(t1) /\ t1.kid[d][e] # NULL /\ SideOf(t1, e, p) = SideOf(t, e, p)
  BY <1>3 DEF SideOf
<1>5. /\ In(t2) = In(t) /\ t2.red = R /\ t2.root = IF p = NULL THEN c ELSE t.root
      /\ p # e /\ p # c
      /\ \A m \in In(t), f \in Side :
            t2.kid[f][m] = IF m = c /\ f = Opp(d) THEN e
                           ELSE IF m = e /\ f = d THEN inner
                           ELSE IF m = p /\ f = SideOf(t, e, p) THEN c
                           ELSE t.kid[f][m]
  <2>1. /\ In(t2) = In(t1) /\ t2.red = t1.red
        /\ t2.root = IF t1.parent[e] = NULL THEN t1.kid[d][e] ELSE t1.root
        /\ t1.parent[e] # e /\ t1.parent[e] # t1.kid[d][e]
        /\ \A m \in In(t1), f \in Side :
            t2.kid[f][m] = IF m = t1.kid[d][e] /\ f = Opp(d) THEN e
                           ELSE IF m = e /\ f = d THEN t1.kid[Opp(d)][t1.kid[d][e]]
                           ELSE IF m = t1.parent[e] /\ f = SideOf(t1, e, t1.parent[e]) THEN t1.kid[d][e]
                           ELSE t1.kid[f][m]
    BY <1>3, <1>4, RbRotated
  <2>2. QED
    BY <1>3, <1>4, <2>1
<1> HIDE DEF t2
<1> HIDE DEF c, o, inner, outer, other, p
<1>6. /\ \A n \in Pointer : n \notin {e, c, outer} => (n \in R <=> n \in t.red)
      /\ outer \in R => outer \in t.red
      /\ x = x2 \/ x = c
      /\ c \in R /\ e \in R => e = x2
      /\ c \in R /\ outer \in R => outer = x2
      /\ e \in R /\ inner \in R => inner = x2
      /\ e \in R /\ other \in R => other = x2
      /\ c \in R => c = x2 \/ (e # t.root /\ p \notin t.red)
  BY <1>2 DEF Quiet, c, o, inner, outer, other, p
<1>7. /\ \A n \in In(t), f \in Side : n \in t.red /\ t.kid[f][n] \in t.red => t.kid[f][n] = x
      /\ t.root \in t.red => t.root = x
  BY DEF Calm
<1>8. /\ c = t.kid[d][e] /\ o = Opp(d) /\ inner = t.kid[o][c] /\ outer = t.kid[d][c]
      /\ other = t.kid[o][e] /\ p = t.parent[e]
  BY DEF c, o, inner, outer, other, p
<1>9. /\ In(t) \subseteq Node /\ e \in Node /\ c \in Node /\ e # NULL
       /\ \A n \in In(t), f \in Side : t.kid[f][n] \in Pointer /\ n \in Pointer
       /\ NULL \notin R /\ (p = NULL <=> e = t.root)
  BY <1>1, <1>2, <1>8, GoodBelow, ParentOf, SideFacts DEF Pointer
<1>10. ASSUME NEW n \in In(t), NEW f \in Side, n \in R, t2.kid[f][n] \in R
       PROVE  t2.kid[f][n] = x2
  <2>1. CASE n = c
    <3>1. t2.kid[f][n] = e \/ t2.kid[f][n] = outer
      BY <1>1, <1>5, <1>8, <2>1
    <3>2. QED
      BY <1>6, <1>10, <2>1, <3>1
  <2>2. CASE n = e
    <3>1. t2.kid[f][n] = inner \/ t2.kid[f][n] = other
      BY <1>1, <1>5, <1>8, <2>2
    <3>2. QED
      BY <1>6, <1>10, <2>2, <3>1
  <2>3. CASE n \notin {e, c} /\ n = p /\ f = SideOf(t, e, p)
    <3>1. t2.kid[f][n] = c /\ n # NULL
      BY <1>5, <1>9, <2>3, SideFacts
    <3>2. n # outer
      BY <1>1, <2>3, <3>1
    <3>3. n \in t.red /\ e # t.root
      BY <1>6, <1>9, <1>10, <2>3, <3>1, <3>2
    <3>4. QED
      BY <1>6, <1>10, <2>3, <3>1, <3>3
  <2>4. CASE n \notin {e, c} /\ ~(n = p /\ f = SideOf(t, e, p))
    <3> DEFINE v == t.kid[f][n]
    <3>1. t2.kid[f][n] = v /\ v \in Pointer /\ v \in R /\ v # NULL
      BY <1>5, <1>9, <1>10, <2>4
    <3>2. v \notin {e, c, outer}
      BY <1>1, <2>4, <3>1
    <3>3. v \in t.red /\ n \in t.red
      BY <1>6, <1>9, <1>10, <2>4, <3>1, <3>2
    <3>4. v = x
      BY <1>7, <3>3
    <3>5. QED
      BY <1>6, <3>1, <3>2, <3>4
  <2>5. QED
    BY <2>1, <2>2, <2>3, <2>4
<1>11. ASSUME t2.root \in R PROVE t2.root = x2
  <2>1. CASE p = NULL
    BY <1>5, <1>6, <1>9, <1>11, <2>1
  <2>2. CASE p # NULL
    <3>1. t2.root = t.root /\ t.root # e
      BY <1>5, <1>9, <2>2
    <3>2. t.root # c /\ t.root \in Pointer /\ (t.root = outer => outer = NULL)
      <4>1. t.kid[d][e] # t.root /\ t.root \in Pointer
        BY OnePlace, TypedFacts DEF Good
      <4>2. outer # NULL => outer # t.root
        BY <1>1, <1>8, OnePlace
      <4>3. QED
        BY <1>8, <4>1, <4>2
    <3>3. t.root \in t.red
      BY <1>6, <1>9, <1>11, <3>1, <3>2
    <3>4. QED
      BY <1>6, <1>7, <3>1, <3>2, <3>3
  <2>3. QED
    BY <2>1, <2>2
<1>12. QED
  BY <1>5, <1>10, <1>11 DEF Calm, t1, t2
-----------------------------------------------------------------------------
(* What a rotation makes of a tree, place by place, with the colours R.     *)
Turned(t, t2, e, d, R) ==
    LET c == t.kid[d][e]
        o == Opp(d)
        p == t.parent[e]
        s == SideOf(t, e, p)
    IN  /\ Good(t2) /\ In(t2) = In(t) /\ t2.red = R
        /\ t2.root = IF p = NULL THEN c ELSE t.root
        /\ t2.parent[e] = c /\ t2.parent[c] = p
        /\ t2.kid[o][c] = e /\ t2.kid[d][c] = t.kid[d][c]
        /\ t2.kid[d][e] = t.kid[o][c] /\ t2.kid[o][e] = t.kid[o][e]
        /\ p # NULL => p \in In(t) /\ p # e /\ p # c /\ s \in Side /\ t.kid[s][p] = e
                       /\ t2.kid[s][p] = c
        /\ \A m \in In(t) \ {e, c}, f \in Side :
              ~(m = p /\ f = s) => t2.kid[f][m] = t.kid[f][m]

LEMMA RepaintedRotated ==
  ASSUME NEW t, Good(t), NEW e \in In(t), NEW d \in Side, t.kid[d][e] # NULL,
         NEW R \in SUBSET Node
  PROVE  Turned(t, RbRotate([t EXCEPT !.red = R], e, d), e, d, R)
<1> DEFINE c  == t.kid[d][e]
           o  == Opp(d)
           p  == t.parent[e]
           s  == SideOf(t, e, p)
           t1 == [t EXCEPT !.red = R]
           t2 == RbRotate(t1, e, d)
<1>1. /\ Good(t1) /\ In(t1) = In(t) /\ t1.red = R
      /\ t1.kid = t.kid /\ t1.root = t.root /\ t1.parent = t.parent
  BY Repainted
<1> HIDE DEF t1
<1>2. e \in In(t1) /\ t1.kid[d][e] # NULL /\ SideOf(t1, e, p) = s
  BY <1>1 DEF SideOf
<1>3. /\ Good(t2) /\ In(t2) = In(t1) /\ t2.red = t1.red
      /\ t1.kid[d][e] \in In(t1) /\ t1.kid[d][e] # e
      /\ t1.parent[e] # e /\ t1.parent[e] # t1.kid[d][e]
      /\ t1.parent[e] # NULL => /\ t1.parent[e] \in In(t1) /\ SideOf(t1, e, t1.parent[e]) \in Side
                                /\ t1.kid[SideOf(t1, e, t1.parent[e])][t1.parent[e]] = e
      /\ t2.root = IF t1.parent[e] = NULL THEN t1.kid[d][e] ELSE t1.root
      /\ t2.parent[e] = t1.kid[d][e] /\ t2.parent[t1.kid[d][e]] = t1.parent[e]
      /\ \A m \in In(t1), f \in Side :
           t2.kid[f][m] = IF m = t1.kid[d][e] /\ f = Opp(d) THEN e
                          ELSE IF m = e /\ f = d THEN t1.kid[Opp(d)][t1.kid[d][e]]
                          ELSE IF m = t1.parent[e] /\ f = SideOf(t1, e, t1.parent[e]) THEN t1.kid[d][e]
                          ELSE t1.kid[f][m]
  BY <1>1, <1>2, RbRotated
<1> HIDE DEF t2
<1>4. /\ Good(t2) /\ In(t2) = In(t) /\ t2.red = R /\ c \in In(t) /\ c # e /\ p # e /\ p # c
      /\ p # NULL => p \in In(t) /\ s \in Side /\ t.kid[s][p] = e
      /\ t2.root = IF p = NULL THEN c ELSE t.root
      /\ t2.parent[e] = c /\ t2.parent[c] = p
      /\ \A m \in In(t), f \in Side :
           t2.kid[f][m] = IF m = c /\ f = o THEN e
                          ELSE IF m = e /\ f = d THEN t.kid[o][c]
                          ELSE IF m = p /\ f = s THEN c
                          ELSE t.kid[f][m]
  BY <1>1, <1>2, <1>3
<1>5. o \in Side /\ o # d
  BY SideFacts
<1> HIDE DEF c, o, p, s
<1>6. /\ t2.kid[o][c] = e /\ t2.kid[d][c] = t.kid[d][c]
      /\ t2.kid[d][e] = t.kid[o][c] /\ t2.kid[o][e] = t.kid[o][e]
      /\ p # NULL => t2.kid[s][p] = c
      /\ \A m \in In(t) \ {e, c}, f \in Side :
            ~(m = p /\ f = s) => t2.kid[f][m] = t.kid[f][m]
  BY <1>4, <1>5
<1>7. QED
  BY <1>4, <1>6 DEF c, o, p, s, t1, t2, Turned

(* A red kid of a black node comes up, and the colours change places.       *)
LEMMA RedRaised ==
  ASSUME NEW t, Good(t), NEW e \in In(t), NEW d \in Side, t.kid[d][e] \in t.red, e \notin t.red,
         t.kid[Opp(d)][e] \notin t.red,
         NEW b, NEW g, NEW s, NEW x, Coloured(t, b, g, s, x), g # t.kid[d][e], g = e => s = Opp(d)
  PROVE  \E b2 : Coloured(RbRotate(SetBlackRed(t, t.kid[d][e], e), e, d), b2, g, s, x)
<1> DEFINE c     == t.kid[d][e]
           o     == Opp(d)
           inner == t.kid[o][c]
           outer == t.kid[d][c]
           other == t.kid[o][e]
           R     == (t.red \ {c}) \cup {e}
           b2    == [b EXCEPT ![e] = b[c], ![c] = b[e]]
<1>1. /\ t.red \subseteq Node /\ NULL \notin t.red /\ c # NULL /\ e \in Node /\ e # NULL
      /\ R \in SUBSET Node
  BY GoodBelow, TypedFacts, SideFacts DEF Good
<1>2. /\ c \in In(t) /\ c \in Node /\ c # e /\ o \in Side /\ o # d
      /\ {inner, outer, other} \subseteq Pointer
      /\ inner \notin {e, c} /\ outer \notin {e, c} /\ other \notin {e, c}
  BY <1>1, Around
<1>3. /\ Level(t, b, g, s) /\ Calm(t, x)
  BY DEF Coloured
<1>4. /\ Even(t, b, e, d, g, s) /\ Even(t, b, e, o, g, s)
      /\ Even(t, b, c, o, g, s) /\ Even(t, b, c, d, g, s)
  BY <1>2, <1>3 DEF Level
<1>5. b \in [Pointer -> Nat] /\ b[NULL] = 0 /\ e \in Pointer /\ c \in Pointer
  BY <1>1, <1>2, <1>3 DEF Level, Pointer
<1>6. /\ b2 \in [Pointer -> Nat] /\ b2[e] = b[c] /\ b2[c] = b[e]
      /\ \A n \in Pointer : n \notin {e, c} => b2[n] = b[n]
  BY <1>2, <1>5
<1>7. SetBlackRed(t, c, e) = [t EXCEPT !.red = R]
  BY DEF SetBlackRed
<1>8. /\ b[e] = b[c] + 1
      /\ b[c] = b[outer] /\ b[c] = b[inner]
      /\ b[e] = b[other] + 1 + (IF e = g /\ s = o THEN 1 ELSE 0)
  <2>1. b[e] \in Nat /\ b[c] \in Nat /\ b[outer] \in Nat /\ b[inner] \in Nat /\ b[other] \in Nat
    BY <1>2, <1>5
  <2> HIDE DEF b2, R, other
  <2>2. b[e] = b[c] + 1
    BY <1>4, <2>1 DEF Even, Weight
  <2>3. b[c] = b[outer] /\ b[c] = b[inner]
    BY <1>4, <2>1 DEF Even, Weight
  <2>4. b[e] = b[other] + 1 + (IF e = g /\ s = o THEN 1 ELSE 0)
    BY <1>4, <2>1 DEF Even, Weight, other
  <2>5. QED
    BY <2>2, <2>3, <2>4
<1>9. Fits(t, e, d, R, b, b2, g, s)
  <2>1. /\ e \in R /\ c \notin R
        /\ \A n \in Pointer : n \notin {e, c} => (n \in R <=> n \in t.red)
    BY <1>2
  <2> HIDE DEF c, o, inner, outer, other, R, b2
  <2>2. /\ outer \in Pointer /\ outer \notin {e, c} /\ inner \notin {e, c} /\ other \notin {e, c}
        /\ NULL \in Pointer /\ NULL \notin {e, c} /\ inner \in Pointer /\ other \in Pointer
    BY <1>1, <1>2 DEF Pointer
  <2>3. /\ b2[outer] = b[outer] /\ b2[NULL] = 0
        /\ (outer \in R <=> outer \in t.red)
    BY <1>5, <1>6, <2>1, <2>2
  <2>4. Dark(R, e) = 0 /\ Dark(R, c) = 1 /\ Dark(R, outer) = Weight(t, outer)
    BY <2>1, <2>3 DEF Dark, Weight
  <2>5. b[e] \in Nat /\ b[c] \in Nat /\ b[outer] \in Nat /\ b[inner] \in Nat /\ b[other] \in Nat
    BY <1>5, <2>2
  <2>6. /\ b2[c] = b[e]
        /\ b2[c] = b2[e] + Dark(R, c)
        /\ b2[c] = b2[outer] + Dark(R, c)
        /\ b2[e] = b[inner] + Dark(R, e)
    <3>1. /\ b2[c] = b[e] /\ b2[e] = b[c] /\ b2[outer] = b[outer]
          /\ b[e] = b[c] + 1 /\ b[c] = b[outer] /\ b[c] = b[inner]
      BY <1>6, <1>8, <2>3
    <3>2. QED
      BY <2>4, <2>5, <3>1
  <2>7. b2[e] = b[other] + Dark(R, e) + (IF e = g /\ s = o THEN 1 ELSE 0)
    <3> DEFINE gap == IF e = g /\ s = o THEN 1 ELSE 0
    <3>1. gap \in Nat /\ b[e] = b[other] + 1 + gap
      BY <1>8
    <3> HIDE DEF gap
    <3>2. b2[e] = b[other] + Dark(R, e) + gap
      BY <1>6, <1>8, <2>4, <2>5, <3>1
    <3>3. QED
      BY <3>2 DEF gap
  <2>8. /\ b2 \in [Pointer -> Nat] /\ b2[NULL] = 0 /\ R \subseteq Node
        /\ \A n \in Pointer : n \notin {e, c, outer} => b2[n] = b[n] /\ (n \in R <=> n \in t.red)
        /\ b2[outer] + Weight(t, outer) = b[outer] + Dark(R, outer)
        /\ g # c /\ (g = e => s = o)
    BY <1>1, <1>6, <2>1, <2>3, <2>4 DEF c, o
  <2>9. QED
    BY <2>6, <2>7, <2>8 DEF Fits, c, o, inner, outer, other
<1>10. Quiet(t, e, d, R, x, x)
  <2>1. /\ e \in R /\ c \notin R /\ inner # e /\ inner # c /\ other # e /\ outer # e
        /\ \A n \in Pointer : n \notin {e, c} => (n \in R <=> n \in t.red)
    BY <1>2
  <2>2. inner \in t.red => inner = x
    BY <1>2, <1>3 DEF Calm
  <2>3. QED
    BY <1>1, <1>2, <2>1, <2>2 DEF Quiet
<1> HIDE DEF R, b2
<1>11. t.kid[d][e] # NULL
  BY <1>1
<1>12. Level(RbRotate([t EXCEPT !.red = R], e, d), b2, g, s)
  BY <1>3, <1>9, <1>11, RotatedLevel
<1>13. Calm(RbRotate([t EXCEPT !.red = R], e, d), x)
  BY <1>3, <1>10, <1>11, RotatedCalm
<1>14. Coloured(RbRotate(SetBlackRed(t, c, e), e, d), b2, g, s, x)
  BY <1>7, <1>12, <1>13 DEF Coloured
<1>15. QED
  BY <1>14
-----------------------------------------------------------------------------
(* What RB_INSERT_COLOR has before each turn: only e, red, may hang from a  *)
(* red node.                                                                *)
Ripe(t, b, e) == /\ Good(t) /\ Coloured(t, b, NULL, LEFT, e)
                 /\ e \in In(t) /\ e \in t.red
                 /\ \A f \in Side : t.kid[f][e] \notin t.red

(* e is the kid on side f of red p, and p that on side d of g, whose other  *)
(* kid is black.                                                            *)
Kin(t, e, p, g, d, f) ==
    /\ p = t.parent[e] /\ p \in t.red /\ g = t.parent[p] /\ d = SideOf(t, p, g)
    /\ f \in Side /\ t.kid[f][p] = e /\ t.kid[Opp(d)][g] \notin t.red

LEMMA Grandparent ==
  ASSUME NEW t, NEW b, NEW e, Ripe(t, b, e), NEW p, p = t.parent[e], p \in t.red
  PROVE  LET g == t.parent[p]
         IN  /\ p \in In(t) /\ p \in Node /\ p # e /\ SideOf(t, e, p) \in Side
             /\ t.kid[SideOf(t, e, p)][p] = e
             /\ g \in In(t) /\ g \in Node /\ g # e /\ g # p /\ SideOf(t, p, g) \in Side
             /\ t.kid[SideOf(t, p, g)][g] = p
             /\ g \notin t.red /\ p # t.root
             /\ \A f \in Side : t.kid[f][p] \in t.red => t.kid[f][p] = e
<1> DEFINE g == t.parent[p]
<1>1. /\ Good(t) /\ e \in In(t) /\ e \in t.red /\ Calm(t, e) /\ p \in t.red
      /\ NULL \notin t.red /\ e # NULL
  BY TypedFacts, SideFacts DEF Ripe, Coloured, Good
<1>2. /\ p \in In(t) /\ p \in Node /\ SideOf(t, e, p) \in Side
      /\ t.kid[SideOf(t, e, p)][p] = e
  BY <1>1, ParentOf
<1>3. p # e
  BY <1>1, <1>2, OnePlace
<1>4. p # t.root
  BY <1>1, <1>3 DEF Calm
<1>5. /\ g \in In(t) /\ g \in Node /\ SideOf(t, p, g) \in Side
      /\ t.kid[SideOf(t, p, g)][g] = p
  BY <1>1, <1>2, <1>4, ParentOf
<1>6. g \notin t.red
  BY <1>1, <1>3, <1>5 DEF Calm
<1>7. \A f \in Side : t.kid[f][p] \in t.red => t.kid[f][p] = e
  BY <1>1, <1>2 DEF Calm
<1>8. QED
  BY <1>1, <1>2, <1>3, <1>4, <1>5, <1>6, <1>7

LEMMA KinFacts ==
  ASSUME NEW t, NEW b, NEW e, Ripe(t, b, e), NEW p, NEW g, NEW d, NEW f, Kin(t, e, p, g, d, f)
  PROVE  /\ p \in In(t) /\ p \in Node /\ p # e /\ p \in t.red /\ g \in In(t) /\ g \in Node
         /\ g # e /\ g # p /\ d \in Side /\ t.kid[d][g] = p /\ g \notin t.red /\ p # t.root
         /\ f \in Side /\ t.kid[f][p] = e /\ t.kid[Opp(d)][g] \notin t.red
         /\ t.parent[p] = g /\ SideOf(t, p, g) = d
         /\ \A h \in Side : t.kid[h][p] \in t.red => t.kid[h][p] = e
<1>1. p = t.parent[e] /\ p \in t.red /\ g = t.parent[p] /\ d = SideOf(t, p, g)
  BY DEF Kin
<1>2. LET h == t.parent[p]
      IN  /\ p \in In(t) /\ p \in Node /\ p # e /\ SideOf(t, e, p) \in Side
          /\ t.kid[SideOf(t, e, p)][p] = e
          /\ h \in In(t) /\ h \in Node /\ h # e /\ h # p /\ SideOf(t, p, h) \in Side
          /\ t.kid[SideOf(t, p, h)][h] = p
          /\ h \notin t.red /\ p # t.root
          /\ \A s \in Side : t.kid[s][p] \in t.red => t.kid[s][p] = e
  <2>1. p = t.parent[e] /\ p \in t.red /\ Ripe(t, b, e)
    BY <1>1
  <2>2. QED
    BY ONLY <2>1, Grandparent
<1>3. f \in Side /\ t.kid[f][p] = e /\ t.kid[Opp(d)][g] \notin t.red
  BY DEF Kin
<1>4. QED
  BY ONLY <1>1, <1>2, <1>3

LEMMA RaisedOuter ==
  ASSUME NEW t, NEW b, NEW e, Ripe(t, b, e), NEW p, NEW g, NEW d, Kin(t, e, p, g, d, d)
  PROVE  LET t2 == RbRotate(SetBlackRed(t, p, g), g, d)
         IN  (\E b2 : Ripe(t2, b2, e)) /\ In(t2) = In(t)
<1> DEFINE t2 == RbRotate(SetBlackRed(t, p, g), g, d)
           R  == (t.red \ {p}) \cup {g}
<1>1. /\ Good(t) /\ e \in In(t) /\ e \in t.red /\ Coloured(t, b, NULL, LEFT, e)
      /\ \A f \in Side : t.kid[f][e] \notin t.red
      /\ e # NULL /\ t.red \subseteq Node
  BY TypedFacts, SideFacts DEF Ripe, Good
<1>2. /\ p \in In(t) /\ p \in Node /\ p # e /\ g \in In(t) /\ g \in Node /\ g # e /\ g # p
      /\ d \in Side /\ t.kid[d][g] = p /\ g \notin t.red /\ p \in t.red /\ t.kid[d][p] = e
      /\ t.kid[Opp(d)][g] \notin t.red
  BY KinFacts
<1>3. /\ t.kid[d][g] \in t.red /\ g # NULL /\ p # NULL
  BY <1>1, <1>2, SideFacts
<1>4. \E b2 : Coloured(RbRotate(SetBlackRed(t, t.kid[d][g], g), g, d), b2, NULL, LEFT, e)
  <2>1. /\ g \in In(t) /\ d \in Side /\ t.kid[d][g] \in t.red /\ g \notin t.red
        /\ t.kid[Opp(d)][g] \notin t.red
        /\ NULL # t.kid[d][g] /\ (NULL = g => LEFT = Opp(d))
    BY <1>2, <1>3
  <2>2. QED
    BY <1>1, <2>1, RedRaised
<1>5. SetBlackRed(t, p, g) = [t EXCEPT !.red = R] /\ R \in SUBSET Node
  BY <1>1, <1>2 DEF SetBlackRed
<1>6. g \in In(t) /\ t.kid[d][g] # NULL
  BY <1>2, <1>3
<1>7. e \notin {g, p, t.parent[g]} /\ \A f \in Side : t.kid[f][e] # g
  <2>1. /\ t.kid[d][t.kid[d][g]] # NULL => t.kid[d][t.kid[d][g]] # t.parent[g]
        /\ \A f \in Side : t.kid[d][t.kid[d][g]] # NULL => t.kid[f][t.kid[d][t.kid[d][g]]] # g
    BY <1>1, <1>2, <1>6, Around
  <2>2. QED
    BY <1>1, <1>2, <2>1
<1> HIDE DEF t2, R
<1>8. /\ Good(t) /\ g \in In(t) /\ d \in Side /\ t.kid[d][g] # NULL /\ R \in SUBSET Node
       /\ t2 = RbRotate([t EXCEPT !.red = R], g, d)
  BY <1>1, <1>2, <1>5, <1>6 DEF t2
<1>9. t.kid[d][g] = p
  BY <1>2
<1>10. Turned(t, t2, g, d, R)
  BY <1>8, RepaintedRotated
<1>11. /\ Good(t2) /\ In(t2) = In(t) /\ t2.red = R
      /\ \A m \in In(t) \ {g, p}, f \in Side :
            ~(m = t.parent[g] /\ f = SideOf(t, g, t.parent[g])) => t2.kid[f][m] = t.kid[f][m]
  BY <1>9, <1>10 DEF Turned
<1>12. \A f \in Side : t2.kid[f][e] \notin t2.red
  BY <1>1, <1>7, <1>11 DEF R
<1>13. e \in t2.red
  BY <1>1, <1>2, <1>11 DEF R
<1>14. PICK b2 : Coloured(t2, b2, NULL, LEFT, e)
  BY <1>2, <1>4 DEF t2
<1>15. Ripe(t2, b2, e)
  BY <1>1, <1>11, <1>12, <1>13, <1>14 DEF Ripe
<1>16. QED
  BY <1>11, <1>15 DEF t2

LEMMA RaisedInner ==
  ASSUME NEW t, NEW b, NEW e, Ripe(t, b, e), NEW p, NEW g, NEW d, Kin(t, e, p, g, d, Opp(d))
  PROVE  LET t2 == RbRotate(t, p, Opp(d))
         IN  Ripe(t2, b, p) /\ In(t2) = In(t) /\ Kin(t2, p, e, g, d, d)
<1> DEFINE t2 == RbRotate(t, p, Opp(d))
           o  == Opp(d)
           inner == t.kid[d][e]
           outer == t.kid[o][e]
           other == t.kid[d][p]
<1>1. /\ Good(t) /\ e \in In(t) /\ e \in t.red /\ Level(t, b, NULL, LEFT) /\ Calm(t, e)
      /\ \A f \in Side : t.kid[f][e] \notin t.red
      /\ e # NULL /\ t.red \in SUBSET Node /\ NULL \notin t.red
  BY TypedFacts, SideFacts DEF Ripe, Good, Coloured
<1>2. /\ p \in In(t) /\ p \in Node /\ p # e /\ g \in In(t) /\ g \in Node /\ g # e /\ g # p
      /\ d \in Side /\ t.kid[d][g] = p /\ g \notin t.red /\ p # t.root
      /\ p \in t.red /\ t.kid[Opp(d)][g] \notin t.red /\ t.kid[Opp(d)][p] = e
      /\ t.parent[p] = g /\ SideOf(t, p, g) = d
      /\ \A f \in Side : t.kid[f][p] \in t.red => t.kid[f][p] = e
  BY KinFacts
<1>3. o \in Side /\ o # d /\ Opp(o) = d /\ t.kid[o][p] = e /\ p # NULL /\ g # NULL
  BY <1>2, SideFacts
<1>4. [t EXCEPT !.red = t.red] = t
  BY <1>1 DEF Good, Typed
<1>5. /\ inner \in Pointer /\ outer \in Pointer /\ other \in Pointer
      /\ inner \notin {e, p} /\ outer \notin {e, p} /\ other \notin {e, p}
  <2>1. /\ {t.kid[Opp(o)][t.kid[o][p]], t.kid[o][t.kid[o][p]], t.kid[Opp(o)][p]} \subseteq Pointer
        /\ t.kid[Opp(o)][t.kid[o][p]] \notin {p, t.kid[o][p]}
        /\ t.kid[o][t.kid[o][p]] \notin {p, t.kid[o][p]}
        /\ t.kid[Opp(o)][p] \notin {p, t.kid[o][p]}
    BY <1>1, <1>2, <1>3, Around
  <2>2. QED
    BY <1>3, <2>1
<1>6. /\ Good(t) /\ p \in In(t) /\ o \in Side /\ t.kid[o][p] # NULL
      /\ t.red \in SUBSET Node
  BY <1>1, <1>2, <1>3
<1>7. /\ Even(t, b, p, o, NULL, LEFT) /\ Even(t, b, p, d, NULL, LEFT)
      /\ Even(t, b, e, o, NULL, LEFT) /\ Even(t, b, e, d, NULL, LEFT)
      /\ b \in [Pointer -> Nat] /\ b[NULL] = 0 /\ p \in Pointer /\ e \in Pointer /\ NULL \in Pointer
  BY <1>1, <1>2, <1>3, GoodBelow DEF Level, Pointer
<1> HIDE DEF t2, o, inner, outer, other
<1>8. /\ b[p] = b[e] /\ b[p] = b[other] /\ b[e] = b[outer] /\ b[e] = b[inner]
  <2>1. b[p] \in Nat /\ b[e] \in Nat /\ b[outer] \in Nat /\ b[inner] \in Nat /\ b[other] \in Nat
    BY <1>5, <1>7
  <2>2. p # NULL /\ e # NULL /\ p \in t.red /\ e \in t.red
    BY <1>1, <1>2, <1>3
  <2>3. b[p] = b[e] /\ b[e] = b[outer]
    <3>1. e = t.kid[o][p] /\ outer = t.kid[o][e]
      BY <1>3 DEF outer
    <3>2. QED
      BY <1>7, <2>1, <2>2, <3>1, EvenFacts
  <2>4. b[p] = b[other] /\ b[e] = b[inner]
    <3>1. other = t.kid[d][p] /\ inner = t.kid[d][e]
      BY DEF other, inner
    <3>2. QED
      BY <1>7, <2>1, <2>2, <3>1, EvenFacts
  <2>5. QED
    BY <2>3, <2>4
<1>9. Fits(t, p, o, t.red, b, b, NULL, LEFT)
  <2>1. b[p] \in Nat /\ b[e] \in Nat /\ b[outer] \in Nat /\ b[inner] \in Nat /\ b[other] \in Nat
    BY <1>5, <1>7
  <2>2. Dark(t.red, p) = 0 /\ Dark(t.red, e) = 0 /\ Dark(t.red, outer) = Weight(t, outer)
    BY <1>1, <1>2 DEF Dark, Weight
  <2>3. /\ b[e] = b[p] + 0 /\ b[e] = b[outer] + 0 /\ b[p] = b[inner] + 0
        /\ b[p] = b[other] + 0 + 0
    BY <1>8, <2>1, Zero
  <2>4. /\ t.kid[o][p] = e /\ Opp(o) = d /\ t.kid[d][e] = inner /\ t.kid[o][e] = outer
        /\ t.kid[d][p] = other /\ p # NULL /\ e # NULL
    BY <1>1, <1>3 DEF inner, outer, other
  <2>5. QED
    BY <1>1, <1>7, <1>8, <2>2, <2>3, <2>4 DEF Fits
<1>10. Quiet(t, p, o, t.red, e, p)
  <2>1. /\ t.kid[o][p] = e /\ Opp(o) = d /\ t.kid[d][e] = inner /\ t.kid[o][e] = outer
        /\ t.kid[d][p] = other
    BY <1>3 DEF inner, outer, other
  <2>2. inner \notin t.red /\ outer \notin t.red /\ other \notin t.red
    BY <1>1, <1>2, <1>3, <1>5, <2>1
  <2>3. QED
    BY <1>1, <1>2, <2>1, <2>2 DEF Quiet
<1>11. Level(t2, b, NULL, LEFT)
  <2>1. Level(RbRotate([t EXCEPT !.red = t.red], p, o), b, NULL, LEFT)
    BY <1>1, <1>6, <1>9, RotatedLevel
  <2>2. QED
    BY <1>4, <2>1 DEF t2, o
<1>12. Calm(t2, p)
  <2>1. Calm(RbRotate([t EXCEPT !.red = t.red], p, o), p)
    BY <1>1, <1>6, <1>10, RotatedCalm
  <2>2. QED
    BY <1>4, <2>1 DEF t2, o
<1>13. /\ Good(t2) /\ In(t2) = In(t) /\ t2.red = t.red
       /\ t2.parent[p] = e /\ t2.parent[e] = g
       /\ t2.kid[d][e] = p /\ t2.kid[o][p] = inner /\ t2.kid[d][p] = other
       /\ t2.kid[d][g] = e
       /\ t2.kid[o][g] = t.kid[o][g]
  <2> DEFINE R == t.red
  <2>1. t2 = RbRotate([t EXCEPT !.red = R], p, o) /\ R \in SUBSET Node
    BY <1>4, <1>6 DEF t2, o
  <2> HIDE DEF R
  <2>2. Turned(t, t2, p, o, R)
    BY <1>6, <2>1, RepaintedRotated
  <2>3. QED
    BY <1>2, <1>3, <2>2 DEF Turned, inner, other, R
<1>14. SideOf(t2, e, g) = d
  <2>1. t2.kid[d][g] # NULL /\ g \in In(t2)
    BY <1>1, <1>2, <1>13
  <2>2. SideOf(t2, t2.kid[d][g], g) = d
    <3>1. Good(t2) /\ g \in In(t2) /\ d \in Side /\ t2.kid[d][g] # NULL
      BY <1>2, <1>13, <2>1
    <3>2. QED
      BY <3>1, OnePlace
  <2>3. QED
    BY <1>13, <2>2
<1>15. \A f \in Side : t2.kid[f][p] \notin t2.red
  <2>1. inner \notin t.red /\ other \notin t.red
    BY <1>1, <1>2, <1>5 DEF inner, other
  <2>2. \A f \in Side : f = d \/ f = o
    BY <1>2, SideFacts DEF o
  <2>3. QED
    BY <1>13, <2>1, <2>2
<1>16. Ripe(t2, b, p)
  BY <1>1, <1>2, <1>11, <1>12, <1>13, <1>15 DEF Ripe, Coloured
<1>17. Kin(t2, p, e, g, d, d)
  BY <1>1, <1>2, <1>13, <1>14 DEF Kin, o
<1>18. QED
  BY <1>13, <1>16, <1>17 DEF t2

(* ... or also red: u.                                                      *)
KinRed(t, e, p, g, d, u) ==
    /\ p = t.parent[e] /\ p \in t.red /\ g = t.parent[p] /\ d = SideOf(t, p, g)
    /\ u = t.kid[Opp(d)][g] /\ u \in t.red

LEMMA Recoloured ==
  ASSUME NEW t, NEW b, NEW e, Ripe(t, b, e), NEW p, NEW g, NEW d, NEW u, KinRed(t, e, p, g, d, u)
  PROVE  LET t2 == Recolour(t, p, g, u)
         IN  (\E b2 : Ripe(t2, b2, g)) /\ In(t2) = In(t)
<1> DEFINE o  == Opp(d)
           R  == ((t.red \ {u}) \ {p}) \cup {g}
           t2 == Recolour(t, p, g, u)
           b2 == [b EXCEPT ![p] = b[p] + 1, ![u] = b[u] + 1]
<1>1. /\ Good(t) /\ e \in In(t) /\ e \in t.red /\ Level(t, b, NULL, LEFT) /\ Calm(t, e)
      /\ NULL \notin t.red /\ t.red \subseteq Node /\ p # NULL /\ u # NULL
      /\ p \in t.red /\ u \in t.red /\ t.parent[e] = p /\ t.parent[p] = g /\ SideOf(t, p, g) = d
  BY TypedFacts, SideFacts DEF Ripe, Good, Coloured, KinRed
<1>2. /\ p \in In(t) /\ p \in Node /\ p # e /\ g \in In(t) /\ g \in Node
      /\ g # p /\ d \in Side /\ t.kid[d][g] = p /\ g \notin t.red /\ p # t.root
  <2>1. p = t.parent[e] /\ p \in t.red /\ g = t.parent[p] /\ d = SideOf(t, p, g)
    BY DEF KinRed
  <2>2. QED
    BY <2>1, Grandparent
<1>3. o \in Side /\ o # d /\ g # NULL /\ \A f \in Side : f = d \/ f = o
  BY <1>2, SideFacts
<1>4. t.kid[o][g] = u
  BY DEF KinRed
<1> HIDE DEF t2, o
<1>5. u \in In(t) /\ u \in Node /\ u # g /\ t.parent[u] = g /\ SideOf(t, u, g) = o /\ u # t.root
  <2>1. Good(t) /\ g \in In(t) /\ o \in Side /\ t.kid[o][g] # NULL
    BY <1>1, <1>2, <1>3, <1>4
  <2>2. /\ t.kid[o][g] \in In(t) /\ t.kid[o][g] \in Node /\ t.kid[o][g] # g
        /\ t.parent[t.kid[o][g]] = g /\ SideOf(t, t.kid[o][g], g) = o /\ t.kid[o][g] # t.root
    BY <2>1, OnePlace
  <2>3. QED
    BY <1>4, <2>2
<1>6. u # p
  BY <1>1, <1>2, <1>3, <1>5
<1>7. R \in SUBSET Node /\ t2 = [t EXCEPT !.red = R]
  BY <1>1, <1>2 DEF t2, Recolour, SetBlackRed, Good, Typed
<1> HIDE DEF R
<1>8. /\ Good(t2) /\ In(t2) = In(t) /\ t2.red = R
      /\ t2.kid = t.kid /\ t2.root = t.root
  BY <1>1, <1>7, Repainted
<1>9. /\ b \in [Pointer -> Nat] /\ b[NULL] = 0 /\ NULL \in Pointer
      /\ p \in Pointer /\ u \in Pointer /\ g \in Pointer
      /\ \A n \in In(t), f \in Side : Even(t, b, n, f, NULL, LEFT)
  BY <1>1, <1>2, <1>5 DEF Level, Pointer
<1>10. /\ b2 \in [Pointer -> Nat] /\ b2[NULL] = 0 /\ b2[p] = b[p] + 1 /\ b2[u] = b[u] + 1
       /\ \A n \in Pointer : n \notin {p, u} => b2[n] = b[n]
  <2>1. b[p] + 1 \in Nat /\ b[u] + 1 \in Nat
    BY <1>9
  <2>2. p # NULL /\ u # NULL /\ u # p
    BY <1>1, <1>6
  <2>3. QED
    BY <1>9, <2>1, <2>2
<1> HIDE DEF b2
<1>11. ASSUME NEW n \in In(t), NEW f \in Side
       PROVE  Even(t2, b2, n, f, NULL, LEFT)
  <2> DEFINE v == t.kid[f][n]
  <2>1. Even(t, b, n, f, NULL, LEFT) /\ n \in Pointer /\ v \in Pointer /\ n # NULL
    BY <1>1, <1>9, GoodBelow, SideFacts DEF Pointer
  <2>2. b[v] \in Nat /\ b[n] \in Nat
    BY <1>9, <2>1
  <2>3. CASE n = g
    <3>1. v \in {p, u} /\ n \notin {p, u} /\ n \notin t.red /\ n \in t2.red
      BY <1>2, <1>3, <1>4, <1>5, <1>8, <2>3 DEF R
    <3>2. b[n] = b[v] + 1
      BY <2>1, <2>2, <3>1, EvenFacts
    <3>3. b2[n] = b[n] /\ b2[v] = b[v] + 1
      BY <1>10, <2>1, <3>1
    <3>4. Dark(t2.red, n) = 0 /\ b2[v] \in Nat
      BY <1>10, <2>1, <3>1 DEF Dark
    <3>5. t2.kid[f][n] = v /\ ~(n = NULL /\ f = LEFT)
      BY <1>8, <2>1
    <3>6. b2[n] = b2[v] + Dark(t2.red, n)
      BY <3>2, <3>3, <3>4, Zero
    <3>7. QED
      BY <3>4, <3>5, <3>6, EvenHere
  <2>4. CASE n # g
    <3>1. v \notin {p, u}
      <4>1. v # NULL => t.parent[v] = n
        BY <1>1, OnePlace
      <4>2. QED
        BY <1>1, <1>5, <2>4, <4>1
    <3>2. b2[v] = b[v] /\ t2.kid[f][n] = v /\ ~(n = NULL /\ f = LEFT)
      BY <1>8, <1>10, <2>1, <3>1
    <3>3. CASE n \in {p, u}
      <4>1. n \in t.red /\ n \notin t2.red
        BY <1>1, <1>2, <1>5, <1>8, <3>3 DEF R
      <4>2. b[n] = b[v]
        BY <2>1, <2>2, <4>1, EvenFacts
      <4>3. b2[n] = b[n] + 1 /\ Dark(t2.red, n) = 1
        BY <1>10, <3>3, <4>1 DEF Dark
      <4>4. b2[n] = b2[v] + Dark(t2.red, n) /\ b2[v] \in Nat
        BY <2>2, <3>2, <4>2, <4>3
      <4>5. QED
        BY <3>2, <4>4, EvenHere
    <3>4. CASE n \notin {p, u}
      <4>1. b2[n] = b[n] /\ (n \in t2.red <=> n \in t.red)
        BY <1>8, <1>10, <2>1, <2>4, <3>4 DEF R
      <4>2. b2[t2.kid[f][n]] = b[t.kid[f][n]]
        BY <3>2
      <4>3. QED
        BY <2>1, <4>1, <4>2, SameEven
    <3>5. QED
      BY <3>3, <3>4
  <2>5. QED
    BY <2>3, <2>4
<1>12. ASSUME NEW n \in In(t), NEW f \in Side, n \in t2.red, t.kid[f][n] \in t2.red
       PROVE  t.kid[f][n] = g
  <2> DEFINE v == t.kid[f][n]
  <2>1. CASE n = g
    BY <1>2, <1>3, <1>4, <1>5, <1>8, <1>12, <2>1 DEF R
  <2>2. CASE n # g /\ v # g
    <3>1. n \in t.red /\ v \in t.red /\ v # NULL
      BY <1>1, <1>8, <1>12, <2>2 DEF R
    <3>2. v = e
      BY <1>1, <3>1 DEF Calm
    <3>3. t.parent[v] = n
      BY <1>1, <3>1, OnePlace
    <3>4. n = p
      BY <1>1, <3>2, <3>3
    <3>5. QED
      BY <1>2, <1>8, <1>12, <3>4 DEF R
  <2>3. QED
    BY <2>1, <2>2
<1>13. t2.root \in t2.red => t2.root = g
  <2>1. t.root # e
    BY <1>1, ParentOf
  <2>2. QED
    BY <1>1, <1>2, <1>8, <2>1 DEF Calm, R
<1>14. \A f \in Side : t2.kid[f][g] \notin t2.red
  BY <1>2, <1>3, <1>4, <1>5, <1>8 DEF R
<1>15. Level(t2, b2, NULL, LEFT) /\ Calm(t2, g)
  <2>1. Level(t2, b2, NULL, LEFT)
    BY <1>8, <1>10, <1>11 DEF Level
  <2>2. Calm(t2, g)
    BY <1>8, <1>12, <1>13 DEF Calm
  <2>3. QED
    BY <2>1, <2>2
<1>16. Ripe(t2, b2, g)
  BY <1>2, <1>8, <1>14, <1>15 DEF Ripe, Coloured, R
<1>17. QED
  BY <1>8, <1>16 DEF t2

(* A red node may be made black where one is missing, or on top.            *)
LEMMA Blackened ==
  ASSUME NEW t, Good(t), NEW b, NEW g, NEW s \in Side, NEW x, Level(t, b, g, s), Loose(t, x), x \in In(t),
         x \in t.red,
         IF g = NULL THEN x = t.root ELSE g \in In(t) /\ t.kid[s][g] = x
  PROVE  \E b2 : Coloured([t EXCEPT !.red = @ \ {x}], b2, NULL, LEFT, NULL)
<1> DEFINE R  == t.red \ {x}
           t2 == [t EXCEPT !.red = @ \ {x}]
           b2 == [b EXCEPT ![x] = b[x] + 1]
<1>1. /\ Level(t, b, g, s) /\ Loose(t, x) /\ NULL \notin t.red /\ x \in Node /\ x # NULL
      /\ R \in SUBSET Node
  BY TypedFacts, GoodBelow, SideFacts DEF Good, Coloured
<1>2. t2 = [t EXCEPT !.red = R]
  BY DEF Good, Typed
<1> HIDE DEF t2
<1>3. /\ In(t2) = In(t) /\ t2.red = R /\ t2.kid = t.kid /\ t2.root = t.root
  BY <1>1, <1>2, Repainted
<1>4. /\ b \in [Pointer -> Nat] /\ b[NULL] = 0 /\ NULL \in Pointer /\ x \in Pointer
      /\ \A n \in In(t), f \in Side : Even(t, b, n, f, g, s)
  BY <1>1 DEF Level, Pointer
<1>5. /\ b2 \in [Pointer -> Nat] /\ b2[NULL] = 0 /\ b2[x] = b[x] + 1
      /\ \A n \in Pointer : n # x => b2[n] = b[n]
  BY <1>1, <1>4
<1> HIDE DEF b2
<1>6. ASSUME NEW n \in In(t), NEW f \in Side, t.kid[f][n] = x
      PROVE  n = g /\ f = s /\ n # x /\ n # NULL
  <2>1. /\ t.parent[x] = n /\ SideOf(t, x, n) = f /\ n # x /\ x # t.root
    BY <1>1, <1>6, OnePlace
  <2>2. g # NULL /\ g \in In(t) /\ t.kid[s][g] = x
    BY <2>1
  <2>3. t.parent[x] = g /\ SideOf(t, x, g) = s
    BY <1>1, <2>2, OnePlace
  <2>4. QED
    BY <2>1, <2>2, <2>3
<1>7. ~(x = g)
  <2>1. g = NULL \/ (g \in In(t) /\ t.kid[s][g] = x)
    OBVIOUS
  <2>2. QED
    BY <1>1, <1>6, <2>1
<1>8. ASSUME NEW n \in In(t), NEW f \in Side
      PROVE  Even(t2, b2, n, f, NULL, LEFT)
  <2> DEFINE v == t.kid[f][n]
  <2>1. Even(t, b, n, f, g, s) /\ n \in Pointer /\ v \in Pointer /\ n # NULL
    BY <1>4, GoodBelow, SideFacts DEF Pointer
  <2>2. b[v] \in Nat /\ b[n] \in Nat /\ t2.kid[f][n] = v /\ ~(n = NULL /\ f = LEFT)
    BY <1>3, <1>4, <2>1
  <2>3. CASE v = x
    <3>1. n = g /\ f = s /\ n # x
      BY <1>6, <2>3
    <3>2. b[n] = b[v] + Dark(t.red, n) + 1
      BY <2>1, <2>2, <3>1, EvenFacts
    <3>3. b2[n] = b[n] /\ b2[v] = b[v] + 1 /\ Dark(t2.red, n) = Dark(t.red, n)
      BY <1>3, <1>5, <2>1, <2>3, <3>1 DEF Dark
    <3>4. Dark(t.red, n) \in Nat /\ b2[v] \in Nat
      BY <1>5, <2>1 DEF Dark
    <3>5. b2[n] = b2[v] + Dark(t2.red, n)
      BY <2>2, <3>2, <3>3, <3>4
    <3>6. QED
      BY <2>2, <3>4, <3>5, EvenHere
  <2>4. CASE v # x /\ n = x
    <3>1. b[n] = b[v]
      BY <1>7, <2>1, <2>2, <2>4, EvenFacts
    <3>2. b2[n] = b[n] + 1 /\ b2[v] = b[v] /\ Dark(t2.red, n) = 1
      BY <1>3, <1>5, <2>1, <2>4 DEF Dark
    <3>3. b2[n] = b2[v] + Dark(t2.red, n) /\ b2[v] \in Nat
      BY <2>2, <3>1, <3>2
    <3>4. QED
      BY <2>2, <3>3, EvenHere
  <2>5. CASE v # x /\ n # x
    <3>1. b2[n] = b[n] /\ b2[t2.kid[f][n]] = b[t.kid[f][n]] /\ (n \in t2.red <=> n \in t.red)
      BY <1>3, <1>5, <2>1, <2>2, <2>5
    <3>2. ~(n = g /\ f = s)
      BY <2>1, <2>5
    <3>3. QED
      BY <2>1, <2>2, <3>1, <3>2, SameEven
  <2>6. QED
    BY <2>3, <2>4, <2>5
<1>9. Calm(t2, NULL)
  BY <1>1, <1>3 DEF Calm, Loose
<1>10. Coloured(t2, b2, NULL, LEFT, NULL)
  BY <1>3, <1>5, <1>8, <1>9 DEF Level, Coloured
<1>11. QED
  BY <1>10 DEF t2

(* A turn of RB_INSERT_COLOR.                                               *)
LEMMA InsertTurn ==
  ASSUME NEW t, NEW b, NEW e, Ripe(t, b, e), t.parent[e] \in t.red
  PROVE  LET p == t.parent[e]
             g == t.parent[p]
             d == SideOf(t, p, g)
             u == t.kid[Opp(d)][g]
             x == IF t.kid[Opp(d)][p] = e THEN p ELSE e
         IN  /\ u \in t.red => /\ \E b2 : Ripe(Recolour(t, p, g, u), b2, g)
                               /\ In(Recolour(t, p, g, u)) = In(t)
             /\ u \notin t.red => /\ \E b2 : Ripe(Raise(t, e, p, g, d), b2, x)
                                  /\ In(Raise(t, e, p, g, d)) = In(t)
<1> DEFINE p == t.parent[e]
           g == t.parent[p]
           d == SideOf(t, p, g)
           o == Opp(d)
           u == t.kid[o][g]
           x == IF t.kid[o][p] = e THEN p ELSE e
           t2 == Raise(t, e, p, g, d)
<1>1. u \in t.red => /\ \E b2 : Ripe(Recolour(t, p, g, u), b2, g)
                     /\ In(Recolour(t, p, g, u)) = In(t)
  <2>1. ASSUME u \in t.red PROVE KinRed(t, e, p, g, d, u)
    BY <2>1 DEF KinRed
  <2> HIDE DEF p, g, d, o, u, x
  <2>2. QED
    BY <2>1, Recoloured
<1>2. /\ SideOf(t, e, p) \in Side /\ t.kid[SideOf(t, e, p)][p] = e /\ d \in Side
      /\ p # e
  BY Grandparent
<1>3. SideOf(t, e, p) = d \/ SideOf(t, e, p) = o
  BY <1>2, SideFacts
<1>4. o \in Side /\ o # d /\ Good(t) /\ e \in In(t) /\ e # NULL /\ p \in In(t)
  BY <1>2, GoodBelow, Grandparent, SideFacts DEF Ripe
<1>5. ASSUME u \notin t.red, t.kid[o][p] = e
      PROVE  (\E b2 : Ripe(t2, b2, x)) /\ In(t2) = In(t)
  <2> DEFINE t1 == RbRotate(t, p, o)
  <2>1. Kin(t, e, p, g, d, o)
    BY <1>4, <1>5 DEF Kin
  <2>2. t2 = RbRotate(SetBlackRed(t1, e, g), g, d) /\ x = p
    BY <1>5 DEF Raise
  <2>3. Ripe(t1, b, p) /\ In(t1) = In(t) /\ Kin(t1, p, e, g, d, d)
    BY <2>1, RaisedInner
  <2> HIDE DEF t1, t2, p, g, d, o, u, x
  <2>4. (\E b2 : Ripe(RbRotate(SetBlackRed(t1, e, g), g, d), b2, p))
        /\ In(RbRotate(SetBlackRed(t1, e, g), g, d)) = In(t1)
    BY <2>3, RaisedOuter
  <2>5. QED
    BY <2>2, <2>3, <2>4
<1>6. ASSUME u \notin t.red, t.kid[o][p] # e
      PROVE  (\E b2 : Ripe(t2, b2, x)) /\ In(t2) = In(t)
  <2>1. Kin(t, e, p, g, d, d)
    BY <1>2, <1>3, <1>4, <1>6 DEF Kin
  <2>2. t2 = RbRotate(SetBlackRed(t, p, g), g, d) /\ x = e
    BY <1>6 DEF Raise
  <2> HIDE DEF t2, p, g, d, o, u, x
  <2>3. (\E b2 : Ripe(RbRotate(SetBlackRed(t, p, g), g, d), b2, e))
        /\ In(RbRotate(SetBlackRed(t, p, g), g, d)) = In(t)
    BY <2>1, RaisedOuter
  <2>4. QED
    BY <2>2, <2>3
<1>7. QED
  BY <1>1, <1>5, <1>6

LEMMA InsertEnds ==
  ASSUME NEW t, NEW b, NEW e, Ripe(t, b, e), t.parent[e] \notin t.red
  PROVE  LET t2 == [t EXCEPT !.red = @ \ {t.root}]
         IN  Good(t2) /\ In(t2) = In(t) /\ \E b2 : Coloured(t2, b2, NULL, LEFT, NULL)
<1> DEFINE R  == t.red \ {t.root}
           t2 == [t EXCEPT !.red = @ \ {t.root}]
<1>1. /\ Good(t) /\ e \in In(t) /\ e \in t.red /\ Coloured(t, b, NULL, LEFT, e) /\ Calm(t, e)
      /\ R \in SUBSET Node /\ NULL \notin t.red /\ LEFT \in Side
  BY TypedFacts, SideFacts DEF Ripe, Good, Coloured
<1>2. t2 = [t EXCEPT !.red = R]
  BY <1>1 DEF Good, Typed
<1>3. Good(t2) /\ In(t2) = In(t)
  BY <1>1, <1>2, Repainted
<1>4. CASE e = t.root
  <2>1. Level(t, b, NULL, LEFT) /\ Loose(t, e)
    BY <1>1, Loosened DEF Coloured
  <2>2. QED
    BY <1>1, <1>3, <1>4, <2>1, Blackened
<1>5. CASE e # t.root
  <2>1. t.root \notin t.red
    BY <1>1, <1>5 DEF Calm
  <2>2. t2 = t
    BY <1>1, <1>2, <2>1 DEF Good, Typed
  <2>3. ASSUME NEW n \in In(t), NEW f \in Side, n \in t.red, t.kid[f][n] \in t.red
        PROVE  FALSE
    <3>1. t.kid[f][n] = e /\ e # NULL
      BY <1>1, <2>3 DEF Calm
    <3>2. t.parent[e] = n
      BY <1>1, <3>1, OnePlace
    <3>3. QED
      BY <2>3, <3>2
  <2>4. Calm(t, NULL)
    BY <2>1, <2>3 DEF Calm
  <2>5. Coloured(t, b, NULL, LEFT, NULL)
    BY <1>1, <2>4 DEF Coloured
  <2>6. QED
    BY <1>1, <2>2, <2>5
<1>6. QED
  BY <1>4, <1>5
-----------------------------------------------------------------------------
(* What RB_REMOVE_COLOR has in the middle of a turn: what hangs on side d   *)
(* of p, black x, lacks a black node.                                       *)
Short(t, b, x, p, d) == /\ Good(t) /\ Coloured(t, b, p, d, x)
                        /\ p \in In(t) /\ d \in Side /\ t.kid[d][p] = x /\ x \notin t.red

(* So it has a sibling.                                                     *)
LEMMA Sibling ==
  ASSUME NEW t, NEW b, NEW x, NEW p, NEW d, Short(t, b, x, p, d)
  PROVE  LET tmp == t.kid[Opp(d)][p]
         IN  /\ p \in Node /\ p # NULL /\ p # x /\ x \in Pointer /\ SideOf(t, x, p) = d
             /\ tmp \in In(t) /\ tmp \in Node /\ tmp # NULL /\ tmp # p /\ tmp # x
             /\ t.parent[tmp] = p /\ SideOf(t, tmp, p) = Opp(d)
             /\ b[p] \in Nat /\ b[x] \in Nat /\ b[tmp] \in Nat
             /\ b[p] = b[x] + Dark(t.red, p) + 1 /\ b[p] = b[tmp] + Dark(t.red, p)
             /\ b[tmp] = b[x] + 1
<1> DEFINE o   == Opp(d)
           tmp == t.kid[o][p]
<1>1. /\ Good(t) /\ Level(t, b, p, d) /\ p \in In(t) /\ p \in Node /\ d \in Side /\ t.kid[d][p] = x
      /\ p # NULL /\ o \in Side /\ o # d /\ tmp \in Pointer /\ x \in Pointer
  BY GoodBelow, SideFacts DEF Short, Coloured
<1>2. /\ Even(t, b, p, d, p, d) /\ Even(t, b, p, o, p, d) /\ b \in [Pointer -> Nat] /\ b[NULL] = 0
      /\ p \in Pointer
  BY <1>1 DEF Level, Pointer
<1>3. b[p] \in Nat /\ b[x] \in Nat /\ b[tmp] \in Nat
  BY <1>1, <1>2
<1>4. x = t.kid[d][p] /\ tmp = t.kid[o][p]
  BY <1>1
<1> HIDE DEF tmp, o
<1>5. b[p] = b[x] + Dark(t.red, p) + 1
  BY <1>2, <1>3, <1>4, EvenFacts
<1>6. b[p] = b[tmp] + Dark(t.red, p)
  BY <1>1, <1>2, <1>3, <1>4, EvenFacts
<1>7. Dark(t.red, p) \in Nat
  BY DEF Dark
<1>8. b[tmp] = b[x] + 1
  BY <1>3, <1>5, <1>6, <1>7
<1>9. tmp # NULL /\ tmp # x
  BY <1>2, <1>3, <1>8
<1>10. /\ Good(t) /\ p \in In(t) /\ o \in Side /\ t.kid[o][p] # NULL
  BY <1>1, <1>4, <1>9
<1>11. /\ t.kid[o][p] \in In(t) /\ t.kid[o][p] \in Node /\ t.kid[o][p] # p
       /\ t.parent[t.kid[o][p]] = p /\ SideOf(t, t.kid[o][p], p) = o
  BY <1>10, OnePlace
<1>12. /\ tmp \in In(t) /\ tmp \in Node /\ tmp # p /\ t.parent[tmp] = p /\ SideOf(t, tmp, p) = o
  BY <1>4, <1>11
<1>13. SideOf(t, x, p) = d
  <2>1. CASE d = LEFT
    BY <1>4, <2>1 DEF SideOf
  <2>2. CASE d = RIGHT
    <3>1. o = LEFT
      BY <2>2, SideFacts DEF o
    <3>2. QED
      BY <1>4, <1>9, <2>2, <3>1 DEF SideOf
  <2>3. QED
    BY <1>1, <2>1, <2>2 DEF Side
<1>14. x # p
  <2>1. x # NULL => t.kid[d][p] # p
    BY <1>1, <1>4, OnePlace
  <2>2. QED
    BY <1>1, <1>4, <2>1
<1>15. QED
  BY <1>1, <1>3, <1>5, <1>6, <1>8, <1>9, <1>12, <1>13, <1>14 DEF tmp, o

LEMMA ShortFacts ==
  ASSUME NEW t, NEW b, NEW x, NEW p, NEW d, Short(t, b, x, p, d)
  PROVE  /\ Good(t) /\ Coloured(t, b, p, d, x) /\ Level(t, b, p, d) /\ Calm(t, x)
         /\ p \in In(t) /\ d \in Side /\ Opp(d) \in Side
         /\ Opp(d) # d /\ Opp(Opp(d)) = d /\ t.kid[d][p] = x /\ x \notin t.red
         /\ t.red \subseteq Node /\ NULL \notin t.red
BY TypedFacts, SideFacts DEF Short, Coloured, Good

LEMMA ShortBlackSibling ==
  ASSUME NEW t, NEW b, NEW x, NEW p, NEW d, Short(t, b, x, p, d)
  PROVE  LET t2 == BlackSibling(t, p, d)
         IN  /\ \E b2 : Short(t2, b2, x, p, d)
             /\ In(t2) = In(t) /\ t2.kid[Opp(d)][p] \notin t2.red
<1> DEFINE o   == Opp(d)
           tmp == t.kid[o][p]
           inner == t.kid[d][tmp]
           t2  == BlackSibling(t, p, d)
           R   == (t.red \ {tmp}) \cup {p}
<1>1. /\ Good(t) /\ Coloured(t, b, p, d, x) /\ Calm(t, x) /\ p \in In(t) /\ d \in Side /\ o \in Side
      /\ o # d /\ Opp(o) = d /\ t.kid[d][p] = x /\ x \notin t.red /\ t.red \subseteq Node
      /\ NULL \notin t.red
  BY ShortFacts
<1>2. /\ p \in Node /\ p # NULL /\ p # x /\ tmp \in In(t) /\ tmp \in Node /\ tmp # NULL /\ tmp # p
  BY Sibling
<1>3. CASE tmp \notin t.red
  BY <1>3 DEF BlackSibling
<1>4. CASE tmp \in t.red
  <2>1. p \notin t.red /\ inner \notin t.red
    BY <1>1, <1>2, <1>4 DEF Calm
  <2>2. inner # p
    <3>1. Good(t) /\ p \in In(t) /\ o \in Side /\ t.kid[o][p] # NULL
      BY <1>1, <1>2
    <3>2. t.kid[Opp(o)][t.kid[o][p]] # p
      BY <3>1, Around
    <3>3. QED
      BY <1>1, <3>2
  <2>3. t2 = RbRotate(SetBlackRed(t, t.kid[o][p], p), p, o)
    BY <1>4 DEF BlackSibling
  <2>4. SetBlackRed(t, tmp, p) = [t EXCEPT !.red = R] /\ R \in SUBSET Node
    BY <1>1, <1>2 DEF SetBlackRed
  <2>5. /\ t.kid[o][p] \in t.red /\ t.kid[Opp(o)][p] \notin t.red /\ p # t.kid[o][p]
        /\ (p = p => d = Opp(o))
    BY <1>1, <1>2, <1>4
  <2> HIDE DEF t2, R
  <2>6. \E b2 : Coloured(t2, b2, p, d, x)
    <3>1. \E b2 : Coloured(RbRotate(SetBlackRed(t, t.kid[o][p], p), p, o), b2, p, d, x)
      BY <1>1, <2>1, <2>5, RedRaised
    <3>2. QED
      BY <2>3, <3>1
  <2>7. Turned(t, t2, p, o, R)
    <3>1. Good(t) /\ p \in In(t) /\ o \in Side /\ t.kid[o][p] # NULL /\ R \in SUBSET Node
      BY <1>1, <1>2, <2>4
    <3>2. t2 = RbRotate([t EXCEPT !.red = R], p, o)
      BY <2>3, <2>4
    <3>3. QED
      BY <3>1, <3>2, RepaintedRotated
  <2>8. /\ Good(t2) /\ In(t2) = In(t) /\ t2.red = R /\ t2.kid[o][p] = inner /\ t2.kid[d][p] = x
    BY <1>1, <2>7 DEF Turned
  <2>9. x \notin t2.red /\ inner \notin t2.red
    BY <1>1, <1>2, <2>1, <2>2, <2>8 DEF R
  <2>10. \E b2 : Short(t2, b2, x, p, d)
    BY <1>1, <2>6, <2>8, <2>9 DEF Short
  <2>11. QED
    BY <2>8, <2>9, <2>10 DEF t2
<1>5. QED
  BY <1>3, <1>4

LEMMA ShortFarRed ==
  ASSUME NEW t, NEW b, NEW x, NEW p, NEW d, Short(t, b, x, p, d),
         t.kid[Opp(d)][p] \notin t.red,
         \E s \in Side : t.kid[s][t.kid[Opp(d)][p]] \in t.red
  PROVE  LET t2  == FarRed(t, p, d)
             tmp == t2.kid[Opp(d)][p]
         IN  /\ \E b2 : Short(t2, b2, x, p, d)
             /\ In(t2) = In(t) /\ tmp \notin t2.red /\ t2.kid[Opp(d)][tmp] \in t2.red
<1> DEFINE o   == Opp(d)
           tmp == t.kid[o][p]
           c   == t.kid[d][tmp]
           t2  == FarRed(t, p, d)
           R   == (t.red \ {c}) \cup {tmp}
<1>1. /\ Good(t) /\ Coloured(t, b, p, d, x) /\ Calm(t, x) /\ p \in In(t) /\ d \in Side /\ o \in Side
      /\ o # d /\ Opp(o) = d /\ t.kid[d][p] = x /\ x \notin t.red /\ t.red \subseteq Node
      /\ NULL \notin t.red
  BY ShortFacts
<1>2. /\ p \in Node /\ p # NULL /\ p # x /\ tmp \in In(t) /\ tmp \in Node /\ tmp # NULL /\ tmp # p
      /\ tmp # x /\ t.parent[tmp] = p /\ SideOf(t, tmp, p) = o
  BY Sibling
<1>3. CASE t.kid[o][tmp] \in t.red
  BY <1>3 DEF FarRed
<1>4. CASE t.kid[o][tmp] \notin t.red
  <2>1. c \in t.red /\ tmp \notin t.red
    <3>1. PICK s \in Side : t.kid[s][tmp] \in t.red
      OBVIOUS
    <3>2. s = d
      BY <1>1, <1>4, <3>1, SideFacts
    <3>3. QED
      BY <3>1, <3>2
  <2>2. p # c /\ c # tmp /\ c # NULL
    <3>1. Good(t) /\ tmp \in In(t) /\ d \in Side /\ c # NULL
      BY <1>1, <1>2, <2>1
    <3>2. t.kid[o][p] = tmp /\ c = t.kid[d][tmp] /\ t.kid[Opp(d)][c] = t.kid[o][c]
      OBVIOUS
    <3> HIDE DEF tmp, c
    <3>3. t.kid[o][c] # tmp /\ c # tmp
      BY <3>1, <3>2, KidsApart
    <3>4. QED
      BY <1>2, <3>1, <3>2, <3>3
  <2>3. t2 = RbRotate(SetBlackRed(t, t.kid[d][tmp], tmp), tmp, d)
    BY <1>4 DEF FarRed
  <2>4. SetBlackRed(t, c, tmp) = [t EXCEPT !.red = R] /\ R \in SUBSET Node
    BY <1>1, <1>2 DEF SetBlackRed
  <2>5. /\ tmp \in In(t) /\ t.kid[d][tmp] \in t.red /\ tmp \notin t.red /\ t.kid[Opp(d)][tmp] \notin t.red
        /\ p # t.kid[d][tmp] /\ (p = tmp => d = Opp(d))
    BY <1>2, <1>4, <2>1, <2>2
  <2>6. t.kid[o][p] = tmp /\ t.kid[d][tmp] = c
    OBVIOUS
  <2> HIDE DEF t2, R, tmp, c
  <2>7. \E b2 : Coloured(t2, b2, p, d, x)
    <3>1. \E b2 : Coloured(RbRotate(SetBlackRed(t, t.kid[d][tmp], tmp), tmp, d), b2, p, d, x)
      BY <1>1, <2>5, RedRaised
    <3>2. QED
      BY <2>3, <3>1
  <2>8. Turned(t, t2, tmp, d, R)
    <3>1. Good(t) /\ tmp \in In(t) /\ d \in Side /\ t.kid[d][tmp] # NULL /\ R \in SUBSET Node
      BY <1>1, <1>2, <2>2, <2>4, <2>6
    <3>2. t2 = RbRotate([t EXCEPT !.red = R], tmp, d)
      BY <2>3, <2>4, <2>6
    <3>3. QED
      BY <3>1, <3>2, RepaintedRotated
  <2>9. /\ Good(t2) /\ In(t2) = In(t) /\ t2.red = R /\ t2.kid[o][c] = tmp /\ t2.kid[o][p] = c
        /\ t2.kid[d][p] = x
    <3>1. /\ Good(t2) /\ In(t2) = In(t) /\ t2.red = R /\ t2.kid[o][c] = tmp
          /\ t2.kid[o][p] = c
      BY <1>1, <1>2, <2>6, <2>8 DEF Turned
    <3>2. t2.kid[d][p] = t.kid[d][p]
      BY <1>1, <1>2, <2>2, <2>6, <2>8 DEF Turned
    <3>3. QED
      BY <1>1, <3>1, <3>2
  <2>10. x \notin t2.red /\ c \notin t2.red /\ tmp \in t2.red
    BY <1>1, <1>2, <2>2, <2>9 DEF R
  <2>11. \E b2 : Short(t2, b2, x, p, d)
    BY <1>1, <2>7, <2>9, <2>10 DEF Short
  <2>12. QED
    BY <2>9, <2>10, <2>11 DEF t2
<1>5. QED
  BY <1>3, <1>4

LEMMA Settled ==
  ASSUME NEW t, NEW b, NEW x, NEW p, NEW d, Short(t, b, x, p, d),
         t.kid[Opp(d)][p] \notin t.red,
         t.kid[Opp(d)][t.kid[Opp(d)][p]] \in t.red
  PROVE  LET t2 == Settle(t, p, d)
         IN  /\ Good(t2) /\ In(t2) = In(t) /\ x \notin t2.red
             /\ \E b2 : Coloured(t2, b2, NULL, LEFT, NULL)
<1> DEFINE o    == Opp(d)
           tmp  == t.kid[o][p]
           far  == t.kid[o][tmp]
           inner == t.kid[d][tmp]
           as_p == IF p \in t.red THEN t.red \cup {tmp} ELSE t.red \ {tmp}
           R    == as_p \ {p, far}
           t2   == Settle(t, p, d)
           b2   == [b EXCEPT ![p] = b[x] + 1, ![tmp] = b[p], ![far] = b[far] + 1]
<1>1. /\ Good(t) /\ Level(t, b, p, d) /\ Calm(t, x) /\ p \in In(t) /\ d \in Side /\ o \in Side
      /\ o # d /\ Opp(o) = d /\ t.kid[d][p] = x /\ x \notin t.red /\ t.red \subseteq Node
      /\ NULL \notin t.red
  BY ShortFacts
<1>2. /\ p \in Node /\ p # NULL /\ p # x /\ tmp \in In(t) /\ tmp \in Node /\ tmp # NULL /\ tmp # p
      /\ tmp # x /\ t.parent[tmp] = p /\ x \in Pointer
      /\ b[p] \in Nat /\ b[x] \in Nat /\ b[tmp] \in Nat
      /\ b[p] = b[x] + Dark(t.red, p) + 1 /\ b[p] = b[tmp] + Dark(t.red, p)
      /\ b[tmp] = b[x] + 1
  BY Sibling
<1>3. far \in t.red /\ tmp \notin t.red /\ far # NULL /\ far \in Node
  BY <1>1
<1>4. t2 = RbRotate([t EXCEPT !.red = R], p, o) /\ R \in SUBSET Node
  BY <1>1, <1>2 DEF Settle
<1>5. /\ tmp \notin t.red \cup {p, far, x} /\ p \notin R /\ far \notin R
      /\ (tmp \in R <=> p \in t.red) /\ x \notin R
      /\ \A n \in Pointer : n \notin {p, tmp, far} => (n \in R <=> n \in t.red)
  BY <1>1, <1>2, <1>3
<1>6. /\ t.kid[o][p] = tmp /\ t.kid[o][tmp] = far /\ t.kid[d][tmp] = inner
  OBVIOUS
<1> HIDE DEF t2, R, inner, far, tmp, o, as_p
<1>7. Good(t) /\ p \in In(t) /\ o \in Side /\ t.kid[o][p] # NULL
  BY <1>1, <1>2, <1>6
<1>8. /\ far \in In(t) /\ far \notin {p, tmp, inner, x} /\ inner \notin {p, tmp} /\ inner \in Pointer
      /\ x \notin {p, tmp}
  <2>1. /\ tmp = t.kid[o][p] /\ tmp # NULL /\ inner = t.kid[Opp(o)][tmp] /\ far = t.kid[o][tmp]
        /\ Good(t) /\ p \in In(t) /\ o \in Side
    BY <1>1, <1>2, <1>6
  <2>2. /\ inner \in Pointer /\ inner \notin {p, tmp} /\ far \notin {p, tmp}
        /\ far # NULL => far \in In(t) /\ far # inner
    BY <2>1, KidsApart
  <2>3. QED
    BY <1>1, <1>2, <1>3, <2>2
<1>9. /\ b \in [Pointer -> Nat] /\ b[NULL] = 0 /\ NULL \in Pointer /\ p \in Pointer
      /\ tmp \in Pointer /\ far \in Pointer
      /\ Even(t, b, tmp, o, p, d) /\ Even(t, b, tmp, d, p, d)
  BY <1>1, <1>2, <1>3 DEF Level, Pointer
<1>10. b[tmp] = b[far] + 1 /\ b[tmp] = b[inner] + 1 /\ b[far] \in Nat /\ b[inner] \in Nat
  <2>1. b[far] \in Nat /\ b[inner] \in Nat
    BY <1>8, <1>9
  <2>2. b[tmp] = b[far] + 1
    BY <1>2, <1>3, <1>6, <1>9, <2>1, EvenFacts
  <2>3. b[tmp] = b[inner] + 1
    BY <1>2, <1>3, <1>6, <1>9, <2>1, EvenFacts
  <2>4. QED
    BY <2>1, <2>2, <2>3
<1>11. /\ b2 \in [Pointer -> Nat] /\ b2[NULL] = 0
       /\ b2[p] = b[x] + 1 /\ b2[tmp] = b[p] /\ b2[far] = b[far] + 1
       /\ \A n \in Pointer : n \notin {p, tmp, far} => b2[n] = b[n]
  <2>1. b[x] + 1 \in Nat /\ b[far] + 1 \in Nat /\ p # tmp /\ p # far /\ tmp # far
    BY <1>2, <1>8, <1>10
  <2>2. QED
    BY <1>2, <1>3, <1>9, <2>1
<1> HIDE DEF b2
<1>12. Fits(t, p, o, R, b, b2, NULL, LEFT)
  <2>1. /\ Dark(R, p) = 1 /\ Dark(R, tmp) = Dark(t.red, p) /\ Dark(R, far) = 1
        /\ Weight(t, far) = 0
    BY <1>3, <1>5 DEF Dark, Weight
  <2>2. Dark(t.red, p) \in Nat
    BY DEF Dark
  <2>3. /\ b2[tmp] = b2[p] + Dark(t.red, p)
        /\ b2[tmp] = b2[far] + Dark(t.red, p)
        /\ b2[p] = b[inner] + 1
        /\ b2[p] = b[x] + 1
    <3>1. /\ b2[p] = b[x] + 1 /\ b2[tmp] = b[p] /\ b2[far] = b[far] + 1
      BY <1>11
    <3>2. b[p] = (b[x] + 1) + Dark(t.red, p) /\ b[x] + 1 = b[far] + 1 /\ b[x] + 1 = b[inner] + 1
      <4>1. /\ b[x] \in Nat /\ b[p] = b[tmp] + Dark(t.red, p)
            /\ b[tmp] = b[x] + 1
        BY <1>2
      <4>2. QED
        BY <1>10, <4>1
    <3>3. QED
      BY <3>1, <3>2
  <2>4. b2[p] = b[x] + 1 + 0
    BY <1>2, <2>3, Zero
  <2>5. b2[far] + 0 = b[far] + 1
    BY <1>10, <1>11
  <2>6. t.kid[Opp(o)][p] = x /\ NULL # tmp /\ NULL # p /\ Opp(o) = d
    BY <1>1, <1>2
  <2>7. QED
    BY <1>4, <1>5, <1>6, <1>11, <2>1, <2>3, <2>4, <2>5, <2>6 DEF Fits
<1>13. Quiet(t, p, o, R, x, x)
  <2>1. tmp \in R => p # t.root /\ t.parent[p] \notin t.red
    <3>1. ASSUME p \in t.red PROVE p # t.root /\ t.parent[p] \notin t.red
      <4>1. p # t.root
        BY <1>1, <1>2, <3>1 DEF Calm
      <4>2. /\ t.parent[p] \in In(t) /\ SideOf(t, p, t.parent[p]) \in Side
            /\ t.kid[SideOf(t, p, t.parent[p])][t.parent[p]] = p
        BY <1>1, <4>1, ParentOf
      <4>3. QED
        BY <1>1, <1>2, <3>1, <4>1, <4>2 DEF Calm
    <3>2. QED
      BY <1>5, <3>1
  <2>2. QED
    BY <1>1, <1>4, <1>5, <1>6, <2>1 DEF Quiet
<1>14. Level(t2, b2, NULL, LEFT)
  <2>1. \A n \in In(t), f \in Side :
            n \notin {p, t.kid[o][p]} => ((n = p /\ f = d) <=> (n = NULL /\ f = LEFT))
    BY <1>1, GoodBelow, SideFacts
  <2>2. Level(RbRotate([t EXCEPT !.red = R], p, o), b2, NULL, LEFT)
    BY <1>1, <1>7, <1>12, <2>1, RotatedLevel
  <2>3. QED
    BY <1>4, <2>2
<1>15. Calm(t2, x)
  <2>1. Calm(RbRotate([t EXCEPT !.red = R], p, o), x)
    BY <1>1, <1>7, <1>13, RotatedCalm
  <2>2. QED
    BY <1>4, <2>1
<1>16. Turned(t, t2, p, o, R)
  BY <1>4, <1>7, RepaintedRotated
<1>17. Good(t2) /\ In(t2) = In(t) /\ x \notin t2.red
  BY <1>5, <1>16 DEF Turned
<1>18. Coloured(t2, b2, NULL, LEFT, NULL)
  BY <1>14, <1>15, <1>17, Calmed DEF Coloured
<1>19. QED
  BY <1>17, <1>18 DEF t2

LEMMA ShortHigher ==
  ASSUME NEW t, NEW b, NEW x, NEW p, NEW d, Short(t, b, x, p, d),
         t.kid[Opp(d)][p] \notin t.red,
         \A s \in Side : t.kid[s][t.kid[Opp(d)][p]] \notin t.red
  PROVE  LET tmp == t.kid[Opp(d)][p]
             t2  == [t EXCEPT !.red = @ \cup {tmp}]
             g   == t.parent[p]
         IN  /\ Good(t2) /\ In(t2) = In(t) /\ g \in Pointer /\ (g = NULL => p = t2.root)
             /\ g # NULL => g \in In(t) /\ t2.kid[SideOf(t, p, g)][g] = p
             /\ SideOf(t, p, g) \in Side
             /\ Loose(t2, p) /\ \E b2 : Level(t2, b2, g, SideOf(t, p, g))
<1> DEFINE o    == Opp(d)
           tmp  == t.kid[o][p]
           R    == t.red \cup {tmp}
           t2   == [t EXCEPT !.red = @ \cup {tmp}]
           g    == t.parent[p]
           s    == SideOf(t, p, g)
           b2   == [b EXCEPT ![p] = b[x] + Dark(t.red, p), ![tmp] = b[x]]
<1>1. /\ Good(t) /\ Level(t, b, p, d) /\ Calm(t, x) /\ p \in In(t) /\ d \in Side /\ o \in Side
      /\ o # d /\ Opp(o) = d /\ t.kid[d][p] = x /\ x \notin t.red /\ t.red \subseteq Node
      /\ NULL \notin t.red
  BY ShortFacts
<1>2. /\ p \in Node /\ p # NULL /\ p # x /\ tmp \in In(t) /\ tmp \in Node /\ tmp # NULL /\ tmp # p
      /\ tmp # x /\ t.parent[tmp] = p /\ SideOf(t, tmp, p) = o /\ SideOf(t, x, p) = d /\ x \in Pointer
      /\ b[p] \in Nat /\ b[x] \in Nat /\ b[tmp] \in Nat
      /\ b[p] = b[x] + Dark(t.red, p) + 1 /\ b[p] = b[tmp] + Dark(t.red, p)
      /\ b[tmp] = b[x] + 1
  BY Sibling
<1>3. tmp \notin t.red /\ \A f \in Side : t.kid[f][tmp] \notin t.red
  OBVIOUS
<1>4. t2 = [t EXCEPT !.red = R] /\ R \in SUBSET Node
  BY <1>1, <1>2 DEF Good, Typed
<1>5. t.kid[o][p] = tmp /\ t.parent[p] = g
  OBVIOUS
<1>6. /\ g \in Pointer /\ (g = NULL <=> p = t.root)
      /\ g # NULL => g \in In(t) /\ t.kid[s][g] = p
  BY <1>1, ParentOf
<1>7. s \in Side
  BY DEF SideOf, Side
<1> HIDE DEF t2, tmp, o, g, s
<1>8. Good(t2) /\ In(t2) = In(t) /\ t2.red = R /\ t2.kid = t.kid /\ t2.root = t.root
  BY <1>1, <1>4, Repainted
<1>9. /\ b \in [Pointer -> Nat] /\ b[NULL] = 0 /\ NULL \in Pointer /\ p \in Pointer /\ tmp \in Pointer
      /\ \A n \in In(t), f \in Side : Even(t, b, n, f, p, d)
  BY <1>1, <1>2 DEF Level, Pointer
<1>10. Dark(t.red, p) \in Nat /\ Dark(R, p) = Dark(t.red, p) /\ Dark(R, tmp) = 0
  BY <1>2 DEF Dark
<1>11. /\ b2 \in [Pointer -> Nat] /\ b2[NULL] = 0
       /\ b2[p] = b[x] + Dark(t.red, p) /\ b2[tmp] = b[x]
       /\ \A n \in Pointer : n \notin {p, tmp} => b2[n] = b[n]
  <2>1. b[x] + Dark(t.red, p) \in Nat /\ p # tmp
    BY <1>2, <1>10
  <2>2. QED
    BY <1>2, <1>9, <2>1
<1> HIDE DEF b2
<1>12. b2[x] = b[x]
  BY <1>2, <1>11
<1>13. ASSUME NEW n \in In(t), NEW f \in Side
       PROVE  Even(t2, b2, n, f, g, s)
  <2> DEFINE v == t.kid[f][n]
  <2>1. Even(t, b, n, f, p, d) /\ n \in Pointer /\ v \in Pointer /\ n # NULL
    BY <1>1, <1>9, GoodBelow, SideFacts DEF Pointer
  <2>2. b[v] \in Nat /\ b[n] \in Nat /\ t2.kid[f][n] = v /\ b2[v] \in Nat /\ b2[n] \in Nat
    BY <1>8, <1>9, <1>11, <2>1
  <2>3. v # NULL => t.parent[v] = n /\ SideOf(t, v, n) = f /\ v # n /\ v # t.root
    BY <1>1, OnePlace
  <2>4. g # p
    <3>1. s \in Side /\ (g # NULL => t.kid[s][g] # NULL /\ t.kid[s][g] = p)
      BY <1>2, <1>6, <1>7
    <3>2. g # NULL => t.kid[s][g] # g
      BY <1>1, <1>6, <3>1, OnePlace
    <3>3. QED
      BY <1>2, <3>1, <3>2
  <2>5. CASE n = p
    <3>1. ~(n = g /\ f = s)
      BY <2>4, <2>5
    <3>2. b2[v] = b[x]
      <4>1. f = d \/ f = o
        BY <1>1, SideFacts
      <4>2. CASE f = d
        BY <1>1, <1>12, <2>5, <4>2
      <4>3. CASE f = o
        BY <1>5, <1>11, <2>5, <4>3
      <4>4. QED
        BY <4>1, <4>2, <4>3
    <3>3. b2[n] = b2[v] + Dark(t2.red, n)
      BY <1>8, <1>10, <1>11, <2>5, <3>2
    <3>4. QED
      BY <2>2, <3>1, <3>3, EvenHere
  <2>6. CASE n = tmp
    <3>1. n # g
      <4>1. g # NULL => p # tmp /\ t.kid[s][g] = p
        BY <1>2, <1>6
      <4>2. tmp \in Elements(t.kid, t.kid[o][p])
        BY <1>1, <1>2, <1>5, ElementsClosed, TypedFacts DEF Good
      <4>3. t.kid[s][tmp] # p
        BY <1>1, <1>7, <4>2, NotBelow
      <4>4. QED
        BY <1>2, <2>6, <4>1, <4>3
    <3>2. ~(n = p /\ f = d) /\ ~(n = g /\ f = s)
      BY <1>2, <2>6, <3>1
    <3>3. v \notin {p, tmp}
      <4>1. v # NULL => t.parent[v] = tmp
        BY <2>3, <2>6
      <4>2. g # tmp
        BY <2>6, <3>1
      <4>3. QED
        BY <1>2, <1>5, <4>1, <4>2
    <3>4. b2[v] = b[v] /\ b[tmp] = b[v] + 1
      <4>1. b2[v] = b[v]
        BY <1>11, <2>1, <3>3
      <4>2. b[n] = b[v] + 1
        BY <1>3, <2>1, <2>2, <2>6, <3>2, EvenFacts
      <4>3. QED
        BY <2>6, <4>1, <4>2
    <3>5. b[v] = b[x]
      BY <1>2, <2>2, <3>4
    <3>6. b2[n] = b2[v] + Dark(t2.red, n)
      <4>1. b2[n] = b[x] /\ Dark(t2.red, n) = 0
        BY <1>8, <1>10, <1>11, <2>6
      <4>2. QED
        BY <1>2, <3>4, <3>5, <4>1, Zero
    <3>7. QED
      BY <2>2, <3>6, <3>2, EvenHere
  <2>7. CASE n \notin {p, tmp}
    <3>1. v # tmp
      <4>1. v = tmp => n = p
        BY <1>2, <2>3
      <4>2. QED
        BY <2>7, <4>1
    <3>2. b2[n] = b[n] /\ (n \in t2.red <=> n \in t.red)
      BY <1>8, <1>11, <2>1, <2>7
    <3>3. CASE v = p
      <4>1. n = g /\ f = s
        BY <1>2, <1>5, <2>3, <3>3 DEF s
      <4>2. b[n] = b[v] + Dark(t.red, n)
        BY <2>1, <2>2, <2>7, EvenFacts
      <4>3. b[v] = b2[v] + 1 /\ Dark(t.red, n) = Weight(t2, n) /\ Dark(t.red, n) \in Nat
        <5>1. b[v] = b2[v] + 1
          <6>1. b[p] = b[x] + Dark(t.red, p) + 1
            BY <1>2
          <6>2. QED
            BY <1>2, <1>10, <1>11, <3>3, <6>1
        <5>2. QED
          BY <3>2, <5>1 DEF Dark, Weight
      <4>4. b2[n] = b2[v] + Weight(t2, n) + 1
        BY <2>2, <3>2, <4>2, <4>3
      <4>5. QED
        BY <2>2, <4>1, <4>4 DEF Even
    <3>4. CASE v # p
      <4>1. b2[t2.kid[f][n]] = b[t.kid[f][n]]
        BY <1>11, <2>1, <2>2, <3>1, <3>4
      <4>2. ~(n = p /\ f = d) /\ ~(n = g /\ f = s)
        BY <1>6, <2>1, <2>7, <3>4
      <4>3. QED
        BY <2>1, <3>2, <4>1, <4>2, SameEven
    <3>5. QED
      BY <3>3, <3>4
  <2>8. QED
    BY <2>5, <2>6, <2>7
<1>14. Loose(t2, p)
  <2>1. ASSUME NEW n \in In(t), NEW f \in Side, n \in R, t.kid[f][n] \in R
        PROVE  p \in {n, t.kid[f][n]}
    <3> DEFINE v == t.kid[f][n]
    <3>1. v # NULL => t.parent[v] = n
      BY <1>1, OnePlace
    <3>2. CASE v = tmp
      BY <1>2, <3>1, <3>2
    <3>3. CASE v # tmp
      BY <1>1, <1>3, <2>1, <3>3 DEF Calm
    <3>4. QED
      BY <3>2, <3>3
  <2>2. t.root \in R => t.root = p
    <3>1. t.root # tmp
      BY <1>1, <1>2, <1>5, OnePlace
    <3>2. QED
      BY <1>1, <3>1 DEF Calm
  <2>3. QED
    BY <1>8, <2>1, <2>2 DEF Loose
<1>15. Level(t2, b2, g, s)
  BY <1>8, <1>11, <1>13 DEF Level
<1>16. QED
  BY <1>6, <1>7, <1>8, <1>14, <1>15 DEF t2, g, s, tmp, o

(* thin is what may lack a black node, below over or on top.                *)
Lacks(t, b, thin, over, s) ==
    /\ Good(t) /\ Level(t, b, over, s) /\ Loose(t, thin) /\ s \in Side
    /\ IF over = NULL THEN thin = t.root ELSE over \in In(t) /\ t.kid[s][over] = thin

(* A turn of RB_REMOVE_COLOR.                                               *)
LEMMA RemoveTurn ==
  ASSUME NEW t, NEW b, NEW thin, NEW over, NEW s, Lacks(t, b, thin, over, s), thin \notin t.red, thin # t.root
  PROVE  LET d   == SideOf(t, thin, over)
             t1  == BlackSibling(t, over, d)
             tmp == t1.kid[Opp(d)][over]
             t2  == [t1 EXCEPT !.red = @ \cup {tmp}]
             t3  == Settle(FarRed(t1, over, d), over, d)
             t4  == [t3 EXCEPT !.red = @ \ {t3.root}]
         IN  IF \A f \in Side : t1.kid[f][tmp] \notin t1.red
               THEN In(t2) = In(t) /\ \E b2, s2 : Lacks(t2, b2, over, t1.parent[over], s2)
               ELSE Good(t4) /\ In(t4) = In(t) /\ \E b2 : Coloured(t4, b2, NULL, LEFT, NULL)
<1> DEFINE d   == SideOf(t, thin, over)
           t1  == BlackSibling(t, over, d)
           tmp == t1.kid[Opp(d)][over]
           t2  == [t1 EXCEPT !.red = @ \cup {tmp}]
           tf  == FarRed(t1, over, d)
           t3  == Settle(tf, over, d)
           t4  == [t3 EXCEPT !.red = @ \ {t3.root}]
<1>1. Short(t, b, thin, over, s)
  BY Loosened DEF Lacks, Short, Coloured
<1>2. d = s
  BY <1>1, Sibling
<1> HIDE DEF d
<1>3. Short(t, b, thin, over, d)
  BY <1>1, <1>2
<1>4. (\E b2 : Short(t1, b2, thin, over, d)) /\ In(t1) = In(t) /\ tmp \notin t1.red
  BY <1>3, ShortBlackSibling
<1>5. PICK b1 : Short(t1, b1, thin, over, d)
  BY <1>4
<1> HIDE DEF t1
<1>6. ASSUME \A f \in Side : t1.kid[f][tmp] \notin t1.red
      PROVE  In(t2) = In(t) /\ \E b2, s2 : Lacks(t2, b2, over, t1.parent[over], s2)
  <2> DEFINE g  == t1.parent[over]
             s2 == SideOf(t1, over, g)
  <2>1. /\ Good(t2) /\ In(t2) = In(t1) /\ (g = NULL => over = t2.root)
        /\ g # NULL => g \in In(t1) /\ t2.kid[s2][g] = over
        /\ s2 \in Side
        /\ Loose(t2, over) /\ \E b2 : Level(t2, b2, g, s2)
    <3>1. /\ Short(t1, b1, thin, over, d) /\ t1.kid[Opp(d)][over] \notin t1.red
          /\ \A f \in Side : t1.kid[f][t1.kid[Opp(d)][over]] \notin t1.red
      BY <1>4, <1>5, <1>6
    <3>2. LET o  == t1.kid[Opp(d)][over]
              u2 == [t1 EXCEPT !.red = @ \cup {o}]
              h  == t1.parent[over]
          IN  /\ Good(u2) /\ In(u2) = In(t1) /\ h \in Pointer /\ (h = NULL => over = u2.root)
              /\ h # NULL => h \in In(t1) /\ u2.kid[SideOf(t1, over, h)][h] = over
              /\ SideOf(t1, over, h) \in Side
              /\ Loose(u2, over) /\ \E b2 : Level(u2, b2, h, SideOf(t1, over, h))
      BY ONLY <3>1, ShortHigher
    <3>3. QED
      BY ONLY <3>2
  <2> HIDE DEF t2, g, s2
  <2>2. PICK b2 : Level(t2, b2, g, s2)
    BY <2>1
  <2>3. Lacks(t2, b2, over, g, s2)
    BY <2>1, <2>2 DEF Lacks
  <2>4. QED
    BY <1>4, <2>1, <2>3 DEF g
<1>7. ASSUME ~ \A f \in Side : t1.kid[f][tmp] \notin t1.red
      PROVE  Good(t4) /\ In(t4) = In(t) /\ \E b2 : Coloured(t4, b2, NULL, LEFT, NULL)
  <2> DEFINE far == tf.kid[Opp(d)][over]
  <2>1. /\ t1.kid[Opp(d)][over] \notin t1.red
        /\ \E f \in Side : t1.kid[f][t1.kid[Opp(d)][over]] \in t1.red
    BY <1>4, <1>7
  <2>2. /\ \E b2 : Short(tf, b2, thin, over, d)
        /\ In(tf) = In(t1) /\ far \notin tf.red /\ tf.kid[Opp(d)][far] \in tf.red
    BY <1>5, <2>1, ShortFarRed
  <2> HIDE DEF tf
  <2>3. PICK b2 : Short(tf, b2, thin, over, d)
    BY <2>2
  <2>4. /\ Good(t3) /\ In(t3) = In(tf)
        /\ \E b3 : Coloured(t3, b3, NULL, LEFT, NULL)
    BY <2>2, <2>3, Settled
  <2> HIDE DEF t3
  <2>5. PICK b3 : Coloured(t3, b3, NULL, LEFT, NULL)
    BY <2>4
  <2>6. t3.root \notin t3.red
    BY <2>4, <2>5, TypedFacts, SideFacts DEF Coloured, Calm, Good
  <2>7. t4 = t3
    BY <2>4, <2>6 DEF Good, Typed
  <2>8. QED
    BY <1>4, <2>2, <2>4, <2>5, <2>7
<1>8. QED
  BY <1>6, <1>7 DEF t1, d

LEMMA RemoveEnds ==
  ASSUME NEW t, NEW b, NEW thin, NEW over, NEW s, Lacks(t, b, thin, over, s), thin \in t.red \/ thin = t.root
  PROVE  LET t2 == [t EXCEPT !.red = @ \ {thin}]
         IN  Good(t2) /\ In(t2) = In(t) /\ \E b2 : Coloured(t2, b2, NULL, LEFT, NULL)
<1> DEFINE R  == t.red \ {thin}
           t2 == [t EXCEPT !.red = @ \ {thin}]
<1>1. /\ Good(t) /\ Level(t, b, over, s) /\ Loose(t, thin) /\ s \in Side /\ t.red \subseteq Node
      /\ NULL \notin t.red /\ NULL \notin In(t) /\ R \in SUBSET Node /\ t.root \in Pointer
      /\ IF over = NULL THEN thin = t.root ELSE over \in In(t) /\ t.kid[s][over] = thin
  BY TypedFacts, SideFacts, ElementsAreNodes DEF Lacks, Good, In
<1>2. t2 = [t EXCEPT !.red = R]
  BY <1>1 DEF Good, Typed
<1>3. Good(t2) /\ In(t2) = In(t)
  BY <1>1, <1>2, Repainted
<1>4. CASE thin \in t.red
  <2>1. thin \in In(t)
    <3>1. CASE over = NULL
      BY <1>1, <1>4, <3>1, ElementsClosed, TypedFacts DEF In, Good
    <3>2. CASE over # NULL
      BY <1>1, <1>4, <3>2, OnePlace
    <3>3. QED
      BY <3>1, <3>2
  <2>2. /\ Good(t) /\ s \in Side /\ Level(t, b, over, s) /\ Loose(t, thin) /\ thin \in In(t) /\ thin \in t.red
        /\ IF over = NULL THEN thin = t.root ELSE over \in In(t) /\ t.kid[s][over] = thin
    BY <1>1, <1>4, <2>1
  <2>3. \E b2 : Coloured(t2, b2, NULL, LEFT, NULL)
    BY <2>2, Blackened
  <2>4. QED
    BY <1>3, <2>3
<1>5. CASE thin \notin t.red
  <2>1. t2 = t
    BY <1>1, <1>2, <1>5 DEF Good, Typed
  <2>2. over = NULL
    <3>1. CASE thin = NULL
      <4>1. In(t) = {}
        BY <1>5, <3>1, NoElements DEF In
      <4>2. QED
        BY <1>1, <4>1
    <3>2. CASE thin # NULL
      BY <1>1, <1>5, <3>2, OnePlace
    <3>3. QED
      BY <3>1, <3>2
  <2>3. Level(t, b, NULL, LEFT)
    BY <1>1, <2>2 DEF Level, Even
  <2>4. Calm(t, NULL)
    BY <1>1, <1>5, Loosened, Calmed
  <2>5. QED
    BY <1>1, <2>1, <2>3, <2>4 DEF Coloured
<1>6. QED
  BY <1>4, <1>5
-----------------------------------------------------------------------------
LEMMA AttachedColours ==
  ASSUME NEW t, Good(t), NEW e \in Node, e \notin In(t), NEW p \in Pointer, NEW s \in Side,
         Place(t, NULL, p, s), p # NULL => s = Toward(Key[e], p),
         \A m \in In(t), d \in Side : Leads(t, m, d, p, s) => Toward(Key[e], m) = d,
         NEW b, Coloured(t, b, NULL, LEFT, NULL)
  PROVE  \E b2 : Ripe(Attach(t, e, p), b2, e)
<1> DEFINE t2 == Attach(t, e, p)
           b2 == [b EXCEPT ![e] = 0]
<1>1. /\ Good(t2) /\ In(t2) = In(t) \cup {e} /\ t2.red = t.red \cup {e}
      /\ t2.root = IF p = NULL THEN e ELSE t.root
      /\ \A d \in Side : t2.kid[d][e] = NULL
      /\ \A m \in In(t), d \in Side :
            t2.kid[d][m] = IF m = p /\ d = s THEN e ELSE t.kid[d][m]
  BY Attached
<1> HIDE DEF t2
<1>2. /\ Level(t, b, NULL, LEFT) /\ Calm(t, NULL) /\ NULL \notin t.red /\ e # NULL
      /\ b \in [Pointer -> Nat] /\ b[NULL] = 0 /\ e \in Pointer /\ NULL \in Pointer
      /\ \A n \in In(t), d \in Side : Even(t, b, n, d, NULL, LEFT)
      /\ p # NULL => p \in In(t) /\ t.kid[s][p] = NULL
      /\ t.root \in Pointer
  BY TypedFacts, SideFacts DEF Good, Coloured, Pointer, Level, Place
<1>3. /\ b2 \in [Pointer -> Nat] /\ b2[NULL] = 0 /\ b2[e] = 0
      /\ \A n \in Pointer : n # e => b2[n] = b[n]
  BY <1>2
<1> HIDE DEF b2
<1>4. ASSUME NEW n \in In(t2), NEW d \in Side
      PROVE  Even(t2, b2, n, d, NULL, LEFT)
  <2>1. CASE n = e
    <3>1. t2.kid[d][n] = NULL /\ Dark(t2.red, n) = 0 /\ ~(n = NULL /\ d = LEFT)
      BY <1>1, <1>2, <2>1 DEF Dark
    <3>2. b2[NULL] \in Nat /\ b2[n] = b2[NULL] + Dark(t2.red, n)
      BY <1>3, <2>1, <3>1
    <3>3. QED
      BY <3>1, <3>2, EvenHere
  <2>2. CASE n # e
    <3>1. /\ n \in In(t) /\ n \in Pointer /\ t.kid[d][n] \in Pointer /\ n # NULL
          /\ Even(t, b, n, d, NULL, LEFT) /\ b2[n] = b[n] /\ (n \in t2.red <=> n \in t.red)
      BY <1>1, <1>2, <1>3, <2>2, GoodBelow, SideFacts DEF Pointer
    <3>2. t.kid[d][n] # e
      BY <1>2, <3>1, OnePlace
    <3>3. b2[t2.kid[d][n]] = b[t.kid[d][n]]
      <4>1. CASE n = p /\ d = s
        BY <1>1, <1>2, <1>3, <3>1, <4>1
      <4>2. CASE ~(n = p /\ d = s)
        BY <1>1, <1>3, <3>1, <3>2, <4>2
      <4>3. QED
        BY <4>1, <4>2
    <3>4. QED
      BY <3>1, <3>3, SameEven
  <2>3. QED
    BY <2>1, <2>2
<1>5. Calm(t2, e)
  <2>1. ASSUME NEW n \in In(t2), NEW d \in Side, n \in t2.red, t2.kid[d][n] \in t2.red
        PROVE  t2.kid[d][n] = e
    <3>1. n # e
      BY <1>1, <1>2, <2>1
    <3>2. CASE t2.kid[d][n] = t.kid[d][n]
      BY <1>1, <1>2, <2>1, <3>1, <3>2 DEF Calm
    <3>3. CASE t2.kid[d][n] # t.kid[d][n]
      BY <1>1, <3>1, <3>3
    <3>4. QED
      BY <3>2, <3>3
  <2>2. t2.root \in t2.red => t2.root = e
    BY <1>1, <1>2 DEF Calm
  <2>3. QED
    BY <2>1, <2>2 DEF Calm
<1>6. Ripe(t2, b2, e)
  BY <1>1, <1>2, <1>3, <1>4, <1>5 DEF Ripe, Coloured, Level
<1>7. QED
  BY <1>6 DEF t2

LEMMA UnlinkedColours ==
  ASSUME NEW t, Good(t), NEW e \in In(t), NEW f \in Side, t.kid[Opp(f)][e] = NULL,
         NEW b, Coloured(t, b, NULL, LEFT, NULL)
  PROVE  LET child == t.kid[f][e]
             p     == t.parent[e]
             s     == SideOf(t, e, p)
             t2    == Unlink(t, e, child)
         IN  IF e \in t.red THEN Coloured(t2, b, NULL, LEFT, NULL)
             ELSE Lacks(t2, b, child, p, s) /\ Calm(t2, child)
<1> DEFINE child == t.kid[f][e]
           p     == t.parent[e]
           s     == SideOf(t, e, p)
           t2    == Unlink(t, e, child)
           g     == IF e \in t.red THEN NULL ELSE p
           h     == IF e \in t.red THEN LEFT ELSE s
<1>1. /\ Good(t2) /\ In(t2) = In(t) \ {e} /\ t2.red = t.red
      /\ child \in Pointer /\ child # e /\ p # e
      /\ child # NULL => child \in In(t2)
      /\ p # NULL => p \in In(t2) /\ s \in Side /\ t.kid[s][p] = e
      /\ t2.root = IF p = NULL THEN child ELSE t.root
      /\ \A m \in In(t2), d \in Side :
            t2.kid[d][m] = IF m = p /\ d = s THEN child ELSE t.kid[d][m]
  BY Unlinked
<1>2. /\ Level(t, b, NULL, LEFT) /\ Calm(t, NULL) /\ NULL \notin t.red
      /\ b \in [Pointer -> Nat] /\ b[NULL] = 0 /\ NULL \in Pointer /\ e \in Node /\ e \in Pointer /\ e # NULL
      /\ \A n \in In(t), d \in Side : Even(t, b, n, d, NULL, LEFT)
      /\ t.root \in Pointer /\ s \in Side
  BY TypedFacts, SideFacts, GoodBelow DEF Good, Coloured, Pointer, Level, SideOf, Side
<1>3. t.kid[f][e] = child /\ t.parent[e] = p
  OBVIOUS
<1> HIDE DEF t2, child, p, s
<1>4. /\ e \in t.red => b[e] = b[child]
      /\ e \notin t.red => b[e] = b[child] + 1
  <2>1. Even(t, b, e, f, NULL, LEFT) /\ b[e] \in Nat /\ b[child] \in Nat /\ child = t.kid[f][e]
    BY <1>1, <1>2, <1>3
  <2>2. ~(e = NULL /\ f = LEFT)
    BY <1>2
  <2>3. QED
    BY <2>1, <2>2, EvenFacts
<1>5. ASSUME NEW n \in In(t2), NEW d \in Side
      PROVE  Even(t2, b, n, d, g, h)
  <2>1. /\ n \in In(t) /\ n \in Pointer /\ n # NULL /\ t.kid[d][n] \in Pointer
        /\ Even(t, b, n, d, NULL, LEFT) /\ (n \in t2.red <=> n \in t.red)
        /\ b[n] \in Nat /\ b[t.kid[d][n]] \in Nat
    BY <1>1, <1>2, GoodBelow, SideFacts DEF Pointer
  <2>2. CASE n = p /\ d = s
    <3>1. t.kid[d][n] = e /\ t2.kid[d][n] = child /\ b[child] \in Nat
      BY <1>1, <1>2, <2>1, <2>2
    <3>2. b[n] = b[e] + Dark(t.red, n) /\ Dark(t.red, n) = Dark(t2.red, n) /\ Dark(t.red, n) \in Nat
      <4>1. b[n] = b[t.kid[d][n]] + Dark(t.red, n)
        <5>1. ~(n = NULL /\ d = LEFT)
          BY <2>1
        <5>2. QED
          BY <2>1, <5>1, EvenFacts
      <4>2. QED
        BY <1>1, <3>1, <4>1 DEF Dark
    <3>3. CASE e \in t.red
      <4>1. ~(n = g /\ d = h) /\ b[n] = b[child] + Dark(t2.red, n)
        BY <1>4, <2>1, <3>2, <3>3
      <4>2. QED
        BY <3>1, <4>1, EvenHere
    <3>4. CASE e \notin t.red
      <4>1. n = g /\ d = h
        BY <2>2, <3>4
      <4>2. b[n] = b[child] + Dark(t2.red, n) + 1
        BY <1>4, <3>1, <3>2, <3>4
      <4>3. b[n] = b[t2.kid[d][n]] + Weight(t2, n) + 1
        BY <3>1, <4>2 DEF Dark, Weight
      <4>4. QED
        BY <4>1, <4>3 DEF Even
    <3>5. QED
      BY <3>3, <3>4
  <2>3. CASE ~(n = p /\ d = s)
    <3>1. b[t2.kid[d][n]] = b[t.kid[d][n]]
      BY <1>1, <2>3
    <3>2. ~(n = NULL /\ d = LEFT) /\ ~(n = g /\ d = h)
      BY <2>1, <2>3
    <3>3. QED
      BY <2>1, <3>1, <3>2, SameEven
  <2>4. QED
    BY <2>2, <2>3
<1>6. Level(t2, b, g, h)
  BY <1>2, <1>5 DEF Level
<1>7. ASSUME NEW n \in In(t2), NEW d \in Side, n \in t2.red, t2.kid[d][n] \in t2.red
      PROVE  e \notin t.red /\ t2.kid[d][n] = child
  <2>1. n \in In(t) /\ n \in t.red
    BY <1>1, <1>7
  <2>2. CASE n = p /\ d = s
    <3>1. t2.kid[d][n] = child /\ t.kid[d][n] = e
      BY <1>1, <1>2, <1>7, <2>2, GoodBelow, SideFacts
    <3>2. e \notin t.red
      BY <1>2, <2>1, <3>1 DEF Calm
    <3>3. QED
      BY <3>1, <3>2
  <2>3. CASE ~(n = p /\ d = s)
    BY <1>1, <1>2, <1>7, <2>1, <2>3 DEF Calm
  <2>4. QED
    BY <2>2, <2>3
<1>8. t2.root \in t2.red => e \notin t.red /\ t2.root = child
  <2>1. CASE p = NULL
    <3>1. t.root = e
      BY <1>3, <2>1, ParentOf
    <3>2. QED
      BY <1>1, <1>2, <2>1, <3>1 DEF Calm
  <2>2. CASE p # NULL
    BY <1>1, <1>2, <2>2 DEF Calm
  <2>3. QED
    BY <2>1, <2>2
<1>9. CASE e \in t.red
  <2>1. Calm(t2, NULL)
    BY <1>7, <1>8, <1>9 DEF Calm
  <2>2. QED
    BY <1>6, <1>9, <2>1 DEF Coloured, t2, child
<1>10. CASE e \notin t.red
  <2>1. Calm(t2, child)
    BY <1>7, <1>8 DEF Calm
  <2>2. IF p = NULL THEN child = t2.root ELSE p \in In(t2) /\ t2.kid[s][p] = child
    BY <1>1, <1>2
  <2>3. Level(t2, b, p, s)
    BY <1>6, <1>10
  <2>4. Lacks(t2, b, child, p, s)
    BY <1>1, <1>2, <2>1, <2>2, <2>3, Loosened DEF Lacks
  <2>5. QED
    BY <1>10, <2>1, <2>4 DEF t2, child, p, s
<1>11. QED
  BY <1>9, <1>10
-----------------------------------------------------------------------------
LEMMA MovedEven ==
  ASSUME NEW t, NEW b, NEW n, NEW d, NEW g, NEW s, NEW t2, NEW b2, NEW n2, NEW g2, NEW s2,
         Even(t, b, n, d, g, s), b2[n2] = b[n], b2[t2.kid[d][n2]] = b[t.kid[d][n]],
         n2 \in t2.red <=> n \in t.red, (n = g /\ d = s) <=> (n2 = g2 /\ d = s2)
  PROVE  Even(t2, b2, n2, d, g2, s2)
BY DEF Even, Weight

LEMMA StandsColours ==
  ASSUME NEW t, Good(t), NEW e \in In(t), NEW n \in Node, n \notin In(t), NEW t2, NEW p, NEW s,
         Stands(t, t2, e, n, p, s), NEW b, NEW g, NEW h, Level(t, b, g, h),
         g = NULL \/ g \in In(t), NEW x, Calm(t, x), x # e
  PROVE  LET g2 == IF g = e THEN n ELSE g
             b2 == [b EXCEPT ![n] = b[e]]
         IN  Level(t2, b2, g2, h) /\ Calm(t2, x)
<1> DEFINE g2 == IF g = e THEN n ELSE g
           b2 == [b EXCEPT ![n] = b[e]]
<1>1. /\ In(t2) = (In(t) \ {e}) \cup {n}
      /\ t2.red = IF e \in t.red THEN t.red \cup {n} ELSE t.red \ {n}
      /\ t2.root = IF p = NULL THEN n ELSE t.root
      /\ p = NULL => t.root = e
      /\ p # NULL => p \in In(t) /\ p # e /\ s \in Side /\ t.kid[s][p] = e
      /\ \A m \in In(t) \ {e}, f \in Side :
            t2.kid[f][m] = IF m = p /\ f = s THEN n ELSE t.kid[f][m]
      /\ \A f \in Side : t2.kid[f][n] = t.kid[f][e]
  BY DEF Stands
<1>2. /\ b \in [Pointer -> Nat] /\ b[NULL] = 0 /\ n # NULL /\ n \in Pointer /\ NULL \in Pointer
      /\ \A m \in In(t), d \in Side : Even(t, b, m, d, g, h)
      /\ e # n /\ e # NULL /\ e \in Pointer /\ t.root \in Pointer
  BY GoodBelow, TypedFacts, SideFacts DEF Level, Pointer, Good
<1>3. /\ b2 \in [Pointer -> Nat] /\ b2[NULL] = 0 /\ b2[n] = b[e]
      /\ \A m \in Pointer : m # n => b2[m] = b[m]
  BY <1>2
<1>4. ASSUME NEW m \in In(t), NEW f \in Side
      PROVE  /\ m \in Pointer /\ m # n /\ m # NULL /\ t.kid[f][m] # n /\ t.kid[f][m] \in Pointer
             /\ t.kid[f][m] # NULL => t.kid[f][m] \in In(t)
  BY <1>2, <1>4, GoodBelow, OnePlace, SideFacts DEF Pointer
<1>5. g2 = IF g = e THEN n ELSE g
  OBVIOUS
<1> HIDE DEF b2, g2
<1>6. ASSUME NEW m \in In(t) \ {e}, NEW f \in Side
      PROVE  Even(t2, b2, m, f, g2, h)
  <2>1. Even(t, b, m, f, g, h) /\ b2[m] = b[m] /\ (m \in t2.red <=> m \in t.red)
    BY <1>1, <1>2, <1>3, <1>4
  <2>2. b2[t2.kid[f][m]] = b[t.kid[f][m]]
    <3>1. CASE m = p /\ f = s
      <4>1. t2.kid[f][m] = n /\ t.kid[f][m] = e
        BY <1>1, <1>4, <3>1
      <4>2. QED
        BY <1>3, <4>1
    <3>2. CASE ~(m = p /\ f = s)
      <4>1. t2.kid[f][m] = t.kid[f][m]
        BY <1>1, <3>2
      <4>2. QED
        BY <1>3, <1>4, <4>1
    <3>3. QED
      BY <3>1, <3>2
  <2>3. (m = g /\ f = h) <=> (m = g2 /\ f = h)
    BY <1>4, <1>5
  <2>4. QED
    BY <2>1, <2>2, <2>3, SameEven
<1>7. ASSUME NEW f \in Side
      PROVE  Even(t2, b2, n, f, g2, h)
  <2>1. Even(t, b, e, f, g, h) /\ b2[n] = b[e] /\ (n \in t2.red <=> e \in t.red)
    BY <1>1, <1>2, <1>3
  <2>2. b2[t2.kid[f][n]] = b[t.kid[f][e]]
    BY <1>1, <1>3, <1>4
  <2>3. (e = g /\ f = h) <=> (n = g2 /\ f = h)
    BY <1>2, <1>5
  <2>4. QED
    BY <2>1, <2>2, <2>3, MovedEven
<1>8. Level(t2, b2, g2, h)
  BY <1>1, <1>3, <1>6, <1>7 DEF Level
<1>9. ASSUME NEW m \in In(t2), NEW f \in Side, m \in t2.red, t2.kid[f][m] \in t2.red
      PROVE  t2.kid[f][m] = x
  <2>1. CASE m = n
    <3>1. e \in t.red /\ t2.kid[f][m] = t.kid[f][e] /\ t.kid[f][e] \in t.red
      BY <1>1, <1>4, <1>9, <2>1
    <3>2. QED
      BY <3>1 DEF Calm
  <2>2. CASE m # n /\ m = p /\ f = s
    <3>1. m \in In(t) \ {e} /\ m \in t.red /\ t2.kid[f][m] = n /\ t.kid[f][m] = e
      BY <1>1, <1>4, <1>9, <2>2
    <3>2. e \in t.red
      BY <1>1, <1>9, <3>1
    <3>3. QED
      BY <3>1, <3>2 DEF Calm
  <2>3. CASE m # n /\ ~(m = p /\ f = s)
    <3>1. m \in In(t) \ {e} /\ m \in t.red /\ t2.kid[f][m] = t.kid[f][m]
      BY <1>1, <1>9, <2>3
    <3>2. t.kid[f][m] \in t.red
      BY <1>1, <1>4, <1>9, <3>1
    <3>3. QED
      BY <3>1, <3>2 DEF Calm
  <2>4. QED
    BY <2>1, <2>2, <2>3
<1>10. t2.root \in t2.red => t2.root = x
  <2>1. CASE p = NULL
    BY <1>1, <2>1 DEF Calm
  <2>2. CASE p # NULL
    <3>1. t2.root = t.root /\ t.root # n
      <4>1. In(t) # {}
        BY <1>1, <2>2
      <4>2. t.root \in In(t)
        BY <1>2, <4>1, NoElements, ElementsClosed, TypedFacts DEF In, Pointer, Good
      <4>3. QED
        BY <1>1, <2>2, <4>2
    <3>2. QED
      BY <1>1, <3>1 DEF Calm
  <2>3. QED
    BY <2>1, <2>2
<1>11. Calm(t2, x)
  BY <1>9, <1>10 DEF Calm
<1>12. QED
  BY <1>8, <1>11 DEF g2, b2

(* The next element stands where e stood, and what hangs from it where the  *)
(* next element stood.                                                      *)
LEMMA ReplacedColours ==
  ASSUME NEW t, Good(t), NEW b, Coloured(t, b, NULL, LEFT, NULL), NEW e \in In(t),
         NEW next \in Elements(t.kid, t.kid[RIGHT][e]), t.kid[LEFT][next] = NULL,
         \A z \in Elements(t.kid, t.kid[RIGHT][e]) : z = next \/ Toward(Key[z], next) = RIGHT
  PROVE  LET t2    == Replace(t, e, next)
             child == t.kid[RIGHT][next]
             p     == t.parent[next]
             over    == IF p = e THEN next ELSE p
         IN  /\ Good(t2) /\ In(t2) = In(t) \ {e}
             /\ next \in t.red => \E b2 : Coloured(t2, b2, NULL, LEFT, NULL)
             /\ next \notin t.red => \E b2, s2 : Lacks(t2, b2, child, over, s2)
<1> DEFINE child == t.kid[RIGHT][next]
           p     == t.parent[next]
           s     == SideOf(t, next, p)
           t1    == Unlink(t, next, child)
           t2    == Replace(t, e, next)
           over    == IF p = e THEN next ELSE p
           p1    == t1.parent[e]
           s1    == SideOf(t1, e, p1)
<1>1. next \in In(t) /\ next # e /\ Good(t1) /\ In(t1) = In(t) \ {next} /\ e \in In(t1) /\ Suits(t1, e, next)
  BY NextFits
<1>2. /\ next \in t.red => Coloured(t1, b, NULL, LEFT, NULL)
      /\ next \notin t.red => Lacks(t1, b, child, p, s) /\ Calm(t1, child)
  <2>1. Good(t) /\ next \in In(t) /\ RIGHT \in Side /\ t.kid[Opp(RIGHT)][next] = NULL
        /\ Coloured(t, b, NULL, LEFT, NULL)
    BY <1>1, SideFacts
  <2>2. QED
    BY <2>1, UnlinkedColours
<1>3. t2 = TakePlace(t1, e, next)
  BY DEF Replace
<1>4. p # NULL /\ child # e
  <2>1. child # e
    BY NotBelow, SideFacts
  <2>2. next # t.root
    <3>1. SUFFICES ASSUME next = t.root PROVE FALSE
      OBVIOUS
    <3>2. t.kid \in Memory /\ t.kid[RIGHT][e] \in Pointer /\ e \notin Elements(t.kid, t.kid[RIGHT][e])
      BY GoodBelow, TypedFacts, SideFacts DEF Good
    <3>3. Elements(t.kid, next) \subseteq Elements(t.kid, t.kid[RIGHT][e])
      BY <3>2, ElementsBelow
    <3>4. QED
      BY <3>1, <3>2, <3>3 DEF In
  <2>3. QED
    BY <1>1, <2>1, <2>2, ParentOf
<1> HIDE DEF t1, t2, p, s, child
<1>5. Good(t2) /\ Stands(t1, t2, e, next, p1, s1)
  BY <1>1, <1>3, TookPlace
<1> HIDE DEF p1, s1
<1>6. next \in Node /\ next \notin In(t1)
  BY <1>1 DEF Suits
<1>7. In(t2) = In(t) \ {e}
  BY <1>1, <1>5 DEF Stands
<1>8. ASSUME next \in t.red PROVE \E b2 : Coloured(t2, b2, NULL, LEFT, NULL)
  <2> DEFINE b2 == [b EXCEPT ![next] = b[e]]
  <2>1. Level(t1, b, NULL, LEFT) /\ Calm(t1, NULL) /\ NULL # e
    BY <1>1, <1>2, <1>8, GoodBelow, SideFacts DEF Coloured
  <2>2. Level(t2, b2, NULL, LEFT) /\ Calm(t2, NULL)
    BY <1>1, <1>5, <1>6, <2>1, StandsColours
  <2>3. QED
    BY <2>2 DEF Coloured
<1>9. ASSUME next \notin t.red PROVE \E b2, s2 : Lacks(t2, b2, child, over, s2)
  <2> DEFINE b2 == [b EXCEPT ![next] = b[e]]
  <2>1. /\ Level(t1, b, p, s) /\ Calm(t1, child) /\ s \in Side
        /\ p \in In(t1) /\ t1.kid[s][p] = child
    BY <1>2, <1>4, <1>9 DEF Lacks
  <2>2. Level(t2, b2, over, s) /\ Calm(t2, child)
    BY <1>1, <1>4, <1>5, <1>6, <2>1, StandsColours
  <2>3. over \in In(t2) /\ t2.kid[s][over] = child /\ over # NULL
    <3>1. /\ In(t2) = (In(t1) \ {e}) \cup {next}
          /\ p1 # NULL => t1.kid[s1][p1] = e
          /\ \A m \in In(t1) \ {e}, f \in Side :
                t2.kid[f][m] = IF m = p1 /\ f = s1 THEN next ELSE t1.kid[f][m]
          /\ \A f \in Side : t2.kid[f][next] = t1.kid[f][e]
      BY <1>5 DEF Stands
    <3>2. CASE p = e
      BY <1>6, <2>1, <3>1, <3>2, SideFacts
    <3>3. CASE p # e
      <4>1. ~(p = p1 /\ s = s1)
        BY <1>4, <2>1, <3>1
      <4>2. QED
        BY <1>4, <2>1, <3>1, <3>3, <4>1
    <3>4. QED
      BY <3>2, <3>3
  <2> HIDE DEF b2, over
  <2>4. Lacks(t2, b2, child, over, s)
    BY <1>5, <2>1, <2>2, <2>3, Loosened DEF Lacks
  <2>5. QED
    BY <2>4
<1>10. QED
  BY <1>5, <1>7, <1>8, <1>9 DEF t2, child, p
-----------------------------------------------------------------------------
(* The invariant, and the properties that follow from it.                   *)

(* A set of numbers has a least one.                                        *)
LEMMA LeastNumber ==
  ASSUME NEW Q, Q \subseteq Nat, Q # {}
  PROVE  \E q \in Q : \A m \in Q : q <= m
<1> DEFINE R == OpToRel(<, Nat)
<1>1. IsWellFoundedOn(R, Nat)
  BY NatLessThanWellFounded
<1>2. \A x, y \in Nat : x < y => <<x, y>> \in R
  BY DEF OpToRel
<1> HIDE DEF R
<1>3. \E x \in Q : \A y \in Q : ~ (<<y, x>> \in R)
  BY <1>1, WFMin
<1>4. PICK q \in Q : \A y \in Q : ~ (<<y, q>> \in R)
  BY <1>3
<1>5. \A y \in Q : ~ (y < q)
  BY <1>2, <1>4
<1>6. \A y \in Q : q <= y
  BY <1>5
<1>7. QED
  BY <1>6

(* What is assigned to an element that is not in the tree does not matter.  *)
LEMMA ForgottenColours ==
  ASSUME NEW t, Good(t), NEW e \in Node, e \notin In(t)
  PROVE  LET t2 == Forget(t, e)
         IN  /\ Good(t2) /\ In(t2) = In(t)
             /\ \A b : Coloured(t, b, NULL, LEFT, NULL) => Coloured(t2, b, NULL, LEFT, NULL)
             /\ \A b, x, p, s : Lacks(t, b, x, p, s) => Lacks(t2, b, x, p, s)
<1> DEFINE t2 == Forget(t, e)
<1>1. /\ Good(t2) /\ In(t2) = In(t) /\ t2.red = t.red \ {e} /\ t2.root = t.root
      /\ \A m \in In(t) : /\ t2.parent[m] = t.parent[m]
                          /\ \A d \in Side : t2.kid[d][m] = t.kid[d][m]
  BY Forgotten
<1> HIDE DEF t2
<1>2. /\ NULL \notin t.red /\ t.root \in Pointer
      /\ \A m \in In(t) : m \in t2.red <=> m \in t.red
  BY <1>1, TypedFacts, SideFacts DEF Good
<1>3. ASSUME NEW b, NEW g, NEW s, Level(t, b, g, s)
      PROVE  Level(t2, b, g, s)
  <2>1. ASSUME NEW n \in In(t2), NEW d \in Side PROVE Even(t2, b, n, d, g, s)
    <3>1. /\ Even(t, b, n, d, g, s) /\ t2.kid[d][n] = t.kid[d][n]
          /\ (n \in t2.red <=> n \in t.red)
      BY <1>1, <1>2, <1>3, <2>1 DEF Level
    <3>2. QED
      BY <3>1, SameEven
  <2>2. QED
    BY <1>1, <1>3, <2>1 DEF Level
<1>4. ASSUME NEW n \in In(t2), NEW d \in Side, n \in t2.red, t2.kid[d][n] \in t2.red
      PROVE  n \in In(t) /\ n \in t.red /\ t2.kid[d][n] = t.kid[d][n] /\ t.kid[d][n] \in t.red
  BY <1>1, <1>2, <1>4
<1>5. ASSUME NEW x, Calm(t, x) PROVE Calm(t2, x)
  BY <1>1, <1>4, <1>5 DEF Calm
<1>6. ASSUME NEW x, Loose(t, x) PROVE Loose(t2, x)
  BY <1>1, <1>4, <1>6 DEF Loose
<1>7. ASSUME NEW b, NEW x, NEW p, NEW s, Lacks(t, b, x, p, s) PROVE Lacks(t2, b, x, p, s)
  BY <1>1, <1>3, <1>6, <1>7 DEF Lacks
<1>8. ASSUME NEW b, Coloured(t, b, NULL, LEFT, NULL) PROVE Coloured(t2, b, NULL, LEFT, NULL)
  BY <1>3, <1>5, <1>8 DEF Coloured
<1>9. QED
  BY <1>1, <1>7, <1>8 DEF t2

(* The counts that the colours come with are those of Blacks.               *)
LEMMA BlacksAre ==
  ASSUME NEW t, Good(t), NEW b, Coloured(t, b, NULL, LEFT, NULL)
  PROVE  \A n \in In(t) \cup {NULL} : Blacks(t)[n] = b[n]
<1> DEFINE S    == In(t) \cup {NULL}
           f    == Blacks(t)
           Step(g) == [n \in S |-> IF n = NULL THEN 0 ELSE g[t.kid[LEFT][n]] + Weight(t, n)]
           r(n) == 2 * b[n] + (IF n \in t.red THEN 1 ELSE 0)
<1>1. /\ b \in [Pointer -> Nat] /\ b[NULL] = 0 /\ NULL \notin In(t) /\ In(t) \subseteq Pointer
      /\ NULL \in Pointer /\ Calm(t, NULL) /\ NULL \notin t.red
      /\ \A n \in In(t) : Even(t, b, n, LEFT, NULL, LEFT) /\ t.kid[LEFT][n] \in S
  <2>1. \A n \in In(t) : t.kid[LEFT][n] \in S
    BY OnePlace, SideFacts
  <2>2. NULL \notin In(t) /\ In(t) \subseteq Pointer /\ NULL \in Pointer /\ NULL \notin t.red
    BY TypedFacts, ElementsAreNodes, SideFacts DEF In, Good, Pointer
  <2>3. QED
    BY <2>1, <2>2, SideFacts DEF Coloured, Level
<1>2. ASSUME NEW n \in In(t)
      PROVE  /\ b[n] \in Nat /\ b[t.kid[LEFT][n]] \in Nat /\ n # NULL
             /\ b[n] = b[t.kid[LEFT][n]] + Weight(t, n)
             /\ n \in t.red => b[n] = b[t.kid[LEFT][n]] /\ t.kid[LEFT][n] \notin t.red
             /\ n \notin t.red => b[n] = b[t.kid[LEFT][n]] + 1
  <2>1. /\ Even(t, b, n, LEFT, NULL, LEFT) /\ n # NULL /\ ~(n = NULL /\ LEFT = LEFT)
        /\ b[n] \in Nat /\ b[t.kid[LEFT][n]] \in Nat
    BY <1>1
  <2>2. /\ n \in t.red => b[n] = b[t.kid[LEFT][n]]
        /\ n \notin t.red => b[n] = b[t.kid[LEFT][n]] + 1
    BY <2>1, EvenFacts
  <2>3. n \in t.red => t.kid[LEFT][n] \notin t.red
    BY <1>1, SideFacts DEF Calm
  <2>4. b[n] = b[t.kid[LEFT][n]] + Weight(t, n)
    BY <2>1, <2>2 DEF Weight
  <2>5. QED
    BY <2>1, <2>2, <2>3, <2>4
<1>3. f = CHOOSE g : g = Step(g)
  BY DEF Blacks, In
<1>4. \E g : g = Step(g)
  <2> DEFINE h == [n \in S |-> b[n]]
  <2>1. \A n \in S : h[n] = IF n = NULL THEN 0 ELSE h[t.kid[LEFT][n]] + Weight(t, n)
    BY <1>1, <1>2
  <2>2. h = Step(h)
    BY <2>1
  <2>3. QED
    BY <2>2
<1>5. f = Step(f)
  BY <1>3, <1>4
<1> HIDE DEF f
<1>6. \A n \in S : f[n] = IF n = NULL THEN 0 ELSE f[t.kid[LEFT][n]] + Weight(t, n)
  BY <1>5
<1>7. SUFFICES ASSUME NEW z \in S, f[z] # b[z] PROVE FALSE
  BY DEF f
<1> DEFINE Wrong == {n \in S : f[n] # b[n]}
           Q     == {r(n) : n \in Wrong}
<1>8. \A n \in S : r(n) \in Nat
  BY <1>1
<1>9. PICK q \in Q : \A m \in Q : q <= m
  <2>1. Q \in SUBSET Nat /\ Q # {}
    BY <1>7, <1>8
  <2> HIDE DEF Q
  <2>2. QED
    BY <2>1, LeastNumber
<1>10. PICK n \in Wrong : \A m \in Wrong : r(n) <= r(m)
  BY <1>9
<1>11. n \in In(t) /\ n # NULL
  BY <1>1, <1>6, <1>10
<1> DEFINE v == t.kid[LEFT][n]
<1>12. f[n] = f[v] + Weight(t, n) /\ b[n] = b[v] + Weight(t, n) /\ v \in S
  BY <1>1, <1>2, <1>6, <1>11
<1>13. v \in Wrong
  BY <1>10, <1>12
<1>14. r(v) < r(n)
  <2>1. /\ b[n] \in Nat /\ b[v] \in Nat
        /\ n \in t.red => b[n] = b[v] /\ v \notin t.red
        /\ n \notin t.red => b[n] = b[v] + 1
    BY <1>2, <1>11
  <2>2. QED
    BY <2>1
<1>15. QED
  BY <1>8, <1>10, <1>12, <1>13, <1>14

(* A red element has a black parent, and both ways down from an element     *)
(* have as many black nodes.                                                *)
LEMMA ColouredIsBalanced ==
  ASSUME NEW t, Good(t), NEW b, Coloured(t, b, NULL, LEFT, NULL), NEW n \in In(t)
  PROVE  /\ Blacks(t)[t.kid[LEFT][n]] = Blacks(t)[t.kid[RIGHT][n]]
         /\ n \in t.red /\ n # t.root => t.parent[n] \notin t.red
<1>1. ASSUME NEW d \in Side
      PROVE  /\ Blacks(t)[t.kid[d][n]] = b[t.kid[d][n]]
             /\ b[n] = b[t.kid[d][n]] + Dark(t.red, n)
             /\ b[t.kid[d][n]] \in Nat
  <2>1. t.kid[d][n] \in In(t) \cup {NULL} /\ t.kid[d][n] \in Pointer /\ n \in Pointer /\ n # NULL
    BY OnePlace, GoodBelow, SideFacts DEF Pointer
  <2>2. Even(t, b, n, d, NULL, LEFT) /\ b[n] \in Nat /\ b[t.kid[d][n]] \in Nat
    BY <2>1 DEF Coloured, Level
  <2>3. ~(n = NULL /\ d = LEFT)
    BY <2>1
  <2>4. QED
    BY <2>1, <2>2, <2>3, EvenFacts, BlacksAre
<1>2. Dark(t.red, n) \in Nat
  BY DEF Dark
<1>3. Blacks(t)[t.kid[LEFT][n]] = Blacks(t)[t.kid[RIGHT][n]]
  <2> DEFINE l == b[t.kid[LEFT][n]]
             r == b[t.kid[RIGHT][n]]
             w == Dark(t.red, n)
  <2>1. b[n] = l + w /\ b[n] = r + w /\ l \in Nat /\ r \in Nat /\ w \in Nat
    BY <1>1, <1>2, SideFacts
  <2> HIDE DEF l, r, w
  <2>2. l = r
    BY <2>1
  <2>3. QED
    BY <1>1, <2>2, SideFacts DEF l, r
<1>4. n \in t.red /\ n # t.root => t.parent[n] \notin t.red
  BY ParentOf, SideFacts DEF Coloured, Calm
<1>5. QED
  BY <1>3, <1>4
-----------------------------------------------------------------------------
(* The inductive invariant: the pointers are right at every step, and the   *)
(* colours too but for what the call has still to make up for.              *)
Colours ==
    /\ pc \notin {"insert color", "remove color"} => \E b : Coloured(tree, b, NULL, LEFT, NULL)
    /\ pc = "insert color" => \E b : Ripe(tree, b, at)
    /\ pc = "remove color" => \E b, s : Lacks(tree, b, at, up, s)

Inv == Good(tree) /\ Walk /\ Colours

LEMMA InvFacts ==
  ASSUME Inv
  PROVE  /\ Good(tree) /\ tree.kid \in Memory /\ tree.root \in Pointer
         /\ SearchTree(tree.kid, tree.root) /\ Members = In(tree) /\ Members \subseteq Node
         /\ Calling /\ result \in Pointer
         /\ call[1] \in {"init", "min", "max", "insert", "find", "nfind", "next", "prev", "remove"}
         /\ call[1] \notin {"init", "min", "max"} => call[2] \in Node
<1>1. Good(tree) /\ Calling /\ result \in Pointer
  BY DEF Inv, Walk
<1>2. tree.kid \in Memory /\ tree.root \in Pointer /\ SearchTree(tree.kid, tree.root)
  BY <1>1, TypedFacts DEF Good, Rooted
<1>3. Members = In(tree) /\ Members \subseteq Node
  BY ElementsAreNodes DEF Members, In
<1>4. /\ call[1] \in {"init", "min", "max", "insert", "find", "nfind", "next", "prev", "remove"}
      /\ call[1] \notin {"init", "min", "max"} => call[2] \in Node
  BY <1>1 DEF Calling
<1>5. QED
  BY <1>1, <1>2, <1>3, <1>4

LEMMA InitInv == Init => Inv
<1>1. SUFFICES ASSUME Init PROVE Inv
  OBVIOUS
<1>2. tree = EmptyTree /\ tree.root = NULL /\ NoKids \in Memory /\ tree.red = {}
  BY <1>1 DEF Init, EmptyTree, NoKids, Memory, Pointer
<1>3. In(tree) = {} /\ Members = {}
  BY <1>2, NoElements DEF In, Members
<1>4. Good(tree)
  <2>1. Typed(tree)
    BY <1>2 DEF Typed, EmptyTree, Pointer
  <2>2. Rooted(tree, tree.root)
    BY <1>2, <1>3, NullTree DEF Rooted, In
  <2>3. QED
    BY <1>2, <2>1, <2>2 DEF Good
<1>5. Walk
  BY <1>1 DEF Init, Walk, Calling, Passed, Placing, Nearest, Stepping, Gone, Pointer
<1>6. Colours
  <2> DEFINE b == [n \in Pointer |-> 0]
  <2>1. b \in [Pointer -> Nat] /\ b[NULL] = 0
    BY DEF Pointer
  <2>2. Coloured(tree, b, NULL, LEFT, NULL)
    BY <1>2, <1>3, <2>1 DEF Coloured, Level, Calm
  <2>3. QED
    BY <1>1, <2>2 DEF Colours, Init
<1>7. QED
  BY <1>4, <1>5, <1>6 DEF Inv

(* A step that looks and does not touch the tree.                           *)
LEMMA AskingInv ==
  ASSUME Inv, tree' = tree, pc \notin {"insert color", "remove color"},
         pc' \notin {"insert color", "remove color"}, Walk'
  PROVE  Inv'
<1>1. \E b : Coloured(tree, b, NULL, LEFT, NULL)
  BY DEF Inv, Colours
<1>2. Colours'
  BY <1>1 DEF Colours
<1>3. QED
  BY <1>2 DEF Inv

LEMMA ReturnWalk ==
  ASSUME NEW n \in Pointer, Return(n), Calling
  PROVE  Walk'
<1>1. result' = n /\ pc' = "idle" /\ at' = NULL /\ up' = NULL /\ call' = call
  BY DEF Return
<1>2. Calling'
  BY <1>1 DEF Calling
<1>3. QED
  BY <1>1, <1>2 DEF Walk, Passed, Placing, Nearest, Stepping, Gone

LEMMA AnswerInv ==
  ASSUME Inv, NEW n \in Pointer, Return(n), Asks, pc \notin {"insert color", "remove color"}
  PROVE  Inv'
<1>1. Walk'
  BY ReturnWalk DEF Inv, Walk
<1>2. QED
  BY <1>1, AskingInv DEF Asks, Return

LEMMA CallsInv ==
  ASSUME Inv, Calls
  PROVE  Inv'
<1>1. /\ Good(tree) /\ tree.root \in Pointer /\ Members \subseteq Node /\ pc = "idle" /\ up = NULL
      /\ tree.root \in Members \cup {NULL} /\ Members = Below(tree.root)
  <2>1. pc = "idle"
    BY DEF Calls, Begin
  <2>2. tree.root # NULL => tree.root \in Members
    BY InvFacts, ElementsClosed DEF Members, Pointer
  <2>3. QED
    BY <2>1, <2>2, InvFacts DEF Inv, Walk, Members, Below
<1>2. tree' = tree /\ up' = up /\ result' = NULL
  BY DEF Calls, Begin
<1>3. Members' = Members /\ \A n : Below(n)' = Below(n)
  BY <1>2 DEF Members, Below
<1>4. \/ /\ call' \in ({"min", "max"} \X {NULL}) \cup ({"insert", "find", "nfind"} \X Node)
         /\ pc' = "down" /\ at' = tree.root
      \/ /\ call' \in {"next", "prev"} \X Node /\ pc' = "step" /\ call'[2] \in Members /\ at' = call'[2]
      \/ /\ call' \in {"remove"} \X Node /\ pc' = "remove" /\ call'[2] \in Members
  BY <1>1, UsesAssumption DEF Calls, Begin
<1>5. Calling'
  BY <1>3, <1>4 DEF Calling, Where
<1>6. Walk'
  BY <1>1, <1>2, <1>3, <1>4, <1>5
  DEF Walk, Passed, Placing, Nearest, Stepping, Gone, Pointer
<1>7. QED
  BY <1>1, <1>2, <1>4, <1>6, AskingInv
-----------------------------------------------------------------------------
(* All that a walk leaves behind is on the side that it has left.           *)
LEMMA LeftBehind ==
  ASSUME NEW t, Good(t), NEW n \in In(t), NEW d \in Side
  PROVE  LET v == t.kid[d][n]
         IN  /\ n \in Node /\ v \in In(t) \cup {NULL} /\ v \in Pointer
             /\ Elements(t.kid, v) \subseteq Elements(t.kid, n)
             /\ \A w \in Elements(t.kid, v) : w \in Node /\ Toward(Key[w], n) = d
             /\ \A z \in Elements(t.kid, n) \ Elements(t.kid, v) :
                   z \in Node /\ (z = n \/ Toward(Key[z], n) = Opp(d))
             /\ \A x \in Node : Toward(Key[x], n) = d =>
                   \A z \in Elements(t.kid, n) \ Elements(t.kid, v) : Toward(Key[x], z) = d
<1> DEFINE v == t.kid[d][n]
<1>1. /\ n \in Node /\ t.kid \in Memory /\ v \in Pointer /\ SearchTree(t.kid, n)
      /\ \A w \in Elements(t.kid, v) : w \in Node /\ Toward(Key[w], n) = d
  BY GoodBelow, TypedFacts, ElementsAreNodes DEF Good, Rooted
<1>2. v \in In(t) \cup {NULL}
  BY OnePlace
<1>3. Elements(t.kid, v) \subseteq Elements(t.kid, n)
  BY <1>1, TreeAtRoot
<1>4. ASSUME NEW z \in Elements(t.kid, n) \ Elements(t.kid, v)
      PROVE  z \in Node /\ (z = n \/ Toward(Key[z], n) = Opp(d))
  <2>1. Elements(t.kid, n) = {n} \cup Elements(t.kid, t.kid[LEFT][n]) \cup Elements(t.kid, t.kid[RIGHT][n])
    BY <1>1, ElementsUnfold
  <2>2. z = n \/ z \in Elements(t.kid, t.kid[Opp(d)][n])
    BY <1>4, <2>1, SideFacts DEF Side
  <2>3. \A y \in Elements(t.kid, t.kid[Opp(d)][n]) : Toward(Key[y], n) = Opp(d)
    BY <1>1, SideFacts, TreeAtRoot
  <2>4. QED
    BY <1>4, <2>2, <2>3, ElementsAreNodes
<1>5. ASSUME NEW x \in Node, Toward(Key[x], n) = d, NEW z \in Elements(t.kid, n) \ Elements(t.kid, v)
      PROVE  Toward(Key[x], z) = d
  <2>1. z \in Node /\ (z = n \/ Toward(Key[z], n) = Opp(d))
    BY <1>4, <1>5
  <2>2. CASE z = n
    BY <1>5, <2>2
  <2>3. CASE Toward(Key[z], n) = Opp(d)
    <3>1. Toward(Key[n], z) = d
      BY <1>1, <2>1, <2>3, TowardFacts, SideFacts
    <3>2. QED
      BY <1>1, <1>5, <2>1, <3>1, TowardTransitive
  <2>4. QED
    BY <2>1, <2>2, <2>3
<1>6. QED
  BY <1>1, <1>2, <1>3, <1>4, <1>5

(* One gets to n by way of where it hangs.                                  *)
LEMMA ByWayOf ==
  ASSUME NEW t, Good(t), NEW n \in In(t), NEW p \in Pointer, NEW s \in Side, Place(t, n, p, s),
         NEW m \in In(t), NEW d \in Side, n \in Elements(t.kid, t.kid[d][m])
  PROVE  p # NULL /\ ((m = p /\ d = s) \/ p \in Elements(t.kid, t.kid[d][m]))
<1> DEFINE v == t.kid[d][m]
<1>1. t.kid \in Memory /\ v \in Pointer /\ Elements(t.kid, v) \subseteq In(t) /\ m \notin Elements(t.kid, v)
      /\ n \in Node /\ n # NULL /\ m # NULL
  BY GoodBelow, TypedFacts, SideFacts DEF Good
<1>2. p # NULL
  <2>1. SUFFICES ASSUME p = NULL PROVE FALSE
    OBVIOUS
  <2>2. n = t.root
    BY <2>1 DEF Place
  <2>3. Elements(t.kid, n) \subseteq Elements(t.kid, v)
    BY <1>1, ElementsBelow
  <2>4. QED
    BY <1>1, <2>2, <2>3 DEF In
<1>3. t.parent[n] = p /\ SideOf(t, n, p) = s /\ n # t.root
  BY <1>1, <1>2, OnePlace DEF Place
<1>4. CASE n = v
  BY <1>1, <1>3, <1>4, OnePlace
<1>5. CASE n # v
  <2>1. PICK m2 \in Elements(t.kid, v), d2 \in Side : t.kid[d2][m2] = n
    BY <1>1, <1>5, HasParent
  <2>2. t.parent[n] = m2
    BY <1>1, <2>1, OnePlace
  <2>3. QED
    BY <1>2, <1>3, <2>1, <2>2
<1>6. QED
  BY <1>2, <1>4, <1>5

LEMMA DownFacts ==
  ASSUME Inv, NEW d \in Side, Down(d)
  PROVE  /\ at \in Members /\ at \in Node /\ Turn(at) = d
         /\ tree' = tree /\ pc = "down" /\ pc' = "down" /\ call' = call /\ result' = result
         /\ at' = tree.kid[d][at] /\ at' \in Members \cup {NULL}
         /\ up' = IF call[1] = "nfind" /\ d = RIGHT THEN up ELSE at
         /\ Members' = Members /\ \A n : Below(n)' = Below(n) /\ Turn(n)' = Turn(n)
         /\ Below(at') \subseteq Below(at)
         /\ call[1] \in {"min", "max", "insert", "find", "nfind"}
<1>1. at \in Members /\ pc = "down" /\ Calling
  BY DEF Inv, Walk, Down
<1>2. /\ tree' = tree /\ pc' = "down" /\ call' = call /\ result' = result /\ Turn(at) = d
      /\ at' = tree.kid[d][at]
      /\ up' = IF call[1] = "nfind" /\ d = RIGHT THEN up ELSE at
  BY DEF Down, Go, Asks
<1>3. Members' = Members /\ \A n : Below(n)' = Below(n) /\ Turn(n)' = Turn(n)
  BY <1>2 DEF Members, Below, Turn
<1>4. call[1] \in {"min", "max", "insert", "find", "nfind"}
  BY <1>1 DEF Calling, Where
<1>5. at \in In(tree) /\ Good(tree) /\ Members = In(tree)
  BY <1>1, InvFacts
<1>6. at \in Node /\ at' \in Members \cup {NULL} /\ Below(at') \subseteq Below(at)
  BY <1>2, <1>5, LeftBehind DEF Below
<1>7. QED
  BY <1>1, <1>2, <1>3, <1>4, <1>6

LEMMA DownPassed ==
  ASSUME Inv, NEW d \in Side, Down(d), call[1] \in {"insert", "find", "nfind"}
  PROVE  \A z \in Members \ Below(at') : Turn(z) # HERE
<1>1. /\ at \in In(tree) /\ Good(tree) /\ call[2] \in Node /\ at' = tree.kid[d][at]
      /\ Turn(at) = d /\ pc = "down"
      /\ \A z : Turn(z) = Toward(Key[call[2]], z)
  BY DownFacts, InvFacts DEF Turn
<1>2. \A z \in Members \ Below(at) : Turn(z) # HERE
  BY <1>1 DEF Inv, Walk, Passed
<1>3. \A z \in Below(at) \ Below(at') : Turn(z) = d
  BY <1>1, LeftBehind DEF Below
<1>4. QED
  BY <1>2, <1>3, SideFacts

LEMMA DownPlacing ==
  ASSUME Inv, NEW d \in Side, Down(d), call[1] = "insert"
  PROVE  \A m \in Members, f \in Side : at \in Below(tree.kid[f][m]) => Turn(m) = f
<1>1. /\ at \in In(tree) /\ Good(tree) /\ Members = In(tree) /\ pc = "down"
  BY DownFacts, InvFacts
<1>2. IF up = NULL THEN at = tree.root
      ELSE /\ up \in Members /\ Turn(up) \in Side /\ tree.kid[Turn(up)][up] = at
           /\ \A m \in Members, f \in Side : up \in Below(tree.kid[f][m]) => Turn(m) = f
  BY <1>1 DEF Inv, Walk, Placing
<1>3. SUFFICES ASSUME NEW m \in Members, NEW f \in Side, at \in Below(tree.kid[f][m])
               PROVE  Turn(m) = f
  OBVIOUS
<1> DEFINE s == IF up = NULL THEN LEFT ELSE Turn(up)
<1>4. s \in Side /\ Place(tree, at, up, s) /\ up \in Pointer
  BY <1>1, <1>2, InvFacts, SideFacts DEF Place, Pointer
<1> HIDE DEF s
<1>5. m \in In(tree) /\ at \in Elements(tree.kid, tree.kid[f][m])
  BY <1>1, <1>3 DEF Below
<1>6. up # NULL /\ ((m = up /\ f = s) \/ up \in Elements(tree.kid, tree.kid[f][m]))
  BY <1>1, <1>4, <1>5, ByWayOf
<1>7. QED
  BY <1>2, <1>6 DEF s, Below

LEMMA DownNearest ==
  ASSUME Inv, NEW d \in Side, Down(d), call[1] \in {"min", "max", "nfind"},
         NEW b, b = IF call[1] = "max" THEN RIGHT ELSE LEFT
  PROVE  /\ up' # NULL => /\ up' \in Members /\ Turn(up') = b
                          /\ \A w \in Below(at') : Toward(Key[w], up') = b
         /\ \A z \in Members \ Below(at') :
               \/ Turn(z) = Opp(b)
               \/ up' # NULL /\ (z = up' \/ Toward(Key[z], up') = Opp(b))
<1>1. /\ at \in In(tree) /\ Good(tree) /\ Members = In(tree) /\ pc = "down" /\ at \in Node
      /\ at' = tree.kid[d][at] /\ Turn(at) = d /\ Members \subseteq Node
      /\ up' = IF call[1] = "nfind" /\ d = RIGHT THEN up ELSE at
      /\ Below(at') \subseteq Below(at)
  BY DownFacts, InvFacts
<1>2. /\ up # NULL => /\ up \in Members /\ Turn(up) = b
                      /\ \A w \in Below(at) : Toward(Key[w], up) = b
      /\ \A z \in Members \ Below(at) :
            \/ Turn(z) = Opp(b)
            \/ up # NULL /\ (z = up \/ Toward(Key[z], up) = Opp(b))
  BY <1>1 DEF Inv, Walk, Nearest
<1>3. b \in Side /\ (d = b \/ (call[1] = "nfind" /\ b = LEFT /\ d = RIGHT /\ d = Opp(b)))
  BY <1>1, SideFacts DEF Turn, Side
<1>4. /\ \A w \in Below(at') : w \in Node /\ Toward(Key[w], at) = d
      /\ \A z \in Below(at) \ Below(at') : z = at \/ Toward(Key[z], at) = Opp(d)
  BY <1>1, LeftBehind DEF Below
<1>5. at \in Below(at) /\ at # NULL
  <2>1. tree.kid \in Memory
    BY InvFacts
  <2>2. QED
    BY <1>1, <2>1, ElementsClosed, SideFacts DEF Below
<1>6. CASE d = b
  <2>1. up' = at
    BY <1>1, <1>3, <1>6, SideFacts
  <2>2. ASSUME NEW z \in Members \ Below(at')
        PROVE  Turn(z) = Opp(b) \/ z = at \/ Toward(Key[z], at) = Opp(b)
    <3>1. CASE z \in Below(at)
      BY <1>4, <1>6, <2>2, <3>1
    <3>2. CASE z \notin Below(at) /\ Turn(z) # Opp(b)
      <4>1. up \in Node /\ (z = up \/ Toward(Key[z], up) = Opp(b)) /\ Toward(Key[at], up) = b
        BY <1>1, <1>2, <1>5, <2>2, <3>2
      <4>2. Toward(Key[up], at) = Opp(b)
        BY <1>1, <1>3, <4>1, TowardFacts
      <4>3. CASE z = up
        BY <4>2, <4>3
      <4>4. CASE Toward(Key[z], up) = Opp(b)
        BY <1>1, <1>3, <2>2, <4>1, <4>2, <4>4, SideFacts, TowardTransitive
      <4>5. QED
        BY <4>1, <4>3, <4>4
    <3>3. QED
      BY <3>1, <3>2
  <2>3. QED
    BY <1>1, <1>4, <1>5, <1>6, <2>1, <2>2
<1>7. CASE call[1] = "nfind" /\ b = LEFT /\ d = RIGHT /\ d = Opp(b)
  <2>1. up' = up /\ call[2] \in Node /\ \A z : Turn(z) = Toward(Key[call[2]], z)
    BY <1>1, <1>7, InvFacts DEF Turn
  <2>2. \A z \in Below(at) \ Below(at') : Turn(z) = d
    BY <1>1, <2>1, LeftBehind DEF Below
  <2>3. QED
    BY <1>1, <1>2, <1>7, <2>1, <2>2
<1>8. QED
  BY <1>3, <1>6, <1>7

LEMMA DownInv ==
  ASSUME Inv, NEW d \in Side, Down(d)
  PROVE  Inv'
<1>1. /\ at \in Members /\ at \in Node /\ Turn(at) = d
      /\ tree' = tree /\ pc = "down" /\ pc' = "down" /\ call' = call /\ result' = result
      /\ at' = tree.kid[d][at] /\ at' \in Members \cup {NULL}
      /\ up' = IF call[1] = "nfind" /\ d = RIGHT THEN up ELSE at
      /\ Members' = Members /\ \A n : Below(n)' = Below(n) /\ Turn(n)' = Turn(n)
  BY DownFacts
<1>2. Calling'
  BY <1>1 DEF Inv, Walk, Calling
<1>3. Passed'
  <2>1. SUFFICES ASSUME call[1] \in {"insert", "find", "nfind"}
                 PROVE  \A z \in Members \ Below(at') : Turn(z) # HERE
    BY <1>1 DEF Passed, Members, Below, Turn
  <2>2. QED
    BY <2>1, DownPassed
<1>4. Placing'
  <2>1. SUFFICES ASSUME call[1] = "insert"
                 PROVE  /\ up' # NULL /\ up' \in Members /\ Turn(up') \in Side
                        /\ tree.kid[Turn(up')][up'] = at'
                        /\ \A m \in Members, f \in Side : up' \in Below(tree.kid[f][m]) => Turn(m) = f
    BY <1>1 DEF Placing, Members, Below, Turn
  <2>2. up' = at /\ at # NULL
    BY <1>1, <2>1, SideFacts
  <2>3. QED
    BY <1>1, <2>1, <2>2, DownPlacing
<1>5. Nearest'
  <2> DEFINE b == IF call[1] = "max" THEN RIGHT ELSE LEFT
  <2>1. SUFFICES ASSUME call[1] \in {"min", "max", "nfind"}
                 PROVE  /\ up' # NULL => /\ up' \in Members /\ Turn(up') = b
                                         /\ \A w \in Below(at') : Toward(Key[w], up') = b
                        /\ \A z \in Members \ Below(at') :
                              \/ Turn(z) = Opp(b)
                              \/ up' # NULL /\ (z = up' \/ Toward(Key[z], up') = Opp(b))
    BY <1>1 DEF Nearest, Members, Below, Turn
  <2>2. QED
    BY <2>1, DownNearest
<1>6. result' \in Pointer
  BY <1>1, InvFacts
<1>7. Walk'
  BY <1>1, <1>2, <1>3, <1>4, <1>5, <1>6 DEF Walk, Stepping, Gone
<1>8. QED
  BY <1>1, <1>7, AskingInv

LEMMA MissedInv ==
  ASSUME Inv, Missed
  PROVE  Inv' /\ Return(IF call[1] = "find" THEN NULL ELSE up) /\ pc = "down"
<1> DEFINE n == IF call[1] = "find" THEN NULL ELSE up
<1>1. pc = "down" /\ at = NULL /\ call[1] \in {"min", "max", "nfind", "find"} /\ Return(n) /\ Asks
  BY DEF Missed, Inv, Walk, Calling, Where
<1>2. n \in Pointer
  BY <1>1, InvFacts DEF Inv, Walk, Nearest, Pointer
<1> HIDE DEF n
<1>3. Inv'
  BY <1>1, <1>2, AnswerInv
<1>4. QED
  BY <1>1, <1>3 DEF n

LEMMA FoundInv ==
  ASSUME Inv, Found
  PROVE  Inv' /\ Return(at) /\ pc = "down" /\ at \in Members /\ Turn(at) = HERE
<1>1. pc = "down" /\ at \in Members /\ Return(at) /\ Asks /\ Turn(at) = HERE
  BY DEF Found, Inv, Walk
<1>2. at \in Pointer
  BY <1>1, InvFacts DEF Pointer
<1>3. Inv'
  BY <1>1, <1>2, AnswerInv
<1>4. QED
  BY <1>1, <1>3
-----------------------------------------------------------------------------
(* RB_INSERT: the walk has found the place.                                 *)
LEMMA InsertInv ==
  ASSUME Inv, Insert
  PROVE  /\ Inv' /\ call' = call /\ result' = result /\ pc = "down" /\ pc' = "insert color"
         /\ call[2] \notin Members /\ Members' = Members \cup {call[2]}
<1> DEFINE e == call[2]
           s == IF up = NULL THEN LEFT ELSE Turn(up)
<1>1. /\ pc = "down" /\ at = NULL /\ call[1] = "insert" /\ tree' = Attach(tree, e, up)
      /\ pc' = "insert color" /\ at' = e /\ up' = NULL /\ call' = call /\ result' = result
  BY DEF Insert, Go
<1>2. /\ Good(tree) /\ Members = In(tree) /\ Members \subseteq Node /\ Calling /\ result \in Pointer
      /\ e \in Node /\ \A z : Turn(z) = Toward(Key[e], z)
  BY <1>1, InvFacts DEF Turn
<1>3. e \notin Members
  <2>1. \A z \in Members : Turn(z) # HERE
    BY <1>1, NoElements DEF Inv, Walk, Passed, Below
  <2>2. QED
    BY <1>2, <2>1, TowardFacts
<1>4. /\ up \in Pointer /\ s \in Side /\ Place(tree, NULL, up, s)
      /\ up # NULL => s = Toward(Key[e], up)
      /\ \A m \in In(tree), d \in Side : Leads(tree, m, d, up, s) => Toward(Key[e], m) = d
  <2>1. IF up = NULL THEN tree.root = NULL
        ELSE /\ up \in Members /\ Turn(up) \in Side /\ tree.kid[Turn(up)][up] = NULL
             /\ \A m \in Members, d \in Side : up \in Below(tree.kid[d][m]) => Turn(m) = d
    BY <1>1 DEF Inv, Walk, Placing
  <2>2. CASE up = NULL
    BY <2>1, <2>2, NoElements, SideFacts DEF Place, Pointer, In
  <2>3. CASE up # NULL
    BY <1>2, <2>1, <2>3 DEF Place, Pointer, Leads, Below
  <2>4. QED
    BY <2>2, <2>3
<1> HIDE DEF s, e
<1>5. /\ Good(tree') /\ In(tree') = In(tree) \cup {e}
  <2>1. Good(tree) /\ e \in Node /\ e \notin In(tree)
    BY <1>2, <1>3
  <2>2. LET t2 == Attach(tree, e, up) IN Good(t2) /\ In(t2) = In(tree) \cup {e}
    BY <1>4, <2>1, Attached
  <2>3. QED
    BY <1>1, <2>2
<1>6. \E b : Ripe(tree', b, e)
  <2>1. PICK b : Coloured(tree, b, NULL, LEFT, NULL)
    BY <1>1 DEF Inv, Colours
  <2>2. QED
    BY <1>1, <1>2, <1>3, <1>4, <2>1, AttachedColours
<1>7. Members' = Members \cup {e}
  BY <1>2, <1>5 DEF Members, In
<1>8. Walk'
  BY <1>1, <1>2, <1>7 DEF Walk, Calling, Where, Passed, Placing, Nearest, Stepping, Gone, e
<1>9. Colours'
  BY <1>1, <1>6 DEF Colours
<1>10. QED
  BY <1>1, <1>3, <1>5, <1>7, <1>8, <1>9 DEF Inv, e
-----------------------------------------------------------------------------
(* RB_NEXT, RB_PREV, and the walk of RB_REMOVE to the next element.         *)
LEMMA StepFacts ==
  ASSUME Inv, pc \in {"step", "extreme", "climb", "remove"}
  PROVE  /\ call[2] \in Members /\ call[2] \in In(tree) /\ call[2] \in Node /\ Beyond \in Side
         /\ Good(tree) /\ tree.kid \in Memory /\ tree.kid[Beyond][call[2]] \in Pointer
         /\ call[2] \in Below(call[2])
         /\ pc \in {"step", "climb"} => call[1] \in {"next", "prev"}
         /\ pc = "extreme" => call[1] \in {"next", "prev", "remove"}
         /\ pc = "remove" => call[1] = "remove"
         /\ pc # "remove" => at \in Members
<1>1. call[2] \in Members /\ (pc # "remove" => at \in Members) /\ Calling
  BY DEF Inv, Walk, Calling
<1>2. /\ pc \in {"step", "climb"} => call[1] \in {"next", "prev"}
      /\ pc = "extreme" => call[1] \in {"next", "prev", "remove"}
      /\ pc = "remove" => call[1] = "remove"
  BY <1>1 DEF Calling, Where
<1>3. Good(tree) /\ tree.kid \in Memory /\ call[2] \in Node /\ call[2] \in In(tree) /\ Beyond \in Side
  BY <1>1, InvFacts, SideFacts DEF Beyond
<1>4. tree.kid[Beyond][call[2]] \in Pointer
  BY <1>3, GoodBelow
<1>5. call[2] \in Below(call[2])
  BY <1>3, ElementsClosed DEF Below
<1>6. QED
  BY <1>1, <1>2, <1>3, <1>4, <1>5

LEMMA GoInv ==
  ASSUME Inv, NEW where \in {"extreme", "climb"}, NEW n \in Members, NEW p, Go(where, n, p), Asks,
         pc \in {"step", "extreme", "climb", "remove"},
         where = "climb" => call[1] \in {"next", "prev"},
         where = "extreme" =>
            /\ n \in Below(tree.kid[Beyond][call[2]])
            /\ \A z \in Below(tree.kid[Beyond][call[2]]) : z \in Below(n) \/ Toward(Key[z], n) = Beyond,
         where = "climb" => call[2] \in Below(n) /\ \A z \in Below(n) : Toward(Key[z], call[2]) # Beyond
  PROVE  Inv'
<1>1. /\ tree' = tree /\ pc' = where /\ at' = n /\ call' = call /\ result' = result
  BY DEF Go, Asks
<1>2. Members' = Members /\ Beyond' = Beyond /\ \A m : Below(m)' = Below(m)
  BY <1>1 DEF Members, Beyond, Below
<1>3. Calling /\ result \in Pointer /\ call[2] \in Members
  BY StepFacts DEF Inv, Walk
<1>4. Calling'
  BY <1>1, <1>2, <1>3, StepFacts DEF Calling, Where
<1>5. Stepping'
  BY <1>1, <1>2 DEF Stepping, Below, Beyond
<1>6. Walk'
  BY <1>1, <1>2, <1>3, <1>4, <1>5 DEF Walk, Passed, Placing, Nearest, Gone
<1>7. QED
  BY <1>1, <1>6, AskingInv

(* The nearest element beyond e: in the tree that hangs from e on that side,*)
(* or above.                                                                *)
LEMMA BeyondAll ==
  ASSUME NEW t, Good(t), NEW e \in In(t), NEW d \in Side,
         NEW n \in Elements(t.kid, t.kid[d][e]),
         \A z \in Elements(t.kid, t.kid[d][e]) : z = n \/ Toward(Key[z], n) = d
  PROVE  /\ n \in In(t) /\ Toward(Key[n], e) = d
         /\ \A z \in In(t) : Toward(Key[z], e) = d => z = n \/ Toward(Key[z], n) = d
<1>1. /\ t.kid \in Memory /\ t.root \in Pointer /\ SearchTree(t.kid, t.root) /\ e \in Node
      /\ SearchTree(t.kid, e) /\ e \in Elements(t.kid, e) /\ n \in In(t) /\ Toward(Key[n], e) = d
      /\ n \in Elements(t.kid, e)
  <2>1. t.kid \in Memory /\ t.root \in Pointer /\ SearchTree(t.kid, t.root) /\ e \in Node
        /\ SearchTree(t.kid, e)
    BY TypedFacts, GoodBelow DEF Good, Rooted
  <2>2. n \in In(t) /\ Toward(Key[n], e) = d
    BY GoodBelow
  <2>3. n \in Elements(t.kid, e) /\ e \in Elements(t.kid, e)
    BY <2>1, TreeAtRoot, ElementsClosed
  <2>4. QED
    BY <2>1, <2>2, <2>3
<1>2. ASSUME NEW z \in In(t), Toward(Key[z], e) = d PROVE z = n \/ Toward(Key[z], n) = d
  <2>1. CASE z \in Elements(t.kid, e)
    BY <1>1, <1>2, <2>1, SideOfRoot
  <2>2. CASE z \notin Elements(t.kid, e)
    <3>1. PICK f \in Side : \A w \in Elements(t.kid, e) : Toward(Key[z], w) = f
      BY <1>1, <1>2, <2>2, Outside DEF In
    <3>2. QED
      BY <1>1, <1>2, <3>1
  <2>3. QED
    BY <2>1, <2>2
<1>3. QED
  BY <1>1, <1>2

LEMMA AboveAll ==
  ASSUME NEW t, Good(t), NEW e \in In(t), NEW d \in Side, NEW n \in In(t),
         e \in Elements(t.kid, n), \A z \in Elements(t.kid, n) : Toward(Key[z], e) # d,
         NEW p, p = t.parent[n]
  PROVE  /\ p = NULL => \A z \in In(t) : Toward(Key[z], e) # d
         /\ p # NULL /\ t.kid[d][p] # n =>
               /\ p \in In(t) /\ Toward(Key[p], e) = d
               /\ \A z \in In(t) : Toward(Key[z], e) = d => z = p \/ Toward(Key[z], p) = d
         /\ p # NULL /\ t.kid[d][p] = n =>
               /\ p \in In(t) /\ e \in Elements(t.kid, p)
               /\ \A z \in Elements(t.kid, p) : Toward(Key[z], e) # d
<1>1. /\ t.kid \in Memory /\ t.root \in Pointer /\ SearchTree(t.kid, t.root) /\ e \in Node
  BY TypedFacts, GoodBelow DEF Good, Rooted
<1>2. CASE p = NULL
  <2>1. n = t.root
    BY <1>2, ParentOf
  <2>2. QED
    BY <1>2, <2>1 DEF In
<1>3. CASE p # NULL
  <2> DEFINE s == SideOf(t, n, p)
  <2>1. p \in In(t) /\ p \in Node /\ s \in Side /\ t.kid[s][p] = n
    BY <1>3, ParentOf
  <2> HIDE DEF s
  <2>2. /\ Toward(Key[e], p) = s /\ e \in Elements(t.kid, p) /\ p \in Elements(t.kid, p)
        /\ SearchTree(t.kid, p)
        /\ \A z \in Elements(t.kid, p) \ Elements(t.kid, n) :
              z \in Node /\ (z = p \/ Toward(Key[z], p) = Opp(s))
    <3>1. SearchTree(t.kid, p) /\ p \in Elements(t.kid, p)
      BY <1>1, <2>1, GoodBelow, ElementsClosed DEF Rooted
    <3>2. /\ Elements(t.kid, n) \subseteq Elements(t.kid, p)
          /\ \A w \in Elements(t.kid, n) : Toward(Key[w], p) = s
          /\ \A z \in Elements(t.kid, p) \ Elements(t.kid, n) :
                z \in Node /\ (z = p \/ Toward(Key[z], p) = Opp(s))
      <4> DEFINE v == t.kid[s][p]
      <4>1. /\ Elements(t.kid, v) \subseteq Elements(t.kid, p)
            /\ \A w \in Elements(t.kid, v) : Toward(Key[w], p) = s
            /\ \A z \in Elements(t.kid, p) \ Elements(t.kid, v) :
                  z \in Node /\ (z = p \/ Toward(Key[z], p) = Opp(s))
        <5>1. p \in In(t) /\ s \in Side /\ Good(t)
          BY <2>1
        <5>2. QED
          BY ONLY <5>1, LeftBehind
      <4>2. v = n
        BY <2>1
      <4> HIDE DEF v
      <4>3. QED
        BY <4>1, <4>2
    <3>3. QED
      BY <3>1, <3>2
  <2>3. Toward(Key[p], e) = Opp(s)
    BY <1>1, <2>1, <2>2, TowardFacts
  <2>4. CASE s = d
    <3>1. ASSUME NEW z \in Elements(t.kid, p) PROVE Toward(Key[z], e) # d
      <4>1. CASE z \in Elements(t.kid, n)
        BY <4>1
      <4>2. CASE z = p
        BY <2>1, <2>3, <2>4, <4>2, SideFacts
      <4>3. CASE z \in Node /\ Toward(Key[z], p) = Opp(s)
        <5>1. Toward(Key[z], e) = Opp(s)
          BY <1>1, <2>1, <2>3, <4>3, TowardTransitive, SideFacts
        <5>2. QED
          BY <2>1, <2>4, <5>1, SideFacts
      <4>4. QED
        BY <2>2, <3>1, <4>1, <4>2, <4>3
    <3>2. QED
      BY <1>3, <2>1, <2>2, <2>4, <3>1
  <2>5. CASE s # d
    <3>1. d = Opp(s) /\ Toward(Key[p], e) = d /\ t.kid[d][p] # n
      <4>1. d = Opp(s)
        BY <2>1, <2>5, SideFacts
      <4>2. n \in Node /\ n # NULL /\ SideOf(t, n, p) = s
        BY <2>1, GoodBelow, SideFacts DEF s
      <4>3. t.kid[d][p] = n => SideOf(t, n, p) = d
        BY <2>1, <4>2, OnePlace
      <4>4. QED
        BY <2>3, <2>5, <4>1, <4>2, <4>3
    <3>2. ASSUME NEW z \in In(t), Toward(Key[z], e) = d PROVE z = p \/ Toward(Key[z], p) = d
      <4>1. CASE z \in Elements(t.kid, p)
        BY <2>2, <3>1, <3>2, <4>1
      <4>2. CASE z \notin Elements(t.kid, p)
        <5>1. PICK f \in Side : \A w \in Elements(t.kid, p) : Toward(Key[z], w) = f
          BY <1>1, <2>1, <3>2, <4>2, Outside DEF In
        <5>2. QED
          BY <2>2, <3>2, <5>1
      <4>3. QED
        BY <4>1, <4>2
    <3>3. QED
      BY <1>3, <2>1, <3>1, <3>2
  <2>6. QED
    BY <2>4, <2>5
<1>4. QED
  BY <1>2, <1>3

LEMMA NeighbourInv ==
  ASSUME Inv, Neighbour
  PROVE  Inv' /\ call' = call /\ result' = result /\ pc = "step" /\ pc' \in {"extreme", "climb"}
<1> DEFINE e == call[2]
           n == tree.kid[Beyond][e]
<1>1. pc = "step" /\ at = e /\ Asks
      /\ IF n # NULL THEN Go("extreme", n, NULL) ELSE Go("climb", e, NULL)
  BY DEF Neighbour, Inv, Walk, Stepping
<1>2. /\ e \in In(tree) /\ Good(tree) /\ e \in Node /\ Beyond \in Side /\ e \in Below(e) /\ n \in Pointer
      /\ tree.kid \in Memory /\ call[1] \in {"next", "prev"} /\ Members = In(tree)
  BY <1>1, StepFacts, InvFacts
<1>3. CASE n # NULL
  <2>1. n \in Members /\ n \in Below(n)
    BY <1>2, <1>3, OnePlace, ElementsClosed DEF Below
  <2>2. Inv'
    BY <1>1, <1>2, <1>3, <2>1, GoInv
  <2>3. QED
    BY <1>1, <1>3, <2>2 DEF Go
<1>4. CASE n = NULL
  <2>1. \A z \in Below(e) : Toward(Key[z], e) # Beyond
    <3>1. \A z \in Below(e) : Toward(Key[z], e) = Beyond => z \in Elements(tree.kid, n)
      BY <1>2, SideOfRoot, GoodBelow DEF Below, Rooted
    <3>2. QED
      BY <1>4, <3>1, NoElements
  <2>2. Inv'
    BY <1>1, <1>2, <1>4, <2>1, GoInv
  <2>3. QED
    BY <1>1, <1>4, <2>2 DEF Go
<1>5. QED
  BY <1>3, <1>4

LEMMA ExtremeInv ==
  ASSUME Inv, Extreme
  PROVE  Inv' /\ call' = call /\ result' = result /\ pc = "extreme" /\ pc' = "extreme"
<1> DEFINE e    == call[2]
           n    == tree.kid[Opp(Beyond)][at]
           side == Below(tree.kid[Beyond][e])
<1>1. pc = "extreme" /\ n # NULL /\ Go("extreme", n, NULL) /\ Asks
  BY DEF Extreme
<1>2. /\ e \in In(tree) /\ Good(tree) /\ e \in Node /\ Beyond \in Side /\ at \in In(tree)
      /\ tree.kid \in Memory /\ tree.kid[Beyond][e] \in Pointer /\ Members = In(tree)
  BY <1>1, StepFacts, InvFacts
<1>3. at \in side /\ \A z \in side : z \in Below(at) \/ Toward(Key[z], at) = Beyond
  BY <1>1 DEF Inv, Walk, Stepping
<1>4. /\ at \in Node /\ n \in In(tree) \cup {NULL}
      /\ \A w \in Below(n) : w \in Node /\ Toward(Key[w], at) = Opp(Beyond)
      /\ \A z \in Below(at) \ Below(n) : z \in Node /\ (z = at \/ Toward(Key[z], at) = Opp(Opp(Beyond)))
  BY <1>2, LeftBehind, SideFacts DEF Below
<1>5. n \in Members /\ n \in Node /\ n \in Below(n)
  BY <1>1, <1>2, <1>4, GoodBelow, ElementsClosed DEF Below
<1>6. n \in side
  <2>1. Closed(tree.kid, side)
    BY <1>2, <1>3, NoElements, ElementsClosed DEF Below, Pointer
  <2>2. QED
    BY <1>1, <1>2, <1>3, <2>1, SideFacts DEF Closed
<1>7. Toward(Key[at], n) = Beyond
  BY <1>2, <1>4, <1>5, TowardFacts, SideFacts
<1>8. ASSUME NEW z \in side PROVE z \in Below(n) \/ Toward(Key[z], n) = Beyond
  <2>1. z \in Node
    BY <1>8, ElementsAreNodes DEF Below
  <2>2. z \in Below(n) \/ z = at \/ Toward(Key[z], at) = Beyond
    BY <1>2, <1>3, <1>4, <1>8, SideFacts
  <2>3. QED
    BY <1>2, <1>4, <1>5, <1>7, <2>1, <2>2, TowardTransitive
<1> HIDE DEF n
<1>9. Inv'
  BY <1>1, <1>5, <1>6, <1>8, GoInv
<1>10. QED
  BY <1>1, <1>9 DEF Go

(* Where the walk ends, nothing lies between e and the element there.       *)
LEMMA ExtremeEnds ==
  ASSUME Inv, pc = "extreme", tree.kid[Opp(Beyond)][at] = NULL
  PROVE  /\ at \in Elements(tree.kid, tree.kid[Beyond][call[2]])
         /\ \A z \in Elements(tree.kid, tree.kid[Beyond][call[2]]) :
               z = at \/ Toward(Key[z], at) = Beyond
<1>1. Beyond \in Side /\ at \in In(tree) /\ Good(tree)
  BY StepFacts, InvFacts
<1>2. /\ at \in Below(tree.kid[Beyond][call[2]])
      /\ \A z \in Below(tree.kid[Beyond][call[2]]) :
            z \in Below(at) \/ Toward(Key[z], at) = Beyond
  BY DEF Inv, Walk, Stepping
<1>3. Opp(Beyond) \in Side /\ Opp(Opp(Beyond)) = Beyond
  BY <1>1, SideFacts
<1>4. \A z \in Below(at) \ Elements(tree.kid, NULL) : z = at \/ Toward(Key[z], at) = Beyond
  BY <1>1, <1>3, LeftBehind DEF Below
<1>5. QED
  BY <1>2, <1>4, NoElements DEF Below

LEMMA ExtremeFoundInv ==
  ASSUME Inv, ExtremeFound
  PROVE  Inv'
<1>1. pc = "extreme" /\ Return(at) /\ Asks /\ at \in Pointer
  BY StepFacts, InvFacts DEF ExtremeFound, Pointer
<1>2. QED
  BY <1>1, AnswerInv

LEMMA ClimbFacts ==
  ASSUME Inv, Climb, NEW p, p = tree.parent[at]
  PROVE  /\ pc = "climb" /\ call[1] \in {"next", "prev"} /\ p \in Pointer
         /\ p = NULL => \A z \in In(tree) : Toward(Key[z], call[2]) # Beyond
         /\ p # NULL /\ tree.kid[Beyond][p] # at =>
               /\ p \in In(tree) /\ Toward(Key[p], call[2]) = Beyond
               /\ \A z \in In(tree) :
                     Toward(Key[z], call[2]) = Beyond => z = p \/ Toward(Key[z], p) = Beyond
         /\ p # NULL /\ tree.kid[Beyond][p] = at =>
               /\ p \in In(tree) /\ call[2] \in Below(p)
               /\ \A z \in Below(p) : Toward(Key[z], call[2]) # Beyond
<1>1. pc = "climb"
  BY DEF Climb
<1>2. /\ Good(tree) /\ call[2] \in In(tree) /\ Beyond \in Side /\ at \in In(tree)
      /\ call[1] \in {"next", "prev"}
  BY <1>1, StepFacts, InvFacts
<1>3. /\ call[2] \in Elements(tree.kid, at)
      /\ \A z \in Elements(tree.kid, at) : Toward(Key[z], call[2]) # Beyond
  BY <1>1 DEF Inv, Walk, Stepping, Below
<1>4. p \in Pointer
  BY <1>2, ParentOf
<1>5. QED
  BY <1>1, <1>2, <1>3, <1>4, AboveAll DEF Below

LEMMA ClimbInv ==
  ASSUME Inv, Climb
  PROVE  Inv'
<1> DEFINE p == tree.parent[at]
<1>1. pc = "climb" /\ call[1] \in {"next", "prev"} /\ p \in Pointer /\ Asks /\ Members = In(tree)
  BY ClimbFacts, InvFacts DEF Climb
<1>2. CASE p # NULL /\ tree.kid[Beyond][p] = at
  <2>1. /\ p \in In(tree) /\ call[2] \in Below(p)
        /\ \A z \in Below(p) : Toward(Key[z], call[2]) # Beyond
    BY <1>2, ClimbFacts
  <2>2. Go("climb", p, NULL)
    BY <1>2 DEF Climb
  <2> HIDE DEF p
  <2>3. QED
    BY <1>1, <2>1, <2>2, GoInv
<1>3. CASE ~(p # NULL /\ tree.kid[Beyond][p] = at)
  <2>1. Return(p)
    BY <1>3 DEF Climb
  <2> HIDE DEF p
  <2>2. QED
    BY <1>1, <2>1, AnswerInv
<1>4. QED
  BY <1>2, <1>3

LEMMA RemoveInnerInv ==
  ASSUME Inv, RemoveInner
  PROVE  Inv' /\ call' = call /\ result' = result /\ pc = "remove" /\ pc' = "extreme"
<1> DEFINE e == call[2]
           n == tree.kid[RIGHT][e]
<1>1. pc = "remove" /\ n # NULL /\ Go("extreme", n, NULL) /\ Asks
  BY DEF RemoveInner
<1>2. /\ e \in In(tree) /\ Good(tree) /\ n \in Pointer /\ tree.kid \in Memory
      /\ call[1] = "remove" /\ Members = In(tree) /\ Beyond = RIGHT /\ RIGHT \in Side
  BY <1>1, StepFacts, InvFacts, SideFacts DEF Beyond
<1>3. n \in Members /\ n \in Below(n)
  BY <1>1, <1>2, OnePlace, ElementsClosed DEF Below
<1>4. Inv'
  BY <1>1, <1>2, <1>3, GoInv
<1>5. QED
  BY <1>1, <1>4 DEF Go
-----------------------------------------------------------------------------
(* RB_INSERT_COLOR.                                                         *)
LEMMA InsertColorInv ==
  ASSUME Inv, InsertColor
  PROVE  /\ Inv' /\ Members' = Members /\ call' = call /\ result' = result
         /\ pc = "insert color" /\ pc' = pc
<1> DEFINE p == tree.parent[at]
           g == tree.parent[p]
           d == SideOf(tree, p, g)
           u == tree.kid[Opp(d)][g]
<1>1. /\ pc = "insert color" /\ p \in tree.red /\ pc' = pc /\ call' = call /\ result' = result
      /\ IF u \in tree.red
           THEN tree' = Recolour(tree, p, g, u) /\ at' = g
           ELSE /\ tree' = Raise(tree, at, p, g, d)
                /\ at' = IF tree.kid[Opp(d)][p] = at THEN p ELSE at
  BY DEF InsertColor, Go
<1>2. PICK b : Ripe(tree, b, at)
  BY <1>1 DEF Inv, Colours
<1>3. (\E b2 : Ripe(tree', b2, at')) /\ In(tree') = In(tree)
  <2> DEFINE x == IF tree.kid[Opp(d)][p] = at THEN p ELSE at
  <2>1. Ripe(tree, b, at) /\ tree.parent[at] \in tree.red
    BY <1>1, <1>2
  <2>2. /\ u \in tree.red => /\ \E b2 : Ripe(Recolour(tree, p, g, u), b2, g)
                             /\ In(Recolour(tree, p, g, u)) = In(tree)
        /\ u \notin tree.red => /\ \E b2 : Ripe(Raise(tree, at, p, g, d), b2, x)
                                /\ In(Raise(tree, at, p, g, d)) = In(tree)
    BY <2>1, InsertTurn
  <2>3. u \notin tree.red => at' = x
    BY <1>1
  <2> HIDE DEF x, u, d, g, p
  <2>4. QED
    BY <1>1, <2>2, <2>3
<1>4. Good(tree') /\ Members' = Members
  BY <1>3 DEF Ripe, Members, In
<1>5. Walk'
  BY <1>1, <1>4 DEF Inv, Walk, Calling, Passed, Placing, Nearest, Stepping, Gone
<1>6. Colours'
  BY <1>1, <1>3 DEF Colours
<1>7. QED
  BY <1>1, <1>4, <1>5, <1>6 DEF Inv

LEMMA InsertColorEndsInv ==
  ASSUME Inv, InsertColorEnds
  PROVE  Inv' /\ Members' = Members /\ Return(NULL) /\ pc = "insert color"
<1>1. /\ pc = "insert color" /\ tree.parent[at] \notin tree.red /\ Return(NULL)
      /\ tree' = [tree EXCEPT !.red = @ \ {tree.root}]
  BY DEF InsertColorEnds
<1>2. PICK b : Ripe(tree, b, at)
  BY <1>1 DEF Inv, Colours
<1>3. Good(tree') /\ In(tree') = In(tree) /\ \E b2 : Coloured(tree', b2, NULL, LEFT, NULL)
  BY <1>1, <1>2, InsertEnds
<1>4. Walk'
  BY <1>1, ReturnWalk DEF Inv, Walk, Pointer
<1>5. Colours' /\ Members' = Members
  BY <1>1, <1>3 DEF Colours, Return, Members, In
<1>6. QED
  BY <1>1, <1>3, <1>4, <1>5 DEF Inv
-----------------------------------------------------------------------------
(* RB_REMOVE and RB_REMOVE_COLOR.                                           *)
LEMMA RemovedInv ==
  ASSUME Inv, pc \in {"remove", "extreme"}, call[1] = "remove", NEW e, e = call[2],
         NEW t, Good(t), In(t) = In(tree) \ {e},
         NEW black \in BOOLEAN, NEW child, NEW p, Removed(t, e, black, child, p),
         black => \E b, s : Lacks(t, b, child, p, s),
         ~black => \E b : Coloured(t, b, NULL, LEFT, NULL)
  PROVE  /\ Inv' /\ Members' = Members \ {e}
         /\ black => pc' = "remove color" /\ call' = call /\ result' = result
         /\ ~black => Return(e)
<1>1. /\ e \in Node /\ e \in In(tree) /\ e \notin In(t) /\ Members = In(tree) /\ Members \subseteq Node
      /\ tree.kid \in Memory /\ tree.root \in Pointer /\ SearchTree(tree.kid, tree.root)
      /\ Calling /\ result \in Pointer
  BY StepFacts, InvFacts
<1>2. /\ tree' = Forget(t, e)
      /\ black => pc' = "remove color" /\ at' = child /\ up' = p /\ call' = call /\ result' = result
      /\ ~black => Return(e)
  BY DEF Removed, Go
<1>3. /\ Good(tree') /\ In(tree') = In(t)
      /\ black => \E b, s : Lacks(tree', b, child, p, s)
      /\ ~black => \E b : Coloured(tree', b, NULL, LEFT, NULL)
  BY <1>1, <1>2, ForgottenColours
<1>4. Members' = Members \ {e}
  BY <1>1, <1>3 DEF Members, In
<1>5. Walk'
  <2>1. CASE black
    <3>1. \A m \in Members \ {e} : Key[m] # Key[e]
      BY <1>1, DifferentKeys DEF In
    <3>2. QED
      BY <1>1, <1>2, <1>4, <2>1, <3>1
      DEF Walk, Calling, Where, Passed, Placing, Nearest, Stepping, Gone
  <2>2. CASE ~black
    <3>1. e \in Pointer /\ Return(e)
      BY <1>1, <1>2, <2>2 DEF Pointer
    <3>2. QED
      BY <1>1, <3>1, ReturnWalk
  <2>3. QED
    BY <2>1, <2>2
<1>6. Colours'
  BY <1>2, <1>3 DEF Colours, Return
<1>7. QED
  BY <1>2, <1>3, <1>4, <1>5, <1>6 DEF Inv

LEMMA RemoveInv ==
  ASSUME Inv, Remove
  PROVE  /\ Inv' /\ Members' = Members \ {call[2]} /\ pc = "remove" /\ call[1] = "remove"
         /\ \/ pc' = "remove color" /\ call' = call /\ result' = result
            \/ Return(call[2])
<1> DEFINE e     == call[2]
           child == IF tree.kid[LEFT][e] = NULL THEN tree.kid[RIGHT][e] ELSE tree.kid[LEFT][e]
           t     == Unlink(tree, e, child)
           p     == tree.parent[e]
           black == e \notin tree.red
<1>1. /\ pc = "remove" /\ NULL \in {tree.kid[LEFT][e], tree.kid[RIGHT][e]}
      /\ Removed(t, e, black, child, p)
  BY DEF Remove
<1>2. call[1] = "remove" /\ e \in In(tree) /\ Good(tree)
  BY <1>1, StepFacts
<1>3. PICK f \in Side : child = tree.kid[f][e] /\ tree.kid[Opp(f)][e] = NULL
  <2>1. CASE tree.kid[LEFT][e] = NULL
    BY <2>1, SideFacts
  <2>2. CASE tree.kid[LEFT][e] # NULL
    BY <1>1, <2>2, SideFacts
  <2>3. QED
    BY <2>1, <2>2
<1>4. PICK b : Coloured(tree, b, NULL, LEFT, NULL)
  BY <1>1 DEF Inv, Colours
<1> HIDE DEF e, child
<1>5. Good(t) /\ In(t) = In(tree) \ {e}
  BY <1>2, <1>3, UnlinkedMembers
<1>6. IF e \in tree.red THEN Coloured(t, b, NULL, LEFT, NULL)
      ELSE Lacks(t, b, child, p, SideOf(tree, e, p))
  BY <1>2, <1>3, <1>4, UnlinkedColours
<1>7. black \in BOOLEAN /\ (black => \E c, s : Lacks(t, c, child, p, s))
      /\ (~black => \E c : Coloured(t, c, NULL, LEFT, NULL))
  BY <1>6
<1>8. e = call[2]
  BY DEF e
<1> HIDE DEF t, p, black
<1>9. /\ Inv' /\ Members' = Members \ {e}
      /\ black => pc' = "remove color" /\ call' = call /\ result' = result
      /\ ~black => Return(e)
  BY <1>1, <1>2, <1>5, <1>7, <1>8, RemovedInv
<1>10. QED
  BY <1>1, <1>2, <1>7, <1>8, <1>9

LEMMA RemoveNextInv ==
  ASSUME Inv, RemoveNext
  PROVE  /\ Inv' /\ Members' = Members \ {call[2]} /\ pc = "extreme" /\ call[1] = "remove"
         /\ \/ pc' = "remove color" /\ call' = call /\ result' = result
            \/ Return(call[2])
<1> DEFINE e     == call[2]
           child == tree.kid[RIGHT][at]
           t     == Replace(tree, e, at)
           p     == IF tree.parent[at] = e THEN at ELSE tree.parent[at]
           black == at \notin tree.red
<1>1. /\ pc = "extreme" /\ call[1] = "remove" /\ tree.kid[LEFT][at] = NULL
      /\ Removed(t, e, black, child, p)
  BY DEF RemoveNext
<1>2. e \in In(tree) /\ Good(tree)
  BY <1>1, StepFacts
<1>3. /\ at \in Elements(tree.kid, tree.kid[RIGHT][e])
      /\ \A z \in Elements(tree.kid, tree.kid[RIGHT][e]) : z = at \/ Toward(Key[z], at) = RIGHT
  <2>1. Beyond = RIGHT /\ Opp(RIGHT) = LEFT
    BY <1>1, SideFacts DEF Beyond
  <2>2. QED
    BY <1>1, <2>1, ExtremeEnds
<1>4. PICK b : Coloured(tree, b, NULL, LEFT, NULL)
  BY <1>1 DEF Inv, Colours
<1> HIDE DEF e
<1>5. /\ Good(t) /\ In(t) = In(tree) \ {e}
      /\ at \in tree.red => \E b2 : Coloured(t, b2, NULL, LEFT, NULL)
      /\ at \notin tree.red => \E b2, s2 : Lacks(t, b2, child, p, s2)
  BY <1>1, <1>2, <1>3, <1>4, ReplacedColours
<1>6. black \in BOOLEAN /\ (black => \E c, s : Lacks(t, c, child, p, s))
      /\ (~black => \E c : Coloured(t, c, NULL, LEFT, NULL))
  BY <1>5
<1>7. e = call[2] /\ pc \in {"remove", "extreme"}
  BY <1>1 DEF e
<1> HIDE DEF t, p, black, child
<1>8. /\ Inv' /\ Members' = Members \ {e}
      /\ black => pc' = "remove color" /\ call' = call /\ result' = result
      /\ ~black => Return(e)
  BY <1>1, <1>5, <1>6, <1>7, RemovedInv
<1>9. QED
  BY <1>1, <1>6, <1>7, <1>8

LEMMA RemoveColorFacts ==
  ASSUME Inv, pc = "remove color"
  PROVE  /\ \E b, s : Lacks(tree, b, at, up, s)
         /\ call[1] = "remove" /\ call[2] \in Node /\ call[2] \notin Members
         /\ \A m \in Members : Key[m] # Key[call[2]]
<1>1. Calling /\ Gone
  BY DEF Inv, Walk
<1>2. call[1] = "remove"
  BY <1>1 DEF Calling, Where
<1>3. QED
  BY <1>1, <1>2, InvFacts DEF Gone, Inv, Colours

LEMMA RemoveColorInv ==
  ASSUME Inv, RemoveColor
  PROVE  /\ Inv' /\ Members' = Members /\ pc = "remove color"
         /\ \/ pc' = pc /\ call' = call /\ result' = result
            \/ Return(call[2])
<1> DEFINE d   == SideOf(tree, at, up)
           t1  == BlackSibling(tree, up, d)
           tmp == t1.kid[Opp(d)][up]
           t2  == [t1 EXCEPT !.red = @ \cup {tmp}]
           t3  == Settle(FarRed(t1, up, d), up, d)
           t4  == [t3 EXCEPT !.red = @ \ {t3.root}]
           higher == \A f \in Side : t1.kid[f][tmp] \notin t1.red
<1>1. /\ pc = "remove color" /\ at \notin tree.red /\ at # tree.root
      /\ IF higher THEN tree' = t2 /\ Go(pc, up, t1.parent[up])
                   ELSE tree' = t4 /\ Return(call[2])
  BY DEF RemoveColor, Lacking
<1>2. /\ \E b, s : Lacks(tree, b, at, up, s)
      /\ call[2] \in Node /\ call[1] = "remove" /\ \A m \in Members : Key[m] # Key[call[2]]
      /\ Calling /\ result \in Pointer
  BY <1>1, RemoveColorFacts, InvFacts
<1>3. PICK b, s : Lacks(tree, b, at, up, s)
  BY <1>2
<1>4. IF higher THEN In(t2) = In(tree) /\ \E b2, s2 : Lacks(t2, b2, up, t1.parent[up], s2)
      ELSE Good(t4) /\ In(t4) = In(tree) /\ \E b2 : Coloured(t4, b2, NULL, LEFT, NULL)
  BY <1>1, <1>3, RemoveTurn
<1> HIDE DEF t2, t4, higher, t1
<1>5. CASE higher
  <2>1. /\ tree' = t2 /\ pc' = "remove color" /\ at' = up /\ up' = t1.parent[up]
        /\ call' = call /\ result' = result
    BY <1>1, <1>5 DEF Go
  <2>2. In(tree') = In(tree) /\ \E b2, s2 : Lacks(tree', b2, at', up', s2)
    BY <1>4, <1>5, <2>1
  <2>3. Good(tree') /\ Members' = Members
    BY <2>2 DEF Lacks, Members, In
  <2>4. Walk'
    BY <1>2, <2>1, <2>3
    DEF Walk, Calling, Where, Passed, Placing, Nearest, Stepping, Gone
  <2>5. Colours'
    BY <2>1, <2>2 DEF Colours
  <2>6. QED
    BY <1>1, <2>1, <2>3, <2>4, <2>5 DEF Inv
<1>6. CASE ~higher
  <2>1. tree' = t4 /\ Return(call[2]) /\ call[2] \in Pointer
    BY <1>1, <1>2, <1>6 DEF Pointer
  <2>2. Good(tree') /\ In(tree') = In(tree) /\ \E b2 : Coloured(tree', b2, NULL, LEFT, NULL)
    BY <1>4, <1>6, <2>1
  <2>3. Walk'
    BY <1>2, <2>1, ReturnWalk
  <2>4. Members' = Members /\ Colours'
    BY <2>1, <2>2 DEF Return, Colours, Members, In
  <2>5. QED
    BY <1>1, <2>1, <2>2, <2>3, <2>4 DEF Inv
<1>7. QED
  BY <1>5, <1>6

LEMMA RemoveColorEndsInv ==
  ASSUME Inv, RemoveColorEnds
  PROVE  Inv' /\ Members' = Members /\ pc = "remove color" /\ Return(call[2])
<1>1. /\ pc = "remove color" /\ (at \in tree.red \/ at = tree.root) /\ Return(call[2])
      /\ tree' = [tree EXCEPT !.red = @ \ {at}]
  BY DEF RemoveColorEnds, Lacking
<1>2. /\ \E b, s : Lacks(tree, b, at, up, s)
      /\ call[2] \in Pointer /\ Calling
  BY <1>1, RemoveColorFacts, InvFacts DEF Pointer
<1>3. PICK b, s : Lacks(tree, b, at, up, s)
  BY <1>2
<1>4. Good(tree') /\ In(tree') = In(tree) /\ \E b2 : Coloured(tree', b2, NULL, LEFT, NULL)
  BY <1>1, <1>3, RemoveEnds
<1>5. Walk'
  BY <1>1, <1>2, ReturnWalk
<1>6. Members' = Members /\ Colours'
  BY <1>1, <1>4 DEF Return, Colours, Members, In
<1>7. QED
  BY <1>1, <1>4, <1>5, <1>6 DEF Inv
-----------------------------------------------------------------------------
LEMMA StutterInv ==
  ASSUME Inv, UNCHANGED vars
  PROVE  Inv'
<1>1. /\ tree' = tree /\ pc' = pc /\ call' = call /\ at' = at /\ up' = up /\ result' = result
  BY DEF vars
<1>2. /\ Members' = Members /\ Beyond' = Beyond
      /\ \A n : Below(n)' = Below(n) /\ Turn(n)' = Turn(n)
  BY <1>1 DEF Members, Beyond, Below, Turn
<1>3. Calling' = Calling
  BY <1>1, <1>2 DEF Calling
<1>4. Passed' = Passed
  BY <1>1, <1>2 DEF Passed, Members, Below, Turn
<1>5. Placing' = Placing
  BY <1>1, <1>2 DEF Placing, Members, Below, Turn
<1>6. Nearest' = Nearest
  BY <1>1, <1>2 DEF Nearest, Members, Below, Turn
<1>7. Stepping' = Stepping
  BY <1>1, <1>2 DEF Stepping, Below, Beyond
<1>8. Gone' = Gone
  BY <1>1, <1>2 DEF Gone, Members
<1>9. Walk'
  BY <1>1, <1>2, <1>3, <1>4, <1>5, <1>6, <1>7, <1>8 DEF Inv, Walk
<1>10. Colours'
  BY <1>1 DEF Inv, Colours
<1>11. QED
  BY <1>1, <1>9, <1>10 DEF Inv

LEMMA NextInv == Inv /\ [Next]_vars => Inv'
<1>1. SUFFICES ASSUME Inv, [Next]_vars PROVE Inv'
  OBVIOUS
<1>2. CASE Calls
  BY <1>1, <1>2, CallsInv
<1>3. CASE \E d \in Side : Down(d)
  BY <1>1, <1>3, DownInv
<1>4. CASE Found
  BY <1>1, <1>4, FoundInv
<1>5. CASE Missed
  BY <1>1, <1>5, MissedInv
<1>6. CASE Insert
  BY <1>1, <1>6, InsertInv
<1>7. CASE Neighbour
  BY <1>1, <1>7, NeighbourInv
<1>8. CASE Extreme
  BY <1>1, <1>8, ExtremeInv
<1>9. CASE ExtremeFound
  BY <1>1, <1>9, ExtremeFoundInv
<1>10. CASE Climb
  BY <1>1, <1>10, ClimbInv
<1>11. CASE InsertColor
  BY <1>1, <1>11, InsertColorInv
<1>12. CASE InsertColorEnds
  BY <1>1, <1>12, InsertColorEndsInv
<1>13. CASE Remove
  BY <1>1, <1>13, RemoveInv
<1>14. CASE RemoveInner
  BY <1>1, <1>14, RemoveInnerInv
<1>15. CASE RemoveNext
  BY <1>1, <1>15, RemoveNextInv
<1>16. CASE RemoveColor
  BY <1>1, <1>16, RemoveColorInv
<1>17. CASE RemoveColorEnds
  BY <1>1, <1>17, RemoveColorEndsInv
<1>18. CASE UNCHANGED vars
  BY <1>1, <1>18, StutterInv
<1>19. QED
  BY <1>1, <1>2, <1>3, <1>4, <1>5, <1>6, <1>7, <1>8, <1>9, <1>10, <1>11, <1>12, <1>13,
     <1>14, <1>15, <1>16, <1>17, <1>18 DEF Next

(* What Inv says holds in every state: the pointers, the colours and what   *)
(* each walk has left behind.                                               *)
THEOREM Invariant == Spec => []Inv
<1>1. QED
  BY InitInv, NextInv, PTL DEF Spec

(* In the middle of every call the pointers make a search tree, and the     *)
(* parents lead back.                                                       *)
THEOREM AlwaysLinked == Spec => []Linked
<1>1. Inv => Linked
  BY DEF Inv, Good, Rooted, Linked, Members
<1>2. QED
  BY <1>1, Invariant, PTL

(* Between calls the colours are those of a red-black tree (tree.h:48-50).  *)
THEOREM AlwaysBalanced == Spec => []Balanced
<1>1. ASSUME Inv PROVE Balanced
  <2>1. SUFFICES ASSUME pc = "idle", NEW n \in Members
                 PROVE  /\ Blacks(tree)[tree.kid[LEFT][n]] = Blacks(tree)[tree.kid[RIGHT][n]]
                        /\ n \in tree.red /\ n # tree.root => tree.parent[n] \notin tree.red
    BY DEF Balanced
  <2>2. PICK b : Coloured(tree, b, NULL, LEFT, NULL)
    BY <1>1, <2>1 DEF Inv, Colours
  <2>3. Good(tree) /\ n \in In(tree)
    BY <1>1, <2>1, InvFacts
  <2>4. QED
    BY <2>2, <2>3, ColouredIsBalanced
<1>2. QED
  BY <1>1, Invariant, PTL
-----------------------------------------------------------------------------
(* A red-black tree implements OrderedSet: an element is held from the      *)
(* return of RB_INSERT to that of RB_REMOVE, and the last step of a call    *)
(* gives the answer that the order of the keys asks for.                    *)
LEMMA SmallestIs ==
  ASSUME NEW S \in SUBSET Node, NEW x \in S, \A y \in S : y = x \/ Key[x] < Key[y]
  PROVE  Set!Smallest(S) = x
<1>1. \A y \in S : Key[y] \in Nat
  BY TreeAssumption
<1>2. \A y \in S : Key[x] <= Key[y]
  BY <1>1
<1>3. \A z \in S : (\A y \in S : Key[z] <= Key[y]) => z = x
  BY <1>1
<1>4. (CHOOSE z \in S : \A y \in S : Key[z] <= Key[y]) = x
  BY <1>2, <1>3
<1>5. QED
  BY <1>4 DEF Set!Smallest

LEMMA LargestIs ==
  ASSUME NEW S \in SUBSET Node, NEW x \in S, \A y \in S : y = x \/ Key[y] < Key[x]
  PROVE  Set!Largest(S) = x
<1>1. \A y \in S : Key[y] \in Nat
  BY TreeAssumption
<1>2. \A y \in S : Key[x] >= Key[y]
  BY <1>1
<1>3. \A z \in S : (\A y \in S : Key[z] >= Key[y]) => z = x
  BY <1>1
<1>4. (CHOOSE z \in S : \A y \in S : Key[z] >= Key[y]) = x
  BY <1>2, <1>3
<1>5. QED
  BY <1>4 DEF Set!Largest

LEMMA KeyOrder ==
  ASSUME NEW x \in Node, NEW y \in Node
  PROVE  /\ Toward(Key[x], y) = LEFT <=> Key[x] < Key[y]
         /\ Toward(Key[x], y) = RIGHT <=> Key[x] > Key[y]
         /\ Toward(Key[x], y) = HERE <=> Key[x] = Key[y]
         /\ Key[x] \in Nat /\ Key[y] \in Nat
<1>1. Key[x] \in Nat /\ Key[y] \in Nat
  BY TreeAssumption
<1>2. QED
  BY <1>1 DEF Toward, LEFT, RIGHT, HERE

(* No two members have the same key.                                        *)
LEMMA OneOfAKey ==
  ASSUME Inv, NEW e \in Node, NEW m \in Members, Key[m] = Key[e]
  PROVE  /\ m \in Node /\ \A z \in Members : z # m => Key[z] # Key[e]
         /\ {z \in Members : Key[z] = Key[e]} = {m}
         /\ Set!Smallest({m}) = m
<1>1. tree.kid \in Memory /\ tree.root \in Pointer /\ SearchTree(tree.kid, tree.root)
      /\ m \in Node
  BY InvFacts
<1>2. \A z \in Members : z # m => Key[z] # Key[e]
  BY <1>1, DifferentKeys DEF Members
<1>3. Set!Smallest({m}) = m
  BY <1>1, SmallestIs
<1>4. QED
  BY <1>1, <1>2, <1>3

LEMMA CallsImplements ==
  ASSUME Inv, Calls
  PROVE  Set!Calls
<1>1. tree' = tree /\ pc = "idle" /\ pc' \in {"down", "step", "remove"}
  BY DEF Calls, Begin
<1>2. Held = Members /\ Held' = Members
  BY <1>1 DEF Held, Members
<1>3. ASSUME NEW op, NEW e, NEW where \in {"down", "step", "remove"}, NEW n, Begin(op, e, where, n)
      PROVE  Set!Begin(op, e)
  BY <1>1, <1>2, <1>3 DEF Begin, Set!Begin
<1>4. CASE \E op \in {"min", "max"} : Begin(op, NULL, "down", tree.root)
  BY <1>3, <1>4 DEF Set!Calls
<1>5. CASE \E op \in {"insert", "find", "nfind"}, e \in Uses : Begin(op, e, "down", tree.root)
  BY <1>3, <1>5, UsesAssumption DEF Set!Calls
<1>6. CASE \E op \in {"next", "prev"}, e \in Members : Begin(op, e, "step", e)
  BY <1>2, <1>3, <1>6 DEF Set!Calls
<1>7. CASE \E e \in Members : Begin("remove", e, "remove", e)
  BY <1>3, <1>7, InvFacts DEF Set!Calls
<1>8. QED
  BY <1>4, <1>5, <1>6, <1>7 DEF Calls

(* The steps that only look, and the answers.                               *)
LEMMA LookImplements ==
  ASSUME Inv, Asks, pc \notin {"idle", "insert color", "remove color"},
         pc' \notin {"idle", "insert color", "remove color"}, UNCHANGED <<call, result>>
  PROVE  UNCHANGED <<Held, pc # "idle", call, result>>
<1>1. Held' = Held
  BY DEF Asks, Held, Members
<1>2. QED
  BY <1>1

LEMMA AnswerImplements ==
  ASSUME Inv, Asks, pc \notin {"idle", "insert color", "remove color"}, NEW n, Return(n)
  PROVE  Held = Members /\ Set!Answer(call[1], n)
<1>1. Held = Members /\ Held' = Held
  BY DEF Asks, Held, Members, Return
<1>2. QED
  BY <1>1 DEF Return, Set!Answer, Set!Return

LEMMA FoundImplements ==
  ASSUME Inv, Found
  PROVE  LET e == call[2] IN Set!Insert(e) \/ Set!Find(e) \/ Set!Nfind(e)
<1> DEFINE e == call[2]
<1>1. pc = "down" /\ Return(at) /\ Asks /\ at \in Members /\ Turn(at) = HERE
  BY FoundInv DEF Found
<1>2. Held = Members /\ Set!Answer(call[1], at)
  BY <1>1, AnswerImplements
<1>3. /\ call[1] \in {"insert", "find", "nfind"} /\ e \in Node /\ at \in Node
      /\ Members \subseteq Node /\ Toward(Key[e], at) = HERE
  <2>1. call[1] \notin {"min", "max"}
    BY <1>1, SideFacts DEF Turn
  <2>2. call[1] \in {"insert", "find", "nfind"}
    BY <1>1, <2>1 DEF Inv, Walk, Calling, Where
  <2>3. QED
    BY <1>1, <2>2, InvFacts DEF Turn
<1> HIDE DEF e
<1>4. Key[at] = Key[e]
  BY <1>3, KeyOrder
<1>5. /\ Set!Same(e) = {at} /\ Set!Smallest(Set!Same(e)) = at
      /\ \A z \in Members : z # at => Key[z] # Key[e]
  BY <1>1, <1>2, <1>3, <1>4, OneOfAKey DEF Set!Same
<1>6. Set!Smallest(Set!Same(e) \cup Set!Above(e)) = at
  <2> DEFINE S == Set!Same(e) \cup Set!Above(e)
  <2>1. S = {z \in Members : Key[z] = Key[e] \/ Key[z] > Key[e]}
    BY <1>2 DEF Set!Same, Set!Above
  <2>2. S \in SUBSET Node /\ at \in S
    BY <1>1, <1>3, <1>4, <2>1
  <2>3. \A z \in S : z = at \/ Key[at] < Key[z]
    BY <1>3, <1>4, <1>5, <2>1, KeyOrder
  <2> HIDE DEF S
  <2>4. QED
    BY <2>2, <2>3, SmallestIs DEF S
<1>7. QED
  BY <1>2, <1>3, <1>5, <1>6 DEF Set!Insert, Set!Find, Set!Nfind, Set!Answer, Set!Return, e

LEMMA MissedImplements ==
  ASSUME Inv, Missed
  PROVE  Set!Least \/ Set!Greatest \/ Set!Find(call[2]) \/ Set!Nfind(call[2])
<1> DEFINE e == call[2]
           b == IF call[1] = "max" THEN RIGHT ELSE LEFT
<1>1. /\ pc = "down" /\ Return(IF call[1] = "find" THEN NULL ELSE up) /\ Asks
      /\ at = NULL /\ Members \subseteq Node /\ Members \ Below(at) = Members
  BY MissedInv, InvFacts, NoElements DEF Missed, Below
<1>2. Held = Members /\ Set!Answer(call[1], IF call[1] = "find" THEN NULL ELSE up)
  BY <1>1, AnswerImplements
<1>3. call[1] \in {"min", "max", "find", "nfind"}
  BY <1>1 DEF Missed, Inv, Walk, Calling, Where
<1>4. CASE call[1] = "find"
  <2>1. e \in Node /\ \A z \in Members : Toward(Key[e], z) # HERE
    BY <1>1, <1>4, InvFacts DEF Inv, Walk, Passed, Turn
  <2>2. \A z \in Members : Key[z] # Key[e]
    BY <1>1, <2>1, KeyOrder
  <2>3. Set!Same(e) = {}
    BY <1>2, <2>2 DEF Set!Same
  <2>4. QED
    BY <1>2, <1>4, <2>3 DEF Set!Find, Set!Smallest
<1>5. CASE call[1] \in {"min", "max", "nfind"}
  <2>1. /\ up # NULL => up \in Members /\ Turn(up) = b
        /\ \A z \in Members :
              \/ Turn(z) = Opp(b)
              \/ up # NULL /\ (z = up \/ Toward(Key[z], up) = Opp(b))
    BY <1>1, <1>5 DEF Inv, Walk, Nearest
  <2>2. CASE call[1] = "min"
    <3>1. b = LEFT /\ Opp(b) = RIGHT /\ \A z : Turn(z) = LEFT
      BY <2>2, SideFacts DEF Turn
    <3>2. up # NULL => \A z \in Members : z = up \/ Key[up] < Key[z]
      BY <1>1, <2>1, <3>1, SideFacts, KeyOrder
    <3>3. Set!Smallest(Members) = up
      <4>1. CASE up = NULL
        BY <2>1, <3>1, <4>1, SideFacts DEF Set!Smallest
      <4>2. CASE up # NULL
        BY <1>1, <2>1, <3>2, <4>2, SmallestIs
      <4>3. QED
        BY <4>1, <4>2
    <3>4. QED
      BY <1>2, <2>2, <3>3 DEF Set!Least
  <2>3. CASE call[1] = "max"
    <3>1. b = RIGHT /\ Opp(b) = LEFT /\ \A z : Turn(z) = RIGHT
      BY <2>3, SideFacts DEF Turn
    <3>2. up # NULL => \A z \in Members : z = up \/ Key[z] < Key[up]
      BY <1>1, <2>1, <3>1, SideFacts, KeyOrder
    <3>3. Set!Largest(Members) = up
      <4>1. CASE up = NULL
        BY <2>1, <3>1, <4>1, SideFacts DEF Set!Largest
      <4>2. CASE up # NULL
        BY <1>1, <2>1, <3>2, <4>2, LargestIs
      <4>3. QED
        BY <4>1, <4>2
    <3>4. QED
      BY <1>2, <2>3, <3>3 DEF Set!Greatest
  <2>4. CASE call[1] = "nfind"
    <3> DEFINE S == Set!Same(e) \cup Set!Above(e)
    <3>1. b = LEFT /\ Opp(b) = RIGHT /\ e \in Node /\ \A z : Turn(z) = Toward(Key[e], z)
      BY <2>4, InvFacts, SideFacts DEF Turn
    <3>2. S = {z \in Members : Key[z] = Key[e] \/ Key[z] > Key[e]}
      BY <1>2 DEF Set!Same, Set!Above
    <3>3. \A z \in S : up # NULL /\ (z = up \/ Key[up] < Key[z])
      <4>1. SUFFICES ASSUME NEW z \in S PROVE up # NULL /\ (z = up \/ Key[up] < Key[z])
        OBVIOUS
      <4>2. z \in Members /\ z \in Node /\ Turn(z) # RIGHT
        <5>1. z \in Members /\ z \in Node /\ (Key[z] = Key[e] \/ Key[z] > Key[e])
          BY <1>1, <3>2, <4>1
        <5>2. QED
          BY <3>1, <5>1, KeyOrder
      <4>3. up # NULL /\ (z = up \/ Toward(Key[z], up) = RIGHT) /\ up \in Node
        BY <1>1, <2>1, <3>1, <4>2
      <4>4. QED
        BY <4>2, <4>3, KeyOrder
    <3>4. up # NULL => up \in S /\ S \in SUBSET Node
      <4>1. SUFFICES ASSUME up # NULL PROVE up \in S /\ S \in SUBSET Node
        OBVIOUS
      <4>2. up \in Members /\ up \in Node /\ Toward(Key[e], up) = LEFT
        BY <1>1, <2>1, <3>1, <4>1
      <4>3. Key[up] > Key[e]
        BY <3>1, <4>2, KeyOrder
      <4>4. QED
        BY <1>1, <3>2, <4>2, <4>3
    <3> HIDE DEF S
    <3>5. Set!Smallest(S) = up
      <4>1. CASE up = NULL
        BY <3>3, <4>1 DEF Set!Smallest
      <4>2. CASE up # NULL
        BY <3>3, <3>4, <4>2, SmallestIs
      <4>3. QED
        BY <4>1, <4>2
    <3>6. QED
      BY <1>2, <2>4, <3>5 DEF Set!Nfind, S
  <2>5. QED
    BY <1>5, <2>2, <2>3, <2>4
<1>6. QED
  BY <1>3, <1>4, <1>5

(* RB_NEXT or RB_PREV gives the nearest element on its side.                *)
LEMMA NearestImplements ==
  ASSUME Inv, Asks, pc \in {"extreme", "climb"}, call[1] \in {"next", "prev"}, NEW n, Return(n),
         n = NULL => \A z \in Members : Toward(Key[z], call[2]) # Beyond,
         n # NULL => /\ n \in Members /\ Toward(Key[n], call[2]) = Beyond
                     /\ \A z \in Members :
                           Toward(Key[z], call[2]) = Beyond => z = n \/ Toward(Key[z], n) = Beyond
  PROVE  Set!NextOf(call[2]) \/ Set!PrevOf(call[2])
<1> DEFINE e == call[2]
           S == {z \in Members : Toward(Key[z], e) = Beyond}
<1>1. Held = Members /\ Set!Answer(call[1], n)
  BY AnswerImplements
<1>2. e \in Node /\ Members \subseteq Node
  BY InvFacts
<1> HIDE DEF e
<1>3. S \in SUBSET Node /\ (n = NULL => S = {}) /\ (n # NULL => n \in S)
      /\ \A z \in S : n # NULL /\ (z = n \/ Toward(Key[z], n) = Beyond)
  BY <1>2 DEF e
<1>4. CASE call[1] = "next"
  <2>1. Beyond = RIGHT
    BY <1>4 DEF Beyond
  <2>2. S = Set!Above(e)
    BY <1>1, <1>2, <2>1, KeyOrder DEF Set!Above
  <2> HIDE DEF S
  <2>3. \A z \in S : n # NULL /\ (z = n \/ Key[n] < Key[z])
    BY <1>3, <2>1, KeyOrder
  <2>4. Set!Smallest(S) = n
    <3>1. CASE n = NULL
      BY <1>3, <3>1 DEF Set!Smallest
    <3>2. CASE n # NULL
      BY <1>3, <2>3, <3>2, SmallestIs
    <3>3. QED
      BY <3>1, <3>2
  <2>5. QED
    BY <1>1, <1>4, <2>2, <2>4 DEF Set!NextOf, e
<1>5. CASE call[1] = "prev"
  <2>1. Beyond = LEFT
    BY <1>5 DEF Beyond
  <2>2. S = Set!Below(e)
    BY <1>1, <1>2, <2>1, KeyOrder DEF Set!Below
  <2> HIDE DEF S
  <2>3. \A z \in S : n # NULL /\ (z = n \/ Key[z] < Key[n])
    BY <1>3, <2>1, KeyOrder
  <2>4. Set!Largest(S) = n
    <3>1. CASE n = NULL
      BY <1>3, <3>1 DEF Set!Largest
    <3>2. CASE n # NULL
      BY <1>3, <2>3, <3>2, LargestIs
    <3>3. QED
      BY <3>1, <3>2
  <2>5. QED
    BY <1>1, <1>5, <2>2, <2>4 DEF Set!PrevOf, e
<1>6. QED
  BY <1>4, <1>5

LEMMA ExtremeFoundImplements ==
  ASSUME Inv, ExtremeFound
  PROVE  Set!NextOf(call[2]) \/ Set!PrevOf(call[2])
<1>1. /\ pc = "extreme" /\ call[1] # "remove" /\ tree.kid[Opp(Beyond)][at] = NULL
      /\ Return(at) /\ Asks
  BY DEF ExtremeFound
<1>2. /\ call[1] \in {"next", "prev"} /\ Good(tree) /\ call[2] \in In(tree) /\ Beyond \in Side
      /\ at \in Members /\ at # NULL /\ Members = In(tree)
  <2>1. /\ call[1] \in {"next", "prev"} /\ Good(tree) /\ call[2] \in In(tree) /\ Beyond \in Side
        /\ at \in Members /\ at \in Node /\ Members = In(tree)
    BY <1>1, StepFacts, InvFacts
  <2>2. QED
    BY <2>1, SideFacts
<1>3. /\ at \in Elements(tree.kid, tree.kid[Beyond][call[2]])
      /\ \A z \in Elements(tree.kid, tree.kid[Beyond][call[2]]) :
            z = at \/ Toward(Key[z], at) = Beyond
  BY <1>1, ExtremeEnds
<1>4. /\ Toward(Key[at], call[2]) = Beyond
      /\ \A z \in In(tree) : Toward(Key[z], call[2]) = Beyond => z = at \/ Toward(Key[z], at) = Beyond
  BY <1>2, <1>3, BeyondAll
<1>5. QED
  BY <1>1, <1>2, <1>4, NearestImplements

LEMMA ClimbImplements ==
  ASSUME Inv, Climb
  PROVE  \/ Set!NextOf(call[2]) \/ Set!PrevOf(call[2])
         \/ UNCHANGED <<Held, pc # "idle", call, result>>
<1> DEFINE p == tree.parent[at]
<1>1. pc = "climb" /\ Asks /\ call[1] \in {"next", "prev"} /\ Members = In(tree)
  BY ClimbFacts, InvFacts DEF Climb
<1>2. /\ p = NULL => \A z \in In(tree) : Toward(Key[z], call[2]) # Beyond
      /\ p # NULL /\ tree.kid[Beyond][p] # at =>
            /\ p \in In(tree) /\ Toward(Key[p], call[2]) = Beyond
            /\ \A z \in In(tree) :
                  Toward(Key[z], call[2]) = Beyond => z = p \/ Toward(Key[z], p) = Beyond
  BY ClimbFacts
<1>3. IF p # NULL /\ tree.kid[Beyond][p] = at THEN Go("climb", p, NULL) ELSE Return(p)
  BY DEF Climb
<1> HIDE DEF p
<1>4. CASE p # NULL /\ tree.kid[Beyond][p] = at
  BY <1>1, <1>3, <1>4, LookImplements DEF Go
<1>5. CASE ~(p # NULL /\ tree.kid[Beyond][p] = at)
  <2>1. /\ Return(p)
        /\ p = NULL => \A z \in Members : Toward(Key[z], call[2]) # Beyond
        /\ p # NULL => /\ p \in Members /\ Toward(Key[p], call[2]) = Beyond
                       /\ \A z \in Members : Toward(Key[z], call[2]) = Beyond =>
                                                z = p \/ Toward(Key[z], p) = Beyond
    BY <1>1, <1>2, <1>3, <1>5
  <2>2. QED
    BY <1>1, <2>1, NearestImplements
<1>6. QED
  BY <1>4, <1>5

LEMMA LookingImplements ==
  ASSUME Inv, (\E d \in Side : Down(d)) \/ Neighbour \/ Extreme \/ RemoveInner
  PROVE  UNCHANGED <<Held, pc # "idle", call, result>>
<1>1. CASE \E d \in Side : Down(d)
  <2>1. PICK d \in Side : Down(d)
    BY <1>1
  <2>2. Asks /\ pc = "down" /\ pc' = "down" /\ call' = call /\ result' = result
    BY <2>1, DownFacts DEF Asks
  <2>3. QED
    BY <2>2, LookImplements
<1>2. CASE Neighbour
  BY <1>2, NeighbourInv, LookImplements DEF Neighbour
<1>3. CASE Extreme
  BY <1>3, ExtremeInv, LookImplements DEF Extreme
<1>4. CASE RemoveInner
  BY <1>4, RemoveInnerInv, LookImplements DEF RemoveInner
<1>5. QED
  BY <1>1, <1>2, <1>3, <1>4

(* The set gets the element when RB_INSERT returns ...                      *)
LEMMA InsertImplements ==
  ASSUME Inv, Insert
  PROVE  UNCHANGED <<Held, pc # "idle", call, result>>
<1>1. /\ call' = call /\ result' = result /\ pc = "down" /\ pc' = "insert color"
      /\ call[2] \notin Members /\ Members' = Members \cup {call[2]}
  BY InsertInv
<1>2. Held = Members /\ Held' = (Members \cup {call[2]}) \ {call[2]}
  BY <1>1 DEF Held
<1>3. QED
  BY <1>1, <1>2

LEMMA InsertColorImplements ==
  ASSUME Inv, InsertColor
  PROVE  UNCHANGED <<Held, pc # "idle", call, result>>
<1>1. Members' = Members /\ call' = call /\ result' = result /\ pc = "insert color" /\ pc' = pc
  BY InsertColorInv
<1>2. QED
  BY <1>1 DEF Held

LEMMA InsertColorEndsImplements ==
  ASSUME Inv, InsertColorEnds
  PROVE  Set!Insert(call[2])
<1> DEFINE e == call[2]
<1>1. Members' = Members /\ Return(NULL) /\ pc = "insert color"
  BY InsertColorEndsInv
<1>2. call[1] = "insert" /\ e \in Members /\ e \in Node
  BY <1>1, InvFacts DEF Inv, Walk, Calling, Where
<1>3. Held = Members \ {e} /\ Held' = Members
  BY <1>1 DEF Held, Return
<1>4. \A z \in Members : z # e => Key[z] # Key[e]
  BY <1>2, OneOfAKey
<1>5. Set!Same(e) = {} /\ Held' = Held \cup {e}
  BY <1>2, <1>3, <1>4 DEF Set!Same
<1>6. Set!Smallest({}) = NULL
  BY DEF Set!Smallest
<1> HIDE DEF e
<1>7. QED
  BY <1>1, <1>2, <1>5, <1>6 DEF Set!Insert, Set!Return, Return, e

(* ... and loses it when RB_REMOVE does.                                    *)
LEMMA RemovedImplements ==
  ASSUME Inv, Members' = Members \ {call[2]}, call[1] = "remove", pc \in {"remove", "extreme"},
         \/ pc' = "remove color" /\ call' = call /\ result' = result
         \/ Return(call[2])
  PROVE  Set!Remove(call[2]) \/ UNCHANGED <<Held, pc # "idle", call, result>>
<1> DEFINE e == call[2]
<1>1. Held = Members /\ e \in Members /\ e \in Node
  BY StepFacts DEF Held
<1>2. CASE pc' = "remove color" /\ call' = call /\ result' = result
  <2>1. Held' = (Members \ {e}) \cup {e}
    BY <1>2 DEF Held
  <2>2. QED
    BY <1>1, <1>2, <2>1
<1>3. CASE Return(e)
  <2>1. Held' = Members \ {e}
    BY <1>3 DEF Held, Return
  <2>2. {z \in Members : Key[z] = Key[e]} = {e}
    BY <1>1, OneOfAKey
  <2>3. Set!Same(e) = {e}
    BY <1>1, <2>2 DEF Set!Same
  <2> HIDE DEF e
  <2>4. QED
    BY <1>1, <1>3, <2>1, <2>3 DEF Set!Remove, Set!Return, Return, e
<1>4. QED
  BY <1>2, <1>3

LEMMA RemoveImplements ==
  ASSUME Inv, Remove \/ RemoveNext
  PROVE  Set!Remove(call[2]) \/ UNCHANGED <<Held, pc # "idle", call, result>>
<1>1. CASE Remove
  BY <1>1, RemoveInv, RemovedImplements
<1>2. CASE RemoveNext
  BY <1>2, RemoveNextInv, RemovedImplements
<1>3. QED
  BY <1>1, <1>2

LEMMA RemoveColorImplements ==
  ASSUME Inv, RemoveColor \/ RemoveColorEnds
  PROVE  Set!Remove(call[2]) \/ UNCHANGED <<Held, pc # "idle", call, result>>
<1> DEFINE e == call[2]
<1>1. /\ Members' = Members /\ pc = "remove color"
      /\ \/ pc' = pc /\ call' = call /\ result' = result
         \/ Return(e)
  BY RemoveColorInv, RemoveColorEndsInv
<1>2. Held = Members \cup {e} /\ call[1] = "remove" /\ e \notin Members
      /\ \A m \in Members : Key[m] # Key[e]
  BY <1>1, RemoveColorFacts DEF Held
<1>3. CASE pc' = pc /\ call' = call /\ result' = result
  BY <1>1, <1>3 DEF Held
<1>4. CASE Return(e)
  <2>1. Held' = Members
    BY <1>1, <1>4 DEF Held, Return
  <2>2. Set!Same(e) = {e} /\ Held' = Held \ {e}
    BY <1>2, <2>1 DEF Set!Same
  <2> HIDE DEF e
  <2>3. QED
    BY <1>1, <1>2, <1>4, <2>2 DEF Set!Remove, Set!Return, Return, e
<1>5. QED
  BY <1>1, <1>3, <1>4

(* Every call of a red-black tree does what it promises and gives the       *)
(* answer that the order of the keys asks for.                              *)
THEOREM Implements == Spec => SetSpec
<1>1. Init => Set!Init
  <2>1. ASSUME Init PROVE Set!Init
    <3>1. Held = Members /\ Members = {}
      BY <2>1, NoElements DEF Init, Held, Members, EmptyTree
    <3>2. QED
      BY <2>1, <3>1 DEF Init, Set!Init
  <2>2. QED
    BY <2>1
<1>2. ASSUME Inv, [Next]_vars
      PROVE  [Set!Next]_<<Held, pc # "idle", call, result>>
  <2>1. CASE Calls
    BY <1>2, <2>1, CallsImplements DEF Set!Next
  <2>2. CASE (\E d \in Side : Down(d)) \/ Neighbour \/ Extreme \/ RemoveInner
    BY <1>2, <2>2, LookingImplements
  <2>3. CASE Found
    BY <1>2, <2>3, FoundImplements DEF Set!Next, Set!Returns
  <2>4. CASE Missed
    BY <1>2, <2>4, MissedImplements DEF Set!Next, Set!Returns
  <2>5. CASE Insert
    BY <1>2, <2>5, InsertImplements
  <2>6. CASE ExtremeFound
    BY <1>2, <2>6, ExtremeFoundImplements DEF Set!Next, Set!Returns
  <2>7. CASE Climb
    BY <1>2, <2>7, ClimbImplements DEF Set!Next, Set!Returns
  <2>8. CASE InsertColor
    BY <1>2, <2>8, InsertColorImplements
  <2>9. CASE InsertColorEnds
    BY <1>2, <2>9, InsertColorEndsImplements DEF Set!Next, Set!Returns
  <2>10. CASE Remove \/ RemoveNext
    BY <1>2, <2>10, RemoveImplements DEF Set!Next, Set!Returns
  <2>11. CASE RemoveColor \/ RemoveColorEnds
    BY <1>2, <2>11, RemoveColorImplements DEF Set!Next, Set!Returns
  <2>12. CASE UNCHANGED vars
    BY <2>12 DEF vars, Held, Members
  <2>13. QED
    BY <1>2, <2>1, <2>2, <2>3, <2>4, <2>5, <2>6, <2>7, <2>8, <2>9, <2>10, <2>11, <2>12 DEF Next
<1>3. QED
  BY <1>1, <1>2, Invariant, PTL DEF Spec, SetSpec, Set!Spec
================================================================================
