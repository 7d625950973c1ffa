------------------------------ MODULE RedBlackOps ------------------------------
(****************************************************************************)
(* The macros and assignments of RB_GENERATE of src/include/tree.h.  A node *)
(* also has a parent and a colour; NULL is no member of t.red, so that a    *)
(* NULL kid counts as black, as the code has it.  p is the parent of the    *)
(* node e that an operator is about, or NULL.                               *)
(****************************************************************************)
EXTENDS TreeOps

EmptyTree == [root |-> NULL, kid |-> NoKids, parent |-> [n \in Node |-> NULL], red |-> {}]

(* What n adds to the number of black nodes on a path.                      *)
Weight(t, n) == IF n \in t.red THEN 0 ELSE 1

SetBlackRed(t, black, red) == [t EXCEPT !.red = (@ \ {black}) \cup {red}]
SetParent(t, n, p) == IF n = NULL THEN t ELSE [t EXCEPT !.parent[n] = p]

SideOf(t, e, p) == IF t.kid[LEFT][p] = e THEN LEFT ELSE RIGHT

(* `new` takes the place of e, below p or at the root.                      *)
Hang(t, p, e, new) ==
    IF p = NULL THEN [t EXCEPT !.root = new]
                ELSE [t EXCEPT !.kid = Put(@, SideOf(t, e, p), p, new)]

BugOrphan(t, e, d) ==
    LET tmp   == t.kid[d][e]
        p     == t.parent[e]
        below == [t EXCEPT !.kid = Rotate(@, e, d)]
    IN  SetParent(Hang(SetParent(below, tmp, p), p, e, tmp), e, tmp)

(* RB_ROTATE_RIGHT (d = LEFT) and _LEFT: the kid on side d comes up.        *)
RbRotate(t, e, d) ==
    LET tmp   == t.kid[d][e]
        inner == t.kid[Opp(d)][tmp]
        p     == t.parent[e]
        below == SetParent([t EXCEPT !.kid = Rotate(@, e, d)], inner, e)
    IN  SetParent(Hang(SetParent(below, tmp, p), p, e, tmp), e, tmp)
-----------------------------------------------------------------------------
(* A new leaf, red, below p on the side where it belongs.                   *)
Attach(t, e, p) ==
    LET leaf == [t EXCEPT !.kid = PutBoth(@, e, NULL, NULL), !.parent[e] = p,
                          !.red = @ \cup {e}]
    IN  IF p = NULL THEN [leaf EXCEPT !.root = e]
                    ELSE [leaf EXCEPT !.kid = Put(@, Toward(Key[e], p), p, e)]

(* RB_INSERT_COLOR: red e below red p.  g is black, and its other kid red.  *)
Recolour(t, p, g, uncle) == SetBlackRed([t EXCEPT !.red = @ \ {uncle}], p, g)

(* ... or black: p comes up, or e first if it is on the inside.             *)
Raise(t, e, p, g, d) ==
    IF t.kid[Opp(d)][p] = e
      THEN RbRotate(SetBlackRed(RbRotate(t, p, Opp(d)), e, g), g, d)
      ELSE RbRotate(SetBlackRed(t, p, g), g, d)

(* RB_REMOVE_COLOR: what hangs on side d of p lacks a black node.  A red    *)
(* sibling comes up, so that there is a black one.                          *)
BlackSibling(t, p, d) ==
    LET tmp == t.kid[Opp(d)][p]
    IN  IF tmp \in t.red THEN RbRotate(SetBlackRed(t, tmp, p), p, Opp(d)) ELSE t

(* The far kid of the sibling is to be red.                                 *)
FarRed(t, p, d) ==
    LET tmp == t.kid[Opp(d)][p]
    IN  IF t.kid[Opp(d)][tmp] \in t.red THEN t
        ELSE RbRotate(SetBlackRed(t, t.kid[d][tmp], tmp), tmp, d)

BugNoRecolor(t, p, d) == RbRotate(t, p, Opp(d))

(* The sibling comes up with the colour of p, between two black nodes.      *)
Settle(t, p, d) ==
    LET tmp  == t.kid[Opp(d)][p]
        as_p == IF p \in t.red THEN t.red \cup {tmp} ELSE t.red \ {tmp}
    IN  RbRotate([t EXCEPT !.red = as_p \ {p, t.kid[Opp(d)][tmp]}], p, Opp(d))
-----------------------------------------------------------------------------
(* RB_REMOVE of an element with one kid at most: the kid takes its place.   *)
Unlink(t, e, child) ==
    LET p == t.parent[e]
    IN  Hang(SetParent(t, child, p), p, e, child)

(* ... with two: the next element gives its place to its right kid, and     *)
(* takes the place, the kids and the colour of e.                           *)
TakePlace(t, e, next) ==
    LET p    == t.parent[e]
        copy == [t EXCEPT !.kid = PutBoth(@, next, @[LEFT][e], @[RIGHT][e]),
                          !.parent[next] = p,
                          !.red = IF e \in @ THEN @ \cup {next} ELSE @ \ {next}]
        hung == Hang(copy, p, e, next)
    IN  SetParent(SetParent(hung, hung.kid[LEFT][e], next), hung.kid[RIGHT][e], next)

Replace(t, e, next) == TakePlace(Unlink(t, next, t.kid[RIGHT][next]), e, next)

(* What the memory of a removed element holds is up to its user.            *)
Forget(t, e) == [t EXCEPT !.kid = PutBoth(@, e, NULL, NULL), !.parent[e] = NULL,
                          !.red = @ \ {e}]
================================================================================
