-------------------------------- MODULE TreeOps --------------------------------
(****************************************************************************)
(* What the two kinds of tree of src/include/tree.h have in common: an      *)
(* element of a tree is a node with two kids, and k[d][n] is the kid that   *)
(* node n has on side d.  Where the code is written twice, once for each    *)
(* side, an operator takes d.  The kids of SCRATCH are those of __node, the *)
(* struct on the stack of a splay.                                          *)
(****************************************************************************)
EXTENDS Integers

CONSTANTS Node,     \* the elements a program may put in a tree
          Key       \* Key[n]: what cmp compares

ASSUME TreeAssumption == Node \subseteq Nat \ {0} /\ Key \in [Node -> Nat]

NULL    == 0
SCRATCH == -1
Cell    == Node \cup {SCRATCH}
Pointer == Node \cup {NULL}
LEFT    == "left"
RIGHT   == "right"
HERE    == "here"
Side    == {LEFT, RIGHT}
Opp(d)  == IF d = LEFT THEN RIGHT ELSE LEFT

Memory   == [Side -> [Cell -> Pointer]]
NoKids   == [d \in Side |-> [n \in Cell |-> NULL]]

(* The assignments SPLAY_LEFT(n) = v and SPLAY_RIGHT(n) = v.                *)
Put(k, d, n, v) == [k EXCEPT ![d][n] = v]

(* Both kids of n, left and right.                                          *)
PutBoth(k, n, l, r) == Put(Put(k, LEFT, n, l), RIGHT, n, r)

(* The kid on side d comes up and takes n for a kid of its own.             *)
Rotate(k, n, d) ==
    LET tmp == k[d][n]
    IN  Put(Put(k, d, n, k[Opp(d)][tmp]), Opp(d), tmp, n)

(* The side of n on which key x belongs.                                    *)
Toward(x, n) == IF x < Key[n] THEN LEFT ELSE IF x > Key[n] THEN RIGHT ELSE HERE
-----------------------------------------------------------------------------
(* The elements that pointers lead to from n: what every set has that has n *)
(* and, with a node, its kids.                                              *)
Closed(k, S) == \A n \in S, d \in Side : k[d][n] \in S \cup {NULL}

Elements(k, n) ==
    LET closed == {S \in SUBSET Node : n \in S /\ Closed(k, S)}
    IN  IF n = NULL THEN {} ELSE {m \in Node : \A S \in closed : m \in S}

(* A key lies between the keys it hangs between.                            *)
SearchTree(k, n) ==
    \A m \in Elements(k, n), d \in Side :
        \A x \in Elements(k, k[d][m]) : Toward(Key[x], m) = d
================================================================================
