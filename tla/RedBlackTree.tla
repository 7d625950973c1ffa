------------------------------ MODULE RedBlackTree -----------------------------
(****************************************************************************)
(* A program that keeps elements in a red-black tree (RB_GENERATE of        *)
(* src/include/tree.h).  It inserts any element, removes and asks in any    *)
(* order; RB_REMOVE, _NEXT and _PREV are called with elements of the tree,  *)
(* as their code requires.  A call runs in steps, one for each turn of a    *)
(* loop.                                                                    *)
(****************************************************************************)
EXTENDS RedBlackOps

CONSTANT Uses      \* the elements that the program has

ASSUME UsesAssumption == Uses \subseteq Node

VARIABLES tree,    \* rbh_root, and the fields of all elements
          pc,      \* where the call is
          call,    \* the function and its argument
          at,      \* what the loop walks with: tmp, or elm
          up,      \* parent, or res of RB_NFIND
          result   \* what the call returned

vars == <<tree, pc, call, at, up, result>>

Members == Elements(tree.kid, tree.root)

Init == /\ tree = EmptyTree
        /\ pc = "idle"
        /\ call = <<"init", NULL>>
        /\ at = NULL
        /\ up = NULL
        /\ result = NULL

Begin(op, e, where, n) == /\ pc = "idle"
                          /\ call' = <<op, e>>
                          /\ pc' = where
                          /\ at' = n
                          /\ result' = NULL
                          /\ UNCHANGED <<tree, up>>

Return(n) == /\ result' = n
             /\ pc' = "idle"
             /\ at' = NULL
             /\ up' = NULL
             /\ UNCHANGED call

Go(where, n, p) == /\ pc' = where
                   /\ at' = n
                   /\ up' = p
                   /\ UNCHANGED <<call, result>>

Asks == UNCHANGED tree
-----------------------------------------------------------------------------
(* Where the call's argument belongs; RB_MINMAX goes always one way.        *)
Turn(n) == CASE call[1] = "min" -> LEFT
             [] call[1] = "max" -> RIGHT
             [] OTHER -> Toward(Key[call[2]], n)

(* A turn of the loop of RB_INSERT, RB_FIND, RB_NFIND or RB_MINMAX.         *)
Down(d) == /\ pc = "down" /\ at # NULL
           /\ Turn(at) = d
           /\ Go("down", tree.kid[d][at],
                 IF call[1] = "nfind" /\ d = RIGHT THEN up ELSE at)
           /\ Asks

Found == /\ pc = "down" /\ at # NULL
         /\ Turn(at) = HERE
         /\ Return(at)
         /\ Asks

Missed == /\ pc = "down" /\ at = NULL
          /\ call[1] # "insert"
          /\ Return(IF call[1] = "find" THEN NULL ELSE up)
          /\ Asks

Insert == LET e == call[2]
          IN  /\ pc = "down" /\ at = NULL
              /\ call[1] = "insert"
              /\ tree' = Attach(tree, e, up)
              /\ Go("insert color", e, NULL)
-----------------------------------------------------------------------------
(* RB_NEXT (to the right) and RB_PREV: the next element is the extreme one  *)
(* on that side, or the first above that has the element on its other side. *)
Beyond == IF call[1] = "prev" THEN LEFT ELSE RIGHT

Neighbour == LET n == tree.kid[Beyond][at]
             IN  /\ pc = "step"
                 /\ IF n # NULL THEN Go("extreme", n, NULL) ELSE Go("climb", at, NULL)
                 /\ Asks

(* Also a turn of the loop of RB_REMOVE that looks for the next element.    *)
Extreme == /\ pc = "extreme"
           /\ tree.kid[Opp(Beyond)][at] # NULL
           /\ Go("extreme", tree.kid[Opp(Beyond)][at], NULL)
           /\ Asks

ExtremeFound == /\ pc = "extreme" /\ call[1] # "remove"
                /\ tree.kid[Opp(Beyond)][at] = NULL
                /\ Return(at)
                /\ Asks

BugNoClimb == /\ pc = "climb"
              /\ Return(tree.parent[at])
              /\ Asks

BugNotUp == LET p == tree.parent[at]
            IN  /\ pc = "climb"
                /\ IF p # NULL /\ tree.kid[Beyond][p] = at THEN Go("climb", at, NULL)
                                                           ELSE Return(p)
                /\ Asks

Climb == LET p == tree.parent[at]
         IN  /\ pc = "climb"
             /\ IF p # NULL /\ tree.kid[Beyond][p] = at THEN Go("climb", p, NULL)
                                                        ELSE Return(p)
             /\ Asks
-----------------------------------------------------------------------------
(* A turn of the loop of RB_INSERT_COLOR, and its end.                      *)
InsertColor ==
    LET p     == tree.parent[at]
        g     == tree.parent[p]
        d     == SideOf(tree, p, g)
        uncle == tree.kid[Opp(d)][g]
    IN  /\ pc = "insert color"
        /\ p \in tree.red
        /\ IF uncle \in tree.red
             THEN tree' = Recolour(tree, p, g, uncle) /\ Go(pc, g, NULL)
             ELSE /\ tree' = Raise(tree, at, p, g, d)
                  /\ Go(pc, IF tree.kid[Opp(d)][p] = at THEN p ELSE at, NULL)

InsertColorEnds == /\ pc = "insert color"
                   /\ tree.parent[at] \notin tree.red
                   /\ tree' = [tree EXCEPT !.red = @ \ {tree.root}]
                   /\ Return(NULL)
-----------------------------------------------------------------------------
(* The end of RB_REMOVE: a black node that is missing is made up for.       *)
Removed(t, e, black, child, p) ==
    IF black THEN tree' = Forget(t, e) /\ Go("remove color", child, p)
             ELSE tree' = Forget(t, e) /\ Return(e)

Remove == LET e     == call[2]
              child == IF tree.kid[LEFT][e] = NULL THEN tree.kid[RIGHT][e]
                                                   ELSE tree.kid[LEFT][e]
          IN  /\ pc = "remove"
              /\ NULL \in {tree.kid[LEFT][e], tree.kid[RIGHT][e]}
              /\ Removed(Unlink(tree, e, child), e, e \notin tree.red,
                         child, tree.parent[e])

RemoveInner == LET e == call[2]
               IN  /\ pc = "remove"
                   /\ NULL \notin {tree.kid[LEFT][e], tree.kid[RIGHT][e]}
                   /\ Go("extreme", tree.kid[RIGHT][e], NULL)
                   /\ Asks

RemoveNext == LET e == call[2]
              IN  /\ pc = "extreme" /\ call[1] = "remove"
                  /\ tree.kid[LEFT][at] = NULL
                  /\ Removed(Replace(tree, e, at), e, at \notin tree.red,
                             tree.kid[RIGHT][at],
                             IF tree.parent[at] = e THEN at ELSE tree.parent[at])

(* A turn of the loop of RB_REMOVE_COLOR, and its end.                      *)
Lacking == /\ pc = "remove color"
           /\ at \notin tree.red
           /\ at # tree.root

RemoveColor ==
    LET d   == SideOf(tree, at, up)
        t1  == BlackSibling(tree, up, d)
        tmp == t1.kid[Opp(d)][up]
        t3  == Settle(FarRed(t1, up, d), up, d)
    IN  /\ Lacking
        /\ IF \A s \in Side : t1.kid[s][tmp] \notin t1.red
             THEN /\ tree' = [t1 EXCEPT !.red = @ \cup {tmp}]
                  /\ Go(pc, up, t1.parent[up])
             ELSE /\ tree' = [t3 EXCEPT !.red = @ \ {t3.root}]
                  /\ Return(call[2])

RemoveColorEnds == /\ pc = "remove color" /\ ~Lacking
                   /\ tree' = [tree EXCEPT !.red = @ \ {at}]
                   /\ Return(call[2])
-----------------------------------------------------------------------------
Calls == \/ \E op \in {"min", "max"} : Begin(op, NULL, "down", tree.root)
         \/ \E op \in {"insert", "find", "nfind"}, e \in Uses : Begin(op, e, "down", tree.root)
         \/ \E op \in {"next", "prev"}, e \in Members : Begin(op, e, "step", e)
         \/ \E e \in Members : Begin("remove", e, "remove", e)

Next == \/ Calls
        \/ (\E d \in Side : Down(d)) \/ Found \/ Missed \/ Insert
        \/ Neighbour \/ Extreme \/ ExtremeFound \/ Climb
        \/ InsertColor \/ InsertColorEnds
        \/ Remove \/ RemoveInner \/ RemoveNext \/ RemoveColor \/ RemoveColorEnds

Spec == Init /\ [][Next]_vars
-----------------------------------------------------------------------------
(* In the middle of every call the pointers make a search tree: whatever is *)
(* rotated and spliced, a key lies between the keys it hangs between, and   *)
(* the parents lead back.                                                   *)
Linked ==
    /\ SearchTree(tree.kid, tree.root)
    /\ tree.root # NULL => tree.parent[tree.root] = NULL
    /\ \A n \in Members, d \in Side :
          tree.kid[d][n] # NULL => tree.parent[tree.kid[d][n]] = n

(* The number of black nodes from n down to a leaf, going left.             *)
Blacks(t) ==
    LET f[n \in Elements(t.kid, t.root) \cup {NULL}] ==
            IF n = NULL THEN 0 ELSE f[t.kid[LEFT][n]] + Weight(t, n)
    IN  f

(* "Every search path from the root to a leaf consists of the same number   *)
(* of black nodes, each red node (except for the root) has a black parent"  *)
(* (tree.h:48-50), between calls.                                           *)
Balanced ==
    pc = "idle" =>
        \A n \in Members :
            /\ Blacks(tree)[tree.kid[LEFT][n]] = Blacks(tree)[tree.kid[RIGHT][n]]
            /\ n \in tree.red /\ n # tree.root => tree.parent[n] \notin tree.red

(* An element is in the set from the return of RB_INSERT to that of         *)
(* RB_REMOVE.                                                               *)
Held == CASE pc = "insert color" -> Members \ {call[2]}
          [] pc = "remove color" -> Members \cup {call[2]}
          [] OTHER -> Members

(* A red-black tree is the set, and gives the answers, of OrderedSet.       *)
Set == INSTANCE OrderedSet WITH elems <- Held, busy <- (pc # "idle")

SetSpec == Set!Spec
-----------------------------------------------------------------------------
(* A call that has begun goes on.                                           *)
FairSpec == Spec /\ WF_vars(pc # "idle" /\ Next)

(* No loop turns for ever: every call returns.                              *)
CallsReturn == pc # "idle" ~> pc = "idle"
-----------------------------------------------------------------------------
(* The inductive invariant, but for the colours.                            *)
Where(op) == CASE op \in {"min", "max", "find", "nfind"} -> {"down"}
               [] op = "insert" -> {"down", "insert color"}
               [] op \in {"next", "prev"} -> {"step", "extreme", "climb"}
               [] op = "remove" -> {"remove", "extreme", "remove color"}
               [] OTHER -> {}

Calling ==
    /\ call \in ({"init", "min", "max"} \X {NULL})
                \cup ({"insert", "find", "nfind", "next", "prev", "remove"} \X Node)
    /\ pc = "idle" \/ pc \in Where(call[1])
    /\ pc \in {"step", "extreme", "climb", "remove", "insert color"} => call[2] \in Members

Below(n) == Elements(tree.kid, n)

(* No element that was passed has the key, ...                              *)
Passed == pc = "down" /\ call[1] \in {"insert", "find", "nfind"} =>
              \A z \in Members \ Below(at) : Turn(z) # HERE

(* ... and a new leaf belongs where the walk is.                            *)
Placing ==
    pc = "down" /\ call[1] = "insert" =>
        IF up = NULL THEN at = tree.root
        ELSE /\ up \in Members /\ Turn(up) \in Side /\ tree.kid[Turn(up)][up] = at
             /\ \A m \in Members, d \in Side : up \in Below(tree.kid[d][m]) => Turn(m) = d

(* What is not below the walk is on the side that it has left, or beyond    *)
(* `up`, which is next to what is below.                                    *)
Nearest ==
    LET b == IF call[1] = "max" THEN RIGHT ELSE LEFT
    IN  pc = "down" /\ call[1] \in {"min", "max", "nfind"} =>
           /\ up # NULL => /\ up \in Members /\ Turn(up) = b
                           /\ \A w \in Below(at) : Toward(Key[w], up) = b
           /\ \A z \in Members \ Below(at) :
                 \/ Turn(z) = Opp(b)
                 \/ up # NULL /\ (z = up \/ Toward(Key[z], up) = Opp(b))

Stepping ==
    LET e == call[2]
    IN  /\ pc = "step" => at = e
        /\ pc = "extreme" =>
              /\ at \in Below(tree.kid[Beyond][e])
              /\ \A z \in Below(tree.kid[Beyond][e]) :
                    z \in Below(at) \/ Toward(Key[z], at) = Beyond
        /\ pc = "climb" =>
              e \in Below(at) /\ \A z \in Below(at) : Toward(Key[z], e) # Beyond

(* Nobody has the place of an element that was taken out.                   *)
Gone == pc = "remove color" => \A m \in Members : Key[m] # Key[call[2]]

Walk == /\ Calling /\ result \in Pointer
        /\ pc = "idle" => up = NULL
        /\ pc = "down" => at \in Members \cup {NULL}
        /\ pc \in {"step", "extreme", "climb"} => at \in Members
        /\ Passed /\ Placing /\ Nearest /\ Stepping /\ Gone
================================================================================
