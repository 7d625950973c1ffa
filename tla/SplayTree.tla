------------------------------- MODULE SplayTree -------------------------------
(****************************************************************************)
(* A program that keeps elements in a splay tree (SPLAY_GENERATE of         *)
(* src/include/tree.h).  It inserts any element, removes and asks in any    *)
(* order; SPLAY_NEXT is called with elements of the tree, as its code       *)
(* requires.  A call runs in steps, one for each turn of a loop, since what *)
(* its loops do to the pointers is what can go wrong.                       *)
(****************************************************************************)
EXTENDS SplayOps

CONSTANT Uses      \* the elements that the program has

ASSUME UsesAssumption == Uses \subseteq Node

VARIABLES root,    \* sph_root
          kid,     \* spe_left and spe_right of all elements, and of __node
          acc,     \* __left and __right
          pc,      \* where the call is
          call,    \* the function and its argument
          tmp,     \* __tmp of SPLAY_REMOVE, elm of SPLAY_NEXT
          gone,    \* the element that SPLAY_REMOVE takes out
          result   \* what the call returned

vars == <<root, kid, acc, pc, call, tmp, gone, result>>

Init == /\ root = NULL
        /\ kid = NoKids
        /\ acc = Apart
        /\ pc = "idle"
        /\ call = <<"init", NULL>>
        /\ tmp = NULL
        /\ gone = NULL
        /\ result = NULL

(* Where the call's argument belongs; SPLAY_MINMAX goes always one way.     *)
Turn(n) == CASE call[1] = "min" -> LEFT
             [] call[1] = "max" -> RIGHT
             [] OTHER -> Toward(Key[call[2]], n)

(* The splay starts, with the loop of SPLAY or of SPLAY_MINMAX to come.     *)
Start(where) == /\ acc' = Apart
                /\ kid' = PutBoth(kid, SCRATCH, NULL, NULL)
                /\ pc' = where

(* An empty tree is not splayed.                                            *)
Begin(op, e) == /\ pc = "idle"
                /\ call' = <<op, e>>
                /\ result' = NULL
                /\ IF root = NULL THEN pc' = "top" /\ UNCHANGED <<acc, kid>>
                                  ELSE Start("splay")
                /\ UNCHANGED <<root, tmp, gone>>

Splaying(d) == /\ pc \in {"splay", "join"}
               /\ Turn(root) = d
               /\ kid[d][root] # NULL

BugSameRoot(d, k, top) == /\ kid' = Link(k, acc, top, d)
                          /\ acc' = Ends(acc, top, d)
                          /\ root' = top
                          /\ UNCHANGED <<pc, call, tmp, gone, result>>

Descend(d, k, top) == /\ kid' = Link(k, acc, top, d)
                      /\ acc' = Ends(acc, top, d)
                      /\ root' = kid'[d][top]
                      /\ UNCHANGED <<pc, call, tmp, gone, result>>

Finish(k, top) == /\ kid' = Assemble(k, acc, top)
                  /\ root' = top
                  /\ acc' = Apart
                  /\ pc' = IF pc = "splay" THEN "top" ELSE "joined"
                  /\ UNCHANGED <<call, tmp, gone, result>>

(* The turns of the loop: the kid is where the key turns back, or it is     *)
(* rotated up first.                                                        *)
Zig(d) == /\ Splaying(d)
          /\ Turn(kid[d][root]) # d
          /\ Descend(d, kid, root)

ZigZig(d) == /\ Splaying(d)
             /\ Turn(kid[d][root]) = d
             /\ kid[d][kid[d][root]] # NULL
             /\ Descend(d, Rotate(kid, root, d), kid[d][root])

(* The ends of the loop.                                                    *)
Stop == /\ pc \in {"splay", "join"}
        /\ Turn(root) = HERE \/ \E d \in Side : Turn(root) = d /\ kid[d][root] = NULL
        /\ Finish(kid, root)

BugNoRotate(d) == /\ Splaying(d)
                  /\ Turn(kid[d][root]) = d
                  /\ kid[d][kid[d][root]] = NULL
                  /\ Finish(kid, root)

RotateAndStop(d) == /\ Splaying(d)
                    /\ Turn(kid[d][root]) = d
                    /\ kid[d][kid[d][root]] = NULL
                    /\ Finish(Rotate(kid, root, d), kid[d][root])

Splay == Stop \/ \E d \in Side : Zig(d) \/ ZigZig(d) \/ RotateAndStop(d)
-----------------------------------------------------------------------------
Return(n) == /\ result' = n
             /\ pc' = "idle"
             /\ tmp' = NULL
             /\ gone' = NULL
             /\ UNCHANGED <<acc, call>>

Called(op) == pc = "top" /\ call[1] = op

Present == root # NULL /\ Turn(root) = HERE

Insert == LET e == call[2]
          IN  /\ Called("insert")
              /\ IF Present THEN Return(root) /\ UNCHANGED <<root, kid>>
                 ELSE /\ Return(NULL)
                      /\ root' = e
                      /\ kid' = IF root = NULL THEN PutBoth(kid, e, NULL, NULL)
                                ELSE Split(kid, root, e, Turn(root))

Find == /\ Called("find")
        /\ Return(IF Present THEN root ELSE NULL)
        /\ UNCHANGED <<root, kid>>

(* SPLAY_MIN and _MAX.                                                      *)
MinMax == /\ Called("min") \/ Called("max")
          /\ Return(root)
          /\ UNCHANGED <<root, kid>>

(* What the memory of a removed element holds is up to its user.            *)
ForgetKids(k, n) == PutBoth(k, n, NULL, NULL)

(* The element that is returned is the argument, which has the key of the   *)
(* one that is taken out.                                                   *)
Remove == /\ Called("remove")
          /\ IF ~Present THEN Return(NULL) /\ UNCHANGED <<root, kid>>
             ELSE /\ kid[LEFT][root] = NULL
                  /\ Return(call[2])
                  /\ root' = kid[RIGHT][root]
                  /\ kid' = ForgetKids(kid, root)

(* The largest of what is left of the root is to take its place.            *)
RemoveInner == /\ Called("remove") /\ Present
               /\ kid[LEFT][root] # NULL
               /\ tmp' = kid[RIGHT][root]
               /\ gone' = root
               /\ root' = kid[LEFT][root]
               /\ Start("join")
               /\ UNCHANGED <<call, result>>

Join == /\ pc = "joined"
        /\ Return(call[2])
        /\ kid' = ForgetKids(Put(kid, RIGHT, root, tmp), gone)
        /\ UNCHANGED root

Walk(n) == /\ tmp' = n
           /\ pc' = "walk"
           /\ UNCHANGED <<root, kid, acc, call, gone, result>>

Following == LET r == kid[RIGHT][call[2]]
             IN  /\ Called("next")
                 /\ IF r # NULL THEN Walk(r)
                    ELSE Return(NULL) /\ UNCHANGED <<root, kid>>

WalkOn == /\ pc = "walk"
          /\ IF kid[LEFT][tmp] # NULL THEN Walk(kid[LEFT][tmp])
             ELSE Return(tmp) /\ UNCHANGED <<root, kid>>
-----------------------------------------------------------------------------
Calls == \/ \E op \in {"min", "max"} : Begin(op, NULL)
         \/ \E op \in {"insert", "remove", "find"}, e \in Uses : Begin(op, e)
         \/ \E e \in Elements(kid, root) : Begin("next", e)

Next == \/ Calls \/ Splay
        \/ Insert \/ Find \/ MinMax \/ Remove \/ RemoveInner \/ Join \/ Following \/ WalkOn

Spec == Init /\ [][Next]_vars
-----------------------------------------------------------------------------
(* The parts that a splay has taken the tree into: cut where the last       *)
(* elements that were linked will get their kids, __node holds two of them. *)
Cut(k, a) == Put(Put(k, RIGHT, a[LEFT], NULL), LEFT, a[RIGHT], NULL)

Part(k, a, s) == LET c == Cut(k, a) IN Elements(c, c[Opp(s)][SCRATCH])

Pieces(k, a, r) ==
    Elements(Cut(k, a), r) \cup Part(k, a, LEFT) \cup Part(k, a, RIGHT)

Rest == IF gone = NULL THEN {} ELSE Elements(Cut(kid, acc), tmp)

Held == Pieces(kid, acc, root) \cup Rest \cup ({gone} \ {NULL})

(* Between calls the pointers make a search tree, whatever was rotated and  *)
(* taken apart: a key lies between the keys it hangs between.               *)
Linked == pc = "idle" => SearchTree(kid, root)

(* "The splay moves the requested node to the root of the tree" (tree.h:35),*)
(* and "close to the key of elm" (157) when it is not there: no key lies    *)
(* between the one that was asked for and the one on top.                   *)
RequestedOnTop ==
    pc = "idle" /\ call[1] \in {"insert", "find", "next"} =>
        \A n \in Elements(kid, root) :
            /\ ~(Key[call[2]] <= Key[n] /\ Key[n] < Key[root])
            /\ ~(Key[root] < Key[n] /\ Key[n] <= Key[call[2]])

(* A splay tree is the set, and gives the answers, of OrderedSet.           *)
Set == INSTANCE OrderedSet WITH elems <- Held, busy <- (pc # "idle")

SetSpec == Set!Spec
-----------------------------------------------------------------------------
(* A call that has begun goes on.                                           *)
FairSpec == Spec /\ WF_vars(pc # "idle" /\ Next)

(* No loop turns for ever: every call returns.                              *)
CallsReturn == pc # "idle" ~> pc = "idle"
-----------------------------------------------------------------------------
(* The inductive invariant.  Of the parts, each is a search tree; all of    *)
(* the left part lies left of the key that is looked for and of what is     *)
(* still to be taken apart, and its last element is the largest of it.      *)
Calling == \/ call = <<"init", NULL>> /\ pc = "idle"
           \/ call[1] \in {"min", "max"} /\ call = <<call[1], NULL>>
           \/ /\ call[1] \in {"insert", "remove", "find", "next"}
              /\ call[2] \in Node
              /\ call = <<call[1], call[2]>>

TypeOK == /\ root \in Pointer
          /\ kid \in Memory
          /\ acc \in [Side -> Cell]
          /\ pc \in {"idle", "splay", "top", "join", "joined", "walk"}
          /\ Calling
          /\ tmp \in Pointer
          /\ gone \in Pointer
          /\ result \in Pointer

Opened(k, a, r) ==
    /\ SearchTree(Cut(k, a), r)
    /\ \A s \in Side :
          /\ SearchTree(Cut(k, a), Cut(k, a)[Opp(s)][SCRATCH])
          /\ a[s] \in Part(k, a, s) \cup {SCRATCH}
          /\ \A m \in Part(k, a, s) :
                /\ Turn(m) = Opp(s)
                /\ m = a[s] \/ Toward(Key[a[s]], m) = Opp(s)
                /\ \A x \in Elements(Cut(k, a), r) : Toward(Key[x], m) = Opp(s)

Whole(k, a) == a = Apart /\ \A d \in Side : k[d][SCRATCH] = NULL

Shape == IF pc \in {"splay", "join"} THEN root # NULL /\ Opened(kid, acc, root)
                                     ELSE Whole(kid, acc) /\ SearchTree(kid, root)

(* On the side of the root where the key belongs, all lie beyond the key.   *)
Splayed(k, r) == \A m \in Elements(k, r) :
                    Turn(r) # HERE /\ Toward(Key[m], r) = Turn(r) => Turn(m) = Opp(Turn(r))

OnTop == pc \in {"top", "joined"} => Splayed(kid, root)

Removing ==
    /\ gone # NULL <=> pc \in {"join", "joined"}
    /\ gone # NULL =>
          /\ call[1] = "remove" /\ Key[gone] = Key[call[2]] /\ root # NULL
          /\ SearchTree(Cut(kid, acc), tmp)
          /\ \A x \in Rest : Toward(Key[x], gone) = RIGHT
          /\ \A x \in Pieces(kid, acc, root) : Toward(Key[x], gone) = LEFT

(* What is right of the root lies below the element reached, or beyond it.  *)
Walking ==
    LET above == Elements(kid, kid[RIGHT][root])
    IN  /\ call[1] = "next" /\ pc # "idle" => call[2] \in Held
        /\ pc = "walk" =>
              /\ call[1] = "next" /\ root = call[2]
              /\ tmp \in above
              /\ \A x \in above : x \in Elements(kid, tmp) \/ Toward(Key[x], tmp) = RIGHT

Inv == TypeOK /\ Shape /\ OnTop /\ Removing /\ Walking /\ RequestedOnTop
================================================================================
