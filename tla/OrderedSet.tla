------------------------------ MODULE OrderedSet -------------------------------
(****************************************************************************)
(* What the trees of src/include/tree.h promise: a set of elements with     *)
(* different keys, and questions answered by the order of the keys.  A call *)
(* changes the set and gives its answer when it returns.                    *)
(****************************************************************************)
EXTENDS Integers

CONSTANTS Node,    \* the elements a program may put in a tree
          Key,     \* Key[n]: what cmp compares
          NULL

VARIABLES elems,   \* the elements of the tree
          busy,    \* a call is running
          call,    \* the last call and its argument
          result   \* what it returned

Smallest(S) == IF S = {} THEN NULL
               ELSE CHOOSE x \in S : \A y \in S : Key[x] <= Key[y]
Largest(S)  == IF S = {} THEN NULL
               ELSE CHOOSE x \in S : \A y \in S : Key[x] >= Key[y]

Same(e)   == {x \in elems : Key[x] = Key[e]}
Above(e)  == {x \in elems : Key[x] > Key[e]}
Below(e)  == {x \in elems : Key[x] < Key[e]}

Init == elems = {} /\ busy = FALSE /\ call = <<"init", NULL>> /\ result = NULL

Begin(op, e) == /\ ~busy
                /\ busy' = TRUE
                /\ call' = <<op, e>>
                /\ result' = NULL
                /\ UNCHANGED elems

Return(op, n, S) == /\ busy /\ call[1] = op
                    /\ busy' = FALSE
                    /\ result' = n
                    /\ elems' = S
                    /\ UNCHANGED call

(* The element with the same key that is there, or NULL.                    *)
Insert(e) == Return("insert", Smallest(Same(e)),
                    IF Same(e) = {} THEN elems \cup {e} ELSE elems)

Remove(e) == Return("remove", IF Same(e) = {} THEN NULL ELSE e, elems \ Same(e))

Answer(op, n) == Return(op, n, elems)

Find(e)   == Answer("find",  Smallest(Same(e)))
Nfind(e)  == Answer("nfind", Smallest(Same(e) \cup Above(e)))
NextOf(e) == Answer("next",  Smallest(Above(e)))
PrevOf(e) == Answer("prev",  Largest(Below(e)))
Least     == Answer("min", Smallest(elems))
Greatest  == Answer("max", Largest(elems))

Calls == \/ \E op \in {"min", "max"} : Begin(op, NULL)
         \/ \E op \in {"insert", "remove", "find", "nfind"}, e \in Node : Begin(op, e)
         \/ \E op \in {"next", "prev"}, e \in elems : Begin(op, e)

Returns == \/ Least \/ Greatest
           \/ LET e == call[2] IN \/ Insert(e) \/ Remove(e) \/ Find(e) \/ Nfind(e)
                                  \/ NextOf(e) \/ PrevOf(e)

Next == Calls \/ Returns

Spec == Init /\ [][Next]_<<elems, busy, call, result>>
================================================================================
