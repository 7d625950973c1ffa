------------------------------- MODULE SplayOps --------------------------------
(****************************************************************************)
(* The macros of SPLAY_GENERATE of src/include/tree.h.  A splay walks down  *)
(* from the root and takes the tree apart: what is left of the key that is  *)
(* looked for hangs from acc[LEFT], what is right of it from acc[RIGHT], and*)
(* __node collects both; at the end they become the kids of the root.       *)
(****************************************************************************)
EXTENDS TreeOps

Apart == [s \in Side |-> SCRATCH]

(* SPLAY_LINKLEFT and _LINKRIGHT: the root joins the other side's part and  *)
(* is its new end.                                                          *)
Link(k, acc, root, d) == Put(k, d, acc[Opp(d)], root)

BugSameEnd(acc, root, d) == acc

Ends(acc, root, d) == [acc EXCEPT ![Opp(d)] = root]

(* SPLAY_ASSEMBLE; __node is gone when the splay returns.                   *)
Assemble(k, acc, root) ==
    LET ends == Put(Put(k, RIGHT, acc[LEFT], k[LEFT][root]),
                    LEFT, acc[RIGHT], k[RIGHT][root])
    IN  PutBoth(PutBoth(ends, root, ends[RIGHT][SCRATCH], ends[LEFT][SCRATCH]),
                SCRATCH, NULL, NULL)

BugNoCut(k, root, e, d) == Put(Put(k, d, e, k[d][root]), Opp(d), e, root)

(* SPLAY_INSERT: the root of the splayed tree and what is on the other side *)
(* of it than d go below e.                                                 *)
Split(k, root, e, d) ==
    Put(Put(Put(k, d, e, k[d][root]), Opp(d), e, root), d, root, NULL)
================================================================================
