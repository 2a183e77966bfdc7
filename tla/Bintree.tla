------------------------------ MODULE Bintree ------------------------------
(***************************************************************************)
(* librfn/bintree.c: iterators that need neither recursion nor memory.     *)
(* The in-order and pre-order iterators thread the tree while they walk    *)
(* it; the post-order iterator marks every node first, by making its left  *)
(* pointer odd.  An action is one turn of a loop.  The caller iterates to  *)
(* the end (bintree_iterate_complete is there for that).                   *)
(***************************************************************************)
EXTENDS Naturals, Sequences, FiniteSets, TLC, SequencesExt

CONSTANT MaxNodes

\* A node is its address, which is even.
NULL == 0
Even(p) == p - (p % 2)
Odd(p) == Even(p) + 1

\* Every tree whose in-order sequence is the addresses 2 * lo, ..., 2 * hi.
RECURSIVE Trees(_, _)
Trees(lo, hi) ==
    IF lo > hi
    THEN {[root |-> NULL, left |-> <<>>, right |-> <<>>]}
    ELSE UNION {{[root |-> 2 * r,
                  left |-> (2 * r :> a.root) @@ a.left @@ b.left,
                  right |-> (2 * r :> b.root) @@ a.right @@ b.right] :
                 a \in Trees(lo, r - 1), b \in Trees(r + 1, hi)} : r \in lo .. hi}

VARIABLES
    left, right,    \* the pointers of each node
    orig,           \* the tree as its owner sees it: root, left and right
    freed,          \* nodes handed to dealloc
    op,             \* the operation in progress, or "none"
    tree,           \* the tree it was given
    lists,          \* the nodes for which is_list() is true
    iter,           \* bintree_iterator_t: next, curr, parent
    pc, curr, prev, \* the loop that runs, and its local variables
    marking,        \* bintree_iterate_post_order is using the iterator
    ret,            \* what the iterator returned
    out             \* the nodes visited so far

shape == <<left, right>>
local == <<pc, curr, prev>>
call == <<op, tree, lists, orig>>
vars == <<shape, orig, freed, op, tree, lists, iter, local, marking, ret, out>>

Nodes == DOMAIN left

Init ==
    /\ \E n \in 0 .. MaxNodes : orig \in Trees(1, n)
    /\ left = orig.left /\ right = orig.right
    /\ freed = {} /\ lists = {} /\ op = "none" /\ tree = NULL
    /\ iter = [next |-> "in", curr |-> NULL, parent |-> NULL]
    /\ pc = "idle" /\ curr = NULL /\ prev = NULL
    /\ marking = FALSE /\ ret = NULL /\ out = <<>>

-----------------------------------------------------------------------------
(* The recursive traversals, as the visits they make *)

Visit(n, parent, depth) == <<[node |-> n, parent |-> parent, depth |-> depth]>>

\* bintree_traverse_in_order, bintree_traverse_post_order and
\* bintree_traverse_pre_order also visit the missing children.
RECURSIVE TraverseInOrder(_, _, _), TraversePostOrder(_, _, _),
          TraversePreOrder(_, _, _), TraverseList(_, _)
TraverseInOrder(t, parent, depth) ==
    IF t = NULL THEN Visit(t, parent, depth)
    ELSE TraverseInOrder(orig.left[t], t, depth + 1)
         \o Visit(t, parent, depth)
         \o TraverseInOrder(orig.right[t], t, depth + 1)

TraversePostOrder(t, parent, depth) ==
    (IF t = NULL THEN <<>>
     ELSE TraversePostOrder(orig.left[t], t, depth + 1)
          \o TraversePostOrder(orig.right[t], t, depth + 1))
    \o Visit(t, parent, depth)

TraversePreOrder(t, parent, depth) ==
    Visit(t, parent, depth)
    \o (IF t = NULL THEN <<>>
        ELSE TraversePreOrder(orig.left[t], t, depth + 1)
             \o TraversePreOrder(orig.right[t], t, depth + 1))

TraverseList(t, L) ==
    CASE t = NULL -> <<>>
      [] t # NULL /\ t \in L ->
             TraverseList(orig.left[t], L) \o TraverseList(orig.right[t], L)
      [] OTHER -> Visit(t, NULL, 0)

Subtree(t) == {v.node : v \in Range(TraversePreOrder(t, NULL, 0))} \ {NULL}

-----------------------------------------------------------------------------
(* Calls *)

\* iter->next is called: its function starts from iter->curr.
Enter(it) ==
    /\ iter' = it
    /\ pc' = it.next /\ curr' = it.curr
    /\ prev' = IF it.next = "left" THEN it.parent ELSE NULL

Return(r) == pc' = "back" /\ ret' = r /\ UNCHANGED <<curr, prev>>

\* bintree_iterate_in_order, bintree_iterate_pre_order
IterateInOrPre(o) ==
    /\ pc = "idle" /\ o \in {"in", "pre"}
    /\ op' = o /\ tree' = orig.root /\ out' = <<>>
    /\ Enter([iter EXCEPT !.next = o, !.curr = orig.root])
    /\ UNCHANGED <<shape, orig, freed, lists, marking, ret>>

\* bintree_iterate_post_order, for itself or for bintree_free and the two
\* forms that free a child
IteratePostOrder(o) ==
    /\ pc = "idle"
    /\ tree' = CASE o \in {"post", "free"} -> orig.root
                 [] o = "free_left" -> orig.left[orig.root]
                 [] o = "free_right" -> orig.right[orig.root]
    /\ o \in {"free_left", "free_right"} => tree' # NULL
    /\ op' = o /\ out' = <<>> /\ marking' = TRUE
    /\ Enter([iter EXCEPT !.next = "in", !.curr = tree'])
    /\ UNCHANGED <<shape, orig, freed, lists, ret>>

\* A list leans to one side, and a list node has two children.
Leans(L, side, other) ==
    \A n \in L :
        /\ side[n] # NULL /\ other[n] \notin L \cup {NULL}
        /\ n = orig.root \/ \E m \in L : side[m] = n

\* bintree_iterate_list: it first walks down a list that leans to the left
IterateList(L) ==
    /\ pc = "idle" /\ orig.root # NULL
    /\ ~ Leans(L, orig.left, orig.right) => Leans(L, orig.right, orig.left)
    /\ op' = "list" /\ tree' = orig.root /\ lists' = L /\ out' = <<>>
    /\ IF {orig.root, left[orig.root]} \subseteq L
       THEN /\ iter' = [iter EXCEPT !.next = "left", !.parent = orig.root]
            /\ pc' = "descend" /\ curr' = left[orig.root] /\ prev' = NULL
       ELSE Enter([iter EXCEPT !.next = "right", !.curr = orig.root])
    /\ UNCHANGED <<shape, orig, freed, marking, ret>>

-----------------------------------------------------------------------------
(* in_order_iterator and pre_order_iterator *)

\* A node without left sub-tree, or the end.
OrderReturn ==
    /\ pc \in {"in", "pre"}
    /\ curr # NULL => left[curr] = NULL
    /\ iter' = [iter EXCEPT !.curr = IF curr = NULL THEN NULL ELSE right[curr]]
    /\ Return(curr)
    /\ UNCHANGED <<shape, call, freed, marking, out>>

\* Search for the in-order predecessor.
OrderSearch ==
    /\ pc \in {"in", "pre"} /\ prev = NULL
    /\ curr # NULL /\ left[curr] # NULL
    /\ prev' = left[curr]
    /\ UNCHANGED <<shape, call, freed, iter, pc, curr, marking, ret, out>>

OrderSearchOn ==
    /\ pc \in {"in", "pre"} /\ prev # NULL
    /\ right[prev] \notin {NULL, curr}
    /\ prev' = right[prev]
    /\ UNCHANGED <<shape, call, freed, iter, pc, curr, marking, ret, out>>

\* The first time: let the predecessor lead back here, and go left.
OrderThread ==
    /\ pc \in {"in", "pre"} /\ prev # NULL /\ right[prev] = NULL
    /\ right' = [right EXCEPT ![prev] = curr]
    /\ IF pc = "in"
       THEN curr' = left[curr] /\ prev' = NULL /\ UNCHANGED <<iter, pc, ret>>
       ELSE iter' = [iter EXCEPT !.curr = left[curr]] /\ Return(curr)
    /\ UNCHANGED <<left, call, freed, marking, out>>

\* (Operators named Bug... are plausible mistakes in the definition that
\* follows them; each breaks a property below.)
BugOrderUnthread ==
    /\ pc \in {"in", "pre"} /\ prev # NULL /\ right[prev] = curr
    /\ UNCHANGED right
    /\ IF pc = "in"
       THEN iter' = [iter EXCEPT !.curr = right[curr]] /\ Return(curr)
       ELSE curr' = right[curr] /\ prev' = NULL /\ UNCHANGED <<iter, pc, ret>>
    /\ UNCHANGED <<left, call, freed, marking, out>>

\* The second time: undo that, and go right.
OrderUnthread ==
    /\ pc \in {"in", "pre"} /\ prev # NULL /\ right[prev] = curr
    /\ right' = [right EXCEPT ![prev] = NULL]
    /\ IF pc = "in"
       THEN iter' = [iter EXCEPT !.curr = right[curr]] /\ Return(curr)
       ELSE curr' = right[curr] /\ prev' = NULL /\ UNCHANGED <<iter, pc, ret>>
    /\ UNCHANGED <<left, call, freed, marking, out>>

-----------------------------------------------------------------------------
(* post_order_iterator *)

IsVisited(n) == left[n] % 2 = 0
Unvisited(p) == p # NULL /\ ~ IsVisited(p)

\* bintree_iterate_post_order marks what the in-order iterator returns...
Mark ==
    /\ pc = "back" /\ marking /\ ret # NULL
    /\ left' = [left EXCEPT ![ret] = Odd(@)]
    /\ Enter(iter)
    /\ UNCHANGED <<right, call, freed, marking, ret, out>>

\* ... and then adopts the iterator.
Adopt ==
    /\ pc = "back" /\ marking /\ ret = NULL
    /\ marking' = FALSE
    /\ Enter([iter EXCEPT !.next = "post", !.curr = tree])
    /\ UNCHANGED <<shape, call, freed, ret, out>>

PostEnd ==
    /\ pc = "post" /\ ~ Unvisited(curr)
    /\ Return(NULL)
    /\ UNCHANGED <<shape, call, freed, iter, marking, out>>

BugPostLeft ==
    /\ pc = "post" /\ Unvisited(curr) /\ Unvisited(Even(left[curr]))
    /\ prev' = curr /\ curr' = left[curr]
    /\ UNCHANGED <<shape, call, freed, iter, pc, marking, ret, out>>

PostLeft ==
    /\ pc = "post" /\ Unvisited(curr) /\ Unvisited(Even(left[curr]))
    /\ prev' = curr /\ curr' = Even(left[curr])
    /\ UNCHANGED <<shape, call, freed, iter, pc, marking, ret, out>>

PostRight ==
    /\ pc = "post" /\ Unvisited(curr) /\ ~ Unvisited(Even(left[curr]))
    /\ Unvisited(right[curr])
    /\ prev' = curr /\ curr' = right[curr]
    /\ UNCHANGED <<shape, call, freed, iter, pc, marking, ret, out>>

BugPostVisit ==
    /\ pc = "post" /\ Unvisited(curr) /\ ~ Unvisited(Even(left[curr]))
    /\ ~ Unvisited(right[curr])
    /\ left' = [left EXCEPT ![curr] = Even(@)]
    /\ iter' = [iter EXCEPT !.parent = prev]
    /\ Return(curr)
    /\ UNCHANGED <<right, call, freed, marking, out>>

BugPostNoRestore ==
    /\ pc = "post" /\ Unvisited(curr) /\ ~ Unvisited(Even(left[curr]))
    /\ ~ Unvisited(right[curr])
    /\ left' = [left EXCEPT ![curr] = NULL]
    /\ iter' = [iter EXCEPT !.curr = IF curr = @ THEN NULL ELSE @,
                            !.parent = prev]
    /\ Return(curr)
    /\ UNCHANGED <<right, call, freed, marking, out>>

\* iter->curr must not be looked at again when the caller frees the root.
PostVisit ==
    /\ pc = "post" /\ Unvisited(curr) /\ ~ Unvisited(Even(left[curr]))
    /\ ~ Unvisited(right[curr])
    /\ left' = [left EXCEPT ![curr] = Even(@)]
    /\ iter' = [iter EXCEPT !.curr = IF curr = @ THEN NULL ELSE @,
                            !.parent = prev]
    /\ Return(curr)
    /\ UNCHANGED <<right, call, freed, marking, out>>

-----------------------------------------------------------------------------
(* bintree_iterate_list, list_left_iterator and list_right_iterator *)

Descend ==
    /\ pc = "descend"
    /\ IF left[curr] \in lists
       THEN curr' = left[curr] /\ UNCHANGED <<iter, pc, prev, ret>>
       ELSE iter' = [iter EXCEPT !.curr = curr] /\ Return(left[curr])
    /\ UNCHANGED <<shape, call, freed, marking, out>>

ListLeftEnd ==
    /\ pc = "left" /\ curr = NULL
    /\ Return(NULL)
    /\ UNCHANGED <<shape, call, freed, iter, marking, out>>

\* Walk from the top until we reach the current element, and step up.
ListLeftWalk ==
    /\ pc = "left" /\ curr # NULL /\ curr # prev /\ left[prev] # curr
    /\ prev' = left[prev]
    /\ UNCHANGED <<shape, call, freed, iter, pc, curr, marking, ret, out>>

BugListLeft ==
    /\ pc = "left" /\ curr # NULL
    /\ curr # prev => left[prev] = curr
    /\ iter' = [iter EXCEPT !.curr = IF curr = prev THEN NULL ELSE prev]
    /\ Return(left[curr])
    /\ UNCHANGED <<shape, call, freed, marking, out>>

ListLeft ==
    /\ pc = "left" /\ curr # NULL
    /\ curr # prev => left[prev] = curr
    /\ iter' = [iter EXCEPT !.curr = IF curr = prev THEN NULL ELSE prev]
    /\ Return(right[curr])
    /\ UNCHANGED <<shape, call, freed, marking, out>>

ListRight ==
    /\ pc = "right"
    /\ IF curr \in lists
       THEN iter' = [iter EXCEPT !.curr = right[curr]] /\ Return(left[curr])
       ELSE iter' = [iter EXCEPT !.curr = NULL] /\ Return(curr)
    /\ UNCHANGED <<shape, call, freed, marking, out>>

-----------------------------------------------------------------------------
(* The caller's loop *)

Frees == op \in {"free", "free_left", "free_right"}
AtCaller == pc = "back" /\ ~ marking

\* The caller looks at the node and calls bintree_next.
UseNode ==
    /\ AtCaller /\ ret # NULL /\ ~ Frees
    /\ out' = Append(out, ret)
    /\ Enter(iter)
    /\ UNCHANGED <<shape, call, freed, marking, ret>>

\* bintree_free: the parent must forget the node; its left pointer stays odd.
FreeNode ==
    /\ AtCaller /\ ret # NULL /\ Frees
    /\ freed' = freed \cup {ret}
    /\ LET p == iter.parent
       IN  CASE p = NULL -> UNCHANGED shape
             [] p # NULL /\ right[p] = ret ->
                    right' = [right EXCEPT ![p] = NULL] /\ UNCHANGED left
             [] OTHER -> left' = [left EXCEPT ![p] = 1] /\ UNCHANGED right
    /\ out' = Append(out, ret)
    /\ Enter(iter)
    /\ UNCHANGED <<call, marking, ret>>

\* The loop is over.  bintree_free_left and bintree_free_right forget the
\* child; the caller of bintree_free forgets the tree.
Finish ==
    /\ AtCaller /\ ret = NULL
    /\ CASE op = "free_left" -> left' = [left EXCEPT ![orig.root] = NULL]
         [] op # "free_left" -> UNCHANGED left
    /\ CASE op = "free_right" -> right' = [right EXCEPT ![orig.root] = NULL]
         [] op # "free_right" -> UNCHANGED right
    /\ orig' = CASE op = "free" -> [orig EXCEPT !.root = NULL]
                 [] op = "free_left" -> [orig EXCEPT !.left[orig.root] = NULL]
                 [] op = "free_right" -> [orig EXCEPT !.right[orig.root] = NULL]
                 [] OTHER -> orig
    /\ op' = "none" /\ tree' = NULL /\ lists' = {} /\ out' = <<>>
    /\ pc' = "idle" /\ curr' = NULL /\ prev' = NULL
    /\ iter' = [next |-> "in", curr |-> NULL, parent |-> NULL]
    /\ UNCHANGED <<freed, marking, ret>>

Call ==
    \/ \E o \in {"in", "pre"} : IterateInOrPre(o)
    \/ IteratePostOrder("post") \/ IteratePostOrder("free")
    \/ orig.root # NULL /\ \E o \in {"free_left", "free_right"} : IteratePostOrder(o)
    \/ \E L \in SUBSET Subtree(orig.root) : IterateList(L)

Step ==
    \/ OrderReturn \/ OrderSearch \/ OrderSearchOn \/ OrderThread \/ OrderUnthread
    \/ Mark \/ Adopt \/ PostEnd \/ PostLeft \/ PostRight \/ PostVisit
    \/ Descend \/ ListLeftEnd \/ ListLeftWalk \/ ListLeft \/ ListRight
    \/ UseNode \/ FreeNode \/ Finish

Next == Call \/ Step

\* Fairness: the program goes on.
Spec == Init /\ [][Next]_vars /\ WF_vars(Step)

-----------------------------------------------------------------------------
(* Properties *)

TypeOK ==
    /\ \A n \in Nodes : /\ Even(left[n]) \in Nodes \cup {NULL}
                        /\ right[n] \in Nodes \cup {NULL}
    /\ curr \in Nodes \cup {NULL} /\ prev \in Nodes \cup {NULL}
    /\ iter.curr \in Nodes \cup {NULL} /\ iter.parent \in Nodes \cup {NULL}
    /\ ret \in Nodes \cup {NULL} /\ freed \subseteq Nodes

\* The visits that the traversal of the same kind makes.
Expected ==
    LET visits == CASE op = "in" -> TraverseInOrder(tree, NULL, 0)
                    [] op = "pre" -> TraversePreOrder(tree, NULL, 0)
                    [] op = "list" -> TraverseList(tree, lists)
                    [] OTHER -> TraversePostOrder(tree, NULL, 0)
    IN  SelectSeq(visits, LAMBDA v : v.node # NULL)

\* An iterator returns what the recursive traversal visits, node by node and
\* with nothing missing at the end; in post-order it also knows the parent.
AsTraversed ==
    AtCaller =>
        IF ret = NULL
        THEN Len(out) = Len(Expected)
        ELSE LET k == Len(out) + 1
             IN  /\ k <= Len(Expected) /\ Expected[k].node = ret
                 /\ iter.next = "post" => Expected[k].parent = iter.parent

\* When an iteration is over, the tree is what its owner thinks it is; and in
\* post-order, so is the sub-tree of the node being visited ("safe to further
\* iterate within the sub-tree", bintree_iterate_post_order).
Restored ==
    \A n \in IF pc = "idle" THEN Subtree(orig.root)
            ELSE IF AtCaller /\ op = "post" THEN Subtree(ret) ELSE {} :
        left[n] = orig.left[n] /\ right[n] = orig.right[n] /\ n \notin freed

\* What the iterators and bintree_free look at next is a node or NULL, and has not
\* been freed.
NoUseAfterFree ==
    /\ TypeOK
    /\ pc = "post" =>
           /\ curr \notin freed
           /\ Unvisited(curr) =>
                  /\ Even(left[curr]) \notin freed
                  /\ ~ Unvisited(Even(left[curr])) => right[curr] \notin freed
    /\ (AtCaller /\ Frees) => iter.parent \notin freed
    /\ pc \in {"in", "pre", "left", "right", "descend"} => {curr, prev} \cap freed = {}

\* Every iteration comes to an end, threads and marks notwithstanding.
Ends == op # "none" ~> op = "none"
=============================================================================
