-------------------------------- MODULE List --------------------------------
(***************************************************************************)
(* librfn/list.c with its pointers.  A list_node_t has its next pointer,   *)
(* and a list_t its head pointer, at offset 0, so an address stands for    *)
(* either: an iterator's prevnext is the address of a list or of a node,   *)
(* and containerof(prevnext, list_node_t, next) is the address itself.     *)
(* Calls are made as list.h intends: a node that is inserted is on no      *)
(* list, and an iterator is not used after another change to its list.     *)
(***************************************************************************)
EXTENDS Integers, FiniteSets

CONSTANTS Nodes, Lists, NULL

ASSUME ListAssumption ==
    /\ IsFiniteSet(Nodes)
    /\ Nodes \cap Lists = {} /\ NULL \notin Nodes \cup Lists
    /\ NULL \notin [list : Lists, at : Lists \cup Nodes]

VARIABLES
    ptr,        \* the pointer at each address: a list's head, a node's next
    tail,       \* list_t.tail, which may be the list's own address
    key,        \* what nodecmp compares
    iter,       \* the iterator in use, or NULL
    res         \* what the last call returned; TRUE where it returns nothing

vars == <<ptr, tail, key, iter, res>>

\* The k-th pointer that a walk along l looks at.
Addr(l) ==
    LET a[k \in 0 .. Cardinality(Nodes)] ==
            IF k = 0 THEN l
            ELSE LET b == a[k - 1] IN IF ptr[b] = NULL THEN b ELSE ptr[b]
    IN a

Walk(l) == {Addr(l)[k] : k \in 0 .. Cardinality(Nodes)}
NodesOf(l) == Walk(l) \ {l}

\* The first address on the walk where Stop holds of the node it points to.
\* (list_iterate, and list_iterator_next as long as Stop is false)
Seek(l, Stop(_)) ==
    Addr(l)[CHOOSE k \in 0 .. Cardinality(Nodes) :
                /\ Stop(ptr[Addr(l)[k]])
                /\ \A j \in 0 .. k - 1 : ~ Stop(ptr[Addr(l)[j]])]

Free(n) == \A l \in Lists : n \notin Walk(l)

Init ==
    /\ ptr = [a \in Lists \cup Nodes |-> NULL]
    /\ tail = [l \in Lists |-> NULL]
    /\ key \in [Nodes -> {0, 1}]
    /\ iter = NULL /\ res = TRUE

Forget(l) == iter' = IF iter # NULL /\ iter.list = l THEN NULL ELSE iter

-----------------------------------------------------------------------------

\* list_insert
Insert(l, n) ==
    /\ Free(n)
    /\ ptr' = [ptr EXCEPT ![IF ptr[l] # NULL THEN tail[l] ELSE l] = n]
    /\ tail' = [tail EXCEPT ![l] = n]
    /\ res' = TRUE
    /\ Forget(l) /\ UNCHANGED key

\* (Operators named Bug... are plausible mistakes in the definition that
\* follows them; each breaks a property below.)
BugInsertSorted(l, n) ==
    /\ Free(n)
    /\ LET a == Seek(l, LAMBDA c : c = NULL \/ key[n] - key[c] =< 0)
       IN  /\ ptr' = [ptr EXCEPT ![a] = n, ![n] = ptr[a]]
           /\ tail' = IF ptr[a] = NULL THEN [tail EXCEPT ![l] = n] ELSE tail
    /\ res' = TRUE
    /\ Forget(l) /\ UNCHANGED key

\* list_insert_sorted: the empty list, the end, or before the first node that
\* comes after n
InsertSorted(l, n) ==
    /\ Free(n)
    /\ IF ptr[l] = NULL \/ key[n] - key[tail[l]] >= 0
       THEN /\ ptr' = [ptr EXCEPT ![IF ptr[l] # NULL THEN tail[l] ELSE l] = n]
            /\ tail' = [tail EXCEPT ![l] = n]
       ELSE LET a == Seek(l, LAMBDA c : key[n] - key[c] < 0)
            IN  /\ ptr' = [ptr EXCEPT ![a] = n, ![n] = ptr[a]]
                /\ UNCHANGED tail
    /\ res' = TRUE
    /\ Forget(l) /\ UNCHANGED key

\* list_push
Push(l, n) ==
    /\ Free(n)
    /\ ptr' = [ptr EXCEPT ![n] = ptr[l], ![l] = n]
    /\ tail' = IF ptr[l] = NULL THEN [tail EXCEPT ![l] = n] ELSE tail
    /\ res' = TRUE
    /\ Forget(l) /\ UNCHANGED key

\* list_extract: the tail of a list that becomes empty is left as it was.
Extract(l) ==
    IF ptr[l] = NULL
    THEN res' = NULL /\ UNCHANGED <<ptr, tail, key, iter>>
    ELSE /\ ptr' = [ptr EXCEPT ![l] = ptr[ptr[l]], ![ptr[l]] = NULL]
         /\ res' = ptr[l]
         /\ Forget(l) /\ UNCHANGED <<tail, key>>

BugUnlink(l, a) ==
    /\ ptr' = [ptr EXCEPT ![a] = ptr[ptr[a]], ![ptr[a]] = NULL]
    /\ UNCHANGED tail

\* list_iterator_remove, for the iterator [list |-> l, at |-> a]
Unlink(l, a) ==
    /\ tail' = IF tail[l] = ptr[a] THEN [tail EXCEPT ![l] = a] ELSE tail
    /\ ptr' = [ptr EXCEPT ![a] = ptr[ptr[a]], ![ptr[a]] = NULL]

\* Where list_contains stops: at the pointer to n, or at the last pointer.
Find(l, n) == Seek(l, LAMBDA c : c \in {n, NULL})

\* list_remove
Remove(l, n) ==
    LET a == Find(l, n)
    IN  IF ptr[a] = n
        THEN Unlink(l, a) /\ res' = TRUE /\ Forget(l) /\ UNCHANGED key
        ELSE res' = FALSE /\ UNCHANGED <<ptr, tail, key, iter>>

Point(l, a) == iter' = [list |-> l, at |-> a]

\* list_iterate
IterStart(l) ==
    /\ Point(l, l)
    /\ res' = ptr[l]
    /\ UNCHANGED <<ptr, tail, key>>

\* list_contains with the caller's iterator
IterFind(l, n) ==
    /\ Point(l, Find(l, n))
    /\ res' = (ptr[Find(l, n)] = n)
    /\ UNCHANGED <<ptr, tail, key>>

\* list_iterator_next
IterNext ==
    /\ iter # NULL
    /\ LET curr == ptr[iter.at]
       IN  IF curr = NULL
           THEN res' = NULL /\ UNCHANGED iter
           ELSE res' = ptr[curr] /\ Point(iter.list, curr)
    /\ UNCHANGED <<ptr, tail, key>>

\* list_iterator_insert
IterInsert(n) ==
    /\ iter # NULL /\ Free(n)
    /\ ptr' = [ptr EXCEPT ![iter.at] = n, ![n] = ptr[iter.at]]
    /\ tail' = IF ptr[iter.at] = NULL THEN [tail EXCEPT ![iter.list] = n]
               ELSE tail
    /\ res' = TRUE
    /\ UNCHANGED <<key, iter>>

\* list_iterator_remove asserts that there is a node to remove.
IterRemove ==
    /\ iter # NULL /\ ptr[iter.at] # NULL
    /\ Unlink(iter.list, iter.at)
    /\ res' = ptr[ptr[iter.at]]
    /\ UNCHANGED <<key, iter>>

-----------------------------------------------------------------------------

Next ==
    \/ \E l \in Lists :
          \/ Extract(l) \/ IterStart(l)
          \/ \E n \in Nodes : \/ Insert(l, n) \/ InsertSorted(l, n) \/ Push(l, n)
                              \/ Remove(l, n) \/ IterFind(l, n)
    \/ IterNext \/ IterRemove
    \/ \E n \in Nodes : IterInsert(n)

Spec == Init /\ [][Next]_vars

-----------------------------------------------------------------------------
(* Properties *)

TypeOK ==
    /\ ptr \in [Lists \cup Nodes -> Nodes \cup {NULL}]
    /\ tail \in [Lists -> Lists \cup Nodes \cup {NULL}]
    /\ key \in [Nodes -> {0, 1}]
    /\ iter = NULL \/ iter \in [list : Lists, at : Lists \cup Nodes]
    /\ res \in Nodes \cup {NULL} \cup BOOLEAN

\* The pointers are always lists: every walk ends, no node is on two lists,
\* and the tail of a list with nodes is its last one (of an empty list it is
\* anything, the list's own address included).  A node on no list has no
\* successor, so the assertions of the three insertions never fire.
Shape ==
    /\ TypeOK
    /\ \A l \in Lists :
          /\ NodesOf(l) \subseteq Nodes
          /\ \E a \in Walk(l) : ptr[a] = NULL
          /\ ptr[l] # NULL => tail[l] \in NodesOf(l) /\ ptr[tail[l]] = NULL
    /\ \A l, m \in Lists : l # m => NodesOf(l) \cap NodesOf(m) = {}
    /\ \A n \in Nodes : Free(n) => ptr[n] = NULL
=============================================================================
