------------------------------ MODULE ListSpec ------------------------------
(***************************************************************************)
(* What librfn/list.h promises: lists are sequences of nodes, a node is on *)
(* at most one of them, and an iterator is a position.  List is the        *)
(* implementation with pointers; Fibre uses the same operators.            *)
(***************************************************************************)
EXTENDS Integers, Sequences, ListOps

CONSTANTS Nodes, Lists, NULL

VARIABLES
    seq,    \* the nodes of each list
    key,    \* what nodecmp compares
    iter,   \* the list being iterated over and the position, or NULL
    res     \* what the last call returned; TRUE where it returns nothing

svars == <<seq, key, iter, res>>

Free(n) == \A l \in Lists : ~ Contains(seq[l], LAMBDA x : x = n)

At(l, i) == IF i > Len(seq[l]) THEN NULL ELSE seq[l][i]

\* A change to a list ends an iteration over it.
Changed(l, s, r) ==
    /\ seq' = [seq EXCEPT ![l] = s]
    /\ iter' = IF iter # NULL /\ iter.list = l THEN NULL ELSE iter
    /\ res' = r
    /\ UNCHANGED key

Put(l, n) == Free(n) /\ Changed(l, Insert(seq[l], n), TRUE)

PutSorted(l, n) ==
    /\ Free(n)
    /\ Changed(l, InsertSorted(seq[l], n, LAMBDA x, y : key[x] - key[y]), TRUE)

Push(l, n) == Free(n) /\ Changed(l, <<n>> \o seq[l], TRUE)

Extract(l) ==
    IF seq[l] = <<>>
    THEN res' = NULL /\ UNCHANGED <<seq, key, iter>>
    ELSE Changed(l, Tail(seq[l]), Head(seq[l]))

Take(l, n) ==
    IF Contains(seq[l], LAMBDA x : x = n)
    THEN Changed(l, Remove(seq[l], LAMBDA x : x = n), TRUE)
    ELSE res' = FALSE /\ UNCHANGED <<seq, key, iter>>

Point(l, i) == iter' = [list |-> l, pos |-> i]

IterStart(l) == Point(l, 1) /\ res' = At(l, 1) /\ UNCHANGED <<seq, key>>

\* list_contains leaves the iterator on the node, or behind the last one.
IterFind(l, n) ==
    /\ IF Contains(seq[l], LAMBDA x : x = n)
       THEN Point(l, First(seq[l], LAMBDA x : x = n)) /\ res' = TRUE
       ELSE Point(l, Len(seq[l]) + 1) /\ res' = FALSE
    /\ UNCHANGED <<seq, key>>

IterNext ==
    /\ iter # NULL
    /\ IF At(iter.list, iter.pos) = NULL
       THEN UNCHANGED iter /\ res' = NULL
       ELSE Point(iter.list, iter.pos + 1) /\ res' = At(iter.list, iter.pos + 1)
    /\ UNCHANGED <<seq, key>>

IterInsert(n) ==
    /\ iter # NULL /\ Free(n)
    /\ seq' = [seq EXCEPT ![iter.list] = PutAt(@, iter.pos, n)]
    /\ res' = TRUE
    /\ UNCHANGED <<key, iter>>

\* It returns the node behind the one removed.
IterRemove ==
    /\ iter # NULL /\ At(iter.list, iter.pos) # NULL
    /\ seq' = [seq EXCEPT ![iter.list] = DropAt(@, iter.pos)]
    /\ res' = At(iter.list, iter.pos + 1)
    /\ UNCHANGED <<key, iter>>

Init ==
    /\ seq = [l \in Lists |-> <<>>]
    /\ key \in [Nodes -> {0, 1}]
    /\ iter = NULL /\ res = TRUE

Next ==
    \/ \E l \in Lists :
          \/ Extract(l) \/ IterStart(l)
          \/ \E n \in Nodes : \/ Put(l, n) \/ PutSorted(l, n) \/ Push(l, n)
                              \/ Take(l, n) \/ IterFind(l, n)
    \/ IterNext \/ IterRemove
    \/ \E n \in Nodes : IterInsert(n)

Spec == Init /\ [][Next]_svars
=============================================================================
