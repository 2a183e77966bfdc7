------------------------------ MODULE ListOps -------------------------------
(***************************************************************************)
(* librfn/list.c as its users see it: a list is the sequence of its nodes. *)
(* The pointers (head, tail, next) are list.c's own business.  Nodes are   *)
(* selected by a predicate, which stands for comparing node addresses.     *)
(***************************************************************************)
EXTENDS Naturals, Sequences

\* list_contains
Contains(l, Is(_)) == \E i \in 1 .. Len(l) : Is(l[i])

\* The first node that Is selects: where list_contains leaves its iterator.
First(l, Is(_)) ==
    CHOOSE i \in 1 .. Len(l) :
        Is(l[i]) /\ \A j \in 1 .. i - 1 : ~ Is(l[j])

\* list_iterator_remove and list_iterator_insert, at position i.
DropAt(l, i) ==
    [k \in 1 .. Len(l) - 1 |-> IF k < i THEN l[k] ELSE l[k + 1]]
PutAt(l, i, x) ==
    [k \in 1 .. Len(l) + 1 |->
        IF k < i THEN l[k] ELSE IF k = i THEN x ELSE l[k - 1]]

\* list_remove
Remove(l, Is(_)) == IF Contains(l, Is) THEN DropAt(l, First(l, Is)) ELSE l

\* list_insert
Insert(l, x) == Append(l, x)

\* list_insert_sorted.  Cmp(x, y) >= 0 when x goes behind y, so that equal
\* nodes keep the order they were inserted in.  The tail is tried first.
InsertSorted(l, x, Cmp(_, _)) ==
    IF l = <<>> \/ Cmp(x, l[Len(l)]) >= 0
    THEN Append(l, x)
    ELSE PutAt(l, CHOOSE i \in 1 .. Len(l) :
                     /\ Cmp(x, l[i]) < 0
                     /\ \A j \in 1 .. i - 1 : Cmp(x, l[j]) >= 0, x)
=============================================================================
