------------------------------- MODULE MCList -------------------------------
(***************************************************************************)
(* Instances of List for TLC, and the mapping to ListSpec.                 *)
(***************************************************************************)
EXTENDS List, Sequences, TLC

seqBar == [l \in Lists |->
              [k \in 1 .. Cardinality(NodesOf(l)) |-> Addr(l)[k]]]

ASSUME NullAssumption == NULL \notin [list : Lists, pos : Nat]

\* A pointer's position in its list: where a walk first meets it (and where it
\* stays, when it is the last one)
PosOf(l, a) ==
    CHOOSE k \in 0 .. Cardinality(Nodes) :
        Addr(l)[k] = a /\ \A j \in 0 .. k - 1 : Addr(l)[j] # a

iterBar ==
    IF iter = NULL THEN NULL
    ELSE [list |-> iter.list, pos |-> PosOf(iter.list, iter.at) + 1]

Sequential == INSTANCE ListSpec WITH seq <- seqBar, iter <- iterBar

\* The pointer structure implements sequences: every operation and every step
\* of an iterator has the effect and the result that its abstract form has.
ImplementsSequences == Sequential!Spec

Symmetry == Permutations(Lists)
=============================================================================
