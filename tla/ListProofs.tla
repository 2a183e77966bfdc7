----------------------------- MODULE ListProofs ------------------------------
(***************************************************************************)
(* Facts about the operators of ListOps, for lists of every length.        *)
(***************************************************************************)
EXTENDS ListOps, Integers, SequenceTheorems, WellFoundedInduction, TLAPS

Below == {ss \in Nat \X Nat : ss[1] < ss[2]}

\* Every non-empty set of numbers has a least one.
LEMMA Least ==
    ASSUME NEW T, T \subseteq Nat, T # {}
    PROVE  \E x \in T : \A y \in T : x =< y
<1>1. IsWellFoundedOn(Below, Nat)
  BY NatLessThanWellFounded DEF OpToRel, Below
<1>2. PICK x \in T : \A y \in T : ~ (<<y, x>> \in Below)
  BY <1>1, WFMin
<1>3. ASSUME NEW y \in T, y < x PROVE FALSE
  <2>1. <<y, x>> \in Nat \X Nat
    OBVIOUS
  <2>2. <<y, x>> \in Below
    BY <1>3, <2>1 DEF Below
  <2> QED
    BY <1>2, <2>2
<1> QED
  BY <1>3

\* A function on 1 .. n is a sequence of length n.
LEMMA FunctionSeq ==
    ASSUME NEW T, NEW n \in Nat, NEW f \in [1 .. n -> T]
    PROVE  f \in Seq(T) /\ Len(f) = n
<1>1. f \in Seq(T)
  BY SeqDef
<1>2. DOMAIN f = 1 .. Len(f) /\ Len(f) \in Nat
  BY <1>1, LenProperties
<1>3. 1 .. n = 1 .. Len(f)
  BY <1>2
<1>4. n = Len(f)
  <2>1. n > 0 => n \in 1 .. Len(f)
    BY <1>3
  <2>2. Len(f) > 0 => Len(f) \in 1 .. n
    BY <1>2, <1>3
  <2> QED
    BY <1>2, <2>1, <2>2
<1> QED
  BY <1>1, <1>4

\* list_iterator_remove takes one node out and keeps the order of the others.
LEMMA DropAtIs ==
    ASSUME NEW T, NEW l \in Seq(T), NEW i \in 1 .. Len(l)
    PROVE  /\ DropAt(l, i) \in Seq(T)
           /\ Len(DropAt(l, i)) = Len(l) - 1
           /\ \A k \in 1 .. Len(l) - 1 :
                 DropAt(l, i)[k] = IF k < i THEN l[k] ELSE l[k + 1]
<1>1. Len(l) - 1 \in Nat
  OBVIOUS
<1>2. \A k \in 1 .. Len(l) - 1 : (IF k < i THEN l[k] ELSE l[k + 1]) \in T
  <2> TAKE k \in 1 .. Len(l) - 1
  <2>1. k \in 1 .. Len(l) /\ k + 1 \in 1 .. Len(l)
    OBVIOUS
  <2> QED
    BY <2>1, ElementOfSeq
<1>3. DropAt(l, i) \in [1 .. Len(l) - 1 -> T]
  BY <1>2 DEF DropAt
<1>4. DropAt(l, i) \in Seq(T) /\ Len(DropAt(l, i)) = Len(l) - 1
  BY <1>1, <1>3, FunctionSeq
<1> QED
  BY <1>4 DEF DropAt

\* list_iterator_insert puts one node in and keeps the order of the others.
LEMMA PutAtIs ==
    ASSUME NEW T, NEW l \in Seq(T), NEW i \in 1 .. Len(l) + 1, NEW x \in T
    PROVE  /\ PutAt(l, i, x) \in Seq(T)
           /\ Len(PutAt(l, i, x)) = Len(l) + 1
           /\ \A k \in 1 .. Len(l) + 1 :
                 PutAt(l, i, x)[k] =
                     IF k < i THEN l[k] ELSE IF k = i THEN x ELSE l[k - 1]
<1>1. Len(l) + 1 \in Nat
  OBVIOUS
<1>2. \A k \in 1 .. Len(l) + 1 :
         (IF k < i THEN l[k] ELSE IF k = i THEN x ELSE l[k - 1]) \in T
  <2> TAKE k \in 1 .. Len(l) + 1
  <2>1. /\ k < i => k \in 1 .. Len(l)
        /\ k > i => k - 1 \in 1 .. Len(l)
    OBVIOUS
  <2> QED
    BY <2>1, ElementOfSeq
<1>3. PutAt(l, i, x) \in [1 .. Len(l) + 1 -> T]
  BY <1>2 DEF PutAt
<1>4. PutAt(l, i, x) \in Seq(T) /\ Len(PutAt(l, i, x)) = Len(l) + 1
  BY <1>1, <1>3, FunctionSeq
<1> QED
  BY <1>4 DEF PutAt
=============================================================================
