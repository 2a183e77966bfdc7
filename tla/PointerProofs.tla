--------------------------- MODULE PointerProofs ----------------------------
(***************************************************************************)
(* Machine-checked proofs about list.c with its pointers, for every number *)
(* of lists and nodes: the pointers are always lists, and every operation  *)
(* and every step of an iterator does what it does to sequences.           *)
(***************************************************************************)
EXTENDS MCList, FiniteSetTheorems, SequenceTheorems, TLAPS

LF == INSTANCE ListProofs

N == Cardinality(Nodes)

\* A walk along a list can take a number of steps.
LEMMA WalkLength == N \in Nat
  BY ListAssumption, FS_CardinalityType DEF N

USE WalkLength

-----------------------------------------------------------------------------
(* The pointers, for the sequences q of nodes that they stand for          *)

\* The address of the k-th pointer of list l with the nodes s
Link(s, l, k) == IF k = 0 THEN l ELSE s[k]

On(q, n) == \E l \in Lists : \E i \in 1 .. Len(q[l]) : q[l][i] = n

\* Each pointer is the next node, or NULL behind the last one.
Chained(q) ==
    \A l \in Lists : \A k \in 0 .. Len(q[l]) :
        ptr[Link(q[l], l, k)] = IF k < Len(q[l]) THEN q[l][k + 1] ELSE NULL

\* A node is in one place.
Apart(q) ==
    \A l, m \in Lists : \A i \in 1 .. Len(q[l]) : \A j \in 1 .. Len(q[m]) :
        q[l][i] = q[m][j] => l = m /\ i = j

\* A node on no list has no successor.
Loose(q) == \A n \in Nodes : ~ On(q, n) => ptr[n] = NULL

Ends(q) == \A l \in Lists : Len(q[l]) > 0 => tail[l] = q[l][Len(q[l])]

IterOn(q) ==
    iter # NULL => \E k \in 0 .. Len(q[iter.list]) :
                       iter.at = Link(q[iter.list], iter.list, k)

Rep(q) == Chained(q) /\ Apart(q) /\ Loose(q) /\ Ends(q) /\ IterOn(q)

Sequenced == [Lists -> Seq(Nodes)]

\* The inductive invariant: the pointers stand for some sequences.
IInv == TypeOK /\ \E q \in Sequenced : Rep(q)

\* A sequence that repeats nothing has as many members as it is long.
LEMMA Members ==
    ASSUME NEW T, NEW s \in Seq(T),
           \A i, j \in 1 .. Len(s) : s[i] = s[j] => i = j
    PROVE  /\ IsFiniteSet({s[i] : i \in 1 .. Len(s)})
           /\ Cardinality({s[i] : i \in 1 .. Len(s)}) = Len(s)
<1> DEFINE R == {s[i] : i \in 1 .. Len(s)}
<1>1. Len(s) \in Nat /\ s \in [1 .. Len(s) -> R]
  BY LenProperties
<1>2. s \in Bijection(1 .. Len(s), R)
  BY <1>1 DEF Bijection, Injection, Surjection, IsInjective
<1>3. IsFiniteSet(1 .. Len(s)) /\ Cardinality(1 .. Len(s)) = Len(s)
  BY <1>1, FS_Interval
<1> QED
  BY <1>2, <1>3, FS_Bijection DEF ExistsBijection

\* No list is longer than there are nodes.
LEMMA Short ==
    ASSUME NEW q \in Sequenced, Apart(q), NEW l \in Lists
    PROVE  /\ Len(q[l]) \in 0 .. N /\ Len(q[l]) \in Nat /\ q[l] \in Seq(Nodes)
           /\ \A i \in 1 .. Len(q[l]) : q[l][i] \in Nodes
           /\ Cardinality({q[l][i] : i \in 1 .. Len(q[l])}) = Len(q[l])
<1>1. q[l] \in Seq(Nodes)
  BY DEF Sequenced
<1>2. \A i \in 1 .. Len(q[l]) : q[l][i] \in Nodes
  BY <1>1, ElementOfSeq
<1>3. \A i, j \in 1 .. Len(q[l]) : q[l][i] = q[l][j] => i = j
  BY DEF Apart
<1> DEFINE R == {q[l][i] : i \in 1 .. Len(q[l])}
<1>4. Cardinality(R) = Len(q[l])
  BY <1>1, <1>3, Members
<1>5. R \in SUBSET Nodes
  BY <1>2
<1>6. Cardinality(R) =< N
  BY <1>5, ListAssumption, FS_Subset DEF N
<1>7. Len(q[l]) \in Nat
  BY <1>1, LenProperties
<1> QED
  BY <1>1, <1>2, <1>4, <1>6, <1>7

\* A walk: the list's own address, its nodes, and then the last one again
LEMMA AddrIs ==
    ASSUME NEW q \in Sequenced, Apart(q), Chained(q), NEW l \in Lists
    PROVE  \A k \in 0 .. N :
               Addr(l)[k] = Link(q[l], l, IF k =< Len(q[l]) THEN k ELSE Len(q[l]))
<1> DEFINE len == Len(q[l])
           To(k) == Link(q[l], l, IF k =< len THEN k ELSE len)
           w == [k \in 0 .. N |-> To(k)]
           Go(b) == IF ptr[b] = NULL THEN b ELSE ptr[b]
<1>1. len \in 0 .. N /\ \A i \in 1 .. len : q[l][i] \in Nodes
  BY Short
<1>2. \A k \in 0 .. len : ptr[To(k)] = IF k < len THEN q[l][k + 1] ELSE NULL
  BY <1>1 DEF Chained
<1>3. NULL \notin Nodes
  BY ListAssumption
<1>4. ASSUME NEW k \in 1 .. N PROVE To(k) = Go(To(k - 1))
  <2>1. CASE k =< len
    <3>1. k - 1 \in 0 .. len /\ k - 1 < len /\ k - 1 + 1 = k /\ k \in 1 .. len
      BY <1>1, <2>1
    <3>2. ptr[To(k - 1)] = q[l][k]
      BY <1>2, <3>1
    <3>3. To(k) = q[l][k]
      BY <2>1, <3>1 DEF Link
    <3> QED
      BY <1>1, <1>3, <3>1, <3>2, <3>3
  <2>2. CASE k > len
    <3>1. To(k) = To(len) /\ To(k - 1) = To(len)
      BY <1>1, <2>2
    <3>2. ptr[To(len)] = NULL
      BY <1>1, <1>2
    <3> QED
      BY <3>1, <3>2
  <2> QED
    BY <1>1, <2>1, <2>2
<1>5. To(0) = l
  BY <1>1 DEF Link
<1> HIDE DEF To
<1>6. w = [k \in 0 .. N |-> IF k = 0 THEN l ELSE Go(w[k - 1])]
  <2>1. ASSUME NEW k \in 0 .. N PROVE w[k] = IF k = 0 THEN l ELSE Go(w[k - 1])
    <3>1. CASE k = 0
      BY <1>5, <3>1
    <3>2. CASE k # 0
      <4>1. k \in 1 .. N /\ k - 1 \in 0 .. N
        BY <3>2
      <4>2. w[k] = To(k) /\ w[k - 1] = To(k - 1)
        BY <4>1
      <4> QED
        BY <1>4, <3>2, <4>1, <4>2
    <3> QED
      BY <3>1, <3>2
  <2> QED
    BY <2>1
<1> HIDE DEF w
<1>7. Addr(l) = [k \in 0 .. N |-> IF k = 0 THEN l ELSE Go(Addr(l)[k - 1])]
  BY <1>6 DEF Addr, N
<1> DEFINE Wrong == {k \in 0 .. N : Addr(l)[k] # To(k)}
<1>8. Wrong = {}
  <2> SUFFICES ASSUME Wrong # {} PROVE FALSE
    OBVIOUS
  <2>1. Wrong \subseteq Nat
    OBVIOUS
  <2>2. PICK x \in Wrong : \A y \in Wrong : x =< y
    BY <2>1, LF!Least
  <2>3. x # 0
    BY <1>5, <1>7
  <2>4. x - 1 \in 0 .. N /\ x \in 1 .. N
    BY <2>3
  <2>5. x - 1 \notin Wrong
    BY <2>2, <2>4
  <2>6. Addr(l)[x - 1] = To(x - 1)
    BY <2>4, <2>5
  <2>7. Addr(l)[x] = Go(Addr(l)[x - 1])
    BY <1>7, <2>3, <2>4
  <2> QED
    BY <1>4, <2>2, <2>4, <2>6, <2>7
<1>9. \A k \in 0 .. N : Addr(l)[k] = To(k)
  BY <1>8
<1> QED
  BY <1>9 DEF To

\* What a walk meets
LEMMA WalkIs ==
    ASSUME NEW q \in Sequenced, Apart(q), Chained(q), NEW l \in Lists
    PROVE  /\ Walk(l) = {Link(q[l], l, k) : k \in 0 .. Len(q[l])}
           /\ NodesOf(l) = {q[l][i] : i \in 1 .. Len(q[l])}
<1>1. Len(q[l]) \in 0 .. N /\ \A i \in 1 .. Len(q[l]) : q[l][i] \in Nodes
  BY Short
<1>2. \A k \in 0 .. N :
         Addr(l)[k] = Link(q[l], l, IF k =< Len(q[l]) THEN k ELSE Len(q[l]))
  BY AddrIs
<1>3. Walk(l) \subseteq {Link(q[l], l, k) : k \in 0 .. Len(q[l])}
  <2> SUFFICES ASSUME NEW k \in 0 .. N
               PROVE  Addr(l)[k] \in {Link(q[l], l, i) : i \in 0 .. Len(q[l])}
    BY DEF Walk, N
  <2>1. (IF k =< Len(q[l]) THEN k ELSE Len(q[l])) \in 0 .. Len(q[l])
    BY <1>1
  <2> QED
    BY <1>2, <2>1
<1>4. ASSUME NEW k \in 0 .. Len(q[l]) PROVE Link(q[l], l, k) \in Walk(l)
  <2>1. k \in 0 .. N /\ k =< Len(q[l])
    BY <1>1
  <2>2. Addr(l)[k] = Link(q[l], l, k)
    BY <1>2, <2>1
  <2> QED
    BY <2>1, <2>2 DEF Walk, N
<1>5. Walk(l) = {Link(q[l], l, k) : k \in 0 .. Len(q[l])}
  BY <1>3, <1>4
<1>6. \A i \in 1 .. Len(q[l]) : Link(q[l], l, i) = q[l][i] /\ q[l][i] # l
  BY <1>1, ListAssumption DEF Link
<1>7. Link(q[l], l, 0) = l
  BY DEF Link
<1>8. NodesOf(l) = {q[l][i] : i \in 1 .. Len(q[l])}
  <2>1. \A k \in 0 .. Len(q[l]) : k = 0 \/ k \in 1 .. Len(q[l])
    BY <1>1
  <2>2. \A k \in 1 .. Len(q[l]) : k \in 0 .. Len(q[l])
    BY <1>1
  <2> QED
    BY <1>5, <1>6, <1>7, <2>1, <2>2 DEF NodesOf
<1> QED
  BY <1>5, <1>8

\* What the mapping shows is the sequences.
LEMMA BarIs ==
    ASSUME NEW q \in Sequenced, Apart(q), Chained(q)
    PROVE  seqBar = q
<1>1. ASSUME NEW l \in Lists
      PROVE  [k \in 1 .. Cardinality(NodesOf(l)) |-> Addr(l)[k]] = q[l]
  <2>1. /\ Len(q[l]) \in 0 .. N /\ q[l] \in Seq(Nodes)
        /\ Cardinality({q[l][i] : i \in 1 .. Len(q[l])}) = Len(q[l])
    BY Short
  <2>2. Cardinality(NodesOf(l)) = Len(q[l])
    BY <2>1, WalkIs
  <2>3. \A k \in 1 .. Len(q[l]) : Addr(l)[k] = q[l][k]
    <3> TAKE k \in 1 .. Len(q[l])
    <3>1. k \in 0 .. N /\ k =< Len(q[l]) /\ k # 0
      BY <2>1
    <3> QED
      BY <3>1, AddrIs DEF Link
  <2>4. q[l] = [k \in 1 .. Len(q[l]) |-> q[l][k]]
    BY <2>1, LenProperties
  <2> QED
    BY <2>2, <2>3, <2>4
<1>2. q = [l \in Lists |-> q[l]]
  BY DEF Sequenced
<1> QED
  BY <1>1, <1>2 DEF seqBar

\* An iterator's place in the sequence
LEMMA PlaceIs ==
    ASSUME NEW q \in Sequenced, Apart(q), Chained(q), NEW l \in Lists,
           NEW i \in 0 .. Len(q[l])
    PROVE  PosOf(l, Link(q[l], l, i)) = i
<1> DEFINE a == Link(q[l], l, i)
           Good(k) == Addr(l)[k] = a /\ \A j \in 0 .. k - 1 : Addr(l)[j] # a
<1>1. Len(q[l]) \in 0 .. N /\ \A k \in 1 .. Len(q[l]) : q[l][k] \in Nodes
  BY Short
<1>2. ASSUME NEW k \in 0 .. Len(q[l])
      PROVE  /\ k \in 0 .. N /\ Addr(l)[k] = Link(q[l], l, k)
             /\ Link(q[l], l, k) = a => k = i
  <2>1. k \in 0 .. N /\ k =< Len(q[l])
    BY <1>1
  <2>2. Addr(l)[k] = Link(q[l], l, k)
    BY <2>1, AddrIs
  <2>3. l \notin Nodes
    BY ListAssumption
  <2>4. k \in 1 .. Len(q[l]) /\ i \in 1 .. Len(q[l]) /\ q[l][k] = q[l][i] => k = i
    BY DEF Apart
  <2>5. Link(q[l], l, k) = a => k = i
    BY <1>1, <2>3, <2>4 DEF Link
  <2> QED
    BY <2>1, <2>2, <2>5
<1>3. Good(i)
  <2>1. ASSUME NEW j \in 0 .. i - 1 PROVE Addr(l)[j] # a
    <3>1. j \in 0 .. Len(q[l]) /\ j # i
      BY <1>1
    <3> QED
      BY <1>2, <3>1
  <2> QED
    BY <1>2, <2>1
<1>4. ASSUME NEW k \in 0 .. N, Good(k) PROVE k = i
  <2>1. ~ i < k
    <3> SUFFICES ASSUME i < k PROVE FALSE
      OBVIOUS
    <3>1. i \in 0 .. k - 1
      BY <1>1
    <3> QED
      BY <1>2, <1>4, <3>1
  <2>2. k \in 0 .. Len(q[l])
    BY <1>1, <2>1
  <2> QED
    BY <1>2, <1>4, <2>2
<1>5. i \in 0 .. N
  BY <1>2
<1> HIDE DEF a
<1>6. i = CHOOSE k \in 0 .. N : Good(k)
  BY <1>3, <1>4, <1>5
<1>7. PosOf(l, a) = i
  BY <1>6 DEF PosOf, N
<1> QED
  BY <1>7 DEF a

-----------------------------------------------------------------------------
(* Putting a node in and taking one out                                    *)

\* Two pointers of two lists, or of one, are in two places.
LEMMA LinksApart ==
    ASSUME NEW q \in Sequenced, Apart(q),
           NEW l \in Lists, NEW m \in Lists,
           NEW i \in 0 .. Len(q[l]), NEW j \in 0 .. Len(q[m]),
           Link(q[l], l, i) = Link(q[m], m, j)
    PROVE  l = m /\ i = j
<1>1. /\ Len(q[l]) \in Nat /\ Len(q[m]) \in Nat
      /\ \A k \in 1 .. Len(q[l]) : q[l][k] \in Nodes
      /\ \A k \in 1 .. Len(q[m]) : q[m][k] \in Nodes
  BY Short
<1>2. l \notin Nodes /\ m \notin Nodes
  BY ListAssumption
<1>3. (i = 0 \/ i \in 1 .. Len(q[l])) /\ (j = 0 \/ j \in 1 .. Len(q[m]))
  BY <1>1
<1>4. CASE i = 0
  <2>1. Link(q[l], l, i) = l
    BY <1>4 DEF Link
  <2>2. j = 0
    BY <1>1, <1>2, <1>3, <2>1 DEF Link
  <2> QED
    BY <1>4, <2>1, <2>2 DEF Link
<1>5. CASE i # 0
  <2>1. Link(q[l], l, i) = q[l][i] /\ q[l][i] \in Nodes
    BY <1>1, <1>3, <1>5 DEF Link
  <2>2. j # 0
    BY <1>2, <2>1 DEF Link
  <2>3. Link(q[m], m, j) = q[m][j]
    BY <2>2 DEF Link
  <2>4. /\ i \in 1 .. Len(q[l]) /\ j \in 1 .. Len(q[m])
        /\ q[l][i] = q[m][j]
    BY <1>3, <1>5, <2>1, <2>2, <2>3
  <2> QED
    BY <2>4 DEF Apart
<1> QED
  BY <1>4, <1>5

\* The addresses of pointers
LEMMA LinkIs ==
    ASSUME NEW q \in Sequenced, Apart(q), NEW l \in Lists, NEW i \in 0 .. Len(q[l])
    PROVE  /\ Link(q[l], l, i) \in Lists \cup Nodes
           /\ \A n \in Nodes : Link(q[l], l, i) = n => On(q, n)
<1>1. Len(q[l]) \in Nat /\ \A k \in 1 .. Len(q[l]) : q[l][k] \in Nodes
  BY Short
<1>2. i = 0 \/ i \in 1 .. Len(q[l])
  BY <1>1
<1> QED
  BY <1>1, <1>2, ListAssumption DEF Link, On

\* list_iterator_insert and list_iterator_remove on a sequence
LEMMA PutsAt ==
    ASSUME NEW T, NEW l \in Seq(T), NEW i \in 1 .. Len(l) + 1, NEW x \in T
    PROVE  /\ Sequential!PutAt(l, i, x) \in Seq(T)
           /\ Len(Sequential!PutAt(l, i, x)) = Len(l) + 1
           /\ \A k \in 1 .. Len(l) + 1 :
                 Sequential!PutAt(l, i, x)[k] =
                     IF k < i THEN l[k] ELSE IF k = i THEN x ELSE l[k - 1]
<1>1. LF!PutAt(l, i, x) = Sequential!PutAt(l, i, x)
  BY DEF LF!PutAt, Sequential!PutAt
<1>2. /\ LF!PutAt(l, i, x) \in Seq(T)
      /\ Len(LF!PutAt(l, i, x)) = Len(l) + 1
      /\ \A k \in 1 .. Len(l) + 1 :
            LF!PutAt(l, i, x)[k] =
                IF k < i THEN l[k] ELSE IF k = i THEN x ELSE l[k - 1]
  BY LF!PutAtIs
<1> QED
  BY <1>1, <1>2

\* The same for the node that is taken out
LEMMA DropsAt ==
    ASSUME NEW T, NEW l \in Seq(T), NEW i \in 1 .. Len(l)
    PROVE  /\ Sequential!DropAt(l, i) \in Seq(T)
           /\ Len(Sequential!DropAt(l, i)) = Len(l) - 1
           /\ \A k \in 1 .. Len(l) - 1 :
                 Sequential!DropAt(l, i)[k] = IF k < i THEN l[k] ELSE l[k + 1]
<1>1. LF!DropAt(l, i) = Sequential!DropAt(l, i)
  BY DEF LF!DropAt, Sequential!DropAt
<1>2. /\ LF!DropAt(l, i) \in Seq(T)
      /\ Len(LF!DropAt(l, i)) = Len(l) - 1
      /\ \A k \in 1 .. Len(l) - 1 :
            LF!DropAt(l, i)[k] = IF k < i THEN l[k] ELSE l[k + 1]
  BY LF!DropAtIs
<1> QED
  BY <1>1, <1>2

\* q with n behind the first i nodes of l, and q without the node behind them
Inserted(q, l, i, n) == [q EXCEPT ![l] = Sequential!PutAt(q[l], i + 1, n)]
Removed(q, l, i) == [q EXCEPT ![l] = Sequential!DropAt(q[l], i + 1)]

\* How such sequences r differ from q
WithOneMore(q, r, l, i, n) ==
    /\ r \in Sequenced
    /\ \A m \in Lists : m # l => r[m] = q[m]
    /\ r[l] = Sequential!PutAt(q[l], i + 1, n)
    /\ Len(q[l]) \in Nat /\ Len(r[l]) = Len(q[l]) + 1
    /\ \A k \in 1 .. i : r[l][k] = q[l][k]
    /\ r[l][i + 1] = n
    /\ \A k \in i + 2 .. Len(q[l]) + 1 : r[l][k] = q[l][k - 1]
    /\ Apart(r)
    /\ \A o \in Nodes : On(r, o) <=> On(q, o) \/ o = n

\* The sequences with one node more
LEMMA InsertedIs ==
    ASSUME NEW q \in Sequenced, Apart(q), NEW l \in Lists,
           NEW i \in 0 .. Len(q[l]), NEW n \in Nodes, ~ On(q, n)
    PROVE  WithOneMore(q, Inserted(q, l, i, n), l, i, n)
<1> DEFINE r == Inserted(q, l, i, n)
           s == Sequential!PutAt(q[l], i + 1, n)
           len == Len(q[l])
<1>1. len \in Nat /\ q[l] \in Seq(Nodes)
  BY Short
<1>2. i + 1 \in 1 .. len + 1
  BY <1>1
<1>4. /\ s \in Seq(Nodes) /\ Len(s) = len + 1
      /\ \A k \in 1 .. len + 1 :
            s[k] = IF k < i + 1 THEN q[l][k] ELSE IF k = i + 1 THEN n ELSE q[l][k - 1]
  <2>1. PICK t \in Seq(Nodes) : t = q[l]
    BY <1>1
  <2>2. PICK j \in 1 .. Len(t) + 1 : j = i + 1
    BY <1>2, <2>1
  <2>3. /\ Sequential!PutAt(t, j, n) \in Seq(Nodes)
        /\ Len(Sequential!PutAt(t, j, n)) = Len(t) + 1
        /\ \A k \in 1 .. Len(t) + 1 :
              Sequential!PutAt(t, j, n)[k] =
                  IF k < j THEN t[k] ELSE IF k = j THEN n ELSE t[k - 1]
    BY PutsAt
  <2> QED
    BY <2>1, <2>2, <2>3
<1> HIDE DEF s
<1>5. /\ \A k \in 1 .. i : s[k] = q[l][k]
      /\ s[i + 1] = n
      /\ \A k \in i + 2 .. len + 1 : s[k] = q[l][k - 1]
  <2>1. ASSUME NEW k \in 1 .. i PROVE s[k] = q[l][k]
    <3>1. k \in 1 .. len + 1 /\ k < i + 1
      BY <1>1
    <3> QED
      BY <1>4, <3>1
  <2>2. s[i + 1] = n
    BY <1>2, <1>4
  <2>3. ASSUME NEW k \in i + 2 .. len + 1 PROVE s[k] = q[l][k - 1]
    <3>1. k \in 1 .. len + 1 /\ ~ k < i + 1 /\ k # i + 1
      BY <1>1
    <3> QED
      BY <1>4, <3>1
  <2> QED
    BY <2>1, <2>2, <2>3
<1>6. r \in Sequenced /\ r[l] = s /\ \A m \in Lists : m # l => r[m] = q[m]
  BY <1>4 DEF Inserted, Sequenced, s
<1> HIDE DEF r
<1>7. ASSUME NEW o, NEW j \in 1 .. len + 1, s[j] = o, o # n
      PROVE  \E k \in 1 .. len : /\ q[l][k] = o
                                 /\ j = IF k =< i THEN k ELSE k + 1
  <2>1. CASE j \in 1 .. i
    <3>1. j \in 1 .. len /\ j =< i
      BY <1>1, <2>1
    <3> QED
      BY <1>5, <1>7, <2>1, <3>1
  <2>2. CASE j = i + 1
    BY <1>5, <1>7, <2>2
  <2>3. CASE j \in i + 2 .. len + 1
    <3>1. j - 1 \in 1 .. len /\ ~ j - 1 =< i /\ j = j - 1 + 1
      BY <1>1, <2>3
    <3> QED
      BY <1>5, <1>7, <2>3, <3>1
  <2>4. \/ j \in 1 .. i \/ j = i + 1 \/ j \in i + 2 .. len + 1
    BY <1>1
  <2> QED
    BY <2>1, <2>2, <2>3, <2>4
<1>8. ASSUME NEW k \in 1 .. len
      PROVE  \E j \in 1 .. len + 1 : s[j] = q[l][k]
  <2>1. CASE k =< i
    <3>1. k \in 1 .. i /\ k \in 1 .. len + 1
      BY <1>1, <2>1
    <3> QED
      BY <1>5, <3>1
  <2>2. CASE ~ k =< i
    <3>1. k + 1 \in i + 2 .. len + 1 /\ k + 1 \in 1 .. len + 1 /\ k + 1 - 1 = k
      BY <1>1, <2>2
    <3> QED
      BY <1>5, <3>1
  <2> QED
    BY <2>1, <2>2
<1>9. ASSUME NEW j \in 1 .. len + 1, s[j] = n PROVE j = i + 1
  <2>1. CASE j \in 1 .. i
    <3>1. j \in 1 .. len
      BY <1>1, <2>1
    <3> QED
      BY <1>5, <1>9, <2>1, <3>1 DEF On
  <2>2. CASE j \in i + 2 .. len + 1
    <3>1. j - 1 \in 1 .. len
      BY <1>1, <2>2
    <3> QED
      BY <1>5, <1>9, <2>2, <3>1 DEF On
  <2>3. \/ j \in 1 .. i \/ j = i + 1 \/ j \in i + 2 .. len + 1
    BY <1>1
  <2> QED
    BY <2>1, <2>2, <2>3
<1>10. ASSUME NEW o \in Nodes PROVE On(r, o) <=> On(q, o) \/ o = n
  <2>1. ASSUME On(r, o), o # n PROVE On(q, o)
    <3>0. PICK m \in Lists : \E j \in 1 .. Len(r[m]) : r[m][j] = o
      BY <2>1 DEF On
    <3>1. PICK j \in 1 .. Len(r[m]) : r[m][j] = o
      BY <3>0
    <3>2. CASE m # l
      BY <1>6, <3>1, <3>2 DEF On
    <3>3. CASE m = l
      BY <1>4, <1>6, <1>7, <2>1, <3>1, <3>3 DEF On
    <3> QED
      BY <3>2, <3>3
  <2>2. ASSUME On(q, o) PROVE On(r, o)
    <3>0. PICK m \in Lists : \E k \in 1 .. Len(q[m]) : q[m][k] = o
      BY <2>2 DEF On
    <3>1. PICK k \in 1 .. Len(q[m]) : q[m][k] = o
      BY <3>0
    <3>2. CASE m # l
      BY <1>6, <3>1, <3>2 DEF On
    <3>3. CASE m = l
      BY <1>4, <1>6, <1>8, <3>1, <3>3 DEF On
    <3> QED
      BY <3>2, <3>3
  <2>3. On(r, n)
    BY <1>2, <1>4, <1>5, <1>6 DEF On
  <2> QED
    BY <2>1, <2>2, <2>3
<1>11. Apart(r)
  <2> SUFFICES ASSUME NEW m1 \in Lists, NEW m2 \in Lists,
                      NEW j1 \in 1 .. Len(r[m1]), NEW j2 \in 1 .. Len(r[m2]),
                      r[m1][j1] = r[m2][j2]
               PROVE  m1 = m2 /\ j1 = j2
    BY DEF Apart
  <2>1. CASE m1 # l /\ m2 # l
    BY <1>6, <2>1 DEF Apart
  <2>2. CASE m1 = l /\ m2 = l
    <3>1. j1 \in 1 .. len + 1 /\ j2 \in 1 .. len + 1 /\ s[j1] = s[j2]
      BY <1>4, <1>6, <2>2
    <3>2. CASE s[j1] = n
      BY <1>9, <2>2, <3>1, <3>2
    <3>3. CASE s[j1] # n
      <4>1. PICK k1 \in 1 .. len : /\ q[l][k1] = s[j1]
                                   /\ j1 = IF k1 =< i THEN k1 ELSE k1 + 1
        BY <1>7, <3>1, <3>3
      <4>2. PICK k2 \in 1 .. len : /\ q[l][k2] = s[j2]
                                   /\ j2 = IF k2 =< i THEN k2 ELSE k2 + 1
        BY <1>7, <3>1, <3>3
      <4>3. k1 = k2
        BY <3>1, <4>1, <4>2 DEF Apart
      <4> QED
        BY <2>2, <4>1, <4>2, <4>3
    <3> QED
      BY <3>2, <3>3
  <2>3. ASSUME NEW m \in Lists, m # l, NEW j \in 1 .. Len(r[m]),
               NEW k \in 1 .. Len(r[l]), r[m][j] = r[l][k]
        PROVE  FALSE
    <3>1. j \in 1 .. Len(q[m]) /\ r[m][j] = q[m][j]
      BY <1>6, <2>3
    <3>2. k \in 1 .. len + 1 /\ s[k] = q[m][j]
      BY <1>4, <1>6, <2>3, <3>1
    <3>3. s[k] # n
      BY <3>1, <3>2 DEF On
    <3>4. PICK kk \in 1 .. len : q[l][kk] = s[k]
      BY <1>7, <3>2, <3>3
    <3> QED
      BY <2>3, <3>1, <3>2, <3>4 DEF Apart
  <2> QED
    BY <2>1, <2>2, <2>3
<1>12. \A o \in Nodes : On(r, o) <=> On(q, o) \/ o = n
  BY <1>10
<1>13. r = Inserted(q, l, i, n) /\ s = Sequential!PutAt(q[l], i + 1, n)
  BY DEF r, s
<1> QED
  BY <1>1, <1>4, <1>5, <1>6, <1>11, <1>12, <1>13 DEF WithOneMore

\* How such sequences r differ from q
WithOneLess(q, r, l, i) ==
    /\ r \in Sequenced
    /\ \A m \in Lists : m # l => r[m] = q[m]
    /\ r[l] = Sequential!DropAt(q[l], i + 1)
    /\ Len(q[l]) \in Nat /\ Len(r[l]) = Len(q[l]) - 1
    /\ \A k \in 1 .. i : r[l][k] = q[l][k]
    /\ \A k \in i + 1 .. Len(q[l]) - 1 : r[l][k] = q[l][k + 1]
    /\ Apart(r)
    /\ \A o \in Nodes : On(r, o) <=> On(q, o) /\ o # q[l][i + 1]

\* The sequences with one node less
LEMMA RemovedIs ==
    ASSUME NEW q \in Sequenced, Apart(q), NEW l \in Lists,
           NEW i \in 0 .. Len(q[l]) - 1
    PROVE  WithOneLess(q, Removed(q, l, i), l, i)
<1> DEFINE r == Removed(q, l, i)
           s == Sequential!DropAt(q[l], i + 1)
           len == Len(q[l])
<1>1. len \in Nat /\ q[l] \in Seq(Nodes)
  BY Short
<1>2. i + 1 \in 1 .. len
  BY <1>1
<1>4. /\ s \in Seq(Nodes) /\ Len(s) = len - 1
      /\ \A k \in 1 .. len - 1 : s[k] = IF k < i + 1 THEN q[l][k] ELSE q[l][k + 1]
  BY <1>1, <1>2, DropsAt
<1> HIDE DEF s
<1>5. /\ \A k \in 1 .. i : s[k] = q[l][k]
      /\ \A k \in i + 1 .. len - 1 : s[k] = q[l][k + 1]
  <2>1. ASSUME NEW k \in 1 .. i PROVE s[k] = q[l][k]
    <3>1. k \in 1 .. len - 1 /\ k < i + 1
      BY <1>1
    <3> QED
      BY <1>4, <3>1
  <2>2. ASSUME NEW k \in i + 1 .. len - 1 PROVE s[k] = q[l][k + 1]
    <3>1. k \in 1 .. len - 1 /\ ~ k < i + 1
      BY <1>1
    <3> QED
      BY <1>4, <3>1
  <2> QED
    BY <2>1, <2>2
<1>6. r \in Sequenced /\ r[l] = s /\ \A m \in Lists : m # l => r[m] = q[m]
  BY <1>4 DEF Removed, Sequenced, s
<1> HIDE DEF r
<1>7. ASSUME NEW j \in 1 .. len - 1
      PROVE  \E k \in 1 .. len : /\ q[l][k] = s[j] /\ k # i + 1
                                 /\ k = IF j =< i THEN j ELSE j + 1
  <2>1. CASE j =< i
    <3>1. j \in 1 .. i /\ j \in 1 .. len /\ j # i + 1
      BY <1>1, <2>1
    <3> QED
      BY <1>5, <2>1, <3>1
  <2>2. CASE ~ j =< i
    <3>1. j \in i + 1 .. len - 1 /\ j + 1 \in 1 .. len /\ j + 1 # i + 1
      BY <1>1, <2>2
    <3> QED
      BY <1>5, <2>2, <3>1
  <2> QED
    BY <2>1, <2>2
<1>8. ASSUME NEW k \in 1 .. len, k # i + 1
      PROVE  \E j \in 1 .. len - 1 : s[j] = q[l][k]
  <2>1. CASE k =< i
    <3>1. k \in 1 .. i /\ k \in 1 .. len - 1
      BY <1>1, <2>1
    <3> QED
      BY <1>5, <3>1
  <2>2. CASE ~ k =< i
    <3>1. k - 1 \in i + 1 .. len - 1 /\ k - 1 \in 1 .. len - 1 /\ k - 1 + 1 = k
      BY <1>1, <1>8, <2>2
    <3> QED
      BY <1>5, <3>1
  <2> QED
    BY <2>1, <2>2
<1>10. ASSUME NEW o \in Nodes PROVE On(r, o) <=> On(q, o) /\ o # q[l][i + 1]
  <2>1. ASSUME On(r, o) PROVE On(q, o) /\ o # q[l][i + 1]
    <3>0. PICK m \in Lists : \E j \in 1 .. Len(r[m]) : r[m][j] = o
      BY <2>1 DEF On
    <3>1. PICK j \in 1 .. Len(r[m]) : r[m][j] = o
      BY <3>0
    <3>2. CASE m # l
      <4>1. j \in 1 .. Len(q[m]) /\ q[m][j] = o
        BY <1>6, <3>1, <3>2
      <4> QED
        BY <1>2, <3>2, <4>1 DEF On, Apart
    <3>3. CASE m = l
      <4>1. j \in 1 .. len - 1 /\ s[j] = o
        BY <1>4, <1>6, <3>1, <3>3
      <4>2. PICK k \in 1 .. len : q[l][k] = o /\ k # i + 1
        BY <1>7, <4>1
      <4> QED
        BY <1>2, <4>2 DEF On, Apart
    <3> QED
      BY <3>2, <3>3
  <2>2. ASSUME On(q, o), o # q[l][i + 1] PROVE On(r, o)
    <3>0. PICK m \in Lists : \E k \in 1 .. Len(q[m]) : q[m][k] = o
      BY <2>2 DEF On
    <3>1. PICK k \in 1 .. Len(q[m]) : q[m][k] = o
      BY <3>0
    <3>2. CASE m # l
      BY <1>6, <3>1, <3>2 DEF On
    <3>3. CASE m = l
      <4>1. k \in 1 .. len /\ k # i + 1
        BY <2>2, <3>1, <3>3
      <4>2. PICK j \in 1 .. len - 1 : s[j] = q[l][k]
        BY <1>8, <4>1
      <4> QED
        BY <1>4, <1>6, <3>1, <3>3, <4>2 DEF On
    <3> QED
      BY <3>2, <3>3
  <2> QED
    BY <2>1, <2>2
<1>11. Apart(r)
  <2> SUFFICES ASSUME NEW m1 \in Lists, NEW m2 \in Lists,
                      NEW j1 \in 1 .. Len(r[m1]), NEW j2 \in 1 .. Len(r[m2]),
                      r[m1][j1] = r[m2][j2]
               PROVE  m1 = m2 /\ j1 = j2
    BY DEF Apart
  <2>1. CASE m1 # l /\ m2 # l
    BY <1>6, <2>1 DEF Apart
  <2>2. CASE m1 = l /\ m2 = l
    <3>1. j1 \in 1 .. len - 1 /\ j2 \in 1 .. len - 1 /\ s[j1] = s[j2]
      BY <1>4, <1>6, <2>2
    <3>2. PICK k1 \in 1 .. len : q[l][k1] = s[j1] /\ k1 = IF j1 =< i THEN j1 ELSE j1 + 1
      BY <1>7, <3>1
    <3>3. PICK k2 \in 1 .. len : q[l][k2] = s[j2] /\ k2 = IF j2 =< i THEN j2 ELSE j2 + 1
      BY <1>7, <3>1
    <3>4. k1 = k2
      BY <3>1, <3>2, <3>3 DEF Apart
    <3> QED
      BY <2>2, <3>1, <3>2, <3>3, <3>4
  <2>3. ASSUME NEW m \in Lists, m # l, NEW j \in 1 .. Len(r[m]),
               NEW k \in 1 .. Len(r[l]), r[m][j] = r[l][k]
        PROVE  FALSE
    <3>1. j \in 1 .. Len(q[m]) /\ r[m][j] = q[m][j]
      BY <1>6, <2>3
    <3>2. k \in 1 .. len - 1 /\ s[k] = q[m][j]
      BY <1>4, <1>6, <2>3, <3>1
    <3>3. PICK kk \in 1 .. len : q[l][kk] = s[k]
      BY <1>7, <3>2
    <3> QED
      BY <2>3, <3>1, <3>2, <3>3 DEF Apart
  <2> QED
    BY <2>1, <2>2, <2>3
<1>12. \A o \in Nodes : On(r, o) <=> On(q, o) /\ o # q[l][i + 1]
  BY <1>10
<1>13. r = Removed(q, l, i) /\ s = Sequential!DropAt(q[l], i + 1)
  BY DEF r, s
<1> QED
  BY <1>1, <1>4, <1>5, <1>6, <1>11, <1>12, <1>13 DEF WithOneLess

\* What a store does to the pointers when it links n behind the i-th pointer
\* of l, and when it links the node behind that pointer out
LinksIn(a, n) == ptr' = [ptr EXCEPT ![a] = n, ![n] = ptr[a]]
LinksOut(a) == ptr' = [ptr EXCEPT ![a] = ptr[ptr[a]], ![ptr[a]] = NULL]

\* What is pointed to behind a pointer
LEMMA PointsTo ==
    ASSUME NEW q \in Sequenced, Apart(q), Chained(q), NEW l \in Lists,
           NEW i \in 0 .. Len(q[l])
    PROVE  /\ ptr[Link(q[l], l, i)] = IF i < Len(q[l]) THEN q[l][i + 1] ELSE NULL
           /\ i < Len(q[l]) => q[l][i + 1] \in Nodes /\ i + 1 \in 1 .. Len(q[l])
           /\ ptr[Link(q[l], l, i)] = NULL <=> i = Len(q[l])
<1>1. ptr[Link(q[l], l, i)] = IF i < Len(q[l]) THEN q[l][i + 1] ELSE NULL
  BY DEF Chained
<1>2. Len(q[l]) \in Nat /\ \A k \in 1 .. Len(q[l]) : q[l][k] \in Nodes
  BY Short
<1>3. i < Len(q[l]) => q[l][i + 1] \in Nodes /\ i + 1 \in 1 .. Len(q[l])
  BY <1>2
<1>4. NULL \notin Nodes
  BY ListAssumption
<1>5. i < Len(q[l]) \/ i = Len(q[l])
  BY <1>2
<1> QED
  BY <1>1, <1>3, <1>4, <1>5

\* All four insertions: the pointers stand for one more node.
LEMMA LinkInKeeps ==
    ASSUME TypeOK, NEW q \in Sequenced, Apart(q), Chained(q), Loose(q),
           NEW l \in Lists, NEW i \in 0 .. Len(q[l]), NEW n \in Nodes, ~ On(q, n),
           LinksIn(Link(q[l], l, i), n)
    PROVE  /\ Chained(Inserted(q, l, i, n))' /\ Loose(Inserted(q, l, i, n))'
           /\ ptr' \in [Lists \cup Nodes -> Nodes \cup {NULL}]
<1> DEFINE r == Inserted(q, l, i, n)
           len == Len(q[l])
           a == Link(q[l], l, i)
<1>0. WithOneMore(q, r, l, i, n)
  BY InsertedIs
<1>1. /\ r \in Sequenced
      /\ \A m \in Lists : m # l => r[m] = q[m]
      /\ r[l] = Sequential!PutAt(q[l], i + 1, n)
      /\ len \in Nat /\ Len(r[l]) = len + 1
      /\ \A k \in 1 .. i : r[l][k] = q[l][k]
      /\ r[l][i + 1] = n
      /\ \A k \in i + 2 .. len + 1 : r[l][k] = q[l][k - 1]
      /\ Apart(r)
      /\ \A o \in Nodes : On(r, o) <=> On(q, o) \/ o = n
  BY <1>0 DEF WithOneMore
<1> HIDE DEF r
<1>2. a \in Lists \cup Nodes /\ a # n
  BY LinkIs
<1>3. ptr \in [Lists \cup Nodes -> Nodes \cup {NULL}]
  BY DEF TypeOK
<1>4. ptr[a] = IF i < len THEN q[l][i + 1] ELSE NULL
  BY PointsTo
<1>5. /\ ptr' \in [Lists \cup Nodes -> Nodes \cup {NULL}]
      /\ ptr'[a] = n /\ ptr'[n] = ptr[a]
      /\ \A b \in Lists \cup Nodes : b # a /\ b # n => ptr'[b] = ptr[b]
  BY <1>2, <1>3 DEF LinksIn
<1>6. ASSUME NEW m \in Lists, NEW k \in 0 .. Len(q[m]), m # l \/ k # i
      PROVE  ptr'[Link(q[m], m, k)] = IF k < Len(q[m]) THEN q[m][k + 1] ELSE NULL
  <2>1. Link(q[m], m, k) # a
    BY <1>6, LinksApart
  <2>2. Link(q[m], m, k) \in Lists \cup Nodes /\ Link(q[m], m, k) # n
    BY LinkIs
  <2> QED
    BY <1>5, <2>1, <2>2 DEF Chained
<1> HIDE DEF a
<1>7. ASSUME NEW m \in Lists, NEW k \in 0 .. Len(r[m])
      PROVE  ptr'[Link(r[m], m, k)] = IF k < Len(r[m]) THEN r[m][k + 1] ELSE NULL
  <2>1. CASE m # l
    BY <1>1, <1>6, <2>1
  <2>2. CASE m = l /\ k < i
    <3>1. /\ k \in 0 .. len /\ k < len /\ k < len + 1 /\ k + 1 \in 1 .. i /\ k # i
          /\ k = 0 \/ k \in 1 .. i
      BY <1>1, <2>2
    <3>2. Link(r[l], l, k) = Link(q[l], l, k)
      BY <1>1, <3>1 DEF Link
    <3>3. ptr'[Link(q[l], l, k)] = q[l][k + 1]
      BY <1>6, <3>1
    <3>4. r[l][k + 1] = q[l][k + 1]
      BY <1>1, <3>1
    <3> QED
      BY <1>1, <2>2, <3>1, <3>2, <3>3, <3>4
  <2>3. CASE m = l /\ k = i
    <3>1. i < len + 1 /\ (i = 0 \/ i \in 1 .. i)
      BY <1>1
    <3>2. Link(r[l], l, i) = a
      BY <1>1, <3>1 DEF Link, a
    <3> QED
      BY <1>1, <1>5, <2>3, <3>1, <3>2
  <2>4. CASE m = l /\ k = i + 1
    <3>1. Link(r[l], l, k) = n
      BY <1>1, <2>4 DEF Link
    <3>2. k < len + 1 <=> i < len
      BY <1>1, <2>4
    <3>3. i < len => k + 1 \in i + 2 .. len + 1 /\ k + 1 - 1 = i + 1
      BY <1>1, <2>4
    <3>4. i < len => r[l][k + 1] = q[l][i + 1]
      BY <1>1, <3>3
    <3> QED
      BY <1>1, <1>4, <1>5, <2>4, <3>1, <3>2, <3>4
  <2>5. CASE m = l /\ k > i + 1
    <3>1. /\ k - 1 \in 0 .. len /\ k - 1 # i /\ k - 1 # 0 /\ k # 0
          /\ k \in i + 2 .. len + 1 /\ (k < len + 1 <=> k - 1 < len) /\ k - 1 + 1 = k
      BY <1>1, <2>5
    <3>2. Link(r[l], l, k) = Link(q[l], l, k - 1)
      BY <1>1, <3>1 DEF Link
    <3>3. ptr'[Link(q[l], l, k - 1)] = IF k - 1 < len THEN q[l][k] ELSE NULL
      BY <1>6, <3>1
    <3>4. k < len + 1 => k + 1 \in i + 2 .. len + 1 /\ k + 1 - 1 = k
      BY <1>1, <3>1
    <3>5. k < len + 1 => r[l][k + 1] = q[l][k]
      BY <1>1, <3>4
    <3> QED
      BY <1>1, <2>5, <3>1, <3>2, <3>3, <3>5
  <2>6. k < i \/ k = i \/ k = i + 1 \/ k > i + 1
    BY <1>1
  <2> QED
    BY <2>1, <2>2, <2>3, <2>4, <2>5, <2>6
<1>8. Chained(r)'
  BY <1>7 DEF Chained
<1>9. ASSUME NEW o \in Nodes, ~ On(r, o) PROVE ptr'[o] = NULL
  <2>1. ~ On(q, o) /\ o # n
    BY <1>1, <1>9
  <2>2. o # a
    BY <2>1, LinkIs DEF a
  <2> QED
    BY <1>5, <2>1, <2>2 DEF Loose
<1>10. Loose(r)'
  BY <1>9 DEF Loose, On
<1> QED
  BY <1>5, <1>8, <1>10 DEF r

\* Every removal: the pointers stand for one node less.
LEMMA LinkOutKeeps ==
    ASSUME TypeOK, NEW q \in Sequenced, Apart(q), Chained(q), Loose(q),
           NEW l \in Lists, NEW i \in 0 .. Len(q[l]) - 1,
           LinksOut(Link(q[l], l, i))
    PROVE  /\ Chained(Removed(q, l, i))' /\ Loose(Removed(q, l, i))'
           /\ ptr' \in [Lists \cup Nodes -> Nodes \cup {NULL}]
<1> DEFINE r == Removed(q, l, i)
           len == Len(q[l])
           a == Link(q[l], l, i)
           n == q[l][i + 1]
<1>0. WithOneLess(q, r, l, i)
  BY RemovedIs
<1>1. /\ r \in Sequenced
      /\ \A m \in Lists : m # l => r[m] = q[m]
      /\ r[l] = Sequential!DropAt(q[l], i + 1)
      /\ len \in Nat /\ Len(r[l]) = len - 1
      /\ \A k \in 1 .. i : r[l][k] = q[l][k]
      /\ \A k \in i + 1 .. len - 1 : r[l][k] = q[l][k + 1]
      /\ Apart(r)
      /\ \A o \in Nodes : On(r, o) <=> On(q, o) /\ o # n
  BY <1>0 DEF WithOneLess
<1> HIDE DEF r
<1>2. i \in 0 .. len /\ i + 1 \in 0 .. len /\ i < len /\ i + 1 # 0 /\ i + 1 # i
  BY <1>1
<1>3. /\ a \in Lists \cup Nodes /\ Link(q[l], l, i + 1) = n /\ a # n
  BY <1>2, LinkIs, LinksApart DEF Link
<1>4. ptr[a] = n /\ n \in Nodes
  BY <1>2, PointsTo
<1>5. ptr[n] = IF i + 1 < len THEN q[l][i + 1 + 1] ELSE NULL
  BY <1>2, <1>3, PointsTo
<1>6. ptr \in [Lists \cup Nodes -> Nodes \cup {NULL}]
  BY DEF TypeOK
<1>7. /\ ptr' \in [Lists \cup Nodes -> Nodes \cup {NULL}]
      /\ ptr'[a] = ptr[n] /\ ptr'[n] = NULL
      /\ \A b \in Lists \cup Nodes : b # a /\ b # n => ptr'[b] = ptr[b]
  BY <1>3, <1>4, <1>6 DEF LinksOut
<1>8. ASSUME NEW m \in Lists, NEW k \in 0 .. Len(q[m]), m # l \/ (k # i /\ k # i + 1)
      PROVE  ptr'[Link(q[m], m, k)] = IF k < Len(q[m]) THEN q[m][k + 1] ELSE NULL
  <2>1. Link(q[m], m, k) # a /\ Link(q[m], m, k) # n
    BY <1>2, <1>3, <1>8, LinksApart
  <2>2. Link(q[m], m, k) \in Lists \cup Nodes
    BY LinkIs
  <2> QED
    BY <1>7, <2>1, <2>2 DEF Chained
<1> HIDE DEF a, n
<1>9. ASSUME NEW m \in Lists, NEW k \in 0 .. Len(r[m])
      PROVE  ptr'[Link(r[m], m, k)] = IF k < Len(r[m]) THEN r[m][k + 1] ELSE NULL
  <2>1. CASE m # l
    BY <1>1, <1>8, <2>1
  <2>2. CASE m = l /\ k < i
    <3>1. /\ k \in 0 .. len /\ k < len /\ k < len - 1 /\ k + 1 \in 1 .. i
          /\ k # i /\ k # i + 1 /\ (k = 0 \/ k \in 1 .. i)
      BY <1>1, <2>2
    <3>2. Link(r[l], l, k) = Link(q[l], l, k)
      BY <1>1, <3>1 DEF Link
    <3>3. ptr'[Link(q[l], l, k)] = q[l][k + 1]
      BY <1>8, <3>1
    <3>4. r[l][k + 1] = q[l][k + 1]
      BY <1>1, <3>1
    <3> QED
      BY <1>1, <2>2, <3>1, <3>2, <3>3, <3>4
  <2>3. CASE m = l /\ k = i
    <3>1. i = 0 \/ i \in 1 .. i
      BY <1>1
    <3>2. Link(r[l], l, i) = a
      BY <1>1, <3>1 DEF Link, a
    <3>3. i < len - 1 <=> i + 1 < len
      BY <1>1
    <3>4. i < len - 1 => i + 1 \in i + 1 .. len - 1
      BY <1>1
    <3>5. i < len - 1 => r[l][i + 1] = q[l][i + 1 + 1]
      BY <1>1, <3>4
    <3> QED
      BY <1>1, <1>5, <1>7, <2>3, <3>2, <3>3, <3>5
  <2>4. CASE m = l /\ k > i
    <3>1. /\ k + 1 \in 0 .. len /\ k + 1 # i /\ k + 1 # i + 1 /\ k + 1 # 0 /\ k # 0
          /\ k \in i + 1 .. len - 1 /\ (k < len - 1 <=> k + 1 < len)
      BY <1>1, <2>4
    <3>2. Link(r[l], l, k) = Link(q[l], l, k + 1)
      BY <1>1, <3>1 DEF Link
    <3>3. ptr'[Link(q[l], l, k + 1)] = IF k + 1 < len THEN q[l][k + 1 + 1] ELSE NULL
      BY <1>8, <3>1
    <3>4. k < len - 1 => k + 1 \in i + 1 .. len - 1
      BY <1>1, <3>1
    <3>5. k < len - 1 => r[l][k + 1] = q[l][k + 1 + 1]
      BY <1>1, <3>4
    <3> QED
      BY <1>1, <2>4, <3>1, <3>2, <3>3, <3>5
  <2>5. k < i \/ k = i \/ k > i
    BY <1>1
  <2> QED
    BY <2>1, <2>2, <2>3, <2>4, <2>5
<1>10. Chained(r)'
  BY <1>9 DEF Chained
<1>11. ASSUME NEW o \in Nodes, ~ On(r, o) PROVE ptr'[o] = NULL
  <2>1. CASE o = n
    BY <1>7, <2>1
  <2>2. CASE o # n
    <3>1. ~ On(q, o)
      BY <1>1, <1>11, <2>2
    <3>2. o # a
      BY <1>2, <3>1, LinkIs DEF a
    <3> QED
      BY <1>7, <2>2, <3>1, <3>2 DEF Loose
  <2> QED
    BY <2>1, <2>2
<1>12. Loose(r)'
  BY <1>11 DEF Loose, On
<1> QED
  BY <1>7, <1>10, <1>12 DEF r

-----------------------------------------------------------------------------
(* Looking along a list                                                    *)

\* A node that no walk meets is on no list, and the other way round.
LEMMA FreeIs ==
    ASSUME NEW q \in Sequenced, Apart(q), Chained(q), NEW n \in Nodes
    PROVE  /\ Free(n) <=> ~ On(q, n)
           /\ Sequential!Free(n) <=> ~ On(q, n)
<1>1. \A l \in Lists : n \in Walk(l) <=> \E i \in 1 .. Len(q[l]) : q[l][i] = n
  <2> TAKE l \in Lists
  <2>1. NodesOf(l) = {q[l][i] : i \in 1 .. Len(q[l])}
    BY WalkIs
  <2>2. n # l
    BY ListAssumption
  <2> QED
    BY <2>1, <2>2 DEF NodesOf
<1>2. seqBar = q
  BY BarIs
<1> QED
  BY <1>1, <1>2 DEF Free, On, Sequential!Free, Sequential!Contains

\* The pointer that a walk reads in its k-th step
LEMMA ReadIs ==
    ASSUME NEW q \in Sequenced, Apart(q), Chained(q), NEW l \in Lists, NEW k \in 0 .. N
    PROVE  /\ ptr[Addr(l)[k]] = IF k < Len(q[l]) THEN q[l][k + 1] ELSE NULL
           /\ k =< Len(q[l]) => Addr(l)[k] = Link(q[l], l, k)
<1>1. Len(q[l]) \in 0 .. N /\ Len(q[l]) \in Nat
  BY Short
<1>2. Addr(l)[k] = Link(q[l], l, IF k =< Len(q[l]) THEN k ELSE Len(q[l]))
  BY AddrIs
<1>3. CASE k =< Len(q[l])
  BY <1>1, <1>2, <1>3, PointsTo
<1>4. CASE k > Len(q[l])
  <2>1. Addr(l)[k] = Link(q[l], l, Len(q[l])) /\ Len(q[l]) \in 0 .. Len(q[l])
    BY <1>1, <1>2, <1>4
  <2> QED
    BY <1>1, <1>4, <2>1, PointsTo
<1> QED
  BY <1>1, <1>3, <1>4

\* list_contains stops at the pointer to the node, or at the last pointer.
LEMMA FindIs ==
    ASSUME NEW q \in Sequenced, Apart(q), Chained(q), NEW l \in Lists, NEW n \in Nodes,
           NEW x \in 0 .. Len(q[l]),
           x < Len(q[l]) => q[l][x + 1] = n,
           x = Len(q[l]) => \A i \in 1 .. Len(q[l]) : q[l][i] # n
    PROVE  Find(l, n) = Link(q[l], l, x)
<1> DEFINE len == Len(q[l])
           Good(k) == /\ ptr[Addr(l)[k]] \in {n, NULL}
                      /\ \A j \in 0 .. k - 1 : ~ (ptr[Addr(l)[j]] \in {n, NULL})
<1>1. len \in 0 .. N /\ len \in Nat /\ \A i \in 1 .. len : q[l][i] \in Nodes
  BY Short
<1>2. NULL \notin Nodes
  BY ListAssumption
<1>3. x < len \/ x = len
  BY <1>1
<1>4. ptr[Addr(l)[x]] \in {n, NULL}
  <2>1. x \in 0 .. N
    BY <1>1
  <2> QED
    BY <1>3, <2>1, ReadIs
<1>5. ASSUME NEW j \in 0 .. x - 1 PROVE ~ (ptr[Addr(l)[j]] \in {n, NULL})
  <2>1. j \in 0 .. N /\ j < len /\ j + 1 \in 1 .. len /\ j + 1 # x + 1
    BY <1>1
  <2>2. ptr[Addr(l)[j]] = q[l][j + 1]
    BY <2>1, ReadIs
  <2>3. q[l][j + 1] # n
    <3>1. CASE x < len
      <4>1. x + 1 \in 1 .. len
        BY <1>1, <3>1
      <4> QED
        BY <2>1, <3>1, <4>1 DEF Apart
    <3> QED
      BY <1>3, <2>1, <3>1
  <2> QED
    BY <1>1, <1>2, <2>1, <2>2, <2>3
<1>6. Good(x)
  BY <1>4, <1>5
<1>7. ASSUME NEW k \in 0 .. N, Good(k) PROVE k = x
  <2>1. ~ x < k
    <3> SUFFICES ASSUME x < k PROVE FALSE
      OBVIOUS
    <3>1. x \in 0 .. k - 1
      BY <1>1
    <3> QED
      BY <1>4, <1>7, <3>1
  <2>2. ~ k < x
    <3> SUFFICES ASSUME k < x PROVE FALSE
      OBVIOUS
    <3>1. k \in 0 .. x - 1
      BY <1>1
    <3> QED
      BY <1>5, <1>7, <3>1
  <2> QED
    BY <1>1, <2>1, <2>2
<1>8. x \in 0 .. N
  BY <1>1
<1>9. x = CHOOSE k \in 0 .. N : Good(k)
  BY <1>6, <1>7, <1>8
<1>10. Find(l, n) = Addr(l)[x]
  BY <1>9 DEF Find, Seek, N
<1>11. Addr(l)[x] = Link(q[l], l, x)
  BY <1>1, <1>8, ReadIs
<1> QED
  BY <1>10, <1>11

\* list_insert_sorted stops at the pointer to the first node that comes later,
\* which is there when the last node does.
LEMMA SortIs ==
    ASSUME TypeOK, NEW q \in Sequenced, Apart(q), Chained(q), NEW l \in Lists,
           NEW n \in Nodes, Len(q[l]) > 0, key[n] - key[q[l][Len(q[l])]] < 0
    PROVE  \E i \in 0 .. Len(q[l]) - 1 :
              /\ Seek(l, LAMBDA c : key[n] - key[c] < 0) = Link(q[l], l, i)
              /\ i + 1 = CHOOSE k \in 1 .. Len(q[l]) :
                             /\ key[n] - key[q[l][k]] < 0
                             /\ \A j \in 1 .. k - 1 : key[n] - key[q[l][j]] >= 0
<1> DEFINE len == Len(q[l])
           Later(k) == key[n] - key[q[l][k]] < 0
           T == {k \in 1 .. len : Later(k)}
           Good(k) == /\ key[n] - key[ptr[Addr(l)[k]]] < 0
                      /\ \A j \in 0 .. k - 1 : ~ (key[n] - key[ptr[Addr(l)[j]]] < 0)
           First(k) == /\ key[n] - key[q[l][k]] < 0
                       /\ \A j \in 1 .. k - 1 : key[n] - key[q[l][j]] >= 0
<1>1. len \in 0 .. N /\ len \in Nat /\ \A i \in 1 .. len : q[l][i] \in Nodes
  BY Short
<1>2. key[n] \in Int /\ \A i \in 1 .. len : key[q[l][i]] \in Int
  BY <1>1 DEF TypeOK
<1>3. T \subseteq Nat /\ len \in T
  BY <1>1
<1>4. PICK x \in T : \A y \in T : x =< y
  BY <1>3, LF!Least, T # {}
<1>5. x \in 1 .. len /\ Later(x) /\ \A j \in 1 .. x - 1 : ~ Later(j)
  <2>1. ASSUME NEW j \in 1 .. x - 1 PROVE ~ Later(j)
    <3>1. j \in 1 .. len /\ ~ x =< j
      BY <1>1
    <3>2. j \notin T
      BY <1>4, <3>1
    <3> QED
      BY <3>1, <3>2
  <2> QED
    BY <2>1
<1> HIDE DEF T
<1>6. PICK i \in 0 .. len - 1 : i + 1 = x
  BY <1>1, <1>5
<1>7. \A k \in 0 .. len - 1 : /\ k \in 0 .. N /\ k + 1 \in 1 .. len
                              /\ ptr[Addr(l)[k]] = q[l][k + 1]
                              /\ Addr(l)[k] = Link(q[l], l, k)
  <2> TAKE k \in 0 .. len - 1
  <2>1. k \in 0 .. N /\ k + 1 \in 1 .. len /\ k < len /\ k =< len
    BY <1>1
  <2> QED
    BY <2>1, ReadIs
<1>8. Good(i)
  <2>1. ASSUME NEW j \in 0 .. i - 1 PROVE ~ (key[n] - key[ptr[Addr(l)[j]]] < 0)
    <3>1. j \in 0 .. len - 1 /\ j + 1 \in 1 .. x - 1
      BY <1>1, <1>6
    <3> QED
      BY <1>5, <1>7, <3>1
  <2> QED
    BY <1>5, <1>6, <1>7, <2>1
<1>9. ASSUME NEW k \in 0 .. N, Good(k) PROVE k = i
  <2>1. ~ i < k
    <3> SUFFICES ASSUME i < k PROVE FALSE
      OBVIOUS
    <3>1. i \in 0 .. k - 1
      BY <1>1
    <3> QED
      BY <1>8, <1>9, <3>1
  <2>2. ~ k < i
    <3> SUFFICES ASSUME k < i PROVE FALSE
      OBVIOUS
    <3>1. k \in 0 .. i - 1
      BY <1>1
    <3> QED
      BY <1>8, <1>9, <3>1
  <2> QED
    BY <1>1, <2>1, <2>2
<1>10. i \in 0 .. N
  BY <1>7
<1>11. i = CHOOSE k \in 0 .. N : Good(k)
  BY <1>8, <1>9, <1>10
<1>12. Seek(l, LAMBDA c : key[n] - key[c] < 0) = Addr(l)[i]
  BY <1>11 DEF Seek, N
<1>13. First(x)
  <2>1. ASSUME NEW j \in 1 .. x - 1 PROVE key[n] - key[q[l][j]] >= 0
    <3>1. j \in 1 .. len /\ ~ Later(j)
      BY <1>1, <1>5
    <3>2. PICK k \in Int : k = key[n] - key[q[l][j]]
      BY <1>2, <3>1
    <3> QED
      BY <3>1, <3>2
  <2> QED
    BY <1>5, <2>1
<1>14. ASSUME NEW k \in 1 .. len, First(k) PROVE k = x
  <2>1. ~ x < k
    <3> SUFFICES ASSUME x < k PROVE FALSE
      OBVIOUS
    <3>1. x \in 1 .. k - 1
      BY <1>1, <1>5
    <3>2. key[n] - key[q[l][x]] >= 0
      BY <1>14, <3>1
    <3>3. key[n] - key[q[l][x]] < 0 /\ key[n] - key[q[l][x]] \in Int
      BY <1>2, <1>5
    <3> QED
      BY <3>2, <3>3
  <2>2. ~ k < x
    <3> SUFFICES ASSUME k < x PROVE FALSE
      OBVIOUS
    <3>1. k \in 1 .. x - 1
      BY <1>1, <1>5
    <3> QED
      BY <1>5, <1>14, <3>1
  <2> QED
    BY <1>1, <1>5, <2>1, <2>2
<1>15. x = CHOOSE k \in 1 .. len : First(k)
  BY <1>5, <1>13, <1>14
<1> QED
  BY <1>6, <1>7, <1>12, <1>15

-----------------------------------------------------------------------------
(* The mapping to sequences and positions                                  *)

MappedTo(q) ==
    /\ seqBar = q
    /\ iter = NULL => iterBar = NULL
    /\ iter # NULL =>
          /\ iter.list \in Lists /\ iterBar # NULL /\ iterBar.list = iter.list
          /\ \A k \in 0 .. Len(q[iter.list]) :
                iter.at = Link(q[iter.list], iter.list, k)
                    => iterBar = [list |-> iter.list, pos |-> k + 1]

\* What the mapping shows, when the pointers stand for q
LEMMA Mapped == \A q \in Sequenced : TypeOK /\ Rep(q) => MappedTo(q)
<1> SUFFICES ASSUME NEW q \in Sequenced, TypeOK, Rep(q) PROVE MappedTo(q)
  OBVIOUS
<1>1. Apart(q) /\ Chained(q) /\ IterOn(q)
  BY DEF Rep
<1>2. seqBar = q
  BY <1>1, BarIs
<1>3. CASE iter = NULL
  BY <1>2, <1>3 DEF MappedTo, iterBar
<1>4. CASE iter # NULL
  <2>1. iter.list \in Lists
    BY <1>4 DEF TypeOK
  <2>2. Len(q[iter.list]) \in Nat
    BY <1>1, <2>1, Short
  <2>3. ASSUME NEW k \in 0 .. Len(q[iter.list]), iter.at = Link(q[iter.list], iter.list, k)
        PROVE  iterBar = [list |-> iter.list, pos |-> k + 1]
    <3>1. PosOf(iter.list, iter.at) = k
      BY <1>1, <2>1, <2>3, PlaceIs
    <3> QED
      BY <1>4, <3>1 DEF iterBar
  <2>4. PICK k \in 0 .. Len(q[iter.list]) : iter.at = Link(q[iter.list], iter.list, k)
    BY <1>1, <1>4 DEF IterOn
  <2>5. iterBar = [list |-> iter.list, pos |-> k + 1]
    BY <2>3, <2>4
  <2>6. iterBar \in [list : Lists, pos : Nat] /\ iterBar.list = iter.list
    BY <2>1, <2>2, <2>5
  <2>7. iterBar # NULL
    BY <2>6, NullAssumption
  <2> QED
    BY <1>2, <1>4, <2>1, <2>3, <2>6, <2>7 DEF MappedTo
<1> QED
  BY <1>3, <1>4

\* The same of the next state
LEMMA MappedNext ==
    ASSUME NEW r \in Sequenced, TypeOK', Rep(r)'
    PROVE  MappedTo(r)'
<1>1. (\A q \in Sequenced : TypeOK /\ Rep(q) => MappedTo(q))'
  BY Mapped, PTL
<1> QED
  BY <1>1

\* A change to l ends an iteration over l, and leaves every other where it is.
LEMMA ForgetIs ==
    ASSUME NEW q \in Sequenced, NEW r \in Sequenced, NEW l \in Lists, TypeOK, Rep(q),
           \A m \in Lists : m # l => r[m] = q[m], Forget(l)
    PROVE  /\ IterOn(r)'
           /\ iter' = NULL \/ iter' \in [list : Lists, at : Lists \cup Nodes]
           /\ MappedTo(r)' => iterBar' = IF iterBar # NULL /\ iterBar.list = l THEN NULL
                                         ELSE iterBar
<1>1. MappedTo(q) /\ IterOn(q)
  BY Mapped DEF Rep
<1>2. CASE iter = NULL
  <2>1. iter' = NULL
    BY <1>2 DEF Forget
  <2>2. IterOn(r)'
    BY <2>1 DEF IterOn
  <2>3. MappedTo(r)' => iterBar' = NULL
    BY <2>1 DEF MappedTo
  <2>4. iterBar = NULL
    BY <1>1, <1>2 DEF MappedTo
  <2> QED
    BY <2>1, <2>2, <2>3, <2>4
<1>3. CASE iter # NULL /\ iter.list = l
  <2>1. iter' = NULL
    BY <1>3 DEF Forget
  <2>2. IterOn(r)'
    BY <2>1 DEF IterOn
  <2>3. MappedTo(r)' => iterBar' = NULL
    BY <2>1 DEF MappedTo
  <2>4. iterBar # NULL /\ iterBar.list = l
    BY <1>1, <1>3 DEF MappedTo
  <2> QED
    BY <2>1, <2>2, <2>3, <2>4
<1>4. CASE iter # NULL /\ iter.list # l
  <2>1. iter' = iter
    BY <1>4 DEF Forget
  <2>2. iter.list \in Lists /\ iter \in [list : Lists, at : Lists \cup Nodes]
    BY <1>4 DEF TypeOK
  <2>3. r[iter.list] = q[iter.list]
    BY <1>4, <2>2
  <2>4. PICK k \in 0 .. Len(q[iter.list]) : iter.at = Link(q[iter.list], iter.list, k)
    BY <1>1, <1>4 DEF IterOn
  <2>5. IterOn(r)'
    BY <2>1, <2>3, <2>4 DEF IterOn
  <2>6. iterBar = [list |-> iter.list, pos |-> k + 1] /\ iterBar.list # l
    BY <1>1, <1>4, <2>4 DEF MappedTo
  <2>7. MappedTo(r)' => iterBar' = [list |-> iter.list, pos |-> k + 1]
    BY <1>4, <2>1, <2>3, <2>4 DEF MappedTo
  <2> QED
    BY <2>1, <2>2, <2>5, <2>6, <2>7
<1> QED
  BY <1>2, <1>3, <1>4

\* The same iterator over a list that changes at the iterator or behind it
LEMMA StaysIs ==
    ASSUME NEW q \in Sequenced, NEW r \in Sequenced, TypeOK, Rep(q), UNCHANGED iter,
           \A m \in Lists : (iter # NULL => m # iter.list) => r[m] = q[m],
           NEW i \in Nat,
           iter # NULL => /\ i \in 0 .. Len(q[iter.list]) /\ i \in 0 .. Len(r[iter.list])
                          /\ iter.at = Link(q[iter.list], iter.list, i)
                          /\ iter.at = Link(r[iter.list], iter.list, i)
    PROVE  /\ IterOn(r)'
           /\ iter' = NULL \/ iter' \in [list : Lists, at : Lists \cup Nodes]
           /\ MappedTo(r)' => iterBar' = iterBar
<1>1. MappedTo(q)
  BY Mapped
<1>2. IterOn(r)'
  BY DEF IterOn
<1>3. iter' = NULL \/ iter' \in [list : Lists, at : Lists \cup Nodes]
  BY DEF TypeOK
<1>4. ASSUME MappedTo(r)' PROVE iterBar' = iterBar
  <2>1. CASE iter = NULL
    BY <1>1, <1>4, <2>1 DEF MappedTo
  <2>2. CASE iter # NULL
    <3>1. iterBar = [list |-> iter.list, pos |-> i + 1]
      BY <1>1, <2>2 DEF MappedTo
    <3>2. iterBar' = [list |-> iter.list, pos |-> i + 1]
      BY <1>4, <2>2 DEF MappedTo
    <3> QED
      BY <3>1, <3>2
  <2> QED
    BY <2>1, <2>2
<1> QED
  BY <1>2, <1>3, <1>4

-----------------------------------------------------------------------------
(* What an insertion and a removal do, wherever they are called from       *)

\* The pointers stand for the sequences with n, whatever becomes of the
\* iterator.
LEMMA InsertKeeps ==
    ASSUME TypeOK, NEW q \in Sequenced, Rep(q), NEW l \in Lists,
           NEW i \in 0 .. Len(q[l]), NEW n \in Nodes, ~ On(q, n),
           LinksIn(Link(q[l], l, i), n),
           tail' = IF i = Len(q[l]) THEN [tail EXCEPT ![l] = n] ELSE tail,
           UNCHANGED key, res' = TRUE,
           IterOn(Inserted(q, l, i, n))',
           iter' = NULL \/ iter' \in [list : Lists, at : Lists \cup Nodes]
    PROVE  TypeOK' /\ Rep(Inserted(q, l, i, n))'
<1> DEFINE r == Inserted(q, l, i, n)
           len == Len(q[l])
<1>0. Apart(q) /\ Chained(q) /\ Loose(q) /\ Ends(q)
  BY DEF Rep
<1>0a. WithOneMore(q, r, l, i, n)
  BY <1>0, InsertedIs
<1>1. /\ r \in Sequenced
      /\ \A m \in Lists : m # l => r[m] = q[m]
      /\ r[l] = Sequential!PutAt(q[l], i + 1, n)
      /\ len \in Nat /\ Len(r[l]) = len + 1
      /\ \A k \in 1 .. i : r[l][k] = q[l][k]
      /\ r[l][i + 1] = n
      /\ \A k \in i + 2 .. len + 1 : r[l][k] = q[l][k - 1]
      /\ Apart(r)
      /\ \A o \in Nodes : On(r, o) <=> On(q, o) \/ o = n
  BY <1>0a DEF WithOneMore
<1>2. /\ Chained(r)' /\ Loose(r)'
      /\ ptr' \in [Lists \cup Nodes -> Nodes \cup {NULL}]
  BY <1>0, LinkInKeeps
<1>3. IterOn(r)'
  OBVIOUS
<1> HIDE DEF r
<1>4. tail \in [Lists -> Lists \cup Nodes \cup {NULL}]
  BY DEF TypeOK
<1>5. tail' \in [Lists -> Lists \cup Nodes \cup {NULL}]
  BY <1>4
<1>6. TypeOK'
  BY <1>2, <1>5 DEF TypeOK
<1>7. ASSUME NEW m \in Lists, Len(r[m]) > 0 PROVE tail'[m] = r[m][Len(r[m])]
  <2>1. CASE m # l
    BY <1>0, <1>1, <1>4, <1>7, <2>1 DEF Ends
  <2>2. CASE m = l /\ i = len
    BY <1>1, <1>4, <2>2
  <2>3. CASE m = l /\ i # len
    <3>1. len + 1 \in i + 2 .. len + 1 /\ len + 1 - 1 = len /\ len > 0
      BY <1>1, <2>3
    <3>2. r[l][len + 1] = q[l][len]
      BY <1>1, <3>1
    <3>3. tail[l] = q[l][len]
      BY <1>0, <3>1 DEF Ends
    <3> QED
      BY <1>1, <2>3, <3>2, <3>3
  <2> QED
    BY <2>1, <2>2, <2>3
<1>8. Ends(r)'
  BY <1>7 DEF Ends
<1>9. Apart(r)'
  BY <1>1 DEF Apart
<1> QED
  BY <1>2, <1>3, <1>6, <1>8, <1>9 DEF Rep, r

\* The pointers stand for the sequences without the node behind i others.
LEMMA RemoveKeeps ==
    ASSUME TypeOK, NEW q \in Sequenced, Rep(q), NEW l \in Lists,
           NEW i \in 0 .. Len(q[l]) - 1,
           LinksOut(Link(q[l], l, i)),
           tail' \in [Lists -> Lists \cup Nodes \cup {NULL}],
           \A m \in Lists : m # l => tail'[m] = tail[m],
           Len(q[l]) > 1 => tail'[l] = IF i + 1 = Len(q[l]) THEN Link(q[l], l, i)
                                       ELSE tail[l],
           UNCHANGED key, res' \in Nodes \cup {NULL} \cup BOOLEAN,
           IterOn(Removed(q, l, i))',
           iter' = NULL \/ iter' \in [list : Lists, at : Lists \cup Nodes]
    PROVE  TypeOK' /\ Rep(Removed(q, l, i))'
<1> DEFINE r == Removed(q, l, i)
           len == Len(q[l])
<1>0. Apart(q) /\ Chained(q) /\ Loose(q) /\ Ends(q)
  BY DEF Rep
<1>0a. WithOneLess(q, r, l, i)
  BY <1>0, RemovedIs
<1>1. /\ r \in Sequenced
      /\ \A m \in Lists : m # l => r[m] = q[m]
      /\ r[l] = Sequential!DropAt(q[l], i + 1)
      /\ len \in Nat /\ Len(r[l]) = len - 1
      /\ \A k \in 1 .. i : r[l][k] = q[l][k]
      /\ \A k \in i + 1 .. len - 1 : r[l][k] = q[l][k + 1]
      /\ Apart(r)
      /\ \A o \in Nodes : On(r, o) <=> On(q, o) /\ o # q[l][i + 1]
  BY <1>0a DEF WithOneLess
<1>2. /\ Chained(r)' /\ Loose(r)'
      /\ ptr' \in [Lists \cup Nodes -> Nodes \cup {NULL}]
  BY <1>0, LinkOutKeeps
<1>3. IterOn(r)'
  OBVIOUS
<1> HIDE DEF r
<1>6. TypeOK'
  BY <1>2 DEF TypeOK
<1>7. ASSUME NEW m \in Lists, Len(r[m]) > 0 PROVE tail'[m] = r[m][Len(r[m])]
  <2>1. CASE m # l
    BY <1>0, <1>1, <1>7, <2>1 DEF Ends
  <2>2. CASE m = l /\ i + 1 = len
    <3>1. len > 1 /\ i # 0 /\ i \in 1 .. i /\ Len(r[l]) = i
      BY <1>1, <1>7, <2>2
    <3>2. tail'[l] = q[l][i]
      BY <2>2, <3>1 DEF Link
    <3> QED
      BY <1>1, <2>2, <3>1, <3>2
  <2>3. CASE m = l /\ i + 1 # len
    <3>1. len - 1 \in i + 1 .. len - 1 /\ len - 1 + 1 = len /\ len > 1 /\ len > 0
      BY <1>1, <2>3
    <3>2. r[l][len - 1] = q[l][len]
      BY <1>1, <3>1
    <3>3. tail[l] = q[l][len]
      BY <1>0, <3>1 DEF Ends
    <3> QED
      BY <1>1, <2>3, <3>1, <3>2, <3>3
  <2> QED
    BY <2>1, <2>2, <2>3
<1>8. Ends(r)'
  BY <1>7 DEF Ends
<1>9. Apart(r)'
  BY <1>1 DEF Apart
<1> QED
  BY <1>2, <1>3, <1>6, <1>8, <1>9 DEF Rep, r

-----------------------------------------------------------------------------
(* The same, as changes to the sequences                                   *)

\* An insertion that ends the iterations over its list
LEMMA InsertChanges ==
    ASSUME TypeOK, NEW q \in Sequenced, Rep(q), NEW l \in Lists,
           NEW i \in 0 .. Len(q[l]), NEW n \in Nodes, ~ On(q, n),
           LinksIn(Link(q[l], l, i), n),
           tail' = IF i = Len(q[l]) THEN [tail EXCEPT ![l] = n] ELSE tail,
           UNCHANGED key, res' = TRUE, Forget(l)
    PROVE  /\ IInv'
           /\ Sequential!Changed(l, Sequential!PutAt(q[l], i + 1, n), TRUE)
<1> DEFINE r == Inserted(q, l, i, n)
<1>1. Apart(q) /\ Chained(q)
  BY DEF Rep
<1>2. r \in Sequenced /\ \A m \in Lists : m # l => r[m] = q[m]
  BY <1>1, InsertedIs DEF WithOneMore
<1> HIDE DEF r
<1>3. /\ IterOn(r)'
      /\ iter' = NULL \/ iter' \in [list : Lists, at : Lists \cup Nodes]
      /\ MappedTo(r)' => iterBar' = IF iterBar # NULL /\ iterBar.list = l THEN NULL
                                    ELSE iterBar
  BY <1>2, ForgetIs
<1>4. TypeOK' /\ Rep(r)'
  BY <1>3, InsertKeeps DEF r
<1>5. MappedTo(r)'
  BY <1>2, <1>4, MappedNext
<1>6. seqBar = q /\ seqBar' = r
  BY <1>1, <1>5, BarIs DEF MappedTo
<1>7. IInv'
  BY <1>2, <1>4 DEF IInv
<1>8. seqBar' = [seqBar EXCEPT ![l] = Sequential!PutAt(q[l], i + 1, n)]
  BY <1>6 DEF r, Inserted
<1> QED
  BY <1>3, <1>5, <1>7, <1>8 DEF Sequential!Changed

\* An insertion at an iterator, which stays where it is
LEMMA InsertStays ==
    ASSUME TypeOK, NEW q \in Sequenced, Rep(q), iter # NULL,
           NEW i \in 0 .. Len(q[iter.list]), NEW n \in Nodes, ~ On(q, n),
           iter.at = Link(q[iter.list], iter.list, i),
           LinksIn(iter.at, n),
           tail' = IF i = Len(q[iter.list]) THEN [tail EXCEPT ![iter.list] = n] ELSE tail,
           UNCHANGED <<key, iter>>, res' = TRUE
    PROVE  /\ IInv' /\ UNCHANGED iterBar
           /\ seqBar' = [seqBar EXCEPT ![iter.list] =
                            Sequential!PutAt(seqBar[iter.list], i + 1, n)]
<1>0. PICK l \in Lists : l = iter.list
  BY DEF TypeOK
<1> DEFINE r == Inserted(q, l, i, n)
<1>1. Apart(q) /\ Chained(q)
  BY DEF Rep
<1>2. /\ r \in Sequenced /\ \A m \in Lists : m # l => r[m] = q[m]
      /\ Len(q[l]) \in Nat /\ Len(r[l]) = Len(q[l]) + 1
      /\ \A k \in 1 .. i : r[l][k] = q[l][k]
  BY <1>0, <1>1, InsertedIs DEF WithOneMore
<1> HIDE DEF r
<1>3. i \in Nat /\ i \in 0 .. Len(r[l]) /\ (i = 0 \/ i \in 1 .. i)
  BY <1>0, <1>2
<1>4. iter.at = Link(r[l], l, i)
  BY <1>0, <1>2, <1>3 DEF Link
<1>5. /\ IterOn(r)'
      /\ iter' = NULL \/ iter' \in [list : Lists, at : Lists \cup Nodes]
      /\ MappedTo(r)' => iterBar' = iterBar
  BY <1>0, <1>2, <1>3, <1>4, StaysIs
<1>6. TypeOK' /\ Rep(r)'
  BY <1>0, <1>5, InsertKeeps DEF r
<1>7. MappedTo(r)'
  BY <1>2, <1>6, MappedNext
<1>8. seqBar = q /\ seqBar' = r
  BY <1>1, <1>7, BarIs DEF MappedTo
<1>9. IInv'
  BY <1>2, <1>6 DEF IInv
<1>10. seqBar' = [seqBar EXCEPT ![l] = Sequential!PutAt(seqBar[l], i + 1, n)]
  BY <1>8 DEF r, Inserted
<1> QED
  BY <1>0, <1>5, <1>7, <1>9, <1>10

\* A removal that ends the iterations over its list
LEMMA RemoveChanges ==
    ASSUME TypeOK, NEW q \in Sequenced, Rep(q), NEW l \in Lists,
           NEW i \in 0 .. Len(q[l]) - 1,
           LinksOut(Link(q[l], l, i)),
           tail' \in [Lists -> Lists \cup Nodes \cup {NULL}],
           \A m \in Lists : m # l => tail'[m] = tail[m],
           Len(q[l]) > 1 => tail'[l] = IF i + 1 = Len(q[l]) THEN Link(q[l], l, i)
                                       ELSE tail[l],
           UNCHANGED key, res' \in Nodes \cup {NULL} \cup BOOLEAN, Forget(l)
    PROVE  /\ IInv'
           /\ Sequential!Changed(l, Sequential!DropAt(q[l], i + 1), res')
<1> DEFINE r == Removed(q, l, i)
<1>1. Apart(q) /\ Chained(q)
  BY DEF Rep
<1>2. r \in Sequenced /\ \A m \in Lists : m # l => r[m] = q[m]
  BY <1>1, RemovedIs DEF WithOneLess
<1> HIDE DEF r
<1>3. /\ IterOn(r)'
      /\ iter' = NULL \/ iter' \in [list : Lists, at : Lists \cup Nodes]
      /\ MappedTo(r)' => iterBar' = IF iterBar # NULL /\ iterBar.list = l THEN NULL
                                    ELSE iterBar
  BY <1>2, ForgetIs
<1>4. TypeOK' /\ Rep(r)'
  BY <1>3, RemoveKeeps DEF r
<1>5. MappedTo(r)'
  BY <1>2, <1>4, MappedNext
<1>6. seqBar = q /\ seqBar' = r
  BY <1>1, <1>5, BarIs DEF MappedTo
<1>7. IInv'
  BY <1>2, <1>4 DEF IInv
<1>8. seqBar' = [seqBar EXCEPT ![l] = Sequential!DropAt(q[l], i + 1)]
  BY <1>6 DEF r, Removed
<1> QED
  BY <1>3, <1>5, <1>7, <1>8 DEF Sequential!Changed

\* A removal at an iterator, which stays where it is
LEMMA RemoveStays ==
    ASSUME TypeOK, NEW q \in Sequenced, Rep(q), iter # NULL,
           NEW i \in 0 .. Len(q[iter.list]) - 1,
           iter.at = Link(q[iter.list], iter.list, i),
           LinksOut(iter.at),
           tail' \in [Lists -> Lists \cup Nodes \cup {NULL}],
           \A m \in Lists : m # iter.list => tail'[m] = tail[m],
           Len(q[iter.list]) > 1 =>
               tail'[iter.list] = IF i + 1 = Len(q[iter.list]) THEN iter.at
                                  ELSE tail[iter.list],
           UNCHANGED <<key, iter>>, res' \in Nodes \cup {NULL} \cup BOOLEAN
    PROVE  /\ IInv' /\ UNCHANGED iterBar
           /\ seqBar' = [seqBar EXCEPT ![iter.list] =
                            Sequential!DropAt(seqBar[iter.list], i + 1)]
<1>0. PICK l \in Lists : l = iter.list
  BY DEF TypeOK
<1> DEFINE r == Removed(q, l, i)
<1>1. Apart(q) /\ Chained(q)
  BY DEF Rep
<1>2. /\ r \in Sequenced /\ \A m \in Lists : m # l => r[m] = q[m]
      /\ Len(q[l]) \in Nat /\ Len(r[l]) = Len(q[l]) - 1
      /\ \A k \in 1 .. i : r[l][k] = q[l][k]
  BY <1>0, <1>1, RemovedIs DEF WithOneLess
<1> HIDE DEF r
<1>3. i \in Nat /\ i \in 0 .. Len(r[l]) /\ (i = 0 \/ i \in 1 .. i) /\ i \in 0 .. Len(q[l])
  BY <1>0, <1>2
<1>4. iter.at = Link(r[l], l, i)
  BY <1>0, <1>2, <1>3 DEF Link
<1>5. /\ IterOn(r)'
      /\ iter' = NULL \/ iter' \in [list : Lists, at : Lists \cup Nodes]
      /\ MappedTo(r)' => iterBar' = iterBar
  BY <1>0, <1>2, <1>3, <1>4, StaysIs
<1>6. TypeOK' /\ Rep(r)'
  BY <1>0, <1>5, RemoveKeeps DEF r
<1>7. MappedTo(r)'
  BY <1>2, <1>6, MappedNext
<1>8. seqBar = q /\ seqBar' = r
  BY <1>1, <1>7, BarIs DEF MappedTo
<1>9. IInv'
  BY <1>2, <1>6 DEF IInv
<1>10. seqBar' = [seqBar EXCEPT ![l] = Sequential!DropAt(seqBar[l], i + 1)]
  BY <1>8 DEF r, Removed
<1> QED
  BY <1>0, <1>5, <1>7, <1>9, <1>10

\* A call that leaves the lists alone and may move the iterator
LEMMA Moves ==
    ASSUME TypeOK, NEW q \in Sequenced, Rep(q), UNCHANGED <<ptr, tail, key>>,
           res' \in Nodes \cup {NULL} \cup BOOLEAN, NEW l \in Lists,
           NEW i \in 0 .. Len(q[l]), Point(l, Link(q[l], l, i))
    PROVE  /\ IInv' /\ UNCHANGED seqBar /\ Sequential!Point(l, i + 1)
<1>1. /\ Apart(q) /\ Chained(q) /\ Loose(q) /\ Ends(q)
      /\ Apart(q)' /\ Chained(q)' /\ Loose(q)' /\ Ends(q)'
  BY DEF Rep, Apart, Chained, Loose, Ends, On
<1>2. Link(q[l], l, i) \in Lists \cup Nodes
  BY <1>1, LinkIs
<1>3. iter' \in [list : Lists, at : Lists \cup Nodes]
  BY <1>2 DEF Point
<1>4. iter'.list = l /\ iter'.at = Link(q[l], l, i)
  BY DEF Point
<1>5. TypeOK'
  BY <1>3 DEF TypeOK
<1>6. IterOn(q)'
  BY <1>4 DEF IterOn
<1>7. Rep(q)'
  BY <1>1, <1>6 DEF Rep
<1>8. MappedTo(q)'
  BY <1>5, <1>7, MappedNext
<1>9. seqBar = q /\ seqBar' = q
  BY <1>1, <1>8, BarIs DEF MappedTo
<1>10. iter' # NULL
  BY <1>3, ListAssumption
<1>11. iterBar' = [list |-> l, pos |-> i + 1]
  BY <1>4, <1>8, <1>10 DEF MappedTo
<1> QED
  BY <1>5, <1>7, <1>9, <1>11 DEF IInv, Sequential!Point

\* A call that changes nothing but what it returns
LEMMA Rests ==
    ASSUME TypeOK, NEW q \in Sequenced, Rep(q), UNCHANGED <<ptr, tail, key, iter>>,
           res' \in Nodes \cup {NULL} \cup BOOLEAN
    PROVE  IInv' /\ UNCHANGED <<seqBar, iterBar>>
<1>1. TypeOK'
  BY DEF TypeOK
<1>2. Rep(q)'
  BY DEF Rep, Apart, Chained, Loose, Ends, IterOn, On
<1>3. MappedTo(q) /\ MappedTo(q)'
  BY <1>1, <1>2, Mapped, MappedNext
<1>4. seqBar' = seqBar
  BY <1>3 DEF MappedTo
<1>5. iterBar' = iterBar
  <2>1. CASE iter = NULL
    BY <1>3, <2>1 DEF MappedTo
  <2>2. CASE iter # NULL
    <3>1. PICK k \in 0 .. Len(q[iter.list]) : iter.at = Link(q[iter.list], iter.list, k)
      BY <2>2 DEF Rep, IterOn
    <3> QED
      BY <1>3, <2>2, <3>1 DEF MappedTo
  <2> QED
    BY <2>1, <2>2
<1> QED
  BY <1>1, <1>2, <1>4, <1>5 DEF IInv

-----------------------------------------------------------------------------
(* Each call                                                               *)

\* Both ends of a sequence are positions of it.
LEMMA EndPositions ==
    ASSUME NEW T, NEW s \in Seq(T), NEW x \in T
    PROVE  /\ Append(s, x) = Sequential!PutAt(s, Len(s) + 1, x)
           /\ <<x>> \o s = Sequential!PutAt(s, 1, x)
           /\ s # <<>> => Tail(s) = Sequential!DropAt(s, 1) /\ Head(s) = s[1]
           /\ s = <<>> <=> Len(s) = 0
<1>1. Len(s) \in Nat
  BY LenProperties
<1>2. Append(s, x) = Sequential!PutAt(s, Len(s) + 1, x)
  <2> DEFINE p == Sequential!PutAt(s, Len(s) + 1, x)
  <2>1. Len(s) + 1 \in 1 .. Len(s) + 1
    BY <1>1
  <2>2. /\ p \in Seq(T) /\ Len(p) = Len(s) + 1
        /\ \A k \in 1 .. Len(s) + 1 :
              p[k] = IF k < Len(s) + 1 THEN s[k] ELSE IF k = Len(s) + 1 THEN x ELSE s[k - 1]
    <3>1. ASSUME NEW k \in 1 .. Len(s) + 1
          PROVE  (IF k < Len(s) + 1 THEN s[k] ELSE IF k = Len(s) + 1 THEN x ELSE s[k - 1])
                     \in T
      BY <1>1, ElementOfSeq
    <3>2. p \in [1 .. Len(s) + 1 -> T]
      BY <3>1 DEF Sequential!PutAt
    <3>3. p \in Seq(T) /\ Len(p) = Len(s) + 1
      BY <1>1, <3>2, LF!FunctionSeq
    <3> QED
      BY <3>3 DEF Sequential!PutAt
  <2> HIDE DEF p
  <2>3. /\ Append(s, x) \in Seq(T) /\ Len(Append(s, x)) = Len(s) + 1
        /\ \A k \in 1 .. Len(s) : Append(s, x)[k] = s[k]
        /\ Append(s, x)[Len(s) + 1] = x
    BY AppendProperties
  <2>4. \A k \in 1 .. Len(s) + 1 : Append(s, x)[k] = p[k]
    BY <1>1, <2>2, <2>3
  <2>5. Append(s, x) = p
    BY <2>2, <2>3, <2>4, SeqEqual
  <2> QED
    BY <2>5 DEF p
<1>3. <<x>> \o s = Sequential!PutAt(s, 1, x)
  <2> DEFINE p == Sequential!PutAt(s, 1, x)
  <2>1. 1 \in 1 .. Len(s) + 1
    BY <1>1
  <2>2. /\ p \in Seq(T) /\ Len(p) = Len(s) + 1
        /\ \A k \in 1 .. Len(s) + 1 :
              p[k] = IF k < 1 THEN s[k] ELSE IF k = 1 THEN x ELSE s[k - 1]
    BY <2>1, PutsAt
  <2> HIDE DEF p
  <2>3. <<x>> \in Seq(T) /\ Len(<<x>>) = 1 /\ <<x>>[1] = x
    OBVIOUS
  <2>4. /\ <<x>> \o s \in Seq(T) /\ Len(<<x>> \o s) = 1 + Len(s)
        /\ \A k \in 1 .. 1 + Len(s) :
              (<<x>> \o s)[k] = IF k =< 1 THEN <<x>>[k] ELSE s[k - 1]
    BY <2>3, ConcatProperties
  <2>5. \A k \in 1 .. Len(s) + 1 : (<<x>> \o s)[k] = p[k]
    BY <1>1, <2>2, <2>3, <2>4
  <2>6. <<x>> \o s = p
    BY <1>1, <2>2, <2>4, <2>5, SeqEqual
  <2> QED
    BY <2>6 DEF p
<1>4. ASSUME s # <<>> PROVE Tail(s) = Sequential!DropAt(s, 1) /\ Head(s) = s[1]
  <2> DEFINE d == Sequential!DropAt(s, 1)
  <2>1. 1 \in 1 .. Len(s)
    BY <1>1, <1>4, EmptySeq
  <2>2. /\ d \in Seq(T) /\ Len(d) = Len(s) - 1
        /\ \A k \in 1 .. Len(s) - 1 : d[k] = IF k < 1 THEN s[k] ELSE s[k + 1]
    BY <2>1, DropsAt
  <2> HIDE DEF d
  <2>3. /\ Tail(s) \in Seq(T) /\ Len(Tail(s)) = Len(s) - 1 /\ Head(s) = s[1]
        /\ \A k \in 1 .. Len(s) - 1 : Tail(s)[k] = s[k + 1]
    BY <1>1, <1>4, HeadTailProperties
  <2>4. \A k \in 1 .. Len(s) - 1 : Tail(s)[k] = d[k]
    BY <1>1, <2>2, <2>3
  <2>5. Tail(s) = d
    BY <2>2, <2>3, <2>4, SeqEqual
  <2> QED
    BY <2>3, <2>5 DEF d
<1>5. s = <<>> <=> Len(s) = 0
  BY EmptySeq
<1> QED
  BY <1>2, <1>3, <1>4, <1>5

\* The last pointer of a list, which list_insert finds by the tail, and its
\* first one
LEMMA EndIs ==
    ASSUME TypeOK, NEW q \in Sequenced, Rep(q), NEW l \in Lists
    PROVE  /\ (IF ptr[l] # NULL THEN tail[l] ELSE l) = Link(q[l], l, Len(q[l]))
           /\ Len(q[l]) \in 0 .. Len(q[l]) /\ 0 \in 0 .. Len(q[l])
           /\ Link(q[l], l, 0) = l
           /\ ptr[l] = NULL <=> Len(q[l]) = 0
           /\ Len(q[l]) > 0 => ptr[l] = q[l][1] /\ tail[l] = q[l][Len(q[l])]
           /\ q[l] \in Seq(Nodes) /\ Len(q[l]) \in Nat
<1>1. Apart(q) /\ Chained(q) /\ Ends(q)
  BY DEF Rep
<1>2. q[l] \in Seq(Nodes) /\ Len(q[l]) \in Nat
  BY <1>1, Short
<1>3. Len(q[l]) \in 0 .. Len(q[l]) /\ 0 \in 0 .. Len(q[l])
  BY <1>2
<1>4. Link(q[l], l, 0) = l
  BY DEF Link
<1>5. /\ ptr[l] = IF 0 < Len(q[l]) THEN q[l][0 + 1] ELSE NULL
      /\ ptr[l] = NULL <=> 0 = Len(q[l])
  BY <1>1, <1>3, <1>4, PointsTo
<1>6. Len(q[l]) > 0 => ptr[l] = q[l][1]
  BY <1>2, <1>5
<1>7. Len(q[l]) > 0 => tail[l] = q[l][Len(q[l])]
  BY <1>1 DEF Ends
<1>8. (IF ptr[l] # NULL THEN tail[l] ELSE l) = Link(q[l], l, Len(q[l]))
  BY <1>2, <1>5, <1>7 DEF Link
<1> QED
  BY <1>2, <1>3, <1>4, <1>5, <1>6, <1>7, <1>8

\* Linking a node in behind the last pointer takes one store.
LEMMA LinksLast ==
    ASSUME TypeOK, NEW q \in Sequenced, Rep(q), NEW l \in Lists, NEW n \in Nodes, ~ On(q, n),
           ptr' = [ptr EXCEPT ![IF ptr[l] # NULL THEN tail[l] ELSE l] = n]
    PROVE  LinksIn(Link(q[l], l, Len(q[l])), n)
<1> DEFINE a == Link(q[l], l, Len(q[l]))
<1>1. (IF ptr[l] # NULL THEN tail[l] ELSE l) = a /\ Len(q[l]) \in 0 .. Len(q[l])
  BY EndIs
<1>2. Apart(q) /\ Chained(q) /\ Loose(q)
  BY DEF Rep
<1>3. a \in Lists \cup Nodes /\ a # n
  BY <1>1, <1>2, LinkIs
<1>4. ptr[a] = NULL /\ ptr[n] = NULL
  BY <1>1, <1>2, PointsTo DEF Loose
<1>5. ptr' = [ptr EXCEPT ![a] = n]
  BY <1>1
<1> HIDE DEF a
<1>6. [ptr EXCEPT ![a] = n] = [ptr EXCEPT ![a] = n, ![n] = ptr[a]]
  BY <1>3, <1>4 DEF TypeOK
<1>7. LinksIn(a, n)
  BY <1>5, <1>6 DEF LinksIn
<1> QED
  BY <1>7 DEF a

\* list_insert
LEMMA InsertIs ==
    ASSUME IInv, NEW l \in Lists, NEW n \in Nodes, Insert(l, n)
    PROVE  IInv' /\ Sequential!Put(l, n)
<1>1. PICK q \in Sequenced : Rep(q)
  BY DEF IInv
<1>2. TypeOK /\ Apart(q) /\ Chained(q)
  BY <1>1 DEF IInv, Rep
<1>3. ~ On(q, n) /\ Sequential!Free(n)
  BY <1>2, FreeIs DEF Insert
<1>4. LinksIn(Link(q[l], l, Len(q[l])), n)
  BY <1>1, <1>2, <1>3, LinksLast DEF Insert
<1>5. Len(q[l]) \in 0 .. Len(q[l]) /\ q[l] \in Seq(Nodes)
  BY <1>1, <1>2, EndIs
<1>6. IInv' /\ Sequential!Changed(l, Sequential!PutAt(q[l], Len(q[l]) + 1, n), TRUE)
  BY <1>1, <1>2, <1>3, <1>4, <1>5, InsertChanges DEF Insert
<1>7. Sequential!Insert(seqBar[l], n) = Sequential!PutAt(q[l], Len(q[l]) + 1, n)
  BY <1>2, <1>5, BarIs, EndPositions DEF Sequential!Insert
<1> QED
  BY <1>3, <1>6, <1>7 DEF Sequential!Put

\* list_insert_sorted
LEMMA InsertSortedIs ==
    ASSUME IInv, NEW l \in Lists, NEW n \in Nodes, InsertSorted(l, n)
    PROVE  IInv' /\ Sequential!PutSorted(l, n)
<1>1. PICK q \in Sequenced : Rep(q)
  BY DEF IInv
<1>2. TypeOK /\ Apart(q) /\ Chained(q)
  BY <1>1 DEF IInv, Rep
<1>3. ~ On(q, n) /\ Sequential!Free(n)
  BY <1>2, FreeIs DEF InsertSorted
<1>4. /\ Len(q[l]) \in 0 .. Len(q[l]) /\ q[l] \in Seq(Nodes) /\ Len(q[l]) \in Nat
      /\ ptr[l] = NULL <=> Len(q[l]) = 0
      /\ Len(q[l]) > 0 => tail[l] = q[l][Len(q[l])]
  BY <1>1, <1>2, EndIs
<1>5. seqBar[l] = q[l]
  BY <1>2, BarIs
<1>6. \A i \in 1 .. Len(q[l]) : q[l][i] \in Nodes
  BY <1>4, ElementOfSeq
<1>7. key[n] \in Int /\ \A i \in 1 .. Len(q[l]) : key[q[l][i]] \in Int
  BY <1>2, <1>6 DEF TypeOK
<1>8. q[l] = <<>> <=> Len(q[l]) = 0
  BY <1>4, EmptySeq
<1>9. CASE ptr[l] = NULL \/ key[n] - key[tail[l]] >= 0
  <2>1. LinksIn(Link(q[l], l, Len(q[l])), n)
    BY <1>1, <1>2, <1>3, <1>9, LinksLast DEF InsertSorted
  <2>2. IInv' /\ Sequential!Changed(l, Sequential!PutAt(q[l], Len(q[l]) + 1, n), TRUE)
    BY <1>1, <1>2, <1>3, <1>4, <1>9, <2>1, InsertChanges DEF InsertSorted
  <2>3. q[l] = <<>> \/ key[n] - key[q[l][Len(q[l])]] >= 0
    BY <1>4, <1>8, <1>9
  <2>4. Sequential!InsertSorted(seqBar[l], n, LAMBDA x, y : key[x] - key[y])
            = Append(q[l], n)
    BY <1>5, <2>3 DEF Sequential!InsertSorted
  <2>5. Append(q[l], n) = Sequential!PutAt(q[l], Len(q[l]) + 1, n)
    BY <1>4, EndPositions
  <2> QED
    BY <1>3, <2>2, <2>4, <2>5 DEF Sequential!PutSorted
<1>10. CASE ~ (ptr[l] = NULL \/ key[n] - key[tail[l]] >= 0)
  <2>1. Len(q[l]) > 0 /\ Len(q[l]) \in 1 .. Len(q[l])
    BY <1>4, <1>10
  <2>2. key[n] - key[q[l][Len(q[l])]] < 0
    BY <1>4, <1>7, <1>10, <2>1
  <2>3. PICK i \in 0 .. Len(q[l]) - 1 :
           /\ Seek(l, LAMBDA c : key[n] - key[c] < 0) = Link(q[l], l, i)
           /\ i + 1 = CHOOSE k \in 1 .. Len(q[l]) :
                          /\ key[n] - key[q[l][k]] < 0
                          /\ \A j \in 1 .. k - 1 : key[n] - key[q[l][j]] >= 0
    BY <1>2, <2>1, <2>2, SortIs
  <2>4. i \in 0 .. Len(q[l]) /\ i # Len(q[l])
    BY <1>4
  <2>5. LinksIn(Link(q[l], l, i), n) /\ tail' = tail
    BY <1>10, <2>3 DEF InsertSorted, LinksIn
  <2>6. IInv' /\ Sequential!Changed(l, Sequential!PutAt(q[l], i + 1, n), TRUE)
    BY <1>1, <1>2, <1>3, <2>4, <2>5, InsertChanges DEF InsertSorted
  <2>7. ~ (q[l] = <<>> \/ key[n] - key[q[l][Len(q[l])]] >= 0)
    BY <1>4, <1>7, <1>8, <2>1, <2>2
  <2>8. Sequential!InsertSorted(seqBar[l], n, LAMBDA x, y : key[x] - key[y])
            = Sequential!PutAt(q[l], i + 1, n)
    BY <1>5, <2>3, <2>7 DEF Sequential!InsertSorted
  <2> QED
    BY <1>3, <2>6, <2>8 DEF Sequential!PutSorted
<1> QED
  BY <1>9, <1>10

\* list_push
LEMMA PushIs ==
    ASSUME IInv, NEW l \in Lists, NEW n \in Nodes, Push(l, n)
    PROVE  IInv' /\ Sequential!Push(l, n)
<1>1. PICK q \in Sequenced : Rep(q)
  BY DEF IInv
<1>2. TypeOK /\ Apart(q) /\ Chained(q)
  BY <1>1 DEF IInv, Rep
<1>3. ~ On(q, n) /\ Sequential!Free(n)
  BY <1>2, FreeIs DEF Push
<1>4. /\ Link(q[l], l, 0) = l /\ 0 \in 0 .. Len(q[l]) /\ q[l] \in Seq(Nodes)
      /\ ptr[l] = NULL <=> Len(q[l]) = 0
  BY <1>1, <1>2, EndIs
<1>5. l # n
  BY ListAssumption
<1>6. LinksIn(Link(q[l], l, 0), n)
  BY <1>2, <1>4, <1>5 DEF LinksIn, Push, TypeOK
<1>7. tail' = IF 0 = Len(q[l]) THEN [tail EXCEPT ![l] = n] ELSE tail
  BY <1>4 DEF Push
<1>8. IInv' /\ Sequential!Changed(l, Sequential!PutAt(q[l], 0 + 1, n), TRUE)
  BY <1>1, <1>2, <1>3, <1>4, <1>6, <1>7, InsertChanges DEF Push
<1>9. <<n>> \o seqBar[l] = Sequential!PutAt(q[l], 1, n)
  BY <1>2, <1>4, BarIs, EndPositions
<1>10. Sequential!Changed(l, <<n>> \o seqBar[l], TRUE)
  BY <1>8, <1>9, 0 + 1 = 1
<1> QED
  BY <1>3, <1>8, <1>10 DEF Sequential!Push

\* list_extract: the tail is left alone, which matters to no list that is left.
LEMMA ExtractIs ==
    ASSUME IInv, NEW l \in Lists, Extract(l)
    PROVE  IInv' /\ Sequential!Extract(l)
<1>1. PICK q \in Sequenced : Rep(q)
  BY DEF IInv
<1>2. TypeOK /\ Apart(q) /\ Chained(q)
  BY <1>1 DEF IInv, Rep
<1>4. /\ Link(q[l], l, 0) = l /\ q[l] \in Seq(Nodes) /\ Len(q[l]) \in Nat
      /\ ptr[l] = NULL <=> Len(q[l]) = 0
      /\ Len(q[l]) > 0 => ptr[l] = q[l][1]
  BY <1>1, <1>2, EndIs
<1>5. seqBar[l] = q[l]
  BY <1>2, BarIs
<1>6. q[l] = <<>> <=> Len(q[l]) = 0
  BY <1>4, EmptySeq
<1>7. CASE ptr[l] = NULL
  <2>1. res' = NULL /\ UNCHANGED <<ptr, tail, key, iter>>
    BY <1>7 DEF Extract
  <2>2. IInv' /\ UNCHANGED <<seqBar, iterBar>>
    BY <1>1, <1>2, <2>1, Rests
  <2> QED
    BY <1>4, <1>5, <1>6, <1>7, <2>1, <2>2 DEF Sequential!Extract
<1>8. CASE ptr[l] # NULL
  <2>1. 0 \in 0 .. Len(q[l]) - 1 /\ Len(q[l]) > 0
    BY <1>4, <1>8
  <2>2. /\ LinksOut(Link(q[l], l, 0)) /\ res' = ptr[l] /\ tail' = tail
        /\ UNCHANGED key /\ Forget(l)
    BY <1>4, <1>8 DEF Extract, LinksOut
  <2>3. /\ tail' \in [Lists -> Lists \cup Nodes \cup {NULL}]
        /\ res' \in Nodes \cup {NULL} \cup BOOLEAN
    BY <1>2, <2>2 DEF TypeOK
  <2>4. Len(q[l]) > 1 => tail'[l] = IF 0 + 1 = Len(q[l]) THEN Link(q[l], l, 0)
                                    ELSE tail[l]
    <3>0. PICK len \in Nat : len = Len(q[l])
      BY <1>4
    <3>1. len > 1 => 0 + 1 # len
      OBVIOUS
    <3>2. tail'[l] = tail[l]
      BY <2>2
    <3> QED
      BY <3>0, <3>1, <3>2
  <2>5. IInv' /\ Sequential!Changed(l, Sequential!DropAt(q[l], 0 + 1), res')
    BY <1>1, <1>2, <2>1, <2>2, <2>3, <2>4, RemoveChanges
  <2>6. q[l] # <<>> /\ Tail(q[l]) = Sequential!DropAt(q[l], 1) /\ Head(q[l]) = ptr[l]
    <3>1. q[l][1] \in Nodes
      BY <1>4, <2>1, ElementOfSeq
    <3>2. q[l] # <<>>
      BY <1>6, <2>1
    <3> QED
      BY <1>4, <2>1, <3>1, <3>2, EndPositions
  <2> QED
    BY <1>5, <2>2, <2>5, <2>6 DEF Sequential!Extract
<1> QED
  BY <1>7, <1>8

\* list_iterator_remove, wherever its iterator stands: the store to the tail
LEMMA UnlinkIs ==
    ASSUME TypeOK, NEW q \in Sequenced, Rep(q), NEW l \in Lists,
           NEW i \in 0 .. Len(q[l]) - 1, Unlink(l, Link(q[l], l, i))
    PROVE  /\ LinksOut(Link(q[l], l, i))
           /\ tail' \in [Lists -> Lists \cup Nodes \cup {NULL}]
           /\ \A m \in Lists : m # l => tail'[m] = tail[m]
           /\ Len(q[l]) > 1 => tail'[l] = IF i + 1 = Len(q[l]) THEN Link(q[l], l, i)
                                          ELSE tail[l]
<1> DEFINE a == Link(q[l], l, i)
<1>1. Apart(q) /\ Chained(q) /\ Ends(q)
  BY DEF Rep
<1>2. Len(q[l]) \in Nat
  BY <1>1, Short
<1>3. i \in 0 .. Len(q[l]) /\ i < Len(q[l]) /\ i + 1 \in 1 .. Len(q[l]) /\ Len(q[l]) > 0
      /\ Len(q[l]) \in 1 .. Len(q[l])
  BY <1>2
<1>4. a \in Lists \cup Nodes
  BY <1>1, <1>3, LinkIs
<1>5. ptr[a] = q[l][i + 1] /\ tail[l] = q[l][Len(q[l])]
  BY <1>1, <1>3, PointsTo DEF Ends
<1>6. tail[l] = ptr[a] <=> i + 1 = Len(q[l])
  BY <1>1, <1>3, <1>5 DEF Apart
<1> HIDE DEF a
<1>7. tail' = IF tail[l] = ptr[a] THEN [tail EXCEPT ![l] = a] ELSE tail
  BY DEF Unlink, a
<1>8. tail \in [Lists -> Lists \cup Nodes \cup {NULL}]
  BY DEF TypeOK
<1>9. /\ tail' \in [Lists -> Lists \cup Nodes \cup {NULL}]
      /\ \A m \in Lists : m # l => tail'[m] = tail[m]
      /\ tail'[l] = IF tail[l] = ptr[a] THEN a ELSE tail[l]
  BY <1>4, <1>7, <1>8
<1>10. LinksOut(a)
  BY DEF Unlink, LinksOut, a
<1> QED
  BY <1>6, <1>9, <1>10 DEF a

\* Where list_contains leaves its iterator, and what it returns
LEMMA FoundIs ==
    ASSUME NEW q \in Sequenced, Apart(q), Chained(q), NEW l \in Lists, NEW n \in Nodes
    PROVE  \E x \in 0 .. Len(q[l]) :
              /\ Find(l, n) = Link(q[l], l, x)
              /\ (ptr[Find(l, n)] = n) <=> Sequential!Contains(q[l], LAMBDA c : c = n)
              /\ Sequential!Contains(q[l], LAMBDA c : c = n)
                    => /\ x \in 0 .. Len(q[l]) - 1
                       /\ Sequential!First(q[l], LAMBDA c : c = n) = x + 1
              /\ ~ Sequential!Contains(q[l], LAMBDA c : c = n) => x = Len(q[l])
<1>1. Len(q[l]) \in Nat
  BY Short
<1>2. Sequential!Contains(q[l], LAMBDA c : c = n)
          <=> \E i \in 1 .. Len(q[l]) : q[l][i] = n
  BY DEF Sequential!Contains
<1>3. CASE \E i \in 1 .. Len(q[l]) : q[l][i] = n
  <2>1. PICK i \in 1 .. Len(q[l]) : q[l][i] = n
    BY <1>3
  <2>2. PICK x \in 0 .. Len(q[l]) - 1 : x + 1 = i
    <3>1. i - 1 \in 0 .. Len(q[l]) - 1 /\ i - 1 + 1 = i
      BY <1>1
    <3> QED
      BY <3>1
  <2>3. x \in 0 .. Len(q[l]) /\ x < Len(q[l]) /\ x # Len(q[l])
    BY <1>1
  <2>4. Find(l, n) = Link(q[l], l, x)
    BY <2>1, <2>2, <2>3, FindIs
  <2>5. ptr[Find(l, n)] = n
    BY <2>1, <2>2, <2>3, <2>4, PointsTo
  <2>6. \A j \in 1 .. i - 1 : q[l][j] # n
    <3> SUFFICES ASSUME NEW j \in 1 .. i - 1, q[l][j] = n PROVE FALSE
      OBVIOUS
    <3>1. j \in 1 .. Len(q[l]) /\ j # i
      BY <1>1
    <3> QED
      BY <2>1, <3>1 DEF Apart
  <2>7. i = CHOOSE k \in 1 .. Len(q[l]) :
                q[l][k] = n /\ \A j \in 1 .. k - 1 : ~ (q[l][j] = n)
    <3>1. \A k \in 1 .. Len(q[l]) : q[l][k] = n => k = i
      BY <2>1 DEF Apart
    <3> QED
      BY <2>1, <2>6, <3>1
  <2>8. Sequential!First(q[l], LAMBDA c : c = n) = i
    BY <2>7 DEF Sequential!First
  <2> QED
    BY <1>2, <1>3, <2>2, <2>3, <2>4, <2>5, <2>8
<1>4. CASE ~ \E i \in 1 .. Len(q[l]) : q[l][i] = n
  <2>1. Len(q[l]) \in 0 .. Len(q[l])
    BY <1>1
  <2>2. Find(l, n) = Link(q[l], l, Len(q[l]))
    BY <1>4, <2>1, FindIs
  <2>3. ptr[Find(l, n)] # n
    BY <2>1, <2>2, PointsTo, ListAssumption
  <2> QED
    BY <1>2, <1>4, <2>1, <2>2, <2>3
<1> QED
  BY <1>3, <1>4

\* list_remove
LEMMA RemoveIs ==
    ASSUME IInv, NEW l \in Lists, NEW n \in Nodes, Remove(l, n)
    PROVE  IInv' /\ Sequential!Take(l, n)
<1>1. PICK q \in Sequenced : Rep(q)
  BY DEF IInv
<1>2. TypeOK /\ Apart(q) /\ Chained(q)
  BY <1>1 DEF IInv, Rep
<1>3. seqBar[l] = q[l]
  BY <1>2, BarIs
<1> DEFINE Has == Sequential!Contains(q[l], LAMBDA c : c = n)
<1>4. PICK x \in 0 .. Len(q[l]) :
         /\ Find(l, n) = Link(q[l], l, x)
         /\ (ptr[Find(l, n)] = n) <=> Has
         /\ Has => /\ x \in 0 .. Len(q[l]) - 1
                   /\ Sequential!First(q[l], LAMBDA c : c = n) = x + 1
         /\ ~ Has => x = Len(q[l])
  BY <1>2, FoundIs
<1> HIDE DEF Has
<1>5. CASE Has
  <2>1. Unlink(l, Link(q[l], l, x)) /\ res' = TRUE /\ Forget(l) /\ UNCHANGED key
    BY <1>4, <1>5 DEF Remove
  <2>2. x \in 0 .. Len(q[l]) - 1
    BY <1>4, <1>5
  <2>3. /\ LinksOut(Link(q[l], l, x))
        /\ tail' \in [Lists -> Lists \cup Nodes \cup {NULL}]
        /\ \A m \in Lists : m # l => tail'[m] = tail[m]
        /\ Len(q[l]) > 1 => tail'[l] = IF x + 1 = Len(q[l]) THEN Link(q[l], l, x)
                                       ELSE tail[l]
    BY <1>1, <1>2, <2>1, <2>2, UnlinkIs
  <2>4. IInv' /\ Sequential!Changed(l, Sequential!DropAt(q[l], x + 1), res')
    BY <1>1, <1>2, <2>1, <2>2, <2>3, RemoveChanges
  <2>5. Sequential!Remove(seqBar[l], LAMBDA c : c = n) = Sequential!DropAt(q[l], x + 1)
    BY <1>3, <1>4, <1>5 DEF Sequential!Remove, Has
  <2>6. Sequential!Contains(seqBar[l], LAMBDA c : c = n)
    BY <1>3, <1>5 DEF Has
  <2> QED
    BY <2>1, <2>4, <2>5, <2>6 DEF Sequential!Take
<1>6. CASE ~ Has
  <2>1. res' = FALSE /\ UNCHANGED <<ptr, tail, key, iter>>
    BY <1>4, <1>6 DEF Remove
  <2>2. IInv' /\ UNCHANGED <<seqBar, iterBar>>
    BY <1>1, <1>2, <2>1, Rests
  <2>3. ~ Sequential!Contains(seqBar[l], LAMBDA c : c = n)
    BY <1>3, <1>6 DEF Has
  <2> QED
    BY <2>1, <2>2, <2>3 DEF Sequential!Take
<1> QED
  BY <1>5, <1>6

\* list_iterate
LEMMA IterStartIs ==
    ASSUME IInv, NEW l \in Lists, IterStart(l)
    PROVE  IInv' /\ Sequential!IterStart(l)
<1>1. PICK q \in Sequenced : Rep(q)
  BY DEF IInv
<1>2. TypeOK /\ Apart(q) /\ Chained(q)
  BY <1>1 DEF IInv, Rep
<1>3. /\ Link(q[l], l, 0) = l /\ 0 \in 0 .. Len(q[l])
      /\ ptr[l] = NULL <=> Len(q[l]) = 0
      /\ Len(q[l]) > 0 => ptr[l] = q[l][1]
      /\ Len(q[l]) \in Nat
  BY <1>1, <1>2, EndIs
<1>4. Point(l, Link(q[l], l, 0)) /\ res' = ptr[l] /\ UNCHANGED <<ptr, tail, key>>
  BY <1>3 DEF IterStart
<1>5. res' \in Nodes \cup {NULL} \cup BOOLEAN
  BY <1>2, <1>4 DEF TypeOK
<1>6. IInv' /\ UNCHANGED seqBar /\ Sequential!Point(l, 0 + 1)
  BY <1>1, <1>2, <1>3, <1>4, <1>5, Moves
<1>7. ptr[l] = Sequential!At(l, 1)
  BY <1>2, <1>3, BarIs DEF Sequential!At
<1> QED
  BY <1>4, <1>6, <1>7, 0 + 1 = 1 DEF Sequential!IterStart

\* list_contains with an iterator
LEMMA IterFindIs ==
    ASSUME IInv, NEW l \in Lists, NEW n \in Nodes, IterFind(l, n)
    PROVE  IInv' /\ Sequential!IterFind(l, n)
<1>1. PICK q \in Sequenced : Rep(q)
  BY DEF IInv
<1>2. TypeOK /\ Apart(q) /\ Chained(q)
  BY <1>1 DEF IInv, Rep
<1>3. seqBar[l] = q[l]
  BY <1>2, BarIs
<1> DEFINE Has == Sequential!Contains(q[l], LAMBDA c : c = n)
<1>4. PICK x \in 0 .. Len(q[l]) :
         /\ Find(l, n) = Link(q[l], l, x)
         /\ (ptr[Find(l, n)] = n) <=> Has
         /\ Has => /\ x \in 0 .. Len(q[l]) - 1
                   /\ Sequential!First(q[l], LAMBDA c : c = n) = x + 1
         /\ ~ Has => x = Len(q[l])
  BY <1>2, FoundIs
<1>5. Sequential!Contains(seqBar[l], LAMBDA c : c = n) <=> Has
  BY <1>3
<1> HIDE DEF Has
<1>6. /\ Point(l, Link(q[l], l, x)) /\ UNCHANGED <<ptr, tail, key>>
      /\ res' = (ptr[Find(l, n)] = n)
  BY <1>4 DEF IterFind
<1>7. res' \in BOOLEAN
  BY <1>6
<1>8. res' \in Nodes \cup {NULL} \cup BOOLEAN
  BY <1>7
<1>9. IInv' /\ UNCHANGED seqBar /\ Sequential!Point(l, x + 1)
  BY <1>1, <1>2, <1>6, <1>8, Moves
<1>10. CASE Has
  <2>1. res' = TRUE
    BY <1>4, <1>6, <1>10
  <2>2. Sequential!First(seqBar[l], LAMBDA c : c = n) = x + 1
    BY <1>3, <1>4, <1>10
  <2> QED
    BY <1>5, <1>6, <1>9, <1>10, <2>1, <2>2 DEF Sequential!IterFind
<1>11. CASE ~ Has
  <2>1. res' = FALSE
    BY <1>4, <1>6, <1>11
  <2>2. Len(seqBar[l]) + 1 = x + 1
    BY <1>3, <1>4, <1>11
  <2> QED
    BY <1>5, <1>6, <1>9, <1>11, <2>1, <2>2 DEF Sequential!IterFind
<1> QED
  BY <1>10, <1>11

\* What a position shows is what its pointer points to.
LEMMA AtIs ==
    ASSUME NEW q \in Sequenced, Apart(q), Chained(q), NEW l \in Lists,
           NEW k \in 0 .. Len(q[l])
    PROVE  Sequential!At(l, k + 1) = ptr[Link(q[l], l, k)]
<1>1. seqBar[l] = q[l]
  BY BarIs
<1>2. Len(q[l]) \in Nat
  BY Short
<1>3. ptr[Link(q[l], l, k)] = IF k < Len(q[l]) THEN q[l][k + 1] ELSE NULL
  BY PointsTo
<1>4. k < Len(q[l]) <=> ~ (k + 1 > Len(q[l]))
  BY <1>2
<1> QED
  BY <1>1, <1>3, <1>4 DEF Sequential!At

\* The iterator in use is at a pointer of its list, and the mapping shows it.
LEMMA IterIs ==
    ASSUME TypeOK, NEW q \in Sequenced, Rep(q), iter # NULL
    PROVE  /\ iter.list \in Lists /\ iterBar # NULL
           /\ \E k \in 0 .. Len(q[iter.list]) :
                 /\ iter.at = Link(q[iter.list], iter.list, k)
                 /\ iterBar.list = iter.list /\ iterBar.pos = k + 1
                 /\ Sequential!At(iterBar.list, iterBar.pos) = ptr[iter.at]
<1>1. iter.list \in Lists
  BY DEF TypeOK
<1>2. MappedTo(q)
  BY Mapped
<1>3. PICK k \in 0 .. Len(q[iter.list]) : iter.at = Link(q[iter.list], iter.list, k)
  BY DEF Rep, IterOn
<1>4. iterBar # NULL /\ iterBar = [list |-> iter.list, pos |-> k + 1]
  BY <1>2, <1>3 DEF MappedTo
<1>5. iterBar.list = iter.list /\ iterBar.pos = k + 1
  BY <1>4
<1>6. Sequential!At(iter.list, k + 1) = ptr[iter.at]
  BY <1>1, <1>3, AtIs DEF Rep
<1> QED
  BY <1>1, <1>3, <1>4, <1>5, <1>6

\* list_iterator_next
LEMMA IterNextIs ==
    ASSUME IInv, IterNext
    PROVE  IInv' /\ Sequential!IterNext
<1>1. PICK q \in Sequenced : Rep(q)
  BY DEF IInv
<1>2. TypeOK /\ Apart(q) /\ Chained(q)
  BY <1>1 DEF IInv, Rep
<1>3. iter # NULL /\ UNCHANGED <<ptr, tail, key>>
  BY DEF IterNext
<1>4. PICK l \in Lists : l = iter.list
  BY <1>1, <1>2, <1>3, IterIs
<1>5. PICK k \in 0 .. Len(q[l]) :
         /\ iter.at = Link(q[l], l, k)
         /\ iterBar.list = l /\ iterBar.pos = k + 1
         /\ Sequential!At(iterBar.list, iterBar.pos) = ptr[iter.at]
  BY <1>1, <1>2, <1>3, <1>4, IterIs
<1>6. iterBar # NULL
  BY <1>1, <1>2, <1>3, IterIs
<1>7. Len(q[l]) \in Nat
  BY <1>2, Short
<1>8. CASE ptr[iter.at] = NULL
  <2>1. res' = NULL /\ UNCHANGED <<ptr, tail, key, iter>>
    BY <1>8 DEF IterNext
  <2>2. IInv' /\ UNCHANGED <<seqBar, iterBar>>
    BY <1>1, <1>2, <2>1, Rests
  <2> QED
    BY <1>3, <1>5, <1>6, <1>8, <2>1, <2>2 DEF Sequential!IterNext
<1>9. CASE ptr[iter.at] # NULL
  <2>1. k < Len(q[l]) /\ ptr[iter.at] = q[l][k + 1]
    <3>1. /\ ptr[iter.at] = IF k < Len(q[l]) THEN q[l][k + 1] ELSE NULL
          /\ ptr[iter.at] = NULL <=> k = Len(q[l])
      BY <1>2, <1>5, PointsTo
    <3> QED
      BY <1>7, <1>9, <3>1
  <2>2. PICK j \in 0 .. Len(q[l]) : j = k + 1 /\ j # 0
    BY <1>7, <2>1
  <2>3. Link(q[l], l, j) = ptr[iter.at]
    BY <2>1, <2>2 DEF Link
  <2>4. Point(l, Link(q[l], l, j)) /\ res' = ptr[Link(q[l], l, j)]
    BY <1>4, <1>9, <2>3 DEF IterNext
  <2>5. Link(q[l], l, j) \in Lists \cup Nodes
    BY <1>2, LinkIs
  <2>6. res' \in Nodes \cup {NULL} \cup BOOLEAN
    BY <1>2, <2>4, <2>5 DEF TypeOK
  <2>7. IInv' /\ UNCHANGED seqBar /\ Sequential!Point(l, j + 1)
    BY <1>1, <1>2, <1>3, <2>4, <2>6, Moves
  <2>8. Sequential!At(l, j + 1) = ptr[Link(q[l], l, j)]
    BY <1>2, AtIs
  <2>9. Sequential!Point(iterBar.list, iterBar.pos + 1)
    BY <1>5, <2>2, <2>7
  <2>10. res' = Sequential!At(iterBar.list, iterBar.pos + 1)
    BY <1>5, <2>2, <2>4, <2>8
  <2> QED
    BY <1>3, <1>5, <1>6, <1>9, <2>7, <2>9, <2>10 DEF Sequential!IterNext
<1> QED
  BY <1>8, <1>9

\* list_iterator_insert
LEMMA IterInsertIs ==
    ASSUME IInv, NEW n \in Nodes, IterInsert(n)
    PROVE  IInv' /\ Sequential!IterInsert(n)
<1>1. PICK q \in Sequenced : Rep(q)
  BY DEF IInv
<1>2. TypeOK /\ Apart(q) /\ Chained(q)
  BY <1>1 DEF IInv, Rep
<1>3. /\ iter # NULL /\ Free(n) /\ res' = TRUE /\ UNCHANGED <<key, iter>>
      /\ LinksIn(iter.at, n)
      /\ tail' = IF ptr[iter.at] = NULL THEN [tail EXCEPT ![iter.list] = n] ELSE tail
  BY DEF IterInsert, LinksIn
<1>4. ~ On(q, n) /\ Sequential!Free(n)
  BY <1>2, <1>3, FreeIs
<1>5. iter.list \in Lists /\ iterBar # NULL
  BY <1>1, <1>2, <1>3, IterIs
<1>6. PICK k \in 0 .. Len(q[iter.list]) :
         /\ iter.at = Link(q[iter.list], iter.list, k)
         /\ iterBar.list = iter.list /\ iterBar.pos = k + 1
         /\ Sequential!At(iterBar.list, iterBar.pos) = ptr[iter.at]
  BY <1>1, <1>2, <1>3, IterIs
<1>7. ptr[iter.at] = NULL <=> k = Len(q[iter.list])
  BY <1>2, <1>5, <1>6, PointsTo
<1>8. tail' = IF k = Len(q[iter.list]) THEN [tail EXCEPT ![iter.list] = n] ELSE tail
  BY <1>3, <1>7
<1>9. /\ IInv' /\ UNCHANGED iterBar
      /\ seqBar' = [seqBar EXCEPT ![iter.list] =
                       Sequential!PutAt(seqBar[iter.list], k + 1, n)]
  BY <1>1, <1>2, <1>3, <1>4, <1>6, <1>8, InsertStays
<1>10. seqBar' = [seqBar EXCEPT ![iterBar.list] =
                     Sequential!PutAt(seqBar[iterBar.list], iterBar.pos, n)]
  BY <1>6, <1>9
<1> QED
  BY <1>3, <1>4, <1>5, <1>9, <1>10 DEF Sequential!IterInsert

\* list_iterator_remove
LEMMA IterRemoveIs ==
    ASSUME IInv, IterRemove
    PROVE  IInv' /\ Sequential!IterRemove
<1>1. PICK q \in Sequenced : Rep(q)
  BY DEF IInv
<1>2. TypeOK /\ Apart(q) /\ Chained(q)
  BY <1>1 DEF IInv, Rep
<1>3. /\ iter # NULL /\ ptr[iter.at] # NULL /\ UNCHANGED <<key, iter>>
      /\ Unlink(iter.list, iter.at) /\ res' = ptr[ptr[iter.at]]
  BY DEF IterRemove
<1>4. PICK l \in Lists : l = iter.list
  BY <1>1, <1>2, <1>3, IterIs
<1>5. iterBar # NULL
  BY <1>1, <1>2, <1>3, IterIs
<1>6. PICK k \in 0 .. Len(q[l]) :
         /\ iter.at = Link(q[l], l, k)
         /\ iterBar.list = l /\ iterBar.pos = k + 1
         /\ Sequential!At(iterBar.list, iterBar.pos) = ptr[iter.at]
  BY <1>1, <1>2, <1>3, <1>4, IterIs
<1>7. Len(q[l]) \in Nat
  BY <1>2, Short
<1>8. k < Len(q[l]) /\ ptr[iter.at] = q[l][k + 1]
  <2>1. /\ ptr[iter.at] = IF k < Len(q[l]) THEN q[l][k + 1] ELSE NULL
        /\ ptr[iter.at] = NULL <=> k = Len(q[l])
    BY <1>2, <1>6, PointsTo
  <2> QED
    BY <1>3, <1>7, <2>1
<1>9. PICK i \in 0 .. Len(q[l]) - 1 : i = k
  BY <1>7, <1>8
<1>10. PICK j \in 0 .. Len(q[l]) : j = k + 1 /\ j # 0
  BY <1>7, <1>8
<1>11. Link(q[l], l, j) = ptr[iter.at] /\ Link(q[l], l, j) \in Lists \cup Nodes
  BY <1>2, <1>8, <1>10, LinkIs DEF Link
<1>12. res' \in Nodes \cup {NULL} \cup BOOLEAN
  BY <1>2, <1>3, <1>11 DEF TypeOK
<1>13. iter.at = Link(q[l], l, i) /\ Unlink(l, Link(q[l], l, i))
  BY <1>3, <1>4, <1>6, <1>9
<1>14. /\ LinksOut(Link(q[l], l, i))
       /\ tail' \in [Lists -> Lists \cup Nodes \cup {NULL}]
       /\ \A m \in Lists : m # l => tail'[m] = tail[m]
       /\ Len(q[l]) > 1 => tail'[l] = IF i + 1 = Len(q[l]) THEN Link(q[l], l, i)
                                      ELSE tail[l]
  BY <1>1, <1>2, <1>13, UnlinkIs
<1>15. /\ IInv' /\ UNCHANGED iterBar
       /\ seqBar' = [seqBar EXCEPT ![iter.list] =
                        Sequential!DropAt(seqBar[iter.list], i + 1)]
  BY <1>1, <1>2, <1>3, <1>4, <1>12, <1>13, <1>14, RemoveStays
<1>16. seqBar' = [seqBar EXCEPT ![iterBar.list] =
                     Sequential!DropAt(seqBar[iterBar.list], iterBar.pos)]
  BY <1>4, <1>6, <1>9, <1>15
<1>17. Sequential!At(l, j + 1) = ptr[Link(q[l], l, j)]
  BY <1>2, AtIs
<1>18. res' = Sequential!At(iterBar.list, iterBar.pos + 1)
  BY <1>3, <1>6, <1>10, <1>11, <1>17
<1> QED
  BY <1>3, <1>5, <1>6, <1>15, <1>16, <1>18 DEF Sequential!IterRemove

-----------------------------------------------------------------------------
(* The theorems                                                            *)

\* Empty lists stand for empty sequences.
LEMMA Starts == Init => IInv /\ Sequential!Init
<1> SUFFICES ASSUME Init PROVE IInv /\ Sequential!Init
  OBVIOUS
<1> DEFINE q == [l \in Lists |-> <<>>]
<1>1. q \in Sequenced /\ \A l \in Lists : Len(q[l]) = 0
  BY DEF Sequenced
<1>2. TypeOK
  BY DEF Init, TypeOK
<1> HIDE DEF q
<1>3. Chained(q)
  <2> SUFFICES ASSUME NEW l \in Lists, NEW k \in 0 .. Len(q[l])
               PROVE  ptr[Link(q[l], l, k)] = IF k < Len(q[l]) THEN q[l][k + 1] ELSE NULL
    BY DEF Chained
  <2>1. k = 0 /\ ~ k < Len(q[l])
    BY <1>1
  <2>2. ptr[l] = NULL
    BY DEF Init
  <2> QED
    BY <2>1, <2>2 DEF Link
<1>4. Apart(q) /\ Ends(q) /\ Loose(q) /\ IterOn(q)
  BY <1>1 DEF Apart, Ends, Loose, IterOn, Init
<1>5. Rep(q)
  BY <1>3, <1>4 DEF Rep
<1>6. seqBar = q /\ iterBar = NULL
  BY <1>1, <1>2, <1>5, Mapped DEF Init, MappedTo
<1>7. seqBar = [l \in Lists |-> <<>>]
  BY <1>6 DEF q
<1> QED
  BY <1>1, <1>2, <1>5, <1>6, <1>7 DEF IInv, Init, Sequential!Init

\* Each call keeps the pointers standing for sequences, and changes the
\* sequences as it should.
LEMMA Steps == IInv /\ [Next]_vars => IInv' /\ [Sequential!Next]_(Sequential!svars)
<1> SUFFICES ASSUME IInv, [Next]_vars
             PROVE  IInv' /\ (Sequential!Next \/ UNCHANGED Sequential!svars)
  OBVIOUS
<1>1. ASSUME NEW l \in Lists, Extract(l) PROVE IInv' /\ Sequential!Next
  BY <1>1, ExtractIs DEF Sequential!Next
<1>2. ASSUME NEW l \in Lists, IterStart(l) PROVE IInv' /\ Sequential!Next
  BY <1>2, IterStartIs DEF Sequential!Next
<1>3. ASSUME NEW l \in Lists, NEW n \in Nodes, Insert(l, n) PROVE IInv' /\ Sequential!Next
  BY <1>3, InsertIs DEF Sequential!Next
<1>4. ASSUME NEW l \in Lists, NEW n \in Nodes, InsertSorted(l, n)
      PROVE  IInv' /\ Sequential!Next
  BY <1>4, InsertSortedIs DEF Sequential!Next
<1>5. ASSUME NEW l \in Lists, NEW n \in Nodes, Push(l, n) PROVE IInv' /\ Sequential!Next
  BY <1>5, PushIs DEF Sequential!Next
<1>6. ASSUME NEW l \in Lists, NEW n \in Nodes, Remove(l, n) PROVE IInv' /\ Sequential!Next
  BY <1>6, RemoveIs DEF Sequential!Next
<1>7. ASSUME NEW l \in Lists, NEW n \in Nodes, IterFind(l, n) PROVE IInv' /\ Sequential!Next
  BY <1>7, IterFindIs DEF Sequential!Next
<1>8. ASSUME IterNext PROVE IInv' /\ Sequential!Next
  BY <1>8, IterNextIs DEF Sequential!Next
<1>9. ASSUME IterRemove PROVE IInv' /\ Sequential!Next
  BY <1>9, IterRemoveIs DEF Sequential!Next
<1>10. ASSUME NEW n \in Nodes, IterInsert(n) PROVE IInv' /\ Sequential!Next
  BY <1>10, IterInsertIs DEF Sequential!Next
<1>11. ASSUME UNCHANGED vars PROVE IInv' /\ UNCHANGED Sequential!svars
  <2>1. PICK q \in Sequenced : Rep(q)
    BY DEF IInv
  <2>2. TypeOK /\ res \in Nodes \cup {NULL} \cup BOOLEAN
    BY DEF IInv, TypeOK
  <2>3. /\ UNCHANGED <<ptr, tail, key, iter>> /\ res' = res
        /\ res' \in Nodes \cup {NULL} \cup BOOLEAN
    BY <1>11, <2>2 DEF vars
  <2>4. IInv' /\ UNCHANGED <<seqBar, iterBar>>
    BY <2>1, <2>2, <2>3, Rests
  <2> QED
    BY <2>3, <2>4 DEF Sequential!svars
<1> QED
  BY <1>1, <1>2, <1>3, <1>4, <1>5, <1>6, <1>7, <1>8, <1>9, <1>10, <1>11 DEF Next

\* Sequences that the pointers stand for are lists: what Shape says of walks.
LEMMA ShapeHolds == IInv => Shape
<1> SUFFICES ASSUME IInv PROVE Shape
  OBVIOUS
<1>1. PICK q \in Sequenced : Rep(q)
  BY DEF IInv
<1>2. TypeOK /\ Apart(q) /\ Chained(q) /\ Loose(q)
  BY <1>1 DEF IInv, Rep
<1>3. ASSUME NEW l \in Lists
      PROVE  /\ NodesOf(l) \subseteq Nodes
             /\ \E a \in Walk(l) : ptr[a] = NULL
             /\ ptr[l] # NULL => tail[l] \in NodesOf(l) /\ ptr[tail[l]] = NULL
  <2>1. /\ Len(q[l]) \in Nat /\ \A i \in 1 .. Len(q[l]) : q[l][i] \in Nodes
    BY <1>2, Short
  <2>2. /\ Walk(l) = {Link(q[l], l, k) : k \in 0 .. Len(q[l])}
        /\ NodesOf(l) = {q[l][i] : i \in 1 .. Len(q[l])}
    BY <1>2, WalkIs
  <2>3. /\ (IF ptr[l] # NULL THEN tail[l] ELSE l) = Link(q[l], l, Len(q[l]))
        /\ Len(q[l]) \in 0 .. Len(q[l])
        /\ ptr[l] = NULL <=> Len(q[l]) = 0
        /\ Len(q[l]) > 0 => tail[l] = q[l][Len(q[l])]
    BY <1>1, <1>2, EndIs
  <2>4. ptr[Link(q[l], l, Len(q[l]))] = NULL
    BY <1>2, <2>3, PointsTo
  <2>5. ASSUME ptr[l] # NULL PROVE tail[l] \in NodesOf(l) /\ ptr[tail[l]] = NULL
    <3>1. Len(q[l]) > 0 /\ Len(q[l]) \in 1 .. Len(q[l])
      BY <2>1, <2>3, <2>5
    <3>2. tail[l] = Link(q[l], l, Len(q[l]))
      BY <2>3, <2>5
    <3> QED
      BY <2>2, <2>3, <2>4, <3>1, <3>2
  <2> QED
    BY <2>1, <2>2, <2>3, <2>4, <2>5
<1>4. ASSUME NEW l \in Lists, NEW m \in Lists, l # m PROVE NodesOf(l) \cap NodesOf(m) = {}
  <2>1. /\ NodesOf(l) = {q[l][i] : i \in 1 .. Len(q[l])}
        /\ NodesOf(m) = {q[m][i] : i \in 1 .. Len(q[m])}
    BY <1>2, WalkIs
  <2> QED
    BY <1>2, <1>4, <2>1 DEF Apart
<1>5. ASSUME NEW n \in Nodes, Free(n) PROVE ptr[n] = NULL
  BY <1>2, <1>5, FreeIs DEF Loose
<1> QED
  BY <1>2, <1>3, <1>4, <1>5 DEF Shape

\* Whatever calls are made, the pointers stand for sequences: the inductive
\* invariant of list.c.
THEOREM ListInvariance == Spec => []IInv
<1>1. Init => IInv
  BY Starts
<1>2. IInv /\ [Next]_vars => IInv'
  BY Steps
<1> QED
  BY <1>1, <1>2, PTL DEF Spec

\* Every list ends, no node is on two, the tail of a list with nodes is its
\* last one and a node on no list has no successor: the assertions of the
\* insertions never fire, and no walk of list.c runs in a circle.
THEOREM PointersAreLists == Spec => []Shape
  BY ListInvariance, ShapeHolds, PTL

\* list.c refines its sequential specification: every operation, and every
\* step of an iterator, has the effect and the result of its abstract form.
THEOREM PointersAreSequences == Spec => ImplementsSequences
<1>1. Init => Sequential!Init
  BY Starts
<1>2. IInv /\ [Next]_vars => [Sequential!Next]_(Sequential!svars)
  BY Steps
<1> QED
  BY <1>1, <1>2, ListInvariance, PTL DEF Spec, ImplementsSequences, Sequential!Spec
=============================================================================
