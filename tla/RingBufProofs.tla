---------------------------- MODULE RingBufProofs ----------------------------
(***************************************************************************)
(* Machine-checked proofs, for every storage size, that producer and       *)
(* consumer never share a cell of the ring, although neither uses a lock   *)
(* against the other, and that the ring implements the queue of Fifo: the  *)
(* store of an index is the moment at which a byte is put or got, and      *)
(* every other step changes nothing that the queue's users can see.        *)
(***************************************************************************)
EXTENDS MCRingBuf, ListProofs

USE RingAssumption DEF Cells

LEMMA AdvanceFacts ==
    ASSUME NEW i \in Cells
    PROVE  /\ Advance(i) \in Cells
           /\ \A j \in Cells : Advance(i) = Advance(j) => i = j
  BY DEF Advance

LEMMA InitInvariant == Init => IInv
  BY DEF Init, IInv, TypeOK, Writing

LEMMA TypeStep == IInv /\ [Next]_vars => TypeOK'
<1> SUFFICES ASSUME IInv, [Next]_vars PROVE TypeOK'
  OBVIOUS
<1>1. TypeOK
  BY DEF IInv
<1>2. CASE ConsumerStep
  <2>1. CASE GetEmpty
    BY <1>1, <2>1 DEF TypeOK, GetEmpty, producer
  <2>2. CASE GetCheck
    BY <1>1, <2>2 DEF TypeOK, GetCheck, producer
  <2>3. CASE GetRead
    BY <1>1, <2>3 DEF TypeOK, GetRead, producer
  <2>4. CASE GetStore
    BY <1>1, <2>4, AdvanceFacts DEF TypeOK, GetStore, producer
  <2> QED
    BY <1>2, <2>1, <2>2, <2>3, <2>4 DEF ConsumerStep
<1>3. ASSUME NEW p \in Producers, PutCall(p) PROVE TypeOK'
  BY <1>1, <1>3 DEF TypeOK, PutCall, consumer
<1>4. ASSUME NEW p \in Producers, PutStep(p) PROVE TypeOK'
  <2>1. CASE PutFull(p)
    BY <1>1, <2>1 DEF TypeOK, PutFull, consumer
  <2>2. CASE PutCheck(p)
    BY <1>1, <2>2 DEF TypeOK, PutCheck, consumer
  <2>3. CASE PutWrite(p)
    BY <1>1, <2>3 DEF TypeOK, PutWrite, consumer
  <2>4. CASE PutStore(p)
    BY <1>1, <2>4, AdvanceFacts DEF TypeOK, PutStore, consumer
  <2> QED
    BY <1>4, <2>1, <2>2, <2>3, <2>4 DEF PutStep
<1>5. CASE UNCHANGED vars
  BY <1>1, <1>5 DEF TypeOK, vars, consumer, producer
<1> QED
  BY <1>2, <1>3, <1>4, <1>5 DEF Next

\* What makes a check that was made earlier still good: see IInv.
Checks ==
    /\ \A p, r \in Producers : ppc[p] # "idle" /\ ppc[r] # "idle" => p = r
    /\ gpc # "idle" => readi # writei
    /\ gpc = "store" => gd = bufp[readi]
    /\ \A p \in Writing : old[p] = writei /\ Advance(writei) # readi
    /\ \A p \in Producers : ppc[p] = "store" => bufp[old[p]] = dat[p]

LEMMA ChecksStep == IInv /\ [Next]_vars => Checks'
<1> SUFFICES ASSUME IInv, [Next]_vars PROVE Checks'
  OBVIOUS
<1>1. TypeOK /\ Checks
  BY DEF IInv, Checks
<1>2. CASE GetEmpty \/ GetCheck \/ GetRead
  BY <1>1, <1>2 DEF Checks, TypeOK, GetEmpty, GetCheck, GetRead, producer, Writing
<1>3. CASE GetStore
  <2>1. readi' = Advance(readi) /\ writei' = writei /\ readi # writei
    BY <1>1, <1>3 DEF GetStore, Checks
  <2>2. Advance(writei) # readi'
    BY <1>1, <2>1, AdvanceFacts DEF TypeOK
  <2> QED
    BY <1>1, <1>3, <2>1, <2>2 DEF Checks, TypeOK, GetStore, producer, Writing
<1>4. ASSUME NEW p \in Producers, Serial, PutCall(p) PROVE Checks'
  BY <1>1, <1>4 DEF Checks, TypeOK, Serial, PutCall, consumer, Writing
<1>5. ASSUME NEW p \in Producers, PutFull(p) PROVE Checks'
  BY <1>1, <1>5 DEF Checks, TypeOK, PutFull, consumer, Writing
<1>6. ASSUME NEW p \in Producers, PutCheck(p) PROVE Checks'
  BY <1>1, <1>6 DEF Checks, TypeOK, PutCheck, consumer, Writing
<1>7. ASSUME NEW p \in Producers, PutWrite(p) PROVE Checks'
  BY <1>1, <1>7 DEF Checks, TypeOK, PutWrite, consumer, Writing
<1>8. ASSUME NEW p \in Producers, PutStore(p) PROVE Checks'
  BY <1>1, <1>8 DEF Checks, TypeOK, PutStore, consumer, Writing
<1>9. CASE UNCHANGED vars
  BY <1>1, <1>9 DEF Checks, vars, consumer, producer, Writing
<1> QED
  BY <1>2, <1>3, <1>4, <1>5, <1>6, <1>7, <1>8, <1>9
     DEF Next, ConsumerStep, PutStep

\* The invariant holds in every reachable state, for every storage size.
THEOREM RingInvariance == Spec => []IInv
<1>1. IInv /\ [Next]_vars => IInv'
  BY TypeStep, ChecksStep DEF IInv, Checks
<1> QED
  BY <1>1, InitInvariant, PTL DEF Spec

\* A byte being read is never being overwritten: the two sides of the ring
\* stay on different cells between their check and their store.
THEOREM RingNoSharedCell == Spec => []NoSharedCell
<1>1. IInv => NoSharedCell
  BY DEF IInv, NoSharedCell, Writing
<1> QED
  BY <1>1, RingInvariance, PTL

-----------------------------------------------------------------------------
(* The ring as a queue                                                     *)

\* The cells between the indices
LEMMA CellsUsed ==
    ASSUME NEW r \in Cells, NEW w \in Cells
    PROVE  /\ Used(r, w) \in 0 .. BufLen - 1
           /\ Used(r, w) = 0 <=> r = w
           /\ Used(r, w) = BufLen - 1 <=> Advance(w) = r
  BY DEF Used, Advance

LEMMA CellIs ==
    ASSUME NEW r \in Cells, NEW w \in Cells, NEW k \in 0 .. BufLen - 1
    PROVE  /\ Cell(r, k) \in Cells
           /\ k < Used(r, w) => Cell(r, k) # w
           /\ k = Used(r, w) => Cell(r, k) = w
           /\ k = 0 => Cell(r, k) = r
  BY DEF Used, Cell

\* What the stores of the two indices do to them
LEMMA UsedMoves ==
    ASSUME NEW r \in Cells, NEW w \in Cells
    PROVE  /\ Advance(w) # r => Used(r, Advance(w)) = Used(r, w) + 1
           /\ r # w => Used(Advance(r), w) = Used(r, w) - 1
  BY DEF Used, Advance

LEMMA CellMoves ==
    ASSUME NEW r \in Cells, NEW k \in 0 .. BufLen - 2
    PROVE  Cell(Advance(r), k) = Cell(r, k + 1)
  BY DEF Cell, Advance

LEMMA BytesAre ==
    ASSUME NEW r \in Cells, NEW w \in Cells, NEW b \in [Cells -> Values]
    PROVE  /\ Bytes(r, w, b) \in Seq(Values) /\ Len(Bytes(r, w, b)) = Used(r, w)
           /\ \A k \in 1 .. Used(r, w) : Bytes(r, w, b)[k] = b[Cell(r, k - 1)]
<1>1. Used(r, w) \in 0 .. BufLen - 1
  BY CellsUsed
<1>2. ASSUME NEW k \in 1 .. Used(r, w) PROVE b[Cell(r, k - 1)] \in Values
  <2>1. k - 1 \in 0 .. BufLen - 1
    BY <1>1
  <2> QED
    BY <2>1, CellIs
<1>3. Bytes(r, w, b) \in [1 .. Used(r, w) -> Values]
  BY <1>2 DEF Bytes
<1>4. \A k \in 1 .. Used(r, w) : Bytes(r, w, b)[k] = b[Cell(r, k - 1)]
  BY DEF Bytes
<1>5. Used(r, w) \in Nat
  BY <1>1
<1> QED
  BY <1>3, <1>4, <1>5, FunctionSeq

LEMMA RingInit == Init => Queue!Init
<1> SUFFICES ASSUME Init PROVE Queue!Init
  OBVIOUS
<1>1. readi = writei /\ readi \in Cells /\ writei \in Cells /\ bufp \in [Cells -> Values]
  BY DEF Init
<1>2. qBar \in Seq(Values) /\ Len(qBar) = 0
  <2>1. Used(readi, writei) = 0
    BY <1>1, CellsUsed
  <2> HIDE DEF Cells
  <2> QED
    BY <1>1, <2>1, BytesAre DEF qBar
<1>3. qBar = <<>>
  BY <1>2
<1> QED
  BY <1>3 DEF Init, Queue!Init

\* The byte that a producer writes is not in the queue yet.
LEMMA WriteHidden ==
    ASSUME NEW r \in Cells, NEW w \in Cells,
           NEW b \in [Cells -> Values], NEW c \in [Cells -> Values],
           \A i \in Cells : i # w => c[i] = b[i]
    PROVE  Bytes(r, w, c) = Bytes(r, w, b)
<1>1. Used(r, w) \in 0 .. BufLen - 1
  BY CellsUsed
<1>2. ASSUME NEW k \in 1 .. Used(r, w) PROVE b[Cell(r, k - 1)] = c[Cell(r, k - 1)]
  <2>1. k - 1 \in 0 .. BufLen - 1 /\ k - 1 < Used(r, w)
    BY <1>1
  <2>2. Cell(r, k - 1) \in Cells /\ Cell(r, k - 1) # w
    BY <2>1, CellIs
  <2> HIDE DEF Cells
  <2> QED
    BY <2>2
<1> QED
  BY <1>2 DEF Bytes

\* The store of writei appends the byte in the cell it leaves.
LEMMA StorePuts ==
    ASSUME NEW r \in Cells, NEW w \in Cells, NEW b \in [Cells -> Values],
           Advance(w) # r
    PROVE  Bytes(r, Advance(w), b) = Append(Bytes(r, w, b), b[w])
<1> DEFINE n == Used(r, w)
           s == Bytes(r, w, b)
           t == Bytes(r, Advance(w), b)
<1>1. Advance(w) \in Cells /\ n \in 0 .. BufLen - 1 /\ n # BufLen - 1
  BY AdvanceFacts, CellsUsed
<1>2. Used(r, Advance(w)) = n + 1
  BY UsedMoves
<1>3. s \in Seq(Values) /\ Len(s) = n /\ \A k \in 1 .. n : s[k] = b[Cell(r, k - 1)]
  BY BytesAre
<1>4. /\ t \in Seq(Values) /\ Len(t) = n + 1
      /\ \A k \in 1 .. n + 1 : t[k] = b[Cell(r, k - 1)]
  <2>1. /\ t \in Seq(Values) /\ Len(t) = Used(r, Advance(w))
        /\ \A k \in 1 .. Used(r, Advance(w)) : t[k] = b[Cell(r, k - 1)]
    BY <1>1, BytesAre
  <2> HIDE DEF t, n
  <2> QED
    BY <1>2, <2>1
<1>5. t[n + 1] = b[w]
  <2>1. n \in 0 .. BufLen - 1 /\ n + 1 - 1 = n /\ n + 1 \in 1 .. n + 1
    BY <1>1
  <2>2. Cell(r, n) = w
    BY <2>1, CellIs
  <2> HIDE DEF n, t
  <2> QED
    BY <1>4, <2>1, <2>2
<1>6. b[w] \in Values
  OBVIOUS
<1> HIDE DEF s, t, n
<1>7. /\ Append(s, b[w]) \in Seq(Values) /\ Len(Append(s, b[w])) = n + 1
      /\ \A k \in 1 .. n : Append(s, b[w])[k] = s[k]
      /\ Append(s, b[w])[n + 1] = b[w]
  BY <1>3, <1>6, AppendProperties
<1>8. \A k \in 1 .. n + 1 : k \in 1 .. n \/ k = n + 1
  BY <1>1
<1>9. \A k \in 1 .. n + 1 : t[k] = Append(s, b[w])[k]
  BY <1>3, <1>4, <1>5, <1>7, <1>8
<1>10. t = Append(s, b[w])
  BY <1>4, <1>7, <1>9, SeqEqual
<1> QED
  BY <1>10 DEF s, t

\* The store of readi takes the byte in the cell it leaves.
LEMMA StoreGets ==
    ASSUME NEW r \in Cells, NEW w \in Cells, NEW b \in [Cells -> Values],
           r # w
    PROVE  /\ Bytes(r, w, b) # <<>>
           /\ Head(Bytes(r, w, b)) = b[r]
           /\ Tail(Bytes(r, w, b)) = Bytes(Advance(r), w, b)
<1> DEFINE n == Used(r, w)
           s == Bytes(r, w, b)
           t == Bytes(Advance(r), w, b)
<1>1. Advance(r) \in Cells /\ n \in 0 .. BufLen - 1 /\ n # 0
  BY AdvanceFacts, CellsUsed
<1>2. Used(Advance(r), w) = n - 1
  BY UsedMoves
<1>3. s \in Seq(Values) /\ Len(s) = n /\ \A k \in 1 .. n : s[k] = b[Cell(r, k - 1)]
  BY BytesAre
<1>4. /\ t \in Seq(Values) /\ Len(t) = n - 1
      /\ \A k \in 1 .. n - 1 : t[k] = b[Cell(Advance(r), k - 1)]
  <2>1. /\ t \in Seq(Values) /\ Len(t) = Used(Advance(r), w)
        /\ \A k \in 1 .. Used(Advance(r), w) : t[k] = b[Cell(Advance(r), k - 1)]
    BY <1>1, BytesAre
  <2> HIDE DEF t, n
  <2> QED
    BY <1>2, <2>1
<1>5. ASSUME NEW k \in 1 .. n - 1 PROVE t[k] = s[k + 1]
  <2>1. k - 1 \in 0 .. BufLen - 2 /\ k - 1 + 1 = k + 1 - 1 /\ k + 1 \in 1 .. n
    BY <1>1
  <2>2. Cell(Advance(r), k - 1) = Cell(r, k + 1 - 1)
    BY <2>1, CellMoves
  <2> HIDE DEF s, t, n
  <2> QED
    BY <1>3, <1>4, <2>1, <2>2
<1>6. s[1] = b[r]
  <2>1. 1 \in 1 .. n /\ 0 \in 0 .. BufLen - 1
    BY <1>1
  <2>2. Cell(r, 1 - 1) = r
    BY <2>1, CellIs
  <2> HIDE DEF s, n
  <2> QED
    BY <1>3, <2>1, <2>2
<1> HIDE DEF s, t, n
<1>7. s # <<>>
  BY <1>1, <1>3
<1>8. /\ Tail(s) \in Seq(Values) /\ Len(Tail(s)) = n - 1
      /\ \A k \in 1 .. n - 1 : Tail(s)[k] = s[k + 1]
  BY <1>3, <1>7, HeadTailProperties
<1>9. Tail(s) = t
  BY <1>4, <1>5, <1>8, SeqEqual
<1>10. Head(s) = s[1]
  BY <1>3, <1>7
<1> QED
  BY <1>6, <1>7, <1>9, <1>10 DEF s, t

\* A step of the ring is a step of the queue, or none.
LEMMA RingSimulates == IInv /\ IInv' /\ [Next]_vars => [Queue!Next]_(Queue!fvars)
<1> SUFFICES ASSUME IInv, IInv', [Next]_vars PROVE [Queue!Next]_(Queue!fvars)
  OBVIOUS
<1>1. /\ readi \in Cells /\ writei \in Cells /\ bufp \in [Cells -> Values]
      /\ bufp' \in [Cells -> Values]
  BY DEF IInv, TypeOK
<1>2. /\ qBar \in Seq(Values) /\ Len(qBar) = Used(readi, writei)
  BY <1>1, BytesAre DEF qBar
<1>3. ASSUME UNCHANGED <<readi, writei, bufp>> PROVE qBar' = qBar
  BY <1>3 DEF qBar
<1>4. CASE GetEmpty
  <2>1. Used(readi, writei) = 0
    BY <1>1, <1>4, CellsUsed DEF GetEmpty
  <2>2. qBar = <<>>
    BY <1>2, <2>1
  <2>3. Queue!GetNothing
    BY <1>3, <1>4, <2>2 DEF GetEmpty, producer, Queue!GetNothing
  <2> QED
    BY <2>3 DEF Queue!Next
<1>5. CASE GetCheck \/ GetRead
  BY <1>3, <1>5 DEF GetCheck, GetRead, producer, Queue!fvars
<1>6. CASE GetStore
  <2>1. /\ readi # writei /\ gd = bufp[readi]
        /\ readi' = Advance(readi) /\ writei' = writei /\ bufp' = bufp
        /\ got' = gd /\ accepted' = accepted
    BY <1>6 DEF GetStore, producer, IInv
  <2>2. qBar # <<>> /\ Head(qBar) = bufp[readi] /\ Tail(qBar) = qBar'
    BY <1>1, <2>1, StoreGets DEF qBar
  <2>3. Queue!Get
    BY <2>1, <2>2 DEF Queue!Get
  <2> QED
    BY <2>3 DEF Queue!Next
<1>7. ASSUME NEW p \in Producers, PutCall(p) \/ PutCheck(p)
      PROVE  UNCHANGED Queue!fvars
  BY <1>3, <1>7 DEF PutCall, PutCheck, consumer, Queue!fvars
<1>8. ASSUME NEW p \in Producers, PutFull(p) PROVE Queue!Next
  <2>1. Used(readi, writei) = BufLen - 1
    BY <1>1, <1>8, CellsUsed DEF PutFull
  <2>2. Queue!Refuse(p)
    BY <1>2, <1>3, <1>8, <2>1 DEF PutFull, consumer, Queue!Refuse
  <2> QED
    BY <2>2 DEF Queue!Next
<1>9. ASSUME NEW p \in Producers, PutWrite(p) PROVE UNCHANGED Queue!fvars
  <2>1. old[p] = writei
    BY <1>9 DEF PutWrite, IInv, Writing
  <2>2. \A i \in Cells : i # writei => bufp'[i] = bufp[i]
    BY <1>1, <1>9, <2>1 DEF PutWrite
  <2>3. UNCHANGED <<readi, writei, got, accepted>>
    BY <1>9 DEF PutWrite, consumer
  <2>4. qBar' = qBar
    BY <1>1, <2>2, <2>3, WriteHidden DEF qBar
  <2> QED
    BY <2>3, <2>4 DEF Queue!fvars
<1>10. ASSUME NEW p \in Producers, PutStore(p) PROVE Queue!Next
  <2>1. /\ old[p] = writei /\ Advance(writei) # readi /\ bufp[writei] = dat[p]
        /\ dat[p] \in Values
        /\ readi' = readi /\ writei' = Advance(writei) /\ bufp' = bufp
        /\ accepted' = [accepted EXCEPT ![p] = TRUE] /\ got' = got
    BY <1>10 DEF PutStore, consumer, IInv, TypeOK, Writing
  <2>2. qBar' = Append(qBar, dat[p])
    BY <1>1, <2>1, StorePuts DEF qBar
  <2>3. Len(qBar) < BufLen - 1
    <3>1. Used(readi, writei) \in 0 .. BufLen - 1 /\ Used(readi, writei) # BufLen - 1
      BY <1>1, <2>1, CellsUsed
    <3> QED
      BY <1>2, <3>1
  <2>4. Queue!Put(p, dat[p])
    BY <2>1, <2>2, <2>3 DEF Queue!Put
  <2> QED
    BY <2>1, <2>4 DEF Queue!Next
<1>11. CASE UNCHANGED vars
  BY <1>3, <1>11 DEF vars, consumer, producer, Queue!fvars
<1> QED
  BY <1>4, <1>5, <1>6, <1>7, <1>8, <1>9, <1>10, <1>11
     DEF Next, ConsumerStep, PutStep

\* The ring is a queue of BufLen - 1 bytes, for every storage size, every set of
\* bytes and every number of serialised producers.
THEOREM RingIsFifo == Spec => ImplementsFifo
  BY RingInit, RingInvariance, RingSimulates, PTL DEF Spec, ImplementsFifo, Queue!Spec
=============================================================================
