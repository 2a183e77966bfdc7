--------------------------- MODULE MessageQProofs ---------------------------
(***************************************************************************)
(* Machine-checked proofs that the lock-free queue of MessageQ never gives *)
(* one slot to two users, and that it implements Channel, for every number *)
(* of senders and every depth up to 32, when claims keep to the discipline *)
(* of Spec.                                                                *)
(***************************************************************************)
EXTENDS MCMessageQ, ListProofs, FiniteSetTheorems

USE QueueAssumption DEF Slots, UCharMod

\* The sets of senders are finite, so their sizes are numbers.
LEMMA Sizes ==
    ASSUME TypeOK
    PROVE  /\ IsFiniteSet(full_flags) /\ Cardinality(full_flags) \in Nat
           /\ IsFiniteSet(Owners) /\ Cardinality(Owners) \in Nat
           /\ IsFiniteSet(Permitted) /\ Cardinality(Permitted) \in Nat
           /\ IsFiniteSet(Undoing) /\ Cardinality(Undoing) \in Nat
<1>1. IsFiniteSet(Slots)
  BY FS_Interval
<1>2. full_flags \subseteq Slots
  BY DEF TypeOK
<1>3. /\ Owners \subseteq Senders
      /\ Permitted \subseteq Senders
      /\ Undoing \subseteq Senders
  BY DEF Owners, Permitted, Undoing, At
<1>4. /\ IsFiniteSet(full_flags) /\ IsFiniteSet(Owners)
      /\ IsFiniteSet(Permitted) /\ IsFiniteSet(Undoing)
  BY <1>1, <1>2, <1>3, FS_Subset
<1> QED
  BY <1>4, FS_CardinalityType

\* Counting in an unsigned char commutes with reduction modulo 256.
LEMMA CharArith ==
    ASSUME NEW x \in Int
    PROVE  /\ x % UCharMod \in 0 .. UCharMod - 1
           /\ ((x % UCharMod) - 1) % UCharMod = (x - 1) % UCharMod
           /\ ((x % UCharMod) + 1) % UCharMod = (x + 1) % UCharMod
  OBVIOUS

\* Distances ahead of receivep tell slots apart, and the slots that the
\* receiver holds are the furthest ahead.
LEMMA Distances ==
    ASSUME TypeOK
    PROVE  /\ \A i \in Slots : Ahead(i) \in Slots
           /\ \A i, j \in Slots : Ahead(i) = Ahead(j) => i = j
           /\ \A k \in 1 .. nheld :
                 Behind(k) \in Slots /\ Ahead(Behind(k)) = QueueLen - k
  BY DEF TypeOK, Ahead, Behind

LEMMA AdvanceType ==
    ASSUME NEW i \in Slots
    PROVE  Advance(i) \in Slots
  BY DEF Advance

Labels == {"idle", "undo", "load", "cas", "fill", "send"}

\* Adding an element to a finite set, and taking one away.
LEMMA Sized ==
    ASSUME NEW S, IsFiniteSet(S), NEW x
    PROVE  /\ x \in S => /\ S \cup {x} = S
                         /\ Cardinality(S \ {x}) = Cardinality(S) - 1
           /\ x \notin S => /\ Cardinality(S \cup {x}) = Cardinality(S) + 1
                            /\ S \ {x} = S
<1>1. CASE x \in S
  <2>1. S \cup {x} = S
    BY <1>1
  <2> QED
    BY <1>1, <2>1, FS_RemoveElement
<1>2. CASE x \notin S
  <2>1. S \ {x} = S
    BY <1>2
  <2> QED
    BY <1>2, <2>1, FS_AddElement
<1> QED
  BY <1>1, <1>2

\* What a sender's step from label pc[s] to label l does to the three sets of
\* senders.
LEMMA Moves ==
    ASSUME TypeOK, NEW s \in Senders, NEW l \in Labels, Goto(s, l)
    PROVE  /\ Owners' = IF l \in {"fill", "send"} THEN Owners \cup {s}
                                                  ELSE Owners \ {s}
           /\ Permitted' = IF l \in {"load", "cas"} THEN Permitted \cup {s}
                                                    ELSE Permitted \ {s}
           /\ Undoing' = IF l = "undo" THEN Undoing \cup {s}
                                       ELSE Undoing \ {s}
  BY DEF TypeOK, Owners, Permitted, Undoing, At, Goto, Labels

\* The set a sender is counted in is told by its label.
LEMMA Membership ==
    ASSUME TypeOK, NEW s \in Senders
    PROVE  /\ s \in Owners <=> pc[s] \in {"fill", "send"}
           /\ s \in Permitted <=> pc[s] \in {"load", "cas"}
           /\ s \in Undoing <=> pc[s] = "undo"
  BY DEF TypeOK, Owners, Permitted, Undoing, At

-----------------------------------------------------------------------------
(* Type correctness.  The bound on nheld needs the count of places.        *)

\* Receiving never takes a slot more than there are.
LEMMA HeldBound ==
    ASSUME TypeOK, NoOverclaim, receivep \in full_flags
    PROVE  nheld < QueueLen
<1>1. Cardinality(full_flags) # 0
  BY Sizes, FS_EmptySet
<1> QED
  BY <1>1, Sizes DEF NoOverclaim, Spoken, TypeOK

LEMMA TypeStep ==
    ASSUME TypeOK, NoOverclaim, [Next]_vars
    PROVE  TypeOK'
<1>1. ASSUME NEW s \in Senders, ClaimFetchSub(s) PROVE TypeOK'
  BY <1>1 DEF TypeOK, ClaimFetchSub, Goto
<1>2. ASSUME NEW s \in Senders, ClaimUndo(s) PROVE TypeOK'
  BY <1>2 DEF TypeOK, ClaimUndo, Goto
<1>3. ASSUME NEW s \in Senders, ClaimLoad(s) PROVE TypeOK'
  BY <1>3 DEF TypeOK, ClaimLoad, Goto, shared
<1>4. ASSUME NEW s \in Senders, ClaimCasOk(s) PROVE TypeOK'
  BY <1>4, AdvanceType DEF TypeOK, ClaimCasOk, Goto
<1>5. ASSUME NEW s \in Senders, ClaimCasFail(s) PROVE TypeOK'
  BY <1>5 DEF TypeOK, ClaimCasFail, shared
<1>6. ASSUME NEW s \in Senders, Fill(s) PROVE TypeOK'
  BY <1>6 DEF TypeOK, Fill, Goto
<1>7. ASSUME NEW s \in Senders, Send(s) PROVE TypeOK'
  <2>1. full_flags' = full_flags \cup {ptr[s]} /\ ptr[s] \in Slots
    BY <1>7 DEF TypeOK, Send
  <2>2. pc' \in [Senders -> Labels]
    BY <1>7 DEF TypeOK, Send, Goto, Labels
  <2>3. UNCHANGED <<num_free, sendp, receivep, buf, ptr, nheld>>
    BY <1>7 DEF Send
  <2>4. full_flags' \subseteq Slots
    BY <2>1 DEF TypeOK
  <2> QED
    BY <2>2, <2>3, <2>4 DEF TypeOK, Labels
<1>8. CASE Receive
  <2>1. nheld < QueueLen
    BY <1>8, HeldBound DEF Receive
  <2>2. receivep' \in Slots
    BY <1>8, AdvanceType DEF TypeOK, Receive
  <2> QED
    BY <1>8, <2>1, <2>2 DEF TypeOK, Receive
<1>9. CASE Release
  BY <1>9 DEF TypeOK, Release
<1>10. CASE UNCHANGED vars
  BY <1>10 DEF TypeOK, vars, shared
<1> QED
  BY <1>1, <1>2, <1>3, <1>4, <1>5, <1>6, <1>7, <1>8, <1>9, <1>10
     DEF Next, Others, SenderStep

-----------------------------------------------------------------------------
(* What each step does to the sizes that num_free is made of.              *)

SameSets == /\ Owners' = Owners
            /\ Permitted' = Permitted
            /\ Undoing' = Undoing

LEMMA EffectFetchSub ==
    ASSUME TypeOK, NEW s \in Senders, ClaimFetchSub(s)
    PROVE  /\ Owners' = Owners
           /\ num_free <= 0 => /\ Permitted' = Permitted
                               /\ Cardinality(Undoing') =
                                      Cardinality(Undoing) + 1
           /\ num_free > 0 => /\ Undoing' = Undoing
                              /\ Cardinality(Permitted') =
                                     Cardinality(Permitted) + 1
<1>1. s \notin Owners /\ s \notin Permitted /\ s \notin Undoing
  BY Membership DEF ClaimFetchSub
<1>2. CASE num_free <= 0
  <2>1. Goto(s, "undo")
    BY <1>2 DEF ClaimFetchSub
  <2>2. Undoing' = Undoing \cup {s} /\ Owners' = Owners \ {s}
                                    /\ Permitted' = Permitted \ {s}
    BY <2>1, Moves DEF Labels
  <2>3. Cardinality(Undoing') = Cardinality(Undoing) + 1
    BY <1>1, <2>2, Sized, Sizes
  <2>4. Owners' = Owners /\ Permitted' = Permitted
    BY <1>1, <2>2
  <2>5. ~ (num_free > 0)
    BY <1>2 DEF TypeOK
  <2> QED
    BY <2>3, <2>4, <2>5
<1>3. CASE num_free > 0
  <2>1. Goto(s, "load")
    BY <1>3 DEF ClaimFetchSub, TypeOK
  <2>2. Permitted' = Permitted \cup {s} /\ Owners' = Owners \ {s}
                                        /\ Undoing' = Undoing \ {s}
    BY <2>1, Moves DEF Labels
  <2>3. Cardinality(Permitted') = Cardinality(Permitted) + 1
    BY <1>1, <2>2, Sized, Sizes
  <2>4. Owners' = Owners /\ Undoing' = Undoing
    BY <1>1, <2>2
  <2>5. ~ (num_free <= 0)
    BY <1>3 DEF TypeOK
  <2> QED
    BY <2>3, <2>4, <2>5
<1> QED
  BY <1>2, <1>3 DEF TypeOK

LEMMA EffectUndo ==
    ASSUME TypeOK, NEW s \in Senders, ClaimUndo(s)
    PROVE  /\ Owners' = Owners
           /\ Permitted' = Permitted
           /\ Cardinality(Undoing') = Cardinality(Undoing) - 1
<1>1. s \notin Owners /\ s \notin Permitted /\ s \in Undoing
  BY Membership DEF ClaimUndo
<1>2. Undoing' = Undoing \ {s} /\ Owners' = Owners \ {s}
                               /\ Permitted' = Permitted \ {s}
  BY Moves DEF Labels, ClaimUndo
<1> QED
  BY <1>1, <1>2, Sized, Sizes

LEMMA EffectLoad ==
    ASSUME TypeOK, NEW s \in Senders, ClaimLoad(s)
    PROVE  SameSets
<1>1. s \notin Owners /\ s \in Permitted /\ s \notin Undoing
  BY Membership DEF ClaimLoad
<1>2. Undoing' = Undoing \ {s} /\ Owners' = Owners \ {s}
                               /\ Permitted' = Permitted \cup {s}
  BY Moves DEF Labels, ClaimLoad
<1> QED
  BY <1>1, <1>2 DEF SameSets

LEMMA EffectCasOk ==
    ASSUME TypeOK, NEW s \in Senders, ClaimCasOk(s)
    PROVE  /\ s \notin Owners
           /\ Owners' = Owners \cup {s}
           /\ Cardinality(Owners') = Cardinality(Owners) + 1
           /\ Cardinality(Permitted) > 0
           /\ Cardinality(Permitted') = Cardinality(Permitted) - 1
           /\ Undoing' = Undoing
<1>1. s \notin Owners /\ s \in Permitted /\ s \notin Undoing
  BY Membership DEF ClaimCasOk
<1>2. Undoing' = Undoing \ {s} /\ Owners' = Owners \cup {s}
                               /\ Permitted' = Permitted \ {s}
  BY Moves DEF Labels, ClaimCasOk
<1>3. Cardinality(Permitted) # 0
  BY <1>1, Sizes, FS_EmptySet
<1> QED
  BY <1>1, <1>2, <1>3, Sized, Sizes

LEMMA EffectFill ==
    ASSUME TypeOK, NEW s \in Senders, Fill(s)
    PROVE  SameSets
<1>1. s \in Owners /\ s \notin Permitted /\ s \notin Undoing
  BY Membership DEF Fill
<1>2. Undoing' = Undoing \ {s} /\ Owners' = Owners \cup {s}
                               /\ Permitted' = Permitted \ {s}
  BY Moves DEF Labels, Fill
<1> QED
  BY <1>1, <1>2 DEF SameSets

LEMMA EffectSend ==
    ASSUME TypeOK, SlotExclusion, NEW s \in Senders, Send(s)
    PROVE  /\ s \in Owners
           /\ Owners' = Owners \ {s}
           /\ Cardinality(Owners') = Cardinality(Owners) - 1
           /\ ptr[s] \notin full_flags
           /\ Cardinality(full_flags') = Cardinality(full_flags) + 1
           /\ Permitted' = Permitted
           /\ Undoing' = Undoing
<1>1. s \in Owners /\ s \notin Permitted /\ s \notin Undoing
  BY Membership DEF Send
<1>2. Undoing' = Undoing \ {s} /\ Owners' = Owners \ {s}
                               /\ Permitted' = Permitted \ {s}
  BY Moves DEF Labels, Send
<1>3. ptr[s] \notin full_flags
  BY <1>1 DEF SlotExclusion, ClaimedSlots
<1>4. full_flags' = full_flags \cup {ptr[s]}
  BY DEF Send
<1> QED
  BY <1>1, <1>2, <1>3, <1>4, Sized, Sizes

LEMMA EffectReceive ==
    ASSUME TypeOK, Receive
    PROVE  /\ SameSets
           /\ Cardinality(full_flags) > 0
           /\ Cardinality(full_flags') = Cardinality(full_flags) - 1
<1>1. SameSets
  BY DEF Receive, SameSets, Owners, Permitted, Undoing, At
<1>2. full_flags' = full_flags \ {receivep} /\ receivep \in full_flags
  BY DEF Receive
<1>3. Cardinality(full_flags) # 0
  BY <1>2, Sizes, FS_EmptySet
<1> QED
  BY <1>1, <1>2, <1>3, Sized, Sizes

-----------------------------------------------------------------------------
(* The counting part of the invariant.                                     *)

Counting == /\ FreeCount
            /\ NoOverclaim
            /\ Cardinality(Undoing) =< 1

\* What num_free tells a claim that is admitted: a positive value promises a
\* place, and a zero that nobody else is backing out of a claim.
LEMMA FreeReading ==
    ASSUME TypeOK, Counting
    PROVE  /\ Admitted /\ num_free > 0 => Spoken < QueueLen
           /\ Admitted /\ num_free <= 0 => Cardinality(Undoing) = 0
<1> DEFINE u == Cardinality(Undoing)
           x == QueueLen - Spoken - u
<1>1. /\ Spoken \in Nat /\ u \in Nat /\ u <= 1 /\ Spoken <= QueueLen
      /\ num_free = x % 256
  <2>1. Spoken \in Nat /\ u \in Nat
    BY Sizes DEF Spoken, TypeOK
  <2>2. u <= 1 /\ Spoken <= QueueLen
    BY DEF Counting, NoOverclaim
  <2>3. num_free = x % 256
    BY DEF Counting, FreeCount
  <2> QED
    BY <2>1, <2>2, <2>3
<1>2. Permitted \cup Undoing = {} => u = 0
  BY FS_EmptySet
<1>3. Admitted => u = 0 \/ Spoken + u < QueueLen
  BY <1>2 DEF Admitted
<1>4. /\ num_free <= 0 => x = 0
      /\ num_free > 0 => x # 0
  <2> HIDE DEF x
  <2>1. x \in -1 .. 32
    BY <1>1 DEF x
  <2> QED
    BY <1>1, <2>1
<1>5. u \in Nat /\ Spoken \in Nat /\ Spoken <= QueueLen
  BY <1>1
<1>6. ASSUME Admitted, num_free > 0 PROVE Spoken < QueueLen
  BY <1>3, <1>4, <1>5, <1>6
<1>7. ASSUME Admitted, num_free <= 0 PROVE u = 0
  BY <1>3, <1>4, <1>5, <1>7
<1> QED
  BY <1>6, <1>7

\* The books of the queue: n is num_free, and h, f, o, p and u the messages
\* held, sent and claimed, the claims granted and the claims refused.
Balance(n, h, f, o, p, u) ==
    /\ n = (QueueLen - (h + f + o + p) - u) % UCharMod
    /\ h + f + o + p <= QueueLen
    /\ u <= 1

\* What each step does to the books.
LEMMA BookGrant ==
    ASSUME NEW n \in Int, NEW h \in Nat, NEW f \in Nat, NEW o \in Nat,
           NEW p \in Nat, NEW u \in Nat, Balance(n, h, f, o, p, u),
           h + f + o + p < QueueLen
    PROVE  Balance((n - 1) % UCharMod, h, f, o, p + 1, u)
<1> DEFINE x == QueueLen - (h + f + o + p) - u
<1>1. x \in Int /\ n = x % UCharMod
  BY DEF Balance
<1>2. (n - 1) % UCharMod = (x - 1) % UCharMod
  BY <1>1, CharArith
<1>3. QueueLen - (h + f + o + (p + 1)) - u = x - 1
  OBVIOUS
<1>4. h + f + o + (p + 1) <= QueueLen /\ u <= 1
  BY DEF Balance
<1> HIDE DEF x
<1> QED
  BY <1>1, <1>2, <1>3, <1>4 DEF Balance

LEMMA BookRefuse ==
    ASSUME NEW n \in Int, NEW h \in Nat, NEW f \in Nat, NEW o \in Nat,
           NEW p \in Nat, NEW u \in Nat, Balance(n, h, f, o, p, u),
           u = 0
    PROVE  Balance((n - 1) % UCharMod, h, f, o, p, u + 1)
<1> DEFINE x == QueueLen - (h + f + o + p) - u
<1>1. x \in Int /\ n = x % UCharMod
  BY DEF Balance
<1>2. (n - 1) % UCharMod = (x - 1) % UCharMod
  BY <1>1, CharArith
<1>3. QueueLen - (h + f + o + p) - (u + 1) = x - 1
  OBVIOUS
<1>4. h + f + o + p <= QueueLen /\ (u + 1) <= 1
  BY DEF Balance
<1> HIDE DEF x
<1> QED
  BY <1>1, <1>2, <1>3, <1>4 DEF Balance

LEMMA BookUndo ==
    ASSUME NEW n \in Int, NEW h \in Nat, NEW f \in Nat, NEW o \in Nat,
           NEW p \in Nat, NEW u \in Nat, Balance(n, h, f, o, p, u)
    PROVE  Balance((n + 1) % UCharMod, h, f, o, p, u - 1)
<1> DEFINE x == QueueLen - (h + f + o + p) - u
<1>1. x \in Int /\ n = x % UCharMod
  BY DEF Balance
<1>2. (n + 1) % UCharMod = (x + 1) % UCharMod
  BY <1>1, CharArith
<1>3. QueueLen - (h + f + o + p) - (u - 1) = x + 1
  OBVIOUS
<1>4. h + f + o + p <= QueueLen /\ (u - 1) <= 1
  BY DEF Balance
<1> HIDE DEF x
<1> QED
  BY <1>1, <1>2, <1>3, <1>4 DEF Balance

LEMMA BookTake ==
    ASSUME NEW n \in Int, NEW h \in Nat, NEW f \in Nat, NEW o \in Nat,
           NEW p \in Nat, NEW u \in Nat, Balance(n, h, f, o, p, u)
    PROVE  Balance(n, h, f, o + 1, p - 1, u)
<1> DEFINE x == QueueLen - (h + f + o + p) - u
<1>1. x \in Int /\ n = x % UCharMod
  BY DEF Balance
<1>2. QueueLen - (h + f + (o + 1) + (p - 1)) - u = x
  OBVIOUS
<1>3. h + f + (o + 1) + (p - 1) <= QueueLen /\ u <= 1
  BY DEF Balance
<1> HIDE DEF x
<1> QED
  BY <1>1, <1>2, <1>3 DEF Balance

LEMMA BookSend ==
    ASSUME NEW n \in Int, NEW h \in Nat, NEW f \in Nat, NEW o \in Nat,
           NEW p \in Nat, NEW u \in Nat, Balance(n, h, f, o, p, u)
    PROVE  Balance(n, h, f + 1, o - 1, p, u)
<1> DEFINE x == QueueLen - (h + f + o + p) - u
<1>1. x \in Int /\ n = x % UCharMod
  BY DEF Balance
<1>2. QueueLen - (h + (f + 1) + (o - 1) + p) - u = x
  OBVIOUS
<1>3. h + (f + 1) + (o - 1) + p <= QueueLen /\ u <= 1
  BY DEF Balance
<1> HIDE DEF x
<1> QED
  BY <1>1, <1>2, <1>3 DEF Balance

LEMMA BookReceive ==
    ASSUME NEW n \in Int, NEW h \in Nat, NEW f \in Nat, NEW o \in Nat,
           NEW p \in Nat, NEW u \in Nat, Balance(n, h, f, o, p, u)
    PROVE  Balance(n, h + 1, f - 1, o, p, u)
<1> DEFINE x == QueueLen - (h + f + o + p) - u
<1>1. x \in Int /\ n = x % UCharMod
  BY DEF Balance
<1>2. QueueLen - ((h + 1) + (f - 1) + o + p) - u = x
  OBVIOUS
<1>3. (h + 1) + (f - 1) + o + p <= QueueLen /\ u <= 1
  BY DEF Balance
<1> HIDE DEF x
<1> QED
  BY <1>1, <1>2, <1>3 DEF Balance

LEMMA BookRelease ==
    ASSUME NEW n \in Int, NEW h \in Nat, NEW f \in Nat, NEW o \in Nat,
           NEW p \in Nat, NEW u \in Nat, Balance(n, h, f, o, p, u)
    PROVE  Balance((n + 1) % UCharMod, h - 1, f, o, p, u)
<1> DEFINE x == QueueLen - (h + f + o + p) - u
<1>1. x \in Int /\ n = x % UCharMod
  BY DEF Balance
<1>2. (n + 1) % UCharMod = (x + 1) % UCharMod
  BY <1>1, CharArith
<1>3. QueueLen - ((h - 1) + f + o + p) - u = x + 1
  OBVIOUS
<1>4. (h - 1) + f + o + p <= QueueLen /\ u <= 1
  BY DEF Balance
<1> HIDE DEF x
<1> QED
  BY <1>1, <1>2, <1>3, <1>4 DEF Balance

Books == Balance(num_free, nheld, Cardinality(full_flags),
                 Cardinality(Owners), Cardinality(Permitted),
                 Cardinality(Undoing))

LEMMA CountingIsBalance == Counting <=> Books
  BY DEF Counting, Books, Balance, FreeCount, NoOverclaim, Spoken

LEMMA CountingStep ==
    ASSUME TypeOK, Counting, SlotExclusion, [Next]_vars
    PROVE  Counting'
<1>1. Books
  BY CountingIsBalance
<1>0. Balance(num_free, nheld, Cardinality(full_flags), Cardinality(Owners),
              Cardinality(Permitted), Cardinality(Undoing))
  BY <1>1 DEF Books
<1>2. /\ num_free \in Int /\ nheld \in Nat
      /\ Cardinality(full_flags) \in Nat /\ Cardinality(Owners) \in Nat
      /\ Cardinality(Permitted) \in Nat /\ Cardinality(Undoing) \in Nat
  BY Sizes DEF TypeOK
<1>3. SUFFICES Books'
  BY DEF Counting, Books, Balance, FreeCount, NoOverclaim, Spoken
<1>4. ASSUME NEW s \in Senders, Admitted, ClaimFetchSub(s)
      PROVE  Books'
  <2>1. CASE num_free <= 0
    <3>1. Cardinality(Undoing) = 0
      BY <1>4, <2>1, FreeReading
    <3>2. Balance(num_free', nheld, Cardinality(full_flags),
                  Cardinality(Owners), Cardinality(Permitted),
                  Cardinality(Undoing) + 1)
      <4>1. num_free' = (num_free - 1) % UCharMod
        BY <1>4 DEF ClaimFetchSub
      <4> QED
        BY <1>0, <1>2, <3>1, <4>1, BookRefuse
    <3> QED
      BY <1>4, <2>1, <3>2, EffectFetchSub DEF Books, ClaimFetchSub
  <2>2. CASE num_free > 0
    <3>1. Spoken < QueueLen
      BY <1>4, <2>2, FreeReading
    <3>2. Balance(num_free', nheld, Cardinality(full_flags),
                  Cardinality(Owners), Cardinality(Permitted) + 1,
                  Cardinality(Undoing))
      <4>1. num_free' = (num_free - 1) % UCharMod
        BY <1>4 DEF ClaimFetchSub
      <4>2. nheld + Cardinality(full_flags) + Cardinality(Owners)
                  + Cardinality(Permitted) < QueueLen
        BY <1>2, <3>1 DEF Spoken
      <4> QED
        BY <1>0, <1>2, <4>1, <4>2, BookGrant
    <3> QED
      BY <1>4, <2>2, <3>2, EffectFetchSub DEF Books, ClaimFetchSub
  <2> QED
    BY <1>2, <2>1, <2>2
<1>5. ASSUME NEW s \in Senders, ClaimUndo(s) PROVE Books'
  <2>1. Balance(num_free', nheld, Cardinality(full_flags),
                Cardinality(Owners), Cardinality(Permitted),
                Cardinality(Undoing) - 1)
    <3>1. num_free' = (num_free + 1) % UCharMod
      BY <1>5 DEF ClaimUndo
    <3> QED
      BY <1>0, <1>2, <3>1, BookUndo
  <2> QED
    BY <1>5, <2>1, EffectUndo DEF Books, ClaimUndo
<1>6. ASSUME NEW s \in Senders, ClaimLoad(s) PROVE Books'
  BY <1>1, <1>6, EffectLoad DEF Books, ClaimLoad, SameSets, shared
<1>7. ASSUME NEW s \in Senders, ClaimCasOk(s) PROVE Books'
  <2>1. Balance(num_free, nheld, Cardinality(full_flags),
                Cardinality(Owners) + 1, Cardinality(Permitted) - 1,
                Cardinality(Undoing))
    BY <1>0, <1>2, BookTake
  <2> QED
    BY <1>7, <2>1, EffectCasOk DEF Books, ClaimCasOk
<1>8. ASSUME NEW s \in Senders, ClaimCasFail(s) PROVE Books'
  BY <1>1, <1>8 DEF Books, ClaimCasFail, shared, Owners, Permitted, Undoing, At
<1>9. ASSUME NEW s \in Senders, Fill(s) PROVE Books'
  BY <1>1, <1>9, EffectFill DEF Books, Fill, SameSets
<1>10. ASSUME NEW s \in Senders, Send(s) PROVE Books'
  <2>1. Balance(num_free, nheld, Cardinality(full_flags) + 1,
                Cardinality(Owners) - 1, Cardinality(Permitted),
                Cardinality(Undoing))
    BY <1>0, <1>2, BookSend
  <2> QED
    BY <1>10, <2>1, EffectSend DEF Books, Send
<1>11. CASE Receive
  <2>1. Balance(num_free, nheld + 1, Cardinality(full_flags) - 1,
                Cardinality(Owners), Cardinality(Permitted),
                Cardinality(Undoing))
    BY <1>0, <1>2, BookReceive
  <2> QED
    BY <1>11, <2>1, EffectReceive DEF Books, Receive, SameSets
<1>12. CASE Release
  <2>1. Balance(num_free', nheld - 1, Cardinality(full_flags),
                Cardinality(Owners), Cardinality(Permitted),
                Cardinality(Undoing))
    <3>1. num_free' = (num_free + 1) % UCharMod
      BY <1>12 DEF Release
    <3> QED
      BY <1>0, <1>2, <3>1, BookRelease
  <2> QED
    BY <1>12, <2>1 DEF Books, Release, Owners, Permitted, Undoing, At
<1>13. CASE UNCHANGED vars
  BY <1>1, <1>13 DEF Books, vars, shared, Owners, Permitted, Undoing, At
<1> QED
  BY <1>4, <1>5, <1>6, <1>7, <1>8, <1>9, <1>10, <1>11, <1>12, <1>13
     DEF Next, Others, SenderStep

-----------------------------------------------------------------------------
(* The shape of the ring, and who may use a slot.                          *)

\* Given the shape, the receiver's slots are apart from the queue's and the
\* senders': those are the Pending first ones from receivep, and the
\* receiver's are the nheld last ones.
LEMMA HeldApart ==
    ASSUME TypeOK, NoOverclaim, RingShape
    PROVE  (ClaimedSlots \cup full_flags) \cap HeldSlots = {}
<1>1. /\ Pending \in Nat /\ Pending + nheld <= QueueLen
      /\ nheld \in 0 .. QueueLen
  BY Sizes DEF Pending, NoOverclaim, Spoken, TypeOK
<1>2. ASSUME NEW i \in Slots, Ahead(i) < Pending, NEW k \in 1 .. nheld,
             i = Behind(k)
      PROVE  FALSE
  <2>1. Ahead(i) = QueueLen - k
    BY <1>2, Distances
  <2> QED
    BY <1>1, <1>2, <2>1
<1> QED
  BY <1>2 DEF RingShape, HeldSlots

Ring == /\ RingShape
        /\ \A s, t \in Owners : s # t => ptr[s] # ptr[t]
        /\ ClaimedSlots \cap full_flags = {}

\* A sender whose compare-and-exchange succeeds gets a slot that is nobody's,
\* and the ring grows by it.
LEMMA RingCasOk ==
    ASSUME TypeOK, Counting, Ring, NEW s \in Senders, ClaimCasOk(s)
    PROVE  Ring'
<1>1. /\ s \notin Owners
      /\ Owners' = Owners \cup {s}
      /\ full_flags' = full_flags /\ receivep' = receivep
      /\ ptr' = ptr /\ ptr[s] = sendp /\ sendp \in Slots
      /\ sendp' = Advance(sendp)
  BY EffectCasOk DEF ClaimCasOk, TypeOK
<1>2. /\ Pending \in Nat /\ Pending < QueueLen
      /\ Pending' = Pending + 1
  <2>1. /\ Cardinality(Owners') = Cardinality(Owners) + 1
        /\ Cardinality(Permitted) > 0
        /\ full_flags' = full_flags
    BY EffectCasOk DEF ClaimCasOk
  <2>2. nheld \in Nat /\ Spoken <= QueueLen
    BY DEF TypeOK, Counting, NoOverclaim
  <2> QED
    BY <2>1, <2>2, Sizes DEF Pending, Spoken
<1>3. Ahead(sendp) = Pending
  BY <1>2 DEF Ring, RingShape
<1>4. sendp \notin ClaimedSlots /\ sendp \notin full_flags
  BY <1>2, <1>3 DEF Ring, RingShape
<1>5. ClaimedSlots' = ClaimedSlots \cup {sendp}
  BY <1>1 DEF ClaimedSlots
<1>6. \A i \in Slots : Ahead(i)' = Ahead(i)
  BY <1>1 DEF Ahead
<1>7. \A i \in Slots : Ahead(i) < Pending' <=> Ahead(i) < Pending \/ i = sendp
  <2>1. \A i \in Slots : Ahead(i) \in Slots /\ (Ahead(i) = Pending <=> i = sendp)
    BY <1>1, <1>3, Distances
  <2> QED
    BY <1>2, <2>1
<1>8. (ClaimedSlots \cup full_flags)' = {i \in Slots : Ahead(i) < Pending}'
  BY <1>1, <1>5, <1>6, <1>7 DEF Ring, RingShape
<1>9. \/ Pending' < QueueLen /\ Ahead(sendp)' = Pending'
      \/ Pending' = QueueLen /\ sendp' = receivep'
  BY <1>1, <1>2, <1>3 DEF Ahead, Advance, TypeOK
<1>10. RingShape'
  BY <1>8, <1>9 DEF RingShape
<1>11. \A r, t \in Owners' : r # t => ptr'[r] # ptr'[t]
  BY <1>1, <1>4 DEF Ring, ClaimedSlots
<1>12. ClaimedSlots' \cap full_flags' = {}
  <2>1. ClaimedSlots \cap full_flags = {}
    BY DEF Ring
  <2> QED
    BY <1>1, <1>4, <1>5, <2>1
<1> QED
  BY <1>10, <1>11, <1>12 DEF Ring

\* Sending moves a slot from its sender to the queue.
LEMMA RingSend ==
    ASSUME TypeOK, SlotExclusion, Ring, NEW s \in Senders, Send(s)
    PROVE  Ring'
<1>1. /\ s \in Owners
      /\ Owners' = Owners \ {s}
      /\ full_flags' = full_flags \cup {ptr[s]}
      /\ ptr[s] \notin full_flags
      /\ ptr' = ptr /\ sendp' = sendp /\ receivep' = receivep
  BY EffectSend DEF Send
<1>2. Pending' = Pending
  BY EffectSend, Sizes DEF Pending
<1>3. \A r, t \in Owners : r # t => ptr[r] # ptr[t]
  BY DEF Ring
<1>4. ClaimedSlots' = ClaimedSlots \ {ptr[s]} /\ ptr[s] \in ClaimedSlots
  BY <1>1, <1>3 DEF ClaimedSlots
<1>5. (ClaimedSlots \cup full_flags)' = ClaimedSlots \cup full_flags
  BY <1>1, <1>4
<1>6. RingShape'
  BY <1>1, <1>2, <1>5 DEF Ring, RingShape, Ahead
<1>7. \A r, t \in Owners' : r # t => ptr'[r] # ptr'[t]
  BY <1>1, <1>3
<1>8. ClaimedSlots' \cap full_flags' = {}
  BY <1>1, <1>4 DEF Ring
<1> QED
  BY <1>6, <1>7, <1>8 DEF Ring

\* Receiving takes the first slot of the ring.
LEMMA RingReceive ==
    ASSUME TypeOK, Ring, NoOverclaim, Receive
    PROVE  Ring'
<1>1. /\ receivep \in full_flags /\ receivep \in Slots
      /\ full_flags' = full_flags \ {receivep}
      /\ receivep' = Advance(receivep)
      /\ Owners' = Owners /\ ptr' = ptr /\ sendp' = sendp
  BY EffectReceive DEF Receive, SameSets, TypeOK
<1>2. Pending \in Nat /\ Pending > 0 /\ Pending <= QueueLen
  <2>1. /\ nheld \in Nat /\ Cardinality(full_flags) \in Nat
        /\ Cardinality(Owners) \in Nat /\ Cardinality(Permitted) \in Nat
    BY Sizes DEF TypeOK
  <2>2. Cardinality(full_flags) > 0
    BY EffectReceive
  <2> QED
    BY <2>1, <2>2 DEF Pending, NoOverclaim, Spoken
<1>3. Pending' = Pending - 1
  BY <1>1, EffectReceive, Sizes DEF Pending
<1>4. ClaimedSlots' = ClaimedSlots /\ receivep \notin ClaimedSlots
  BY <1>1 DEF ClaimedSlots, Ring
<1>5. \A i \in Slots : Ahead(i)' = IF i = receivep THEN QueueLen - 1
                                                 ELSE Ahead(i) - 1
  BY <1>1 DEF Ahead, Advance
<1>6. \A i \in Slots : Ahead(i) \in Slots /\ Ahead(receivep) = 0
  BY Distances, <1>1 DEF Ahead
<1>7. \A i \in Slots : Ahead(i)' < Pending' <=> Ahead(i) < Pending /\ i # receivep
  BY <1>2, <1>3, <1>5, <1>6
<1>8. (ClaimedSlots \cup full_flags)' = {i \in Slots : Ahead(i) < Pending}'
  BY <1>1, <1>4, <1>7 DEF Ring, RingShape
<1>9. Pending' < QueueLen /\ Ahead(sendp)' = Pending'
  <2>1. CASE Pending < QueueLen /\ Ahead(sendp) = Pending
    BY <2>1, <1>1, <1>2, <1>3, <1>6 DEF Ahead, Advance, TypeOK
  <2>2. CASE Pending = QueueLen /\ sendp = receivep
    BY <2>2, <1>1, <1>2, <1>3 DEF Ahead, Advance
  <2> QED
    BY <2>1, <2>2 DEF Ring, RingShape
<1>10. RingShape'
  BY <1>8, <1>9 DEF RingShape
<1>11. \A r, t \in Owners' : r # t => ptr'[r] # ptr'[t]
  BY <1>1 DEF Ring
<1>12. ClaimedSlots' \cap full_flags' = {}
  BY <1>1, <1>4 DEF Ring
<1> QED
  BY <1>10, <1>11, <1>12 DEF Ring

\* A step of a sender that owns no slot, before or after it, or that only
\* fills its own, leaves the ring alone.
LEMMA RingKept ==
    ASSUME TypeOK, Ring, Owners' = Owners,
           \A s \in Owners : ptr'[s] = ptr[s],
           UNCHANGED <<full_flags, sendp, receivep>>
    PROVE  Ring'
<1>1. ClaimedSlots' = ClaimedSlots
  BY DEF ClaimedSlots
<1>2. Pending' = Pending
  BY DEF Pending
<1>3. \A i \in Slots : Ahead(i)' = Ahead(i)
  BY DEF Ahead
<1>4. Ahead(sendp)' = Ahead(sendp)
  BY DEF Ahead
<1>5. RingShape'
  BY <1>1, <1>2, <1>3, <1>4 DEF Ring, RingShape
<1>6. \A r, t \in Owners' : r # t => ptr'[r] # ptr'[t]
  BY DEF Ring
<1>7. ClaimedSlots' \cap full_flags' = {}
  BY <1>1 DEF Ring
<1> QED
  BY <1>5, <1>6, <1>7 DEF Ring

LEMMA RingStep ==
    ASSUME TypeOK, Counting, Ring, SlotExclusion, [Next]_vars
    PROVE  Ring'
<1>1. ASSUME NEW s \in Senders, ClaimFetchSub(s) PROVE Ring'
  BY <1>1, EffectFetchSub, RingKept DEF ClaimFetchSub, TypeOK
<1>2. ASSUME NEW s \in Senders, ClaimUndo(s) PROVE Ring'
  BY <1>2, EffectUndo, RingKept DEF ClaimUndo
<1>3. ASSUME NEW s \in Senders, ClaimLoad(s) PROVE Ring'
  <2>1. s \notin Owners
    BY <1>3, Membership DEF ClaimLoad
  <2>2. \A t \in Owners : ptr'[t] = ptr[t]
    BY <1>3, <2>1 DEF ClaimLoad, TypeOK, Owners, At
  <2> QED
    BY <1>3, <2>2, EffectLoad, RingKept DEF ClaimLoad, SameSets, shared
<1>4. ASSUME NEW s \in Senders, ClaimCasOk(s) PROVE Ring'
  BY <1>4, RingCasOk
<1>5. ASSUME NEW s \in Senders, ClaimCasFail(s) PROVE Ring'
  <2>1. s \notin Owners
    BY <1>5, Membership DEF ClaimCasFail
  <2>2. \A t \in Owners : ptr'[t] = ptr[t]
    BY <1>5, <2>1 DEF ClaimCasFail, TypeOK, Owners, At
  <2>3. Owners' = Owners
    BY <1>5 DEF ClaimCasFail, Owners, At
  <2> QED
    BY <1>5, <2>2, <2>3, RingKept DEF ClaimCasFail, shared
<1>6. ASSUME NEW s \in Senders, Fill(s) PROVE Ring'
  BY <1>6, EffectFill, RingKept DEF Fill, SameSets
<1>7. ASSUME NEW s \in Senders, Send(s) PROVE Ring'
  BY <1>7, RingSend
<1>8. CASE Receive
  BY <1>8, RingReceive DEF Counting
<1>9. CASE Release
  <2>1. Owners' = Owners
    BY <1>9 DEF Release, Owners, At
  <2> QED
    BY <1>9, <2>1, RingKept DEF Release
<1>10. CASE UNCHANGED vars
  <2>1. Owners' = Owners
    BY <1>10 DEF vars, Owners, At
  <2> QED
    BY <1>10, <2>1, RingKept DEF vars, shared
<1> QED
  BY <1>1, <1>2, <1>3, <1>4, <1>5, <1>6, <1>7, <1>8, <1>9, <1>10
     DEF Next, Others, SenderStep

-----------------------------------------------------------------------------

LEMMA InitInvariant == Init => IInv
<1> SUFFICES ASSUME Init PROVE IInv
  OBVIOUS
<1>1. Owners = {} /\ Permitted = {} /\ Undoing = {} /\ full_flags = {}
  BY DEF Init, Owners, Permitted, Undoing, At
<1>2. Cardinality({}) = 0
  BY FS_EmptySet
<1>3. TypeOK
  BY DEF Init, TypeOK
<1>4. Spoken = 0 /\ Pending = 0 /\ nheld = 0
  BY <1>1, <1>2 DEF Init, Spoken, Pending
<1>5. FreeCount /\ NoOverclaim /\ Cardinality(Undoing) =< 1
  BY <1>1, <1>2, <1>4 DEF Init, FreeCount, NoOverclaim
<1>6. ClaimedSlots = {}
  BY <1>1 DEF ClaimedSlots
<1>7. RingShape
  BY <1>1, <1>3, <1>4, <1>6, Distances DEF RingShape, Ahead, Init
<1>8. SlotExclusion
  BY <1>1, <1>6 DEF SlotExclusion
<1> QED
  BY <1>3, <1>5, <1>7, <1>8 DEF IInv

LEMMA NextInvariant == IInv /\ [Next]_vars => IInv'
<1> SUFFICES ASSUME IInv, [Next]_vars PROVE IInv'
  OBVIOUS
<1>1. TypeOK /\ Counting /\ SlotExclusion /\ Ring
  BY DEF IInv, Counting, Ring, SlotExclusion
<1>2. TypeOK'
  BY <1>1, TypeStep DEF Counting
<1>3. Counting'
  BY <1>1, CountingStep
<1>4. Ring'
  BY <1>1, RingStep
<1>5. ((ClaimedSlots \cup full_flags) \cap HeldSlots = {})'
  <2>1. TypeOK' /\ NoOverclaim' /\ RingShape'
    BY <1>2, <1>3, <1>4 DEF Counting, Ring
  <2> QED
    BY <2>1, HeldApart, PTL
<1>6. SlotExclusion'
  BY <1>4, <1>5 DEF Ring, SlotExclusion
<1> QED
  BY <1>2, <1>3, <1>4, <1>6 DEF IInv, Counting, Ring

\* The invariant holds in every reachable state of every instance.
THEOREM Invariance == Spec => []IInv
  BY InitInvariant, NextInvariant, PTL DEF Spec

\* Types and bounds: in particular every slot index messageq.c computes is
\* inside the storage and the receiver never holds more than queue_len.
THEOREM TypeCorrect == Spec => []TypeOK
<1>1. IInv => TypeOK
  BY DEF IInv
<1> QED
  BY <1>1, Invariance, PTL

\* No slot ever has two users, for any number of senders and any depth to 32:
\* what messageq_claim returns is not in use by another sender, not waiting in
\* the queue and not in the receiver's hands.
THEOREM Exclusion == Spec => []SlotExclusion
<1>1. IInv => SlotExclusion
  BY DEF IInv
<1> QED
  BY <1>1, Invariance, PTL

-----------------------------------------------------------------------------
(* The queue implements Channel, when claims keep to the discipline of     *)
(* Spec.  A claim happens when its compare-and-exchange succeeds; filling  *)
(* the message, and whatever else a step does, is not seen by the          *)
(* channel's users.                                                        *)

USE NobodyAssumption

-----------------------------------------------------------------------------
(* The mapping, in terms of distances from receivep                        *)

PlaceSet == [owner : Senders \cup {Nobody}, val : Values \cup {Nobody}]

\* SlotAhead undoes Ahead.
LEMMA SlotAheadIs ==
    ASSUME TypeOK
    PROVE  /\ \A k \in 0 .. QueueLen - 1 : SlotAhead(k) \in Slots /\ Ahead(SlotAhead(k)) = k
           /\ \A i \in Slots : SlotAhead(Ahead(i)) = i
  BY DEF TypeOK, SlotAhead, Ahead

\* A slot that was sent shows its message, one that is claimed its owner.
Shown ==
    /\ \A i \in full_flags : PlaceOf(i) = [owner |-> Nobody, val |-> buf[i]]
    /\ \A s \in Owners : PlaceOf(ptr[s]) = [owner |-> s, val |-> Nobody]

LEMMA PlaceOfIs == SlotExclusion => Shown
<1> SUFFICES ASSUME SlotExclusion PROVE Shown
  OBVIOUS
<1>1. \A i \in full_flags : PlaceOf(i) = [owner |-> Nobody, val |-> buf[i]]
  BY DEF PlaceOf, OwnerOf
<1>2. ASSUME NEW s \in Owners PROVE PlaceOf(ptr[s]) = [owner |-> s, val |-> Nobody]
  <2>1. ptr[s] \notin full_flags
    BY DEF SlotExclusion, ClaimedSlots
  <2>2. OwnersOf(ptr[s]) = {s}
    BY DEF SlotExclusion, OwnersOf
  <2>3. OwnerOf(ptr[s]) = s
    BY <2>1, <2>2 DEF OwnerOf
  <2> QED
    BY <2>1, <2>3 DEF PlaceOf
<1> QED
  BY <1>1, <1>2 DEF Shown

\* The slots of the ring, and what is in them
InRing(k) ==
    LET i == SlotAhead(k - 1)
    IN  /\ i \in Slots /\ Ahead(i) = k - 1
        /\ \/ i \in full_flags /\ PlaceOf(i) = [owner |-> Nobody, val |-> buf[i]]
           \/ \E s \in Owners : ptr[s] = i /\ PlaceOf(i) = [owner |-> s, val |-> Nobody]

LEMMA RingIs ==
    IInv => /\ Pending \in Nat /\ nheld \in Nat /\ Pending + nheld =< QueueLen
            /\ \A k \in 1 .. Pending : InRing(k)
<1> SUFFICES ASSUME IInv
             PROVE  /\ Pending \in Nat /\ nheld \in Nat /\ Pending + nheld =< QueueLen
                    /\ \A k \in 1 .. Pending : InRing(k)
  OBVIOUS
<1>1. Pending \in Nat /\ nheld \in Nat /\ Pending + nheld =< QueueLen
  BY Sizes DEF IInv, Pending, NoOverclaim, Spoken, TypeOK
<1>2. ASSUME NEW k \in 1 .. Pending PROVE InRing(k)
  <2> DEFINE i == SlotAhead(k - 1)
  <2>1. k - 1 \in 0 .. QueueLen - 1 /\ k - 1 < Pending
    BY <1>1
  <2>2. i \in Slots /\ Ahead(i) = k - 1
    BY <2>1, SlotAheadIs DEF IInv
  <2> HIDE DEF i
  <2>3. i \in ClaimedSlots \cup full_flags
    BY <2>1, <2>2 DEF IInv, RingShape
  <2>4. /\ i \in full_flags => PlaceOf(i) = [owner |-> Nobody, val |-> buf[i]]
        /\ \A s \in Owners : ptr[s] = i => PlaceOf(i) = [owner |-> s, val |-> Nobody]
    BY PlaceOfIs DEF IInv, Shown
  <2>5. \/ i \in full_flags /\ PlaceOf(i) = [owner |-> Nobody, val |-> buf[i]]
        \/ \E s \in Owners : ptr[s] = i /\ PlaceOf(i) = [owner |-> s, val |-> Nobody]
    BY <2>3, <2>4 DEF ClaimedSlots
  <2> QED
    BY <2>2, <2>5 DEF InRing, i
<1> QED
  BY <1>1, <1>2

ChanIs ==
    /\ chanBar \in Seq(PlaceSet) /\ Len(chanBar) = Pending
    /\ \A k \in 1 .. Pending : chanBar[k] = PlaceOf(SlotAhead(k - 1))

LEMMA ChanBarIs == IInv => ChanIs
<1> SUFFICES ASSUME IInv PROVE ChanIs
  OBVIOUS
<1>1. Pending \in Nat /\ \A k \in 1 .. Pending : InRing(k)
  BY RingIs
<1>2. ASSUME NEW k \in 1 .. Pending PROVE PlaceOf(SlotAhead(k - 1)) \in PlaceSet
  <2> DEFINE i == SlotAhead(k - 1)
  <2>1. /\ i \in Slots
        /\ \/ PlaceOf(i) = [owner |-> Nobody, val |-> buf[i]]
           \/ \E s \in Owners : PlaceOf(i) = [owner |-> s, val |-> Nobody]
    BY <1>1 DEF InRing
  <2> HIDE DEF i
  <2>2. buf[i] \in Values /\ Owners \subseteq Senders
    BY <2>1 DEF IInv, TypeOK, Owners, At
  <2>3. PlaceOf(i) \in PlaceSet
    BY <2>1, <2>2 DEF PlaceSet
  <2> QED
    BY <2>3 DEF i
<1>3. chanBar \in [1 .. Pending -> PlaceSet]
  BY <1>2 DEF chanBar
<1>4. \A k \in 1 .. Pending : chanBar[k] = PlaceOf(SlotAhead(k - 1))
  BY DEF chanBar
<1> QED
  BY <1>1, <1>3, <1>4, FunctionSeq DEF ChanIs

HeldIs ==
    /\ heldBar \in Seq(Values) /\ Len(heldBar) = nheld
    /\ \A k \in 1 .. nheld : heldBar[k] = buf[Behind(nheld + 1 - k)]

LEMMA HeldBarIs == IInv => HeldIs
<1> SUFFICES ASSUME IInv PROVE HeldIs
  OBVIOUS
<1>1. nheld \in 0 .. QueueLen /\ buf \in [Slots -> Values]
  BY DEF IInv, TypeOK
<1>2. ASSUME NEW k \in 1 .. nheld PROVE buf[Behind(nheld + 1 - k)] \in Values
  <2>1. nheld + 1 - k \in 1 .. nheld
    BY <1>1
  <2>2. Behind(nheld + 1 - k) \in Slots
    BY <2>1, Distances DEF IInv
  <2> QED
    BY <1>1, <2>2
<1>3. heldBar \in [1 .. nheld -> Values] /\ nheld \in Nat
  BY <1>1, <1>2 DEF heldBar
<1>4. \A k \in 1 .. nheld : heldBar[k] = buf[Behind(nheld + 1 - k)]
  BY DEF heldBar
<1> QED
  BY <1>3, <1>4, FunctionSeq DEF HeldIs

\* The same facts after a step
LEMMA After ==
    ASSUME IInv'
    PROVE  /\ Pending' \in Nat /\ nheld' \in Nat /\ Pending' + nheld' =< QueueLen
           /\ \A k \in 1 .. Pending' : InRing(k)'
           /\ ChanIs' /\ HeldIs' /\ Shown'
<1>1. ChanIs' /\ HeldIs'
  BY ChanBarIs, HeldBarIs, PTL
<1>2. (/\ Pending \in Nat /\ nheld \in Nat /\ Pending + nheld =< QueueLen
       /\ \A k \in 1 .. Pending : InRing(k))'
  BY RingIs, PTL
<1>3. SlotExclusion'
  BY DEF IInv
<1>4. Shown'
  BY <1>3, PlaceOfIs, PTL
<1> QED
  BY <1>1, <1>2, <1>4

-----------------------------------------------------------------------------
(* Steps that the channel's users do not see                               *)

\* The ring's slots, senders and messages are the same.
LEMMA ChanSame ==
    ASSUME IInv, IInv', Owners' = Owners, \A s \in Owners : ptr'[s] = ptr[s],
           UNCHANGED <<full_flags, receivep>>, \A i \in full_flags : buf'[i] = buf[i]
    PROVE  chanBar' = chanBar
<1>1. Pending' = Pending /\ Pending \in Nat /\ \A k \in 1 .. Pending : InRing(k)
  BY RingIs DEF Pending
<1>2. ChanIs /\ ChanIs'
  BY ChanBarIs, After
<1>3. Shown'
  BY After
<1>4. ASSUME NEW k \in 1 .. Pending PROVE chanBar'[k] = chanBar[k]
  <2> DEFINE i == SlotAhead(k - 1)
  <2>1. i \in Slots /\ i' = i
    BY <1>1 DEF InRing, SlotAhead
  <2>2. \/ i \in full_flags /\ PlaceOf(i) = [owner |-> Nobody, val |-> buf[i]]
        \/ \E s \in Owners : ptr[s] = i /\ PlaceOf(i) = [owner |-> s, val |-> Nobody]
    BY <1>1 DEF InRing
  <2>3. chanBar[k] = PlaceOf(i) /\ chanBar'[k] = PlaceOf(i)'
    BY <1>1, <1>2 DEF ChanIs
  <2> HIDE DEF i
  <2>4. CASE i \in full_flags /\ PlaceOf(i) = [owner |-> Nobody, val |-> buf[i]]
    BY <1>3, <2>1, <2>3, <2>4 DEF Shown
  <2>5. ASSUME NEW s \in Owners, ptr[s] = i, PlaceOf(i) = [owner |-> s, val |-> Nobody]
        PROVE  PlaceOf(i)' = PlaceOf(i)
    <3>1. ptr'[s] = i' /\ s \in Owners'
      BY <2>1, <2>5
    <3> QED
      BY <1>3, <2>5, <3>1 DEF Shown
  <2> QED
    BY <2>2, <2>3, <2>4, <2>5
<1> QED
  BY <1>1, <1>2, <1>4, SeqEqual DEF ChanIs

LEMMA HeldSame ==
    ASSUME IInv, IInv', UNCHANGED <<receivep, nheld>>, \A i \in HeldSlots : buf'[i] = buf[i]
    PROVE  heldBar' = heldBar
<1>1. HeldIs /\ HeldIs' /\ nheld \in Nat
  BY HeldBarIs, After, RingIs
<1>2. ASSUME NEW k \in 1 .. nheld PROVE heldBar'[k] = heldBar[k]
  <2>1. nheld + 1 - k \in 1 .. nheld
    BY <1>1
  <2>2. /\ Behind(nheld + 1 - k)' = Behind(nheld + 1 - k)
        /\ Behind(nheld + 1 - k) \in HeldSlots
    BY <2>1 DEF Behind, HeldSlots
  <2> QED
    BY <1>1, <2>2 DEF HeldIs
<1> QED
  BY <1>1, <1>2, SeqEqual DEF HeldIs

LEMMA HiddenStep ==
    ASSUME IInv, IInv', NEW s \in Senders,
           ClaimFetchSub(s) \/ ClaimUndo(s) \/ ClaimLoad(s) \/ ClaimCasFail(s) \/ Fill(s)
    PROVE  UNCHANGED <<chanBar, heldBar>>
<1>1. Owners' = Owners
  <2>1. TypeOK
    BY DEF IInv
  <2>2. CASE ClaimCasFail(s)
    BY <2>2 DEF ClaimCasFail, Owners, At
  <2> QED
    BY <2>1, <2>2, EffectFetchSub, EffectUndo, EffectLoad, EffectFill DEF SameSets
<1>2. \A t \in Owners : ptr'[t] = ptr[t]
  BY DEF IInv, TypeOK, Owners, At, ClaimFetchSub, ClaimUndo, ClaimLoad, ClaimCasFail, Fill,
         shared
<1>3. UNCHANGED <<full_flags, receivep, nheld>>
  BY DEF ClaimFetchSub, ClaimUndo, ClaimLoad, ClaimCasFail, Fill, shared
<1>4. \A i \in full_flags \cup HeldSlots : buf'[i] = buf[i]
  <2>1. CASE Fill(s)
    <3>1. ptr[s] \in ClaimedSlots
      BY <2>1 DEF Fill, ClaimedSlots, Owners, At
    <3>2. \A i \in full_flags \cup HeldSlots : i # ptr[s]
      BY <3>1 DEF IInv, SlotExclusion
    <3>3. full_flags \cup HeldSlots \subseteq Slots
      <4>1. TypeOK /\ full_flags \subseteq Slots
        BY DEF IInv, TypeOK
      <4>2. \A k \in 1 .. nheld : Behind(k) \in Slots
        BY <4>1, Distances
      <4> QED
        BY <4>1, <4>2 DEF HeldSlots
    <3> QED
      BY <2>1, <3>2, <3>3 DEF Fill, IInv, TypeOK
  <2>2. CASE ~ Fill(s)
    BY <2>2 DEF ClaimFetchSub, ClaimUndo, ClaimLoad, ClaimCasFail, shared
  <2> QED
    BY <2>1, <2>2
<1> QED
  BY <1>1, <1>2, <1>3, <1>4, ChanSame, HeldSame

-----------------------------------------------------------------------------
(* Steps that they do see                                                  *)

\* Place k of the channel is the slot k - 1 ahead of receivep: its owner while
\* it is claimed, its message once it is sent.
ChanShows ==
    \A k \in 1 .. Pending :
        \E i \in Slots :
            /\ Ahead(i) = k - 1 /\ SlotAhead(k - 1) = i
            /\ i \in full_flags \/ \E s \in Owners : ptr[s] = i
            /\ i \in full_flags => chanBar[k] = Chan!Place(Nobody, buf[i])
            /\ \A s \in Owners : ptr[s] = i => chanBar[k] = Chan!Place(s, Nobody)

LEMMA ChanShowsIs == IInv => ChanShows
<1> SUFFICES ASSUME IInv, NEW k \in 1 .. Pending
             PROVE  \E i \in Slots :
                       /\ Ahead(i) = k - 1 /\ SlotAhead(k - 1) = i
                       /\ i \in full_flags \/ \E s \in Owners : ptr[s] = i
                       /\ i \in full_flags => chanBar[k] = Chan!Place(Nobody, buf[i])
                       /\ \A s \in Owners : ptr[s] = i => chanBar[k] = Chan!Place(s, Nobody)
  BY DEF ChanShows
<1> DEFINE i == SlotAhead(k - 1)
<1>1. /\ i \in Slots /\ Ahead(i) = k - 1
      /\ i \in full_flags \/ \E s \in Owners : ptr[s] = i
  BY RingIs DEF InRing
<1>2. chanBar[k] = PlaceOf(i)
  BY ChanBarIs DEF ChanIs
<1> HIDE DEF i
<1>3. /\ i \in full_flags => PlaceOf(i) = [owner |-> Nobody, val |-> buf[i]]
      /\ \A s \in Owners : ptr[s] = i => PlaceOf(i) = [owner |-> s, val |-> Nobody]
  BY PlaceOfIs DEF IInv, Shown
<1>4. /\ i \in full_flags => chanBar[k] = Chan!Place(Nobody, buf[i])
      /\ \A s \in Owners : ptr[s] = i => chanBar[k] = Chan!Place(s, Nobody)
  BY <1>2, <1>3 DEF Chan!Place
<1> QED
  BY <1>1, <1>4 DEF i

LEMMA ChanShowsAfter == IInv' => ChanShows'
  BY ChanShowsIs, PTL

\* A slot that keeps its message or its owner keeps its place in the channel.
LEMMA PlaceKept ==
    ASSUME IInv, IInv', NEW i \in Slots, NEW k \in 1 .. Pending, NEW j \in 1 .. Pending',
           SlotAhead(k - 1) = i, SlotAhead(j - 1)' = i,
           i \in full_flags => i \in full_flags' /\ buf'[i] = buf[i],
           \A s \in Owners : ptr[s] = i => s \in Owners' /\ ptr'[s] = i
    PROVE  chanBar'[j] = chanBar[k]
<1>1. /\ i \in full_flags \/ \E s \in Owners : ptr[s] = i
      /\ i \in full_flags => chanBar[k] = Chan!Place(Nobody, buf[i])
      /\ \A s \in Owners : ptr[s] = i => chanBar[k] = Chan!Place(s, Nobody)
  BY ChanShowsIs DEF ChanShows
<1>2. /\ i \in full_flags' => chanBar'[j] = Chan!Place(Nobody, buf'[i])
      /\ \A s \in Owners' : ptr'[s] = i => chanBar'[j] = Chan!Place(s, Nobody)
  BY ChanShowsAfter DEF ChanShows
<1>3. CASE i \in full_flags
  BY <1>1, <1>2, <1>3
<1>4. ASSUME NEW s \in Owners, ptr[s] = i PROVE chanBar'[j] = chanBar[k]
  BY <1>1, <1>2, <1>4
<1> QED
  BY <1>1, <1>3, <1>4

\* A compare-and-exchange that succeeds claims the next place.
LEMMA ClaimMaps ==
    ASSUME IInv, IInv', NEW s \in Senders, ClaimCasOk(s)
    PROVE  Chan!Claim(s)
<1>0. PICK n \in Nat : n = Pending
  BY RingIs
<1>1. /\ s \notin Owners /\ Owners' = Owners \cup {s}
      /\ full_flags' = full_flags /\ receivep' = receivep /\ ptr' = ptr /\ buf' = buf
      /\ nheld' = nheld /\ ptr[s] = sendp /\ sendp \in Slots
  BY EffectCasOk DEF ClaimCasOk, IInv, TypeOK
<1>2. Pending' = n + 1 /\ n + nheld < QueueLen /\ nheld \in Nat
  <2>1. /\ Cardinality(Owners') = Cardinality(Owners) + 1
        /\ Cardinality(Permitted) > 0
    BY EffectCasOk DEF IInv
  <2>2. Spoken =< QueueLen
    BY DEF IInv, NoOverclaim
  <2> QED
    BY <1>0, <1>1, <2>1, <2>2, Sizes, RingIs DEF Pending, Spoken, IInv
<1>3. SlotAhead(n) = sendp
  <2>1. Ahead(sendp) = n
    BY <1>0, <1>2 DEF IInv, RingShape
  <2> QED
    BY <1>1, <2>1, SlotAheadIs DEF IInv
<1>4. /\ chanBar \in Seq(PlaceSet) /\ Len(chanBar) = n
      /\ chanBar' \in Seq(PlaceSet) /\ Len(chanBar') = n + 1
      /\ heldBar \in Seq(Values) /\ Len(heldBar) = nheld
  BY <1>0, <1>2, ChanBarIs, HeldBarIs, After DEF ChanIs, HeldIs
<1>5. \A k \in Nat : SlotAhead(k)' = SlotAhead(k)
  BY <1>1 DEF SlotAhead
<1>6. ASSUME NEW k \in 1 .. n PROVE chanBar'[k] = chanBar[k]
  <2>1. k \in 1 .. Pending /\ k \in 1 .. Pending' /\ k - 1 \in Nat
    BY <1>0, <1>2
  <2>2. SlotAhead(k - 1) \in Slots
    BY <2>1, RingIs DEF InRing
  <2>3. PICK i \in Slots : i = SlotAhead(k - 1)
    BY <2>2
  <2>4. SlotAhead(k - 1)' = i
    BY <1>5, <2>1, <2>3
  <2> QED
    BY <1>1, <2>1, <2>3, <2>4, PlaceKept
<1>7. chanBar'[n + 1] = Chan!Place(s, Nobody)
  <2>1. n + 1 \in 1 .. Pending' /\ n + 1 - 1 = n
    BY <1>2
  <2>2. SlotAhead(n)' = ptr'[s] /\ s \in Owners'
    BY <1>1, <1>3, <1>5
  <2> QED
    BY <2>1, <2>2, ChanShowsAfter DEF ChanShows
<1>8. Chan!Place(s, Nobody) \in PlaceSet
  BY DEF Chan!Place, PlaceSet
<1>9. chanBar' = Append(chanBar, Chan!Place(s, Nobody))
  <2> DEFINE a == Append(chanBar, Chan!Place(s, Nobody))
  <2>1. /\ a \in Seq(PlaceSet) /\ Len(a) = n + 1
        /\ \A k \in 1 .. n : a[k] = chanBar[k]
        /\ a[n + 1] = Chan!Place(s, Nobody)
    BY <1>4, <1>8, AppendProperties
  <2> HIDE DEF a
  <2>2. \A k \in 1 .. n + 1 : k \in 1 .. n \/ k = n + 1
    OBVIOUS
  <2>3. \A k \in 1 .. n + 1 : chanBar'[k] = a[k]
    BY <1>6, <1>7, <2>1, <2>2
  <2>4. chanBar' = a
    BY <1>4, <2>1, <2>3, SeqEqual
  <2> QED
    BY <2>4 DEF a
<1>10. ~ Chan!Owns(s)
  <2>1. ASSUME NEW k \in 1 .. n PROVE chanBar[k].owner # s
    <3>1. \/ \E v \in Values : chanBar[k] = Chan!Place(Nobody, v)
          \/ \E t \in Owners : chanBar[k] = Chan!Place(t, Nobody)
      <4>1. buf \in [Slots -> Values]
        BY DEF IInv, TypeOK
      <4> QED
        BY <1>0, <4>1, ChanShowsIs DEF ChanShows
    <3>2. \A t, v : Chan!Place(t, v).owner = t
      BY DEF Chan!Place
    <3>3. chanBar[k].owner \in Owners \cup {Nobody}
      BY <3>1, <3>2
    <3> QED
      BY <1>1, <3>3
  <2> QED
    BY <1>4, <2>1 DEF Chan!Owns
<1>11. Chan!Room
  BY <1>2, <1>4 DEF Chan!Room
<1>12. heldBar' = heldBar
  BY <1>1, HeldSame
<1> QED
  BY <1>9, <1>10, <1>11, <1>12 DEF Chan!Claim

\* Sending a message shows it in its sender's place and nowhere else.
LEMMA SendMaps ==
    ASSUME IInv, IInv', NEW s \in Senders, Send(s)
    PROVE  \E v \in Values : Chan!Send(s, v)
<1>0. PICK n \in Nat : n = Pending
  BY RingIs
<1>1. /\ s \in Owners /\ Owners' = Owners \ {s} /\ ptr[s] \in Slots /\ ptr[s] \notin full_flags
      /\ full_flags' = full_flags \cup {ptr[s]}
      /\ receivep' = receivep /\ ptr' = ptr /\ buf' = buf /\ nheld' = nheld
  BY EffectSend DEF Send, IInv, TypeOK
<1>2. Pending' = n
  <2>1. /\ Cardinality(Owners') = Cardinality(Owners) - 1
        /\ Cardinality(full_flags') = Cardinality(full_flags) + 1
    BY EffectSend DEF IInv
  <2> QED
    BY <1>0, <2>1, Sizes DEF Pending, IInv
<1>3. /\ chanBar \in Seq(PlaceSet) /\ Len(chanBar) = n
      /\ chanBar' \in Seq(PlaceSet) /\ Len(chanBar') = n
  BY <1>0, <1>2, ChanBarIs, After DEF ChanIs
<1>4. PICK k \in 1 .. n : SlotAhead(k - 1) = ptr[s]
  <2>1. ptr[s] \in ClaimedSlots
    BY <1>1 DEF ClaimedSlots
  <2>2. Ahead(ptr[s]) \in Nat /\ Ahead(ptr[s]) < n
    BY <1>0, <1>1, <2>1, Distances DEF IInv, RingShape
  <2>3. SlotAhead(Ahead(ptr[s])) = ptr[s]
    BY <1>1, SlotAheadIs DEF IInv
  <2>4. PICK d \in Nat : d = Ahead(ptr[s])
    BY <2>2
  <2>5. d + 1 \in 1 .. n /\ SlotAhead(d + 1 - 1) = ptr[s]
    BY <2>2, <2>3, <2>4
  <2> QED
    BY <2>5
<1>5. \A j \in Nat : SlotAhead(j)' = SlotAhead(j)
  BY <1>1 DEF SlotAhead
<1>6. chanBar[k].owner = s
  <2>1. k \in 1 .. Pending
    BY <1>0
  <2>2. chanBar[k] = Chan!Place(s, Nobody)
    BY <1>1, <1>4, <2>1, ChanShowsIs DEF ChanShows
  <2>3. Chan!Place(s, Nobody).owner = s
    BY DEF Chan!Place
  <2> QED
    BY <2>2, <2>3
<1>7. chanBar'[k] = Chan!Place(Nobody, buf[ptr[s]])
  <2>1. k \in 1 .. Pending' /\ k - 1 \in Nat
    BY <1>2
  <2>2. SlotAhead(k - 1)' = ptr[s]
    BY <1>4, <1>5, <2>1
  <2> QED
    BY <1>1, <2>1, <2>2, ChanShowsAfter DEF ChanShows
<1>8. ASSUME NEW j \in 1 .. n, j # k PROVE chanBar'[j] = chanBar[j]
  <2>1. j \in 1 .. Pending /\ j \in 1 .. Pending' /\ j - 1 \in Nat
    BY <1>0, <1>2
  <2>2. SlotAhead(j - 1) \in Slots /\ Ahead(SlotAhead(j - 1)) = j - 1
    BY <2>1, RingIs DEF InRing
  <2>3. Ahead(ptr[s]) = k - 1
    BY <1>0, <1>4, RingIs DEF InRing
  <2>4. PICK i \in Slots : i = SlotAhead(j - 1) /\ i # ptr[s]
    BY <1>8, <2>2, <2>3
  <2>5. SlotAhead(j - 1)' = i
    BY <1>5, <2>1, <2>4
  <2> QED
    BY <1>1, <2>1, <2>4, <2>5, PlaceKept
<1>9. buf[ptr[s]] \in Values
  BY <1>1 DEF IInv, TypeOK
<1>10. chanBar' = [chanBar EXCEPT ![k] = Chan!Place(Nobody, buf[ptr[s]])]
  <2> DEFINE a == [chanBar EXCEPT ![k] = Chan!Place(Nobody, buf[ptr[s]])]
  <2>1. Chan!Place(Nobody, buf[ptr[s]]) \in PlaceSet
    BY <1>9 DEF Chan!Place, PlaceSet
  <2>2. /\ a \in Seq(PlaceSet) /\ Len(a) = n
        /\ \A j \in 1 .. n :
              a[j] = IF j = k THEN Chan!Place(Nobody, buf[ptr[s]]) ELSE chanBar[j]
    BY <1>3, <2>1, ExceptSeq
  <2> HIDE DEF a
  <2>3. \A j \in 1 .. n : chanBar'[j] = a[j]
    BY <1>7, <1>8, <2>2
  <2>4. chanBar' = a
    BY <1>3, <2>2, <2>3, SeqEqual
  <2> QED
    BY <2>4 DEF a
<1>11. heldBar' = heldBar
  BY <1>1, HeldSame
<1>12. Chan!Send(s, buf[ptr[s]])
  BY <1>3, <1>6, <1>10, <1>11 DEF Chan!Send
<1> QED
  BY <1>9, <1>12

\* Receiving takes the first place, and its message is the newest one held.
LEMMA ReceiveMaps ==
    ASSUME IInv, IInv', Receive
    PROVE  Chan!Receive
<1>0. PICK n \in Nat, h \in Nat : n = Pending /\ h = nheld /\ n + h =< QueueLen
  BY RingIs
<1>1. /\ receivep \in full_flags /\ receivep \in Slots
      /\ full_flags' = full_flags \ {receivep} /\ receivep' = Advance(receivep)
      /\ Owners' = Owners /\ ptr' = ptr /\ buf' = buf /\ nheld' = h + 1
  BY <1>0, EffectReceive DEF Receive, IInv, TypeOK, SameSets
<1>2. Pending' = n - 1 /\ n >= 1
  <2>1. /\ Cardinality(full_flags) > 0 /\ Cardinality(full_flags') = Cardinality(full_flags) - 1
    BY EffectReceive DEF IInv
  <2> QED
    BY <1>0, <1>1, <2>1, Sizes DEF Pending, IInv
<1>3. /\ chanBar \in Seq(PlaceSet) /\ Len(chanBar) = n
      /\ chanBar' \in Seq(PlaceSet) /\ Len(chanBar') = n - 1
  BY <1>0, <1>2, ChanBarIs, After DEF ChanIs
<1>4. /\ heldBar \in Seq(Values) /\ Len(heldBar) = h
      /\ \A k \in 1 .. h : heldBar[k] = buf[Behind(h + 1 - k)]
  BY <1>0, HeldBarIs DEF HeldIs
<1>5. /\ heldBar' \in Seq(Values) /\ Len(heldBar') = h + 1
      /\ \A k \in 1 .. h + 1 : heldBar'[k] = buf[Behind(h + 1 + 1 - k)']
  BY <1>1, After DEF HeldIs
<1>6. chanBar[1] = Chan!Place(Nobody, buf[receivep])
  <2>1. SlotAhead(1 - 1) = receivep /\ 1 \in 1 .. Pending
    BY <1>0, <1>1, <1>2 DEF SlotAhead
  <2> QED
    BY <1>1, <2>1, ChanShowsIs DEF ChanShows
<1>7. chanBar # <<>> /\ Head(chanBar) = Chan!Place(Nobody, buf[receivep])
  BY <1>2, <1>3, <1>6
<1>8. chanBar' = Tail(chanBar)
  <2>1. /\ Tail(chanBar) \in Seq(PlaceSet) /\ Len(Tail(chanBar)) = n - 1
        /\ \A k \in 1 .. n - 1 : Tail(chanBar)[k] = chanBar[k + 1]
    BY <1>3, <1>7, HeadTailProperties
  <2>2. ASSUME NEW k \in 1 .. n - 1 PROVE chanBar'[k] = chanBar[k + 1]
    <3>1. /\ k + 1 \in 1 .. Pending /\ k \in 1 .. Pending'
          /\ k + 1 - 1 = k /\ k \in 1 .. QueueLen - 1
      BY <1>0, <1>2
    <3>2. SlotAhead(k) \in Slots /\ Ahead(SlotAhead(k)) = k
      BY <3>1, SlotAheadIs DEF IInv
    <3>3. Ahead(receivep) = 0
      BY <1>1 DEF Ahead
    <3>4. PICK i \in Slots : i = SlotAhead(k) /\ i # receivep
      BY <3>1, <3>2, <3>3
    <3>5. SlotAhead(k - 1)' = i
      BY <1>1, <3>1, <3>4 DEF SlotAhead, Advance
    <3>6. SlotAhead(k + 1 - 1) = i
      BY <3>1, <3>4
    <3>7. i \in full_flags => i \in full_flags' /\ buf'[i] = buf[i]
      BY <1>1, <3>4
    <3>8. \A t \in Owners : ptr[t] = i => t \in Owners' /\ ptr'[t] = i
      BY <1>1
    <3> QED
      BY <3>1, <3>5, <3>6, <3>7, <3>8, PlaceKept
  <2>3. \A k \in 1 .. n - 1 : chanBar'[k] = Tail(chanBar)[k]
    BY <2>1, <2>2
  <2> QED
    BY <1>3, <2>1, <2>3, SeqEqual
<1>9. heldBar' = Append(heldBar, buf[receivep])
  <2> DEFINE a == Append(heldBar, buf[receivep])
  <2>1. buf[receivep] \in Values
    BY <1>1 DEF IInv, TypeOK
  <2>2. /\ a \in Seq(Values) /\ Len(a) = h + 1
        /\ \A k \in 1 .. h : a[k] = heldBar[k]
        /\ a[h + 1] = buf[receivep]
    BY <1>4, <2>1, AppendProperties
  <2> HIDE DEF a
  <2>3. Behind(1)' = receivep
    BY <1>1 DEF Behind, Advance
  <2>4. heldBar'[h + 1] = buf[receivep]
    <3>1. h + 1 \in 1 .. h + 1 /\ h + 1 + 1 - (h + 1) = 1
      OBVIOUS
    <3> QED
      BY <1>5, <2>3, <3>1
  <2>5. ASSUME NEW k \in 1 .. h PROVE heldBar'[k] = heldBar[k]
    <3>1. h + 1 - k \in 1 .. QueueLen - 1 /\ k \in 1 .. h + 1
      BY <1>0, <1>2
    <3>2. Behind(h + 1 + 1 - k)' = Behind(h + 1 - k)
      BY <1>1, <3>1 DEF Behind, Advance
    <3> QED
      BY <1>4, <1>5, <3>1, <3>2
  <2>6. \A k \in 1 .. h + 1 : k \in 1 .. h \/ k = h + 1
    OBVIOUS
  <2>7. \A k \in 1 .. h + 1 : heldBar'[k] = a[k]
    BY <2>2, <2>4, <2>5, <2>6
  <2>8. heldBar' = a
    BY <1>5, <2>2, <2>7, SeqEqual
  <2> QED
    BY <2>8 DEF a
<1>10. /\ Chan!Place(Nobody, buf[receivep]).owner = Nobody
       /\ Chan!Place(Nobody, buf[receivep]).val = buf[receivep]
  BY DEF Chan!Place
<1> QED
  BY <1>7, <1>8, <1>9, <1>10 DEF Chan!Receive, Chan!Ready

\* Releasing gives back the oldest message held, whichever one is passed.
LEMMA ReleaseMaps ==
    ASSUME IInv, IInv', Release
    PROVE  Chan!Release
<1>0. PICK h \in Nat : h = nheld /\ h >= 1 /\ h =< QueueLen
  BY RingIs DEF Release
<1>1. /\ full_flags' = full_flags /\ receivep' = receivep /\ receivep \in Slots
      /\ Owners' = Owners /\ ptr' = ptr /\ buf' = buf /\ nheld' = h - 1
  BY <1>0 DEF Release, IInv, TypeOK, Owners, At
<1>2. /\ heldBar \in Seq(Values) /\ Len(heldBar) = h
      /\ \A k \in 1 .. h : heldBar[k] = buf[Behind(h + 1 - k)]
  BY <1>0, HeldBarIs DEF HeldIs
<1>3. /\ heldBar' \in Seq(Values) /\ Len(heldBar') = h - 1
      /\ \A k \in 1 .. h - 1 : heldBar'[k] = buf[Behind(h - 1 + 1 - k)']
  BY <1>1, After DEF HeldIs
<1>4. heldBar # <<>>
  BY <1>0, <1>2
<1>5. heldBar' = Tail(heldBar)
  <2>1. /\ Tail(heldBar) \in Seq(Values) /\ Len(Tail(heldBar)) = h - 1
        /\ \A k \in 1 .. h - 1 : Tail(heldBar)[k] = heldBar[k + 1]
    BY <1>2, <1>4, HeadTailProperties
  <2>2. ASSUME NEW k \in 1 .. h - 1 PROVE heldBar'[k] = heldBar[k + 1]
    <3>1. PICK d \in Nat : d = h + 1 - (k + 1) /\ d = h - 1 + 1 - k
      BY <1>0
    <3>2. k + 1 \in 1 .. h
      BY <1>0
    <3>3. heldBar[k + 1] = buf[Behind(d)]
      BY <1>2, <3>1, <3>2
    <3>4. heldBar'[k] = buf[Behind(d)']
      BY <1>3, <3>1
    <3>5. Behind(d)' = Behind(d)
      BY <1>1 DEF Behind
    <3> QED
      BY <3>3, <3>4, <3>5
  <2>3. \A k \in 1 .. h - 1 : heldBar'[k] = Tail(heldBar)[k]
    BY <2>1, <2>2
  <2> QED
    BY <1>2, <1>3, <2>1, <2>3, SeqEqual
<1>6. chanBar' = chanBar
  BY <1>1, ChanSame
<1> QED
  BY <1>4, <1>5, <1>6 DEF Chan!Release

-----------------------------------------------------------------------------

LEMMA ChannelInit == Init => Chan!Init
<1> SUFFICES ASSUME Init PROVE Chan!Init
  OBVIOUS
<1>1. IInv
  BY InitInvariant
<1>2. Owners = {} /\ full_flags = {} /\ nheld = 0
  BY DEF Init, Owners, At
<1>3. Pending = 0
  BY <1>2, FS_EmptySet DEF Pending
<1>4. /\ chanBar \in Seq(PlaceSet) /\ Len(chanBar) = 0
      /\ heldBar \in Seq(Values) /\ Len(heldBar) = 0
  BY <1>1, <1>2, <1>3, ChanBarIs, HeldBarIs DEF ChanIs, HeldIs
<1> QED
  BY <1>4, EmptySeq DEF Chan!Init

\* A step of the lock-free queue is a step of the channel, or none.
LEMMA ChannelSimulates == IInv /\ IInv' /\ [Next]_vars => [Chan!Next]_(Chan!cvars)
<1> SUFFICES ASSUME IInv, IInv', [Next]_vars PROVE [Chan!Next]_(Chan!cvars)
  OBVIOUS
<1>1. ASSUME NEW s \in Senders,
             ClaimFetchSub(s) \/ ClaimUndo(s) \/ ClaimLoad(s) \/ ClaimCasFail(s) \/ Fill(s)
      PROVE  UNCHANGED Chan!cvars
  BY <1>1, HiddenStep DEF Chan!cvars
<1>2. ASSUME NEW s \in Senders, ClaimCasOk(s) PROVE Chan!Next
  BY <1>2, ClaimMaps DEF Chan!Next
<1>3. ASSUME NEW s \in Senders, Send(s) PROVE Chan!Next
  BY <1>3, SendMaps DEF Chan!Next
<1>4. CASE Receive
  BY <1>4, ReceiveMaps DEF Chan!Next
<1>5. CASE Release
  BY <1>5, ReleaseMaps DEF Chan!Next
<1>6. CASE UNCHANGED vars
  <2>1. Owners' = Owners
    BY <1>6 DEF vars, Owners, At
  <2>2. UNCHANGED <<full_flags, receivep, buf, ptr, nheld>>
    BY <1>6 DEF vars, shared
  <2> QED
    BY <2>1, <2>2, ChanSame, HeldSame DEF Chan!cvars
<1> QED
  BY <1>1, <1>2, <1>3, <1>4, <1>5, <1>6 DEF Next, Others, SenderStep

\* The lock-free queue is a bounded channel, for every number of senders, every
\* set of messages and every depth to 32: whatever the interleaving of claims,
\* retries and sends, messages arrive once each, in the order the slots were
\* claimed, as their senders filled them, and none is overwritten while held.
THEOREM QueueIsChannel == Spec => ImplementsChannel
  BY ChannelInit, Invariance, ChannelSimulates, PTL DEF Spec, ImplementsChannel, Chan!Spec
=============================================================================
