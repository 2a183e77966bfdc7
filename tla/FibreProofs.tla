----------------------------- MODULE FibreProofs -----------------------------
(***************************************************************************)
(* Machine-checked proofs about the scheduler of Fibre, for every number   *)
(* of fibres and interrupt handlers, every length of atomic_runq and every *)
(* choice of services: types, the one link of a fibre, the discipline of   *)
(* the recursive drain, what a restarted fibre and one that waits its turn *)
(* may expect, and the timers across a wrap of the clock.                  *)
(***************************************************************************)
EXTENDS Fibre, ListProofs

USE FibreAssumption

Timers == [fibre : Fibres, due : Ticks]
Users == Irqs \cup {Main}
Places == [owner : Users \cup {None}, val : Fibres \cup {None}]

\* What a call remembers is there when it is needed.
Calling ==
    /\ pc = "send" => call.op = "atomic" /\ call.fibre \in Fibres
    /\ call.op \in {"run", "kill"} => call.fibre \in Fibres
    /\ call.op = "yield" => current \in Fibres
    /\ pc = "body" \/ call.back = "body" => current \in Fibres
    /\ pc \in {"idle", "body", "wakeup"} => call = NoCall

\* A message that was sent is a fibre.
Messages == \A i \in 1 .. Len(chan) : chan[i].owner = None => chan[i].val \in Fibres

Inv == TypeOK /\ Calling /\ Messages /\ OneLink /\ DrainDiscipline

\* fibre_init leaves both queues empty.
LEMMA FibreInit == Init => Inv
<1> SUFFICES ASSUME Init PROVE Inv
  OBVIOUS
<1> USE DEF Init, AQ!Init
<1>1. TypeOK
  BY DEF TypeOK, NoCall, Returned, Ticks
<1>2. Calling /\ Messages
  BY DEF Calling, Messages, NoCall
<1>3. OneLink
  BY DEF OneLink
<1>4. DrainDiscipline
  BY DEF DrainDiscipline
<1> QED
  BY <1>1, <1>2, <1>3, <1>4 DEF Inv

-----------------------------------------------------------------------------
(* The two queues: what operations leave on them                           *)

\* The parts of OneLink
OnceRunnable(q) == \A i, j \in 1 .. Len(q) : q[i] = q[j] => i = j
OnceTimed(q) == \A i, j \in 1 .. Len(q) : q[i].fibre = q[j].fibre => i = j
Apart(r, q) == \A i \in 1 .. Len(r), j \in 1 .. Len(q) : r[i] # q[j].fibre

\* OneLink is the three facts that queue operations keep.
LEMMA Parts == OneLink <=> OnceRunnable(runq) /\ OnceTimed(timerq) /\ Apart(runq, timerq)
  BY DEF OneLink, OnceRunnable, OnceTimed, Apart

\* A list that is the other one with some nodes taken out, in the same order
Thins(q, l) ==
    /\ Len(q) =< Len(l)
    /\ \E m \in [1 .. Len(q) -> 1 .. Len(l)] :
          /\ \A i, j \in 1 .. Len(q) : i < j => m[i] < m[j]
          /\ \A i \in 1 .. Len(q) : q[i] = l[m[i]]

\* What is on both lists is no further from the head on q than on l.
NoFurther(q, l) == \A i \in 1 .. Len(q), j \in 1 .. Len(l) : q[i] = l[j] => i =< j

\* Taking nothing out
LEMMA ThinsSelf ==
    ASSUME NEW T, NEW l \in Seq(T)
    PROVE  Thins(l, l)
<1> DEFINE m == [i \in 1 .. Len(l) |-> i]
<1>1. /\ m \in [1 .. Len(l) -> 1 .. Len(l)]
      /\ \A i, j \in 1 .. Len(l) : i < j => m[i] < m[j]
      /\ \A i \in 1 .. Len(l) : l[i] = l[m[i]]
  OBVIOUS
<1>2. Len(l) =< Len(l)
  OBVIOUS
<1> HIDE DEF m
<1> QED
  BY <1>1, <1>2 DEF Thins

\* Taking one node out
LEMMA ThinsDropAt ==
    ASSUME NEW T, NEW l \in Seq(T), NEW i \in 1 .. Len(l)
    PROVE  Thins(DropAt(l, i), l)
<1> DEFINE q == DropAt(l, i)
           m == [k \in 1 .. Len(q) |-> IF k < i THEN k ELSE k + 1]
<1>1. /\ Len(q) = Len(l) - 1
      /\ \A k \in 1 .. Len(l) - 1 : q[k] = IF k < i THEN l[k] ELSE l[k + 1]
  BY DropAtIs
<1> HIDE DEF q
<1>2. m \in [1 .. Len(q) -> 1 .. Len(l)]
  BY <1>1
<1>3. \A k \in 1 .. Len(q) : q[k] = l[m[k]]
  BY <1>1
<1>4. \A k, n \in 1 .. Len(q) : k < n => m[k] < m[n]
  BY <1>1
<1>5. Len(q) =< Len(l)
  BY <1>1
<1> HIDE DEF m
<1>6. Thins(q, l)
  BY <1>2, <1>3, <1>4, <1>5 DEF Thins
<1> QED
  BY <1>6 DEF q

\* What holds of a list still holds when nodes are taken out.
LEMMA Thinned ==
    ASSUME NEW T, NEW l \in Seq(T), NEW q \in Seq(T), Thins(q, l)
    PROVE  /\ OnceRunnable(l) => OnceRunnable(q)
           /\ OnceTimed(l) => OnceTimed(q)
           /\ \A r : Apart(r, l) => Apart(r, q)
           /\ \A r : Apart(l, r) => Apart(q, r)
<1>1. PICK m \in [1 .. Len(q) -> 1 .. Len(l)] :
         /\ \A i, j \in 1 .. Len(q) : i < j => m[i] < m[j]
         /\ \A i \in 1 .. Len(q) : q[i] = l[m[i]]
  BY DEF Thins
<1>2. \A i, j \in 1 .. Len(q) : m[i] = m[j] => i = j
  <2> TAKE i, j \in 1 .. Len(q)
  <2>1. i < j \/ j < i \/ i = j
    OBVIOUS
  <2>2. m[i] \in Int /\ m[j] \in Int
    OBVIOUS
  <2> QED
    BY <1>1, <2>1, <2>2
<1>3. \A i \in 1 .. Len(q) : m[i] \in 1 .. Len(l) /\ q[i] = l[m[i]]
  BY <1>1
<1>4. OnceRunnable(l) => OnceRunnable(q)
  BY <1>2, <1>3 DEF OnceRunnable
<1>5. OnceTimed(l) => OnceTimed(q)
  BY <1>2, <1>3 DEF OnceTimed
<1>6. ASSUME NEW r, Apart(r, l) PROVE Apart(r, q)
  <2> SUFFICES ASSUME NEW i \in 1 .. Len(r), NEW j \in 1 .. Len(q)
               PROVE  r[i] # q[j].fibre
    BY DEF Apart
  <2>1. m[j] \in 1 .. Len(l) /\ q[j] = l[m[j]]
    BY <1>3
  <2> QED
    BY <1>6, <2>1 DEF Apart
<1>7. ASSUME NEW r, Apart(l, r) PROVE Apart(q, r)
  <2> SUFFICES ASSUME NEW i \in 1 .. Len(q), NEW j \in 1 .. Len(r)
               PROVE  q[i] # r[j].fibre
    BY DEF Apart
  <2>1. m[i] \in 1 .. Len(l) /\ q[i] = l[m[i]]
    BY <1>3
  <2> QED
    BY <1>7, <2>1 DEF Apart
<1> QED
  BY <1>4, <1>5, <1>6, <1>7

\* list_remove from the timer queue, whether the fibre is there or not
LEMMA OffTimerqIs ==
    ASSUME timerq \in Seq(Timers), OnceTimed(timerq), NEW f
    PROVE  /\ OffTimerq(f) \in Seq(Timers)
           /\ Thins(OffTimerq(f), timerq)
           /\ \A k \in 1 .. Len(OffTimerq(f)) : OffTimerq(f)[k].fibre # f
<1>1. CASE ~ OnTimerq(f)
  <2>1. OffTimerq(f) = timerq
    BY <1>1 DEF OffTimerq, OnTimerq, Remove
  <2>2. \A k \in 1 .. Len(timerq) : timerq[k].fibre # f
    BY <1>1 DEF OnTimerq, Contains
  <2> QED
    BY <2>1, <2>2, ThinsSelf
<1>2. CASE OnTimerq(f)
  <2> DEFINE i == First(timerq, LAMBDA x : x.fibre = f)
  <2>1. PICK k \in 1 .. Len(timerq) : timerq[k].fibre = f
    BY <1>2 DEF OnTimerq, Contains
  <2>2. \A j \in 1 .. k - 1 : j \in 1 .. Len(timerq) /\ timerq[j].fibre # f
    BY <2>1 DEF OnceTimed
  <2>3. i \in 1 .. Len(timerq) /\ timerq[i].fibre = f
    BY <2>1, <2>2 DEF First
  <2>4. OffTimerq(f) = DropAt(timerq, i)
    BY <1>2 DEF OffTimerq, OnTimerq, Remove
  <2> HIDE DEF i
  <2>5. /\ DropAt(timerq, i) \in Seq(Timers)
        /\ Len(DropAt(timerq, i)) = Len(timerq) - 1
        /\ \A n \in 1 .. Len(timerq) - 1 :
              DropAt(timerq, i)[n] = IF n < i THEN timerq[n] ELSE timerq[n + 1]
    BY <2>3, DropAtIs
  <2>6. ASSUME NEW n \in 1 .. Len(timerq) - 1
        PROVE  DropAt(timerq, i)[n].fibre # f
    <3>1. \A j \in 1 .. Len(timerq) : j # i => timerq[j].fibre # f
      BY <2>3 DEF OnceTimed
    <3> QED
      BY <2>3, <2>5, <3>1
  <2>7. Thins(DropAt(timerq, i), timerq)
    BY <2>3, ThinsDropAt
  <2> QED
    BY <2>4, <2>5, <2>6, <2>7
<1> QED
  BY <1>1, <1>2

\* ... and from the run queue
LEMMA OffRunqIs ==
    ASSUME runq \in Seq(Fibres), OnceRunnable(runq), NEW f
    PROVE  /\ OffRunq(f) \in Seq(Fibres) /\ Thins(OffRunq(f), runq)
           /\ NoFurther(OffRunq(f), runq)
<1>1. CASE ~ OnRunq(f)
  <2>1. OffRunq(f) = runq
    BY <1>1 DEF OffRunq, OnRunq, Remove
  <2>2. NoFurther(runq, runq)
    BY DEF NoFurther, OnceRunnable
  <2> QED
    BY <2>1, <2>2, ThinsSelf
<1>2. CASE OnRunq(f)
  <2> DEFINE i == First(runq, LAMBDA x : x = f)
  <2>1. PICK k \in 1 .. Len(runq) : runq[k] = f
    BY <1>2 DEF OnRunq, Contains
  <2>2. \A j \in 1 .. k - 1 : j \in 1 .. Len(runq) /\ runq[j] # f
    BY <2>1 DEF OnceRunnable
  <2>3. i \in 1 .. Len(runq)
    BY <2>1, <2>2 DEF First
  <2>4. OffRunq(f) = DropAt(runq, i)
    BY <1>2 DEF OffRunq, OnRunq, Remove
  <2> HIDE DEF i
  <2>5. NoFurther(DropAt(runq, i), runq)
    <3> SUFFICES ASSUME NEW a \in 1 .. Len(runq) - 1, NEW b \in 1 .. Len(runq),
                        DropAt(runq, i)[a] = runq[b]
                 PROVE  a =< b
      BY <2>3, DropAtIs DEF NoFurther
    <3>1. runq[IF a < i THEN a ELSE a + 1] = runq[b]
      BY <2>3, DropAtIs
    <3>2. (IF a < i THEN a ELSE a + 1) \in 1 .. Len(runq)
      OBVIOUS
    <3>3. (IF a < i THEN a ELSE a + 1) = b
      BY <3>1, <3>2 DEF OnceRunnable
    <3> QED
      BY <2>3, <3>3
  <2> QED
    BY <2>3, <2>4, <2>5, DropAtIs, ThinsDropAt
<1> QED
  BY <1>1, <1>2

\* The end of fibre_run
LEMMA MakeRunnableIs ==
    ASSUME runq \in Seq(Fibres), timerq \in Seq(Timers), OneLink,
           NEW f \in Fibres, MakeRunnable(f)
    PROVE  /\ runq' \in Seq(Fibres) /\ timerq' \in Seq(Timers)
           /\ Thins(timerq', timerq)
           /\ OneLink'
           /\ NoFurther(runq', runq)
<1>1. CASE OnRunq(f)
  <2>1. runq' = runq /\ timerq' = timerq
    BY <1>1 DEF MakeRunnable, queues
  <2>2. NoFurther(runq', runq)
    BY <2>1 DEF OneLink, NoFurther
  <2> QED
    BY <2>1, <2>2, ThinsSelf DEF OneLink
<1>2. CASE ~ OnRunq(f)
  <2>1. timerq' = OffTimerq(f) /\ runq' = Append(runq, f)
    BY <1>2 DEF MakeRunnable, Insert
  <2>2. /\ timerq' \in Seq(Timers) /\ Thins(timerq', timerq)
        /\ \A k \in 1 .. Len(timerq') : timerq'[k].fibre # f
    BY <2>1, OffTimerqIs, Parts
  <2>3. /\ runq' \in Seq(Fibres) /\ Len(runq') = Len(runq) + 1
        /\ \A i \in 1 .. Len(runq) : runq'[i] = runq[i]
        /\ runq'[Len(runq) + 1] = f
    BY <2>1, AppendProperties
  <2>4. \A i \in 1 .. Len(runq) : runq[i] # f
    BY <1>2 DEF OnRunq, Contains
  <2>5. OnceTimed(timerq') /\ Apart(runq, timerq')
    BY <2>2, Thinned, Parts
  <2>6. OnceRunnable(runq')
    BY <2>3, <2>4, Parts DEF OnceRunnable
  <2>7. Apart(runq', timerq')
    BY <2>2, <2>3, <2>5 DEF Apart
  <2>8. OneLink'
    BY <2>5, <2>6, <2>7 DEF OneLink, OnceRunnable, OnceTimed, Apart
  <2>9. NoFurther(runq', runq)
    <3> SUFFICES ASSUME NEW i \in 1 .. Len(runq) + 1, NEW j \in 1 .. Len(runq),
                        runq'[i] = runq[j]
                 PROVE  i =< j
      BY <2>3 DEF NoFurther
    <3>1. i # Len(runq) + 1
      BY <2>3, <2>4
    <3>2. Len(runq) \in Nat
      BY LenProperties
    <3>3. i \in 1 .. Len(runq)
      BY <3>1, <3>2
    <3>4. runq[i] = runq[j]
      BY <2>3, <3>3
    <3>5. i = j
      BY <3>3, <3>4 DEF OneLink
    <3> QED
      BY <3>2, <3>5
  <2> QED
    BY <2>2, <2>3, <2>8, <2>9
<1> QED
  BY <1>1, <1>2

\* handle_timerq takes the timers up to the first one whose time has not come.
LEMMA ExpiredIs ==
    ASSUME timerq \in Seq(Timers)
    PROVE  /\ Expired \in 0 .. Len(timerq)
           /\ \A i \in 1 .. Expired : Due(timerq[i])
           /\ Expired < Len(timerq) => ~ Due(timerq[Expired + 1])
<1> DEFINE Ends == {n \in 0 .. Len(timerq) : n = Len(timerq) \/ ~ Due(timerq[n + 1])}
<1>1. Len(timerq) \in Ends /\ Ends \subseteq Nat
  OBVIOUS
<1>2. PICK n \in Ends : \A k \in Ends : n =< k
  BY <1>1, Least
<1>3. n \in 0 .. Len(timerq) /\ (n < Len(timerq) => ~ Due(timerq[n + 1]))
  OBVIOUS
<1>4. ASSUME NEW i \in 1 .. n PROVE Due(timerq[i])
  <2>1. i - 1 \in 0 .. Len(timerq) /\ i - 1 # Len(timerq) /\ i - 1 < n /\ i - 1 + 1 = i
    BY <1>3
  <2>2. ASSUME i - 1 \in Ends PROVE FALSE
    <3> HIDE DEF Ends
    <3> QED
      BY <1>2, <1>3, <2>1, <2>2
  <2> QED
    BY <2>1, <2>2
<1> QED
  BY <1>3, <1>4 DEF Expired

\* handle_timerq and get_next_task: timers move from one queue to the other, and the
\* fibre that runs is on neither.
LEMMA DispatchIs ==
    ASSUME runq \in Seq(Fibres), timerq \in Seq(Timers), OneLink, Dispatch
    PROVE  /\ runq' \in Seq(Fibres) /\ timerq' \in Seq(Timers)
           /\ current' \in Fibres \cup {None} /\ (pc' = "body" => current' \in Fibres)
           /\ Len(timerq') = Len(timerq) - Expired
           /\ \A i \in 1 .. Len(timerq') : timerq'[i] = timerq[Expired + i]
           /\ OneLink'
           /\ NoFurther(runq', runq)
<1> DEFINE n == Expired
           due == [i \in 1 .. n |-> timerq[i].fibre]
           ready == runq \o due
<1>1. n \in 0 .. Len(timerq)
  BY ExpiredIs
<1>2. /\ timerq' = SubSeq(timerq, n + 1, Len(timerq))
      /\ IF ready = <<>> THEN current' = None /\ runq' = <<>> /\ pc' = "wakeup"
         ELSE current' = Head(ready) /\ runq' = Tail(ready) /\ pc' = "body"
  BY DEF Dispatch
<1> HIDE DEF n
<1>3. due \in Seq(Fibres) /\ Len(due) = n
      /\ \A i \in 1 .. n : due[i] = timerq[i].fibre
  <2>1. due \in [1 .. n -> Fibres]
    <3> SUFFICES ASSUME NEW i \in 1 .. n PROVE timerq[i].fibre \in Fibres
      OBVIOUS
    <3>1. timerq[i] \in Timers
      BY <1>1, ElementOfSeq
    <3> QED
      BY <3>1 DEF Timers
  <2> QED
    BY <1>1, <2>1, FunctionSeq
<1> HIDE DEF due
<1>4. /\ ready \in Seq(Fibres) /\ Len(ready) = Len(runq) + n
      /\ \A i \in 1 .. Len(runq) + n :
            ready[i] = IF i =< Len(runq) THEN runq[i] ELSE due[i - Len(runq)]
  BY <1>3, ConcatProperties
<1>5. /\ timerq' \in Seq(Timers) /\ Len(timerq') = Len(timerq) - n
      /\ \A i \in 1 .. Len(timerq') : timerq'[i] = timerq[n + i]
  <2>1. \A i \in n + 1 .. Len(timerq) : timerq[i] \in Timers
    BY <1>1, ElementOfSeq
  <2> QED
    BY <1>1, <1>2, <2>1, SubSeqProperties
<1> HIDE DEF ready
<1>6. OnceRunnable(ready)
  <2> SUFFICES ASSUME NEW i \in 1 .. Len(ready), NEW j \in 1 .. Len(ready),
                      ready[i] = ready[j]
               PROVE  i = j
    BY DEF OnceRunnable
  <2>1. CASE i =< Len(runq) /\ j =< Len(runq)
    BY <1>4, <2>1 DEF OneLink
  <2>2. CASE i > Len(runq) /\ j > Len(runq)
    <3>1. /\ i - Len(runq) \in 1 .. n /\ j - Len(runq) \in 1 .. n
          /\ ready[i] = due[i - Len(runq)] /\ ready[j] = due[j - Len(runq)]
      BY <1>1, <1>4, <2>2
    <3>2. \A a, b \in 1 .. n : due[a] = due[b] => a = b
      BY <1>1, <1>3 DEF OneLink
    <3>3. i - Len(runq) = j - Len(runq)
      BY <3>1, <3>2
    <3> QED
      BY <1>4, <3>3
  <2>3. ASSUME NEW a \in 1 .. Len(ready), NEW b \in 1 .. Len(ready),
               a =< Len(runq), b > Len(runq)
        PROVE  ready[a] # ready[b]
    <3>1. /\ a \in 1 .. Len(runq) /\ ready[a] = runq[a]
          /\ b - Len(runq) \in 1 .. n /\ ready[b] = due[b - Len(runq)]
      BY <1>1, <1>4, <2>3
    <3>2. /\ b - Len(runq) \in 1 .. Len(timerq)
          /\ ready[b] = timerq[b - Len(runq)].fibre
      BY <1>1, <1>3, <3>1
    <3> QED
      BY <3>1, <3>2 DEF OneLink
  <2> QED
    BY <1>4, <2>1, <2>2, <2>3
<1>7. Apart(ready, timerq')
  <2> SUFFICES ASSUME NEW i \in 1 .. Len(ready), NEW j \in 1 .. Len(timerq')
               PROVE  ready[i] # timerq'[j].fibre
    BY DEF Apart
  <2>1. n + j \in 1 .. Len(timerq) /\ timerq'[j] = timerq[n + j]
    BY <1>1, <1>5
  <2>2. CASE i =< Len(runq)
    BY <1>4, <2>1, <2>2 DEF OneLink
  <2>3. CASE i > Len(runq)
    <3>1. i - Len(runq) \in 1 .. n /\ ready[i] = timerq[i - Len(runq)].fibre
      BY <1>1, <1>3, <1>4, <2>3
    <3>2. i - Len(runq) \in 1 .. Len(timerq) /\ i - Len(runq) # n + j
      BY <1>1, <3>1
    <3> QED
      BY <2>1, <3>1, <3>2 DEF OneLink
  <2> QED
    BY <1>4, <2>2, <2>3
<1>8. OnceTimed(timerq')
  <2>1. \A i \in 1 .. Len(timerq') : n + i \in 1 .. Len(timerq)
    BY <1>1, <1>5
  <2> SUFFICES ASSUME NEW i \in 1 .. Len(timerq'), NEW j \in 1 .. Len(timerq'),
                      timerq'[i].fibre = timerq'[j].fibre
               PROVE  i = j
    BY DEF OnceTimed
  <2>2. n + i = n + j
    BY <1>5, <2>1 DEF OneLink
  <2> QED
    BY <1>1, <2>2
<1>9. /\ runq' \in Seq(Fibres) /\ OnceRunnable(runq') /\ Apart(runq', timerq')
      /\ current' \in Fibres \cup {None} /\ (pc' = "body" => current' \in Fibres)
  <2>1. CASE ready = <<>>
    BY <1>2, <2>1 DEF OnceRunnable, Apart
  <2>2. CASE ready # <<>>
    <3>1. /\ Head(ready) \in Fibres
          /\ Tail(ready) \in Seq(Fibres) /\ Len(Tail(ready)) = Len(ready) - 1
          /\ \A i \in 1 .. Len(Tail(ready)) : Tail(ready)[i] = ready[i + 1]
      BY <1>4, <2>2, HeadTailProperties
    <3>2. \A i \in 1 .. Len(Tail(ready)) : i + 1 \in 1 .. Len(ready)
      BY <1>1, <1>4, <3>1
    <3>3. OnceRunnable(Tail(ready))
      <4> SUFFICES ASSUME NEW i \in 1 .. Len(Tail(ready)), NEW j \in 1 .. Len(Tail(ready)),
                          Tail(ready)[i] = Tail(ready)[j]
                   PROVE  i = j
        BY DEF OnceRunnable
      <4>1. i + 1 = j + 1
        BY <1>6, <3>1, <3>2 DEF OnceRunnable
      <4> QED
        BY <4>1
    <3>4. Apart(Tail(ready), timerq')
      BY <1>7, <3>1, <3>2 DEF Apart
    <3> QED
      BY <1>2, <2>2, <3>1, <3>3, <3>4
  <2> QED
    BY <2>1, <2>2
<1>10. OneLink'
  BY <1>8, <1>9 DEF OneLink, OnceRunnable, OnceTimed, Apart
<1>11. NoFurther(runq', runq)
  <2>1. CASE ready = <<>>
    BY <1>2, <2>1 DEF NoFurther
  <2>2. CASE ready # <<>>
    <3>1. /\ runq' = Tail(ready) /\ Len(Tail(ready)) = Len(ready) - 1
          /\ \A i \in 1 .. Len(Tail(ready)) : Tail(ready)[i] = ready[i + 1]
      BY <1>2, <1>4, <2>2, HeadTailProperties
    <3> SUFFICES ASSUME NEW i \in 1 .. Len(ready) - 1, NEW j \in 1 .. Len(runq),
                        Tail(ready)[i] = runq[j]
                 PROVE  i =< j
      BY <3>1 DEF NoFurther
    <3>2. i + 1 \in 1 .. Len(ready) /\ j \in 1 .. Len(ready)
      BY <1>1, <1>4
    <3>3. ready[i + 1] = ready[j]
      BY <1>4, <3>1, <3>2
    <3>4. i + 1 = j
      BY <1>6, <3>2, <3>3 DEF OnceRunnable
    <3> QED
      BY <3>4
  <2> QED
    BY <2>1, <2>2
<1> QED
  BY <1>5, <1>9, <1>10, <1>11 DEF n

\* q is l with x put in at place i.
Inserted(q, l, i, x) ==
    /\ Len(q) = Len(l) + 1
    /\ \A k \in 1 .. Len(l) + 1 :
          q[k] = IF k < i THEN l[k] ELSE IF k = i THEN x ELSE l[k - 1]

\* list_insert_sorted finds the place behind the timers that are due earlier or
\* at the same time.
LEMMA InsertSortedIs ==
    ASSUME timerq \in Seq(Timers), NEW x \in Timers
    PROVE  /\ InsertSorted(timerq, x, DueCmp) \in Seq(Timers)
           /\ \E i \in 1 .. Len(timerq) + 1 :
                 /\ Inserted(InsertSorted(timerq, x, DueCmp), timerq, i, x)
                 /\ i =< Len(timerq) =>
                       /\ DueCmp(x, timerq[i]) < 0
                       /\ \A j \in 1 .. i - 1 : DueCmp(x, timerq[j]) >= 0
                 /\ i = Len(timerq) + 1 /\ Len(timerq) > 0 =>
                       DueCmp(x, timerq[Len(timerq)]) >= 0
<1> DEFINE q == InsertSorted(timerq, x, DueCmp)
           n == Len(timerq)
<1>1. CASE timerq = <<>> \/ DueCmp(x, timerq[n]) >= 0
  <2>1. q = Append(timerq, x)
    BY <1>1 DEF InsertSorted
  <2>2. /\ q \in Seq(Timers) /\ Len(q) = n + 1
        /\ \A k \in 1 .. n : q[k] = timerq[k]
        /\ q[n + 1] = x
    BY <2>1, AppendProperties
  <2> HIDE DEF q
  <2>3. Inserted(q, timerq, n + 1, x)
    BY <2>2 DEF Inserted
  <2>4. n > 0 => DueCmp(x, timerq[n]) >= 0
    BY <1>1
  <2>5. n + 1 \in 1 .. n + 1 /\ ~ (n + 1 =< n)
    OBVIOUS
  <2> QED
    BY <2>2, <2>3, <2>4, <2>5 DEF q
<1>2. CASE ~ (timerq = <<>> \/ DueCmp(x, timerq[n]) >= 0)
  <2>1. \A k \in 1 .. n : DueCmp(x, timerq[k]) \in Int
    <3> TAKE k \in 1 .. n
    <3>1. timerq[k] \in Timers
      BY ElementOfSeq
    <3>2. x.due \in Int /\ timerq[k].due \in Int
      BY <3>1 DEF Timers, Ticks
    <3> QED
      BY <3>2 DEF DueCmp, CycleCmp
  <2> DEFINE Later == {k \in 1 .. n : DueCmp(x, timerq[k]) < 0}
  <2>2. n \in 1 .. n
    <3>1. n \in Nat /\ n # 0
      BY <1>2
    <3> QED
      BY <3>1
  <2>3. n \in Later /\ Later \subseteq Nat
    BY <1>2, <2>1, <2>2
  <2>4. PICK m \in Later : \A k \in Later : m =< k
    BY <2>3, Least
  <2>5. m \in 1 .. n /\ DueCmp(x, timerq[m]) < 0
    OBVIOUS
  <2>6. ASSUME NEW j \in 1 .. m - 1 PROVE DueCmp(x, timerq[j]) >= 0
    <3>1. j \in 1 .. n /\ j < m
      BY <2>5
    <3>2. ASSUME j \in Later PROVE FALSE
      <4> HIDE DEF Later
      <4> QED
        BY <2>4, <2>5, <3>1, <3>2
    <3> QED
      BY <2>1, <3>1, <3>2
  <2> DEFINE Fits(k) == /\ DueCmp(x, timerq[k]) < 0
                        /\ \A j \in 1 .. k - 1 : DueCmp(x, timerq[j]) >= 0
             i == CHOOSE k \in 1 .. n : Fits(k)
  <2>7. i \in 1 .. n /\ Fits(i)
    BY <2>5, <2>6
  <2>8. q = PutAt(timerq, i, x)
    BY <1>2 DEF InsertSorted
  <2> HIDE DEF i, q
  <2>9. i \in 1 .. n + 1 /\ i # n + 1
    BY <2>7
  <2>10. q \in Seq(Timers) /\ Inserted(q, timerq, i, x)
    <3>1. /\ PutAt(timerq, i, x) \in Seq(Timers)
          /\ Len(PutAt(timerq, i, x)) = Len(timerq) + 1
          /\ \A k \in 1 .. Len(timerq) + 1 :
                PutAt(timerq, i, x)[k] =
                    IF k < i THEN timerq[k] ELSE IF k = i THEN x ELSE timerq[k - 1]
      BY <2>9, PutAtIs
    <3> QED
      BY <2>8, <3>1 DEF Inserted
  <2> QED
    BY <2>7, <2>9, <2>10 DEF q
<1> QED
  BY <1>1, <1>2

\* fibre_timeout, when it puts the fibre that is running to sleep
LEMMA SleepIs ==
    ASSUME runq \in Seq(Fibres), timerq \in Seq(Timers), OneLink, current \in Fibres,
           NEW d \in Ticks, Sleep(d)
    PROVE  runq' \in Seq(Fibres) /\ timerq' \in Seq(Timers) /\ OneLink'
<1> DEFINE x == Timer(current, d)
           n == Len(timerq)
<1>1. x \in Timers /\ x.fibre = current
  BY DEF Timer, Timers
<1>2. /\ timerq' = InsertSorted(timerq, x, DueCmp) /\ runq' = runq
      /\ \A k \in 1 .. n : timerq[k].fibre # current
      /\ \A k \in 1 .. Len(runq) : runq[k] # current
  BY DEF Sleep, OnRunq, OnTimerq, Contains
<1> HIDE DEF x
<1>3. timerq' \in Seq(Timers)
  BY <1>1, <1>2, InsertSortedIs
<1>4. PICK i \in 1 .. n + 1 : Inserted(timerq', timerq, i, x)
  BY <1>1, <1>2, InsertSortedIs
<1> DEFINE old(k) == IF k < i THEN k ELSE k - 1
<1>5. /\ Len(timerq') = n + 1 /\ timerq'[i] = x
      /\ \A k \in 1 .. n + 1 : k # i => old(k) \in 1 .. n /\ timerq'[k] = timerq[old(k)]
      /\ \A j, k \in 1 .. n + 1 : j # i /\ k # i /\ old(j) = old(k) => j = k
  BY <1>4 DEF Inserted
<1> HIDE DEF old
<1>6. OnceTimed(timerq')
  <2> SUFFICES ASSUME NEW j \in 1 .. n + 1, NEW k \in 1 .. n + 1,
                      timerq'[j].fibre = timerq'[k].fibre
               PROVE  j = k
    BY <1>5 DEF OnceTimed
  <2>1. j = i <=> k = i
    BY <1>1, <1>2, <1>5
  <2>2. CASE j # i /\ k # i
    BY <1>5, <2>2, Parts DEF OnceTimed
  <2> QED
    BY <2>1, <2>2
<1>7. Apart(runq', timerq')
  <2> SUFFICES ASSUME NEW j \in 1 .. Len(runq), NEW k \in 1 .. n + 1
               PROVE  runq[j] # timerq'[k].fibre
    BY <1>2, <1>5 DEF Apart
  <2>1. CASE k = i
    BY <1>1, <1>2, <1>5, <2>1
  <2>2. CASE k # i
    BY <1>5, <2>2, Parts DEF Apart
  <2> QED
    BY <2>1, <2>2
<1>8. OnceRunnable(runq')
  BY <1>2, Parts
<1>9. OneLink'
  BY <1>6, <1>7, <1>8 DEF OneLink, OnceRunnable, OnceTimed, Apart
<1> QED
  BY <1>2, <1>3, <1>9

-----------------------------------------------------------------------------
(* atomic_runq: what operations leave in it                                *)

\* What atomic_runq's operations do to it: a claim...
LEMMA ClaimIs ==
    ASSUME Inv, NEW u \in Users, AQ!Claim(u)
    PROVE  /\ chan' \in Seq(Places) /\ held' = held /\ Messages'
           /\ Len(chan') = Len(chan) + 1 /\ Len(chan') + Len(held) =< AtomicLen
<1>1. /\ chan' = Append(chan, [owner |-> u, val |-> None]) /\ held' = held
      /\ Len(chan) + Len(held) < AtomicLen
  BY DEF AQ!Claim, AQ!Place, AQ!Room
<1>2. chan \in Seq(Places) /\ held \in Seq(Fibres)
  BY DEF Inv, TypeOK, Places, Users
<1>3. [owner |-> u, val |-> None] \in Places /\ u # None
  BY DEF Places, Users
<1>4. /\ chan' \in Seq(Places) /\ Len(chan') = Len(chan) + 1
      /\ \A i \in 1 .. Len(chan) : chan'[i] = chan[i]
      /\ chan'[Len(chan) + 1] = [owner |-> u, val |-> None]
  BY <1>1, <1>2, <1>3, AppendProperties
<1>5. Messages'
  <2> SUFFICES ASSUME NEW i \in 1 .. Len(chan) + 1, chan'[i].owner = None
               PROVE  chan'[i].val \in Fibres
    BY <1>4 DEF Messages
  <2>1. i \in 1 .. Len(chan) \/ i = Len(chan) + 1
    BY <1>2
  <2> QED
    BY <1>3, <1>4, <2>1 DEF Inv, Messages
<1>6. Len(chan') + Len(held) =< AtomicLen
  BY <1>1, <1>2, <1>4
<1> QED
  BY <1>1, <1>4, <1>5, <1>6

\* ... a send, which only fills the sender's own place...
LEMMA SendIs ==
    ASSUME Inv, NEW u \in Users, NEW f \in Fibres, AQ!Send(u, f)
    PROVE  chan' \in Seq(Places) /\ held' = held /\ Messages' /\ Len(chan') = Len(chan)
<1>1. PICK k \in 1 .. Len(chan) :
         chan' = [chan EXCEPT ![k] = [owner |-> None, val |-> f]] /\ held' = held
  BY DEF AQ!Send, AQ!Place
<1>2. chan \in Seq(Places) /\ [owner |-> None, val |-> f] \in Places
  BY DEF Inv, TypeOK, Places, Users
<1>3. /\ chan' \in Seq(Places) /\ Len(chan') = Len(chan)
      /\ \A i \in 1 .. Len(chan) :
            chan'[i] = IF i = k THEN [owner |-> None, val |-> f] ELSE chan[i]
  BY <1>1, <1>2, ExceptSeq
<1>4. Messages'
  BY <1>3 DEF Inv, Messages
<1> QED
  BY <1>1, <1>3, <1>4

\* ... a receive...
LEMMA ReceiveIs ==
    ASSUME Inv, AQ!Receive
    PROVE  /\ chan' \in Seq(Places) /\ held' \in Seq(Fibres) /\ Messages'
           /\ Head(chan).val \in Fibres
           /\ Len(chan') = Len(chan) - 1 /\ Len(held') = Len(held) + 1
<1>1. /\ chan # <<>> /\ Head(chan).owner = None
      /\ held' = Append(held, Head(chan).val) /\ chan' = Tail(chan)
  BY DEF AQ!Receive, AQ!Ready
<1>2. chan \in Seq(Places) /\ held \in Seq(Fibres)
  BY DEF Inv, TypeOK, Places, Users
<1>3. /\ chan' \in Seq(Places) /\ Len(chan') = Len(chan) - 1
      /\ \A i \in 1 .. Len(chan') : chan'[i] = chan[i + 1]
  BY <1>1, <1>2, HeadTailProperties
<1>4. Len(chan) \in Nat /\ Len(chan) # 0
  BY <1>1, <1>2
<1>5. 1 \in 1 .. Len(chan) /\ Head(chan) = chan[1]
  BY <1>4
<1>6. Head(chan).val \in Fibres
  BY <1>1, <1>5 DEF Inv, Messages
<1>7. held' \in Seq(Fibres) /\ Len(held') = Len(held) + 1
  BY <1>1, <1>2, <1>6, AppendProperties
<1>8. \A i \in 1 .. Len(chan') : i + 1 \in 1 .. Len(chan)
  BY <1>3, <1>4
<1>9. Messages'
  BY <1>3, <1>8 DEF Inv, Messages
<1> QED
  BY <1>3, <1>6, <1>7, <1>9

\* ... and a release
LEMMA ReleaseIs ==
    ASSUME Inv, AQ!Release
    PROVE  /\ chan' = chan /\ held' \in Seq(Fibres)
           /\ Len(held) > 0 /\ Len(held') = Len(held) - 1
<1>1. chan' = chan /\ held # <<>> /\ held' = Tail(held)
  BY DEF AQ!Release
<1>2. held \in Seq(Fibres)
  BY DEF Inv, TypeOK
<1>3. Len(held) \in Nat /\ Len(held) # 0
  BY <1>1, <1>2
<1> QED
  BY <1>1, <1>2, <1>3, HeadTailProperties

-----------------------------------------------------------------------------
(* Steps that change atomic_runq                                           *)

\* handle_atomic_runq goes one level deeper, ...
LEMMA DrainReceiveInv ==
    ASSUME Inv, DrainReceive
    PROVE  Inv'
<1>1. /\ pc = "drain" /\ frames' = Append(frames, Head(chan).val)
      /\ UNCHANGED <<pc, call, kernel, queues, fibre, taint, target>>
  BY DEF DrainReceive
<1>2. /\ chan' \in Seq(Places) /\ held' \in Seq(Fibres) /\ Messages'
      /\ Head(chan).val \in Fibres
      /\ Len(chan') = Len(chan) - 1 /\ Len(held') = Len(held) + 1
  BY ReceiveIs DEF DrainReceive
<1>3. frames \in Seq(Fibres) /\ chan \in Seq(Places) /\ held \in Seq(Fibres)
  BY DEF Inv, TypeOK, Places, Users
<1>4. frames' \in Seq(Fibres) /\ Len(frames') = Len(frames) + 1
  BY <1>1, <1>2, <1>3, AppendProperties
<1>5. TypeOK'
  BY <1>1, <1>2, <1>4 DEF Inv, TypeOK, Places, Users, kernel, queues, fibre
<1>6. Calling' /\ OneLink'
  BY <1>1 DEF Inv, Calling, OneLink, kernel, queues
<1>7. DrainDiscipline'
  BY <1>1, <1>2, <1>3, <1>4 DEF Inv, DrainDiscipline
<1> QED
  BY <1>2, <1>5, <1>6, <1>7 DEF Inv

\* ... and one level up.
LEMMA DrainReleaseInv ==
    ASSUME Inv, DrainRelease
    PROVE  Inv'
<1>1. /\ frames' = SubSeq(frames, 1, Len(frames) - 1) /\ pc' = "drain"
      /\ UNCHANGED <<call, kernel, queues, fibre, taint, target>>
  BY DEF DrainRelease
<1>2. /\ chan' = chan /\ held' \in Seq(Fibres)
      /\ Len(held) > 0 /\ Len(held') = Len(held) - 1
  BY ReleaseIs DEF DrainRelease
<1>3. /\ frames \in Seq(Fibres) /\ chan \in Seq(Places) /\ held \in Seq(Fibres)
      /\ Len(frames) = Len(held)
  BY DEF Inv, TypeOK, Places, Users, DrainDiscipline
<1>4. frames' \in Seq(Fibres) /\ Len(frames') = Len(frames) - 1
  <2>1. \A i \in 1 .. Len(frames) - 1 : frames[i] \in Fibres
    BY <1>3, ElementOfSeq
  <2>2. Len(frames) \in Nat /\ Len(frames) > 0
    BY <1>2, <1>3
  <2>3. PICK n \in Nat : n = Len(frames) - 1
    BY <2>2
  <2>4. /\ SubSeq(frames, 1, n) \in Seq(Fibres)
        /\ Len(SubSeq(frames, 1, n)) = IF 1 =< n THEN n - 1 + 1 ELSE 0
    BY <2>1, <2>3, SubSeqProperties
  <2>5. (IF 1 =< n THEN n - 1 + 1 ELSE 0) = n
    OBVIOUS
  <2> QED
    BY <1>1, <2>3, <2>4, <2>5
<1>5. TypeOK'
  BY <1>1, <1>2, <1>4 DEF Inv, TypeOK, kernel, queues, fibre
<1>6. Calling' /\ OneLink' /\ Messages'
  BY <1>1, <1>2 DEF Inv, Calling, OneLink, Messages, kernel, queues
<1>7. DrainDiscipline'
  BY <1>1, <1>2, <1>3, <1>4 DEF Inv, DrainDiscipline
<1> QED
  BY <1>5, <1>6, <1>7 DEF Inv

\* A claim, by the main context or a handler
LEMMA ClaimInv ==
    ASSUME Inv, NEW u \in Users, AQ!Claim(u), UNCHANGED <<frames, kernel, queues, fibre, taint>>,
           \/ UNCHANGED <<pc, call>> /\ target' \in [Irqs -> Fibres \cup {None}]
           \/ /\ \E f \in Fibres : Enter("atomic", f)
              /\ pc' = "send" /\ UNCHANGED target
    PROVE  Inv'
<1>1. /\ chan' \in Seq(Places) /\ held' = held /\ Messages'
      /\ Len(chan') = Len(chan) + 1 /\ Len(chan') + Len(held) =< AtomicLen
  BY ClaimIs
<1>2. TypeOK'
  <2>1. /\ pc' \in {"idle", "drain", "release", "update", "dispatch", "body",
                    "wakeup", "send"}
        /\ call' \in [op : {"none", "sched", "yield", "run", "kill", "atomic"},
                     fibre : Fibres \cup {None}, back : {"idle", "body"}]
        /\ target' \in [Irqs -> Fibres \cup {None}]
    BY DEF Inv, TypeOK, Enter
  <2> QED
    BY <1>1, <2>1 DEF Inv, TypeOK, Places, Users, kernel, queues, fibre
<1>3. Calling'
  BY DEF Inv, Calling, Enter, kernel
<1>4. OneLink'
  BY DEF Inv, OneLink, queues
<1>5. DrainDiscipline'
  BY <1>1 DEF Inv, DrainDiscipline, Enter
<1> QED
  BY <1>1, <1>2, <1>3, <1>4, <1>5 DEF Inv

\* The main context sends what it claimed, ...
LEMMA AtomicSendInv ==
    ASSUME Inv, AtomicSend
    PROVE  Inv'
<1>1. /\ pc = "send" /\ pc' = call.back /\ call' = NoCall
      /\ UNCHANGED <<frames, kernel, queues, fibre, taint, target>>
  BY DEF AtomicSend, Return
<1>2. chan' \in Seq(Places) /\ held' = held /\ Messages' /\ Len(chan') = Len(chan)
  BY SendIs DEF AtomicSend, Inv, Calling, Users
<1>3. TypeOK'
  BY <1>1, <1>2 DEF Inv, TypeOK, Places, Users, NoCall, kernel, queues, fibre
<1>4. Calling'
  BY <1>1 DEF Inv, TypeOK, Calling, NoCall, kernel
<1>5. OneLink'
  BY <1>1 DEF Inv, OneLink, queues
<1>6. DrainDiscipline'
  BY <1>1, <1>2 DEF Inv, DrainDiscipline
<1> QED
  BY <1>2, <1>3, <1>4, <1>5, <1>6 DEF Inv

\* ... and so does a handler.
LEMMA IrqSendInv ==
    ASSUME Inv, NEW i \in Irqs, IrqSend(i)
    PROVE  Inv'
<1>1. /\ target[i] # None /\ target' = [target EXCEPT ![i] = None]
      /\ UNCHANGED <<main, kernel, queues, fibre, taint>>
  BY DEF IrqSend
<1>2. chan' \in Seq(Places) /\ held' = held /\ Messages' /\ Len(chan') = Len(chan)
  <2>1. target[i] \in Fibres /\ i \in Users
    BY <1>1 DEF Inv, TypeOK, Users
  <2> QED
    BY <2>1, SendIs DEF IrqSend
<1>3. TypeOK'
  BY <1>1, <1>2 DEF Inv, TypeOK, Places, Users, main, kernel, queues, fibre
<1>4. Calling' /\ OneLink'
  BY <1>1 DEF Inv, Calling, OneLink, main, kernel, queues
<1>5. DrainDiscipline'
  BY <1>1, <1>2 DEF Inv, DrainDiscipline, main
<1> QED
  BY <1>2, <1>3, <1>4, <1>5 DEF Inv

-----------------------------------------------------------------------------
(* Steps that change the run queue or the timer queue                      *)

\* Steps that leave atomic_runq alone keep Messages and, if pc stays outside the
\* drain or frames are empty, DrainDiscipline.
LEMMA ChanSame ==
    ASSUME Inv, UNCHANGED <<frames, chan, held>>,
           pc' \in {"drain", "release"} \/ frames = <<>>
    PROVE  Messages' /\ DrainDiscipline'
  BY DEF Inv, Messages, DrainDiscipline

\* The fibre that was received becomes runnable.
LEMMA DrainInsertInv ==
    ASSUME Inv, DrainInsert
    PROVE  Inv'
<1>1. /\ frames # <<>> /\ MakeRunnable(frames[Len(frames)]) /\ pc' = "release"
      /\ UNCHANGED <<call, frames, kernel, fibre, taint, atomic>>
  BY DEF DrainInsert
<1>2. frames[Len(frames)] \in Fibres
  <2>1. frames \in Seq(Fibres) /\ Len(frames) \in Nat /\ Len(frames) # 0
    BY <1>1 DEF Inv, TypeOK
  <2>2. Len(frames) \in 1 .. Len(frames)
    BY <2>1
  <2> QED
    BY <2>1, <2>2, ElementOfSeq
<1>3. runq' \in Seq(Fibres) /\ timerq' \in Seq(Timers) /\ OneLink'
  BY <1>1, <1>2, MakeRunnableIs DEF Inv, TypeOK, Timers
<1>4. TypeOK'
  BY <1>1, <1>3 DEF Inv, TypeOK, Timers, kernel, fibre, atomic
<1>5. Calling'
  BY <1>1 DEF Inv, Calling, kernel
<1>6. Messages' /\ DrainDiscipline'
  BY <1>1, ChanSame DEF atomic
<1> QED
  BY <1>3, <1>4, <1>5, <1>6 DEF Inv

\* The fibre that yielded becomes runnable again.
LEMMA YieldDrainedInv ==
    ASSUME Inv, YieldDrained
    PROVE  Inv'
<1>1. /\ MakeRunnable(current) /\ pc' = "dispatch" /\ call.op = "yield" /\ frames = <<>>
      /\ UNCHANGED <<call, frames, kernel, fibre, taint, atomic>>
  BY DEF YieldDrained, Drained
<1>2. current \in Fibres
  BY <1>1 DEF Inv, Calling
<1>3. runq' \in Seq(Fibres) /\ timerq' \in Seq(Timers) /\ OneLink'
  BY <1>1, <1>2, MakeRunnableIs DEF Inv, TypeOK, Timers
<1>4. TypeOK'
  BY <1>1, <1>3 DEF Inv, TypeOK, Timers, kernel, fibre, atomic
<1>5. Calling'
  BY <1>1 DEF Inv, Calling, kernel
<1>6. Messages' /\ DrainDiscipline'
  BY <1>1, ChanSame DEF atomic
<1> QED
  BY <1>3, <1>4, <1>5, <1>6 DEF Inv

\* fibre_run and fibre_kill return to their caller.
LEMMA RunDrainedInv ==
    ASSUME Inv, RunDrained
    PROVE  Inv'
<1>1. /\ MakeRunnable(call.fibre) /\ pc' = call.back /\ call' = NoCall
      /\ call.op = "run" /\ frames = <<>>
      /\ UNCHANGED <<frames, kernel, fibre, taint, atomic>>
  BY DEF RunDrained, Drained, Return
<1>2. call.fibre \in Fibres
  BY <1>1 DEF Inv, Calling
<1>3. runq' \in Seq(Fibres) /\ timerq' \in Seq(Timers) /\ OneLink'
  BY <1>1, <1>2, MakeRunnableIs DEF Inv, TypeOK, Timers
<1>4. TypeOK'
  BY <1>1, <1>3 DEF Inv, TypeOK, Timers, NoCall, kernel, fibre, atomic
<1>5. Calling'
  BY <1>1 DEF Inv, TypeOK, Calling, NoCall, kernel
<1>6. Messages' /\ DrainDiscipline'
  BY <1>1, ChanSame DEF atomic
<1> QED
  BY <1>3, <1>4, <1>5, <1>6 DEF Inv

\* fibre_kill takes its fibre off both queues.
LEMMA KillDrainedInv ==
    ASSUME Inv, KillDrained
    PROVE  Inv'
<1>1. /\ runq' = OffRunq(call.fibre) /\ timerq' = OffTimerq(call.fibre)
      /\ pc' = call.back /\ call' = NoCall /\ frames = <<>>
      /\ UNCHANGED <<frames, kernel, fibre, taint, atomic>>
  BY DEF KillDrained, Drained, Return
<1>2. runq \in Seq(Fibres) /\ timerq \in Seq(Timers)
  BY DEF Inv, TypeOK, Timers
<1>3. /\ runq' \in Seq(Fibres) /\ Thins(runq', runq)
      /\ timerq' \in Seq(Timers) /\ Thins(timerq', timerq)
  BY <1>1, <1>2, OffRunqIs, OffTimerqIs, Parts DEF Inv
<1>4. OnceRunnable(runq') /\ OnceTimed(timerq')
  BY <1>2, <1>3, Thinned, Parts DEF Inv
<1>5. Apart(runq', timerq')
  <2>1. Apart(runq', timerq)
    BY <1>2, <1>3, Thinned, Parts DEF Inv
  <2> QED
    BY <1>2, <1>3, <2>1, Thinned
<1>6. OneLink'
  BY <1>4, <1>5 DEF OneLink, OnceRunnable, OnceTimed, Apart
<1>7. TypeOK'
  BY <1>1, <1>3 DEF Inv, TypeOK, Timers, NoCall, kernel, fibre, atomic
<1>8. Calling'
  BY <1>1 DEF Inv, TypeOK, Calling, NoCall, kernel
<1>9. Messages' /\ DrainDiscipline'
  BY <1>1, ChanSame DEF atomic
<1> QED
  BY <1>6, <1>7, <1>8, <1>9 DEF Inv

\* The next fibre is taken off the run queue.
LEMMA DispatchInv ==
    ASSUME Inv, Dispatch
    PROVE  Inv'
<1>1. /\ pc = "dispatch" /\ pc' \in {"wakeup", "body"} /\ call' = NoCall
      /\ UNCHANGED <<frames, kstate, now, fibre, taint, atomic>>
  BY DEF Dispatch
<1>2. /\ runq' \in Seq(Fibres) /\ timerq' \in Seq(Timers) /\ OneLink'
      /\ current' \in Fibres \cup {None} /\ (pc' = "body" => current' \in Fibres)
  BY DispatchIs DEF Inv, TypeOK, Timers
<1>3. TypeOK'
  BY <1>1, <1>2 DEF Inv, TypeOK, Timers, NoCall, fibre, atomic
<1>4. Calling'
  BY <1>1, <1>2 DEF Calling, NoCall
<1>5. Messages' /\ DrainDiscipline'
  BY <1>1, ChanSame DEF Inv, DrainDiscipline, atomic
<1> QED
  BY <1>2, <1>3, <1>4, <1>5 DEF Inv

\* The running fibre goes to sleep.
LEMMA SleepInv ==
    ASSUME Inv, NEW d \in Ticks, Sleep(d)
    PROVE  Inv'
<1>1. pc = "body" /\ UNCHANGED <<main, kernel, fibre, taint, atomic>>
  BY DEF Sleep
<1>2. runq' \in Seq(Fibres) /\ timerq' \in Seq(Timers) /\ OneLink'
  BY <1>1, SleepIs DEF Inv, TypeOK, Calling, Timers
<1>3. TypeOK'
  BY <1>1, <1>2 DEF Inv, TypeOK, Timers, main, kernel, fibre, atomic
<1>4. Calling' /\ Messages' /\ DrainDiscipline'
  BY <1>1 DEF Inv, Calling, Messages, DrainDiscipline, main, kernel, atomic
<1> QED
  BY <1>2, <1>3, <1>4 DEF Inv

-----------------------------------------------------------------------------
(* Steps that only move the main context, or refuse                        *)

\* fibre_scheduler_next begins.
LEMMA SchedEnterInv ==
    ASSUME Inv, NEW t \in Ticks, SchedEnter(t)
    PROVE  Inv'
<1>1. /\ pc = "idle" /\ now' = t
      /\ \/ /\ pc' = IF current # None THEN "body" ELSE "wakeup"
            /\ UNCHANGED call
         \/ pc' = "drain" /\ call' = [NoCall EXCEPT !.op = "sched"]
      /\ UNCHANGED <<frames, current, kstate, queues, fibre, taint, atomic>>
  BY DEF SchedEnter
<1>2. TypeOK'
  BY <1>1 DEF Inv, TypeOK, NoCall, queues, fibre, atomic
<1>3. Calling'
  BY <1>1 DEF Inv, TypeOK, Calling, NoCall
<1>4. OneLink'
  BY <1>1 DEF Inv, OneLink, queues
<1>5. Messages' /\ DrainDiscipline'
  BY <1>1 DEF Inv, Messages, DrainDiscipline, atomic
<1> QED
  BY <1>2, <1>3, <1>4, <1>5 DEF Inv

\* It looks at what the body returned.
LEMMA UpdateCurrentInv ==
    ASSUME Inv, UpdateCurrent
    PROVE  Inv'
<1>1. /\ pc = "update" /\ current \in Fibres
      /\ state' = [state EXCEPT ![current] = kstate]
      /\ \/ pc' = "drain" /\ call' = [call EXCEPT !.op = "yield"]
         \/ pc' = "dispatch" /\ UNCHANGED call
      /\ priv' \in {Restart, priv} /\ taint' \in {taint, taint \cup {"F"}}
      /\ UNCHANGED <<frames, kernel, queues, atomic>>
  BY DEF UpdateCurrent, Inv, TypeOK
<1>2. priv' \in [Fibres -> {"top", "middle"}] /\ state' \in [Fibres -> Returned]
  BY <1>1 DEF Inv, TypeOK, Restart
<1>3. TypeOK'
  BY <1>1, <1>2 DEF Inv, TypeOK, kernel, queues, atomic
<1>4. Calling'
  BY <1>1 DEF Inv, TypeOK, Calling, kernel
<1>5. OneLink'
  BY <1>1 DEF Inv, OneLink, queues
<1>6. Messages' /\ DrainDiscipline'
  BY <1>1 DEF Inv, Messages, DrainDiscipline, atomic
<1> QED
  BY <1>3, <1>4, <1>5, <1>6 DEF Inv

\* The body returns.
LEMMA BodyReturnInv ==
    ASSUME Inv, NEW st \in Outcomes, BodyReturn(st)
    PROVE  Inv'
<1>1. /\ pc = "body" /\ kstate' = st /\ pc' = "wakeup" /\ priv' = Resume(st)
      /\ UNCHANGED <<call, frames, current, now, queues, state, taint, atomic>>
  BY DEF BodyReturn
<1>2. priv' \in [Fibres -> {"top", "middle"}]
  BY <1>1 DEF Inv, TypeOK, Resume
<1>3. TypeOK'
  BY <1>1, <1>2 DEF Inv, TypeOK, Returned, queues, atomic
<1>4. Calling'
  BY <1>1 DEF Inv, TypeOK, Calling
<1>5. OneLink'
  BY <1>1 DEF Inv, OneLink, queues
<1>6. Messages' /\ DrainDiscipline'
  BY <1>1 DEF Inv, Messages, DrainDiscipline, atomic
<1> QED
  BY <1>3, <1>4, <1>5, <1>6 DEF Inv

\* fibre_run or fibre_kill begins.
LEMMA CallInv ==
    ASSUME Inv, NEW f \in Fibres, RunCall(f) \/ KillCall(f)
    PROVE  Inv'
<1>1. /\ pc \in {"idle", "body"} /\ pc' = "drain"
      /\ call' \in {[op |-> "run", fibre |-> f, back |-> pc],
                    [op |-> "kill", fibre |-> f, back |-> pc]}
      /\ UNCHANGED <<frames, kernel, queues, fibre, taint, atomic>>
  BY DEF RunCall, KillCall, CallDrain, Enter
<1>2. TypeOK'
  BY <1>1 DEF Inv, TypeOK, kernel, queues, fibre, atomic
<1>3. Calling'
  BY <1>1 DEF Inv, Calling, kernel
<1>4. OneLink'
  BY <1>1 DEF Inv, OneLink, queues
<1>5. Messages' /\ DrainDiscipline'
  BY <1>1 DEF Inv, Messages, DrainDiscipline, atomic
<1> QED
  BY <1>2, <1>3, <1>4, <1>5 DEF Inv

\* Nothing changes but where the main context is, or the taint.
LEMMA MovesInv ==
    ASSUME Inv, \/ SchedDrained \/ UpdateNobody \/ SchedReturn
                \/ AtomicRefused \/ \E i \in Irqs : IrqRefused(i)
                \/ UNCHANGED vars
    PROVE  Inv'
<1>1. /\ \/ UNCHANGED pc
         \/ pc = "drain" /\ frames = <<>> /\ pc' = "update"
         \/ pc = "update" /\ pc' = "dispatch"
         \/ pc = "wakeup" /\ pc' = "idle"
      /\ taint' \subseteq taint \cup {"A"}
      /\ UNCHANGED <<call, frames, kernel, queues, fibre, atomic>>
  BY DEF SchedDrained, Drained, UpdateNobody, SchedReturn, AtomicRefused, IrqRefused,
         vars, main
<1>2. TypeOK'
  BY <1>1 DEF Inv, TypeOK, kernel, queues, fibre, atomic
<1>3. Calling'
  BY <1>1 DEF Inv, Calling, kernel
<1>4. OneLink'
  BY <1>1 DEF Inv, OneLink, queues
<1>5. Messages' /\ DrainDiscipline'
  BY <1>1 DEF Inv, Messages, DrainDiscipline, atomic
<1> QED
  BY <1>2, <1>3, <1>4, <1>5 DEF Inv

\* The invariant is inductive.
LEMMA FibreStep == Inv /\ [Next]_vars => Inv'
<1> SUFFICES ASSUME Inv, [Next]_vars PROVE Inv'
  OBVIOUS
<1>1. CASE DrainStep
  BY <1>1, DrainReceiveInv, DrainInsertInv, DrainReleaseInv DEF DrainStep
<1>2. CASE YieldDrained \/ RunDrained \/ KillDrained \/ Dispatch \/ AtomicSend
  BY <1>2, YieldDrainedInv, RunDrainedInv, KillDrainedInv, DispatchInv, AtomicSendInv
<1>3. CASE UpdateCurrent \/ \E st \in Outcomes : BodyReturn(st)
  BY <1>3, UpdateCurrentInv, BodyReturnInv
<1>4. CASE \E f \in Fibres : RunCall(f) \/ KillCall(f) \/ AtomicCall(f)
  <2>1. ASSUME NEW f \in Fibres, AtomicCall(f) PROVE Inv'
    BY <2>1, ClaimInv DEF AtomicCall, Users
  <2> QED
    BY <1>4, <2>1, CallInv
<1>5. CASE SchedCall \/ \E d \in Ticks : Sleep(d)
  BY <1>5, SchedEnterInv, SleepInv DEF SchedCall
<1>6. ASSUME NEW i \in Irqs, IrqSend(i) \/ \E f \in Fibres : IrqClaim(i, f)
      PROVE  Inv'
  <2>1. ASSUME NEW f \in Fibres, IrqClaim(i, f) PROVE Inv'
    <3>1. target' \in [Irqs -> Fibres \cup {None}]
      BY <2>1 DEF IrqClaim, Inv, TypeOK
    <3> QED
      BY <2>1, <3>1, ClaimInv DEF IrqClaim, Users, main
  <2> QED
    BY <1>6, <2>1, IrqSendInv
<1>7. CASE \/ SchedDrained \/ UpdateNobody \/ SchedReturn
           \/ AtomicRefused \/ \E i \in Irqs : IrqRefused(i)
           \/ UNCHANGED vars
  BY <1>7, MovesInv
<1> QED
  BY <1>1, <1>2, <1>3, <1>4, <1>5, <1>6, <1>7 DEF Next, MainStep, Service, IrqStep

\* The inductive invariant holds of every behaviour of the scheduler.
THEOREM FibreInvariance == Spec => []Inv
  BY FibreInit, FibreStep, PTL DEF Spec

\* Every word of the scheduler has its type, in particular a message that is
\* drained is always a fibre.
THEOREM FibreTypes == Spec => []TypeOK
<1>1. Inv => TypeOK
  BY DEF Inv
<1> QED
  BY FibreInvariance, <1>1, PTL

\* However many fibres there are, the one link of a fibre is never in two
\* places: on the run queue and the timer queue, or twice on either.
THEOREM LinkedOnce == Spec => []OneLink
<1>1. Inv => OneLink
  BY DEF Inv
<1> QED
  BY FibreInvariance, <1>1, PTL

\* However many interrupts there are, the recursion of handle_atomic_runq and
\* fibre_run is no deeper than atomic_runq is long and gives back all it took.
THEOREM DrainBounded == Spec => []DrainDiscipline
<1>1. Inv => DrainDiscipline
  BY DEF Inv
<1> QED
  BY FibreInvariance, <1>1, PTL

-----------------------------------------------------------------------------
(* What a step may never do                                                *)

\* A fibre that exited or failed has been given back the top of its body, unless
\* it is the one that runs, whose state is brought up to date on the next call.
Fresh ==
    \A f \in Fibres :
        state[f] \in {"EXITED", "FAILED"} =>
            \/ priv[f] = "top"
            \/ f = current /\ pc # "dispatch" /\ call.op # "yield"

\* Fresh is kept with the help of Inv.
LEMMA FreshStep == Inv /\ Fresh /\ [Next]_vars => Fresh'
<1> SUFFICES ASSUME Inv, Fresh, [Next]_vars PROVE Fresh'
  OBVIOUS
<1>1. CASE UpdateCurrent
  <2>1. /\ current' = current /\ current \in Fibres
        /\ state' = [state EXCEPT ![current] = kstate]
        /\ priv' = IF kstate \in {"EXITED", "FAILED"}
                   THEN [priv EXCEPT ![current] = "top"] ELSE priv
    BY <1>1 DEF UpdateCurrent, Restart, kernel, Inv, TypeOK
  <2>2. \A f \in Fibres : f # current => state'[f] = state[f] /\ priv'[f] = priv[f]
    BY <2>1 DEF Inv, TypeOK
  <2>3. state'[current] \in {"EXITED", "FAILED"} => priv'[current] = "top"
    BY <2>1 DEF Inv, TypeOK
  <2> QED
    BY <2>2, <2>3 DEF Fresh
<1>2. ASSUME NEW st \in Outcomes, BodyReturn(st) PROVE Fresh'
  <2>1. /\ current' = current /\ current \in Fibres /\ state' = state
        /\ pc' # "dispatch" /\ call'.op # "yield"
        /\ priv' = IF st \in {"YIELDED", "WAITING"}
                   THEN [priv EXCEPT ![current] = "middle"] ELSE priv
    BY <1>2 DEF BodyReturn, Resume, Inv, Calling, NoCall
  <2>2. \A f \in Fibres : f # current => priv'[f] = priv[f]
    BY <2>1 DEF Inv, TypeOK
  <2> QED
    BY <2>1, <2>2 DEF Fresh
<1>3. CASE Dispatch
  BY <1>3 DEF Dispatch, Fresh, fibre
<1>4. CASE UpdateNobody
  <2>1. \A f \in Fibres : f # current
    BY <1>4 DEF UpdateNobody
  <2> QED
    BY <1>4, <2>1 DEF UpdateNobody, Fresh, fibre
<1>5. CASE YieldDrained
  BY <1>5 DEF YieldDrained, Drained, Fresh, fibre
<1>6. CASE DrainStep
  BY <1>6 DEF DrainStep, DrainReceive, DrainInsert, DrainRelease, Fresh, fibre, kernel
<1>7. CASE SchedDrained \/ SchedReturn
  BY <1>7 DEF SchedDrained, SchedReturn, Fresh, fibre, kernel
<1>8. CASE RunDrained \/ KillDrained \/ AtomicSend
  <2>1. /\ UNCHANGED <<state, priv, current>>
        /\ pc' \in {"idle", "body"} /\ call'.op # "yield"
    BY <1>8 DEF RunDrained, KillDrained, AtomicSend, Return, NoCall, Inv, TypeOK, fibre, kernel
  <2> QED
    BY <2>1 DEF Fresh
<1>9. ASSUME NEW f \in Fibres, RunCall(f) \/ KillCall(f) \/ AtomicCall(f) PROVE Fresh'
  <2>1. /\ UNCHANGED <<state, priv, current>>
        /\ pc' # "dispatch" /\ call'.op # "yield"
    BY <1>9 DEF RunCall, KillCall, CallDrain, AtomicCall, Enter, fibre, kernel
  <2> QED
    BY <2>1 DEF Fresh
<1>10. CASE SchedCall
  <2>1. /\ UNCHANGED <<state, priv, current>>
        /\ pc' # "dispatch" /\ (call' = call \/ call'.op = "sched")
    BY <1>10 DEF SchedCall, SchedEnter, NoCall, fibre
  <2> QED
    BY <2>1 DEF Fresh
<1>11. CASE AtomicRefused \/ \E i \in Irqs : IrqStep(i)
  BY <1>11 DEF AtomicRefused, IrqStep, IrqRefused, IrqSend, IrqClaim, Fresh, fibre, kernel, main
<1>12. ASSUME NEW d \in Ticks, Sleep(d) PROVE Fresh'
  BY <1>12 DEF Sleep, Fresh, fibre, kernel, main
<1>13. CASE UNCHANGED vars
  BY <1>13 DEF vars, Fresh, fibre, kernel, main
<1> QED
  BY <1>1, <1>2, <1>3, <1>4, <1>5, <1>6, <1>7, <1>8, <1>9, <1>10, <1>11, <1>12, <1>13
     DEF Next, MainStep, Service

\* A fibre that exited or failed starts from the top of its body when it is
\* dispatched again, also when the scheduler's fast path had run it several times
\* before its state was brought up to date.
THEOREM RestartsAtTop == Spec => RestartFromTop
<1>1. Init => Fresh
  BY DEF Init, Fresh
<1>2. Spec => []Fresh
  BY <1>1, FibreInvariance, FreshStep, PTL DEF Spec
<1>3. ASSUME Inv, Fresh, [Next]_vars, pc = "dispatch", pc' = "body",
             state[current'] \in {"EXITED", "FAILED"}
      PROVE  priv[current'] = "top"
  <2>1. Inv'
    BY <1>3, FibreStep
  <2>2. current' \in Fibres
    BY <1>3, <2>1 DEF Inv, Calling
  <2> QED
    BY <1>3, <2>2 DEF Fresh
<1>4. Inv /\ Fresh /\ [Next]_vars
        => [pc = "dispatch" /\ pc' = "body" /\ state[current'] \in {"EXITED", "FAILED"}
               => priv[current'] = "top"]_vars
  BY <1>3
<1> QED
  BY <1>2, <1>4, FibreInvariance, PTL DEF Spec, RestartFromTop

\* What each step does to the run queue
LEMMA RunqStep == Inv /\ [Next]_vars => NoFurther(runq', runq)
<1> SUFFICES ASSUME Inv, [Next]_vars PROVE NoFurther(runq', runq)
  OBVIOUS
<1>0. runq \in Seq(Fibres) /\ timerq \in Seq(Timers) /\ OneLink
  BY DEF Inv, TypeOK, Timers
<1>1. CASE runq' = runq
  BY <1>1 DEF NoFurther, Inv, OneLink
<1>2. ASSUME NEW f \in Fibres, MakeRunnable(f) PROVE NoFurther(runq', runq)
  BY <1>0, <1>2, MakeRunnableIs
<1>3. CASE DrainInsert
  <2>1. frames \in Seq(Fibres) /\ Len(frames) \in Nat /\ Len(frames) # 0
    BY <1>3 DEF DrainInsert, Inv, TypeOK
  <2>2. Len(frames) \in 1 .. Len(frames)
    BY <2>1
  <2>3. frames[Len(frames)] \in Fibres
    BY <2>1, <2>2, ElementOfSeq
  <2> QED
    BY <1>2, <1>3, <2>3 DEF DrainInsert
<1>4. CASE YieldDrained \/ RunDrained
  BY <1>2, <1>4 DEF YieldDrained, RunDrained, Drained, Inv, Calling
<1>5. CASE KillDrained
  BY <1>0, <1>5, OffRunqIs, Parts DEF KillDrained
<1>6. CASE Dispatch
  BY <1>0, <1>6, DispatchIs
<1>7. CASE \/ DrainReceive \/ DrainRelease \/ SchedDrained \/ UpdateCurrent \/ UpdateNobody
           \/ (\E st \in Outcomes : BodyReturn(st)) \/ SchedReturn \/ AtomicSend
  BY <1>1, <1>7 DEF DrainReceive, DrainRelease, SchedDrained, UpdateCurrent, UpdateNobody,
     BodyReturn, SchedReturn, AtomicSend, queues
<1>8. CASE Service \/ SchedCall
  BY <1>1, <1>8 DEF Service, RunCall, KillCall, CallDrain, AtomicCall, AtomicRefused, Sleep,
     SchedCall, SchedEnter, queues
<1>9. CASE (\E i \in Irqs : IrqStep(i)) \/ UNCHANGED vars
  BY <1>1, <1>9 DEF IrqStep, IrqRefused, IrqSend, IrqClaim, vars, queues
<1> QED
  BY <1>3, <1>4, <1>5, <1>6, <1>7, <1>8, <1>9 DEF Next, MainStep, DrainStep

\* However many fibres and interrupts there are, nothing gets in front of a fibre
\* that is on the run queue: its position only falls until it is dispatched.
THEOREM NobodyOvertakes == Spec => NeverOvertaken
<1>1. ASSUME Inv, [Next]_vars, NEW f \in Fibres, OnRunq(f), OnRunq(f)'
      PROVE  Position(f)' =< Position(f)
  <2>1. Position(f) \in 1 .. Len(runq) /\ runq[Position(f)] = f
    BY <1>1 DEF OnRunq, Contains, Position
  <2>2. Position(f)' \in 1 .. Len(runq') /\ runq'[Position(f)'] = f
    BY <1>1 DEF OnRunq, Contains, Position
  <2>3. NoFurther(runq', runq)
    BY <1>1, RunqStep
  <2> QED
    BY <2>1, <2>2, <2>3 DEF NoFurther
<1>2. Inv /\ [Next]_vars
        => [\A f \in Fibres : OnRunq(f) /\ OnRunq(f)' => Position(f)' =< Position(f)]_vars
  BY <1>1
<1> QED
  BY <1>2, FibreInvariance, PTL DEF Spec, NeverOvertaken

-----------------------------------------------------------------------------
(* Timers: the timer queue is in order across a wrap of the clock, no     *)
(* timer that has expired stays on it, and the wake-up time that           *)
(* fibre_scheduler_next returns is never too late.                         *)

-----------------------------------------------------------------------------
(* Arithmetic of the clock                                                 *)

\* % on a number at most one cycle out of range
LEMMA Reduce ==
    ASSUME NEW m \in Nat \ {0}, NEW x \in Int
    PROVE  /\ x \in 0 .. m - 1 => x % m = x
           /\ x \in m .. 2 * m - 1 => x % m = x - m
           /\ x \in -m .. -1 => x % m = x + m
  OBVIOUS

\* cyclecmp32: the difference that is less than half a cycle
LEMMA CycleIs ==
    ASSUME NEW a \in Ticks, NEW b \in Ticks
    PROVE  /\ CycleCmp(a, b) \in Int
           /\ CycleCmp(a, b) = IF a - b >= Half THEN a - b - 2 * Half
                               ELSE IF a - b < -Half THEN a - b + 2 * Half
                               ELSE a - b
<1> DEFINE m == 2 * Half
           x == a - b + Half
<1>1. m \in Nat \ {0} /\ x \in Int
  BY DEF Ticks
<1>2. /\ a - b >= Half => x \in m .. 2 * m - 1
      /\ a - b < -Half => x \in -m .. -1
      /\ ~ (a - b >= Half) /\ ~ (a - b < -Half) => x \in 0 .. m - 1
  BY DEF Ticks
<1>3. CycleCmp(a, b) = (x % m) - Half
  BY DEF CycleCmp
<1>4. /\ x \in 0 .. m - 1 => x % m = x
      /\ x \in m .. 2 * m - 1 => x % m = x - m
      /\ x \in -m .. -1 => x % m = x + m
  BY <1>1, Reduce
<1> QED
  BY <1>2, <1>3, <1>4 DEF Ticks

\* A difference is a 32-bit signed number.
LEMMA CycleRange ==
    ASSUME NEW a \in Ticks, NEW b \in Ticks
    PROVE  CycleCmp(a, b) \in -Half .. Half - 1
  BY CycleIs DEF Ticks

\* Differences to a third time can be subtracted, unless they are too far apart.
LEMMA CycleDiff ==
    ASSUME NEW a \in Ticks, NEW b \in Ticks, NEW t \in Ticks,
           CycleCmp(a, t) - CycleCmp(b, t) \in -Half .. Half - 1
    PROVE  CycleCmp(a, b) = CycleCmp(a, t) - CycleCmp(b, t)
<1>1. /\ CycleCmp(a, t) = IF a - t >= Half THEN a - t - 2 * Half
                          ELSE IF a - t < -Half THEN a - t + 2 * Half ELSE a - t
      /\ CycleCmp(b, t) = IF b - t >= Half THEN b - t - 2 * Half
                          ELSE IF b - t < -Half THEN b - t + 2 * Half ELSE b - t
      /\ CycleCmp(a, b) = IF a - b >= Half THEN a - b - 2 * Half
                          ELSE IF a - b < -Half THEN a - b + 2 * Half ELSE a - b
  BY CycleIs
<1>2. a \in Int /\ b \in Int /\ t \in Int /\ a >= 0 /\ b >= 0 /\ t >= 0
      /\ a < 2 * Half /\ b < 2 * Half /\ t < 2 * Half
  BY DEF Ticks
<1> QED
  BY <1>1, <1>2

\* No time is away from itself.
LEMMA CycleSelf ==
    ASSUME NEW a \in Ticks
    PROVE  CycleCmp(a, a) = 0
  BY CycleIs DEF Ticks

-----------------------------------------------------------------------------
(* The invariant: the distance of each timer from now                      *)

Off(x, t) == CycleCmp(x.due, t)

\* The distance of a timer
LEMMA OffIs ==
    ASSUME NEW x \in Timers, NEW t \in Ticks
    PROVE  x.due \in Ticks /\ Off(x, t) \in -Half .. Half - 1
<1>1. x.due \in Ticks
  BY DEF Timers
<1> QED
  BY <1>1, CycleRange DEF Off

\* Distances do not decrease along the list.  They differ by less than half a
\* cycle: that held when the clock moved last, which shifts them all alike.
Ordered(l, t) ==
    /\ \A i \in 1 .. Len(l) : Off(l[i], t) \in 1 - Half .. Half - 1
    /\ \A i, j \in 1 .. Len(l) : i < j => Off(l[i], t) =< Off(l[j], t)
    /\ \A i, j \in 1 .. Len(l) : Off(l[j], t) - Off(l[i], t) < Half

Ahead(l, t) == \A i \in 1 .. Len(l) : Off(l[i], t) >= 1

ClockInv == Ordered(timerq, now) /\ (Settled => Ahead(timerq, now))

\* No timers, so none out of order
LEMMA ClockInit == Init => ClockInv
  BY DEF Init, ClockInv, Ordered, Ahead

\* A list stays in order when nodes are taken out.
LEMMA ThinnedClock ==
    ASSUME NEW l \in Seq(Timers), NEW q \in Seq(Timers), Thins(q, l), NEW t
    PROVE  /\ Ordered(l, t) => Ordered(q, t)
           /\ Ahead(l, t) => Ahead(q, t)
<1>1. PICK m \in [1 .. Len(q) -> 1 .. Len(l)] :
         /\ \A i, j \in 1 .. Len(q) : i < j => m[i] < m[j]
         /\ \A i \in 1 .. Len(q) : q[i] = l[m[i]]
  BY DEF Thins
<1>2. \A i \in 1 .. Len(q) : m[i] \in 1 .. Len(l) /\ Off(q[i], t) = Off(l[m[i]], t)
  BY <1>1
<1>3. Ahead(l, t) => Ahead(q, t)
  BY <1>2 DEF Ahead
<1>4. ASSUME Ordered(l, t) PROVE Ordered(q, t)
  <2>1. \A i \in 1 .. Len(q) : Off(q[i], t) \in 1 - Half .. Half - 1
    BY <1>2, <1>4 DEF Ordered
  <2>2. ASSUME NEW i \in 1 .. Len(q), NEW j \in 1 .. Len(q), i < j
        PROVE  Off(q[i], t) =< Off(q[j], t)
    <3>1. m[i] \in 1 .. Len(l) /\ m[j] \in 1 .. Len(l) /\ m[i] < m[j]
      BY <1>1, <2>2
    <3>2. Off(l[m[i]], t) =< Off(l[m[j]], t)
      BY <1>4, <3>1 DEF Ordered
    <3> QED
      BY <1>2, <3>2
  <2>3. \A i, j \in 1 .. Len(q) : Off(q[j], t) - Off(q[i], t) < Half
    BY <1>2, <1>4 DEF Ordered
  <2> QED
    BY <2>1, <2>2, <2>3 DEF Ordered
<1> QED
  BY <1>3, <1>4

\* The order of the distances is the order that duetime_cmp sees.
LEMMA OrderedIs ==
    ASSUME NEW l \in Seq(Timers), NEW t \in Ticks, Ordered(l, t),
           NEW i \in 1 .. Len(l), NEW j \in 1 .. Len(l), i < j
    PROVE  DueCmp(l[i], l[j]) =< 0
<1>1. l[i] \in Timers /\ l[j] \in Timers
  BY ElementOfSeq
<1>2. /\ l[i].due \in Ticks /\ l[j].due \in Ticks
      /\ Off(l[i], t) \in Int /\ Off(l[j], t) \in Int
  BY <1>1, OffIs
<1>3. Off(l[i], t) - Off(l[j], t) \in -Half .. 0
  BY <1>2 DEF Ordered
<1>4. CycleCmp(l[i].due, l[j].due) = Off(l[i], t) - Off(l[j], t)
  BY <1>2, <1>3, CycleDiff DEF Off
<1> QED
  BY <1>3, <1>4 DEF DueCmp

-----------------------------------------------------------------------------
(* The steps that change the clock or the timers                           *)

\* Time goes on by less than half a cycle: no timer is passed by more than that.
LEMMA ClockMoves ==
    ASSUME Inv, ClockInv, NEW t \in Ticks, SchedEnter(t)
    PROVE  ClockInv'
<1> DEFINE delta == CycleCmp(t, now)
<1>1. /\ timerq \in Seq(Timers) /\ now \in Ticks
      /\ Ordered(timerq, now) /\ Ahead(timerq, now)
  BY DEF Inv, TypeOK, Timers, Calling, NoCall, ClockInv, Settled, SchedEnter
<1>2. now' = t /\ timerq' = timerq /\ delta >= 0
  BY DEF SchedEnter, queues
<1>3. delta \in 0 .. Half - 1
  <2>1. delta \in -Half .. Half - 1
    BY <1>1, CycleRange
  <2> HIDE DEF delta
  <2> QED
    BY <1>2, <2>1
<1> HIDE DEF delta
<1>4. ASSUME NEW i \in 1 .. Len(timerq)
      PROVE  /\ Off(timerq[i], t) = Off(timerq[i], now) - delta
             /\ Off(timerq[i], now) \in 1 .. Half - 1
  <2>1. timerq[i] \in Timers
    BY <1>1, ElementOfSeq
  <2>2. timerq[i].due \in Ticks /\ Off(timerq[i], now) \in 1 .. Half - 1
    BY <1>1, <2>1, OffIs DEF Ahead
  <2>3. CycleCmp(timerq[i].due, now) - CycleCmp(t, now) \in -Half .. Half - 1
    BY <1>3, <2>2 DEF Off, delta
  <2> QED
    BY <1>1, <2>2, <2>3, CycleDiff DEF Off, delta
<1>5. Ordered(timerq, t)
  BY <1>1, <1>3, <1>4 DEF Ordered
<1>6. Settled' => Ahead(timerq, t)
  <2>1. CASE timerq = <<>>
    BY <2>1 DEF Ahead
  <2>2. CASE timerq # <<>>
    BY <2>2 DEF SchedEnter, FastPath, Settled, NoCall
  <2> QED
    BY <2>1, <2>2
<1> QED
  BY <1>2, <1>5, <1>6 DEF ClockInv

\* A fibre that is made runnable, or killed, leaves the others as they were.
LEMMA ClockThins ==
    ASSUME Inv, ClockInv, timerq' \in Seq(Timers), Thins(timerq', timerq),
           now' = now, Settled' => Settled
    PROVE  ClockInv'
<1>1. timerq \in Seq(Timers)
  BY DEF Inv, TypeOK, Timers
<1> QED
  BY <1>1, ThinnedClock DEF ClockInv

\* fibre_run, called for whatever reason
LEMMA ClockRunnable ==
    ASSUME Inv, ClockInv, NEW f \in Fibres, MakeRunnable(f), now' = now,
           Settled' => Settled
    PROVE  ClockInv'
<1>1. timerq' \in Seq(Timers) /\ Thins(timerq', timerq)
  BY MakeRunnableIs DEF Inv, TypeOK, Timers
<1> QED
  BY <1>1, ClockThins

\* fibre_kill
LEMMA ClockKill ==
    ASSUME Inv, ClockInv, KillDrained
    PROVE  ClockInv'
<1>1. OnceTimed(timerq) /\ timerq \in Seq(Timers)
  BY Parts DEF Inv, TypeOK, Timers
<1>2. timerq' = OffTimerq(call.fibre) /\ now' = now /\ Settled
  BY DEF KillDrained, Drained, Settled, kernel
<1>3. timerq' \in Seq(Timers) /\ Thins(timerq', timerq)
  BY <1>1, <1>2, OffTimerqIs
<1> QED
  BY <1>2, <1>3, ClockThins

\* handle_timerq takes every timer whose time has come, although it looks no
\* further than the first that has not.
LEMMA ClockDispatch ==
    ASSUME Inv, ClockInv, Dispatch
    PROVE  ClockInv'
<1> DEFINE n == Expired
<1>1. /\ timerq \in Seq(Timers) /\ now \in Ticks /\ now' = now
      /\ Ordered(timerq, now)
  BY DEF Inv, TypeOK, Timers, ClockInv, Dispatch
<1>2. /\ timerq' \in Seq(Timers)
      /\ Len(timerq') = Len(timerq) - n
      /\ \A i \in 1 .. Len(timerq') : timerq'[i] = timerq[n + i]
  BY <1>1, DispatchIs DEF Inv, TypeOK
<1>3. n \in 0 .. Len(timerq) /\ (n < Len(timerq) => ~ Due(timerq[n + 1]))
  BY <1>1, ExpiredIs
<1> HIDE DEF n
<1>4. \A i \in 1 .. Len(timerq') : n + i \in 1 .. Len(timerq)
  BY <1>2, <1>3
<1>5. \A i \in 1 .. Len(timerq) : Off(timerq[i], now) \in Int
  <2> TAKE i \in 1 .. Len(timerq)
  <2>1. timerq[i] \in Timers
    BY <1>1, ElementOfSeq
  <2> QED
    BY <1>1, <2>1, OffIs
<1>6. Ordered(timerq', now)
  <2>1. /\ \A i \in 1 .. Len(timerq') : Off(timerq'[i], now) \in 1 - Half .. Half - 1
        /\ \A i, j \in 1 .. Len(timerq') :
              Off(timerq'[j], now) - Off(timerq'[i], now) < Half
    BY <1>1, <1>2, <1>4 DEF Ordered
  <2>2. ASSUME NEW i \in 1 .. Len(timerq'), NEW j \in 1 .. Len(timerq'), i < j
        PROVE  Off(timerq'[i], now) =< Off(timerq'[j], now)
    <3>1. n + i \in 1 .. Len(timerq) /\ n + j \in 1 .. Len(timerq) /\ n + i < n + j
      BY <1>3, <1>4, <2>2
    <3>2. Off(timerq[n + i], now) =< Off(timerq[n + j], now)
      BY <1>1, <3>1 DEF Ordered
    <3> QED
      BY <1>2, <3>2
  <2> QED
    BY <2>1, <2>2 DEF Ordered
<1>7. Ahead(timerq', now)
  <2> SUFFICES ASSUME NEW i \in 1 .. Len(timerq') PROVE Off(timerq'[i], now) >= 1
    BY DEF Ahead
  <2>1. n + 1 \in 1 .. Len(timerq) /\ n < Len(timerq)
    BY <1>2, <1>3, <1>4
  <2>2. Off(timerq[n + 1], now) >= 1
    BY <1>3, <1>5, <2>1 DEF Due, Off
  <2>3. Off(timerq[n + 1], now) =< Off(timerq[n + i], now)
    <3>1. n + i \in 1 .. Len(timerq) /\ (n + 1 = n + i \/ n + 1 < n + i)
      BY <1>3, <1>4
    <3>2. CASE n + 1 = n + i
      BY <1>5, <2>1, <3>2
    <3>3. CASE n + 1 < n + i
      BY <1>1, <2>1, <3>1, <3>3 DEF Ordered
    <3> QED
      BY <3>1, <3>2, <3>3
  <2>4. Off(timerq'[i], now) = Off(timerq[n + i], now) /\ n + i \in 1 .. Len(timerq)
    BY <1>2, <1>4
  <2> QED
    BY <1>5, <2>1, <2>2, <2>3, <2>4
<1> QED
  BY <1>1, <1>6, <1>7 DEF ClockInv

\* fibre_timeout puts a fibre at its place: behind all that are due earlier.
LEMMA ClockSleep ==
    ASSUME Inv, ClockInv, NEW d \in Ticks, Sleep(d)
    PROVE  ClockInv'
<1> DEFINE x == Timer(current, d)
           n == Len(timerq)
<1>1. /\ timerq \in Seq(Timers) /\ now \in Ticks /\ now' = now
      /\ Ordered(timerq, now) /\ Ahead(timerq, now)
  BY DEF Inv, TypeOK, Timers, Calling, NoCall, ClockInv, Settled, Sleep, kernel
<1>2. x \in Timers /\ timerq' = InsertSorted(timerq, x, DueCmp) /\ CycleCmp(x.due, now) > 0
  BY DEF Inv, Calling, Timer, Timers, Sleep
<1> HIDE DEF x
<1>3. Off(x, now) \in 1 .. Half - 1
  <2>1. Off(x, now) \in -Half .. Half - 1 /\ Off(x, now) > 0
    BY <1>1, <1>2, OffIs DEF Off
  <2> QED
    BY <2>1
<1>4. \A k \in 1 .. n : /\ Off(timerq[k], now) \in 1 .. Half - 1
                        /\ DueCmp(x, timerq[k]) = Off(x, now) - Off(timerq[k], now)
  <2> TAKE k \in 1 .. n
  <2>1. timerq[k] \in Timers
    BY <1>1, ElementOfSeq
  <2>2. Off(timerq[k], now) \in -Half .. Half - 1 /\ Off(timerq[k], now) >= 1
    BY <1>1, <2>1, OffIs DEF Ahead
  <2>3. Off(timerq[k], now) \in 1 .. Half - 1
    BY <2>2
  <2>4. CycleCmp(x.due, now) - CycleCmp(timerq[k].due, now) \in -Half .. Half - 1
    BY <1>3, <2>3 DEF Off
  <2>5. x.due \in Ticks /\ timerq[k].due \in Ticks
    BY <1>1, <1>2, <2>1, OffIs
  <2>6. DueCmp(x, timerq[k]) = Off(x, now) - Off(timerq[k], now)
    BY <1>1, <2>4, <2>5, CycleDiff DEF DueCmp, Off
  <2> QED
    BY <2>3, <2>6
<1>5. PICK i \in 1 .. n + 1 :
         /\ Inserted(timerq', timerq, i, x)
         /\ i =< n => /\ DueCmp(x, timerq[i]) < 0
                      /\ \A j \in 1 .. i - 1 : DueCmp(x, timerq[j]) >= 0
         /\ i = n + 1 /\ n > 0 => DueCmp(x, timerq[n]) >= 0
  BY <1>1, <1>2, InsertSortedIs
\* The timers before place i are due no later than x, those from i on later.
<1>6. \A k \in 1 .. n : /\ k < i => Off(timerq[k], now) =< Off(x, now)
                        /\ k >= i => Off(x, now) =< Off(timerq[k], now)
  <2> TAKE k \in 1 .. n
  <2>1. \A j \in 1 .. n : j < k => Off(timerq[j], now) =< Off(timerq[k], now)
    BY <1>1 DEF Ordered
  <2>2. \A j \in 1 .. n : k < j => Off(timerq[k], now) =< Off(timerq[j], now)
    BY <1>1 DEF Ordered
  <2>3. CASE i =< n
    <3>1. i \in 1 .. n
      BY <2>3
    <3>2. Off(x, now) =< Off(timerq[i], now)
      BY <1>3, <1>4, <1>5, <3>1
    <3>3. k > i => Off(x, now) =< Off(timerq[k], now)
      BY <1>3, <1>4, <2>1, <3>1, <3>2
    <3>4. k < i => Off(timerq[k], now) =< Off(x, now)
      BY <1>3, <1>4, <1>5, <3>1
    <3> QED
      BY <3>2, <3>3, <3>4
  <2>4. CASE i = n + 1
    <3>1. n \in 1 .. n
      OBVIOUS
    <3>2. Off(timerq[n], now) =< Off(x, now)
      BY <1>3, <1>4, <1>5, <2>4, <3>1
    <3>3. Off(timerq[k], now) =< Off(timerq[n], now)
      <4>1. k = n \/ k < n
        OBVIOUS
      <4> QED
        BY <1>4, <2>2, <3>1, <4>1
    <3> QED
      BY <1>3, <1>4, <2>4, <3>1, <3>2, <3>3
  <2> QED
    BY <2>3, <2>4
<1> DEFINE old(k) == IF k < i THEN k ELSE k - 1
<1>7. /\ Len(timerq') = n + 1 /\ timerq'[i] = x
      /\ \A k \in 1 .. n + 1 : k # i => old(k) \in 1 .. n /\ timerq'[k] = timerq[old(k)]
  BY <1>5 DEF Inserted
<1>8. ASSUME NEW k \in 1 .. n + 1
      PROVE  Off(timerq'[k], now) \in 1 .. Half - 1
  BY <1>3, <1>4, <1>7
<1>9. ASSUME NEW j \in 1 .. n + 1, NEW k \in 1 .. n + 1, j < k
      PROVE  Off(timerq'[j], now) =< Off(timerq'[k], now)
  <2>1. CASE j = i
    <3>1. old(k) \in 1 .. n /\ old(k) >= i /\ timerq'[k] = timerq[old(k)]
      BY <1>7, <1>9, <2>1
    <3> QED
      BY <1>6, <1>7, <2>1, <3>1
  <2>2. CASE k = i
    <3>1. j \in 1 .. n /\ j < i /\ timerq'[j] = timerq[j]
      BY <1>7, <1>9, <2>2
    <3> QED
      BY <1>6, <1>7, <2>2, <3>1
  <2>3. CASE j # i /\ k # i
    <3>1. /\ old(j) \in 1 .. n /\ timerq'[j] = timerq[old(j)]
          /\ old(k) \in 1 .. n /\ timerq'[k] = timerq[old(k)]
          /\ old(j) < old(k)
      BY <1>7, <1>9, <2>3
    <3> HIDE DEF old
    <3> QED
      BY <1>1, <3>1 DEF Ordered
  <2> QED
    BY <2>1, <2>2, <2>3
<1> HIDE DEF old
<1>10. Ordered(timerq', now)
  <2>1. \A k \in 1 .. n + 1 : Off(timerq'[k], now) \in 1 - Half .. Half - 1
    BY <1>8
  <2>2. \A j, k \in 1 .. n + 1 : Off(timerq'[k], now) - Off(timerq'[j], now) < Half
    BY <1>8
  <2> QED
    BY <1>7, <1>9, <2>1, <2>2 DEF Ordered
<1>11. Ahead(timerq', now)
  BY <1>7, <1>8 DEF Ahead
<1> QED
  BY <1>1, <1>10, <1>11 DEF ClockInv

\* The invariant is inductive.
LEMMA ClockStep == Inv /\ ClockInv /\ [Next]_vars => ClockInv'
<1> SUFFICES ASSUME Inv, ClockInv, [Next]_vars PROVE ClockInv'
  OBVIOUS
<1>1. CASE SchedCall
  BY <1>1, ClockMoves DEF SchedCall
<1>2. CASE DrainInsert
  <2>1. frames[Len(frames)] \in Fibres
    <3>1. frames \in Seq(Fibres) /\ Len(frames) \in 1 .. Len(frames)
      BY <1>2 DEF Inv, TypeOK, DrainInsert
    <3> QED
      BY <3>1, ElementOfSeq
  <2> QED
    BY <1>2, <2>1, ClockRunnable DEF DrainInsert, kernel, Settled
<1>3. CASE YieldDrained
  BY <1>3, ClockRunnable DEF YieldDrained, Drained, Inv, Calling, kernel, Settled
<1>4. CASE RunDrained
  BY <1>4, ClockRunnable DEF RunDrained, Drained, Inv, Calling, kernel, Settled
<1>5. CASE KillDrained \/ Dispatch \/ \E d \in Ticks : Sleep(d)
  BY <1>5, ClockKill, ClockDispatch, ClockSleep
<1>6. CASE \/ DrainReceive \/ DrainRelease \/ SchedDrained \/ UpdateNobody \/ SchedReturn
           \/ \E st \in Outcomes : BodyReturn(st)
           \/ AtomicRefused \/ \E i \in Irqs : IrqStep(i)
           \/ UNCHANGED vars
  <2>1. UNCHANGED <<now, timerq, call>>
    BY <1>6 DEF DrainReceive, DrainRelease, SchedDrained, UpdateNobody, SchedReturn,
                BodyReturn, AtomicRefused, IrqStep, IrqRefused, IrqSend, IrqClaim,
                vars, main, kernel, queues
  <2> QED
    BY <2>1 DEF ClockInv, Settled
<1>7. CASE UpdateCurrent \/ AtomicSend \/ \E f \in Fibres : RunCall(f) \/ KillCall(f) \/ AtomicCall(f)
  <2>1. UNCHANGED <<now, timerq>> /\ (Settled' => Settled)
    BY <1>7 DEF UpdateCurrent, AtomicSend, RunCall, KillCall, AtomicCall, CallDrain, Enter,
                Return, NoCall, Settled, Inv, TypeOK, Calling, kernel, queues
  <2> QED
    BY <2>1 DEF ClockInv
<1> QED
  BY <1>1, <1>2, <1>3, <1>4, <1>5, <1>6, <1>7 DEF Next, MainStep, DrainStep, Service

\* The invariants hold of every behaviour of the scheduler.
THEOREM ClockInvariance == Spec => [](Inv /\ ClockInv)
<1>1. Init => Inv /\ ClockInv
  BY FibreInit, ClockInit
<1>2. Inv /\ ClockInv /\ [Next]_vars => (Inv /\ ClockInv)'
  BY FibreStep, ClockStep
<1> QED
  BY <1>1, <1>2, PTL DEF Spec

-----------------------------------------------------------------------------

\* What it says of the timer queue
LEMMA InOrder == Inv /\ ClockInv => TimersInOrder
<1> SUFFICES ASSUME Inv, ClockInv PROVE TimersInOrder
  OBVIOUS
<1>1. timerq \in Seq(Timers) /\ now \in Ticks /\ Ordered(timerq, now)
  BY DEF Inv, TypeOK, Timers, ClockInv
<1>2. \A i, j \in 1 .. Len(timerq) : i < j => DueCmp(timerq[i], timerq[j]) =< 0
  BY <1>1, OrderedIs
<1>3. ASSUME Settled, NEW i \in 1 .. Len(timerq) PROVE ~ Due(timerq[i])
  BY <1>1, <1>3 DEF ClockInv, Ahead, Ordered, Off, Due
<1> QED
  BY <1>2, <1>3 DEF TimersInOrder

\* However long the cycle of the clock is and wherever it wraps, the timer queue
\* is in order of due time, and no fibre is left on it once its time has come:
\* handle_timerq may stop at the first timer that is not due.
THEOREM TimersOrdered == Spec => []TimersInOrder
  BY ClockInvariance, InOrder, PTL

\* The end of the longest sleep is half a cycle ahead, less one.
LEMMA Farthest ==
    ASSUME NEW t \in Ticks
    PROVE  /\ (t + Half - 1) % (2 * Half) \in Ticks
           /\ CycleCmp((t + Half - 1) % (2 * Half), t) = Half - 1
<1> DEFINE m == 2 * Half
           x == t + Half - 1
<1>1. m \in Nat \ {0} /\ x \in Int /\ t \in 0 .. m - 1
  BY DEF Ticks
<1>2. /\ x \in 0 .. m - 1 => x % m = x
      /\ x \in m .. 2 * m - 1 => x % m = x - m
  BY <1>1, Reduce
<1>3. x \in 0 .. m - 1 \/ x \in m .. 2 * m - 1
  BY <1>1
<1>4. x % m \in Ticks /\ (x % m = x \/ x % m = x - m)
  BY <1>1, <1>2, <1>3 DEF Ticks
<1>5. CycleCmp(x % m, t) = IF (x % m) - t >= Half THEN (x % m) - t - 2 * Half
                           ELSE IF (x % m) - t < -Half THEN (x % m) - t + 2 * Half
                           ELSE (x % m) - t
  BY <1>4, CycleIs
<1> QED
  BY <1>1, <1>4, <1>5

\* What it says of the time that fibre_scheduler_next returns
LEMMA Wakeup == Inv /\ ClockInv => WakeupSound
<1> SUFFICES ASSUME Inv, ClockInv, pc = "wakeup" PROVE WakeupSound
  BY DEF WakeupSound
<1> DEFINE w == NextWakeup
<1>1. /\ timerq \in Seq(Timers) /\ now \in Ticks
      /\ Ordered(timerq, now) /\ Ahead(timerq, now)
  BY DEF Inv, TypeOK, Timers, Calling, NoCall, ClockInv, Settled
<1>2. \A i \in 1 .. Len(timerq) :
         timerq[i].due \in Ticks /\ Off(timerq[i], now) \in 1 .. Half - 1
  <2> TAKE i \in 1 .. Len(timerq)
  <2>1. timerq[i] \in Timers
    BY <1>1, ElementOfSeq
  <2>2. Off(timerq[i], now) \in -Half .. Half - 1 /\ Off(timerq[i], now) >= 1
    BY <1>1, <2>1, OffIs DEF Ahead
  <2> QED
    BY <1>1, <2>1, <2>2, OffIs
<1>3. runq # <<>> \/ AQ!Ready \/ (current # None /\ kstate = "YIELDED") => w = now
  BY DEF NextWakeup
\* It is no further ahead than the first timer, which is no further than the others.
<1>4. /\ w \in Ticks /\ CycleCmp(w, now) \in 0 .. Half - 1
      /\ \A i \in 1 .. Len(timerq) : CycleCmp(w, now) =< Off(timerq[i], now)
  <2>1. CASE w = now
    BY <1>1, <1>2, <2>1, CycleSelf
  <2>2. CASE timerq = <<>> /\ w = (now + Half - 1) % (2 * Half)
    BY <1>1, <2>2, Farthest
  <2>3. CASE timerq # <<>> /\ w = Head(timerq).due
    <3>1. 1 \in 1 .. Len(timerq) /\ Head(timerq) = timerq[1]
      BY <1>1, <2>3
    <3>2. CycleCmp(w, now) = Off(timerq[1], now)
      BY <2>3, <3>1 DEF Off
    <3>3. ASSUME NEW i \in 1 .. Len(timerq)
          PROVE  Off(timerq[1], now) =< Off(timerq[i], now)
      <4>1. i = 1 \/ 1 < i
        OBVIOUS
      <4> QED
        BY <1>1, <1>2, <3>1, <4>1 DEF Ordered
    <3> QED
      BY <1>2, <2>3, <3>1, <3>2, <3>3
  <2> QED
    BY <2>1, <2>2, <2>3 DEF NextWakeup
<1> HIDE DEF w
<1>5. ASSUME NEW i \in 1 .. Len(timerq) PROVE CycleCmp(w, timerq[i].due) =< 0
  <2>1. CycleCmp(w, now) - CycleCmp(timerq[i].due, now) \in -Half .. 0
    BY <1>2, <1>4 DEF Off
  <2>2. CycleCmp(w, timerq[i].due) = CycleCmp(w, now) - CycleCmp(timerq[i].due, now)
    BY <1>1, <1>2, <1>4, <2>1, CycleDiff
  <2> QED
    BY <2>1, <2>2
<1> QED
  BY <1>3, <1>4, <1>5 DEF WakeupSound, w

\* However long the cycle of the clock is, the time that fibre_scheduler_next
\* returns is at once if a fibre can run, and otherwise no later than any timer.
THEOREM WakeupInTime == Spec => []WakeupSound
  BY ClockInvariance, Wakeup, PTL
=============================================================================
