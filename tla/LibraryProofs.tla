---------------------------- MODULE LibraryProofs ----------------------------
(***************************************************************************)
(* Machine-checked proofs about the smaller parts of the library, for      *)
(* every value of their constants.  Each part has an inductive invariant   *)
(* of its own; the parts share no state.                                   *)
(***************************************************************************)
EXTENDS Library, Integers, Sequences, FiniteSetTheorems, SequenceTheorems,
        WellFoundedInduction, TLAPS

\* A step of the library is a step of a part, and leaves the others alone.
LEMMA StepOfParts ==
    [Next]_vars =>
        /\ [Log!Next]_log /\ [Ring!Next]_ring /\ [Knob!Next]_knob /\ [Rate!Next]_rate
        /\ [Fade!Next]_fade /\ [Stm!Next]_stm /\ [Usb!Next]_usb /\ [Gpio!Next]_gpio
        /\ [Loop!Next]_loop /\ [Bench!Next]_bench /\ [Watch!Next]_watch
  BY DEF Next, LogStep, RingStep, KnobStep, RateStep, FadeStep, StmStep, UsbStep, GpioStep,
         BenchStep, WatchStep, LoopStep, Exited, vars, parts, more

\* % on a number at most one cycle out of range
LEMMA Reduce ==
    ASSUME NEW m \in Nat \ {0}, NEW x \in Int
    PROVE  /\ x \in 0 .. m - 1 => x % m = x
           /\ x \in m .. 2 * m - 1 => x % m = x - m
           /\ x \in -m .. -1 => x % m = x + m
  OBVIOUS

\* Quotient and remainder are unique.
LEMMA Unique ==
    ASSUME NEW m \in Nat \ {0}, NEW x \in Int, NEW q \in Int, NEW r \in 0 .. m - 1,
           x = m * q + r
    PROVE  x % m = r
<1> DEFINE p == x \div m
           s == x % m
<1>1. s \in 0 .. m - 1 /\ p \in Int /\ x = m * p + s
  OBVIOUS
<1> HIDE DEF p, s
<1>2. m * (q - p) = s - r
  BY <1>1, Z3
<1>3. CASE q = p
  BY <1>1, <1>2, <1>3
<1>4. CASE q > p
  <2>1. m * (q - p) >= m
    BY <1>1, <1>4
  <2> QED
    BY <1>1, <1>2, <2>1
<1>5. CASE q < p
  <2>1. m * (q - p) =< -m
    BY <1>1, <1>5
  <2> QED
    BY <1>1, <1>2, <2>1
<1>6. s = r
  BY <1>1, <1>3, <1>4, <1>5
<1> QED
  BY <1>6 DEF s

\* The sum of two numbers, modulo m
LEMMA Sums ==
    ASSUME NEW m \in Nat \ {0}, NEW a \in 0 .. m - 1, NEW b \in 0 .. m - 1
    PROVE  (a + b) % m \in 0 .. m - 1 /\ (a + b) % m \in {a + b, a + b - m}
<1> DEFINE x == a + b
<1>1. x \in Int /\ x \in 0 .. 2 * m - 1
  OBVIOUS
<1> HIDE DEF x
<1>2. /\ x \in 0 .. m - 1 => x % m = x
      /\ x \in m .. 2 * m - 1 => x % m = x - m
  BY <1>1, Reduce
<1>3. x % m \in 0 .. m - 1 /\ x % m \in {x, x - m}
  BY <1>1, <1>2
<1> QED
  BY <1>3 DEF x

\* One more and one less, modulo m
LEMMA NextAndBefore ==
    ASSUME NEW m \in Nat \ {0}, NEW x \in 0 .. m - 1
    PROVE  /\ (x + 1) % m = IF x = m - 1 THEN 0 ELSE x + 1
           /\ (x - 1) % m = IF x = 0 THEN m - 1 ELSE x - 1
<1>1. ASSUME NEW y \in Int, y = x + 1
      PROVE  y % m = IF x = m - 1 THEN 0 ELSE x + 1
  <2>1. /\ y \in 0 .. m - 1 => y % m = y
        /\ y \in m .. 2 * m - 1 => y % m = y - m
    BY <1>1, Reduce
  <2> QED
    BY <1>1, <2>1
<1>2. ASSUME NEW y \in Int, y = x - 1
      PROVE  y % m = IF x = 0 THEN m - 1 ELSE x - 1
  <2>1. /\ y \in 0 .. m - 1 => y % m = y
        /\ y \in -m .. -1 => y % m = y + m
    BY <1>2, Reduce
  <2> QED
    BY <1>2, <2>1
<1> QED
  BY <1>1, <1>2

\* What cyclecmp32 makes of two times of a cycle of m
LEMMA Cyclic ==
    ASSUME NEW m \in Nat \ {0}, NEW a \in 0 .. m - 1, NEW b \in 0 .. m - 1
    PROVE  LET h == m \div 2
               e == ((a - b + h) % m) - h
           IN  e \in -h .. m - h - 1 /\ e \in {a - b, (a - b) + m, (a - b) - m}
<1> DEFINE h == m \div 2
           x == (a - b) + h
<1>1. h \in Nat /\ 2 * h =< m
  OBVIOUS
<1>2. x \in Int /\ x \in -m .. 2 * m - 1 /\ x = (a - b) + h
  BY <1>1
<1> HIDE DEF h, x
<1>3. /\ x \in 0 .. m - 1 => x % m = x
      /\ x \in m .. 2 * m - 1 => x % m = x - m
      /\ x \in -m .. -1 => x % m = x + m
  BY <1>2, Reduce
<1>4. x % m \in 0 .. m - 1
  BY <1>2, <1>3
<1>5. (x % m) - h \in -h .. m - h - 1
  BY <1>1, <1>4
<1>6. (x % m) - h \in {a - b, (a - b) + m, (a - b) - m}
  BY <1>1, <1>2, <1>3
<1> QED
  BY <1>5, <1>6 DEF h, x

-----------------------------------------------------------------------------
(* RotEnc *)

\* The contacts agree with the knob, and the counter with its position; count is that
\* of the last detent, where the knob is, or that it has been turned back from.
KnobInv ==
    /\ quarter \in 0 .. 3 /\ clicks \in 0 .. (InternalMod \div 4) - 1
    /\ last_state = Knob!Gray[quarter]
    /\ internal_count = 4 * clicks + quarter
    /\ count = detent % CountMod
    /\ quarter = 0 => detent = clicks
    /\ detent \in 0 .. (InternalMod \div 4) - 1
    /\ clicks \in {detent, (detent - 1) % (InternalMod \div 4)}

\* The knob goes round in quarters; the counter, modulo whole clicks, with it.
LEMMA Quarters ==
    ASSUME NEW M \in Nat \ {0}, NEW c \in 0 .. M - 1, NEW q \in 0 .. 3
    PROVE  /\ (q + 1) % 4 = IF q = 3 THEN 0 ELSE q + 1
           /\ (q - 1) % 4 = IF q = 0 THEN 3 ELSE q - 1
           /\ (c + 1) % M = IF c = M - 1 THEN 0 ELSE c + 1
           /\ (c - 1) % M = IF c = 0 THEN M - 1 ELSE c - 1
           /\ (4 * c + q + 1) % (4 * M) =
                  IF q = 3 THEN 4 * ((c + 1) % M) ELSE 4 * c + q + 1
           /\ (4 * c + q - 1) % (4 * M) =
                  IF q = 0 THEN 4 * ((c - 1) % M) + 3 ELSE 4 * c + q - 1
           /\ (4 * c + q) \div 4 = c
<1>1. /\ (q + 1) % 4 = IF q = 3 THEN 0 ELSE q + 1
      /\ (q - 1) % 4 = IF q = 0 THEN 3 ELSE q - 1
      /\ (4 * c + q) \div 4 = c
  OBVIOUS
<1>2. /\ (c + 1) % M = IF c = M - 1 THEN 0 ELSE c + 1
      /\ (c - 1) % M = IF c = 0 THEN M - 1 ELSE c - 1
  BY NextAndBefore
<1> DEFINE m == 4 * M
           x == 4 * c + q
<1>3. m \in Nat \ {0} /\ m = 4 * M /\ x \in 0 .. m - 1 /\ x = 4 * c + q
  OBVIOUS
<1> HIDE DEF m, x
<1>4. /\ (x + 1) % m = IF x = m - 1 THEN 0 ELSE x + 1
      /\ (x - 1) % m = IF x = 0 THEN m - 1 ELSE x - 1
  BY <1>3, NextAndBefore
<1>5. /\ (x + 1) % m = IF q = 3 THEN 4 * ((c + 1) % M) ELSE x + 1
      /\ (x - 1) % m = IF q = 0 THEN 4 * ((c - 1) % M) + 3 ELSE x - 1
  BY <1>2, <1>3, <1>4
<1> QED
  BY <1>1, <1>2, <1>5 DEF m, x

\* One less borrows from the high part of a number where the low part is 0.
LEMMA Borrows ==
    ASSUME NEW w \in Nat \ {0}, NEW x \in Nat
    PROVE  /\ x % w \in 0 .. w - 1
           /\ (x - 1) % w = IF x % w = 0 THEN w - 1 ELSE (x % w) - 1
           /\ x % w = 0 /\ x > 0 => x >= w
<1> DEFINE k == x \div w
           r == x % w
           l == k - 1
           y == x - 1
<1>1. r \in 0 .. w - 1 /\ k \in Int /\ l \in Int /\ y \in Int /\ l = k - 1 /\ y = x - 1
      /\ x = w * k + r
  OBVIOUS
<1> HIDE DEF k, r, l, y
<1>2. CASE r = 0
  <2>1. w * k = w * l + w
    BY <1>1
  <2>2. y = w * l + (w - 1) /\ w - 1 \in 0 .. w - 1
    BY <1>1, <1>2, <2>1
  <2>3. y % w = w - 1
    BY <1>1, <2>2, Unique
  <2>4. x > 0 => x >= w
    <3>1. k =< 0 => w * k =< 0
      BY <1>1
    <3>2. k >= 1 => w * k >= w
      BY <1>1
    <3> QED
      BY <1>1, <1>2, <3>1, <3>2
  <2> QED
    BY <1>1, <1>2, <2>3, <2>4 DEF r, y
<1>3. CASE r # 0
  <2>1. y = w * k + (r - 1) /\ r - 1 \in 0 .. w - 1
    BY <1>1, <1>3
  <2>2. y % w = r - 1
    BY <1>1, <2>1, Unique
  <2> QED
    BY <1>1, <1>3, <2>2 DEF r, y
<1> QED
  BY <1>2, <1>3

\* High bits that have followed and low bits that have not: the number as it was, or
\* a turn of the low bits less.
LEMMA TurnedBack ==
    ASSUME NEW M \in Nat \ {0}, NEW w \in Nat \ {0}, M % w = 0, NEW e \in 0 .. M - 1,
           NEW c \in {e, (e - 1) % M}, NEW h, h = (c - (c % w)) + (e % w)
    PROVE  h = e \/ (e % w = 0 /\ c = (e - 1) % M /\ h = (e - w) % M)
<1> DEFINE r == e % w
           b == (e - 1) % w
           l == (M - 1) % w
           f == (e - 1) % M
           g == (e - w) % M
           cw == c % w
<1>1. r \in 0 .. w - 1 /\ b = (IF r = 0 THEN w - 1 ELSE r - 1)
      /\ (r = 0 /\ e > 0 => e >= w)
  <2>1. e \in Nat
    OBVIOUS
  <2>2. e % w \in 0 .. w - 1
    BY <2>1, Borrows
  <2>3. (e - 1) % w = IF e % w = 0 THEN w - 1 ELSE (e % w) - 1
    BY <2>1, Borrows
  <2>4. e % w = 0 /\ e > 0 => e >= w
    BY <2>1, Borrows
  <2> QED
    BY <2>2, <2>3, <2>4 DEF r, b
<1>2. l = w - 1 /\ M >= w
  <2>1. (M - 1) % w = IF M % w = 0 THEN w - 1 ELSE (M % w) - 1
    BY Borrows
  <2>2. M % w = 0 /\ M > 0 => M >= w
    BY Borrows
  <2> QED
    BY <2>1, <2>2 DEF l
<1>3. f = IF e = 0 THEN M - 1 ELSE e - 1
  BY NextAndBefore DEF f
<1>4. (e - w \in 0 .. M - 1 => g = e - w) /\ (e - w \in -M .. -1 => g = (e - w) + M)
  <2> DEFINE x == e - w
  <2>1. x \in Int
    OBVIOUS
  <2> HIDE DEF x
  <2>2. (x \in 0 .. M - 1 => x % M = x) /\ (x \in -M .. -1 => x % M = x + M)
    BY <2>1, Reduce
  <2> QED
    BY <2>2 DEF x, g
<1>5. /\ c = e \/ c = f
      /\ c = e => cw = r
      /\ c = e - 1 => cw = b
      /\ c = M - 1 => cw = l
      /\ h = (c - cw) + r
  BY DEF f, cw, r, b, l
<1> HIDE DEF r, b, l, f, g, cw
<1>6. h = e \/ (r = 0 /\ c = f /\ h = g)
  <2>1. CASE c = e
    BY <1>1, <1>5, <2>1
  <2>2. CASE c = f /\ e > 0 /\ r # 0
    BY <1>1, <1>3, <1>5, <2>2
  <2>3. CASE c = f /\ e > 0 /\ r = 0
    <3>1. c = e - 1 /\ cw = w - 1 /\ e >= w
      BY <1>1, <1>3, <1>5, <2>3
    <3>2. h = e - w
      BY <1>5, <2>3, <3>1
    <3>3. e - w \in 0 .. M - 1
      BY <3>1
    <3> QED
      BY <1>4, <2>3, <3>2, <3>3
  <2>4. CASE c = f /\ e = 0 /\ r = 0
    BY <1>2, <1>3, <1>4, <1>5, <2>4
  <2>5. CASE c = f /\ e = 0
    <3>1. 0 % w = 0
      BY Reduce
    <3>2. r = 0
      BY <2>5, <3>1 DEF r
    <3> QED
      BY <2>4, <2>5, <3>2
  <2> QED
    BY <1>5, <2>1, <2>2, <2>3, <2>5
<1> QED
  BY <1>6 DEF r, f, g

\* InternalMod is four times the number of clicks that are told apart.
LEMMA Clicks ==
    /\ InternalMod \div 4 \in Nat \ {0}
    /\ InternalMod = 4 * (InternalMod \div 4)
  BY KnobAssumption

\* The contacts tell a quarter forward from one back, and the detent from the rest.
LEMMA Contacts ==
    ASSUME NEW q \in 0 .. 3, NEW r \in 0 .. 3
    PROVE  /\ <<Knob!Gray[q], Knob!Gray[r]>> \in Knob!Clockwise <=> r = (q + 1) % 4
           /\ <<Knob!Gray[q], Knob!Gray[r]>> \in Knob!Anticlockwise <=> r = (q - 1) % 4
           /\ Knob!Gray[r] = <<0, 0>> <=> r = 0
<1>1. /\ Knob!Gray[0] = <<0, 0>> /\ Knob!Gray[1] = <<0, 1>>
      /\ Knob!Gray[2] = <<1, 1>> /\ Knob!Gray[3] = <<1, 0>>
  BY DEF Knob!Gray
<1>2. \A a, b : <<a, b>> \in Knob!Clockwise <=>
                 \/ a = <<0, 0>> /\ b = <<0, 1>>
                 \/ a = <<0, 1>> /\ b = <<1, 1>>
                 \/ a = <<1, 1>> /\ b = <<1, 0>>
                 \/ a = <<1, 0>> /\ b = <<0, 0>>
  BY DEF Knob!Clockwise
<1>3. \A a, b : <<a, b>> \in Knob!Anticlockwise <=> <<b, a>> \in Knob!Clockwise
  BY DEF Knob!Clockwise, Knob!Anticlockwise
<1>4. q \in {0, 1, 2, 3} /\ r \in {0, 1, 2, 3}
  OBVIOUS
<1>5. <<0, 0>> # <<0, 1>> /\ <<0, 0>> # <<1, 1>> /\ <<0, 0>> # <<1, 0>>
      /\ <<0, 1>> # <<1, 1>> /\ <<0, 1>> # <<1, 0>> /\ <<1, 1>> # <<1, 0>>
  OBVIOUS
<1>6. \A k, l \in 0 .. 3 : <<Knob!Gray[k], Knob!Gray[l]>> \in Knob!Clockwise
                           <=> l = (k + 1) % 4
  BY <1>1, <1>2, <1>5
<1>7. (q = (r + 1) % 4) = (r = (q - 1) % 4)
  BY <1>4
<1> QED
  BY <1>1, <1>3, <1>4, <1>5, <1>6, <1>7

\* The knob begins at a detent.
LEMMA KnobInit == Init => KnobInv
<1> SUFFICES ASSUME Init PROVE KnobInv
  OBVIOUS
<1>1. /\ last_state = <<0, 0>> /\ count = 0 /\ internal_count = 0
      /\ clicks = 0 /\ quarter = 0 /\ detent = 0
  BY DEF Init, Start, Knob!Init
<1>2. Knob!Gray[0] = <<0, 0>>
  BY DEF Knob!Gray
<1>3. 0 % CountMod = 0
  BY KnobAssumption
<1> QED
  BY <1>1, <1>2, <1>3, Clicks DEF KnobInv

\* Decoding keeps up with the knob.
LEMMA KnobStepInv == KnobInv /\ [Knob!Next]_knob => KnobInv'
<1>1. CASE UNCHANGED knob
  BY <1>1 DEF knob, KnobInv
<1>2. ASSUME KnobInv, NEW d \in {-1, 0, 1}, Knob!Turn(d)
      PROVE  KnobInv'
  <2> DEFINE M == InternalMod \div 4
             c == clicks
             q == quarter
  <2>1. /\ M \in Nat \ {0} /\ c \in 0 .. M - 1 /\ q \in 0 .. 3 /\ InternalMod = 4 * M
        /\ internal_count = 4 * c + q /\ last_state = Knob!Gray[q]
    BY <1>2, Clicks DEF KnobInv
  <2>2. /\ quarter' = (q + d) % 4
        /\ clicks' = CASE d = 1 /\ q = 3 -> (c + 1) % M
                       [] d = -1 /\ q = 0 -> (c - 1) % M
                       [] OTHER -> c
        /\ detent' = IF quarter' = 0 THEN clicks' ELSE detent
        /\ Knob!Decode(Knob!Gray[quarter'])
    BY <1>2 DEF Knob!Turn
  <2> HIDE DEF M, c, q
  <2>3. /\ (q + 1) % 4 = IF q = 3 THEN 0 ELSE q + 1
        /\ (q - 1) % 4 = IF q = 0 THEN 3 ELSE q - 1
        /\ (c + 1) % M = IF c = M - 1 THEN 0 ELSE c + 1
        /\ (c - 1) % M = IF c = 0 THEN M - 1 ELSE c - 1
        /\ (4 * c + q + 1) % (4 * M) = IF q = 3 THEN 4 * ((c + 1) % M) ELSE 4 * c + q + 1
        /\ (4 * c + q - 1) % (4 * M) =
               IF q = 0 THEN 4 * ((c - 1) % M) + 3 ELSE 4 * c + q - 1
    BY <2>1, Quarters
  <2>4. quarter' \in 0 .. 3 /\ clicks' \in 0 .. M - 1
    <3>1. CASE d = 1
      <4>1. quarter' = (q + 1) % 4 /\ quarter' \in 0 .. 3
        BY <2>1, <2>2, <2>3, <3>1
      <4>2. clicks' = IF q = 3 THEN (c + 1) % M ELSE c
        BY <2>2, <3>1
      <4> QED
        BY <2>1, <2>3, <4>1, <4>2
    <3>2. CASE d = -1
      <4>1. quarter' = (q - 1) % 4 /\ quarter' \in 0 .. 3
        BY <2>1, <2>2, <2>3, <3>2
      <4>2. clicks' = IF q = 0 THEN (c - 1) % M ELSE c
        BY <2>2, <3>2
      <4> QED
        BY <2>1, <2>3, <4>1, <4>2
    <3>3. CASE d = 0
      BY <2>1, <2>2, <3>3
    <3> QED
      BY <3>1, <3>2, <3>3
  <2>5. last_state' = Knob!Gray[quarter']
    BY <2>2 DEF Knob!Decode
  <2>6. internal_count' = 4 * clicks' + quarter'
    <3>1. /\ quarter' = (q + 1) % 4 => internal_count' = (4 * c + q + 1) % (4 * M)
          /\ quarter' # (q + 1) % 4 /\ quarter' = (q - 1) % 4 =>
                 internal_count' = (4 * c + q - 1) % (4 * M)
          /\ quarter' # (q + 1) % 4 /\ quarter' # (q - 1) % 4 =>
                 internal_count' = 4 * c + q
      <4> DEFINE r == quarter'
                 i == internal_count'
      <4>1. i = CASE <<last_state, Knob!Gray[r]>> \in Knob!Clockwise ->
                         (internal_count + 1) % InternalMod
                  [] <<last_state, Knob!Gray[r]>> \in Knob!Anticlockwise ->
                         (internal_count - 1) % InternalMod
                  [] OTHER -> internal_count
        BY <2>2 DEF Knob!Decode
      <4>2. /\ <<last_state, Knob!Gray[r]>> \in Knob!Clockwise <=> r = (q + 1) % 4
            /\ <<last_state, Knob!Gray[r]>> \in Knob!Anticlockwise <=> r = (q - 1) % 4
        BY <2>1, <2>4, Contacts
      <4> HIDE DEF r, i
      <4>3. /\ r = (q + 1) % 4 => i = (internal_count + 1) % InternalMod
            /\ r # (q + 1) % 4 /\ r = (q - 1) % 4 =>
                   i = (internal_count - 1) % InternalMod
            /\ r # (q + 1) % 4 /\ r # (q - 1) % 4 => i = internal_count
        BY <2>1, <2>3, <4>1, <4>2
      <4> QED
        BY <2>1, <4>3 DEF r, i
    <3>2. CASE d = 1
      BY <2>1, <2>2, <2>3, <3>1, <3>2
    <3>3. CASE d = -1
      BY <2>1, <2>2, <2>3, <3>1, <3>3
    <3>4. CASE d = 0
      BY <2>1, <2>2, <2>3, <3>1, <3>4
    <3> QED
      BY <3>2, <3>3, <3>4
  <2>7. count' = IF quarter' = 0 THEN (internal_count' \div 4) % CountMod ELSE count
    BY <2>1, <2>2, <2>4, Contacts DEF Knob!Decode
  <2>8. internal_count' \div 4 = clicks'
    BY <2>1, <2>4, <2>6, Quarters
  <2>9. clicks' \in 0 .. (InternalMod \div 4) - 1
    BY <2>4 DEF M
  <2>10. /\ detent \in 0 .. M - 1 /\ c \in {detent, (detent - 1) % M}
         /\ q = 0 => detent = c
    BY <1>2 DEF KnobInv, M, c, q
  <2>11. detent' \in 0 .. M - 1 /\ clicks' \in {detent', (detent' - 1) % M}
    <3>1. CASE quarter' = 0
      BY <2>2, <2>4, <3>1
    <3>2. CASE quarter' # 0
      <4>1. detent' = detent
        BY <2>2, <3>2
      <4>2. clicks' = c \/ (q = 0 /\ clicks' = (c - 1) % M)
        BY <2>1, <2>2, <2>3, <3>2
      <4> QED
        BY <2>10, <4>1, <4>2
    <3> QED
      BY <3>1, <3>2
  <2> QED
    BY <1>2, <2>2, <2>4, <2>5, <2>6, <2>7, <2>8, <2>9, <2>11 DEF KnobInv, M
<1> QED
  BY <1>1, <1>2 DEF Knob!Next

\* Whatever the widths of the counters, the knob is counted click by click however
\* the contacts bounce.
THEOREM KnobIsFollowed == Spec => []CountsClicks
<1>1. KnobInv => CountsClicks
  <2> SUFFICES ASSUME KnobInv PROVE CountsClicks
    OBVIOUS
  <2>1. count = detent % CountMod
    BY DEF KnobInv
  <2>2. ASSUME quarter = 0 PROVE Knob!Count14 = clicks
    <3>1. internal_count \div 4 = clicks
      BY Clicks, Quarters DEF KnobInv
    <3>2. count = clicks % CountMod /\ clicks \in Int /\ clicks % CountMod \in Int
      BY <2>2, KnobAssumption, Clicks DEF KnobInv
    <3> QED
      BY <3>1, <3>2 DEF Knob!Count14
  <2>3. \/ Knob!Count14 = detent
        \/ /\ detent % CountMod = 0 /\ clicks = (detent - 1) % (InternalMod \div 4)
           /\ Knob!Count14 = (detent - CountMod) % (InternalMod \div 4)
    <3>1. /\ InternalMod \div 4 \in Nat \ {0} /\ CountMod \in Nat \ {0}
          /\ (InternalMod \div 4) % CountMod = 0 /\ detent \in 0 .. (InternalMod \div 4) - 1
          /\ clicks \in {detent, (detent - 1) % (InternalMod \div 4)}
      BY Clicks, KnobAssumption DEF KnobInv
    <3>2. Knob!Count14 = (clicks - (clicks % CountMod)) + (detent % CountMod)
      <4>1. internal_count \div 4 = clicks
        BY Clicks, Quarters DEF KnobInv
      <4> QED
        BY <2>1, <4>1 DEF Knob!Count14
    <3> DEFINE M == InternalMod \div 4
    <3>3. \A h : h = (clicks - (clicks % CountMod)) + (detent % CountMod) =>
              \/ h = detent
              \/ /\ detent % CountMod = 0 /\ clicks = (detent - 1) % M
                 /\ h = (detent - CountMod) % M
      <4> HIDE DEF M
      <4> QED
        BY <3>1, TurnedBack DEF M
    <3> QED
      BY <3>2, <3>3
  <2> QED
    BY <2>1, <2>2, <2>3 DEF CountsClicks, Knob!CountsClicks
<1>2. KnobInv /\ [Next]_vars => KnobInv'
  BY StepOfParts, KnobStepInv
<1> QED
  BY KnobInit, <1>1, <1>2, PTL DEF Spec

-----------------------------------------------------------------------------
(* StmConsole and CdcAcm *)

\* The indexes of a ring are cells of it.
IsRing(r) ==
    /\ {"readi", "writei"} \subseteq DOMAIN r
    /\ r.readi \in Stm!Cells /\ r.writei \in Stm!Cells

\* Between two lines, the transmit interrupt is disabled only when all is sent.
StmInv ==
    /\ IsRing(outring) /\ mwritei \in Stm!Cells
    /\ mpc = "idle" /\ ~ txeie => outring.readi = outring.writei

\* The ring is empty at first.
LEMMA StmInit == Init => StmInv
<1> SUFFICES ASSUME Init PROVE StmInv
  OBVIOUS
<1>1. Stm!Init
  BY DEF Init, Start
<1>2. /\ outring = [cell |-> [i \in Stm!Cells |-> Stm!Gone], readi |-> 0, writei |-> 0]
      /\ mwritei = 0
  BY <1>1 DEF Stm!Init
<1>3. 0 \in Stm!Cells
  BY RingAssumption DEF Stm!Cells
<1> QED
  BY <1>2, <1>3 DEF StmInv, IsRing

\* The next index is one.
LEMMA AdvanceIsCell == \A i \in Stm!Cells : Stm!Advance(i) \in Stm!Cells
  BY RingAssumption DEF Stm!Cells, Stm!Advance

\* A ring stays one.
LEMMA RingStaysRing ==
    ASSUME NEW r, IsRing(r), NEW c
    PROVE  /\ IsRing(Stm!Put(r, c)) /\ IsRing(Stm!Get(r))
           /\ \A i \in Stm!Cells : IsRing([r EXCEPT !.writei = i])
           /\ \A i : IsRing([r EXCEPT !.cell[i] = c])
           /\ IsRing(Stm!Received(r, c))
<1>1. ASSUME NEW q, IsRing(q), NEW d
      PROVE  IsRing(Stm!Put(q, d)) /\ IsRing(Stm!Get(q))
  <2>1. Stm!Advance(q.readi) \in Stm!Cells /\ Stm!Advance(q.writei) \in Stm!Cells
    BY <1>1, AdvanceIsCell DEF IsRing
  <2>2. IsRing(Stm!Get(q))
    BY <1>1, <2>1 DEF IsRing, Stm!Get
  <2>3. IsRing(Stm!Put(q, d))
    BY <1>1, <2>1 DEF IsRing, Stm!Put
  <2> QED
    BY <2>2, <2>3
<1>2. IsRing(Stm!Received(r, c))
  BY <1>1 DEF Stm!Received
<1>3. \A i \in Stm!Cells : IsRing([r EXCEPT !.writei = i])
  BY DEF IsRing
<1>4. \A i : IsRing([r EXCEPT !.cell[i] = c])
  BY DEF IsRing
<1> QED
  BY <1>1, <1>2, <1>3, <1>4

\* The handler disables the interrupt only when it finds the ring empty, and a line
\* ends by enabling it.
LEMMA StmStepInv == StmInv /\ [Stm!Next]_stm => StmInv'
<1>1. CASE UNCHANGED stm
  BY <1>1 DEF stm, StmInv, IsRing, Stm!Cells
<1>2. ASSUME NEW r, IsRing(r), Stm!Transmit(r)
      PROVE  IsRing(outring)' /\ (~ txeie' => outring'.readi = outring'.writei)
  <2>1. IsRing(outring')
    BY <1>2, RingStaysRing DEF Stm!Transmit
  <2> QED
    BY <1>2, <2>1 DEF Stm!Transmit, IsRing, Stm!Cells
<1>3. ASSUME StmInv, \E c \in Letters \cup {"NL"} : Stm!WriteChar(c)
      PROVE  StmInv'
  BY <1>3 DEF Stm!WriteChar, StmInv, IsRing, Stm!Cells
<1>4. ASSUME StmInv, Stm!Write
      PROVE  StmInv'
  <2>1. IsRing(outring') /\ mwritei' \in Stm!Cells
    <3>1. CASE Stm!WriteLoad
      BY <1>4, <3>1 DEF Stm!WriteLoad, StmInv, IsRing
    <3>2. CASE Stm!WriteCheck \/ Stm!WriteArm
      BY <1>4, <3>2 DEF Stm!WriteCheck, Stm!WriteArm, StmInv
    <3>3. CASE Stm!WriteStore
      BY <1>4, <3>3, RingStaysRing DEF Stm!WriteStore, StmInv
    <3>4. CASE Stm!WritePublish
      BY <1>4, <3>4, RingStaysRing, AdvanceIsCell DEF Stm!WritePublish, StmInv
    <3> QED
      BY <1>4, <3>1, <3>2, <3>3, <3>4 DEF Stm!Write
  <2>2. mpc' # "idle" \/ txeie'
    BY <1>4 DEF Stm!Write, Stm!WriteLoad, Stm!WriteCheck, Stm!WriteStore, Stm!WritePublish,
                Stm!WriteArm
  <2> QED
    BY <2>1, <2>2 DEF StmInv, IsRing, Stm!Cells
<1>5. ASSUME StmInv, NEW c \in Letters \cup {"CR"}, Stm!RxIsr(c)
      PROVE  StmInv'
  <2>1. IsRing(Stm!Received(outring, c))
    BY <1>5, RingStaysRing DEF StmInv
  <2>2. mwritei' \in Stm!Cells
    BY <1>5 DEF Stm!RxIsr, StmInv
  <2>3. CASE Stm!Transmit(Stm!Received(outring, c))
    BY <1>2, <2>1, <2>2, <2>3 DEF StmInv, Stm!Cells
  <2>4. CASE txeie' = TRUE /\ outring' = Stm!Received(outring, c)
    BY <2>1, <2>2, <2>4 DEF StmInv, IsRing, Stm!Cells
  <2> QED
    BY <1>5, <2>3, <2>4 DEF Stm!RxIsr
<1>6. ASSUME StmInv, Stm!TxIsr
      PROVE  StmInv'
  BY <1>2, <1>6 DEF Stm!TxIsr, StmInv, Stm!Cells
<1> QED
  BY <1>1, <1>3, <1>4, <1>5, <1>6 DEF Stm!Next

\* Output that waits will be sent: this part's invariant is inductive as it stands,
\* but for the types of what it mentions.
Posters == {"console", "output", "other"}

\* The bytes that wait are those of known posters, and output_fibre is somewhere.
UsbInv ==
    /\ posts \in Seq(Posters)
    /\ task \in [at : {"top", "settling", "loop"},
                 where : {"nowhere", "runq", "timerq", "running"}]
    /\ Usb!OutputIsServed

\* A post adds to the end, unless it taints the kernel.
LEMMA Posted ==
    ASSUME NEW fs \in Seq(Posters), posts \in Seq(Posters), Usb!Post(fs)
    PROVE  /\ posts' \in Seq(Posters)
           /\ ~ tainted' => ~ tainted /\ posts' = posts \o fs
<1> DEFINE s == posts \o fs
<1>1. s \in Seq(Posters) /\ Len(s) \in Nat
  BY LenProperties
<1>2. /\ posts' = SubSeq(s, 1, Usb!Least(PostRoom, Len(s)))
      /\ tainted' = (tainted \/ Len(s) > PostRoom)
  BY DEF Usb!Post
<1> HIDE DEF s
<1>3. Usb!Least(PostRoom, Len(s)) \in 0 .. Len(s)
  BY <1>1, RingAssumption DEF Usb!Least
<1>4. SubSeq(s, 1, Usb!Least(PostRoom, Len(s))) \in Seq(Posters)
  BY <1>1, <1>3, SubSeqProperties
<1>5. ~ tainted' => ~ tainted /\ posts' = s
  <2> SUFFICES ASSUME ~ tainted' PROVE ~ tainted /\ posts' = s
    OBVIOUS
  <2>1. ~ tainted /\ ~ Len(s) > PostRoom
    BY <1>2
  <2>2. Usb!Least(PostRoom, Len(s)) = Len(s)
    BY <1>1, <2>1, RingAssumption DEF Usb!Least
  <2>3. SubSeq(s, 1, Len(s)) = s
    BY <1>1, SubSeqFull
  <2> QED
    BY <1>2, <2>1, <2>2, <2>3
<1> QED
  BY <1>2, <1>4, <1>5 DEF s

\* What was in a sequence is in a longer one.
LEMMA StillThere ==
    ASSUME NEW S, NEW s \in Seq(S), NEW t \in Seq(S), NEW e
    PROVE  /\ Usb!Contains(s, e) => Usb!Contains(s \o t, e)
           /\ t # <<>> /\ t[Len(t)] = e => Usb!Contains(s \o t, e)
<1>1. /\ Len(s \o t) = Len(s) + Len(t) /\ Len(s) \in Nat /\ Len(t) \in Nat
      /\ \A i \in 1 .. Len(s) : (s \o t)[i] = s[i]
      /\ \A i \in 1 .. Len(t) : (s \o t)[Len(s) + i] = t[i]
  BY ConcatProperties, LenProperties
<1>2. t # <<>> => Len(t) > 0
  BY <1>1, EmptySeq
<1> QED
  BY <1>1, <1>2 DEF Usb!Contains

\* Nothing waits at first.
LEMMA UsbInit == Init => UsbInv
<1> SUFFICES ASSUME Init PROVE UsbInv
  OBVIOUS
<1>1. Usb!Init
  BY DEF Init, Start
<1>2. /\ task = [at |-> "top", where |-> "nowhere"] /\ posts = <<>>
      /\ echoring = 0 /\ ch = FALSE
  BY <1>1 DEF Usb!Init
<1>3. posts \in Seq(Posters)
  BY <1>2, EmptySeq
<1>4. task \in [at : {"top", "settling", "loop"},
               where : {"nowhere", "runq", "timerq", "running"}]
  BY <1>2
<1>5. Usb!OutputIsServed
  BY <1>2 DEF Usb!OutputIsServed
<1> QED
  BY <1>3, <1>4, <1>5 DEF UsbInv

\* output_fibre goes to sleep only when it finds nothing, and whoever gives it
\* something to send wakes it.
LEMMA UsbStepInv == UsbInv /\ [Usb!Next]_usb => UsbInv'
<1>1. CASE UNCHANGED usb
  BY <1>1 DEF usb, UsbInv, Usb!OutputIsServed, Usb!Contains
<1> USE DEF UsbInv, Usb!OutputIsServed
<1>2. ASSUME UsbInv, NEW n \in 0 .. Packet, NEW extra \in 0 .. n, Usb!Receive(n, extra)
      PROVE  UsbInv'
  <2> DEFINE t == [k \in 1 .. n |-> "console"] \o <<"output">>
  <2>1. t \in Seq(Posters) /\ t # <<>> /\ t[Len(t)] = "output"
    <3>1. [k \in 1 .. n |-> "console"] \in Seq(Posters) /\ <<"output">> \in Seq(Posters)
      BY DEF Posters
    <3>2. /\ t \in Seq(Posters) /\ Len(t) = n + 1 /\ t[n + 1] = "output"
      BY <3>1, ConcatProperties
    <3> QED
      BY <3>2, EmptySeq
  <2>2. Usb!Post(t) /\ UNCHANGED <<task, ch>>
    BY <1>2 DEF Usb!Receive
  <2> HIDE DEF t
  <2>3. posts' \in Seq(Posters) /\ (~ tainted' => posts' = posts \o t)
    BY <1>2, <2>1, <2>2, Posted
  <2>4. Usb!Contains(posts \o t, "output")
    BY <1>2, <2>1, StillThere
  <2>5. ~ tainted' => Usb!Contains(posts', "output")
    BY <2>3, <2>4
  <2> QED
    BY <1>2, <2>2, <2>3, <2>5
<1>3. ASSUME UsbInv, Usb!OtherPost
      PROVE  UsbInv'
  <2>1. Usb!Post(<<"other">>) /\ UNCHANGED <<echoring, task, ch>> 
        /\ <<"other">> \in Seq(Posters)
    BY <1>3 DEF Usb!OtherPost, Posters
  <2>2. posts' \in Seq(Posters) /\ (~ tainted' => ~ tainted /\ posts' = posts \o <<"other">>)
    BY <1>3, <2>1, Posted
  <2>3. Usb!Contains(posts, "output") => Usb!Contains(posts \o <<"other">>, "output")
    BY <1>3, <2>1, StillThere
  <2>4. ~ tainted' /\ Usb!Contains(posts, "output") => Usb!Contains(posts', "output")
    BY <2>2, <2>3
  <2> QED
    BY <1>3, <2>1, <2>2, <2>4
<1>4. ASSUME UsbInv, Usb!Drain
      PROVE  UsbInv'
  <2>1. posts' \in Seq(Posters)
    BY <1>4, EmptySeq DEF Usb!Drain
  <2>2. task' = IF Usb!Contains(posts, "output") THEN [task EXCEPT !.where = "runq"]
                ELSE task
    BY <1>4 DEF Usb!Drain
  <2> QED
    BY <1>4, <2>1, <2>2 DEF Usb!Drain
<1>5. ASSUME UsbInv, NEW n \in 1 .. Packet, Usb!WriteOut(n)
      PROVE  UsbInv'
  <2>1. posts' \in Seq(Posters)
    BY <1>5, EmptySeq DEF Usb!WriteOut
  <2>2. task' = [task EXCEPT !.where = "runq"]
    BY <1>5 DEF Usb!WriteOut
  <2> QED
    BY <1>5, <2>1, <2>2
<1>6. ASSUME UsbInv, Usb!Sent \/ Usb!Settle
      PROVE  UsbInv'
  BY <1>6 DEF Usb!Sent, Usb!Settle, Usb!Contains
<1>7. ASSUME UsbInv, Usb!Expire \/ Usb!Dispatch \/ Usb!WriteBusy
      PROVE  UsbInv'
  BY <1>7 DEF Usb!Expire, Usb!Dispatch, Usb!WriteBusy
<1>8. ASSUME UsbInv, Usb!GetByte
      PROVE  UsbInv'
  BY <1>8 DEF Usb!GetByte
<1>9. ASSUME UsbInv, Usb!WriteByte
      PROVE  UsbInv'
  BY <1>9 DEF Usb!WriteByte
<1> QED
  BY <1>1, <1>2, <1>3, <1>4, <1>5, <1>6, <1>7, <1>8, <1>9 DEF Usb!Next

\* However large the rings and the packets: bytes in the output ring of the STM32 are
\* on their way, and so are those of the USB console, unless a post was refused.
THEOREM OutputGoesOut == Spec => []OutputIsServed
<1>1. StmInv /\ UsbInv => OutputIsServed
  <2> SUFFICES ASSUME StmInv, UsbInv PROVE OutputIsServed
    OBVIOUS
  <2>1. Stm!OutputIsArmed
    <3>1. ASSUME outring.readi = outring.writei PROVE Stm!Waiting = {}
      <4>1. \A i \in Stm!Cells : ~ ((i - outring.readi) % OutLen
                                     < (outring.writei - outring.readi) % OutLen)
        BY <3>1, RingAssumption DEF Stm!Cells, StmInv, IsRing
      <4> QED
        BY <4>1 DEF Stm!Waiting
    <3> QED
      BY <3>1 DEF StmInv, Stm!OutputIsArmed
  <2> QED
    BY <2>1 DEF UsbInv, OutputIsServed
<1>2. StmInv /\ UsbInv /\ [Next]_vars => StmInv' /\ UsbInv'
  BY StepOfParts, StmStepInv, UsbStepInv
<1> QED
  BY StmInit, UsbInit, <1>1, <1>2, PTL DEF Spec

-----------------------------------------------------------------------------
(* RateLimit *)

\* The time at which the window ends is as far away as the window's age says, modulo
\* the clock's cycle, until the age is no longer told.
RateInv ==
    /\ clock \in 0 .. Cycle - 1 /\ age \in 0 .. Cycle
    /\ rs \in [time : 0 .. Cycle - 1, count : Nat] /\ permitted \in Nat
    /\ refusal \in Int
    /\ age < Cycle => rs.time - clock \in {Window - age - Cycle, Window - age,
                                           Window - age + Cycle}
    /\ age =< Window => permitted =< rs.count /\ permitted =< Limit
    /\ refusal =< Window \/ refusal >= Cycle - Window

\* No event has been counted at first.
LEMMA RateInit == Init => RateInv
<1> SUFFICES ASSUME Init PROVE RateInv
  OBVIOUS
<1>1. Rate!Init
  BY DEF Init, Start
<1> QED
  BY <1>1, RateAssumption DEF Rate!Init, RateInv

\* A window is found open while it is, and otherwise only when the clock has gone
\* round once.
LEMMA OpenInTime == RateInv /\ Rate!IsOpen => age =< Window \/ age = Cycle
<1> SUFFICES ASSUME RateInv, Rate!IsOpen, age < Cycle PROVE age =< Window
  BY RateAssumption DEF RateInv
<1> DEFINE d == rs.time - clock
           u == d % Cycle
<1>1. /\ d \in Int /\ d \in -Cycle + 1 .. Cycle - 1 /\ age \in Nat
      /\ d \in {Window - age - Cycle, Window - age, Window - age + Cycle}
  BY RateAssumption DEF RateInv
<1>2. LET x == IF u < Cycle \div 2 THEN u ELSE u - Cycle IN x >= 0 /\ x =< Window
  BY DEF Rate!IsOpen, Rate!Delta, Rate!Signed
<1> HIDE DEF d
<1>3. /\ d \in 0 .. Cycle - 1 => u = d
      /\ d \in -Cycle .. -1 => u = d + Cycle
  BY <1>1, RateAssumption, Reduce
<1>4. u \in 0 .. Cycle - 1 /\ (u = d \/ u = d + Cycle)
  BY <1>1, <1>3, RateAssumption
<1> HIDE DEF u
<1>5. u =< Window
  BY <1>2, <1>4, RateAssumption
<1> QED
  BY <1>1, <1>4, <1>5, RateAssumption

\* A window lets no more than its events pass, and forgets nothing while it is open.
LEMMA RateStepInv == RateInv /\ [Rate!Next]_rate => RateInv'
<1> USE RateAssumption DEF RateInv
<1>1. CASE UNCHANGED rate
  BY <1>1 DEF rate
<1>2. ASSUME RateInv, Rate!CheckCounts
      PROVE  RateInv'
  <2>1. age =< Window \/ age = Cycle
    BY <1>2, OpenInTime DEF Rate!CheckCounts
  <2>2. /\ rs' = [rs EXCEPT !.count = @ + 1] /\ UNCHANGED <<clock, age>>
        /\ IF rs.count < Limit
           THEN permitted' = permitted + 1 /\ UNCHANGED refusal
           ELSE refusal' = age /\ UNCHANGED permitted
    BY <1>2 DEF Rate!CheckCounts
  <2>3. /\ rs' \in [time : 0 .. Cycle - 1, count : Nat]
        /\ rs'.time = rs.time /\ rs'.count = rs.count + 1
    BY <1>2, <2>2
  <2> QED
    BY <1>2, <2>1, <2>2, <2>3
<1>3. ASSUME RateInv, Rate!Tick
      PROVE  RateInv'
  <2>1. /\ clock' = (clock + 1) % Cycle /\ age' = IF age < Cycle THEN age + 1 ELSE age
        /\ UNCHANGED <<rs, permitted, refusal>>
    BY <1>3 DEF Rate!Tick
  <2>2. clock' = IF clock = Cycle - 1 THEN 0 ELSE clock + 1
    BY <1>3, <2>1, NextAndBefore
  <2>3. age' < Cycle => rs.time - clock' \in {Window - age' - Cycle, Window - age',
                                              Window - age' + Cycle}
    BY <1>3, <2>1, <2>2
  <2> QED
    BY <1>3, <2>1, <2>2, <2>3
<1>4. ASSUME RateInv, NEW delay \in {0, 1}, Rate!CheckOpens(delay)
      PROVE  RateInv'
  <2>1. /\ clock' = (clock + delay) % Cycle
        /\ rs' = [time |-> (clock' + Window) % Cycle, count |-> 1]
        /\ age' = 0 /\ permitted' = 1 /\ UNCHANGED refusal
    BY <1>4 DEF Rate!CheckOpens
  <2>2. clock' \in 0 .. Cycle - 1
    BY <1>4, <2>1
  <2>3. Window \in 0 .. Cycle - 1
    OBVIOUS
  <2>4. (clock' + Window) % Cycle \in 0 .. Cycle - 1
        /\ (clock' + Window) % Cycle \in {clock' + Window, clock' + Window - Cycle}
    BY <2>2, <2>3, Sums
  <2>5. /\ rs' \in [time : 0 .. Cycle - 1, count : Nat] /\ rs'.count = 1
        /\ rs'.time - clock' \in {Window, Window - Cycle}
    BY <2>1, <2>2, <2>4
  <2> QED
    BY <1>4, <2>1, <2>2, <2>5
<1> QED
  BY <1>1, <1>2, <1>3, <1>4 DEF Rate!Next

\* Whatever the clock's cycle, the window and the number of events: no window lets more
\* pass, and none are refused but in a window, or a whole cycle later.
THEOREM RateIsLimited == Spec => []LimitsRate
<1>1. RateInv => LimitsRate
  BY DEF RateInv, LimitsRate, Rate!LimitsRate
<1>2. RateInv /\ [Next]_vars => RateInv'
  BY StepOfParts, RateStepInv
<1> QED
  BY RateInit, <1>1, <1>2, PTL DEF Spec

-----------------------------------------------------------------------------
(* Fader *)

\* An upward fade in one half of the words
Upward == from =< goal /\ (Fade!High(from) <=> Fade!High(goal))

\* The first step of a fade that begins at v leaves v's half, or is at the goal
\* or above it.
Jumps(v, by, to) ==
    LET next == (v + by) % Word
    IN  ~ (Fade!High(v) <=> Fade!High(next)) \/ next >= to

\* While an upward fade is under way, its value is where its steps have brought it, on
\* the way to the goal, which twice the number of steps asked for would pass.
FadeInv ==
    /\ val \in 0 .. Word - 1 /\ goal \in 0 .. Word - 1 /\ step \in 0 .. Word - 1
    /\ from \in 0 .. Word - 1 /\ nsteps \in Nat \ {0} /\ calls \in Nat
    /\ done => val = goal
    /\ ~ done => step > 0
    /\ ~ done /\ goal =< from => calls = 0 /\ Jumps(val, step, goal)
    /\ ~ done /\ Upward =>
           /\ step \in 1 .. Word \div 2 /\ from =< val /\ val =< goal
           /\ calls * step = val - from
           /\ goal - from < 2 * nsteps * step

\* Division rounds down, by less than the divisor.
LEMMA Rounding ==
    ASSUME NEW d \in Nat, NEW n \in Nat \ {0}
    PROVE  d \div n \in 0 .. d /\ n * (d \div n) =< d /\ d < n * (d \div n) + n
<1>1. d \div n \in Int /\ (d % n) \in 0 .. n - 1 /\ d = n * (d \div n) + (d % n)
  OBVIOUS
<1>2. d \div n >= 0
  OBVIOUS
<1>3. d \div n =< n * (d \div n)
  BY <1>1, <1>2
<1> QED
  BY <1>1, <1>2, <1>3

\* A product determines which factor is less.
LEMMA Factors ==
    ASSUME NEW a \in Nat, NEW b \in Nat, NEW s \in Nat, a * s < b * s
    PROVE  a < b
  OBVIOUS

\* There is no fade at first.
LEMMA FadeInit == Init => FadeInv
<1> SUFFICES ASSUME Init PROVE FadeInv
  OBVIOUS
<1>1. Fade!Init
  BY DEF Init, Start
<1> QED
  BY <1>1, FadeAssumption DEF Fade!Init, FadeInv

\* A difference of e downwards is a step that is the negative of what e is upwards.
LEMMA StepDown ==
    ASSUME NEW v \in 0 .. Word - 1, NEW to \in 0 .. Word - 1, NEW n \in Nat \ {0},
           NEW e \in 1 .. (Word \div 2) - 1, e = v - to
    PROVE  /\ e \div n \in 0 .. e
           /\ Fade!Divide(Fade!Signed((to - v) % Word), n) % Word =
                  IF e \div n = 0 THEN 0 ELSE Word - (e \div n)
<1>1. Word \in Nat \ {0} /\ Word \div 2 \in Nat /\ 2 * (Word \div 2) = Word
  BY FadeAssumption
<1>2. PICK d \in -Word .. -1 : d = to - v /\ d = -e
  BY <1>1
<1>3. d % Word = Word - e
  BY <1>1, <1>2, Reduce
<1>4. Fade!Signed(Word - e) = -e
  BY <1>1 DEF Fade!Signed, Fade!High
<1>5. Fade!Divide(-e, n) = -(e \div n)
  BY <1>1 DEF Fade!Divide
<1>6. PICK a \in 0 .. e : a = e \div n
  BY <1>1, Rounding
<1>7. PICK b \in Int : b = -a
  BY <1>6
<1>8. b % Word = IF a = 0 THEN 0 ELSE Word - a
  <2>1. CASE a = 0
    BY <1>1, <1>7, <2>1, Reduce
  <2>2. CASE a # 0
    <3>1. b \in -Word .. -1 /\ b + Word = Word - a
      BY <1>1, <1>6, <1>7, <2>2
    <3>2. b % Word = b + Word
      BY <1>1, <3>1, Reduce
    <3> QED
      BY <2>2, <3>1, <3>2
  <2> QED
    BY <2>1, <2>2
<1> QED
  BY <1>2, <1>3, <1>4, <1>5, <1>6, <1>7, <1>8

\* No difference is no step.
LEMMA StepNone ==
    ASSUME NEW v \in 0 .. Word - 1, NEW n \in Nat \ {0}
    PROVE  Fade!Divide(Fade!Signed((v - v) % Word), n) % Word = 0
<1>1. Word \in Nat \ {0} /\ Word \div 2 >= 1 /\ v - v = 0
  BY FadeAssumption
<1>2. 0 % Word = 0
  BY <1>1, Reduce
<1>3. Fade!Signed(0) = 0
  BY <1>1 DEF Fade!Signed, Fade!High
<1>4. Fade!Divide(0, n) = 0
  BY Rounding DEF Fade!Divide
<1> QED
  BY <1>1, <1>2, <1>3, <1>4

\* A step down, or the least one up, is unsigned: it leads above the goal, or out of
\* the half.
LEMMA DownJumps ==
    ASSUME NEW v \in 0 .. Word - 1, NEW to \in 0 .. v, NEW by \in Nat,
           NEW a \in 0 .. v - to, by = IF a = 0 THEN 1 ELSE Word - a
    PROVE  Jumps(v, by, to)
<1>1. Word \in Nat \ {0} /\ Word \div 2 \in Nat /\ 2 * (Word \div 2) = Word
  BY FadeAssumption
<1>2. CASE a = 0
  <2>1. (v + 1) % Word = IF v = Word - 1 THEN 0 ELSE v + 1
    BY <1>1, NextAndBefore
  <2> QED
    BY <1>1, <1>2, <2>1 DEF Jumps, Fade!High
<1>3. CASE a # 0
  <2>1. PICK x \in Word .. 2 * Word - 1 : x = v + by /\ x = v + Word - a
    BY <1>1, <1>3
  <2>2. x % Word = v - a
    BY <1>1, <2>1, Reduce
  <2>3. v - a >= to
    BY <1>1
  <2> QED
    BY <2>1, <2>2, <2>3 DEF Jumps
<1> QED
  BY <1>2, <1>3

\* A fade begins: the step is the rounded one, but not zero.
LEMMA FadeBegins ==
    ASSUME FadeInv, NEW to \in 0 .. Word - 1, NEW n \in 1 .. Word \div 4,
           Fade!FaderInit(to, n)
    PROVE  FadeInv'
<1> DEFINE s == Fade!Divide(Fade!Signed((to - val) % Word), n) % Word
<1>1. /\ step' = IF s = 0 THEN 1 ELSE s
      /\ goal' = to /\ from' = val /\ nsteps' = n /\ calls' = 0 /\ done' = FALSE
      /\ val' = val
  BY DEF Fade!FaderInit
<1>2. val \in 0 .. Word - 1 /\ n \in Nat \ {0} /\ Word \in Nat \ {0} /\ Word >= 2
  BY FadeAssumption DEF FadeInv
<1>3. s \in 0 .. Word - 1
  <2>1. Fade!Signed((to - val) % Word) \in Int
    BY <1>2 DEF Fade!Signed
  <2>2. Fade!Divide(Fade!Signed((to - val) % Word), n) \in Int
    BY <1>2, <2>1 DEF Fade!Divide
  <2> QED
    BY <1>2, <2>2
<1>4. ASSUME val =< to, to - val < Word \div 2
      PROVE  s = (to - val) \div n
  <2> DEFINE d == to - val
  <2>1. d \in 0 .. (Word \div 2) - 1 /\ d \in Int
    BY <1>2, <1>4, FadeAssumption
  <2> HIDE DEF d
  <2>2. d % Word = d
    BY <1>2, <2>1, Reduce, FadeAssumption
  <2>3. Fade!Signed(d) = d
    BY <1>2, <2>1, FadeAssumption DEF Fade!Signed, Fade!High
  <2>4. Fade!Divide(d, n) = d \div n
    BY <2>1 DEF Fade!Divide
  <2>5. d \div n \in 0 .. d
    BY <1>2, <2>1, Rounding
  <2>6. \A e \in 0 .. d : e % Word = e
    BY <1>2, <2>1, Reduce, FadeAssumption
  <2> QED
    BY <2>2, <2>3, <2>4, <2>5, <2>6 DEF d
<1> HIDE DEF s
<1>5. step' \in 0 .. Word - 1
  BY <1>1, <1>2, <1>3
<1>6. ASSUME val =< to, to - val < Word \div 2
      PROVE  /\ step' \in 1 .. Word \div 2
             /\ 0 * step' = 0
             /\ to - val < 2 * n * step'
  <2> DEFINE d == to - val
             t == step'
  <2>1. d \in Nat /\ d < Word \div 2 /\ s = d \div n /\ Word \div 2 \in Nat \ {0}
    BY <1>2, <1>4, <1>6, FadeAssumption
  <2>2. t = IF s = 0 THEN 1 ELSE s
    BY <1>1
  <2> HIDE DEF d, t
  <2>3. s \in 0 .. d /\ d < n * s + n
    BY <1>2, <2>1, Rounding
  <2>4. t \in 1 .. Word \div 2 /\ t \in Nat
    BY <2>1, <2>2, <2>3
  <2>5. n * s \in Int /\ n * t \in Int /\ n * s =< n * t /\ n =< n * t
    BY <1>2, <2>2, <2>3, <2>4
  <2>6. 2 * n * t = 2 * (n * t)
    BY <1>2, <2>4
  <2>7. d < 2 * n * t
    BY <1>2, <2>1, <2>3, <2>5, <2>6
  <2>8. 0 * t = 0
    BY <2>4
  <2> QED
    BY <2>4, <2>7, <2>8 DEF d, t
<1>7. Upward' => val =< to /\ to - val < Word \div 2
  BY <1>1, <1>2, FadeAssumption DEF Upward, Fade!High
<1>8. ~ done' /\ Upward' =>
          /\ step' \in 1 .. Word \div 2 /\ from' =< val' /\ val' =< goal'
          /\ calls' * step' = val' - from'
          /\ goal' - from' < 2 * nsteps' * step'
  <2> SUFFICES ASSUME ~ done', Upward'
               PROVE  /\ step' \in 1 .. Word \div 2 /\ from' =< val' /\ val' =< goal'
                      /\ calls' * step' = val' - from'
                      /\ goal' - from' < 2 * nsteps' * step'
    OBVIOUS
  <2>1. /\ val =< to /\ step' \in 1 .. Word \div 2 /\ 0 * step' = 0
        /\ to - val < 2 * n * step'
    BY <1>6, <1>7
  <2>2. val' - from' = 0 /\ from' =< val'
    BY <1>1, <1>2
  <2>3. calls' * step' = val' - from'
    BY <1>1, <2>1, <2>2
  <2>4. goal' - from' < 2 * nsteps' * step'
    BY <1>1, <2>1
  <2> QED
    BY <1>1, <2>1, <2>2, <2>3, <2>4
<1>9. /\ val' \in 0 .. Word - 1 /\ goal' \in 0 .. Word - 1
      /\ from' \in 0 .. Word - 1 /\ nsteps' \in Nat \ {0} /\ calls' \in Nat
      /\ done' => val' = goal'
  BY <1>1, <1>2
<1>10. step' > 0
  BY <1>1, <1>3
<1>11. ASSUME to =< val PROVE Jumps(val, step', to)
  <2>1. CASE to < val /\ val - to < Word \div 2
    <3>1. PICK e \in 1 .. (Word \div 2) - 1 : e = val - to
      BY <1>2, <2>1, FadeAssumption
    <3>2. step' = (IF e \div n = 0 THEN 1 ELSE Word - (e \div n)) /\ e \div n \in 0 .. e
      BY <1>1, <1>2, <3>1, StepDown DEF s
    <3> QED
      BY <1>2, <3>1, <3>2, DownJumps
  <2>2. CASE to = val
    <3>1. s = 0
      BY <1>2, <2>2, StepNone DEF s
    <3>2. step' = 1
      BY <1>1, <3>1
    <3> QED
      BY <1>2, <2>2, <3>2, DownJumps
  <2>3. CASE to < val /\ ~ val - to < Word \div 2
    <3> DEFINE next == (val + step') % Word
    <3>1. next \in 0 .. Word - 1
      BY <1>2, <1>5, Sums
    <3> HIDE DEF next
    <3>2. val >= Word \div 2 /\ to =< Word \div 2 /\ Word \div 2 \in Nat
      BY <1>2, <2>3, FadeAssumption
    <3>3. Fade!High(val) /\ (~ Fade!High(next) \/ next >= to)
      BY <1>2, <3>1, <3>2 DEF Fade!High
    <3> QED
      BY <3>3 DEF Jumps, next
  <2> QED
    BY <1>2, <1>11, <2>1, <2>2, <2>3
<1>12. goal' =< from' => calls' = 0 /\ Jumps(val', step', goal')
  BY <1>1, <1>11
<1> QED
  BY <1>5, <1>8, <1>9, <1>10, <1>12 DEF FadeInv

\* A step of a fade that is under way goes up by the step, or arrives.
LEMMA FadeGoesOn ==
    ASSUME FadeInv, Fade!Fade
    PROVE  FadeInv'
<1> DEFINE to == (val + step) % Word
<1>1. /\ ~ done /\ val' = (IF Fade!Adopts(to) THEN goal ELSE to)
      /\ done' = Fade!Adopts(to) /\ calls' = calls + 1
      /\ UNCHANGED <<goal, step, from, nsteps>>
  BY DEF Fade!Fade
<1>2. to \in 0 .. Word - 1
  BY FadeAssumption DEF FadeInv
<1>3. ASSUME ~ done', Upward'
      PROVE  /\ step \in 1 .. Word \div 2 /\ from =< val' /\ val' =< goal
             /\ calls' * step = val' - from
             /\ goal - from < 2 * nsteps * step
  <2>1. /\ step \in 1 .. Word \div 2 /\ from =< val /\ val =< goal
        /\ calls * step = val - from /\ goal - from < 2 * nsteps * step
    BY <1>1, <1>3 DEF FadeInv, Upward
  <2>2. to = val + step
    <3>1. PICK x \in 0 .. 2 * Word - 1 : x = val + step
      BY <2>1, FadeAssumption DEF FadeInv
    <3>2. CASE x < Word
      BY <3>1, <3>2, Reduce, FadeAssumption
    <3>3. CASE ~ x < Word
      <4>1. to = x - Word
        BY <3>1, <3>3, Reduce, FadeAssumption
      <4>2. val >= Word \div 2 /\ x - Word < Word \div 2
        <5>1. /\ Word \in Nat /\ 2 * (Word \div 2) = Word /\ Word \div 2 \in Nat
              /\ val \in 0 .. Word - 1
          BY FadeAssumption DEF FadeInv
        <5>2. step =< Word \div 2 /\ step \in Nat
          BY <2>1, <5>1
        <5> QED
          BY <3>1, <3>3, <5>1, <5>2
      <4>3. to < Word \div 2
        BY <4>1, <4>2
      <4>4. Fade!High(val) /\ ~ Fade!High(to)
        <5> HIDE DEF to
        <5> QED
          BY <1>2, <4>2, <4>3, FadeAssumption DEF Fade!High, FadeInv
      <4> QED
        BY <1>1, <1>3, <4>4 DEF Fade!Adopts
    <3> QED
      BY <3>1, <3>2, <3>3
  <2> HIDE DEF to
  <2>3. val' = to /\ to < goal
    BY <1>1, <1>3, <2>1, <2>2, FadeAssumption DEF Fade!Adopts, FadeInv
  <2>4. (calls + 1) * step = calls * step + step
    BY DEF FadeInv
  <2> QED
    BY <1>1, <2>1, <2>2, <2>3, <2>4 DEF FadeInv
<1>4. goal =< from => done'
  <2> SUFFICES ASSUME goal =< from PROVE Fade!Adopts(to)
    BY <1>1
  <2>1. step > 0 /\ Jumps(val, step, goal)
    BY <1>1 DEF FadeInv
  <2>2. ~ (Fade!High(val) <=> Fade!High(to)) \/ to >= goal
    BY <2>1 DEF Jumps
  <2> QED
    BY <2>1, <2>2 DEF Fade!Adopts
<1> HIDE DEF to
<1>5. step' > 0 \/ done'
  BY <1>1 DEF FadeInv
<1> QED
  BY <1>1, <1>2, <1>3, <1>4, <1>5 DEF FadeInv, Upward

\* However wide a word is, and however many steps are asked for: an upward fade stays
\* between its ends and arrives before twice as many steps, and any other jumps.
THEOREM FadeArrives == Spec => []FadesToGoal
<1>1. FadeInv => FadesToGoal
  <2> SUFFICES ASSUME FadeInv PROVE Fade!FadesToGoal
    BY DEF FadesToGoal
  <2>1. ASSUME ~ done, Upward
        PROVE  calls < 2 * nsteps /\ from + calls * step = val /\ val =< goal
    <3>1. /\ calls * step = val - from /\ val - from < 2 * nsteps * step
          /\ step \in Nat /\ val =< goal
      BY <2>1, FadeAssumption DEF FadeInv
    <3>2. 2 * nsteps \in Nat /\ 2 * nsteps * step = (2 * nsteps) * step
      BY DEF FadeInv
    <3>3. calls < 2 * nsteps
      BY <3>1, <3>2, Factors DEF FadeInv
    <3> QED
      BY <3>1, <3>3 DEF FadeInv
  <2> QED
    BY <2>1 DEF FadeInv, Fade!FadesToGoal, Upward, Fade!High
<1>2. FadeInv /\ [Next]_vars => FadeInv'
  <2>1. CASE UNCHANGED fade
    BY <2>1 DEF fade, FadeInv, Upward
  <2> QED
    BY <2>1, StepOfParts, FadeBegins, FadeGoesOn DEF Fade!Next
<1> QED
  BY FadeInit, <1>1, <1>2, PTL DEF Spec

-----------------------------------------------------------------------------
(* MLog *)

\* Lines that are logged, and the cells of the array that none is in
Lines == LogLines \cup {Log!Null}

\* Until the array is full a line is where its number says; after that, the oldest
\* one is where the next one will go.
LogInv ==
    /\ head \in 0 .. HeadLimit - 1 /\ line \in [0 .. LogLen - 1 -> Lines]
    /\ recent \in Seq(LogLines)
    /\ head < LogLen => /\ Len(recent) = head
                        /\ \A k \in 1 .. head : recent[k] = line[k - 1]
    /\ head >= LogLen => /\ Len(recent) = LogLen
                         /\ \A k \in 1 .. LogLen : recent[k] = line[(head + k - 1) % LogLen]

\* A remainder does not change when a cycle is added or subtracted, and goes round
\* with the number.
LEMMA Around ==
    ASSUME NEW m \in Nat \ {0}, NEW x \in Int, NEW y \in Int
    PROVE  /\ y = x - m => y % m = x % m
           /\ \A k \in 0 .. m : y = x + k =>
                  y % m = IF (x % m) + k < m THEN (x % m) + k ELSE (x % m) + k - m
<1> DEFINE r == x % m
           q == x \div m
<1>1. r \in 0 .. m - 1 /\ q \in Int /\ x = m * q + r
  OBVIOUS
<1> HIDE DEF r, q
<1>2. ASSUME y = x - m PROVE y % m = r
  <2>1. y = m * (q - 1) + r /\ q - 1 \in Int
    BY <1>1, <1>2
  <2> QED
    BY <1>1, <2>1, Unique
<1>3. ASSUME NEW k \in 0 .. m, y = x + k
      PROVE  y % m = IF r + k < m THEN r + k ELSE r + k - m
  <2>1. CASE r + k < m
    <3>1. y = m * q + (r + k) /\ r + k \in 0 .. m - 1
      BY <1>1, <1>3, <2>1
    <3> QED
      BY <1>1, <2>1, <3>1, Unique
  <2>2. CASE ~ (r + k < m)
    <3>1. y = m * (q + 1) + (r + k - m) /\ r + k - m \in 0 .. m - 1 /\ q + 1 \in Int
      BY <1>1, <1>3, <2>2
    <3> QED
      BY <1>1, <2>2, <3>1, Unique
  <2> QED
    BY <2>1, <2>2
<1> QED
  BY <1>2, <1>3 DEF r

\* The array is empty at first.
LEMMA LogInit == Init => LogInv
<1> SUFFICES ASSUME Init PROVE LogInv
  OBVIOUS
<1>1. line = [i \in 0 .. LogLen - 1 |-> Log!Null] /\ head = 0 /\ recent = <<>>
  BY DEF Init, Start, Log!Init
<1>2. recent \in Seq(LogLines) /\ Len(recent) = 0
  BY <1>1, EmptySeq
<1>3. line \in [0 .. LogLen - 1 -> Lines]
  BY <1>1 DEF Lines
<1> QED
  BY <1>1, <1>2, <1>3, LogAssumption DEF LogInv

\* A new line: while the array fills, and when it replaces the oldest one.
LEMMA LogGrows ==
    ASSUME LogInv, NEW l \in LogLines, Log!MLog(l)
    PROVE  LogInv'
<1> DEFINE i == head % LogLen
           s == Append(recent, l)
<1>1. /\ LogLen \in Nat \ {0} /\ head \in Nat /\ head < HeadLimit
      /\ HeadLimit \in Nat /\ 2 * LogLen =< HeadLimit
  BY LogAssumption DEF LogInv
<1>2. i \in 0 .. LogLen - 1 /\ (head < LogLen => i = head)
  <2>1. head \in 0 .. LogLen - 1 => head % LogLen = head
    BY <1>1, Reduce
  <2>2. head % LogLen \in 0 .. LogLen - 1
    BY <1>1
  <2> QED
    BY <1>1, <2>1, <2>2
<1>3. /\ line' = [line EXCEPT ![i] = l]
      /\ head' = IF head + 1 >= HeadLimit THEN head + 1 - LogLen ELSE head + 1
      /\ recent' = IF Len(s) > LogLen THEN Tail(s) ELSE s
  <2>1. /\ line' = [line EXCEPT ![i] = l] /\ head' = Log!Fold(head + 1)
        /\ recent' = IF Len(s) > LogLen THEN Tail(s) ELSE s
    BY DEF Log!MLog
  <2>2. Log!Fold(head + 1) = IF head + 1 >= HeadLimit THEN head + 1 - LogLen ELSE head + 1
    BY <1>1 DEF Log!Fold
  <2> QED
    BY <2>1, <2>2
<1>4. head' \in 0 .. HeadLimit - 1 /\ line' \in [0 .. LogLen - 1 -> Lines]
  BY <1>1, <1>2, <1>3 DEF LogInv, Lines
<1>5. \A j \in 0 .. LogLen - 1 : line'[j] = IF j = i THEN l ELSE line[j]
  BY <1>2, <1>3 DEF LogInv
<1>6. /\ s \in Seq(LogLines) /\ Len(s) = Len(recent) + 1 /\ Len(recent) \in Nat
      /\ \A k \in 1 .. Len(recent) : s[k] = recent[k]
      /\ s[Len(recent) + 1] = l
  BY AppendProperties, LenProperties DEF LogInv
<1> HIDE DEF i, s
<1>7. CASE head < LogLen
  <2>1. /\ Len(recent) = head /\ recent' = s /\ head' = head + 1
        /\ \A k \in 1 .. head : recent[k] = line[k - 1]
    BY <1>1, <1>3, <1>6, <1>7 DEF LogInv
  <2>2. \A k \in 1 .. head + 1 : recent'[k] = line'[k - 1]
    <3> TAKE k \in 1 .. head + 1
    <3>1. k - 1 \in 0 .. LogLen - 1
      BY <1>1, <1>7
    <3>2. CASE k = head + 1
      BY <1>1, <1>2, <1>5, <1>6, <1>7, <2>1, <3>1, <3>2
    <3>3. CASE k \in 1 .. head
      BY <1>1, <1>2, <1>5, <1>6, <1>7, <2>1, <3>1, <3>3
    <3> QED
      BY <1>1, <3>2, <3>3
  <2>3. head + 1 = LogLen =>
            \A k \in 1 .. LogLen : (head + 1 + k - 1) % LogLen = k - 1
    <3> SUFFICES ASSUME head + 1 = LogLen, NEW k \in 1 .. LogLen
                 PROVE  (head + 1 + k - 1) % LogLen = k - 1
      OBVIOUS
    <3> DEFINE x == head + 1 + k - 1
    <3>1. x \in LogLen .. 2 * LogLen - 1 /\ x \in Int /\ x - LogLen = k - 1
      BY <1>1
    <3> HIDE DEF x
    <3>2. x % LogLen = k - 1
      BY <1>1, <3>1, Reduce
    <3> QED
      BY <3>2 DEF x
  <2>4. recent' \in Seq(LogLines) /\ Len(recent') = head'
    BY <1>6, <2>1
  <2>5. CASE head + 1 < LogLen
    BY <1>1, <1>4, <2>1, <2>2, <2>4, <2>5 DEF LogInv
  <2>6. CASE head + 1 = LogLen
    <3>1. \A k \in 1 .. LogLen : recent'[k] = line'[(head' + k - 1) % LogLen]
      BY <1>1, <2>1, <2>2, <2>3, <2>6
    <3> QED
      BY <1>1, <1>4, <2>1, <2>4, <2>6, <3>1 DEF LogInv
  <2> QED
    BY <1>1, <1>7, <2>5, <2>6
<1>8. CASE head >= LogLen
  <2>1. /\ Len(recent) = LogLen /\ recent' = Tail(s) /\ head' >= LogLen
        /\ \A k \in 1 .. LogLen : recent[k] = line[(head + k - 1) % LogLen]
    BY <1>1, <1>3, <1>6, <1>8 DEF LogInv
  <2>2. /\ recent' \in Seq(LogLines) /\ Len(recent') = LogLen
        /\ \A k \in 1 .. LogLen : recent'[k] = s[k + 1]
    <3>1. s # <<>>
      BY <1>1, <1>6, <2>1, EmptySeq
    <3> QED
      BY <1>1, <1>6, <2>1, <3>1, HeadTailProperties
  <2>3. ASSUME NEW k \in 1 .. LogLen
        PROVE  recent'[k] = line'[(head' + k - 1) % LogLen]
    <3>1. (head' + k - 1) % LogLen = (head + k) % LogLen
      <4> DEFINE x == head + k
                 y == head' + k - 1
      <4>1. x \in Int /\ y \in Int /\ (y = x \/ y = x - LogLen)
        BY <1>1, <1>3
      <4> HIDE DEF x, y
      <4>2. y % LogLen = x % LogLen
        BY <1>1, <4>1, Around
      <4> QED
        BY <4>2 DEF x, y
    <3>2. (head + k) % LogLen = IF i + k < LogLen THEN i + k ELSE i + k - LogLen
      <4> DEFINE x == head + k
      <4>1. x \in Int /\ x = head + k /\ head \in Int /\ k \in 0 .. LogLen
        BY <1>1
      <4> HIDE DEF x
      <4>2. x % LogLen = IF i + k < LogLen THEN i + k ELSE i + k - LogLen
        BY <1>1, <4>1, Around DEF i
      <4> QED
        BY <4>2 DEF x
    <3>3. (head + k) % LogLen \in 0 .. LogLen - 1
      BY <1>1, <1>2, <3>2
    <3>4. CASE k = LogLen
      BY <1>1, <1>2, <1>5, <1>6, <2>1, <2>2, <3>1, <3>2, <3>4
    <3>5. CASE k < LogLen
      <4>1. (head + k) % LogLen # i
        BY <1>1, <1>2, <3>2, <3>5
      <4>2. recent'[k] = recent[k + 1] /\ k + 1 \in 1 .. LogLen
        BY <1>1, <1>6, <2>1, <2>2, <3>5
      <4>3. head + (k + 1) - 1 = head + k
        BY <1>1
      <4> QED
        BY <1>5, <2>1, <3>1, <3>3, <4>1, <4>2, <4>3
    <3> QED
      BY <1>1, <3>4, <3>5
  <2> QED
    <3>1. ~ head' < LogLen
      BY <1>1, <1>4, <2>1
    <3>2. \A k \in 1 .. LogLen : recent'[k] = line'[(head' + k - 1) % LogLen]
      BY <2>3
    <3> QED
      BY <1>4, <2>2, <3>1, <3>2 DEF LogInv
<1> QED
  BY <1>1, <1>7, <1>8

\* What get_line finds, and where there is nothing.
LEMMA LineIsFound ==
    ASSUME LogInv, NEW n \in 0 .. LogLen
    PROVE  Log!GetLine(n) = IF n < Len(recent) THEN recent[n + 1] ELSE Log!Null
<1>1. LogLen \in Nat \ {0} /\ head \in Nat
  BY LogAssumption DEF LogInv
<1>2. CASE head < LogLen
  <2>1. n < head => n % LogLen = n
    BY <1>1, <1>2, Reduce
  <2>2. Log!GetLine(n) = IF n < head THEN line[n % LogLen] ELSE Log!Null
    BY <1>1, <1>2 DEF Log!GetLine
  <2>3. n < head => recent[n + 1] = line[n]
    BY <1>1, <1>2 DEF LogInv
  <2> QED
    BY <1>2, <2>1, <2>2, <2>3 DEF LogInv
<1>3. CASE head >= LogLen
  <2>1. Log!GetLine(n) = IF n < LogLen THEN line[(n + head) % LogLen] ELSE Log!Null
    BY <1>1, <1>3 DEF Log!GetLine
  <2>2. n < LogLen => /\ recent[n + 1] = line[(head + (n + 1) - 1) % LogLen]
                      /\ head + (n + 1) - 1 = n + head
    BY <1>1, <1>3 DEF LogInv
  <2> QED
    BY <1>3, <2>1, <2>2 DEF LogInv
<1> QED
  BY <1>1, <1>2, <1>3

\* The dump is the recent lines.
LEMMA DumpIsRecent == LogInv => Log!ShowsRecent
<1> SUFFICES ASSUME LogInv PROVE Log!Dump = recent
  BY DEF Log!ShowsRecent
<1> DEFINE m == Len(recent)
           Ends(n) == /\ Log!GetLine(n) = Log!Null
                      /\ \A k \in 0 .. n - 1 : Log!GetLine(k) # Log!Null
           end == CHOOSE n \in 0 .. LogLen : Ends(n)
<1>1. /\ m \in 0 .. LogLen /\ LogLen \in Nat \ {0}
      /\ recent = [k \in 1 .. m |-> recent[k]]
      /\ \A k \in 1 .. m : recent[k] \in LogLines
  BY LenProperties, LogAssumption DEF LogInv
<1>2. \A n \in 0 .. LogLen : Log!GetLine(n) = IF n < m THEN recent[n + 1] ELSE Log!Null
  BY LineIsFound
<1>3. \A n \in 0 .. m - 1 : Log!GetLine(n) # Log!Null
  BY <1>1, <1>2, LogAssumption DEF Log!Null
<1> HIDE DEF m
<1>4. Ends(m)
  <2>1. m \in 0 .. LogLen /\ ~ m < m
    BY <1>1
  <2>2. Log!GetLine(m) = Log!Null
    BY <1>2, <2>1
  <2> QED
    BY <1>3, <2>2
<1>5. \A n \in 0 .. LogLen : Ends(n) => n = m
  <2> SUFFICES ASSUME NEW n \in 0 .. LogLen, Ends(n) PROVE n = m
    OBVIOUS
  <2>1. ~ n < m
    BY <1>1, <1>3
  <2>2. ~ m < n
    BY <1>1, <1>4
  <2> QED
    BY <1>1, <2>1, <2>2
<1>6. end = m
  <2> HIDE DEF Ends
  <2> QED
    BY <1>1, <1>4, <1>5
<1>7. Log!Dump = [k \in 1 .. end |-> Log!GetLine(k - 1)]
  BY DEF Log!Dump
<1>8. ASSUME NEW k \in 1 .. m PROVE Log!GetLine(k - 1) = recent[k]
  <2>1. k - 1 \in 0 .. LogLen /\ k - 1 < m /\ (k - 1) + 1 = k
    BY <1>1
  <2> QED
    BY <1>2, <2>1
<1> QED
  BY <1>1, <1>6, <1>7, <1>8

-----------------------------------------------------------------------------
(* LogRing *)

\* What is logged
RingChars == {"a", "b", "NL"}

\* What is in the ring is the end of what was logged, and what is gone was lines, or
\* as much as the ring holds.
RingInv ==
    /\ logring \in Seq(RingChars) /\ logged \in Seq(RingChars)
    /\ Len(logring) =< Len(logged) /\ Len(logged) =< RingRoom
    /\ \A i \in 1 .. Len(logring) : logring[i] = logged[Len(logged) - Len(logring) + i]
    /\ gone \in 0 .. RingRoom
    /\ before = "NL" \/ gone = RingRoom

\* Smaller numbers, for an induction
Below == {ss \in Nat \X Nat : ss[1] < ss[2]}

\* Every non-empty set of numbers has a least one.
LEMMA Least ==
    ASSUME NEW T, T \subseteq Nat, T # {}
    PROVE  /\ Ring!Min(T) \in T
           /\ \A y \in T : Ring!Min(T) =< y
<1>1. IsWellFoundedOn(Below, Nat)
  BY NatLessThanWellFounded DEF OpToRel, Below
<1>2. PICK x \in T : \A y \in T : ~ (<<y, x>> \in Below)
  BY <1>1, WFMin
<1>3. ASSUME NEW y \in T, y < x PROVE FALSE
  <2>1. <<y, x>> \in Nat \X Nat
    OBVIOUS
  <2>2. <<y, x>> \in Below
    BY <1>3, <2>1 DEF Below
  <2> QED
    BY <1>2, <2>2
<1>4. \A y \in T : x =< y
  BY <1>3
<1> QED
  BY <1>4 DEF Ring!Min

\* FirstLine is where the first line ends, or the whole ring.
LEMMA FirstLineEnds ==
    ASSUME logring \in Seq(RingChars), Len(logring) > 0
    PROVE  /\ Ring!FirstLine \in 1 .. Len(logring)
           /\ logring[Ring!FirstLine] = "NL" \/ Ring!FirstLine = Len(logring)
<1> DEFINE I == {i \in 1 .. Len(logring) : logring[i] = "NL"}
<1>1. Len(logring) \in Nat
  BY LenProperties
<1>2. CASE I = {}
  <2>1. ~ Ring!Contains(logring, "NL")
    BY <1>2 DEF Ring!Contains
  <2> QED
    BY <1>1, <2>1 DEF Ring!FirstLine
<1>3. CASE I # {}
  <2>1. Ring!Contains(logring, "NL")
    BY <1>3 DEF Ring!Contains
  <2>2. Ring!SelectInSeq(logring, LAMBDA c : c = "NL") = Ring!Min(I)
    BY <1>3 DEF Ring!SelectInSeq
  <2>3. Ring!Min(I) \in I
    <3>1. I \subseteq Nat
      BY <1>1
    <3> HIDE DEF I
    <3> QED
      BY <1>3, <3>1, Least
  <2> QED
    BY <2>1, <2>2, <2>3 DEF Ring!FirstLine
<1> QED
  BY <1>2, <1>3

\* Nothing was logged at first.
LEMMA RingInit == Init => RingInv
<1> SUFFICES ASSUME Init PROVE RingInv
  OBVIOUS
<1>1. logring = <<>> /\ logged = <<>> /\ before = "NL" /\ gone = 0
  BY DEF Init, Start, Ring!Init
<1>2. <<>> \in Seq(RingChars) /\ Len(<<>>) = 0
  BY EmptySeq
<1> QED
  BY <1>1, <1>2, RingAssumption DEF RingInv

\* The log: what is logged comes last, and what has no room goes.
LEMMA Logged ==
    ASSUME RingInv, NEW c \in RingChars, Ring!Log(c)
    PROVE  LET m == Len(logged)
               d == IF m = RingRoom THEN 1 ELSE 0
           IN  /\ m \in 0 .. RingRoom
               /\ logged' \in Seq(RingChars) /\ Len(logged') = m + 1 - d
               /\ \A j \in 1 .. m - d : logged'[j] = logged[j + d]
               /\ logged'[m + 1 - d] = c
<1> DEFINE l == Append(logged, c)
           m == Len(logged)
<1>1. m \in 0 .. RingRoom /\ RingRoom \in Nat \ {0}
  BY LenProperties, RingAssumption DEF RingInv
<1>2. /\ l \in Seq(RingChars) /\ Len(l) = m + 1 /\ l # <<>>
      /\ \A j \in 1 .. m : l[j] = logged[j]
      /\ l[m + 1] = c
  BY AppendProperties DEF RingInv
<1>3. logged' = IF Len(l) > RingRoom THEN Tail(l) ELSE l
  BY DEF Ring!Log
<1>4. /\ Tail(l) \in Seq(RingChars) /\ Len(Tail(l)) = m
      /\ \A j \in 1 .. m : Tail(l)[j] = l[j + 1]
  BY <1>1, <1>2, HeadTailProperties
<1> HIDE DEF l, m
<1>5. CASE m = RingRoom
  <2>1. logged' = Tail(l)
    BY <1>1, <1>2, <1>3, <1>5
  <2> QED
    BY <1>1, <1>2, <1>4, <1>5, <2>1 DEF m
<1>6. CASE m # RingRoom
  <2>1. logged' = l
    BY <1>1, <1>2, <1>3, <1>6
  <2> QED
    BY <1>1, <1>2, <1>6, <2>1 DEF m
<1> QED
  BY <1>5, <1>6

\* While there is room, a byte is stored.
LEMMA RingStores ==
    ASSUME RingInv, NEW c \in RingChars, Ring!Store(c)
    PROVE  RingInv'
<1> DEFINE m == Len(logged)
           n == Len(logring)
           d == IF m = RingRoom THEN 1 ELSE 0
<1>1. /\ n \in Nat /\ n < RingRoom /\ logring' = Append(logring, c) /\ Ring!Log(c)
      /\ UNCHANGED <<before, gone>>
  BY LenProperties DEF Ring!Store, RingInv
<1>2. /\ logring' \in Seq(RingChars) /\ Len(logring') = n + 1
      /\ \A i \in 1 .. n : logring'[i] = logring[i]
      /\ logring'[n + 1] = c
  BY <1>1, AppendProperties DEF RingInv
<1>3. /\ m \in 0 .. RingRoom /\ RingRoom \in Nat
      /\ logged' \in Seq(RingChars) /\ Len(logged') = m + 1 - d
      /\ \A j \in 1 .. m - d : logged'[j] = logged[j + d]
      /\ logged'[m + 1 - d] = c
  BY <1>1, Logged, RingAssumption
<1>4. n =< m /\ (d = 1 => n < m) /\ d \in {0, 1} /\ (d = 0 => m < RingRoom)
  BY <1>1, <1>3 DEF RingInv
<1>5. \A i \in 1 .. n : logring[i] = logged[m - n + i]
  BY DEF RingInv
<1> HIDE DEF m, n, d
<1>6. ASSUME NEW i \in 1 .. n + 1
      PROVE  logring'[i] = logged'[(m + 1 - d) - (n + 1) + i]
  <2>1. CASE i = n + 1
    <3>1. (m + 1 - d) - (n + 1) + i = m + 1 - d
      BY <1>1, <1>3, <1>4, <2>1
    <3> QED
      BY <1>2, <1>3, <2>1, <3>1
  <2>2. CASE i \in 1 .. n
    <3> DEFINE j == (m + 1 - d) - (n + 1) + i
    <3>1. j \in 1 .. m - d /\ j + d = m - n + i
      BY <1>1, <1>3, <1>4, <2>2
    <3> HIDE DEF j
    <3>2. logged'[j] = logged[m - n + i]
      BY <1>3, <3>1
    <3> QED
      BY <1>2, <1>5, <2>2, <3>2 DEF j
  <2>3. i = n + 1 \/ i \in 1 .. n
    BY <1>1
  <2> QED
    BY <2>1, <2>2, <2>3
<1>7. gone' \in 0 .. RingRoom /\ (before' = "NL" \/ gone' = RingRoom)
  BY <1>1 DEF RingInv
<1>8. n + 1 =< m + 1 - d /\ m + 1 - d =< RingRoom
  BY <1>1, <1>3, <1>4
<1> QED
  BY <1>2, <1>3, <1>6, <1>7, <1>8 DEF RingInv

\* A ring that is full loses its first line, or everything.
LEMMA RingDiscards ==
    ASSUME RingInv, NEW c \in RingChars, Ring!Discard(c)
    PROVE  RingInv'
<1> DEFINE R == RingRoom
           F == Ring!FirstLine
           t == SubSeq(logring, F + 1, R)
<1>1. /\ R \in Nat \ {0} /\ Len(logring) = R /\ Len(logged) = R
      /\ logring' = Append(t, c) /\ Ring!Log(c) /\ Ring!Forget(F)
  <2>1. /\ Len(logring) = R /\ logring' = Append(t, c) /\ Ring!Log(c) /\ Ring!Forget(F)
    BY DEF Ring!Discard
  <2> QED
    BY <2>1, RingAssumption, LenProperties DEF RingInv
<1>2. F \in 1 .. R /\ (logring[F] = "NL" \/ F = R)
  BY <1>1, FirstLineEnds DEF RingInv
<1>3. \A i \in 1 .. R : logring[i] = logged[i]
  BY <1>1 DEF RingInv
<1>4. /\ logged' \in Seq(RingChars) /\ Len(logged') = R
      /\ \A j \in 1 .. R - 1 : logged'[j] = logged[j + 1]
      /\ logged'[R] = c
  BY <1>1, Logged
<1>5. gone' \in 0 .. R /\ (before' = "NL" \/ gone' = R)
  <2>1. /\ before' = logring[F]
        /\ gone' = IF before' = "NL" THEN 0
                   ELSE IF gone + F > R THEN R ELSE gone + F
    BY <1>1 DEF Ring!Forget
  <2> HIDE DEF F
  <2> QED
    BY <1>1, <1>2, <2>1 DEF RingInv
<1> HIDE DEF F
<1>6. /\ t \in Seq(RingChars) /\ Len(t) = R - F
      /\ \A i \in 1 .. R - F : t[i] = logring[F + i]
  <2>1. /\ t \in Seq(RingChars)
        /\ Len(t) = IF F + 1 =< R THEN R - (F + 1) + 1 ELSE 0
        /\ \A i \in 1 .. R - (F + 1) + 1 : t[i] = logring[(F + 1) + i - 1]
    BY <1>1, <1>2, SubSeqProperties DEF RingInv
  <2> QED
    BY <1>1, <1>2, <2>1
<1> HIDE DEF t
<1>7. /\ logring' \in Seq(RingChars) /\ Len(logring') = R - F + 1
      /\ \A i \in 1 .. R - F : logring'[i] = logring[F + i]
      /\ logring'[R - F + 1] = c
  BY <1>1, <1>6, AppendProperties
<1>8. ASSUME NEW i \in 1 .. R - F + 1
      PROVE  logring'[i] = logged'[R - (R - F + 1) + i]
  <2>1. R - (R - F + 1) + i = F - 1 + i
    BY <1>1, <1>2
  <2>2. CASE i = R - F + 1
    BY <1>1, <1>2, <1>4, <1>7, <2>1, <2>2
  <2>3. CASE i \in 1 .. R - F
    <3>1. F - 1 + i \in 1 .. R - 1 /\ (F - 1 + i) + 1 = F + i /\ F + i \in 1 .. R
      BY <1>1, <1>2, <2>3
    <3> QED
      BY <1>3, <1>4, <1>7, <2>1, <2>3, <3>1
  <2>4. i = R - F + 1 \/ i \in 1 .. R - F
    BY <1>1, <1>2
  <2> QED
    BY <2>2, <2>3, <2>4
<1>9. R - F + 1 =< R
  BY <1>1, <1>2
<1> QED
  BY <1>1, <1>4, <1>5, <1>7, <1>8, <1>9 DEF RingInv

\* The end of a sequence is a sub-sequence.
LEMMA RingIsWhole == RingInv => Ring!WholeLines
<1> SUFFICES ASSUME RingInv PROVE Ring!WholeLines
  OBVIOUS
<1> DEFINE m == Len(logged)
           n == Len(logring)
           t == SubSeq(logged, m - n + 1, m)
<1>1. m \in Nat /\ n \in Nat /\ n =< m
  BY LenProperties DEF RingInv
<1>2. /\ t \in Seq(RingChars) /\ Len(t) = n
      /\ \A i \in 1 .. n : t[i] = logged[m - n + i]
  <2>1. CASE n = 0
    <3>1. t = <<>>
      BY <1>1, <2>1, SubSeqEmpty DEF RingInv
    <3> QED
      BY <1>1, <2>1, <3>1, EmptySeq
  <2>2. CASE n > 0
    <3>1. /\ t \in Seq(RingChars)
          /\ Len(t) = IF m - n + 1 =< m THEN m - (m - n + 1) + 1 ELSE 0
          /\ \A i \in 1 .. m - (m - n + 1) + 1 : t[i] = logged[(m - n + 1) + i - 1]
      <4>1. \A i \in m - n + 1 .. m : i \in 1 .. Len(logged)
        BY <1>1
      <4> QED
        BY <1>1, <2>2, <4>1, SubSeqProperties DEF RingInv
    <3> QED
      BY <1>1, <2>2, <3>1
  <2> QED
    BY <1>1, <2>1, <2>2
<1>3. t = logring
  BY <1>1, <1>2, SeqEqual DEF RingInv
<1> QED
  BY <1>3 DEF RingInv, Ring!WholeLines

\* However large the log and the ring are: the log shows the last lines in order, and
\* the ring holds the last bytes from the beginning of a line on.
THEOREM LogsAreShown == Spec => []ShowsRecent
<1>1. LogInv /\ RingInv => ShowsRecent
  BY DumpIsRecent, RingIsWhole DEF ShowsRecent
<1>2. LogInv /\ [Next]_vars => LogInv'
  <2>1. CASE UNCHANGED log
    BY <2>1 DEF log, LogInv
  <2>2. ASSUME LogInv, Log!Clear PROVE LogInv'
    <3>1. head' = 0 /\ recent' = <<>> /\ line' = line
      BY <2>2 DEF Log!Clear
    <3>2. <<>> \in Seq(LogLines) /\ Len(<<>>) = 0
      BY EmptySeq
    <3> QED
      BY <2>2, <3>1, <3>2, LogAssumption DEF LogInv
  <2> QED
    BY <2>1, <2>2, StepOfParts, LogGrows DEF Log!Next, Log!MLogNice
<1>3. RingInv /\ [Next]_vars => RingInv'
  <2>1. CASE UNCHANGED ring
    BY <2>1 DEF ring, RingInv
  <2> QED
    BY <2>1, StepOfParts, RingStores, RingDiscards DEF Ring!Next, Ring!LogChar, RingChars
<1> QED
  BY LogInit, RingInit, <1>1, <1>2, <1>3, PTL DEF Spec

-----------------------------------------------------------------------------
(* GpioCmd *)

\* Modes of a pin
Modes == {"float", "pull", "opendrain", "pushpull"}

\* Is there an odd number of pulses?
Odd(S) == Cardinality(S) % 2 = 1

\* A level, the active one, what was asked for and the state of the pulses
Match(high, low, on, odd) == (high # low) = (on # odd)

\* What PinAsAsked says of a pin that is driven is true, of its registers, also
\* while it is not driven.
Registers ==
    /\ Gpio!Switched /\ mode # "float" => ~ latch
    /\ known => Match(Gpio!High, Gpio!ActiveLow, asked, Odd(pulsing))

\* The registers hold what was asked for.
PinInv ==
    /\ latch \in BOOLEAN /\ asked \in BOOLEAN /\ known \in BOOLEAN
    /\ mode \in Modes /\ family \in {"F1", "F4"}
    /\ pulsing \subseteq Consoles
    /\ Gpio!Switched => mode \in {"float", "pushpull"}
    /\ Registers

\* A level that is inverted matches again when the request or the number of
\* pulses changes too.
LEMMA Matching ==
    ASSUME NEW high \in BOOLEAN, NEW low \in BOOLEAN, NEW on \in BOOLEAN,
           NEW odd \in BOOLEAN
    PROVE  /\ Match(high, low, on, odd) => Match(~ high, low, ~ on, odd)
           /\ Match(high, low, on, odd) => Match(~ high, low, on, ~ odd)
           /\ high = (on # low) => Match(high, low, on, FALSE)
  BY DEF Match

\* The pin's level and what it should be are truth values.
LEMMA Booleans ==
    /\ Gpio!ActiveLow \in BOOLEAN /\ Gpio!Switched \in BOOLEAN /\ Odd(pulsing) \in BOOLEAN
    /\ PinInv => Gpio!High \in BOOLEAN
  BY DEF Gpio!ActiveLow, Gpio!Switched, Odd, Gpio!High, PinInv

\* A pulse that begins or ends makes an odd number of pulses even, and the
\* other way round.
LEMMA Parity ==
    ASSUME NEW S, IsFiniteSet(S), NEW x
    PROVE  /\ x \notin S => Odd(S \cup {x}) = ~ Odd(S)
           /\ x \in S => Odd(S \ {x}) = ~ Odd(S)
<1>1. Cardinality(S) \in Nat
  BY FS_CardinalityType
<1>2. CASE x \notin S
  <2>1. Cardinality(S \cup {x}) = Cardinality(S) + 1
    BY <1>2, FS_AddElement
  <2> QED
    BY <1>1, <1>2, <2>1 DEF Odd
<1>3. CASE x \in S
  <2>1. Cardinality(S \ {x}) = Cardinality(S) - 1
    BY <1>3, FS_RemoveElement
  <2> QED
    BY <1>1, <1>3, <2>1 DEF Odd
<1> QED
  BY <1>2, <1>3

\* Nobody's pulse leaves the pin alone.
LEMMA NoneIsEven == ~ Odd({})
  BY FS_EmptySet DEF Odd

\* Registration leaves the pin at its default.
LEMMA PinInit == Gpio!Init => PinInv
<1> SUFFICES ASSUME Gpio!Init PROVE PinInv
  OBVIOUS
<1> DEFINE on == "default_on" \in flags
<1>1. /\ latch = (Gpio!ActiveLow # on) /\ asked = on /\ known = (Gpio!Switched => latch)
      /\ on \in BOOLEAN /\ Odd(pulsing) = FALSE
      /\ pulsing = {} /\ family \in {"F1", "F4"}
  BY NoneIsEven DEF Gpio!Init, Odd
<1>2. mode \in Modes /\ (Gpio!Switched => mode = "float")
  <2>1. CASE Gpio!Switched
    BY <2>1 DEF Gpio!Init, Modes, Gpio!Switched
  <2>2. CASE ~ Gpio!Switched /\ family = "F1" /\ Gpio!Explore
    BY <2>2 DEF Gpio!Init, Modes
  <2>3. CASE ~ Gpio!Switched /\ ~ (family = "F1" /\ Gpio!Explore)
    BY <2>3 DEF Gpio!Init, Modes
  <2> QED
    BY <2>1, <2>2, <2>3
<1> HIDE DEF on
<1>3. known => Gpio!High = (on # Gpio!ActiveLow)
  BY <1>1, <1>2, Booleans DEF Gpio!High
<1>4. known => Match(Gpio!High, Gpio!ActiveLow, on, FALSE)
  <2>1. Gpio!High \in BOOLEAN
    BY <1>1, Booleans DEF Gpio!High
  <2>2. Gpio!High = (on # Gpio!ActiveLow) => Match(Gpio!High, Gpio!ActiveLow, on, FALSE)
    BY <1>1, <2>1, Booleans, Matching
  <2> QED
    BY <1>3, <2>2
<1> QED
  BY <1>1, <1>2, <1>4, Booleans DEF PinInv, Registers

\* Whatever the pin was, Toggle inverts its level.
LEMMA Toggled ==
    ASSUME PinInv, Gpio!Toggle, UNCHANGED <<family, flags>>
    PROVE  /\ latch' \in BOOLEAN /\ mode' \in Modes
           /\ Gpio!Switched' => mode' \in {"float", "pushpull"}
           /\ Gpio!Switched' /\ mode' # "float" => ~ latch'
           /\ Gpio!High' = ~ Gpio!High /\ Gpio!ActiveLow' = Gpio!ActiveLow
<1>1. CASE Gpio!Switched
  BY <1>1 DEF PinInv, Registers, Gpio!Toggle, Gpio!Drive, Gpio!Switched,
                Gpio!ActiveLow, Gpio!High, Modes
<1>2. CASE ~ Gpio!Switched
  BY <1>2 DEF PinInv, Registers, Gpio!Toggle, Gpio!Drive, Gpio!Switched,
                Gpio!ActiveLow, Gpio!High, Modes
<1> QED
  BY <1>1, <1>2

\* "on" and "off"
LEMMA SwitchInv ==
    ASSUME PinInv, NEW word \in {"on", "off"}, Gpio!Switch(word)
    PROVE  PinInv'
<1> DEFINE level == Gpio!Action(word) = "on"
<1>1. level \in BOOLEAN /\ level = ((word = "on") # Gpio!ActiveLow)
  <2>1. CASE word = "on"
    BY <2>1, Booleans DEF Gpio!Action
  <2>2. CASE word = "off"
    BY <2>2, Booleans DEF Gpio!Action
  <2> QED
    BY <2>1, <2>2
<1>2. /\ Gpio!Drive(level) /\ UNCHANGED <<family, flags, pulsing>>
      /\ asked' = (word = "on") /\ known' = (pulsing = {})
  BY DEF Gpio!Switch
<1> HIDE DEF level
<1>3. /\ latch' \in BOOLEAN /\ mode' \in Modes
      /\ Gpio!Switched' => mode' \in {"float", "pushpull"}
      /\ Gpio!Switched' /\ mode' # "float" => ~ latch'
      /\ Gpio!High' = level /\ Gpio!ActiveLow' = Gpio!ActiveLow
  BY <1>1, <1>2 DEF PinInv, Registers, Gpio!Drive, Gpio!Switched,
                      Gpio!ActiveLow, Gpio!High, Modes
<1>4. known' => Match(Gpio!High', Gpio!ActiveLow', asked', FALSE)
  BY <1>1, <1>2, <1>3, Matching, Booleans
<1>5. known' => (Odd(pulsing))' = FALSE
  BY <1>2, NoneIsEven DEF Odd
<1>6. Registers'
  BY <1>3, <1>4, <1>5 DEF Registers
<1> QED
  BY <1>2, <1>3, <1>6 DEF PinInv

\* "toggle"
LEMMA ToggleInv ==
    ASSUME PinInv, Gpio!ToggleCmd
    PROVE  PinInv'
<1>1. /\ Gpio!Toggle /\ asked' = ~ asked
      /\ UNCHANGED <<family, flags, pulsing, known>>
  BY DEF Gpio!ToggleCmd
<1>2. (Odd(pulsing))' = Odd(pulsing)
  BY <1>1 DEF Odd
<1>3. known => Match(~ Gpio!High, Gpio!ActiveLow, ~ asked, Odd(pulsing))
  BY Matching, Booleans DEF PinInv, Registers
<1>4. Registers'
  BY <1>1, <1>2, <1>3, Toggled DEF Registers
<1> QED
  BY <1>1, <1>4, Toggled DEF PinInv

\* "pulse", its beginning and its end
LEMMA PulseInv ==
    ASSUME PinInv, NEW c \in Consoles, Gpio!Pulse(c) \/ Gpio!EndOfPulse(c)
    PROVE  PinInv'
<1>1. /\ Gpio!Toggle /\ UNCHANGED <<family, flags, asked, known>>
      /\ pulsing' \subseteq Consoles
      /\ \/ c \notin pulsing /\ pulsing' = pulsing \cup {c}
         \/ c \in pulsing /\ pulsing' = pulsing \ {c}
  BY DEF Gpio!Pulse, Gpio!EndOfPulse, PinInv
<1>2. IsFiniteSet(pulsing)
  BY PinAssumption, FS_Subset DEF PinInv
<1>3. (Odd(pulsing))' = ~ Odd(pulsing)
  BY <1>1, <1>2, Parity DEF Odd
<1>4. known => Match(~ Gpio!High, Gpio!ActiveLow, asked, ~ Odd(pulsing))
  BY Matching, Booleans DEF PinInv, Registers
<1>5. Registers'
  BY <1>1, <1>3, <1>4, Toggled DEF Registers
<1> QED
  BY <1>1, <1>5, Toggled DEF PinInv

\* On F1 the output register alone gives the level.
LEMMA ConfigureInv ==
    ASSUME PinInv,
           \/ \E word \in {"hiz", "pullupdown", "opendrain", "pushpull"} : Gpio!Configure(word)
           \/ Gpio!Detect
           \/ UNCHANGED gpio
    PROVE  PinInv'
<1>1. CASE UNCHANGED gpio
  BY <1>1 DEF gpio, PinInv, Registers, Gpio!Switched, Gpio!High, Gpio!ActiveLow, Odd
<1>2. CASE Gpio!Detect
  BY <1>2 DEF Gpio!Detect, PinInv, Registers, Gpio!Switched, Modes
<1>3. ASSUME NEW word \in {"hiz", "pullupdown", "opendrain", "pushpull"}, Gpio!Configure(word)
      PROVE  PinInv'
  <2>1. /\ mode' \in Modes /\ family = "F1"
        /\ UNCHANGED <<family, flags, latch, pulsing, asked, known>>
    BY <1>3 DEF Gpio!Configure, Modes
  <2> QED
    BY <2>1 DEF PinInv, Registers, Gpio!Switched, Gpio!High, Gpio!ActiveLow, Odd
<1> QED
  BY <1>1, <1>2, <1>3

\* The invariant is inductive.
LEMMA PinStepInv == PinInv /\ [Gpio!Next]_gpio => PinInv'
  BY SwitchInv, ToggleInv, PulseInv, ConfigureInv DEF Gpio!Next

\* However many consoles control a pin, and however their pulses overlap: when
\* all are over, it has the level that was asked for last, and an open-drain
\* pin is never driven high.
THEOREM PinObeys == Spec => []PinAsAsked
<1>1. Gpio!Cardinality(pulsing) = Cardinality(pulsing)
  BY Zenon DEF Gpio!Cardinality, Cardinality
<1>2. PinInv => PinAsAsked
  BY <1>1 DEF PinInv, Registers, Match, PinAsAsked, Gpio!PinAsAsked, Odd
<1>3. Init => PinInv
  BY PinInit DEF Init, Start
<1>4. PinInv /\ [Next]_vars => PinInv'
  BY PinStepInv, StepOfParts
<1> QED
  BY <1>2, <1>3, <1>4, PTL DEF Spec

-----------------------------------------------------------------------------
-----------------------------------------------------------------------------
(* MainLoop *)

\* A cyclic difference is one that has the sign it should.
LEMMA Differs ==
    ASSUME NEW a \in 0 .. WallMod - 1, NEW b \in 0 .. WallMod - 1
    PROVE  LET e == Loop!CycleCmp(a, b)
               h == WallMod \div 2
           IN  e \in -h .. WallMod - h - 1 /\ e \in {a - b, (a - b) + WallMod, (a - b) - WallMod}
  BY LoopAssumption, Cyclic DEF Loop!CycleCmp

\* Differences from one time, if they are small enough, give the difference between
\* two others.
LEMMA Between ==
    ASSUME NEW a \in 0 .. WallMod - 1, NEW b \in 0 .. WallMod - 1,
           NEW c \in 0 .. WallMod - 1,
           LET d == Loop!CycleCmp(a, c) - Loop!CycleCmp(a, b)
               h == WallMod \div 2
           IN  -h =< d /\ d < WallMod - h
    PROVE  Loop!CycleCmp(b, c) = Loop!CycleCmp(a, c) - Loop!CycleCmp(a, b)
<1> DEFINE h == WallMod \div 2
           e == Loop!CycleCmp(a, b)
           f == Loop!CycleCmp(a, c)
           g == Loop!CycleCmp(b, c)
<1>1. h \in Nat /\ WallMod \in Nat \ {0}
  BY LoopAssumption
<1>2. /\ e \in -h .. WallMod - h - 1 /\ e \in {a - b, (a - b) + WallMod, (a - b) - WallMod}
      /\ f \in -h .. WallMod - h - 1 /\ f \in {a - c, (a - c) + WallMod, (a - c) - WallMod}
      /\ g \in -h .. WallMod - h - 1 /\ g \in {b - c, (b - c) + WallMod, (b - c) - WallMod}
  BY Differs
<1>3. -h =< f - e /\ f - e < WallMod - h
  OBVIOUS
<1> HIDE DEF h, e, f, g
<1>4. g = f - e
  BY <1>1, <1>2, <1>3
<1> QED
  BY <1>4 DEF e, f, g

\* There is no time between a time and itself; a tick adds one, and a time that is
\* still to come is as far away as it was said to be.
LEMMA Ticks ==
    ASSUME NEW a \in 0 .. WallMod - 1, NEW b \in 0 .. WallMod - 1
    PROVE  /\ Loop!CycleCmp(a, a) = 0
           /\ (a + 1) % WallMod \in 0 .. WallMod - 1
           /\ Loop!CycleCmp(a, b) + 1 < WallMod \div 2 =>
                  Loop!CycleCmp((a + 1) % WallMod, b) = Loop!CycleCmp(a, b) + 1
<1> DEFINE h == WallMod \div 2
           e == Loop!CycleCmp(a, b)
           n == (a + 1) % WallMod
           f == Loop!CycleCmp(n, b)
           z == Loop!CycleCmp(a, a)
<1>1. h \in Nat /\ 2 * h =< WallMod /\ h > 0 /\ WallMod \in Nat \ {0}
  BY LoopAssumption
<1>2. n = IF a = WallMod - 1 THEN 0 ELSE a + 1
  BY <1>1, NextAndBefore
<1> HIDE DEF n
<1>3. n \in 0 .. WallMod - 1
  BY <1>1, <1>2
<1>4. /\ e \in -h .. WallMod - h - 1 /\ e \in {a - b, (a - b) + WallMod, (a - b) - WallMod}
      /\ z \in -h .. WallMod - h - 1 /\ z \in {a - a, (a - a) + WallMod, (a - a) - WallMod}
      /\ f \in -h .. WallMod - h - 1 /\ f \in {n - b, (n - b) + WallMod, (n - b) - WallMod}
  BY <1>3, Differs
<1> HIDE DEF h, e, f, z
<1>5. z = 0
  BY <1>1, <1>4
<1>6. e + 1 < h => f = e + 1
  BY <1>1, <1>2, <1>4
<1> QED
  BY <1>3, <1>5, <1>6 DEF h, e, f, n, z

\* A time that is d ahead is so when it is asked for.
LEMMA Ahead ==
    ASSUME NEW a \in 0 .. WallMod - 1, NEW d \in Nat
    PROVE  /\ (a + d) % WallMod \in 0 .. WallMod - 1
           /\ d < WallMod \div 2 => Loop!CycleCmp(a, (a + d) % WallMod) = -d
<1> DEFINE h == WallMod \div 2
           t == (a + d) % WallMod
           e == Loop!CycleCmp(a, t)
<1>1. h \in Nat /\ 2 * h =< WallMod /\ WallMod \in Nat \ {0}
  BY LoopAssumption
<1>2. t \in 0 .. WallMod - 1
  BY <1>1
<1>3. d < h => t \in {a + d, (a + d) - WallMod}
  <2> SUFFICES ASSUME d < h PROVE t \in {a + d, (a + d) - WallMod}
    OBVIOUS
  <2>1. d \in 0 .. WallMod - 1
    BY <1>1
  <2> QED
    BY <1>1, <2>1, Sums
<1> HIDE DEF t
<1>4. e \in -h .. WallMod - h - 1 /\ e \in {a - t, (a - t) + WallMod, (a - t) - WallMod}
  BY <1>2, Differs
<1> HIDE DEF h, e
<1>5. d < h => e = -d
  BY <1>1, <1>2, <1>3, <1>4
<1> QED
  BY <1>2, <1>5 DEF h, e, t

\* A command line
LoopLines == [cmd : {"usleep"}, delay : Sleeps] \cup [cmd : {"udelay"}, delay : Spins]

\* The tick that the step under way has had; the age of kernel_now, and by how much
\* the command that waits is late (when it is early, a negative number)
Had == IF slow THEN 1 ELSE 0
Behind == Loop!CycleCmp(wall, kernel_now)
Late == Loop!CycleCmp(wall, wake_at)

\* The loop naps in one place, and the console is on the timer queue when it sleeps.
LoopTypes ==
    /\ wall \in 0 .. WallMod - 1 /\ kernel_now \in 0 .. WallMod - 1
    /\ sleep_until \in 0 .. WallMod - 1 /\ wake_at \in 0 .. WallMod - 1
    /\ waited \in Nat /\ nap \in 0 .. Nap
    /\ nap > 0 => at_step = "asleep" /\ ~ slow
    /\ ~ posted => waited = 0
\* The steps of the loop, and who sleeps is on the timer queue.
LoopFlags ==
    /\ slow \in BOOLEAN /\ posted \in BOOLEAN /\ on_timer \in BOOLEAN
    /\ at_step \in {"call", "run", "return", "interval", "asleep"}
    /\ busy \in {"none", "usleep", "udelay"}
    /\ on_timer <=> busy = "usleep"
\* What is typed are command lines.
LoopInput == typed_lines \in Seq(LoopLines)

\* kernel_now is as old as the steps that follow it.
NowIsRecent ==
    /\ at_step = "run" => Behind \in 0 .. Had
    /\ at_step = "return" => Behind \in 0 .. 1 + Had
    /\ at_step = "interval" => Behind \in 0 .. 2 + Had

\* What was posted before the scheduler returned lets the loop not sleep; the rest
\* waits for the nap to end.
KeyWaits ==
    posted =>
        /\ at_step = "return" => waited =< Had
        /\ at_step = "interval" =>
               waited =< Had \/ (waited =< 1 + Had /\ sleep_until = kernel_now)
        /\ at_step = "asleep" => waited + nap =< Nap + 1 + Had
        /\ at_step = "call" => waited =< Nap + 2 + Had
        /\ at_step = "run" => waited =< Nap + 3 + Had

\* A sleeping command was not late when the scheduler looked at it; a nap that would
\* be too long for it is taken for less.
CommandWaits ==
    busy = "usleep" =>
        /\ 4 - (WallMod \div 2) < Late
        /\ at_step = "return" => Late =< Had
        /\ at_step = "interval" => Late =< 1 + Had /\ sleep_until \in {kernel_now, wake_at}
        /\ at_step = "asleep" => Late + nap =< (Nap - Short) + 1 + Had
        /\ at_step = "call" => Late =< (Nap - Short) + 2 + Had
        /\ at_step = "run" => Late =< (Nap - Short) + 3 + Had

\* Every wait of the loop is bounded by the steps that are left of its turn.
LoopInv ==
    LoopTypes /\ LoopFlags /\ LoopInput /\ NowIsRecent /\ KeyWaits /\ CommandWaits

\* The main loop has called nothing yet.
LEMMA LoopInit == Init => LoopInv
<1> SUFFICES ASSUME Init PROVE LoopInv
  OBVIOUS
<1>1. Loop!Init
  BY DEF Init, Start
<1>2. LoopTypes
  BY <1>1, LoopAssumption DEF Loop!Init, LoopTypes
<1>3. LoopFlags
  BY <1>1 DEF Loop!Init, LoopFlags
<1>4. LoopInput
  BY <1>1 DEF Loop!Init, LoopInput
<1>5. NowIsRecent /\ KeyWaits /\ CommandWaits
  BY <1>1, LoopAssumption DEF Loop!Init, NowIsRecent, KeyWaits, CommandWaits, Had
<1> QED
  BY <1>2, <1>3, <1>4, <1>5 DEF LoopInv

\* The differences are numbers, and half a cycle is more than what the loop waits.
LEMMA Distances ==
    ASSUME LoopTypes
    PROVE  /\ Behind \in Int /\ Late \in Int
           /\ WallMod \div 2 \in Nat /\ Nap + 4 < WallMod \div 2
           /\ 2 * (WallMod \div 2) =< WallMod /\ WallMod \in Nat \ {0}
           /\ Short \in Nat \ {0} /\ Nap \in Nat /\ Short < Nap
  BY Differs, LoopAssumption DEF LoopTypes, Behind, Late

\* A tick makes everything older by one.
LEMMA LoopTick ==
    ASSUME LoopInv, Loop!Tick
    PROVE  LoopInv'
<1> DEFINE h == WallMod \div 2
<1>1. /\ LoopTypes /\ Behind \in Int /\ Late \in Int /\ h \in Nat /\ Nap + 4 < h
      /\ Short \in Nat \ {0} /\ Nap \in Nat /\ Short < Nap
  BY Distances DEF LoopInv
<1>2. /\ wall' \in 0 .. WallMod - 1
      /\ Behind + 1 < h => Behind' = Behind + 1
      /\ Late + 1 < h => Late' = Late + 1
  BY <1>1, Ticks DEF Loop!Tick, LoopTypes, Behind, Late
<1> HIDE DEF h
<1>3. /\ waited' = IF posted THEN waited + 1 ELSE 0
      /\ UNCHANGED <<at_step, kernel_now, sleep_until, typed_lines, posted, busy, wake_at,
                     on_timer>>
  BY DEF Loop!Tick
<1>4. nap > 0 \/ ~ slow
  BY DEF Loop!Tick
<1>5. \/ nap > 0 /\ nap' = nap - 1 /\ slow' = slow /\ Had' = Had
      \/ nap = 0 /\ nap' = nap /\ ~ slow /\ slow' = TRUE /\ Had = 0 /\ Had' = 1
  BY <1>1, <1>4 DEF Loop!Tick, LoopTypes, LoopInv, LoopFlags, Had
<1>6. Had \in {0, 1} /\ Had' \in {0, 1}
  BY DEF Had
<1>7. LoopTypes' /\ LoopFlags' /\ LoopInput'
  <2>1. LoopTypes'
    BY <1>1, <1>2, <1>3, <1>5 DEF LoopTypes
  <2>2. LoopFlags'
    BY <1>3, <1>5 DEF LoopInv, LoopFlags
  <2>3. LoopInput'
    BY <1>3 DEF LoopInv, LoopInput
  <2> QED
    BY <2>1, <2>2, <2>3
<1>8. NowIsRecent'
  BY <1>1, <1>2, <1>3, <1>5, <1>6 DEF LoopInv, LoopTypes, NowIsRecent
<1>9. KeyWaits'
  <2>1. SUFFICES ASSUME posted PROVE KeyWaits'
    BY <1>3 DEF KeyWaits
  <2>2. waited' = waited + 1 /\ waited \in Nat /\ nap \in Nat
    BY <1>1, <1>3, <2>1 DEF LoopTypes
  <2>3. CASE nap > 0 /\ nap' = nap - 1 /\ Had' = Had
    <3>1. at_step = "asleep" /\ waited + nap =< Nap + 1 + Had
      BY <1>1, <2>1, <2>3 DEF LoopInv, LoopTypes, KeyWaits
    <3> QED
      BY <1>1, <1>3, <1>6, <2>2, <2>3, <3>1 DEF KeyWaits
  <2>4. CASE nap = 0 /\ nap' = nap /\ Had = 0 /\ Had' = 1
    BY <1>1, <1>3, <2>1, <2>2, <2>4 DEF LoopInv, KeyWaits
  <2> QED
    BY <1>5, <2>3, <2>4
<1>10. CommandWaits'
  <2>1. SUFFICES ASSUME busy = "usleep" PROVE CommandWaits'
    BY <1>3 DEF CommandWaits
  <2>2. Late + 1 < h
    BY <1>1, <1>6, <2>1 DEF LoopInv, LoopTypes, LoopFlags, CommandWaits
  <2>3. Late' = Late + 1 /\ 4 - h < Late'
    BY <1>1, <1>2, <2>1, <2>2 DEF LoopInv, CommandWaits, h
  <2>4. CASE nap > 0 /\ nap' = nap - 1 /\ Had' = Had
    <3>1. at_step = "asleep" /\ Late + nap =< (Nap - Short) + 1 + Had /\ nap \in Nat
      BY <1>1, <2>1, <2>4 DEF LoopInv, LoopTypes, CommandWaits
    <3> QED
      BY <1>1, <1>3, <1>6, <2>1, <2>3, <2>4, <3>1 DEF CommandWaits, h
  <2>5. CASE nap = 0 /\ nap' = nap /\ Had = 0 /\ Had' = 1
    BY <1>1, <1>3, <2>1, <2>3, <2>5 DEF LoopInv, CommandWaits, h
  <2> QED
    BY <1>5, <2>4, <2>5
<1> QED
  BY <1>7, <1>8, <1>9, <1>10 DEF LoopInv

\* Who has not waited is in time.
LEMMA Margins ==
    ASSUME NEW h \in Nat, NEW n \in Nat, NEW most \in Nat, n =< most
    PROVE  /\ 0 =< h /\ 0 + n =< most + 1 + h
           /\ 0 =< most + 2 + h /\ 0 =< most + 3 + h
  OBVIOUS

\* A key is looked at from when it was typed.
LEMMA LoopType ==
    ASSUME LoopInv, NEW typed \in LoopLines, Loop!Type(typed)
    PROVE  LoopInv'
<1>1. /\ posted' = TRUE /\ typed_lines' \in {typed_lines, Append(typed_lines, typed)}
      /\ UNCHANGED <<wall, slow, at_step, kernel_now, sleep_until, nap, waited, busy,
                     wake_at, on_timer>>
  BY DEF Loop!Type, Loop!loop
<1>2. Behind' = Behind /\ Late' = Late /\ Had' = Had
  BY <1>1 DEF Behind, Late, Had
<1>3. LoopTypes' /\ LoopFlags' /\ LoopInput'
  BY <1>1 DEF LoopInv, LoopTypes, LoopFlags, LoopInput
<1>4. NowIsRecent' /\ CommandWaits'
  BY <1>1, <1>2 DEF LoopInv, NowIsRecent, CommandWaits
<1>5. KeyWaits'
  <2>1. CASE posted
    BY <1>1, <1>2, <2>1 DEF LoopInv, KeyWaits
  <2>2. CASE ~ posted
    <3>1. waited' = 0 /\ Had' \in Nat /\ Nap \in Nat /\ nap' \in Nat /\ nap' =< Nap
      BY <1>1, <2>2, Distances DEF LoopInv, LoopTypes, Had
    <3>2. /\ 0 =< Had' /\ 0 + nap' =< Nap + 1 + Had'
          /\ 0 =< Nap + 2 + Had' /\ 0 =< Nap + 3 + Had'
      BY <3>1, Margins
    <3>6. KeyWaits'
      BY <3>1, <3>2 DEF KeyWaits
    <3> QED
      BY <3>6
  <2> QED
    BY <2>1, <2>2
<1> QED
  BY <1>3, <1>4, <1>5 DEF LoopInv

\* The scheduler is called with the time it is, and returns.
LEMMA LoopCall ==
    ASSUME LoopInv, Loop!Call \/ Loop!Wake
    PROVE  LoopInv'
<1>1. /\ slow' = FALSE
      /\ \/ at_step = "call" /\ at_step' = "run" /\ kernel_now' = wall
         \/ at_step = "asleep" /\ nap = 0 /\ at_step' = "call" /\ kernel_now' = kernel_now
      /\ UNCHANGED <<wall, sleep_until, nap, typed_lines, posted, waited, busy, wake_at,
                     on_timer>>
  BY DEF Loop!Call, Loop!Wake, Loop!GoTo, Loop!console
<1>2. Late' = Late /\ Had' = 0 /\ Had \in {0, 1}
  BY <1>1 DEF Late, Had
<1>3. LoopTypes' /\ LoopFlags' /\ LoopInput'
  <2>1. LoopTypes'
    BY <1>1 DEF LoopInv, LoopTypes
  <2>2. LoopFlags'
    BY <1>1 DEF LoopInv, LoopFlags
  <2>3. LoopInput'
    BY <1>1 DEF LoopInv, LoopInput
  <2> QED
    BY <2>1, <2>2, <2>3
<1>4. at_step = "call" => Behind' = 0
  BY <1>1, Ticks DEF LoopInv, LoopTypes, Behind
<1>5. NowIsRecent'
  BY <1>1, <1>2, <1>4 DEF NowIsRecent
<1>6. KeyWaits'
  BY <1>1, <1>2, Distances DEF LoopInv, LoopTypes, KeyWaits
<1>7. CommandWaits'
  BY <1>1, <1>2, Distances DEF LoopInv, LoopTypes, CommandWaits
<1> QED
  BY <1>3, <1>5, <1>6, <1>7 DEF LoopInv

\* What the scheduler finds of the time of a command that sleeps is how late it was
\* when the scheduler was called.
LEMMA Found ==
    ASSUME LoopInv, busy = "usleep", at_step = "run"
    PROVE  Loop!CycleCmp(wake_at, kernel_now) = Behind - Late
<1> DEFINE h == WallMod \div 2
<1>1. /\ LoopTypes /\ Behind \in Int /\ Late \in Int /\ h \in Nat /\ Nap + 4 < h
      /\ Short \in Nat \ {0} /\ Nap \in Nat /\ Short < Nap /\ 2 * h =< WallMod
      /\ WallMod \in Nat
  BY Distances DEF LoopInv
<1>2. Had \in {0, 1}
  BY DEF Had
<1>3. -h =< Behind - Late /\ Behind - Late < WallMod - h
  BY <1>1, <1>2 DEF LoopInv, CommandWaits, NowIsRecent
<1> QED
  BY <1>1, <1>3, Between DEF LoopTypes, Behind, Late

\* A command that goes on waiting was not late, and a new one begins to wait.
LEMMA LoopRun ==
    ASSUME LoopInv, Loop!Run \/ Loop!NothingToRun
    PROVE  LoopInv'
<1>1. /\ at_step = "run" /\ at_step' = "return" /\ slow' = FALSE
      /\ UNCHANGED <<wall, kernel_now, sleep_until, nap>>
      /\ posted' = FALSE /\ waited' = 0
  BY DEF Loop!Run, Loop!NothingToRun, Loop!GoTo, Loop!console, Loop!Runnable, LoopInv,
         LoopTypes, LoopFlags
<1>2. /\ Behind' = Behind /\ Had' = 0 /\ Had \in {0, 1} /\ LoopTypes
      /\ Behind \in Int /\ Late \in Int /\ Short \in Nat \ {0} /\ Nap \in Nat /\ Short < Nap
      /\ nap = 0
  BY <1>1, Distances DEF Behind, Had, LoopInv, LoopTypes
<1>3. /\ NowIsRecent' /\ KeyWaits'
      /\ Loop!CycleCmp(wake_at, kernel_now) \in Int
  BY <1>1, <1>2, Differs, Distances DEF LoopInv, LoopTypes, NowIsRecent, KeyWaits
<1>4. CASE busy' = busy /\ wake_at' = wake_at /\ on_timer' \in BOOLEAN
           /\ (on_timer' <=> busy = "usleep") /\ typed_lines' = typed_lines
           /\ (busy = "usleep" => Loop!CycleCmp(wake_at, kernel_now) > 0)
  <2>1. LoopTypes' /\ LoopFlags' /\ LoopInput'
    BY <1>1, <1>2, <1>4 DEF LoopInv, LoopTypes, LoopFlags, LoopInput
  <2>2. Late' = Late
    BY <1>1, <1>4 DEF Late
  <2>3. busy = "usleep" => Late =< 0 /\ 4 - (WallMod \div 2) < Late
    <3> SUFFICES ASSUME busy = "usleep"
                 PROVE  Late =< 0 /\ 4 - (WallMod \div 2) < Late
      OBVIOUS
    <3>1. Behind - Late > 0 /\ Behind =< 1
      BY <1>1, <1>2, <1>4, Found DEF LoopInv, NowIsRecent
    <3> QED
      BY <1>2, <3>1 DEF LoopInv, CommandWaits
  <2>4. CommandWaits'
    BY <1>1, <1>2, <1>4, <2>2, <2>3 DEF CommandWaits
  <2> QED
    BY <1>3, <2>1, <2>4 DEF LoopInv
<1>5. CASE busy' = "none" /\ wake_at' = 0 /\ on_timer' = FALSE /\ typed_lines' = typed_lines
  <2>1. LoopTypes'
    BY <1>1, <1>2, <1>5, LoopAssumption DEF LoopTypes
  <2>2. LoopFlags' /\ LoopInput'
    BY <1>1, <1>5 DEF LoopInv, LoopFlags, LoopInput
  <2>3. CommandWaits'
    BY <1>5 DEF CommandWaits
  <2> QED
    BY <1>3, <2>1, <2>2, <2>3 DEF LoopInv
<1>6. ASSUME NEW typed \in LoopLines, busy' = typed.cmd,
             wake_at' = (wall + typed.delay) % WallMod,
             on_timer' = (typed.cmd = "usleep"), typed_lines' = Tail(typed_lines),
             typed_lines # <<>>
      PROVE  LoopInv'
  <2>1. /\ typed.cmd \in {"usleep", "udelay"} /\ typed.delay \in Nat
        /\ typed.cmd = "usleep" => typed.delay + 4 < WallMod \div 2
    BY LoopAssumption DEF LoopLines
  <2>2. /\ wake_at' \in 0 .. WallMod - 1
        /\ typed.cmd = "usleep" => Late' = -typed.delay
    <3>1. /\ (wall + typed.delay) % WallMod \in 0 .. WallMod - 1
          /\ typed.delay < WallMod \div 2 =>
                 Loop!CycleCmp(wall, (wall + typed.delay) % WallMod) = -typed.delay
      BY <1>2, <2>1, Ahead DEF LoopTypes
    <3>2. typed.cmd = "usleep" => typed.delay < WallMod \div 2
      BY <1>2, <2>1, Distances
    <3>3. Late' = Loop!CycleCmp(wall, (wall + typed.delay) % WallMod)
      BY <1>1, <1>6 DEF Late
    <3> QED
      BY <1>6, <3>1, <3>2, <3>3
  <2>3. LoopTypes' /\ LoopFlags' /\ LoopInput'
    <3>1. LoopTypes'
      BY <1>1, <1>2, <2>2 DEF LoopTypes
    <3>2. LoopFlags'
      BY <1>1, <1>6, <2>1 DEF LoopInv, LoopFlags
    <3>3. LoopInput'
      BY <1>6 DEF LoopInv, LoopInput
    <3> QED
      BY <3>1, <3>2, <3>3
  <2>4. CommandWaits'
    BY <1>1, <1>2, <1>6, <2>1, <2>2, Distances DEF CommandWaits
  <2> QED
    BY <1>3, <2>3, <2>4 DEF LoopInv
<1>7. CASE Loop!NothingToRun
  BY <1>2, <1>3, <1>4, <1>7 DEF Loop!NothingToRun, Loop!Runnable, Loop!console, LoopInv, LoopFlags
<1>8. CASE Loop!Run /\ ~ Loop!Over
  BY <1>2, <1>3, <1>4, <1>8 DEF Loop!Run, Loop!Over, LoopInv, LoopFlags
<1>9. CASE Loop!Run /\ Loop!Over /\ typed_lines = <<>>
  BY <1>5, <1>9 DEF Loop!Run
<1>10. CASE Loop!Run /\ Loop!Over /\ typed_lines # <<>>
  <2>1. Head(typed_lines) \in LoopLines
    BY <1>10 DEF LoopInv, LoopInput
  <2> QED
    BY <1>6, <1>10, <2>1 DEF Loop!Run
<1> QED
  BY <1>7, <1>8, <1>9, <1>10

\* What is on the run queue is not slept over, and a command that sleeps is not slept
\* past.
LEMMA LoopReturn ==
    ASSUME LoopInv, Loop!Return
    PROVE  LoopInv'
<1>1. /\ at_step = "return" /\ at_step' = "interval" /\ slow' = FALSE
      /\ UNCHANGED <<wall, kernel_now, nap, typed_lines, posted, waited, busy, wake_at,
                     on_timer>>
      /\ posted => sleep_until' = kernel_now
      /\ ~ posted /\ on_timer => sleep_until' = wake_at \/ busy = "udelay"
      /\ \/ sleep_until' = kernel_now
         \/ sleep_until' = wake_at
         \/ sleep_until' = (kernel_now + WallMod \div 2 - 1) % WallMod
  <2>1. sleep_until' = CASE busy = "udelay" \/ posted -> kernel_now
                         [] on_timer /\ busy # "udelay" /\ ~ posted -> wake_at
                         [] OTHER -> (kernel_now + WallMod \div 2 - 1) % WallMod
    BY DEF Loop!Return
  <2>2. CASE busy = "udelay" \/ posted
    <3>1. sleep_until' = kernel_now
      BY <2>1, <2>2
    <3> QED
      BY <2>2, <3>1 DEF Loop!Return, Loop!GoTo, Loop!console
  <2>3. CASE ~ (busy = "udelay" \/ posted) /\ on_timer
    <3>1. sleep_until' = wake_at
      BY <2>1, <2>3
    <3> QED
      BY <2>3, <3>1 DEF Loop!Return, Loop!GoTo, Loop!console
  <2>4. CASE ~ (busy = "udelay" \/ posted) /\ ~ on_timer
    <3>1. sleep_until' = (kernel_now + WallMod \div 2 - 1) % WallMod
      BY <2>1, <2>4
    <3> QED
      BY <2>4, <3>1 DEF Loop!Return, Loop!GoTo, Loop!console
  <2> QED
    BY <2>2, <2>3, <2>4
<1>2. /\ Behind' = Behind /\ Late' = Late /\ Had' = 0 /\ Had \in {0, 1} /\ LoopTypes
      /\ Behind \in Int /\ Late \in Int /\ nap = 0
  BY <1>1, Distances DEF Behind, Late, Had, LoopInv, LoopTypes
<1>3. sleep_until' \in 0 .. WallMod - 1
  <2>1. (kernel_now + WallMod \div 2 - 1) % WallMod \in 0 .. WallMod - 1
    BY <1>2, Distances DEF LoopTypes
  <2> QED
    BY <1>1, <1>2, <2>1 DEF LoopTypes
<1>4. LoopTypes' /\ LoopFlags' /\ LoopInput'
  <2>1. LoopTypes'
    BY <1>1, <1>2, <1>3 DEF LoopTypes
  <2>2. LoopFlags' /\ LoopInput'
    BY <1>1 DEF LoopInv, LoopFlags, LoopInput
  <2> QED
    BY <2>1, <2>2
<1>5. NowIsRecent'
  BY <1>1, <1>2 DEF LoopInv, NowIsRecent
<1>6. KeyWaits'
  BY <1>1, <1>2 DEF LoopInv, LoopTypes, KeyWaits
<1>7. CommandWaits'
  BY <1>1, <1>2 DEF LoopInv, LoopFlags, CommandWaits
<1> QED
  BY <1>4, <1>5, <1>6, <1>7 DEF LoopInv

\* The nap is not longer than it may be.
LEMMA LoopSleep ==
    ASSUME LoopInv, Loop!Sleep
    PROVE  LoopInv'
<1> DEFINE left == Loop!CycleCmp(sleep_until, wall)
           interval == IF left < Short THEN left ELSE Nap
           h == WallMod \div 2
<1>1. /\ at_step = "interval" /\ at_step' = "asleep" /\ slow' = FALSE
      /\ nap' = IF interval > 0 THEN interval ELSE 0
      /\ sleep_until' = 0
      /\ UNCHANGED <<wall, kernel_now, typed_lines, posted, waited, busy, wake_at, on_timer>>
  BY DEF Loop!Sleep, Loop!GoTo, Loop!console, Loop!Interval
<1>2. /\ Late' = Late /\ Had' = 0 /\ Had \in {0, 1} /\ LoopTypes
      /\ Behind \in Int /\ Late \in Int /\ Short \in Nat \ {0} /\ Nap \in Nat /\ Short < Nap
      /\ h \in Nat /\ Nap + 4 < h /\ 2 * h =< WallMod /\ WallMod \in Nat \ {0}
  BY <1>1, Distances DEF Late, Had, LoopInv
<1>3. left \in Int
  BY <1>2, Differs DEF LoopTypes
<1>4. sleep_until = kernel_now => left = -Behind /\ Behind \in 0 .. 3
  <2> SUFFICES ASSUME sleep_until = kernel_now PROVE left = -Behind /\ Behind \in 0 .. 3
    OBVIOUS
  <2>1. Behind \in 0 .. 3
    BY <1>1, <1>2 DEF LoopInv, NowIsRecent
  <2>2. Loop!CycleCmp(wall, wall) = 0
    BY <1>2, Ticks DEF LoopTypes
  <2>3. Loop!CycleCmp(wall, wall) - Loop!CycleCmp(wall, kernel_now) = -Behind
    BY <1>2, <2>2 DEF Behind
  <2>4. -h =< -Behind /\ -Behind < WallMod - h
    BY <1>2, <2>1
  <2> QED
    BY <1>2, <2>1, <2>3, <2>4, Between DEF LoopTypes
<1>5. busy = "usleep" /\ sleep_until = wake_at => left = -Late
  <2> SUFFICES ASSUME busy = "usleep", sleep_until = wake_at PROVE left = -Late
    OBVIOUS
  <2>1. 4 - h < Late /\ Late =< 2
    BY <1>1, <1>2 DEF LoopInv, CommandWaits
  <2>2. Loop!CycleCmp(wall, wall) = 0
    BY <1>2, Ticks DEF LoopTypes
  <2>3. Loop!CycleCmp(wall, wall) - Loop!CycleCmp(wall, wake_at) = -Late
    BY <1>2, <2>2 DEF Late
  <2>4. -h =< -Late /\ -Late < WallMod - h
    BY <1>2, <2>1
  <2> QED
    BY <1>2, <2>3, <2>4, Between DEF LoopTypes
<1> HIDE DEF left
<1>6. nap' \in 0 .. Nap /\ (left =< 0 => nap' = 0)
      /\ (nap' # 0 => (nap' = left /\ left < Short) \/ (nap' = Nap /\ left >= Short))
  <2>1. CASE left < Short
    <3>1. nap' = IF left > 0 THEN left ELSE 0
      BY <1>1, <2>1
    <3>2. CASE left > 0
      <4>1. nap' = left
        BY <1>3, <3>1, <3>2
      <4>2. left \in 0 .. Nap /\ ~ (left =< 0)
        BY <1>2, <1>3, <2>1, <3>2
      <4> QED
        BY <2>1, <4>1, <4>2
    <3>3. CASE left =< 0
      <4>1. nap' = 0
        BY <1>3, <3>1, <3>3
      <4> QED
        BY <1>2, <4>1
    <3> QED
      BY <1>3, <3>2, <3>3
  <2>2. CASE left >= Short
    <3>1. nap' = Nap
      BY <1>1, <1>2, <1>3, <2>2
    <3> QED
      BY <1>2, <1>3, <2>2, <3>1
  <2> QED
    BY <1>2, <1>3, <2>1, <2>2
<1> HIDE DEF interval, h
<1>7. LoopTypes' /\ LoopFlags' /\ LoopInput'
  <2>1. LoopTypes'
    BY <1>1, <1>2, <1>6 DEF LoopTypes
  <2>2. LoopFlags' /\ LoopInput'
    BY <1>1 DEF LoopInv, LoopFlags, LoopInput
  <2> QED
    BY <2>1, <2>2
<1>8. NowIsRecent'
  BY <1>1 DEF NowIsRecent
<1>9. KeyWaits'
  <2>1. ASSUME posted PROVE waited + nap' =< Nap + 1
    BY <1>1, <1>2, <1>4, <1>6, <2>1 DEF LoopInv, LoopTypes, KeyWaits
  <2> QED
    BY <1>1, <1>2, <2>1 DEF KeyWaits
<1>10. CommandWaits'
  <2>1. ASSUME busy = "usleep" PROVE Late + nap' =< (Nap - Short) + 1
    <3>1. Late =< 2 /\ sleep_until \in {kernel_now, wake_at}
      BY <1>1, <1>2, <2>1 DEF LoopInv, CommandWaits
    <3>2. CASE nap' = 0
      BY <1>2, <3>1, <3>2
    <3>3. CASE nap' # 0
      <4>1. left > 0 /\ sleep_until = wake_at /\ left = -Late
        BY <1>2, <1>3, <1>4, <1>5, <1>6, <2>1, <3>1, <3>3
      <4> QED
        <5>1. CASE nap' = left
          BY <1>2, <1>3, <4>1, <5>1
        <5>2. CASE nap' = Nap /\ left >= Short
          BY <1>2, <1>3, <4>1, <5>2
        <5> QED
          BY <1>6, <3>3, <5>1, <5>2
    <3> QED
      BY <3>2, <3>3
  <2> QED
    BY <1>1, <1>2, <2>1 DEF LoopInv, CommandWaits
<1> QED
  BY <1>7, <1>8, <1>9, <1>10 DEF LoopInv

\* The invariant is inductive.
LEMMA LoopStepInv == LoopInv /\ [Loop!Next]_loop => LoopInv'
<1>1. CASE UNCHANGED loop
  BY <1>1 DEF loop, LoopInv, LoopTypes, LoopFlags, LoopInput, NowIsRecent, KeyWaits, CommandWaits, Had, Behind,
              Late
<1>2. ASSUME NEW d \in Sleeps PROVE [cmd |-> "usleep", delay |-> d] \in LoopLines
  BY DEF LoopLines
<1>3. ASSUME NEW d \in Spins PROVE [cmd |-> "udelay", delay |-> d] \in LoopLines
  BY DEF LoopLines
<1> QED
  BY <1>1, <1>2, <1>3, LoopTick, LoopType, LoopCall, LoopRun, LoopReturn, LoopSleep
     DEF Loop!Next

\* However long the nap, the delays and the clock's cycle: a command that sleeps ends
\* at most a nap after its time, less what a nap is not taken for, and a key is looked
\* at within a nap, but for the four steps of the loop.
THEOREM NobodyWaitsTooLong == Spec => []InTime
<1>1. LoopInv => InTime
  <2> SUFFICES ASSUME LoopInv PROVE InTime
    OBVIOUS
  <2>1. /\ LoopTypes /\ LoopFlags /\ Late \in Int /\ Had \in {0, 1}
        /\ Short \in Nat /\ Nap \in Nat /\ Short < Nap
    BY Distances DEF LoopInv, Had
  <2>2. busy = "usleep" => Late =< (Nap - Short) + 4
    BY <2>1 DEF LoopInv, LoopTypes, LoopFlags, CommandWaits
  <2>3. waited =< Nap + 4
    BY <2>1 DEF LoopInv, LoopTypes, LoopFlags, KeyWaits
  <2> QED
    BY <2>2, <2>3 DEF InTime, Loop!InTime, Loop!Steps, Late
<1>2. LoopInv /\ [Next]_vars => LoopInv'
  BY LoopStepInv, StepOfParts
<1> QED
  BY LoopInit, <1>1, <1>2, PTL DEF Spec

\* Whatever wakes the console, a command that sleeps or spins is not over before its
\* time, across the wrap of the clock.
THEOREM NobodyIsEarly == Spec => NeverEarly
<1>1. LoopInv /\ Loop!Next => Loop!WaitsItOut
  <2> SUFFICES ASSUME LoopInv, Loop!Next, busy # "none",
                      busy' # busy \/ wake_at' # wake_at
               PROVE  Loop!CycleCmp(wall, wake_at) >= 0
    BY DEF Loop!WaitsItOut
  <2>1. Loop!Run /\ Loop!Over
    BY DEF Loop!Next, Loop!Tick, Loop!Type, Loop!Call, Loop!Run, Loop!NothingToRun,
           Loop!Return, Loop!Sleep, Loop!Wake, Loop!GoTo, Loop!console
  <2>2. CASE busy = "udelay"
    BY <2>1, <2>2 DEF Loop!Over
  <2>3. CASE busy = "usleep"
    <3>1. Loop!CycleCmp(wake_at, kernel_now) =< 0 /\ at_step = "run"
      BY <2>1, <2>3 DEF Loop!Over, Loop!Run
    <3>2. Behind - Late =< 0 /\ Behind >= 0
      BY <2>3, <3>1, Found DEF LoopInv, NowIsRecent, Had
    <3> QED
      BY <3>2, Distances DEF LoopInv, Late
  <2> QED
    BY <2>2, <2>3 DEF LoopInv, LoopFlags
<1>2. LoopInv /\ [Next]_vars => [Loop!WaitsItOut]_vars
  <2>1. UNCHANGED loop => Loop!WaitsItOut
    BY DEF loop, Loop!WaitsItOut
  <2> QED
    BY <1>1, <2>1, StepOfParts
<1>3. LoopInv /\ [Next]_vars => LoopInv'
  BY LoopStepInv, StepOfParts
<1> QED
  BY LoopInit, <1>2, <1>3, PTL DEF Spec, NeverEarly
-----------------------------------------------------------------------------
(* RunQ *)

\* Every non-empty set of indices has a greatest one.
LEMMA Greatest ==
    ASSUME NEW n \in Nat, NEW S \in SUBSET (1 .. n), S # {}
    PROVE  Bench!Max(S) \in S /\ \A y \in S : Bench!Max(S) >= y
<1> DEFINE T == {n - x : x \in S}
<1>1. T \subseteq Nat /\ T # {}
  <2>1. \A x \in S : x \in 1 .. n
    OBVIOUS
  <2>2. \A x \in S : n - x \in Nat
    BY <2>1
  <2> QED
    BY <2>2
<1>2. PICK t \in T : \A u \in T : t =< u
  BY <1>1, Least
<1>3. PICK x \in S : t = n - x
  BY <1>2
<1>4. \A y \in S : x >= y
  <2> TAKE y \in S
  <2>1. n - y \in T /\ x \in 1 .. n /\ y \in 1 .. n
    OBVIOUS
  <2>2. n - x =< n - y
    BY <1>2, <1>3, <2>1
  <2> QED
    BY <2>1, <2>2
<1> QED
  BY <1>4 DEF Bench!Max

\* What FoldLeft recurses on, when the fibres of l are put on run one by one
Folding(run, l, iter) ==
    iter = [s \in SUBSET DOMAIN l |->
               IF s = {} THEN run
               ELSE Bench!Queue(iter[s \ {Bench!Max(s)}], l[Bench!Max(s)])]

\* What it makes of them
Folded(run, l) == (CHOOSE iter : Folding(run, l, iter))[DOMAIN l]

\* A fibre is put on a queue once.
LEMMA QueuedOnce ==
    ASSUME NEW T, NEW f \in T, NEW run \in Seq(T)
    PROVE  /\ Bench!Queue(run, f) \in Seq(T) /\ Bench!Contains(Bench!Queue(run, f), f)
           /\ Bench!Queue(Bench!Queue(run, f), f) = Bench!Queue(run, f)
<1>1. CASE Bench!Contains(run, f)
  BY <1>1 DEF Bench!Queue
<1>2. CASE ~ Bench!Contains(run, f)
  <2>1. Bench!Queue(run, f) = Append(run, f) /\ Append(run, f) \in Seq(T)
        /\ Len(run) + 1 \in 1 .. Len(Append(run, f)) /\ Append(run, f)[Len(run) + 1] = f
    BY <1>2 DEF Bench!Queue
  <2>2. Bench!Contains(Append(run, f), f)
    BY <2>1 DEF Bench!Contains
  <2> QED
    BY <2>1, <2>2 DEF Bench!Queue
<1> QED
  BY <1>1, <1>2

\* However often a fibre has been posted, it is put on the queue once.
LEMMA PostedOnce ==
    ASSUME NEW T, NEW f \in T, NEW run \in Seq(T), NEW l \in Seq({f})
    PROVE  Folded(run, l) = IF l = <<>> THEN run ELSE Bench!Queue(run, f)
<1> DEFINE n == Len(l)
           once == Bench!Queue(run, f)
           iter == CHOOSE g : Folding(run, l, g)
<1>1. n \in Nat /\ DOMAIN l = 1 .. n /\ \A k \in 1 .. n : l[k] = f
  OBVIOUS
<1>2. Bench!Queue(once, f) = once
  BY QueuedOnce
<1> HIDE DEF once, n
<1>3. \E g : Folding(run, l, g)
  <2> DEFINE g == [s \in SUBSET DOMAIN l |-> IF s = {} THEN run ELSE once]
  <2>1. ASSUME NEW s \in SUBSET DOMAIN l, s # {}
        PROVE  g[s] = Bench!Queue(g[s \ {Bench!Max(s)}], l[Bench!Max(s)])
    <3>1. l[Bench!Max(s)] = f /\ s \ {Bench!Max(s)} \in SUBSET DOMAIN l
      BY <1>1, <2>1, Greatest
    <3>2. g[s \ {Bench!Max(s)}] \in {run, once}
      BY <3>1
    <3>3. g[s] = once /\ Bench!Queue(run, f) = once
      BY <2>1 DEF once
    <3> QED
      BY <1>2, <3>1, <3>2, <3>3
  <2>2. g = [s \in SUBSET DOMAIN l |->
               IF s = {} THEN run ELSE Bench!Queue(g[s \ {Bench!Max(s)}], l[Bench!Max(s)])]
    BY <2>1
  <2>3. Folding(run, l, g)
    BY <2>2 DEF Folding
  <2> QED
    BY <2>3
<1>4. Folding(run, l, iter)
  BY <1>3
<1> HIDE DEF iter
<1>5. iter[{}] = run
  BY <1>4 DEF Folding
<1>6. ASSUME NEW k \in 1 .. n
      PROVE  iter[1 .. k] = Bench!Queue(iter[1 .. (k - 1)], f)
  <2>1. 1 .. k \in SUBSET (1 .. n) /\ 1 .. k # {} /\ k \in 1 .. k
    <3>1. \A j \in 1 .. k : j \in 1 .. n
      BY <1>1
    <3>2. k \in 1 .. k
      BY <1>1
    <3> QED
      BY <3>1, <3>2
  <2>2. Bench!Max(1 .. k) = k
    <3>1. Bench!Max(1 .. k) \in 1 .. k /\ Bench!Max(1 .. k) >= k
      BY <1>1, <2>1, Greatest
    <3> QED
      BY <3>1
  <2>3. (1 .. k) \ {k} = 1 .. (k - 1)
    OBVIOUS
  <2> QED
    BY <1>1, <1>4, <2>1, <2>2, <2>3 DEF Folding
<1>7. \A k \in 1 .. n : iter[1 .. k] = once
  <2> DEFINE T0 == {k \in 1 .. n : iter[1 .. k] # once}
  <2> SUFFICES ASSUME T0 # {} PROVE FALSE
    OBVIOUS
  <2>1. T0 \subseteq Nat
    OBVIOUS
  <2>2. PICK k \in T0 : \A j \in T0 : k =< j
    BY <2>1, Least
  <2>3. CASE k = 1
    <3>1. 1 .. (k - 1) = {} /\ k \in 1 .. n
      BY <2>3
    <3> QED
      BY <1>5, <1>6, <3>1, <2>2 DEF once
  <2>4. CASE k # 1
    <3>1. k - 1 \in 1 .. n /\ ~ (k =< k - 1) /\ k \in 1 .. n
      BY <1>1, <2>4
    <3>2. iter[1 .. (k - 1)] = once
      BY <2>2, <3>1
    <3> QED
      BY <1>2, <1>6, <2>2, <3>1, <3>2
  <2> QED
    BY <2>3, <2>4
<1>8. CASE l = <<>>
  BY <1>5, <1>8 DEF Folded, iter
<1>9. CASE l # <<>>
  <2>1. n \in 1 .. n
    BY <1>1, <1>9 DEF n
  <2> QED
    BY <1>1, <1>7, <1>9, <2>1 DEF Folded, iter, once
<1> QED
  BY <1>8, <1>9

\* The queues' folds, in both programs
LEMMA Folds ==
    ASSUME NEW q, NEW y, NEW d
    PROVE  /\ Bench!Drain(q) = [run |-> Folded(q.run, q.posted), posted |-> <<>>]
           /\ Bench!Choice(q, y, d).run = Folded(Folded(q.run, q.posted), y \o d)
           /\ Watch!Drain(q) = [run |-> Folded(q.run, q.posted), posted |-> <<>>]
           /\ Watch!Choice(q, y, d).run = Folded(Folded(q.run, q.posted), y \o d)
<1>1. Bench!Drain(q) = [run |-> Folded(q.run, q.posted), posted |-> <<>>]
  BY Zenon DEF Bench!Drain, Bench!FoldLeft, Bench!MapThenFoldSet, Folded, Folding
<1>2. Bench!Choice(q, y, d) =
          [run |-> Folded(Bench!Drain(q).run, y \o d), posted |-> <<>>]
  BY Zenon DEF Bench!Choice, Bench!FoldLeft, Bench!MapThenFoldSet, Folded, Folding
<1>3. Watch!Drain(q) = [run |-> Folded(q.run, q.posted), posted |-> <<>>]
  BY Zenon DEF Watch!Drain, Watch!FoldLeft, Watch!MapThenFoldSet, Watch!Queue, Watch!Max,
               Watch!Contains, Folded, Folding, Bench!Queue, Bench!Max, Bench!Contains
<1>4. Watch!Choice(q, y, d) =
          [run |-> Folded(Watch!Drain(q).run, y \o d), posted |-> <<>>]
  BY Zenon DEF Watch!Choice, Watch!FoldLeft, Watch!MapThenFoldSet, Watch!Queue, Watch!Max,
               Watch!Contains, Folded, Folding, Bench!Queue, Bench!Max, Bench!Contains
<1> QED
  BY <1>1, <1>2, <1>3, <1>4

\* Putting a fibre on the queues that there are
LEMMA ShortQueues ==
    ASSUME NEW f, NEW g, f # g
    PROVE  /\ Bench!Queue(<<>>, f) = <<f>> /\ Bench!Queue(<<f>>, f) = <<f>>
           /\ Bench!Queue(<<g>>, f) = <<g, f>> /\ Bench!Queue(<<g, f>>, f) = <<g, f>>
<1>1. /\ ~ Bench!Contains(<<>>, f) /\ Bench!Contains(<<f>>, f)
      /\ ~ Bench!Contains(<<g>>, f) /\ Bench!Contains(<<g, f>>, f)
  <2>1. ~ Bench!Contains(<<>>, f)
    BY DEF Bench!Contains
  <2>2. Bench!Contains(<<f>>, f)
    BY DEF Bench!Contains
  <2>3. ~ Bench!Contains(<<g>>, f)
    BY DEF Bench!Contains
  <2>4. Bench!Contains(<<g, f>>, f)
    <3>1. 2 \in 1 .. Len(<<g, f>>) /\ <<g, f>>[2] = f
      OBVIOUS
    <3> QED
      BY <3>1 DEF Bench!Contains
  <2> QED
    BY <2>1, <2>2, <2>3, <2>4
<1>2. Append(<<>>, f) = <<f>> /\ Append(<<g>>, f) = <<g, f>>
  <2>1. Append(<<>>, f) = <<f>>
    OBVIOUS
  <2>2. <<g>> \in Seq({f, g}) /\ <<g, f>> \in Seq({f, g}) /\ Len(<<g>>) = 1
    OBVIOUS
  <2>3. Append(<<g>>, f) \in Seq({f, g}) /\ Len(Append(<<g>>, f)) = 2
    BY <2>2
  <2>4. Append(<<g>>, f)[1] = g /\ Append(<<g>>, f)[2] = f
    BY <2>2
  <2>5. Len(<<g, f>>) = 2 /\ <<g, f>>[1] = g /\ <<g, f>>[2] = f
    OBVIOUS
  <2>6. \A i \in 1 .. 2 : Append(<<g>>, f)[i] = <<g, f>>[i]
    BY <2>4, <2>5
  <2> QED
    BY <2>1, <2>2, <2>3, <2>5, <2>6, SeqEqual
<1>3. Bench!Queue(<<>>, f) = Append(<<>>, f) /\ Bench!Queue(<<g>>, f) = Append(<<g>>, f)
  BY <1>1, Zenon DEF Bench!Queue
<1>4. Bench!Queue(<<f>>, f) = <<f>> /\ Bench!Queue(<<g, f>>, f) = <<g, f>>
  BY <1>1, Zenon DEF Bench!Queue
<1> QED
  BY <1>2, <1>3, <1>4

\* Who is in front, and what is left behind
LEMMA Fronts ==
    ASSUME NEW a, NEW b
    PROVE  /\ Head(<<a>>) = a /\ Tail(<<a>>) = <<>> /\ <<a>> # <<>>
           /\ Head(<<a, b>>) = a /\ Tail(<<a, b>>) = <<b>> /\ <<a, b>> # <<>>
<1>1. Tail(<<a, b>>) = <<b>>
  <2>1. <<a, b>> \in Seq({a, b}) /\ <<b>> \in Seq({a, b}) /\ Len(<<a, b>>) = 2
        /\ Len(<<b>>) = 1 /\ <<b>>[1] = b /\ <<a, b>>[2] = b /\ <<a, b>> # <<>>
    OBVIOUS
  <2>2. Tail(<<a, b>>) \in Seq({a, b}) /\ Len(Tail(<<a, b>>)) = 1
        /\ Tail(<<a, b>>)[1] = <<a, b>>[2]
    BY <2>1
  <2>3. \A i \in 1 .. 1 : Tail(<<a, b>>)[i] = <<b>>[i]
    BY <2>1, <2>2
  <2> QED
    BY <2>1, <2>2, <2>3, SeqEqual
<1> QED
  BY <1>1

-----------------------------------------------------------------------------
(* Stopwatch *)

\* The times that are sent and shown, and the events that are sent
Times == [m : 0 .. MaxMinutes, s : 0 .. Minute - 1]
Events == [id : {"time", "exit"}, at : Times]

\* What is shown when an event comes, if the ones before it were not refused
Previous(k) == IF k = 1 THEN shown ELSE events[k - 1].at
Latest == Previous(Len(events) + 1)

\* The seconds left of the stopwatch's sleep, and those that the stalls took, at most
Left == Watch!CycleCmp(due, now)
Stalled == (Stalls - stalls) * LongStall
Total(t) == t.m * Minute + t.s

\* Has the time come, or is it still to come?  (TimeIsUp asks it of Time.)
NoExit == exit_after = [m |-> 0, s |-> 0]
Up(t) == ~ NoExit /\ exit_after.m =< t.m /\ exit_after.s =< t.s
Before(t) == t.m < exit_after.m \/ (t.m = exit_after.m /\ t.s < exit_after.s)

\* Each event that is waiting was posted once at most.
WatchTypes ==
    /\ now \in 0 .. SecondsMod - 1 /\ due \in 0 .. SecondsMod - 1
    /\ began \in 0 .. SecondsMod - 1 /\ stalls \in 0 .. Stalls
    /\ minutes \in 0 .. MaxMinutes /\ seconds \in 0 .. Minute - 1
    /\ exit_after \in {[m |-> 0, s |-> 0], [m |-> 0, s |-> 2], [m |-> 1, s |-> 1]}
    /\ shown \in Times \cup {[m |-> 0, s |-> -1]}
    /\ events \in Seq(Events) /\ Len(events) =< EventRoom
    /\ wq \in [run : Seq({"stopwatch", "updater"}), posted : Seq({"updater"})]
    /\ Len(wq.posted) =< Len(events)

\* Nothing has been shown, and nothing sent either.
Unused == shown.s = -1
Fresh ==
    /\ body = "none" /\ ~ asleep /\ Unused /\ events = <<>>
    /\ wq.run = <<"stopwatch", "updater">> /\ wq.posted = <<>>
    /\ minutes = 0 /\ seconds = 0

\* The updater is to come for the events that there are.
Awaited ==
    /\ wq.run \in {<<>>, <<"updater">>}
    /\ events # <<>> => wq.run = <<"updater">> \/ wq.posted # <<>>
    /\ Unused => wq.run = <<"updater">>

\* The stopwatch sleeps, or counts the seconds that are over.
Asleep == body = "none" /\ asleep /\ Awaited /\ Left =< 1 /\ (Unused => events # <<>>)
Counting == body = "stopwatch" /\ ~ asleep /\ Awaited /\ Left =< 0

\* The updater has seen all the events, and it is the stopwatch's turn again.
Woken ==
    /\ body = "none" /\ ~ asleep /\ ~ Unused /\ events = <<>> /\ Left =< 0
    /\ wq.run = <<"stopwatch">> /\ wq.posted = <<>>

\* The updater is at work; the stopwatch's time may have come in front of it.
Showing ==
    /\ body = "updater" /\ wq.posted = <<>> /\ (Unused => exited \/ events # <<>>)
    /\ \/ asleep /\ wq.run = <<>> /\ Left =< 1
       \/ ~ asleep /\ wq.run = <<"stopwatch">> /\ Left =< 0

Phases == Fresh \/ Asleep \/ Counting \/ Woken \/ Showing

\* A wake-up is late by no more than the stalls took, and each one counts a second.
OnTime ==
    ~ Fresh =>
        /\ 0 =< Left + Stalled
        /\ minutes < MaxMinutes =>
               LET t == Total(Watch!Time) + (IF body = "stopwatch" THEN 0 ELSE 1)
               IN  due \in {began + t, began + t - SecondsMod}

\* The second that is counted is the one of the last event, or the next one.
Recorded ==
    Watch!Time = IF Fresh \/ body = "stopwatch" THEN Watch!Later(Latest) ELSE Latest

\* The events on the way are those of consecutive seconds, and the exit comes right
\* behind the first second that is up.
Consecutive ==
    \A k \in 1 .. Len(events) :
        /\ events[k].at = IF events[k].id = "time" THEN Watch!Later(Previous(k))
                          ELSE Previous(k)
        /\ events[k].id = "time" /\ Up(events[k].at) =>
               k < Len(events) /\ events[k + 1].id = "exit"
        /\ events[k].id = "exit" => Up(Previous(k))

\* The time given to the program is to come, or it is shown and the exit is next.
Expiring ==
    /\ exited => shown = exit_after
    /\ ~ exited /\ ~ NoExit =>
           \/ Before(shown)
           \/ shown = exit_after /\ events # <<>> /\ events[1].id = "exit"

\* No wake-up is refused, and what comes of the events holds while none is refused.
WatchInv ==
    /\ WatchTypes /\ Phases /\ OnTime /\ "A" \notin faults
    /\ faults = {} => Recorded /\ Consecutive /\ Expiring

\* The stalls, together, are shorter than half a cycle.
LEMMA Stalling ==
    ASSUME WatchTypes
    PROVE  /\ Stalled \in Nat /\ Stalled + 1 < SecondsMod \div 2
           /\ stalls > 0 => Stalled + LongStall + 1 < SecondsMod \div 2
           /\ stalls > 0 /\ stalls' = stalls - 1 => Stalled' = Stalled + LongStall
           /\ stalls' = stalls => Stalled' = Stalled
<1> DEFINE d == Stalls - stalls
<1>1. stalls \in Nat /\ stalls =< Stalls /\ Stalls \in Nat /\ LongStall \in Nat
      /\ SecondsMod \in Nat /\ Stalls * LongStall + 1 < SecondsMod \div 2
      /\ d \in Nat /\ d =< Stalls
  BY WatchAssumption DEF WatchTypes
<1>2. stalls > 0 /\ stalls' = stalls - 1 => Stalls - stalls' = d + 1
  BY <1>1
<1>3. Stalled = d * LongStall
  BY DEF Stalled
<1> HIDE DEF d
<1>4. d * LongStall \in Nat /\ (d + 1) * LongStall = d * LongStall + LongStall
  BY <1>1
<1>5. ASSUME NEW e \in Nat, e =< Stalls PROVE e * LongStall + 1 < SecondsMod \div 2
  <2>1. PICK f \in Nat : Stalls = e + f
    <3>1. Stalls - e \in Nat /\ Stalls = e + (Stalls - e)
      BY <1>1, <1>5
    <3> QED
      BY <3>1
  <2>2. Stalls * LongStall = e * LongStall + f * LongStall /\ f * LongStall \in Nat
        /\ e * LongStall \in Nat /\ SecondsMod \div 2 \in Nat
    BY <1>1, <2>1
  <2> QED
    BY <1>1, <2>2
<1>6. stalls > 0 => d + 1 =< Stalls
  BY <1>1 DEF d
<1>7. /\ d * LongStall + 1 < SecondsMod \div 2
      /\ stalls > 0 => (d + 1) * LongStall + 1 < SecondsMod \div 2
  BY <1>1, <1>5, <1>6
<1> QED
  BY <1>2, <1>3, <1>4, <1>7 DEF Stalled

\* A second more on one clock, or several on the other
LEMMA Elapses ==
    ASSUME NEW a \in 0 .. SecondsMod - 1, NEW b \in 0 .. SecondsMod - 1
    PROVE  LET h == SecondsMod \div 2
               e == Watch!CycleCmp(a, b)
           IN  /\ h \in Nat /\ 2 * h =< SecondsMod /\ SecondsMod \in Nat \ {0}
               /\ Watch!CycleCmp(a, a) = 0 /\ (a + 1) % SecondsMod \in 0 .. SecondsMod - 1
               /\ e \in Int /\ e \in {a - b, (a - b) + SecondsMod, (a - b) - SecondsMod}
               /\ (a + 1) % SecondsMod \in {a + 1, a + 1 - SecondsMod}
               /\ e + 1 < h => Watch!CycleCmp((a + 1) % SecondsMod, b) = e + 1
               /\ \A n \in 0 .. SecondsMod - 1 :
                      /\ (b + n) % SecondsMod \in 0 .. SecondsMod - 1
                      /\ -h =< e - n => Watch!CycleCmp(a, (b + n) % SecondsMod) = e - n
<1> DEFINE m == SecondsMod
           h == m \div 2
           e == Watch!CycleCmp(a, b)
<1>1. h \in Nat /\ 2 * h =< m /\ m \in Nat \ {0} /\ h > 1
  BY WatchAssumption
<1>2. ASSUME NEW x \in 0 .. m - 1, NEW y \in 0 .. m - 1
      PROVE  /\ Watch!CycleCmp(x, y) \in -h .. m - h - 1
             /\ Watch!CycleCmp(x, y) \in {x - y, (x - y) + m, (x - y) - m}
  BY <1>1, Cyclic DEF Watch!CycleCmp
<1>3. ASSUME NEW n \in 0 .. m - 1, NEW x \in 0 .. m - 1
      PROVE  (x + n) % m \in 0 .. m - 1 /\ (x + n) % m \in {x + n, x + n - m}
  BY <1>1, Sums
<1> HIDE DEF h, m
<1>4. a \in 0 .. m - 1 /\ b \in 0 .. m - 1
  BY DEF m
<1>5. Watch!CycleCmp(a, a) = 0
  <2> DEFINE z == Watch!CycleCmp(a, a)
  <2>1. z \in -h .. m - h - 1 /\ z \in {a - a, (a - a) + m, (a - a) - m}
    BY <1>2, <1>4
  <2> HIDE DEF z
  <2>2. z = 0
    BY <1>1, <1>4, <2>1
  <2> QED
    BY <2>2 DEF z
<1>6. e \in -h .. m - h - 1 /\ e \in {a - b, (a - b) + m, (a - b) - m}
  BY <1>2, <1>4
<1> HIDE DEF e
<1>7. (a + 1) % m \in 0 .. m - 1 /\ (a + 1) % m \in {a + 1, a + 1 - m}
  <2>1. 1 \in 0 .. m - 1
    BY <1>1
  <2> QED
    BY <1>3, <1>4, <2>1
<1>8. e + 1 < h => Watch!CycleCmp((a + 1) % m, b) = e + 1
  <2> DEFINE x == (a + 1) % m
             f == Watch!CycleCmp(x, b)
  <2>1. x \in 0 .. m - 1 /\ x \in {a + 1, a + 1 - m}
    BY <1>7
  <2> HIDE DEF x
  <2>2. f \in -h .. m - h - 1 /\ f \in {x - b, (x - b) + m, (x - b) - m}
    BY <1>2, <1>4, <2>1
  <2> HIDE DEF f
  <2>3. e + 1 < h => f = e + 1
    BY <1>1, <1>4, <1>6, <2>1, <2>2
  <2> QED
    BY <2>3 DEF f, x
<1>9. ASSUME NEW n \in 0 .. m - 1
      PROVE  /\ (b + n) % m \in 0 .. m - 1
             /\ -h =< e - n => Watch!CycleCmp(a, (b + n) % m) = e - n
  <2> DEFINE x == (b + n) % m
             f == Watch!CycleCmp(a, x)
  <2>1. x \in 0 .. m - 1 /\ x \in {b + n, b + n - m}
    BY <1>3, <1>4
  <2> HIDE DEF x
  <2>2. f \in -h .. m - h - 1 /\ f \in {a - x, (a - x) + m, (a - x) - m}
    BY <1>2, <1>4, <2>1
  <2> HIDE DEF f
  <2>3. -h =< e - n => f = e - n
    BY <1>1, <1>4, <1>6, <2>1, <2>2
  <2> QED
    BY <2>1, <2>3 DEF f, x
<1>10. e \in Int
  BY <1>1, <1>6
<1> QED
  BY <1>1, <1>5, <1>6, <1>7, <1>8, <1>9, <1>10 DEF h, m, e

\* The next second
LEMMA OneLater ==
    ASSUME NEW t \in Times
    PROVE  LET u == Watch!Later(t)
           IN  /\ u \in Times /\ Total(t) \in Nat
               /\ t.m < MaxMinutes => Total(t) < SecondsMod
               /\ u.m < MaxMinutes => t.m < MaxMinutes /\ Total(u) = Total(t) + 1
<1>1. /\ Minute \in Nat /\ Minute > 2 /\ MaxMinutes \in Nat /\ SecondsMod \in Nat
      /\ MaxMinutes * Minute =< SecondsMod
  BY WatchAssumption
<1>2. t.m \in 0 .. MaxMinutes /\ t.s \in 0 .. Minute - 1
  BY DEF Times
<1> DEFINE i == t.m
           j == t.s
<1>3. i \in 0 .. MaxMinutes /\ j \in 0 .. Minute - 1 /\ Total(t) = i * Minute + j
  BY <1>2 DEF Total
<1>4. Total(t) \in Nat /\ (t.m < MaxMinutes => Total(t) < SecondsMod)
  <2> HIDE DEF i, j
  <2>1. i * Minute \in Nat /\ (i + 1) * Minute = i * Minute + Minute
    BY <1>1, <1>3
  <2>2. ASSUME i < MaxMinutes PROVE (i + 1) * Minute =< MaxMinutes * Minute
    <3>1. PICK e \in Nat : MaxMinutes = (i + 1) + e
      <4>1. MaxMinutes - (i + 1) \in Nat /\ MaxMinutes = (i + 1) + (MaxMinutes - (i + 1))
        BY <1>1, <1>3, <2>2
      <4> QED
        BY <4>1
    <3>2. MaxMinutes * Minute = (i + 1) * Minute + e * Minute /\ e * Minute \in Nat
      BY <1>1, <1>3, <3>1
    <3> QED
      BY <1>1, <2>1, <3>2
  <2>3. MaxMinutes * Minute \in Nat
    BY <1>1
  <2>4. i < MaxMinutes => Total(t) < SecondsMod
    BY <1>1, <1>3, <2>1, <2>2, <2>3
  <2>5. Total(t) \in Nat
    BY <1>1, <1>3, <2>1
  <2> QED
    BY <2>4, <2>5 DEF i
<1>5. CASE j + 1 < Minute
  <2>1. Watch!Later(t) = [m |-> i, s |-> j + 1]
    BY <1>5 DEF Watch!Later, Times
  <2>2. Total(Watch!Later(t)) = i * Minute + (j + 1)
        /\ Watch!Later(t).m = i /\ Watch!Later(t) \in Times
    BY <1>1, <1>2, <1>3, <1>5, <2>1 DEF Total, Times
  <2> HIDE DEF i, j
  <2>3. i * Minute \in Nat
    BY <1>1, <1>3
  <2>4. Total(Watch!Later(t)) = Total(t) + 1
    BY <1>3, <2>2, <2>3
  <2> QED
    BY <1>4, <2>2, <2>4 DEF i
<1>6. CASE ~ (j + 1 < Minute)
  <2> DEFINE u == IF i < MaxMinutes THEN i + 1 ELSE i
  <2>1. Watch!Later(t) = [m |-> u, s |-> 0] /\ j = Minute - 1
    <3>1. ~ (t.s + 1 < Minute)
      BY <1>6
    <3>2. j = Minute - 1
      BY <1>1, <1>3, <1>6
    <3> QED
      BY <3>1, <3>2 DEF Watch!Later
  <2>2. u \in 0 .. MaxMinutes
    BY <1>1, <1>3
  <2>3. Total(Watch!Later(t)) = u * Minute + 0
        /\ Watch!Later(t).m = u /\ Watch!Later(t) \in Times
    BY <1>1, <2>1, <2>2 DEF Total, Times
  <2>4. u < MaxMinutes => u = i + 1 /\ i < MaxMinutes
    BY <1>1, <1>3
  <2> HIDE DEF u, i, j
  <2>5. i * Minute \in Nat /\ (i + 1) * Minute = i * Minute + Minute
    BY <1>1, <1>3
  <2>6. u < MaxMinutes => Total(Watch!Later(t)) = Total(t) + 1
    BY <1>1, <1>3, <2>1, <2>3, <2>4, <2>5
  <2> QED
    BY <1>4, <2>3, <2>4, <2>6 DEF i
<1> QED
  BY <1>5, <1>6

\* The first second
LEMMA FirstSecond ==
    /\ Watch!Later([m |-> 0, s |-> -1]) = [m |-> 0, s |-> 0]
    /\ [m |-> 0, s |-> 0] \in Times /\ Total([m |-> 0, s |-> 0]) = 0
<1>1. 0 \in 0 .. MaxMinutes /\ 0 \in 0 .. Minute - 1 /\ Minute > 2 /\ Minute \in Nat
  BY WatchAssumption
<1>2. Watch!Later([m |-> 0, s |-> -1]) = [m |-> 0, s |-> 0]
  BY <1>1 DEF Watch!Later
<1>3. [m |-> 0, s |-> 0] \in Times
  BY <1>1 DEF Times
<1>4. Total([m |-> 0, s |-> 0]) = 0
  BY <1>1 DEF Total
<1> QED
  BY <1>2, <1>3, <1>4

\* The time that is given to the program is not passed by.
LEMMA Approaches ==
    ASSUME WatchTypes, ~ NoExit, NEW t \in Times \cup {[m |-> 0, s |-> -1]}, Before(t)
    PROVE  LET u == Watch!Later(t)
           IN  ~ Up(t) /\ Up(exit_after) /\ (Before(u) \/ u = exit_after)
<1>1. /\ Minute \in Nat /\ Minute > 2 /\ MaxMinutes \in Nat
  BY WatchAssumption
<1>2. exit_after \in {[m |-> 0, s |-> 2], [m |-> 1, s |-> 1]}
  BY DEF WatchTypes, NoExit
<1> DEFINE i == t.m
           j == t.s
           a == exit_after.m
           b == exit_after.s
<1>3. /\ a \in 0 .. 1 /\ b \in 1 .. 2 /\ i \in 0 .. MaxMinutes /\ j \in -1 .. Minute - 1
      /\ exit_after = [m |-> a, s |-> b] /\ t = [m |-> i, s |-> j]
  BY <1>1, <1>2 DEF Times
<1>4. i < a \/ (i = a /\ j < b)
  BY DEF Before
<1>5. ~ Up(t) /\ Up(exit_after)
  <2>1. /\ Up(t) => a =< i /\ b =< j
        /\ a =< a /\ b =< b => Up(exit_after)
    BY DEF Up
  <2> HIDE DEF i, j, a, b
  <2>2. ~ (a =< i /\ b =< j) /\ a =< a /\ b =< b
    BY <1>3, <1>4
  <2> QED
    BY <2>1, <2>2
<1>6. CASE j + 1 < Minute
  <2>1. Watch!Later(t) = [m |-> i, s |-> j + 1]
    BY <1>3, <1>6 DEF Watch!Later
  <2>2. Before(Watch!Later(t)) <=> i < a \/ (i = a /\ j + 1 < b)
    BY <2>1 DEF Before
  <2> HIDE DEF i, j, a, b
  <2>3. i < a \/ (i = a /\ j + 1 < b) \/ (i = a /\ j + 1 = b)
    BY <1>3, <1>4
  <2> QED
    BY <1>3, <1>5, <2>1, <2>2, <2>3
<1>7. CASE ~ (j + 1 < Minute)
  <2> DEFINE u == IF i < MaxMinutes THEN i + 1 ELSE i
  <2>1. Watch!Later(t) = [m |-> u, s |-> 0]
    BY <1>7 DEF Watch!Later
  <2>2. Before(Watch!Later(t)) <=> u < a \/ (u = a /\ 0 < b)
    BY <2>1 DEF Before
  <2> HIDE DEF i, j, a, b
  <2>3. u < a \/ (u = a /\ 0 < b)
    BY <1>1, <1>3, <1>4, <1>7
  <2> QED
    BY <1>5, <2>2, <2>3
<1> QED
  BY <1>6, <1>7

\* Whom the scheduler finds: the updater when an event was sent, and the stopwatch
\* when its time has come
LEMMA WatchChoice ==
    ASSUME WatchTypes
    PROVE  LET d == IF wq.posted = <<>> THEN wq.run ELSE Bench!Queue(wq.run, "updater")
           IN  /\ Watch!Drain(wq).run = d
               /\ Watch!Chosen = IF Watch!Expired = <<>> THEN d
                                 ELSE Bench!Queue(d, "stopwatch")
               /\ Watch!Expired = <<>> <=> ~ (asleep /\ Left =< 0)
<1> DEFINE T == {"stopwatch", "updater"}
           d == IF wq.posted = <<>> THEN wq.run ELSE Bench!Queue(wq.run, "updater")
           x == Watch!Expired
<1>1. wq.run \in Seq(T) /\ wq.posted \in Seq({"updater"}) /\ "updater" \in T /\ "stopwatch" \in T
  BY DEF WatchTypes
<1>2. Folded(wq.run, wq.posted) = d
  BY <1>1, PostedOnce
<1>3. d \in Seq(T)
  <2>1. Bench!Queue(wq.run, "updater") \in Seq(T)
    BY <1>1, QueuedOnce
  <2> QED
    BY <1>1, <2>1
<1>4. Watch!Drain(wq).run = d /\ Watch!Chosen = Folded(d, <<>> \o x)
  <2>1. /\ Watch!Drain(wq) = [run |-> Folded(wq.run, wq.posted), posted |-> <<>>]
        /\ Watch!Choice(wq, <<>>, x).run = Folded(Folded(wq.run, wq.posted), <<>> \o x)
    BY Folds
  <2>2. Watch!Chosen = Watch!Choice(wq, <<>>, x).run
    BY DEF Watch!Chosen
  <2> HIDE DEF d, x
  <2> QED
    BY <1>2, <2>1, <2>2
<1>5. x \in {<<>>, <<"stopwatch">>} /\ <<"stopwatch">> # <<>>
      /\ (x = <<>> <=> ~ (asleep /\ Left =< 0))
  BY DEF Watch!Expired, Left
<1> HIDE DEF x, d, T
<1>6. x \in Seq({"stopwatch"}) /\ <<>> \o x = x
  <2>1. <<>> \in Seq({"stopwatch"}) /\ <<"stopwatch">> \in Seq({"stopwatch"})
        /\ <<>> \o <<>> = <<>> /\ <<>> \o <<"stopwatch">> = <<"stopwatch">>
    OBVIOUS
  <2> QED
    BY <1>5, <2>1
<1>7. Folded(d, x) = IF x = <<>> THEN d ELSE Bench!Queue(d, "stopwatch")
  BY <1>1, <1>3, <1>6, PostedOnce
<1> QED
  BY <1>4, <1>5, <1>6, <1>7 DEF x, d

\* Both fibres are run at the start, the stopwatch first.
LEMMA WatchInit == Init => WatchInv
<1> SUFFICES ASSUME Init PROVE WatchInv
  OBVIOUS
<1> DEFINE s == "stopwatch"
           u == "updater"
           T == {"stopwatch", "updater"}
<1>1. Watch!Init
  BY DEF Init, Start
<1>2. wq = [run |-> <<s, u>>, posted |-> <<>>]
  <2>1. /\ Bench!Queue(<<>>, s) = <<s>> /\ Bench!Queue(<<s>>, u) = <<s, u>>
    <3>1. s # u
      OBVIOUS
    <3> HIDE DEF s, u
    <3> QED
      BY <3>1, ShortQueues
  <2>2. ASSUME NEW r \in Seq(T), NEW f
        PROVE  Watch!Run([run |-> r, posted |-> <<>>], f) =
                   [run |-> Bench!Queue(r, f), posted |-> <<>>]
    <3> DEFINE q == [run |-> r, posted |-> <<>>]
    <3>1. q.run = r /\ q.posted = <<>> /\ <<>> \in Seq({u}) /\ u \in T
      OBVIOUS
    <3>2. Folded(r, <<>>) = r
      BY <3>1, PostedOnce
    <3> HIDE DEF q
    <3>3. Watch!Drain(q) = [run |-> r, posted |-> <<>>]
      BY <3>1, <3>2, Folds
    <3>4. Watch!Queue(r, f) = Bench!Queue(r, f)
      BY Zenon DEF Watch!Queue, Bench!Queue, Watch!Contains, Bench!Contains
    <3>5. Watch!Run(q, f) = [run |-> Bench!Queue(r, f), posted |-> <<>>]
      BY <3>3, <3>4 DEF Watch!Run
    <3> QED
      BY <3>5 DEF q
  <2>3. wq = Watch!Run(Watch!Run([run |-> <<>>, posted |-> <<>>], s), u)
    BY <1>1 DEF Watch!Init, Watch!NoFibres
  <2>4. <<>> \in Seq(T) /\ <<s>> \in Seq(T)
    OBVIOUS
  <2> QED
    BY <2>1, <2>2, <2>3, <2>4
<1>3. WatchTypes
  <2>1. 0 \in 0 .. MaxMinutes /\ 0 \in 0 .. Minute - 1 /\ 0 \in 0 .. SecondsMod - 1
        /\ Stalls \in 0 .. Stalls /\ 0 =< EventRoom
    BY WatchAssumption
  <2>2. exit_after \in {[m |-> 0, s |-> 0], [m |-> 0, s |-> 2], [m |-> 1, s |-> 1]}
    BY <1>1 DEF Watch!Init, Watch!Parse
  <2>3. wq \in [run : Seq({"stopwatch", "updater"}), posted : Seq({"updater"})]
        /\ Len(wq.posted) = 0
    BY <1>2
  <2> QED
    BY <1>1, <2>1, <2>2, <2>3 DEF Watch!Init, WatchTypes
<1>4. Fresh /\ events = <<>> /\ Len(events) = 0
  BY <1>1, <1>2 DEF Watch!Init, Fresh, Unused
<1>5. Recorded
  <2>1. Latest = [m |-> 0, s |-> -1] /\ Watch!Time = [m |-> 0, s |-> 0]
    BY <1>1, <1>4 DEF Latest, Previous, Watch!Init, Watch!Time
  <2> QED
    BY <1>4, <2>1, FirstSecond DEF Recorded
<1>6. Consecutive
  BY <1>4 DEF Consecutive
<1>7. Expiring
  <2>1. shown = [m |-> 0, s |-> -1] /\ exited = FALSE
    BY <1>1 DEF Watch!Init
  <2>2. ~ NoExit => Before(shown)
    BY <1>3, <2>1 DEF WatchTypes, NoExit, Before
  <2> QED
    BY <2>1, <2>2 DEF Expiring
<1> QED
  BY <1>1, <1>3, <1>4, <1>5, <1>6, <1>7 DEF WatchInv, Phases, OnTime, Watch!Init

\* While nothing is sent or shown, the events are what they were.
LEMMA NoNews ==
    ASSUME UNCHANGED <<events, shown, exited, exit_after>>
    PROVE  /\ Latest' = Latest /\ (Unused' <=> Unused)
           /\ Consecutive => Consecutive'
           /\ Expiring => Expiring'
<1>1. ASSUME NEW k PROVE Previous(k)' = Previous(k)
  BY DEF Previous
<1>2. ASSUME NEW t PROVE (Up(t)' <=> Up(t)) /\ (Before(t)' <=> Before(t)) /\ (NoExit' <=> NoExit)
  BY DEF Up, Before, NoExit
<1>3. Latest' = Latest /\ (Unused' <=> Unused)
  BY <1>1 DEF Latest, Unused
<1>4. Consecutive => Consecutive'
  BY <1>1, <1>2 DEF Consecutive
<1>5. Expiring => Expiring'
  BY <1>2 DEF Expiring
<1> QED
  BY <1>3, <1>4, <1>5

\* Whose turn it is, and what the scheduler leaves on the queue
LEMMA Dispatched ==
    ASSUME WatchInv, Watch!Dispatch
    PROVE  /\ wq'.posted = <<>>
           /\ \/ /\ Fresh /\ body' = "stopwatch" /\ ~ asleep' /\ wq'.run = <<"updater">>
              \/ /\ Asleep \/ Woken
                 /\ Left =< 0 /\ ~ Unused /\ events = <<>>
                 /\ body' = "stopwatch" /\ ~ asleep' /\ wq'.run = <<>>
              \/ /\ Asleep /\ body' = "updater"
                 /\ \/ asleep' /\ wq'.run = <<>>
                    \/ Left =< 0 /\ ~ asleep' /\ wq'.run = <<"stopwatch">>
<1> DEFINE s == "stopwatch"
           u == "updater"
           d == IF wq.posted = <<>> THEN wq.run ELSE Bench!Queue(wq.run, u)
           x == Watch!Expired
           c == Watch!Chosen
<1>1. /\ body = "none" /\ c # <<>> /\ body' = Head(c)
      /\ wq' = [run |-> Tail(c), posted |-> <<>>]
      /\ asleep' = (asleep /\ x = <<>>)
  BY DEF Watch!Dispatch
<1>2. wq'.posted = <<>> /\ wq'.run = Tail(c)
  BY <1>1
<1>3. /\ c = IF x = <<>> THEN d ELSE Bench!Queue(d, s)
      /\ x = <<>> <=> ~ (asleep /\ Left =< 0)
  BY WatchChoice DEF WatchInv
<1>4. /\ Bench!Queue(<<>>, s) = <<s>> /\ Bench!Queue(<<u>>, s) = <<u, s>>
      /\ Bench!Queue(<<>>, u) = <<u>> /\ Bench!Queue(<<u>>, u) = <<u>>
  <2>1. s # u
    OBVIOUS
  <2> HIDE DEF s, u
  <2> QED
    BY <2>1, ShortQueues
<1>5. /\ Head(<<s>>) = s /\ Tail(<<s>>) = <<>> /\ Head(<<u>>) = u /\ Tail(<<u>>) = <<>>
      /\ Head(<<s, u>>) = s /\ Tail(<<s, u>>) = <<u>>
      /\ Head(<<u, s>>) = u /\ Tail(<<u, s>>) = <<s>> /\ <<u>> # <<>>
  BY Fronts
<1>6. Fresh \/ Asleep \/ Woken
  BY <1>1 DEF WatchInv, Phases, Counting, Showing
<1>7. CASE Fresh
  <2>1. d = <<s, u>> /\ ~ asleep
    BY <1>7 DEF Fresh
  <2> HIDE DEF d, x, c
  <2>2. c = <<s, u>>
    BY <1>3, <2>1
  <2> QED
    BY <1>1, <1>2, <1>5, <1>7, <2>1, <2>2
<1>8. CASE Woken
  <2>1. d = <<s>> /\ ~ asleep /\ Left =< 0 /\ ~ Unused /\ events = <<>>
    BY <1>8 DEF Woken
  <2> HIDE DEF d, x, c
  <2>2. c = <<s>>
    BY <1>3, <2>1
  <2> QED
    BY <1>1, <1>2, <1>5, <1>8, <2>1, <2>2
<1>9. CASE Asleep
  <2>1. /\ asleep /\ wq.run \in {<<>>, <<u>>}
        /\ events # <<>> => wq.run = <<u>> \/ wq.posted # <<>>
        /\ Unused => wq.run = <<u>>
    BY <1>9 DEF Asleep, Awaited
  <2>2. d \in {<<>>, <<u>>} /\ (d = <<>> => events = <<>> /\ ~ Unused)
    BY <1>4, <1>5, <2>1
  <2> HIDE DEF d, x, c
  <2>3. CASE d = <<u>>
    <3>1. \/ c = <<u>> /\ x = <<>>
          \/ c = <<u, s>> /\ x # <<>> /\ Left =< 0
      BY <1>3, <1>4, <2>3
    <3> QED
      BY <1>1, <1>2, <1>5, <1>9, <2>1, <3>1
  <2>4. CASE d = <<>>
    <3>1. c = <<s>> /\ x # <<>> /\ Left =< 0
      BY <1>1, <1>3, <1>4, <2>4
    <3> QED
      BY <1>1, <1>2, <1>5, <1>9, <2>1, <2>2, <2>4, <3>1
  <2> QED
    BY <2>2, <2>3, <2>4
<1> QED
  BY <1>6, <1>7, <1>8, <1>9

\* The scheduler calls a fibre; if it is the stopwatch, one more second is over, unless
\* it is called for the first time.
LEMMA WatchDispatches == WatchInv /\ Watch!Dispatch => WatchInv'
<1> SUFFICES ASSUME WatchInv, Watch!Dispatch PROVE WatchInv'
  OBVIOUS
<1> DEFINE t == Watch!Time
           u == Watch!Later(t)
<1>1. /\ UNCHANGED <<now, events, shown, exited, exit_after, faults, stalls>>
      /\ wq' = [run |-> Tail(Watch!Chosen), posted |-> <<>>]
      /\ IF body' = "stopwatch"
         THEN IF Unused /\ ~ asleep
              THEN due' = now /\ began' = now /\ UNCHANGED <<minutes, seconds>>
              ELSE minutes' = u.m /\ seconds' = u.s /\ UNCHANGED <<due, began>>
         ELSE UNCHANGED <<due, began, minutes, seconds>>
  BY DEF Watch!Dispatch, Watch!record, Unused
<1>2. WatchTypes /\ Latest' = Latest /\ (Unused' <=> Unused)
  BY <1>1, NoNews DEF WatchInv
<1>3. t \in Times /\ u \in Times /\ t = [m |-> minutes, s |-> seconds] /\ u = [m |-> u.m, s |-> u.s]
  <2>1. t \in Times /\ t = [m |-> minutes, s |-> seconds]
    BY <1>2 DEF WatchTypes, Watch!Time, Times
  <2>2. u \in Times
    BY <2>1, OneLater
  <2> HIDE DEF u
  <2> QED
    BY <2>1, <2>2 DEF Times
<1>4. Watch!Time' = [m |-> minutes', s |-> seconds']
  BY DEF Watch!Time
<1> DEFINE A == Fresh /\ body' = "stopwatch" /\ ~ asleep' /\ wq'.run = <<"updater">>
           B == /\ Asleep \/ Woken
                /\ Left =< 0 /\ ~ Unused /\ events = <<>>
                /\ body' = "stopwatch" /\ ~ asleep' /\ wq'.run = <<>>
           C == /\ Asleep /\ body' = "updater"
                /\ \/ asleep' /\ wq'.run = <<>>
                   \/ Left =< 0 /\ ~ asleep' /\ wq'.run = <<"stopwatch">>
<1>5. wq'.posted = <<>> /\ (A \/ B \/ C)
  BY Dispatched
<1>6. /\ A => /\ due' = now /\ began' = now /\ Watch!Time' = t /\ minutes' = 0 /\ seconds' = 0
              /\ t = [m |-> 0, s |-> 0] /\ (Recorded => t = Watch!Later(Latest))
      /\ B => UNCHANGED <<due, began>> /\ Watch!Time' = u /\ minutes' = u.m
              /\ (Recorded => t = Latest) /\ body = "none" /\ ~ Fresh
      /\ C => UNCHANGED <<due, began>> /\ Watch!Time' = t /\ minutes' = minutes
              /\ (Recorded => t = Latest) /\ body = "none" /\ ~ Fresh
  <2> HIDE DEF u
  <2>1. A => Unused /\ ~ asleep /\ minutes = 0 /\ seconds = 0
    BY DEF Fresh
  <2>2. B \/ C => body = "none" /\ ~ Fresh
    BY DEF Asleep, Woken, Fresh
  <2>3. A => /\ due' = now /\ began' = now /\ minutes' = 0 /\ seconds' = 0
             /\ minutes' = minutes /\ seconds' = seconds
    BY <1>1, <2>1
  <2>4. B => UNCHANGED <<due, began>> /\ minutes' = u.m /\ seconds' = u.s
    BY <1>1
  <2>5. C => UNCHANGED <<due, began, minutes, seconds>>
    BY <1>1
  <2>6. Recorded => t = IF Fresh \/ body = "stopwatch" THEN Watch!Later(Latest) ELSE Latest
    BY DEF Recorded
  <2> HIDE DEF t
  <2>7. A => /\ due' = now /\ began' = now /\ Watch!Time' = t /\ minutes' = 0 /\ seconds' = 0
             /\ t = [m |-> 0, s |-> 0] /\ (Recorded => t = Watch!Later(Latest))
    BY <1>3, <1>4, <2>1, <2>3, <2>6
  <2>8. B => UNCHANGED <<due, began>> /\ Watch!Time' = u /\ minutes' = u.m
              /\ (Recorded => t = Latest) /\ body = "none" /\ ~ Fresh
    BY <1>3, <1>4, <2>2, <2>4, <2>6
  <2>9. C => UNCHANGED <<due, began>> /\ Watch!Time' = t /\ minutes' = minutes
              /\ (Recorded => t = Latest) /\ body = "none" /\ ~ Fresh
    BY <1>3, <1>4, <2>2, <2>5, <2>6
  <2> QED
    BY <2>7, <2>8, <2>9
<1>7. WatchTypes'
  <2>1. Watch!Time' \in Times
    BY <1>3, <1>5, <1>6
  <2>2. minutes' \in 0 .. MaxMinutes /\ seconds' \in 0 .. Minute - 1
    BY <1>4, <2>1 DEF Times
  <2>3. due' \in 0 .. SecondsMod - 1 /\ began' \in 0 .. SecondsMod - 1
    BY <1>2, <1>5, <1>6 DEF WatchTypes
  <2>4. wq'.run \in Seq({"stopwatch", "updater"})
    <3>1. /\ <<>> \in Seq({"stopwatch", "updater"}) /\ <<"updater">> \in Seq({"stopwatch", "updater"})
          /\ <<"stopwatch">> \in Seq({"stopwatch", "updater"})
      OBVIOUS
    <3> QED
      BY <1>5, <3>1
  <2>5. Tail(Watch!Chosen) = wq'.run
    BY <1>1
  <2>6. wq' \in [run : Seq({"stopwatch", "updater"}), posted : Seq({"updater"})]
        /\ Len(wq'.posted) = 0
    <3>1. <<>> \in Seq({"updater"}) /\ Len(<<>>) = 0
      OBVIOUS
    <3>2. Tail(Watch!Chosen) \in Seq({"stopwatch", "updater"})
      BY <2>4, <2>5, Zenon
    <3> QED
      BY <1>1, <1>5, <3>1, <3>2
  <2>7. Len(wq'.posted) =< Len(events')
    BY <1>1, <1>2, <2>6 DEF WatchTypes
  <2> QED
    BY <1>1, <1>2, <2>2, <2>3, <2>6, <2>7 DEF WatchTypes
<1>8. Left' = IF A THEN 0 ELSE Left
  <2>1. now \in 0 .. SecondsMod - 1 /\ now' = now
    BY <1>1, <1>2 DEF WatchTypes
  <2>2. Watch!CycleCmp(now, now) = 0
    BY <2>1, Elapses
  <2>3. A => Left' = Watch!CycleCmp(now, now)
    BY <1>6, <2>1 DEF Left, Watch!CycleCmp
  <2>4. ~ A => due' = due
    BY <1>5, <1>6
  <2>5. ~ A => Left' = Left
    BY <2>1, <2>4 DEF Left, Watch!CycleCmp
  <2> QED
    BY <2>2, <2>3, <2>5
<1>9. Phases' /\ ~ Fresh'
  <2>1. CASE A
    <3>1. Counting'
      BY <1>1, <1>2, <1>5, <1>8, <2>1 DEF Counting, Awaited, Unused, Fresh
    <3> QED
      BY <2>1, <3>1 DEF Phases, Fresh
  <2>2. CASE B
    <3>1. Left' =< 0
      BY <1>6, <1>8, <2>2
    <3>2. Counting'
      BY <1>1, <1>2, <1>5, <2>2, <3>1 DEF Counting, Awaited
    <3> QED
      BY <2>2, <3>2 DEF Phases, Fresh
  <2>3. CASE C
    <3>1. Left' = Left /\ Left =< 1 /\ (Unused => events # <<>>)
      BY <1>8, <2>3 DEF Asleep
    <3>2. Showing'
      BY <1>1, <1>2, <1>5, <2>3, <3>1 DEF Showing
    <3> QED
      BY <2>3, <3>2 DEF Phases, Fresh
  <2> QED
    BY <1>5, <2>1, <2>2, <2>3
<1>10. OnTime'
  <2> DEFINE v == Total(Watch!Time') + (IF body' = "stopwatch" THEN 0 ELSE 1)
  <2>1. Stalled' = Stalled /\ Stalled \in Nat
    BY <1>1, <1>2, Stalling
  <2>2. 0 =< Left' + Stalled'
    <3>1. ~ A => 0 =< Left + Stalled
      BY <1>5, <1>6 DEF WatchInv, OnTime
    <3> HIDE DEF A
    <3> QED
      BY <1>8, <2>1, <3>1
  <2>3. minutes' < MaxMinutes => due' \in {began' + v, began' + v - SecondsMod}
    <3> SUFFICES ASSUME minutes' < MaxMinutes
                 PROVE  due' \in {began' + v, began' + v - SecondsMod}
      OBVIOUS
    <3>1. CASE A
      <4>1. v = 0 /\ due' = now /\ began' = now /\ now \in Int
        BY <1>2, <1>6, <3>1, FirstSecond DEF WatchTypes
      <4> QED
        BY <4>1
    <3>2. CASE B
      <4>1. /\ minutes < MaxMinutes /\ Total(u) = Total(t) + 1 /\ Total(t) \in Nat
            /\ v = Total(u) + 0
        <5>1. u.m < MaxMinutes => t.m < MaxMinutes /\ Total(u) = Total(t) + 1
          BY <1>3, OneLater
        <5>2. Total(t) \in Nat
          BY <1>3, OneLater
        <5> QED
          BY <1>3, <1>6, <3>2, <5>1, <5>2
      <4>2. due \in {began + (Total(t) + 1), began + (Total(t) + 1) - SecondsMod}
        BY <1>6, <3>2, <4>1 DEF WatchInv, OnTime
      <4>3. due' = due /\ began' = began /\ v = Total(t) + 1
        BY <1>6, <3>2, <4>1
      <4> QED
        BY <4>2, <4>3
    <3>3. CASE C
      <4>1. due' = due /\ began' = began /\ v = Total(t) + 1 /\ minutes < MaxMinutes
        BY <1>6, <3>3
      <4>2. due \in {began + (Total(t) + 1), began + (Total(t) + 1) - SecondsMod}
        BY <1>6, <3>3, <4>1 DEF WatchInv, OnTime
      <4> QED
        BY <4>1, <4>2
    <3> QED
      BY <1>5, <3>1, <3>2, <3>3
  <2> QED
    BY <2>2, <2>3 DEF OnTime, Total, Watch!Time
<1>11. faults' = {} => Recorded' /\ Consecutive' /\ Expiring'
  <2> SUFFICES ASSUME faults = {} PROVE Recorded' /\ Consecutive' /\ Expiring'
    BY <1>1
  <2>1. Recorded /\ Consecutive /\ Expiring
    BY DEF WatchInv
  <2>2. Consecutive' /\ Expiring'
    BY <1>1, <2>1, NoNews
  <2>3. Watch!Time' = IF body' = "stopwatch" THEN Watch!Later(Latest) ELSE Latest
    <3> HIDE DEF t
    <3>1. u = Watch!Later(t)
      OBVIOUS
    <3> HIDE DEF u
    <3> QED
      BY <1>5, <1>6, <2>1, <3>1
  <2>4. Recorded'
    BY <1>2, <1>9, <2>3 DEF Recorded, Watch!Later
  <2> QED
    BY <2>2, <2>4
<1> QED
  BY <1>1, <1>7, <1>9, <1>10, <1>11 DEF WatchInv

\* Time goes by: second by second while nobody has anything to do, and by what a stall
\* takes whatever is on the queues.
LEMMA WatchWaits ==
    ASSUME WatchInv, NEW n \in 1 .. SecondsMod - 1, now' = (now + n) % SecondsMod,
           UNCHANGED <<wq, due, asleep, body, minutes, seconds, exit_after, events, shown,
                       exited, faults, began>>,
           \/ stalls' = stalls /\ n = 1 /\ Watch!Chosen = <<>>
           \/ stalls > 0 /\ stalls' = stalls - 1 /\ n =< LongStall,
           body = "none"
    PROVE  WatchInv'
<1> DEFINE h == SecondsMod \div 2
<1>1. /\ WatchTypes /\ now \in 0 .. SecondsMod - 1 /\ due \in 0 .. SecondsMod - 1
      /\ n \in 0 .. SecondsMod - 1 /\ n \in Nat /\ LongStall \in Nat
  BY WatchAssumption DEF WatchInv, WatchTypes
<1>2. /\ h \in Nat /\ Left \in Int /\ now' \in 0 .. SecondsMod - 1
      /\ -h =< Left - n => Left' = Left - n
  <2>1. /\ h \in Nat /\ Left \in Int /\ (now + n) % SecondsMod \in 0 .. SecondsMod - 1
        /\ -h =< Left - n => Watch!CycleCmp(due, (now + n) % SecondsMod) = Left - n
    BY <1>1, Elapses DEF Left
  <2>2. Left' = Watch!CycleCmp(due, (now + n) % SecondsMod)
    BY DEF Left, Watch!CycleCmp
  <2> QED
    BY <2>1, <2>2
<1>3. /\ Stalled \in Nat /\ Stalled + 1 < h
      /\ stalls > 0 => Stalled + LongStall + 1 < h
      /\ stalls > 0 /\ stalls' = stalls - 1 => Stalled' = Stalled + LongStall
      /\ stalls' = stalls => Stalled' = Stalled
  BY <1>1, Stalling
<1>4. Latest' = Latest /\ (Unused' <=> Unused) /\ Watch!Time' = Watch!Time
  BY NoNews DEF Watch!Time
<1>5. Fresh' <=> Fresh
  BY <1>4 DEF Fresh
<1>6. WatchTypes'
  <2>1. stalls' \in 0 .. Stalls
    BY <1>1, WatchAssumption DEF WatchTypes
  <2> QED
    BY <1>1, <1>2, <2>1 DEF WatchTypes
<1>7. ASSUME ~ Fresh PROVE Left' = Left - n /\ 0 =< Left' + Stalled'
  <2>1. 0 =< Left + Stalled
    BY <1>7 DEF WatchInv, OnTime
  <2>2. CASE stalls > 0 /\ stalls' = stalls - 1 /\ n =< LongStall
    <3> HIDE DEF h
    <3> QED
      BY <1>1, <1>2, <1>3, <2>1, <2>2
  <2>3. CASE stalls' = stalls /\ n = 1 /\ Watch!Chosen = <<>>
    <3>1. Left > 0
      <4> DEFINE d == IF wq.posted = <<>> THEN wq.run ELSE Bench!Queue(wq.run, "updater")
      <4>1. /\ Watch!Chosen = IF Watch!Expired = <<>> THEN d ELSE Bench!Queue(d, "stopwatch")
            /\ Watch!Expired = <<>> <=> ~ (asleep /\ Left =< 0)
        BY <1>1, WatchChoice
      <4>2. Asleep \/ Woken
        BY <1>7 DEF WatchInv, Phases, Counting, Showing
      <4>3. <<"stopwatch">> # <<>>
        OBVIOUS
      <4>4. ~ Woken
        BY <2>3, <4>1, <4>3 DEF Woken
      <4>5. asleep
        BY <4>2, <4>4 DEF Asleep
      <4>6. Bench!Queue(d, "stopwatch") # <<>>
        <5>1. d \in Seq({"stopwatch", "updater"})
          <6>1. wq.run \in Seq({"stopwatch", "updater"}) /\ "updater" \in {"stopwatch", "updater"}
            BY <1>1 DEF WatchTypes
          <6>2. Bench!Queue(wq.run, "updater") \in Seq({"stopwatch", "updater"})
            BY <6>1, QueuedOnce
          <6> QED
            BY <6>1, <6>2
        <5> HIDE DEF d
        <5>2. Bench!Contains(Bench!Queue(d, "stopwatch"), "stopwatch")
          BY <5>1, QueuedOnce
        <5>3. ~ Bench!Contains(<<>>, "stopwatch")
          BY DEF Bench!Contains
        <5> QED
          BY <5>2, <5>3
      <4> HIDE DEF d
      <4> QED
        BY <1>2, <2>3, <4>1, <4>5, <4>6
    <3> HIDE DEF h
    <3> QED
      BY <1>1, <1>2, <1>3, <2>1, <2>3, <3>1
  <2> QED
    BY <2>2, <2>3
<1>8. OnTime'
  <2>1. ~ Fresh => 0 =< Left' + Stalled'
    BY <1>7
  <2>2. OnTime
    BY DEF WatchInv
  <2> QED
    BY <1>4, <1>5, <2>1, <2>2 DEF OnTime, Total
<1>9. Phases'
  <2>1. CASE Fresh
    BY <1>5, <2>1 DEF Phases
  <2>2. CASE ~ Fresh
    <3>1. Left' =< Left /\ (Left =< 1 => Left' =< 1) /\ (Left =< 0 => Left' =< 0)
      BY <1>1, <1>2, <1>7, <2>2
    <3>2. Awaited' <=> Awaited
      BY <1>4 DEF Awaited
    <3>3. Asleep \/ Woken
      BY <2>2 DEF WatchInv, Phases, Counting, Showing
    <3>4. (Asleep => Asleep') /\ (Woken => Woken')
      BY <1>4, <3>1, <3>2 DEF Asleep, Woken
    <3> QED
      BY <3>3, <3>4 DEF Phases
  <2> QED
    BY <2>1, <2>2
<1>10. faults' = {} => Recorded' /\ Consecutive' /\ Expiring'
  <2> SUFFICES ASSUME faults = {} PROVE Recorded' /\ Consecutive' /\ Expiring'
    OBVIOUS
  <2>1. Recorded /\ Consecutive /\ Expiring
    BY DEF WatchInv
  <2>2. Recorded'
    BY <1>4, <1>5, <2>1 DEF Recorded, Watch!Later
  <2> QED
    BY <2>1, <2>2, NoNews
<1> QED
  BY <1>6, <1>8, <1>9, <1>10 DEF WatchInv

\* The updater has nothing more to show.
LEMMA WatchShowsNoMore == WatchInv /\ Watch!ShowNoMore => WatchInv'
<1> SUFFICES ASSUME WatchInv, Watch!ShowNoMore PROVE WatchInv'
  OBVIOUS
<1>1. /\ body = "updater" /\ ~ exited /\ events = <<>> /\ body' = "none"
      /\ UNCHANGED <<wq, now, due, asleep, minutes, seconds, exit_after, events, shown,
                     exited, faults, stalls, began>>
  BY DEF Watch!ShowNoMore, Watch!record
<1>2. /\ Latest' = Latest /\ (Unused' <=> Unused) /\ Watch!Time' = Watch!Time
      /\ Left' = Left /\ Stalled' = Stalled
  BY <1>1, NoNews DEF Watch!Time, Left, Stalled, Watch!CycleCmp
<1>3. Showing /\ ~ Unused
  BY <1>1 DEF WatchInv, Phases, Fresh, Asleep, Counting, Woken, Showing
<1>4. ~ Fresh /\ ~ Fresh'
  BY <1>1, <1>2, <1>3 DEF Fresh
<1>5. Phases'
  <2>1. CASE asleep
    <3>1. Asleep'
      BY <1>1, <1>2, <1>3, <2>1 DEF Asleep, Showing, Awaited
    <3> QED
      BY <3>1 DEF Phases
  <2>2. CASE ~ asleep
    <3>1. Woken'
      BY <1>1, <1>2, <1>3, <2>2 DEF Woken, Showing
    <3> QED
      BY <3>1 DEF Phases
  <2> QED
    BY <2>1, <2>2
<1>6. OnTime'
  <2>1. OnTime
    BY DEF WatchInv
  <2> QED
    BY <1>1, <1>2, <1>4, <2>1 DEF OnTime, Total
<1>7. WatchTypes'
  BY <1>1 DEF WatchInv, WatchTypes
<1>8. faults' = {} => Recorded' /\ Consecutive' /\ Expiring'
  <2> SUFFICES ASSUME faults = {} PROVE Recorded' /\ Consecutive' /\ Expiring'
    BY <1>1
  <2>1. Recorded /\ Consecutive /\ Expiring
    BY DEF WatchInv
  <2>2. Recorded'
    BY <1>1, <1>2, <1>4, <2>1 DEF Recorded
  <2> QED
    BY <1>1, <2>1, <2>2, NoNews
<1> QED
  BY <1>1, <1>5, <1>6, <1>7, <1>8 DEF WatchInv

\* The updater shows the first event.
LEMMA WatchShows == WatchInv /\ Watch!Show => WatchInv'
<1> SUFFICES ASSUME WatchInv, Watch!Show PROVE WatchInv'
  OBVIOUS
<1> DEFINE n == Len(events)
<1>1. /\ body = "updater" /\ ~ exited /\ events # <<>> /\ events' = Tail(events)
      /\ IF Head(events).id = "exit" THEN exited' = TRUE /\ UNCHANGED shown
         ELSE shown' = Head(events).at /\ UNCHANGED exited
      /\ UNCHANGED <<wq, now, due, asleep, body, minutes, seconds, exit_after, faults,
                     stalls, began>>
  BY DEF Watch!Show, Watch!record
<1>2. /\ WatchTypes /\ events \in Seq(Events) /\ n \in Nat /\ n > 0 /\ Head(events) = events[1]
      /\ events[1] \in Events /\ events' \in Seq(Events) /\ Len(events') = n - 1
      /\ \A k \in 1 .. n - 1 : events'[k] = events[k + 1]
  BY <1>1 DEF WatchInv, WatchTypes
<1>3. /\ Watch!Time' = Watch!Time /\ Left' = Left /\ Stalled' = Stalled
      /\ \A t : (Up(t)' <=> Up(t)) /\ (Before(t)' <=> Before(t))
      /\ NoExit' <=> NoExit
  BY <1>1 DEF Watch!Time, Left, Stalled, Watch!CycleCmp, Up, Before, NoExit
<1>4. Showing /\ ~ Fresh /\ ~ Fresh'
  BY <1>1 DEF WatchInv, Phases, Fresh, Asleep, Counting, Woken, Showing
<1>5. shown' \in Times \cup {[m |-> 0, s |-> -1]} /\ (shown' = events[1].at => ~ Unused')
  <2>1. events[1].at \in Times
    BY <1>2 DEF Events
  <2>2. events[1].at.s \in 0 .. Minute - 1
    BY <2>1 DEF Times
  <2>3. events[1].at.s # -1
    BY <2>2, WatchAssumption
  <2> QED
    BY <1>1, <1>2, <2>1, <2>3 DEF WatchTypes, Unused
<1>6. WatchTypes'
  <2>1. Len(wq'.posted) =< Len(events') /\ Len(events') =< EventRoom
    <3>1. wq.posted = <<>> /\ Len(<<>>) = 0
      BY <1>4 DEF Showing
    <3> QED
      BY <1>1, <1>2, <3>1, WatchAssumption DEF WatchTypes
  <2> QED
    BY <1>1, <1>2, <1>5, <2>1 DEF WatchTypes
<1>7. OnTime'
  <2>1. OnTime
    BY DEF WatchInv
  <2> QED
    BY <1>1, <1>3, <1>4, <2>1 DEF OnTime, Total
<1>8. ASSUME faults = {}
      PROVE  /\ events[1].at = IF events[1].id = "time" THEN Watch!Later(shown) ELSE shown
             /\ events[1].id = "time" /\ Up(events[1].at) => n > 1 /\ events[2].id = "exit"
             /\ events[1].id = "exit" => Up(shown)
             /\ Recorded /\ Consecutive /\ Expiring
  <2>1. Recorded /\ Consecutive /\ Expiring
    BY <1>8 DEF WatchInv
  <2>2. 1 \in 1 .. n /\ Previous(1) = shown /\ 1 + 1 = 2
    BY <1>2 DEF Previous
  <2> QED
    BY <2>1, <2>2 DEF Consecutive
<1>9. events[1].id \in {"time", "exit"}
  BY <1>2 DEF Events
<1>10. faults = {} => shown' = events[1].at
  BY <1>1, <1>2, <1>8, <1>9
<1>11. Phases'
  <2>1. Unused' => exited'
    BY <1>1, <1>2, <1>5, <1>9
  <2>2. Showing'
    BY <1>1, <1>3, <1>4, <2>1 DEF Showing
  <2> QED
    BY <2>2 DEF Phases
<1>12. ASSUME faults = {} PROVE Latest' = Latest /\ \A k \in 1 .. n : Previous(k)' = Previous(k + 1)
  <2>1. ASSUME NEW k \in 1 .. n PROVE Previous(k)' = Previous(k + 1)
    <3>1. CASE k = 1
      <4>1. Previous(k)' = shown' /\ Previous(k + 1) = events[1].at
        BY <3>1 DEF Previous
      <4> QED
        BY <1>10, <1>12, <4>1
    <3>2. CASE k # 1
      <4>1. k - 1 \in 1 .. n - 1 /\ (k - 1) + 1 = k /\ (k + 1) - 1 = k /\ k + 1 # 1
        BY <1>2, <3>2
      <4>2. Previous(k)' = events'[k - 1] . at /\ Previous(k + 1) = events[(k + 1) - 1].at
        BY <3>2, <4>1 DEF Previous
      <4>3. events'[k - 1] = events[(k - 1) + 1]
        BY <1>2, <4>1
      <4> QED
        BY <4>1, <4>2, <4>3
    <3> QED
      BY <3>1, <3>2
  <2>2. PICK j \in Nat : j = n
    BY <1>2
  <2>3. j \in 1 .. n /\ Len(events') + 1 = j /\ Len(events) + 1 = j + 1
    BY <1>2, <2>2
  <2>4. Latest = Previous(j + 1)
    BY <2>3 DEF Latest
  <2>5. Latest' = Previous(j)'
    BY <2>3 DEF Latest, Previous
  <2>6. Previous(j)' = Previous(j + 1)
    BY <2>1, <2>3
  <2> QED
    BY <2>1, <2>4, <2>5, <2>6
<1>13. ASSUME faults = {} PROVE Recorded' /\ Consecutive' /\ Expiring'
  <2>1. Recorded /\ Consecutive /\ Expiring /\ shown' = events[1].at
    BY <1>8, <1>10, <1>13
  <2>2. Recorded'
    BY <1>1, <1>3, <1>4, <1>12, <1>13, <2>1 DEF Recorded, Watch!Later
  <2>3. Consecutive'
    <3> SUFFICES ASSUME NEW k \in 1 .. n - 1
                 PROVE  /\ events'[k].at = IF events'[k].id = "time"
                                           THEN Watch!Later(Previous(k)') ELSE Previous(k)'
                        /\ events'[k].id = "time" /\ Up(events'[k].at) =>
                               k < n - 1 /\ events'[k + 1].id = "exit"
                        /\ events'[k].id = "exit" => Up(Previous(k)')
      <4>1. Len(events') = n - 1
        BY <1>2
      <4> QED
        BY <1>3, <4>1 DEF Consecutive, Watch!Later, Up, NoExit, Previous
    <3>1. k + 1 \in 1 .. n /\ k \in 1 .. n /\ events'[k] = events[k + 1]
      BY <1>2
    <3>2. Previous(k)' = Previous(k + 1)
      BY <1>12, <1>13, <3>1
    <3>3. /\ events[k + 1].at = IF events[k + 1].id = "time" THEN Watch!Later(Previous(k + 1))
                                ELSE Previous(k + 1)
          /\ events[k + 1].id = "time" /\ Up(events[k + 1].at) =>
                 k + 1 < n /\ events[(k + 1) + 1].id = "exit"
          /\ events[k + 1].id = "exit" => Up(Previous(k + 1))
      BY <2>1, <3>1 DEF Consecutive
    <3>4. k + 1 < n => k < n - 1 /\ events'[k + 1] = events[(k + 1) + 1]
      BY <1>2
    <3> QED
      BY <3>1, <3>2, <3>3, <3>4
  <2>4. Expiring'
    <3>1. CASE NoExit
      <4>1. ~ Up(shown)
        BY <3>1 DEF Up
      <4>2. events[1].id = "time"
        BY <1>8, <1>9, <1>13, <4>1
      <4>3. ~ exited'
        BY <1>1, <1>2, <4>2
      <4> QED
        BY <1>3, <3>1, <4>3 DEF Expiring
    <3>2. CASE ~ NoExit /\ events[1].id = "exit"
      <4>1. shown' = shown /\ exited' /\ exit_after' = exit_after
        BY <1>1, <1>2, <3>2
      <4>2. ~ Before(shown)
        <5>1. Up(shown) /\ shown \in Times \cup {[m |-> 0, s |-> -1]}
          BY <1>2, <1>8, <1>13, <3>2 DEF WatchTypes
        <5> QED
          BY <1>2, <3>2, <5>1, Approaches
      <4>3. shown = exit_after
        BY <1>1, <2>1, <3>2, <4>2 DEF Expiring
      <4> QED
        BY <4>1, <4>3 DEF Expiring
    <3>3. CASE ~ NoExit /\ events[1].id = "time"
      <4>1. ~ exited' /\ shown' = Watch!Later(shown) /\ exit_after' = exit_after
        BY <1>1, <1>2, <1>8, <1>13, <2>1, <3>3
      <4>2. Before(shown)
        BY <1>1, <2>1, <3>3 DEF Expiring
      <4>3. shown \in Times \cup {[m |-> 0, s |-> -1]}
        BY <1>2 DEF WatchTypes
      <4>4. Up(exit_after) /\ (Before(shown') \/ shown' = exit_after)
        BY <1>2, <3>3, <4>1, <4>2, <4>3, Approaches
      <4>5. shown' = exit_after => events' # <<>> /\ events'[1].id = "exit"
        <5> SUFFICES ASSUME shown' = exit_after PROVE events' # <<>> /\ events'[1].id = "exit"
          OBVIOUS
        <5>1. Up(events[1].at)
          BY <2>1, <4>4
        <5>2. n > 1 /\ events[2].id = "exit"
          BY <1>8, <1>13, <3>3, <5>1
        <5>3. 1 \in 1 .. n - 1 /\ 1 + 1 = 2 /\ Len(events') # 0
          BY <1>2, <5>2
        <5>4. events'[1] = events[2]
          BY <1>2, <5>3
        <5> QED
          BY <5>2, <5>3, <5>4
      <4>6. Before(shown') => Before(shown)'
        BY <4>1 DEF Before
      <4> QED
        BY <4>1, <4>4, <4>5, <4>6 DEF Expiring
    <3> QED
      BY <1>9, <3>1, <3>2, <3>3
  <2> QED
    BY <2>2, <2>3, <2>4
<1> QED
  BY <1>1, <1>6, <1>7, <1>11, <1>13 DEF WatchInv

\* What is sent of some events: as many of them as there is room for, and as many
\* wake-ups are posted.
LEMMA Sending ==
    ASSUME WatchTypes, NEW todo \in Seq(Events), todo # <<>>
    PROVE  LET sent == Watch!Sent(todo)
               e == events \o sent
               q == Watch!PostAll(todo)
           IN  /\ sent \in Seq(Events) /\ Len(events) + Len(sent) =< EventRoom
               /\ e \in Seq(Events) /\ Len(e) = Len(events) + Len(sent) /\ e # <<>>
               /\ q \in [run : Seq({"stopwatch", "updater"}), posted : Seq({"updater"})]
               /\ q.run = wq.run /\ Len(q.posted) = Len(wq.posted) + Len(sent)
               /\ Len(q.posted) =< Len(e)
               /\ events = <<>> => q.posted # <<>>
<1> DEFINE room == EventRoom - Len(events)
           n == IF Len(todo) =< room THEN Len(todo) ELSE room
           sent == Watch!Sent(todo)
           p == wq.posted
           more_p == [k \in Watch!Posted(todo) |-> "updater"]
<1>1. /\ events \in Seq(Events) /\ Len(events) \in Nat /\ Len(events) =< EventRoom
      /\ p \in Seq({"updater"}) /\ Len(p) \in Nat /\ Len(p) =< Len(events)
      /\ Len(todo) \in Nat /\ Len(todo) # 0 /\ EventRoom \in Nat \ {0}
      /\ DOMAIN todo = 1 .. Len(todo)
  BY WatchAssumption DEF WatchTypes
<1>2. n \in Nat /\ n =< Len(todo) /\ n =< room /\ (events = <<>> => n # 0)
  BY <1>1
<1>3. DOMAIN todo \cap Watch!Places = 1 .. n
  BY <1>1 DEF Watch!Places
<1>4. sent = [k \in 1 .. n |-> todo[k]]
  BY <1>3, Zenon DEF Watch!Sent
<1> HIDE DEF n, sent
<1>5. sent \in Seq(Events) /\ Len(sent) = n
  <2>1. \A k \in 1 .. n : todo[k] \in Events
    BY <1>1, <1>2
  <2> QED
    BY <1>2, <1>4, <2>1
<1>6. Watch!Posted(todo) = 1 .. n
  <2>1. DOMAIN sent = 1 .. n
    BY <1>4
  <2>2. \A k \in 1 .. n : k \in 1 .. EventRoom - Len(p)
    BY <1>1, <1>2
  <2> QED
    BY <2>1, <2>2 DEF Watch!Posted, sent
<1>7. more_p \in Seq({"updater"}) /\ Len(more_p) = n
  BY <1>2, <1>6
<1> HIDE DEF more_p
<1>8. p \o more_p \in Seq({"updater"}) /\ Len(p \o more_p) = Len(p) + n
  <2>1. p \in Seq({"updater"}) /\ more_p \in Seq({"updater"}) /\ Len(more_p) = n
    BY <1>1, <1>7
  <2> HIDE DEF p
  <2>2. Len(p \o more_p) = Len(p) + Len(more_p) /\ p \o more_p \in Seq({"updater"})
    BY <2>1, ConcatProperties, Zenon
  <2> QED
    BY <2>1, <2>2, Zenon
<1>9. Watch!PostAll(todo) = [wq EXCEPT !.posted = p \o more_p]
  BY DEF Watch!PostAll, more_p
<1>10. /\ Watch!PostAll(todo) \in [run : Seq({"stopwatch", "updater"}), posted : Seq({"updater"})]
       /\ Watch!PostAll(todo).run = wq.run /\ Watch!PostAll(todo).posted = p \o more_p
  <2> DEFINE w == p \o more_p
             v == [wq EXCEPT !.posted = w]
  <2>1. wq \in [run : Seq({"stopwatch", "updater"}), posted : Seq({"updater"})]
    BY DEF WatchTypes
  <2>2. w \in Seq({"updater"}) /\ Watch!PostAll(todo) = v
    BY <1>8, <1>9
  <2> HIDE DEF w
  <2>3. v \in [run : Seq({"stopwatch", "updater"}), posted : Seq({"updater"})]
    BY <2>1, <2>2
  <2>4. v.run = wq.run /\ v.posted = w
    BY <2>1
  <2> HIDE DEF v
  <2> QED
    BY <2>2, <2>3, <2>4 DEF w
<1>11. /\ events \o sent \in Seq(Events) /\ Len(events \o sent) = Len(events) + n
       /\ events \o sent # <<>>
  <2> DEFINE joined == events \o sent
  <2>1. joined \in Seq(Events) /\ Len(joined) = Len(events) + n
    <3>1. joined \in Seq(Events) /\ Len(joined) = Len(events) + Len(sent)
      BY <1>1, <1>5, ConcatProperties, Zenon
    <3> QED
      BY <1>5, <3>1, Zenon
  <2> HIDE DEF joined
  <2>2. Len(events) + n # 0
    BY <1>1, <1>2
  <2>3. joined # <<>>
    BY <2>1, <2>2
  <2> QED
    BY <2>1, <2>3 DEF joined
<1>12. events = <<>> => p \o more_p # <<>>
  BY <1>1, <1>2, <1>8
<1>13. Len(events) + n =< EventRoom /\ Len(p) + n =< Len(events) + n
  BY <1>1, <1>2
<1> QED
  BY <1>5, <1>8, <1>10, <1>11, <1>12, <1>13 DEF sent

\* Once round the stopwatch's loop
LEMMA WatchPasses == WatchInv /\ Watch!Pass => WatchInv'
<1> SUFFICES ASSUME WatchInv, Watch!Pass PROVE WatchInv'
  OBVIOUS
<1> DEFINE t == Watch!Time
           u == Watch!Later(t)
           todo == IF Watch!TimeIsUp THEN <<Watch!Report, Watch!Expiry>> ELSE <<Watch!Report>>
           sent == Watch!Sent(todo)
           n == Len(events)
           overdue == Watch!CycleCmp((due + 1) % SecondsMod, now) =< 0
<1>1. /\ body = "stopwatch" /\ events' = events \o sent /\ wq' = Watch!PostAll(todo)
      /\ faults' = faults \cup (IF sent # todo THEN {"E"} ELSE {})
                          \cup (IF Len(wq.posted) + Len(sent) > EventRoom THEN {"A"} ELSE {})
      /\ due' = (due + 1) % SecondsMod
      /\ IF overdue
         THEN /\ minutes' = u.m /\ seconds' = u.s /\ UNCHANGED <<exit_after, asleep, body>>
         ELSE asleep' = TRUE /\ body' = "none" /\ UNCHANGED <<minutes, seconds, exit_after>>
      /\ UNCHANGED <<now, shown, exited, stalls, began>>
  BY Zenon DEF Watch!Pass, Watch!record
<1>2. exit_after' = exit_after /\ WatchTypes /\ Counting /\ ~ Fresh
  BY <1>1 DEF WatchInv, Phases, Fresh, Asleep, Woken, Showing
<1>3. t \in Times /\ u \in Times /\ t = [m |-> minutes, s |-> seconds] /\ u = [m |-> u.m, s |-> u.s]
      /\ Total(t) \in Nat
  <2>1. t \in Times /\ t = [m |-> minutes, s |-> seconds]
    BY <1>2 DEF WatchTypes, Watch!Time, Times
  <2>2. u \in Times /\ Total(t) \in Nat
    BY <2>1, OneLater
  <2> HIDE DEF u
  <2> QED
    BY <2>1, <2>2 DEF Times
<1>4. Watch!Time' = IF overdue THEN u ELSE t
  <2>1. Watch!Time' = [m |-> minutes', s |-> seconds']
    BY DEF Watch!Time
  <2> HIDE DEF u, t, overdue
  <2> QED
    BY <1>1, <1>3, <2>1
<1>5. /\ todo \in Seq(Events) /\ todo # <<>>
      /\ todo[1] = [id |-> "time", at |-> t]
      /\ Len(todo) = IF Up(t) THEN 2 ELSE 1
      /\ Up(t) => todo[2] = [id |-> "exit", at |-> t]
  <2>1. Watch!TimeIsUp <=> Up(t)
    BY <1>3 DEF Watch!TimeIsUp, Up, NoExit
  <2>2. /\ Watch!Report = [id |-> "time", at |-> t] /\ Watch!Report \in Events
        /\ Watch!Expiry = [id |-> "exit", at |-> t] /\ Watch!Expiry \in Events
    BY <1>3 DEF Watch!Report, Watch!Expiry, Events
  <2> DEFINE r == Watch!Report
             x == Watch!Expiry
  <2> HIDE DEF r, x
  <2>3. /\ r \in Events /\ x \in Events => <<r, x>> \in Seq(Events) /\ <<r>> \in Seq(Events)
        /\ <<r, x>> # <<>> /\ <<r>> # <<>> /\ Len(<<r>>) = 1 /\ Len(<<r, x>>) = 2
        /\ <<r>>[1] = r /\ <<r, x>>[1] = r /\ <<r, x>>[2] = x
    OBVIOUS
  <2>4. todo = IF Up(t) THEN <<r, x>> ELSE <<r>>
    BY <2>1 DEF r, x
  <2>5. r = [id |-> "time", at |-> t] /\ x = [id |-> "exit", at |-> t] /\ r \in Events /\ x \in Events
    BY <2>2 DEF r, x
  <2> HIDE DEF todo, t
  <2> QED
    BY <2>3, <2>4, <2>5
<1> HIDE DEF todo
<1>6. /\ sent \in Seq(Events) /\ n + Len(sent) =< EventRoom
      /\ events' \in Seq(Events) /\ Len(events') = n + Len(sent) /\ events' # <<>>
      /\ wq' \in [run : Seq({"stopwatch", "updater"}), posted : Seq({"updater"})]
      /\ wq'.run = wq.run /\ Len(wq'.posted) = Len(wq.posted) + Len(sent)
      /\ Len(wq'.posted) =< Len(events')
      /\ events = <<>> => wq'.posted # <<>>
  BY <1>1, <1>2, <1>5, Sending
<1> HIDE DEF sent
<1>7. /\ now \in 0 .. SecondsMod - 1 /\ due \in 0 .. SecondsMod - 1 /\ n \in Nat
      /\ Len(wq.posted) \in Nat /\ Len(wq.posted) =< n /\ Len(sent) \in Nat
      /\ events \in Seq(Events) /\ Left \in Int /\ Left =< 0 /\ EventRoom \in Nat
      /\ SecondsMod \in Nat
  <2>1. now \in 0 .. SecondsMod - 1 /\ due \in 0 .. SecondsMod - 1
    BY <1>2 DEF WatchTypes
  <2>2. Left \in Int
    BY <2>1, Elapses DEF Left
  <2> QED
    BY <1>2, <1>6, <2>1, <2>2, WatchAssumption DEF WatchTypes, Counting
<1>8. /\ due' \in 0 .. SecondsMod - 1 /\ due' \in {due + 1, due + 1 - SecondsMod}
      /\ Left' = Left + 1 /\ (overdue <=> Left' =< 0)
  <2>1. /\ (due + 1) % SecondsMod \in 0 .. SecondsMod - 1
        /\ (due + 1) % SecondsMod \in {due + 1, due + 1 - SecondsMod}
        /\ Left + 1 < SecondsMod \div 2 =>
               Watch!CycleCmp((due + 1) % SecondsMod, now) = Left + 1
    BY <1>7, Elapses DEF Left
  <2>2. Left + 1 < SecondsMod \div 2
    <3>1. SecondsMod \div 2 \in Int /\ Stalled \in Nat /\ Stalled + 1 < SecondsMod \div 2
      BY <1>2, <1>7, Stalling
    <3> QED
      BY <1>7, <3>1
  <2>3. Left' = Watch!CycleCmp((due + 1) % SecondsMod, now)
    BY <1>1 DEF Left, Watch!CycleCmp
  <2> QED
    BY <1>1, <2>1, <2>2, <2>3
<1> HIDE DEF overdue
<1>9. WatchTypes'
  <2>1. Watch!Time' \in Times /\ Watch!Time' = [m |-> minutes', s |-> seconds']
    BY <1>3, <1>4 DEF Watch!Time
  <2>2. minutes' \in 0 .. MaxMinutes /\ seconds' \in 0 .. Minute - 1
    BY <2>1 DEF Times
  <2> QED
    BY <1>1, <1>2, <1>6, <1>8, <2>2 DEF WatchTypes
<1>10. Phases' /\ ~ Fresh'
  <2>1. Awaited'
    <3>1. Unused' <=> Unused
      BY <1>1 DEF Unused
    <3>2. events # <<>> /\ wq.posted # <<>> => wq'.posted # <<>>
      <4>1. wq.posted \in Seq({"updater"}) /\ wq'.posted \in Seq({"updater"})
        BY <1>2, <1>6 DEF WatchTypes
      <4>2. wq.posted # <<>> => Len(wq'.posted) # 0
        BY <1>6, <1>7, <4>1
      <4> QED
        BY <4>1, <4>2
    <3> QED
      BY <1>2, <1>6, <3>1, <3>2 DEF Counting, Awaited
  <2>2. CASE overdue
    <3>1. Counting'
      BY <1>1, <1>2, <1>8, <2>1, <2>2 DEF Counting
    <3> QED
      BY <3>1 DEF Phases, Fresh, Counting
  <2>3. CASE ~ overdue
    <3>1. Left' =< 1
      BY <1>7, <1>8
    <3>2. Asleep'
      BY <1>1, <1>6, <2>1, <2>3, <3>1 DEF Asleep
    <3> QED
      BY <3>2 DEF Phases, Fresh, Asleep
  <2> QED
    BY <2>2, <2>3
<1>11. OnTime'
  <2> DEFINE v == Total(Watch!Time') + (IF body' = "stopwatch" THEN 0 ELSE 1)
  <2>1. Stalled' = Stalled /\ Stalled \in Nat /\ 0 =< Left + Stalled
    BY <1>1, <1>2, Stalling DEF WatchInv, OnTime
  <2>2. 0 =< Left' + Stalled'
    BY <1>7, <1>8, <2>1
  <2>3. minutes' < MaxMinutes => due' \in {began' + v, began' + v - SecondsMod}
    <3> SUFFICES ASSUME minutes' < MaxMinutes
                 PROVE  due' \in {began' + v, began' + v - SecondsMod}
      OBVIOUS
    <3>1. v = Total(t) + 1 /\ minutes < MaxMinutes
      <4>1. CASE overdue
        <5>1. u.m < MaxMinutes => t.m < MaxMinutes /\ Total(u) = Total(t) + 1
          BY <1>3, OneLater
        <5>2. minutes' = u.m /\ Watch!Time' = u /\ body' = "stopwatch" /\ t.m = minutes
          BY <1>1, <1>3, <1>4, <4>1
        <5> QED
          BY <1>3, <5>1, <5>2
      <4>2. CASE ~ overdue
        BY <1>1, <1>4, <4>2
      <4> QED
        BY <4>1, <4>2
    <3>2. Total(t) < SecondsMod
      <4>1. t.m < MaxMinutes => Total(t) < SecondsMod
        BY <1>3, OneLater
      <4> QED
        BY <1>3, <3>1, <4>1
    <3> DEFINE b == began
               w == Total(t)
    <3>3. due \in {b + w, b + w - SecondsMod} /\ b \in 0 .. SecondsMod - 1
      <4>1. due \in {b + (w + 0), b + (w + 0) - SecondsMod}
        BY <1>1, <1>2, <3>1 DEF WatchInv, OnTime
      <4>2. w + 0 = w
        BY <1>3
      <4> QED
        BY <1>2, <4>1, <4>2 DEF WatchTypes
    <3>4. w \in Nat /\ w < SecondsMod /\ v = w + 1 /\ began' = b
      BY <1>1, <1>3, <3>1, <3>2
    <3> HIDE DEF v, w, b
    <3>5. due' \in {b + v, b + v - SecondsMod}
      BY <1>7, <1>8, <3>3, <3>4
    <3> QED
      BY <3>4, <3>5
  <2> QED
    BY <2>2, <2>3 DEF OnTime, Total, Watch!Time
<1>12. "A" \notin faults' /\ (faults' = {} => faults = {} /\ sent = todo)
  <2>1. ~ (Len(wq.posted) + Len(sent) > EventRoom)
    BY <1>6, <1>7
  <2> QED
    BY <1>1, <2>1 DEF WatchInv
<1>13. ASSUME faults' = {}
       PROVE  /\ \A k \in 1 .. n : events'[k] = events[k] /\ Previous(k)' = Previous(k)
              /\ events'[n + 1] = [id |-> "time", at |-> t]
              /\ Len(events') = IF Up(t) THEN n + 2 ELSE n + 1
              /\ Up(t) => events'[n + 2] = [id |-> "exit", at |-> t]
  <2>1. /\ events' = events \o todo /\ todo \in Seq(Events) /\ events \in Seq(Events)
        /\ n = Len(events) /\ n \in Nat
    BY <1>1, <1>5, <1>7, <1>12, <1>13
  <2>2. /\ \A k \in 1 .. n : (events \o todo)[k] = events[k]
        /\ Len(events \o todo) = n + Len(todo)
        /\ \A k \in 1 .. Len(todo) : (events \o todo)[n + k] = todo[k]
    BY <2>1
  <2>3. Len(todo) \in {1, 2} /\ 1 \in 1 .. Len(todo) /\ (Up(t) => 2 \in 1 .. Len(todo))
    BY <1>5
  <2>4. ASSUME NEW k \in 1 .. n PROVE events'[k] = events[k] /\ Previous(k)' = Previous(k)
    <3>1. k # 1 => k - 1 \in 1 .. n
      BY <2>1
    <3>2. events'[k] = events[k] /\ (k # 1 => events'[k - 1] = events[k - 1])
      BY <2>1, <2>2, <3>1
    <3> QED
      BY <1>1, <3>2 DEF Previous
  <2> HIDE DEF t, n
  <2>5. (events \o todo)[n + 1] = todo[1] /\ (Up(t) => (events \o todo)[n + 2] = todo[2])
    BY <2>2, <2>3
  <2>6. Len(events') = IF Up(t) THEN n + 2 ELSE n + 1
    BY <1>5, <2>1, <2>2
  <2> QED
    BY <1>5, <2>1, <2>4, <2>5, <2>6
<1>14. ASSUME faults' = {} PROVE Recorded' /\ Consecutive' /\ Expiring'
  <2>1. Recorded /\ Consecutive /\ Expiring /\ t = Watch!Later(Latest)
    BY <1>1, <1>12, <1>14 DEF WatchInv, Recorded
  <2>2. PICK j \in Nat : j = n
    BY <1>7
  <2>3. /\ \A k \in 1 .. j : events'[k] = events[k] /\ Previous(k)' = Previous(k)
        /\ events'[j + 1] = [id |-> "time", at |-> t]
        /\ Len(events') = IF Up(t) THEN j + 2 ELSE j + 1
        /\ Up(t) => events'[j + 2] = [id |-> "exit", at |-> t]
    BY <1>13, <1>14, <2>2
  <2>4. Previous(j + 1)' = Latest /\ (Up(t) => Previous(j + 2)' = t)
    <3>1. Previous(j + 1)' = Latest
      <4>1. CASE j = 0
        <5>1. Latest = shown /\ Previous(j + 1)' = shown'
          BY <2>2, <4>1 DEF Latest, Previous
        <5> QED
          BY <1>1, <5>1
      <4>2. CASE j # 0
        <5>1. Latest = events[j].at /\ Previous(j + 1)' = events'[j] . at /\ j \in 1 .. j
          BY <2>2, <4>2 DEF Latest, Previous
        <5> QED
          BY <2>3, <5>1
      <4> QED
        BY <4>1, <4>2
    <3>2. Up(t) => Previous(j + 2)' = t
      <4>1. (j + 2) - 1 = j + 1 /\ j + 2 # 1
        OBVIOUS
      <4>2. Previous(j + 2)' = events'[j + 1] . at
        BY <4>1 DEF Previous
      <4> QED
        BY <2>3, <4>2
    <3> QED
      BY <3>1, <3>2
  <2>5. Latest' = t
    <3>1. CASE Up(t)
      <4>1. Len(events') + 1 = j + 3 /\ (j + 3) - 1 = j + 2 /\ j + 3 # 1
        BY <2>3, <3>1
      <4>2. Latest' = events'[j + 2] . at
        BY <4>1 DEF Latest, Previous
      <4> QED
        BY <2>3, <3>1, <4>2
    <3>2. CASE ~ Up(t)
      <4>1. Len(events') + 1 = j + 2 /\ (j + 2) - 1 = j + 1 /\ j + 2 # 1
        BY <2>3, <3>2
      <4>2. Latest' = events'[j + 1] . at
        BY <4>1 DEF Latest, Previous
      <4> QED
        BY <2>3, <3>2, <4>2
    <3> QED
      BY <3>1, <3>2
  <2>6. Recorded'
    <3> HIDE DEF t
    <3>1. u = Watch!Later(t)
      OBVIOUS
    <3> HIDE DEF u
    <3>2. Watch!Time' = IF body' = "stopwatch" THEN Watch!Later(Latest') ELSE Latest'
      BY <1>1, <1>4, <2>5, <3>1
    <3> QED
      BY <1>10, <3>2 DEF Recorded, Watch!Later
  <2>7. Consecutive'
    <3> SUFFICES ASSUME NEW k \in 1 .. Len(events')
                 PROVE  /\ events'[k].at = IF events'[k].id = "time"
                                           THEN Watch!Later(Previous(k)') ELSE Previous(k)'
                        /\ events'[k].id = "time" /\ Up(events'[k].at) =>
                               k < Len(events') /\ events'[k + 1].id = "exit"
                        /\ events'[k].id = "exit" => Up(Previous(k)')
      BY <1>2 DEF Consecutive, Watch!Later, Up, NoExit, Previous
    <3>1. CASE k \in 1 .. j
      <4>1. events'[k] = events[k] /\ Previous(k)' = Previous(k)
        BY <2>3, <3>1
      <4>2. /\ events[k].at = IF events[k].id = "time" THEN Watch!Later(Previous(k))
                              ELSE Previous(k)
            /\ events[k].id = "time" /\ Up(events[k].at) =>
                   k < n /\ events[k + 1].id = "exit"
            /\ events[k].id = "exit" => Up(Previous(k))
        BY <2>1, <2>2, <3>1 DEF Consecutive
      <4>3. k < n => k < Len(events') /\ events'[k + 1] = events[k + 1]
        BY <2>2, <2>3, <3>1
      <4> QED
        BY <4>1, <4>2, <4>3
    <3>2. CASE k = j + 1
      <4>1. events'[k].id = "time" /\ events'[k].at = t /\ Previous(k)' = Latest
        BY <2>3, <2>4, <3>2
      <4>2. Up(t) => k < Len(events') /\ k + 1 = j + 2 /\ events'[j + 2].id = "exit"
        BY <2>3, <3>2
      <4> HIDE DEF t
      <4> QED
        BY <2>1, <4>1, <4>2
    <3>3. CASE k = j + 2
      <4>1. Up(t)
        BY <2>3, <3>3
      <4>2. events'[k].id = "exit" /\ events'[k].at = t /\ Previous(k)' = t
        BY <2>3, <2>4, <3>3, <4>1
      <4> QED
        BY <4>1, <4>2
    <3> QED
      BY <2>3, <3>1, <3>2, <3>3
  <2>8. Expiring'
    <3>1. /\ NoExit' <=> NoExit
          /\ Before(shown)' <=> Before(shown)
      BY <1>1, <1>2 DEF NoExit, Before
    <3>2. events # <<>> => events' # <<>> /\ events'[1] = events[1]
      <4>1. events # <<>> => 1 \in 1 .. j
        BY <1>7, <2>2
      <4> QED
        BY <1>6, <2>3, <4>1
    <3> QED
      BY <1>1, <1>2, <2>1, <3>1, <3>2 DEF Expiring
  <2> QED
    BY <2>6, <2>7, <2>8
<1> QED
  BY <1>9, <1>10, <1>11, <1>12, <1>14 DEF WatchInv

\* The invariant is kept by every step of the stopwatch.
LEMMA WatchStepInv == WatchInv /\ [Watch!Next]_watch => WatchInv'
<1> SUFFICES ASSUME WatchInv, [Watch!Next]_watch PROVE WatchInv'
  OBVIOUS
<1>1. SecondsMod \in Nat /\ 1 \in 1 .. SecondsMod - 1 /\ LongStall \in Nat
  BY WatchAssumption
<1>2. ASSUME Watch!Tick PROVE WatchInv'
  <2>1. 1 \in 1 .. SecondsMod - 1 /\ now' = (now + 1) % SecondsMod /\ stalls' = stalls
        /\ Watch!Chosen = <<>> /\ body = "none"
        /\ UNCHANGED <<wq, due, asleep, body, minutes, seconds, exit_after, events, shown,
                       exited, faults, began>>
    BY <1>1, <1>2 DEF Watch!Tick, Watch!record
  <2> QED
    BY <2>1, WatchWaits
<1>3. ASSUME NEW n \in 2 .. LongStall, Watch!Stall(n) PROVE WatchInv'
  <2>1. /\ now' = (now + n) % SecondsMod /\ stalls > 0 /\ stalls' = stalls - 1 /\ body = "none"
        /\ UNCHANGED <<wq, due, asleep, body, minutes, seconds, exit_after, events, shown,
                       exited, faults, began>>
    BY <1>3 DEF Watch!Stall, Watch!record
  <2>2. n \in 1 .. SecondsMod - 1 /\ n =< LongStall
    <3>1. Stalled \in Nat /\ Stalled + LongStall + 1 < SecondsMod \div 2
      BY <2>1, Stalling DEF WatchInv
    <3> QED
      BY <1>1, <3>1
  <2> QED
    BY <2>1, <2>2, WatchWaits
<1>4. ASSUME UNCHANGED watch PROVE WatchInv'
  <2>1. UNCHANGED <<wq, now, due, asleep, body, minutes, seconds, exit_after, events, shown,
                    exited, faults, stalls, began>>
    BY <1>4 DEF watch
  <2>2. /\ Latest' = Latest /\ (Unused' <=> Unused) /\ Watch!Time' = Watch!Time
        /\ Left' = Left /\ Stalled' = Stalled
    BY <2>1, NoNews DEF Watch!Time, Left, Stalled, Watch!CycleCmp
  <2>3. (Fresh' <=> Fresh) /\ (Awaited' <=> Awaited)
    BY <2>1, <2>2 DEF Fresh, Awaited
  <2>4. Phases' /\ OnTime' /\ WatchTypes'
    BY <2>1, <2>2, <2>3 DEF WatchInv, Phases, Asleep, Counting, Woken, Showing, OnTime, Total,
                            WatchTypes
  <2>5. faults = {} => Recorded' /\ Consecutive' /\ Expiring'
    <3>1. Recorded => Recorded'
      BY <2>1, <2>2, <2>3 DEF Recorded, Watch!Later
    <3> QED
      BY <2>1, <3>1, NoNews DEF WatchInv
  <2> QED
    BY <2>1, <2>4, <2>5 DEF WatchInv
<1> QED
  BY <1>2, <1>3, <1>4, WatchDispatches, WatchPasses, WatchShows, WatchShowsNoMore
     DEF Watch!Next

\* The invariant, when the process is idle, is what InStep says.
LEMMA WatchIsInStep == WatchInv => Watch!InStep
<1> SUFFICES ASSUME WatchInv PROVE Watch!InStep
  OBVIOUS
<1> DEFINE d == IF wq.posted = <<>> THEN wq.run ELSE Bench!Queue(wq.run, "updater")
<1>1. WatchTypes
  BY DEF WatchInv
<1>2. /\ Watch!Drain(wq).run = d
      /\ Watch!Chosen = IF Watch!Expired = <<>> THEN d ELSE Bench!Queue(d, "stopwatch")
      /\ Watch!Expired = <<>> <=> ~ (asleep /\ Left =< 0)
  BY <1>1, WatchChoice
<1>3. /\ wq.run \in Seq({"stopwatch", "updater"})
      /\ "updater" \in {"stopwatch", "updater"} /\ "stopwatch" \in {"stopwatch", "updater"}
  BY <1>1 DEF WatchTypes
<1>4. /\ Bench!Contains(Bench!Queue(wq.run, "updater"), "updater")
      /\ Bench!Queue(wq.run, "updater") \in Seq({"stopwatch", "updater"})
  BY <1>3, QueuedOnce
<1>5. \A r : Watch!Contains(r, "updater") <=> Bench!Contains(r, "updater")
  BY Zenon DEF Watch!Contains, Bench!Contains
<1>6. events # <<>> => body = "updater" \/ Watch!Contains(Watch!Drain(wq).run, "updater")
  <2>1. Bench!Contains(<<"updater">>, "updater")
    BY DEF Bench!Contains
  <2>2. events # <<>> /\ body # "updater" => wq.run = <<"updater">> \/ wq.posted # <<>>
    BY DEF WatchInv, Phases, Fresh, Asleep, Counting, Woken, Showing, Awaited
  <2>3. wq.run = <<"updater">> \/ wq.posted # <<>> => Bench!Contains(d, "updater")
    BY <1>4, <2>1
  <2> HIDE DEF d
  <2> QED
    BY <1>2, <1>5, <2>2, <2>3
<1>7. exited /\ faults = {} => shown = exit_after
  BY DEF WatchInv, Expiring
<1>8. ASSUME Watch!Idle, faults = {}, minutes < MaxMinutes
      PROVE  shown.m * Minute + shown.s = (now - began) % SecondsMod
  <2>1. body = "none" /\ Watch!Chosen = <<>>
    BY <1>8 DEF Watch!Idle
  <2>2. \A r \in Seq({"stopwatch", "updater"}) :
            Bench!Queue(r, "updater") # <<>> /\ Bench!Queue(r, "stopwatch") # <<>>
    <3> TAKE r \in Seq({"stopwatch", "updater"})
    <3>1. /\ Bench!Contains(Bench!Queue(r, "updater"), "updater")
          /\ Bench!Contains(Bench!Queue(r, "stopwatch"), "stopwatch")
      BY <1>3, QueuedOnce
    <3>2. ~ Bench!Contains(<<>>, "updater") /\ ~ Bench!Contains(<<>>, "stopwatch")
      BY DEF Bench!Contains
    <3> QED
      BY <3>1, <3>2
  <2>3. d \in Seq({"stopwatch", "updater"})
    BY <1>3, <1>4
  <2>4. Watch!Expired = <<>> /\ d = <<>>
    <3> HIDE DEF d
    <3> QED
      BY <1>2, <2>1, <2>2, <2>3
  <2>5. wq.run = <<>> /\ wq.posted = <<>>
    BY <1>3, <2>2, <2>4
  <2>6. <<"stopwatch">> # <<>> /\ <<"stopwatch", "updater">> # <<>> /\ <<"updater">> # <<>>
    OBVIOUS
  <2>7. Asleep /\ ~ Fresh
    BY <2>1, <2>5, <2>6 DEF WatchInv, Phases, Fresh, Counting, Woken, Showing
  <2>8. events = <<>>
    BY <2>5, <2>6, <2>7 DEF Asleep, Awaited
  <2>9. Watch!Time = shown
    <3>1. Latest = shown
      BY <2>8 DEF Latest, Previous
    <3> QED
      BY <1>8, <2>1, <2>7, <3>1 DEF WatchInv, Recorded
  <2> DEFINE t == Total(Watch!Time)
  <2>10. /\ now \in 0 .. SecondsMod - 1 /\ due \in 0 .. SecondsMod - 1
         /\ began \in 0 .. SecondsMod - 1 /\ SecondsMod \in Nat \ {0}
    BY <1>1, WatchAssumption DEF WatchTypes
  <2>11. t \in Nat /\ t < SecondsMod
    <3>1. Watch!Time \in Times /\ Watch!Time.m = minutes
      BY <1>1 DEF WatchTypes, Times, Watch!Time
    <3>2. t \in Nat /\ (Watch!Time.m < MaxMinutes => t < SecondsMod)
      BY <3>1, OneLater
    <3> QED
      BY <1>8, <3>1, <3>2
  <2>12. due \in {began + (t + 1), began + (t + 1) - SecondsMod}
    BY <1>8, <2>1, <2>7 DEF WatchInv, OnTime
  <2>13. /\ Left = 1
         /\ Left \in {due - now, (due - now) + SecondsMod, (due - now) - SecondsMod}
    <3>1. /\ Left \in Int
          /\ Left \in {due - now, (due - now) + SecondsMod, (due - now) - SecondsMod}
      BY <2>10, Elapses DEF Left
    <3>2. ~ (Left =< 0) /\ Left =< 1
      BY <1>2, <2>4, <2>7 DEF Asleep
    <3> QED
      BY <3>1, <3>2
  <2> DEFINE x == now - began
  <2> HIDE DEF t
  <2>14. x \in Int /\ x \in {t, t - SecondsMod}
    BY <2>10, <2>11, <2>12, <2>13
  <2> HIDE DEF x
  <2>15. x % SecondsMod = t
    BY <2>10, <2>11, <2>14, Reduce
  <2>16. t = shown.m * Minute + shown.s
    BY <2>9 DEF t, Total
  <2> QED
    BY <2>15, <2>16 DEF x
<1> QED
  BY <1>6, <1>7, <1>8 DEF Watch!InStep, WatchInv

\* However many seconds a stall takes, however many places the event queue has, and
\* wherever the clock wraps: what the terminal shows moves from one second to the next
\* one, unless an event was refused.
THEOREM SecondsAreShown == Spec => SecondBySecond
<1>1. WatchInv /\ Watch!Next => Watch!SecondBySecond
  <2> SUFFICES ASSUME WatchInv, Watch!Next, shown' # shown, faults = {}
               PROVE  shown' = Watch!Later(shown)
    BY DEF Watch!SecondBySecond
  <2>1. Watch!Show
    BY DEF Watch!Next, Watch!Dispatch, Watch!Tick, Watch!Stall, Watch!Pass, Watch!ShowNoMore
  <2>2. /\ events # <<>> /\ Head(events).id # "exit" /\ shown' = Head(events).at
    BY <2>1 DEF Watch!Show
  <2>3. /\ Len(events) \in Nat /\ 1 \in 1 .. Len(events) /\ Head(events) = events[1]
        /\ events[1] \in Events
    BY <2>2 DEF WatchInv, WatchTypes
  <2>4. events[1].id = "time"
    BY <2>2, <2>3 DEF Events
  <2>5. events[1].at = Watch!Later(Previous(1))
    BY <2>3, <2>4 DEF WatchInv, Consecutive
  <2> QED
    BY <2>2, <2>3, <2>5 DEF Previous
<1>2. WatchInv /\ [Next]_vars => [Watch!SecondBySecond]_vars
  <2>1. UNCHANGED watch => Watch!SecondBySecond
    BY DEF watch, Watch!SecondBySecond
  <2> QED
    BY <1>1, <2>1, StepOfParts
<1>3. WatchInv /\ [Next]_vars => WatchInv'
  BY WatchStepInv, StepOfParts
<1> QED
  BY WatchInit, <1>2, <1>3, PTL DEF Spec, SecondBySecond


-----------------------------------------------------------------------------
(* Bench *)

\* The fibres of the stage, and everybody
First == Bench!One(stage)
Second == Bench!Other(stage)
Mates == {First, Second}
Everybody == Bench!Players \cup {Bench!Conductor}

\* How often a fibre has gone round its loop
Rounds(f) == Bench!Count(f)

\* The values of the variables; the fibres that are under way
BenchTypes ==
    /\ ticks \in 0 .. ClockMod - 1 /\ took \in Nat
    /\ stage \in 0 .. 5 /\ round \in 0 .. Repeats /\ (stage < 5 <=> round < Repeats)
    /\ bm \in [Bench!Players -> [pt : {"top", "loop"}, start : 0 .. ClockMod - 1,
                                 end : 0 .. ClockMod - 1, count : Nat]]
    /\ \A f \in Bench!Players :
           bm[f].pt = "loop" => stage \in 1 .. 4 /\ f \in Mates \ ended /\ bm[f].count > 0

\* Both fibres have gone round c times.
Level(c) ==
    /\ ended = {} /\ Rounds(First) = c /\ Rounds(Second) = c
    /\ took = IF stage = 1 THEN c ELSE 2 * c
    /\ Bench!Chosen = IF stage = 2 THEN <<First, Second>> ELSE <<First>>

\* The first fibre has gone round once more than the second, whose turn it is.
Uneven(c) ==
    /\ stage # 1 /\ ended = {} /\ Rounds(First) = c + 1 /\ Rounds(Second) = c
    /\ took = 2 * c + 1
    /\ Bench!Chosen = IF stage = 2 THEN <<Second, First>> ELSE <<Second>>

\* The first fibre has ended; the second is in front of the conductor.
Half ==
    /\ stage # 1 /\ ended = {First} /\ Rounds(Second) = Cycles
    /\ bm[First].count = Cycles + 1 /\ took = 2 * Cycles + 1
    /\ Bench!Chosen = <<Second, Bench!Conductor>>

\* All have ended.
Over ==
    /\ ended = Mates /\ \A f \in Mates : bm[f].count = Cycles + 1
    /\ took \in 1 .. 2 * Cycles + 2
    /\ Bench!Chosen = <<Bench!Conductor>> /\ Bench!Sample = took - 1

\* Whose turn it is
Turns ==
    IF stage \in 1 .. 4
    THEN \/ \E c \in 0 .. Cycles : Level(c)
         \/ \E c \in 0 .. Cycles - 1 : Uneven(c)
         \/ Half \/ Over
    ELSE Bench!Chosen = IF stage = 0 THEN <<Bench!Conductor>> ELSE <<>>

\* The clock has gone on for a tick in each step since the first fibre's start.
Timed ==
    stage \in 1 .. 4 /\ took > 0 /\ ended # Mates =>
        ticks \in {bm[First].start + took, bm[First].start + took - ClockMod}

\* What statistics of n samples look like
Sampled(s, n) ==
    /\ s \in [min : Nat, max : Nat, accumulator : Nat, count : Nat] /\ s.count = n
    /\ IF n = 0 THEN s = Bench!NoStats
       ELSE /\ s.min =< s.max /\ s.max =< 2 * Cycles + 1
            /\ n * s.min =< s.accumulator /\ s.accumulator =< n * s.max

\* The stages before this one have a sample of this round, the others have not.
Samples ==
    /\ DOMAIN stats = 1 .. 4
    /\ stats = [k \in 1 .. 4 |-> stats[k]]
    /\ \A k \in 1 .. 4 :
           Sampled(stats[k], IF stage \in 1 .. 4 /\ k < stage THEN round + 1 ELSE round)

\* Inductive
BenchInv == BenchTypes /\ Turns /\ Timed /\ Samples

\* The fibres of a stage, what they do when they go round, and who is who
LEMMA Names ==
    ASSUME NEW k \in 1 .. 4, NEW r
    PROVE  LET a == Bench!One(k)
               b == Bench!Other(k)
           IN  /\ a \in Bench!Players /\ b \in Bench!Players
               /\ a # Bench!Conductor /\ b # Bench!Conductor
               /\ (a = b <=> k = 1) /\ a[2] = 0 /\ (b[2] = 0 <=> k = 1)
               /\ (a[1] \in {"single", "paired"} <=> k \in 1 .. 2)
               /\ (b[1] \in {"single", "paired"} <=> k \in 1 .. 2)
               /\ k \in 1 .. 2 => Bench!WakeFriend(r, a) = r /\ Bench!WakeFriend(r, b) = r
               /\ k = 3 => /\ Bench!WakeFriend(r, a) = Bench!Run(r, b)
                           /\ Bench!WakeFriend(r, b) = Bench!Run(r, a)
               /\ k = 4 => /\ Bench!WakeFriend(r, a) = Bench!Post(r, b)
                           /\ Bench!WakeFriend(r, b) = Bench!Post(r, a)
               /\ Bench!Team(k) = {a, b} /\ (Bench!Stages[k] = "paired" <=> k = 2)
<1> DEFINE a == Bench!One(k)
           b == Bench!Other(k)
<1>1. a \in Bench!Players /\ b \in Bench!Players /\ Bench!Team(k) = {a, b}
  <2>1. k \in 1 .. Len(Bench!Stages)
    BY DEF Bench!Stages
  <2> QED
    BY <2>1 DEF Bench!Players, Bench!Team
<1>2. CASE k = 1
  <2>1. a = <<"single", 0>> /\ b = <<"single", 0>> /\ Bench!Stages[k] = "single"
    BY <1>2 DEF Bench!One, Bench!Other, Bench!Stages
  <2> QED
    BY <1>1, <1>2, <2>1 DEF Bench!Conductor, Bench!WakeFriend
<1>3. CASE k = 2
  <2>1. a = <<"paired", 0>> /\ b = <<"paired", 1>> /\ Bench!Stages[k] = "paired"
    BY <1>3 DEF Bench!One, Bench!Other, Bench!Stages
  <2> QED
    BY <1>1, <1>3, <2>1 DEF Bench!Conductor, Bench!WakeFriend
<1>4. CASE k = 3
  <2>1. a = <<"simple_run", 0>> /\ b = <<"simple_run", 1>> /\ Bench!Stages[k] = "simple_run"
    BY <1>4 DEF Bench!One, Bench!Other, Bench!Stages
  <2>2. Bench!Friend(a) = b /\ Bench!Friend(b) = a
    BY <2>1 DEF Bench!Friend
  <2> HIDE DEF a, b
  <2>3. /\ Bench!WakeFriend(r, a) = Bench!Run(r, b)
        /\ Bench!WakeFriend(r, b) = Bench!Run(r, a)
    BY <2>1, <2>2 DEF Bench!WakeFriend
  <2>4. a # b /\ a[2] = 0 /\ b[2] = 1 /\ a[1] = "simple_run" /\ b[1] = "simple_run"
        /\ a # Bench!Conductor /\ b # Bench!Conductor
    BY <2>1 DEF Bench!Conductor
  <2> QED
    BY <1>1, <1>4, <2>1, <2>3, <2>4 DEF a, b
<1>5. CASE k = 4
  <2>1. a = <<"atomic_run", 0>> /\ b = <<"atomic_run", 1>> /\ Bench!Stages[k] = "atomic_run"
    BY <1>5 DEF Bench!One, Bench!Other, Bench!Stages
  <2>2. Bench!Friend(a) = b /\ Bench!Friend(b) = a
    BY <2>1 DEF Bench!Friend
  <2> HIDE DEF a, b
  <2>3. /\ Bench!WakeFriend(r, a) = Bench!Post(r, b)
        /\ Bench!WakeFriend(r, b) = Bench!Post(r, a)
    BY <2>1, <2>2 DEF Bench!WakeFriend
  <2>4. a # b /\ a[2] = 0 /\ b[2] = 1 /\ a[1] = "atomic_run" /\ b[1] = "atomic_run"
        /\ a # Bench!Conductor /\ b # Bench!Conductor
    BY <2>1 DEF Bench!Conductor
  <2> QED
    BY <1>1, <1>5, <2>1, <2>3, <2>4 DEF a, b
<1> QED
  BY <1>2, <1>3, <1>4, <1>5

\* The conductor is not one of the fibres that it times.
LEMMA ConductorApart == Bench!Conductor \notin Bench!Players
<1> SUFFICES ASSUME NEW k \in 1 .. Len(Bench!Stages), Bench!Conductor \in Bench!Team(k)
             PROVE  FALSE
  BY DEF Bench!Players
<1>1. k \in 1 .. 4
  BY DEF Bench!Stages
<1> QED
  BY <1>1, Names DEF Bench!Team

\* Who is on the queue when the scheduler chooses next
LEMMA ChosenNext ==
    ASSUME NEW r \in Seq(Everybody), NEW f \in Everybody
    PROVE  /\ bq' = [run |-> r, posted |-> <<>>] /\ yielded' = <<>> => Bench!Chosen' = r
           /\ bq' = [run |-> r, posted |-> <<>>] /\ yielded' = <<f>> =>
                  Bench!Chosen' = Bench!Queue(r, f)
           /\ bq' = [run |-> r, posted |-> <<f>>] /\ yielded' = <<>> =>
                  Bench!Chosen' = Bench!Queue(r, f)
<1>1. Bench!Chosen' = Folded(Folded(bq'.run, bq'.posted), yielded' \o <<>>)
  BY Folds DEF Bench!Chosen
<1>2. <<>> \in Seq({f}) /\ <<f>> \in Seq({f}) /\ <<>> \o <<>> = <<>> /\ <<f>> \o <<>> = <<f>>
      /\ <<f>> # <<>>
  OBVIOUS
<1>3. Bench!Queue(r, f) \in Seq(Everybody)
  BY QueuedOnce
<1>4. ASSUME NEW s \in Seq(Everybody)
      PROVE  Folded(s, <<>>) = s /\ Folded(s, <<f>>) = Bench!Queue(s, f)
  BY <1>2, <1>4, PostedOnce
<1> QED
  BY <1>1, <1>2, <1>3, <1>4

\* fibre_run, with nobody posted or one
LEMMA RunIs ==
    ASSUME NEW r \in Seq(Everybody), NEW f \in Everybody, NEW g \in Everybody
    PROVE  /\ Bench!Run([run |-> r, posted |-> <<>>], f) =
                  [run |-> Bench!Queue(r, f), posted |-> <<>>]
           /\ Bench!Run([run |-> r, posted |-> <<g>>], f) =
                  [run |-> Bench!Queue(Bench!Queue(r, g), f), posted |-> <<>>]
<1>1. <<>> \in Seq({g}) /\ <<g>> \in Seq({g}) /\ <<g>> # <<>>
  OBVIOUS
<1>2. Folded(r, <<>>) = r /\ Folded(r, <<g>>) = Bench!Queue(r, g)
  BY <1>1, PostedOnce
<1>3. ASSUME NEW l
      PROVE  Bench!Run([run |-> r, posted |-> l], f) =
                 [run |-> Bench!Queue(Folded(r, l), f), posted |-> <<>>]
  <2> DEFINE q == [run |-> r, posted |-> l]
  <2>1. q.run = r /\ q.posted = l
    OBVIOUS
  <2> HIDE DEF q
  <2>2. Bench!Drain(q) = [run |-> Folded(r, l), posted |-> <<>>]
    BY <2>1, Folds
  <2>3. Bench!Run(q, f) = [run |-> Bench!Queue(Folded(r, l), f), posted |-> <<>>]
    BY <2>2 DEF Bench!Run
  <2> QED
    BY <2>3 DEF q
<1> QED
  BY <1>2, <1>3

\* Initially
LEMMA BenchInit == Init => BenchInv
<1> SUFFICES ASSUME Init PROVE BenchInv
  OBVIOUS
<1>1. Bench!Init
  BY DEF Init, Start
<1> USE DEF Bench!Init
<1>2. BenchTypes
  <2>1. 0 \in 0 .. ClockMod - 1
    BY BenchAssumption, <1>1
  <2>2. bm \in [Bench!Players -> [pt : {"top", "loop"}, start : 0 .. ClockMod - 1,
                                 end : 0 .. ClockMod - 1, count : Nat]]
    BY <1>1, <2>1
  <2>3. \A f \in Bench!Players : bm[f].pt = "top"
    BY <1>1
  <2> QED
    BY <1>1, <2>2, <2>3, BenchAssumption DEF BenchTypes
<1>3. Turns
  <2>1. Bench!Conductor \in Everybody /\ <<>> \in Seq(Everybody)
    BY DEF Everybody
  <2>2. bq = [run |-> Bench!Queue(<<>>, Bench!Conductor), posted |-> <<>>]
    BY <1>1, <2>1, RunIs DEF Bench!NoFibres
  <2>3. Bench!Queue(<<>>, Bench!Conductor) = <<Bench!Conductor>>
    <3>1. Bench!Conductor # <<>>
      BY DEF Bench!Conductor
    <3> QED
      BY <3>1, ShortQueues
  <2>4. Bench!Chosen = Folded(Folded(bq.run, bq.posted), yielded \o <<>>)
    BY Folds DEF Bench!Chosen
  <2>5. <<Bench!Conductor>> \in Seq(Everybody) /\ <<>> \in Seq({Bench!Conductor})
        /\ <<>> \o <<>> = <<>>
    BY <2>1
  <2>6. Folded(<<Bench!Conductor>>, <<>>) = <<Bench!Conductor>>
    BY <2>1, <2>5, PostedOnce
  <2>7. Bench!Chosen = <<Bench!Conductor>>
    BY <1>1, <2>2, <2>3, <2>4, <2>5, <2>6
  <2> QED
    BY <1>1, <2>7 DEF Turns
<1>4. Timed
  BY <1>1 DEF Timed
<1>5. Samples
  <2>1. stats = [k \in 1 .. 4 |-> Bench!NoStats]
    BY <1>1 DEF Bench!Stages
  <2>2. ClockMod - 1 \in Nat
    BY <1>1, BenchAssumption
  <2>3. Sampled(Bench!NoStats, 0)
    BY <2>2 DEF Sampled, Bench!NoStats
  <2>4. \A k \in 1 .. 4 :
            (IF stage \in 1 .. 4 /\ k < stage THEN round + 1 ELSE round) = 0
    BY <1>1
  <2>5. DOMAIN stats = 1 .. 4 /\ stats = [k \in 1 .. 4 |-> stats[k]]
        /\ \A k \in 1 .. 4 : stats[k] = Bench!NoStats
    BY <2>1
  <2> HIDE DEF Bench!Init
  <2> QED
    BY <2>3, <2>4, <2>5 DEF Samples
<1> QED
  BY <1>2, <1>3, <1>4, <1>5 DEF BenchInv

\* Who is in front: the conductor, when there is nothing left to wait for, or the fibre
\* whose turn it is.
LEMMA InTurn ==
    ASSUME BenchInv, NEW f, Bench!Dispatched(f)
    PROVE  /\ f = Bench!Conductor =>
                  (stage = 0 /\ Bench!Chosen = <<Bench!Conductor>>)
                  \/ (stage \in 1 .. 4 /\ Over)
           /\ f # Bench!Conductor =>
                  /\ stage \in 1 .. 4
                  /\ \/ \E c \in 0 .. Cycles : Level(c) /\ f = First
                     \/ \E c \in 0 .. Cycles - 1 : Uneven(c) /\ f = Second
                     \/ Half /\ f = Second
<1>1. Bench!Chosen # <<>> /\ f = Head(Bench!Chosen) /\ Turns /\ stage \in 0 .. 5
  BY DEF BenchInv, BenchTypes, Bench!Dispatched
<1>2. CASE stage \notin 1 .. 4
  <2>1. Bench!Chosen = <<Bench!Conductor>> /\ stage = 0
    BY <1>1, <1>2 DEF Turns
  <2> QED
    BY <1>1, <2>1, Fronts
<1>3. CASE stage \in 1 .. 4
  <2>1. First # Bench!Conductor /\ Second # Bench!Conductor
    BY <1>3, Names DEF First, Second
  <2>2. ASSUME NEW c \in 0 .. Cycles, Level(c) PROVE f = First
    <3>1. Bench!Chosen = <<First, Second>> \/ Bench!Chosen = <<First>>
      BY <2>2 DEF Level
    <3> QED
      BY <1>1, <3>1, Fronts
  <2>3. ASSUME NEW c \in 0 .. Cycles - 1, Uneven(c) PROVE f = Second
    <3>1. Bench!Chosen = <<Second, First>> \/ Bench!Chosen = <<Second>>
      BY <2>3 DEF Uneven
    <3> QED
      BY <1>1, <3>1, Fronts
  <2>4. Half => f = Second
    BY <1>1, Fronts DEF Half
  <2>5. Over => f = Bench!Conductor
    BY <1>1, Fronts DEF Over
  <2> HIDE DEF Level, Uneven, Half, Over, First, Second
  <2>6. \/ \E c \in 0 .. Cycles : Level(c)
        \/ \E c \in 0 .. Cycles - 1 : Uneven(c)
        \/ Half \/ Over
    BY <1>1, <1>3 DEF Turns
  <2> QED
    BY <1>3, <2>1, <2>2, <2>3, <2>4, <2>5, <2>6
<1> QED
  BY <1>2, <1>3

\* A fibre's record, when it has gone round and when it has ended
LEMMA Noted ==
    ASSUME NEW C, NEW s \in C, NEW n \in Nat,
           NEW u \in [pt : {"top", "loop"}, start : C, end : C, count : Nat]
    PROVE  LET v == [u EXCEPT !.pt = "loop", !.start = s, !.count = n]
               w == [u EXCEPT !.pt = "top", !.end = s, !.count = n]
           IN  /\ v \in [pt : {"top", "loop"}, start : C, end : C, count : Nat]
               /\ v.pt = "loop" /\ v.start = s /\ v.count = n
               /\ w \in [pt : {"top", "loop"}, start : C, end : C, count : Nat]
               /\ w.pt = "top" /\ w.start = u.start /\ w.end = s /\ w.count = n
<1> DEFINE v == [u EXCEPT !.pt = "loop", !.start = s, !.count = n]
           w == [u EXCEPT !.pt = "top", !.end = s, !.count = n]
<1>1. v \in [pt : {"top", "loop"}, start : C, end : C, count : Nat]
  OBVIOUS
<1>2. v.pt = "loop" /\ v.start = s /\ v.count = n
  OBVIOUS
<1>3. w \in [pt : {"top", "loop"}, start : C, end : C, count : Nat]
  OBVIOUS
<1>4. w.pt = "top" /\ w.start = u.start /\ w.end = s /\ w.count = n
  OBVIOUS
<1> HIDE DEF v, w
<1>5. /\ v \in [pt : {"top", "loop"}, start : C, end : C, count : Nat]
      /\ v.pt = "loop" /\ v.start = s /\ v.count = n
      /\ w \in [pt : {"top", "loop"}, start : C, end : C, count : Nat]
      /\ w.pt = "top" /\ w.start = u.start /\ w.end = s /\ w.count = n
  BY <1>1, <1>2, <1>3, <1>4
<1> QED
  BY <1>5, Zenon DEF v, w

\* What is remembered of a fibre that has gone round, or has ended, and of the others
LEMMA Remembered ==
    ASSUME BenchTypes, NEW f \in Bench!Players, Bench!GoRound(f) \/ Bench!Finish(f)
    PROVE  LET s == Bench!Start(f)
               n == Rounds(f)
           IN  /\ s \in 0 .. ClockMod - 1 /\ n \in Nat
               /\ bm' \in [Bench!Players -> [pt : {"top", "loop"}, start : 0 .. ClockMod - 1,
                                             end : 0 .. ClockMod - 1, count : Nat]]
               /\ \A g \in Bench!Players : g # f => bm'[g] = bm[g]
               /\ Bench!GoRound(f) => /\ bm'[f].pt = "loop" /\ bm'[f].start = s
                                      /\ bm'[f].count = n + 1
               /\ Bench!Finish(f) => /\ bm'[f].pt = "top" /\ bm'[f].start = bm[f].start
                                     /\ bm'[f].count = bm[f].count + 1
                                     /\ bm'[f].end = ticks
<1> DEFINE B == [pt : {"top", "loop"}, start : 0 .. ClockMod - 1,
                 end : 0 .. ClockMod - 1, count : Nat]
           s == Bench!Start(f)
           n == Rounds(f)
<1>1. bm \in [Bench!Players -> B] /\ ticks \in 0 .. ClockMod - 1
  BY DEF BenchTypes
<1>2. /\ bm[f] \in B
      /\ bm[f].pt \in {"top", "loop"} /\ bm[f].start \in 0 .. ClockMod - 1
      /\ bm[f].end \in 0 .. ClockMod - 1 /\ bm[f].count \in Nat
  BY <1>1
<1>3. s \in 0 .. ClockMod - 1 /\ n \in Nat
  BY <1>1, <1>2 DEF Bench!Start, Rounds, Bench!Count
<1>4. Bench!GoRound(f) =>
          bm' = [bm EXCEPT ![f] = [bm[f] EXCEPT !.pt = "loop", !.start = s, !.count = n + 1]]
  BY DEF Bench!GoRound, Rounds
<1>5. Bench!Finish(f) =>
          bm' = [bm EXCEPT ![f] = [bm[f] EXCEPT !.pt = "top", !.end = ticks,
                                                !.count = bm[f].count + 1]]
  BY DEF Bench!Finish
<1> HIDE DEF s, n
<1>6. CASE Bench!GoRound(f)
  <2> DEFINE v == [bm[f] EXCEPT !.pt = "loop", !.start = s, !.count = n + 1]
  <2>1. v \in B /\ v.pt = "loop" /\ v.start = s /\ v.count = n + 1
    <3>1. n + 1 \in Nat
      BY <1>3
    <3> QED
      BY <1>2, <1>3, <3>1, Noted
  <2>2. bm' = [bm EXCEPT ![f] = v]
    BY <1>4, <1>6
  <2> HIDE DEF v, B
  <2>3. /\ bm' \in [Bench!Players -> B] /\ bm'[f] = v
        /\ \A g \in Bench!Players : g # f => bm'[g] = bm[g]
    BY <1>1, <2>1, <2>2
  <2>4. ~ Bench!Finish(f)
    BY <1>3, <1>6, BenchAssumption DEF Bench!GoRound, Bench!Finish, n, Rounds
  <2> QED
    BY <1>3, <2>1, <2>3, <2>4 DEF B, s, n
<1>7. CASE Bench!Finish(f)
  <2> DEFINE v == [bm[f] EXCEPT !.pt = "top", !.end = ticks, !.count = bm[f].count + 1]
  <2>1. v \in B /\ v.pt = "top" /\ v.start = bm[f].start /\ v.count = bm[f].count + 1
        /\ v.end = ticks
    <3>1. bm[f].count + 1 \in Nat
      BY <1>2
    <3> QED
      BY <1>1, <1>2, <3>1, Noted
  <2>2. bm' = [bm EXCEPT ![f] = v]
    BY <1>5, <1>7
  <2> HIDE DEF v, B
  <2>3. /\ bm' \in [Bench!Players -> B] /\ bm'[f] = v
        /\ \A g \in Bench!Players : g # f => bm'[g] = bm[g]
    BY <1>1, <2>1, <2>2
  <2>4. ~ Bench!GoRound(f)
    BY <1>3, <1>7, BenchAssumption DEF Bench!GoRound, Bench!Finish, n, Rounds
  <2> QED
    BY <1>3, <2>1, <2>3, <2>4 DEF B, s, n
<1> QED
  BY <1>6, <1>7

\* Who is on the queue after a fibre's turn: itself again, if it yielded, or the other
\* one that it woke, and the conductor in the end
LEMMA Queued ==
    ASSUME stage \in 1 .. 4, Tail(Bench!Chosen) \in Seq(Everybody), NEW f, NEW g,
           (f = First /\ g = Second) \/ (f = Second /\ g = First)
    PROVE  LET r == Tail(Bench!Chosen)
           IN  /\ Bench!GoRound(f) =>
                      Bench!Chosen' = Bench!Queue(r, IF stage \in 1 .. 2 THEN f ELSE g)
               /\ Bench!Finish(f) =>
                      Bench!Chosen' =
                          IF f = First /\ stage \in 3 .. 4
                          THEN Bench!Queue(Bench!Queue(r, g), Bench!Conductor)
                          ELSE Bench!Queue(r, Bench!Conductor)
<1> DEFINE r == Tail(Bench!Chosen)
           q == [run |-> r, posted |-> <<>>]
           k == stage
<1>1. k \in 1 .. 4 /\ r \in Seq(Everybody)
  OBVIOUS
<1>2. f \in Everybody /\ g \in Everybody /\ Bench!Conductor \in Everybody
  <2>1. First \in Bench!Players /\ Second \in Bench!Players
    BY Names DEF First, Second
  <2> QED
    BY <2>1 DEF Everybody
<1>3. /\ Bench!Rest = q
      /\ Bench!Run(q, g) = [run |-> Bench!Queue(r, g), posted |-> <<>>]
      /\ Bench!Run(q, Bench!Conductor) =
             [run |-> Bench!Queue(r, Bench!Conductor), posted |-> <<>>]
      /\ Bench!Post(q, g) = [run |-> r, posted |-> <<g>>]
      /\ Bench!Queue(r, f) \in Seq(Everybody) /\ Bench!Queue(r, g) \in Seq(Everybody)
      /\ Bench!Queue(r, Bench!Conductor) \in Seq(Everybody)
  <2>1. Bench!Rest = q
    BY DEF Bench!Rest
  <2>2. /\ Bench!Run(q, g) = [run |-> Bench!Queue(r, g), posted |-> <<>>]
        /\ Bench!Run(q, Bench!Conductor) =
             [run |-> Bench!Queue(r, Bench!Conductor), posted |-> <<>>]
    <3>1. Bench!Run(q, g) = [run |-> Bench!Queue(r, g), posted |-> <<>>]
      BY <1>1, <1>2, RunIs
    <3>2. Bench!Run(q, Bench!Conductor) =
              [run |-> Bench!Queue(r, Bench!Conductor), posted |-> <<>>]
      BY <1>1, <1>2, RunIs
    <3> QED
      BY <3>1, <3>2, Zenon
  <2>3. Bench!Post(q, g) = [run |-> r, posted |-> <<g>>]
    <3>1. Append(<<>>, g) = <<g>>
      OBVIOUS
    <3> QED
      BY <3>1 DEF Bench!Post
  <2> QED
    BY <1>1, <1>2, <2>1, <2>2, <2>3, QueuedOnce
<1>4. /\ k \in 1 .. 2 => Bench!WakeFriend(q, f) = q
      /\ k = 3 => Bench!WakeFriend(q, f) = Bench!Run(q, g)
      /\ k = 4 => Bench!WakeFriend(q, f) = Bench!Post(q, g)
      /\ (f[1] \in {"single", "paired"} <=> k \in 1 .. 2) /\ (f[2] = 0 <=> f = First)
  <2> HIDE DEF q
  <2>1. LET a == First
            b == Second
        IN  /\ (a = b <=> k = 1) /\ a[2] = 0 /\ (b[2] = 0 <=> k = 1)
            /\ (a[1] \in {"single", "paired"} <=> k \in 1 .. 2)
            /\ (b[1] \in {"single", "paired"} <=> k \in 1 .. 2)
            /\ k \in 1 .. 2 => Bench!WakeFriend(q, a) = q /\ Bench!WakeFriend(q, b) = q
            /\ k = 3 => /\ Bench!WakeFriend(q, a) = Bench!Run(q, b)
                        /\ Bench!WakeFriend(q, b) = Bench!Run(q, a)
            /\ k = 4 => /\ Bench!WakeFriend(q, a) = Bench!Post(q, b)
                        /\ Bench!WakeFriend(q, b) = Bench!Post(q, a)
    BY <1>1, Names DEF First, Second
  <2> HIDE DEF First, Second, k
  <2>2. CASE f = First /\ g = Second
    BY <2>1, <2>2
  <2>3. CASE f = Second /\ g = First
    BY <2>1, <2>3
  <2> QED
    BY <2>2, <2>3
<1>5. ASSUME Bench!GoRound(f)
      PROVE  Bench!Chosen' = Bench!Queue(r, IF k \in 1 .. 2 THEN f ELSE g)
  <2>1. bq' = Bench!WakeFriend(q, f)
        /\ yielded' = IF f[1] \in {"single", "paired"} THEN <<f>> ELSE <<>>
    BY <1>3, <1>5 DEF Bench!GoRound
  <2> HIDE DEF r, k, First, Second
  <2>2. CASE k \in 1 .. 2
    <3>1. bq' = [run |-> r, posted |-> <<>>] /\ yielded' = <<f>>
      BY <1>4, <2>1, <2>2
    <3> QED
      BY <1>1, <1>2, <2>2, <3>1, ChosenNext
  <2>3. CASE k = 3
    <3>1. bq' = [run |-> Bench!Queue(r, g), posted |-> <<>>] /\ yielded' = <<>>
      BY <1>3, <1>4, <2>1, <2>3
    <3>2. Bench!Chosen' = Bench!Queue(r, g)
      BY <1>1, <1>2, <1>3, <3>1, ChosenNext
    <3> QED
      BY <2>3, <3>2
  <2>4. CASE k = 4
    <3>1. bq' = [run |-> r, posted |-> <<g>>] /\ yielded' = <<>>
      BY <1>3, <1>4, <2>1, <2>4
    <3>2. Bench!Chosen' = Bench!Queue(r, g)
      BY <1>1, <1>2, <1>3, <3>1, ChosenNext
    <3> QED
      BY <2>4, <3>2
  <2> QED
    BY <1>1, <2>2, <2>3, <2>4
<1>6. ASSUME Bench!Finish(f)
      PROVE  Bench!Chosen' = IF f = First /\ k \in 3 .. 4
                             THEN Bench!Queue(Bench!Queue(r, g), Bench!Conductor)
                             ELSE Bench!Queue(r, Bench!Conductor)
  <2>1. bq' = Bench!Run(IF f[2] = 0 THEN Bench!WakeFriend(q, f) ELSE q, Bench!Conductor)
        /\ yielded' = <<>>
    BY <1>3, <1>6 DEF Bench!Finish
  <2> HIDE DEF r, k, First, Second
  <2>2. CASE f = First /\ k \in 3 .. 4
    <3>1. bq' = Bench!Run(Bench!WakeFriend(q, f), Bench!Conductor)
      BY <1>4, <2>1, <2>2
    <3>2. bq' = [run |-> Bench!Queue(Bench!Queue(r, g), Bench!Conductor), posted |-> <<>>]
      <4>1. CASE k = 3
        <5>1. bq' = Bench!Run([run |-> Bench!Queue(r, g), posted |-> <<>>], Bench!Conductor)
          BY <1>3, <1>4, <3>1, <4>1
        <5> QED
          BY <1>2, <1>3, <5>1, RunIs
      <4>2. CASE k = 4
        <5>1. bq' = Bench!Run([run |-> r, posted |-> <<g>>], Bench!Conductor)
          BY <1>3, <1>4, <3>1, <4>2
        <5> QED
          BY <1>1, <1>2, <5>1, RunIs
      <4> QED
        BY <1>1, <2>2, <4>1, <4>2
    <3>3. Bench!Queue(Bench!Queue(r, g), Bench!Conductor) \in Seq(Everybody)
      BY <1>2, <1>3, QueuedOnce
    <3> QED
      BY <1>2, <2>1, <2>2, <3>2, <3>3, ChosenNext
  <2>3. CASE ~ (f = First /\ k \in 3 .. 4)
    <3>1. bq' = Bench!Run(q, Bench!Conductor)
      BY <1>1, <1>4, <2>1, <2>3
    <3>2. bq' = [run |-> Bench!Queue(r, Bench!Conductor), posted |-> <<>>]
      BY <1>3, <3>1
    <3> QED
      BY <1>2, <1>3, <2>1, <2>3, <3>2, ChosenNext
  <2> QED
    BY <2>2, <2>3
<1> QED
  BY <1>5, <1>6

\* A stage is over before the clock has gone round.
LEMMA ClockRoom ==
    ClockMod \in Nat \ {0} /\ Cycles \in Nat \ {0} /\ 2 * Cycles + 1 < ClockMod
<1>1. PICK n \in Nat : Repeats = n + 1
  <2>1. Repeats - 1 \in Nat /\ Repeats = (Repeats - 1) + 1
    BY BenchAssumption
  <2> QED
    BY <2>1
<1> DEFINE c == 2 * Cycles + 1
<1>2. c \in Nat /\ Repeats * c < ClockMod /\ ClockMod \in Nat /\ Cycles \in Nat \ {0}
  BY BenchAssumption
<1> HIDE DEF c
<1>3. Repeats * c = n * c + c /\ n * c \in Nat
  BY <1>1, <1>2
<1>4. c < ClockMod
  BY <1>2, <1>3
<1> QED
  BY <1>2, <1>4 DEF c

\* A tick more
LEMMA OneTickMore ==
    ASSUME ticks \in 0 .. ClockMod - 1, Bench!Pass
    PROVE  /\ ticks' \in 0 .. ClockMod - 1 /\ ticks' \in {ticks + 1, ticks + 1 - ClockMod}
           /\ \A s \in 0 .. ClockMod - 1, t \in 0 .. 2 * Cycles + 1 :
                  ticks \in {s + t, s + t - ClockMod} =>
                      ticks' \in {s + (t + 1), s + (t + 1) - ClockMod}
<1>1. ClockMod \in Nat \ {0} /\ Cycles \in Nat /\ 2 * Cycles + 1 < ClockMod
  BY ClockRoom
<1>2. (ticks + 1) % ClockMod = IF ticks = ClockMod - 1 THEN 0 ELSE ticks + 1
  BY <1>1, NextAndBefore
<1>3. ticks' = IF ticks = ClockMod - 1 THEN 0 ELSE ticks + 1
  BY <1>2 DEF Bench!Pass
<1>4. ticks' \in 0 .. ClockMod - 1 /\ ticks' \in {ticks + 1, ticks + 1 - ClockMod}
  BY <1>1, <1>3
<1>5. ASSUME NEW s \in 0 .. ClockMod - 1, NEW t \in 0 .. 2 * Cycles + 1,
             ticks \in {s + t, s + t - ClockMod}
      PROVE  ticks' \in {s + (t + 1), s + (t + 1) - ClockMod}
  BY <1>1, <1>3, <1>5
<1> QED
  BY <1>4, <1>5

\* A fibre that has not gone round is at its top, any other one in its loop.
LEMMA AtTop ==
    ASSUME BenchTypes, NEW f \in Bench!Players
    PROVE  /\ Rounds(f) \in Nat /\ bm[f].start \in 0 .. ClockMod - 1
           /\ Rounds(f) = 0 <=> bm[f].pt = "top"
           /\ Rounds(f) > 0 <=> bm[f].pt = "loop"
           /\ Rounds(f) > 0 => Rounds(f) = bm[f].count /\ Bench!Start(f) = bm[f].start
           /\ Rounds(f) = 0 => Bench!Start(f) = ticks
<1>1. bm[f].pt \in {"top", "loop"} /\ bm[f].count \in Nat /\ bm[f].start \in 0 .. ClockMod - 1
      /\ (bm[f].pt = "loop" => bm[f].count > 0)
  BY DEF BenchTypes
<1>2. CASE bm[f].pt = "top"
  BY <1>1, <1>2 DEF Rounds, Bench!Count, Bench!Start
<1>3. CASE bm[f].pt = "loop"
  BY <1>1, <1>3 DEF Rounds, Bench!Count, Bench!Start
<1> QED
  BY <1>1, <1>2, <1>3

\* Once round the loop
LEMMA BenchGoRound ==
    ASSUME BenchInv, NEW f \in Bench!Players, Bench!GoRound(f)
    PROVE  BenchInv'
<1>1. /\ stage \in 1 .. 4
      /\ \/ \E c \in 0 .. Cycles : Level(c) /\ f = First
         \/ \E c \in 0 .. Cycles - 1 : Uneven(c) /\ f = Second
         \/ Half /\ f = Second
  BY InTurn, ConductorApart DEF Bench!GoRound
<1>2. BenchTypes /\ Timed /\ Samples
  BY DEF BenchInv
<1>3. /\ Rounds(f) < Cycles /\ took' = took + 1 /\ Bench!Pass
      /\ stage' = stage /\ round' = round /\ stats' = stats /\ ended' = ended
  BY DEF Bench!GoRound, Rounds
<1>4. Cycles \in Nat \ {0} /\ ClockMod \in Nat /\ took \in Nat /\ ticks \in 0 .. ClockMod - 1
  BY <1>2, BenchAssumption DEF BenchTypes
<1>5. First' = First /\ Second' = Second /\ Mates' = Mates
  BY <1>3 DEF First, Second, Mates
<1>6. First \in Bench!Players /\ Second \in Bench!Players /\ (First = Second <=> stage = 1)
  BY <1>1, Names DEF First, Second
<1>7. ended = {} /\ f \in Mates
  <2>1. Half /\ f = Second => FALSE
    BY <1>3, <1>4 DEF Half
  <2> QED
    BY <1>1, <2>1 DEF Level, Uneven, Mates
<1>8. /\ bm' \in [Bench!Players -> [pt : {"top", "loop"}, start : 0 .. ClockMod - 1,
                                    end : 0 .. ClockMod - 1, count : Nat]]
      /\ \A g \in Bench!Players : g # f => bm'[g] = bm[g]
      /\ bm'[f].pt = "loop" /\ bm'[f].start = Bench!Start(f) /\ bm'[f].count = Rounds(f) + 1
      /\ Rounds(f) \in Nat
  BY <1>2, Remembered
<1>9. /\ Rounds(First)' = IF f = First THEN Rounds(First) + 1 ELSE Rounds(First)
      /\ Rounds(Second)' = IF f = Second THEN Rounds(Second) + 1 ELSE Rounds(Second)
  <2>1. ASSUME NEW g \in Bench!Players
        PROVE  (IF bm'[g].pt = "top" THEN 0 ELSE bm'[g].count)
                   = IF f = g THEN Rounds(g) + 1 ELSE Rounds(g)
    <3>1. CASE f = g
      BY <1>8, <3>1
    <3>2. CASE f # g
      BY <1>8, <3>2 DEF Rounds, Bench!Count
    <3> QED
      BY <3>1, <3>2
  <2>2. /\ Rounds(First)' = IF bm'[First].pt = "top" THEN 0 ELSE bm'[First].count
        /\ Rounds(Second)' = IF bm'[Second].pt = "top" THEN 0 ELSE bm'[Second].count
    BY <1>5 DEF Rounds, Bench!Count
  <2> QED
    BY <1>6, <2>1, <2>2
<1>10. BenchTypes'
  <2>1. ticks' \in 0 .. ClockMod - 1
    BY <1>3, <1>4, OneTickMore
  <2>2. \A g \in Bench!Players :
            bm'[g].pt = "loop" => stage \in 1 .. 4 /\ g \in Mates \ ended /\ bm'[g].count > 0
    <3> TAKE g \in Bench!Players
    <3>1. CASE g = f
      BY <1>1, <1>7, <1>8, <3>1
    <3>2. CASE g # f
      <4>1. bm'[g] = bm[g]
        BY <1>8, <3>2
      <4> QED
        BY <1>2, <4>1 DEF BenchTypes
    <3> QED
      BY <3>1, <3>2
  <2>3. took' \in Nat /\ stage' \in 0 .. 5 /\ round' \in 0 .. Repeats
        /\ (stage' < 5 <=> round' < Repeats)
    BY <1>2, <1>3 DEF BenchTypes
  <2> QED
    BY <1>3, <1>5, <1>8, <2>1, <2>2, <2>3 DEF BenchTypes
<1>11. Turns' /\ (took = 0 => f = First /\ Rounds(First) = 0)
       /\ (took > 0 => bm'[First].start = bm[First].start) /\ took =< 2 * Cycles
  <2>1. ASSUME NEW c \in 0 .. Cycles, Level(c), f = First
        PROVE  /\ IF stage = 1 THEN Level(c + 1)' ELSE Uneven(c)'
               /\ c + 1 \in 0 .. Cycles /\ c \in 0 .. Cycles - 1
               /\ (took = 0 => f = First /\ Rounds(First) = 0)
               /\ (took > 0 => bm'[First].start = bm[First].start) /\ took =< 2 * Cycles
    <3>1. /\ Rounds(First) = c /\ Rounds(Second) = c /\ c \in Nat
          /\ took = IF stage = 1 THEN c ELSE 2 * c
          /\ Bench!Chosen = IF stage = 2 THEN <<First, Second>> ELSE <<First>>
      BY <1>4, <2>1 DEF Level
    <3>2. /\ Tail(Bench!Chosen) = IF stage = 2 THEN <<Second>> ELSE <<>>
          /\ Tail(Bench!Chosen) \in Seq(Everybody)
      <4>1. Tail(Bench!Chosen) = IF stage = 2 THEN <<Second>> ELSE <<>>
        BY <3>1, Fronts
      <4>2. <<Second>> \in Seq(Everybody) /\ <<>> \in Seq(Everybody)
        BY <1>6 DEF Everybody
      <4> QED
        BY <4>1, <4>2
    <3>3. Bench!Chosen' =
              Bench!Queue(Tail(Bench!Chosen), IF stage \in 1 .. 2 THEN First ELSE Second)
      BY <1>1, <2>1, <3>2, Queued
    <3> HIDE DEF First, Second
    <3>4. Bench!Chosen' = IF stage = 1 THEN <<First>>
                          ELSE IF stage = 2 THEN <<Second, First>> ELSE <<Second>>
      <4>1. /\ Bench!Queue(<<>>, First) = <<First>> /\ Bench!Queue(<<>>, Second) = <<Second>>
            /\ First # Second => Bench!Queue(<<Second>>, First) = <<Second, First>>
        <5>1. PICK x : x # First /\ x # Second
          <6>1. Bench!Conductor # First /\ Bench!Conductor # Second
            BY <1>6, ConductorApart
          <6> QED
            BY <6>1
        <5> QED
          BY <5>1, ShortQueues
      <4>2. CASE stage = 1
        <5>1. Tail(Bench!Chosen) = <<>> /\ stage \in 1 .. 2
          BY <3>2, <4>2
        <5> QED
          BY <3>3, <4>1, <4>2, <5>1
      <4>3. CASE stage = 2
        <5>1. Tail(Bench!Chosen) = <<Second>> /\ stage \in 1 .. 2 /\ First # Second
              /\ stage # 1
          BY <1>6, <3>2, <4>3
        <5>2. Bench!Chosen' = Bench!Queue(<<Second>>, First)
          BY <3>3, <5>1
        <5> QED
          BY <4>1, <4>3, <5>1, <5>2
      <4>4. CASE stage \in 3 .. 4
        <5>1. Tail(Bench!Chosen) = <<>> /\ stage \notin 1 .. 2 /\ stage # 1 /\ stage # 2
          BY <3>2, <4>4
        <5> QED
          BY <3>3, <4>1, <5>1
      <4> QED
        BY <1>1, <4>2, <4>3, <4>4
    <3>5. ASSUME stage = 1 PROVE Level(c + 1)'
      <4>1. Rounds(First)' = c + 1 /\ Rounds(Second)' = c + 1
        BY <1>6, <1>9, <2>1, <3>1, <3>5
      <4>2. took' = c + 1 /\ Bench!Chosen' = <<First>> /\ stage # 2
        BY <1>3, <3>1, <3>4, <3>5
      <4> QED
        BY <1>3, <1>5, <1>7, <3>5, <4>1, <4>2 DEF Level
    <3>6. ASSUME stage # 1 PROVE Uneven(c)'
      <4>1. Rounds(First)' = c + 1 /\ Rounds(Second)' = c
        BY <1>6, <1>9, <2>1, <3>1, <3>6
      <4>2. took' = 2 * c + 1
            /\ Bench!Chosen' = IF stage = 2 THEN <<Second, First>> ELSE <<Second>>
        BY <1>3, <3>1, <3>4, <3>6
      <4> QED
        BY <1>3, <1>5, <1>7, <3>6, <4>1, <4>2 DEF Uneven
    <3>7. c + 1 \in 0 .. Cycles /\ c \in 0 .. Cycles - 1
      BY <1>3, <1>4, <2>1, <3>1
    <3>8. took = 0 => Rounds(First) = 0
      BY <3>1
    <3>9. took > 0 => bm'[First].start = bm[First].start
      <4>1. took > 0 => c > 0
        BY <3>1
      <4>2. Rounds(First) > 0 => Bench!Start(First) = bm[First].start
        BY <1>2, <1>6, AtTop
      <4> QED
        BY <1>8, <2>1, <3>1, <4>1, <4>2
    <3>10. took =< 2 * Cycles
      BY <1>4, <3>1, <3>7
    <3> QED
      BY <2>1, <3>5, <3>6, <3>7, <3>8, <3>9, <3>10
  <2>2. ASSUME NEW c \in 0 .. Cycles - 1, Uneven(c), f = Second
        PROVE  /\ Level(c + 1)' /\ c + 1 \in 0 .. Cycles
               /\ took # 0 /\ bm'[First].start = bm[First].start /\ took =< 2 * Cycles
    <3>1. /\ Rounds(First) = c + 1 /\ Rounds(Second) = c /\ c \in Nat /\ stage # 1
          /\ took = 2 * c + 1
          /\ Bench!Chosen = IF stage = 2 THEN <<Second, First>> ELSE <<Second>>
      BY <1>4, <2>2 DEF Uneven
    <3>2. /\ Tail(Bench!Chosen) = IF stage = 2 THEN <<First>> ELSE <<>>
          /\ Tail(Bench!Chosen) \in Seq(Everybody)
      <4>1. Tail(Bench!Chosen) = IF stage = 2 THEN <<First>> ELSE <<>>
        BY <3>1, Fronts
      <4>2. <<First>> \in Seq(Everybody) /\ <<>> \in Seq(Everybody)
        BY <1>6 DEF Everybody
      <4> QED
        BY <4>1, <4>2
    <3>3. Bench!Chosen' =
              Bench!Queue(Tail(Bench!Chosen), IF stage \in 1 .. 2 THEN Second ELSE First)
      BY <1>1, <2>2, <3>2, Queued
    <3> HIDE DEF First, Second
    <3>4. Bench!Chosen' = IF stage = 2 THEN <<First, Second>> ELSE <<First>>
      <4>1. /\ Bench!Queue(<<>>, First) = <<First>>
            /\ Bench!Queue(<<First>>, Second) = <<First, Second>>
        BY <1>6, <3>1, ShortQueues
      <4>2. CASE stage = 2
        <5>1. Tail(Bench!Chosen) = <<First>> /\ stage \in 1 .. 2
          BY <3>2, <4>2
        <5> QED
          BY <3>3, <4>1, <4>2, <5>1
      <4>3. CASE stage \in 3 .. 4
        <5>1. Tail(Bench!Chosen) = <<>> /\ stage \notin 1 .. 2 /\ stage # 2
          BY <3>2, <4>3
        <5> QED
          BY <3>3, <4>1, <5>1
      <4> QED
        BY <1>1, <3>1, <4>2, <4>3
    <3>5. Rounds(First)' = c + 1 /\ Rounds(Second)' = c + 1
      BY <1>6, <1>9, <2>2, <3>1
    <3>6. took' = 2 * (c + 1) /\ took # 0 /\ took =< 2 * Cycles /\ c + 1 \in 0 .. Cycles
      BY <1>3, <1>4, <3>1
    <3>7. bm'[First].start = bm[First].start
      BY <1>6, <1>8, <2>2, <3>1
    <3>8. Level(c + 1)'
      BY <1>3, <1>5, <1>7, <3>1, <3>4, <3>5, <3>6 DEF Level
    <3> QED
      BY <3>6, <3>7, <3>8
  <2>3. ~ (Half /\ f = Second)
    BY <1>3, <1>4 DEF Half
  <2> HIDE DEF First, Second, Half
  <2>4. CASE \E c \in 0 .. Cycles : Level(c) /\ f = First
    <3>1. PICK c \in 0 .. Cycles : Level(c) /\ f = First
      BY <2>4
    <3>2. /\ IF stage = 1 THEN Level(c + 1)' ELSE Uneven(c)'
          /\ c + 1 \in 0 .. Cycles /\ c \in 0 .. Cycles - 1
          /\ (took = 0 => f = First /\ Rounds(First) = 0)
          /\ (took > 0 => bm'[First].start = bm[First].start) /\ took =< 2 * Cycles
      BY <2>1, <3>1
    <3> HIDE DEF Level, Uneven
    <3>3. Turns'
      <4>1. (\E d \in 0 .. Cycles : Level(d)') \/ (\E d \in 0 .. Cycles - 1 : Uneven(d)')
        BY <3>2
      <4> QED
        BY <1>1, <1>3, <4>1 DEF Turns
    <3> QED
      BY <3>2, <3>3
  <2>5. CASE \E c \in 0 .. Cycles - 1 : Uneven(c) /\ f = Second
    <3>1. PICK c \in 0 .. Cycles - 1 : Uneven(c) /\ f = Second
      BY <2>5
    <3>2. /\ Level(c + 1)' /\ c + 1 \in 0 .. Cycles
          /\ took # 0 /\ bm'[First].start = bm[First].start /\ took =< 2 * Cycles
      BY <2>2, <3>1
    <3> HIDE DEF Level, Uneven
    <3>3. Turns'
      <4>1. \E d \in 0 .. Cycles : Level(d)'
        BY <3>2
      <4> QED
        BY <1>1, <1>3, <4>1 DEF Turns
    <3> QED
      BY <3>2, <3>3
  <2> QED
    BY <1>1, <2>3, <2>4, <2>5
<1>12. ticks' \in {bm'[First].start + took', bm'[First].start + took' - ClockMod}
  <2>1. CASE took = 0
    <3>1. bm'[First].start = ticks /\ took' = 1
      BY <1>2, <1>3, <1>6, <1>8, <1>11, <2>1, AtTop
    <3>2. ticks' \in {ticks + 1, ticks + 1 - ClockMod}
      BY <1>3, <1>4, OneTickMore
    <3> QED
      BY <3>1, <3>2
  <2>2. CASE took # 0
    <3> DEFINE s == bm[First].start
    <3>1. bm'[First].start = s /\ s \in 0 .. ClockMod - 1 /\ took \in 0 .. 2 * Cycles + 1
          /\ took > 0
      BY <1>2, <1>4, <1>6, <1>11, <2>2, AtTop
    <3>2. ended # Mates
      BY <1>7
    <3>3. ticks \in {s + took, s + took - ClockMod}
      BY <1>1, <1>2, <3>1, <3>2 DEF Timed
    <3> HIDE DEF s
    <3>4. ticks' \in {s + (took + 1), s + (took + 1) - ClockMod}
      BY <1>3, <1>4, <3>1, <3>3, OneTickMore
    <3> QED
      BY <1>3, <3>1, <3>4
  <2> QED
    BY <2>1, <2>2
<1>13. Timed'
  BY <1>5, <1>12 DEF Timed
<1>14. Samples'
  BY <1>2, <1>3 DEF Samples
<1> QED
  BY <1>10, <1>11, <1>13, <1>14 DEF BenchInv

\* The last tick minus the first
LEMMA TimeTaken ==
    ASSUME ticks \in 0 .. ClockMod - 1, NEW s \in 0 .. ClockMod - 1,
           NEW t \in 0 .. 2 * Cycles + 1, ticks \in {s + t, s + t - ClockMod}
    PROVE  (ticks - s) % ClockMod = t
<1> DEFINE x == ticks - s
<1>1. ClockMod \in Nat \ {0} /\ Cycles \in Nat /\ 2 * Cycles + 1 < ClockMod
  BY ClockRoom
<1>2. x \in Int /\ x \in {t, t - ClockMod} /\ t \in 0 .. ClockMod - 1
  BY <1>1
<1> HIDE DEF x
<1>3. /\ x \in 0 .. ClockMod - 1 => x % ClockMod = x
      /\ x \in -ClockMod .. -1 => x % ClockMod = x + ClockMod
  BY <1>1, <1>2, Reduce
<1>4. x % ClockMod = t
  BY <1>1, <1>2, <1>3
<1> QED
  BY <1>4 DEF x

\* The end of the loop
LEMMA BenchFinish ==
    ASSUME BenchInv, NEW f \in Bench!Players, Bench!Finish(f)
    PROVE  BenchInv'
<1>1. /\ stage \in 1 .. 4
      /\ \/ \E c \in 0 .. Cycles : Level(c) /\ f = First
         \/ \E c \in 0 .. Cycles - 1 : Uneven(c) /\ f = Second
         \/ Half /\ f = Second
  BY InTurn, ConductorApart DEF Bench!Finish
<1>2. BenchTypes /\ Timed /\ Samples
  BY DEF BenchInv
<1>3. /\ Rounds(f) >= Cycles /\ took' = took + 1 /\ Bench!Pass
      /\ stage' = stage /\ round' = round /\ stats' = stats /\ ended' = ended \cup {f}
  BY DEF Bench!Finish, Rounds
<1>4. Cycles \in Nat \ {0} /\ ClockMod \in Nat /\ took \in Nat /\ ticks \in 0 .. ClockMod - 1
  BY <1>2, BenchAssumption DEF BenchTypes
<1>5. First' = First /\ Second' = Second /\ Mates' = Mates
  BY <1>3 DEF First, Second, Mates
<1>6. /\ First \in Bench!Players /\ Second \in Bench!Players /\ (First = Second <=> stage = 1)
      /\ First # Bench!Conductor /\ Second # Bench!Conductor
  BY <1>1, Names DEF First, Second
<1>7. /\ bm' \in [Bench!Players -> [pt : {"top", "loop"}, start : 0 .. ClockMod - 1,
                                    end : 0 .. ClockMod - 1, count : Nat]]
      /\ \A g \in Bench!Players : g # f => bm'[g] = bm[g]
      /\ bm'[f].pt = "top" /\ bm'[f].start = bm[f].start /\ bm'[f].count = bm[f].count + 1
      /\ bm'[f].end = ticks
  BY <1>2, Remembered
<1>8. bm[f].count = Rounds(f)
  BY <1>2, <1>3, <1>4, AtTop
<1>9. bm'[First].start = bm[First].start /\ bm[First].start \in 0 .. ClockMod - 1
  <2>1. bm[First].start \in 0 .. ClockMod - 1
    BY <1>2, <1>6, AtTop
  <2> QED
    BY <1>6, <1>7, <2>1
<1>10. BenchTypes'
  <2>1. ticks' \in 0 .. ClockMod - 1
    BY <1>3, <1>4, OneTickMore
  <2>2. \A g \in Bench!Players :
            bm'[g].pt = "loop" => stage \in 1 .. 4 /\ g \in Mates \ ended' /\ bm'[g].count > 0
    <3> TAKE g \in Bench!Players
    <3>1. CASE g = f
      BY <1>7, <3>1
    <3>2. CASE g # f
      <4>1. bm'[g] = bm[g]
        BY <1>7, <3>2
      <4>2. bm[g].pt = "loop" => stage \in 1 .. 4 /\ g \in Mates \ ended /\ bm[g].count > 0
        BY <1>2 DEF BenchTypes
      <4> QED
        BY <1>3, <3>2, <4>1, <4>2
    <3> QED
      BY <3>1, <3>2
  <2>3. took' \in Nat /\ stage' \in 0 .. 5 /\ round' \in 0 .. Repeats
        /\ (stage' < 5 <=> round' < Repeats)
    BY <1>2, <1>3 DEF BenchTypes
  <2> QED
    BY <1>3, <1>5, <1>7, <2>1, <2>2, <2>3 DEF BenchTypes
<1>11. /\ Bench!Queue(<<>>, Bench!Conductor) = <<Bench!Conductor>>
       /\ Bench!Queue(<<Bench!Conductor>>, Bench!Conductor) = <<Bench!Conductor>>
       /\ Bench!Queue(<<>>, Second) = <<Second>>
       /\ Bench!Queue(<<Second>>, Bench!Conductor) = <<Second, Bench!Conductor>>
  BY <1>6, ShortQueues
<1>12. /\ <<>> \in Seq(Everybody) /\ <<Second>> \in Seq(Everybody)
       /\ <<Bench!Conductor>> \in Seq(Everybody)
  BY <1>6 DEF Everybody
<1>13. Bench!Sample' = (bm'[Second].end - bm'[First].start) % ClockMod
  BY <1>5 DEF Bench!Sample, First, Second
<1> HIDE DEF First, Second
<1>14. ASSUME ended # Mates, took > 0, took =< 2 * Cycles + 1, f = Second
       PROVE  Bench!Sample' = took' - 1
  <2> DEFINE s == bm[First].start
  <2>1. ticks \in {s + took, s + took - ClockMod} /\ s \in 0 .. ClockMod - 1
    BY <1>1, <1>2, <1>9, <1>14 DEF Timed
  <2>2. (ticks - s) % ClockMod = took
    <3>1. took \in 0 .. 2 * Cycles + 1
      BY <1>4, <1>14
    <3> HIDE DEF s
    <3> QED
      BY <1>4, <2>1, <3>1, TimeTaken
  <2> QED
    BY <1>3, <1>4, <1>7, <1>9, <1>13, <1>14, <2>2
<1>15. ASSUME NEW c \in 0 .. Cycles, Level(c), f = First, stage = 1
       PROVE  Over' /\ ended' = Mates
  <2>1. /\ ended = {} /\ Rounds(First) = c /\ took = c /\ Bench!Chosen = <<First>> /\ c = Cycles
        /\ Second = First
    BY <1>3, <1>4, <1>6, <1>15 DEF Level
  <2>2. Tail(Bench!Chosen) = <<>>
    BY <2>1, Fronts
  <2>3. Bench!Chosen' = Bench!Queue(<<>>, Bench!Conductor)
    <3>1. ~ (f = First /\ stage \in 3 .. 4)
      BY <1>15
    <3> QED
      BY <1>1, <1>12, <1>15, <2>2, <3>1, Queued
  <2>4. ended' = Mates /\ \A g \in Mates : bm'[g].count = Cycles + 1
    BY <1>3, <1>7, <1>8, <1>15, <2>1 DEF Mates
  <2>5. took' \in 1 .. 2 * Cycles + 2 /\ Bench!Sample' = took' - 1
    <3>1. ended # Mates
      BY <2>1 DEF Mates
    <3>2. took > 0 /\ took =< 2 * Cycles + 1
      BY <1>4, <2>1
    <3>3. took' \in 1 .. 2 * Cycles + 2
      BY <1>3, <1>4, <2>1
    <3> QED
      BY <1>14, <1>15, <2>1, <3>1, <3>2, <3>3
  <2> QED
    BY <1>5, <1>11, <2>3, <2>4, <2>5 DEF Over
<1>16. ASSUME NEW c \in 0 .. Cycles, Level(c), f = First, stage # 1
       PROVE  Half' /\ Timed'
  <2>1. /\ ended = {} /\ Rounds(First) = c /\ Rounds(Second) = c /\ took = 2 * c /\ c = Cycles
        /\ Bench!Chosen = IF stage = 2 THEN <<First, Second>> ELSE <<First>>
        /\ Second # First
    BY <1>3, <1>4, <1>6, <1>16 DEF Level
  <2>2. Tail(Bench!Chosen) = IF stage = 2 THEN <<Second>> ELSE <<>>
    BY <2>1, Fronts
  <2>3. Bench!Chosen' = <<Second, Bench!Conductor>>
    <3>1. CASE stage = 2
      <4>1. Tail(Bench!Chosen) = <<Second>> /\ ~ (f = First /\ stage \in 3 .. 4)
        BY <2>2, <3>1
      <4>2. Bench!Chosen' = Bench!Queue(<<Second>>, Bench!Conductor)
        BY <1>1, <1>12, <1>16, <4>1, Queued
      <4> QED
        BY <1>11, <4>2
    <3>2. CASE stage \in 3 .. 4
      <4>1. Tail(Bench!Chosen) = <<>> /\ f = First
        BY <1>16, <2>2, <3>2
      <4>2. Bench!Chosen' = Bench!Queue(Bench!Queue(<<>>, Second), Bench!Conductor)
        BY <1>1, <1>12, <3>2, <4>1, Queued
      <4> QED
        BY <1>11, <4>2
    <3> QED
      BY <1>1, <1>16, <3>1, <3>2
  <2>4. Rounds(Second)' = Cycles
    <3>1. Rounds(Second)' = IF bm'[Second].pt = "top" THEN 0 ELSE bm'[Second].count
      BY <1>5 DEF Rounds, Bench!Count
    <3>2. bm'[Second] = bm[Second]
      BY <1>6, <1>7, <1>16, <2>1
    <3>3. Rounds(Second) = IF bm[Second].pt = "top" THEN 0 ELSE bm[Second].count
      BY DEF Rounds, Bench!Count
    <3> QED
      BY <2>1, <3>1, <3>2, <3>3
  <2>5. ended' = {First} /\ bm'[First].count = Cycles + 1 /\ took' = 2 * Cycles + 1
    BY <1>3, <1>7, <1>8, <1>16, <2>1
  <2>6. Timed'
    <3> DEFINE s == bm[First].start
    <3>1. took > 0 /\ took \in 0 .. 2 * Cycles + 1 /\ ended # Mates
      BY <1>4, <2>1 DEF Mates
    <3>2. ticks \in {s + took, s + took - ClockMod} /\ s \in 0 .. ClockMod - 1
      BY <1>1, <1>2, <1>9, <3>1 DEF Timed
    <3>3. bm'[First].start = s
      BY <1>9
    <3> HIDE DEF s
    <3>4. ticks' \in {s + (took + 1), s + (took + 1) - ClockMod}
      BY <1>3, <1>4, <3>1, <3>2, OneTickMore
    <3> QED
      BY <1>3, <1>5, <3>3, <3>4 DEF Timed
  <2> QED
    BY <1>3, <1>5, <1>16, <2>3, <2>4, <2>5, <2>6 DEF Half
<1>17. ASSUME Half, f = Second
       PROVE  Over' /\ ended' = Mates
  <2>1. /\ stage # 1 /\ ended = {First} /\ Rounds(Second) = Cycles
        /\ bm[First].count = Cycles + 1 /\ took = 2 * Cycles + 1 /\ Second # First
        /\ Bench!Chosen = <<Second, Bench!Conductor>>
    BY <1>6, <1>17 DEF Half
  <2>2. Tail(Bench!Chosen) = <<Bench!Conductor>>
    BY <2>1, Fronts
  <2>3. Bench!Chosen' = Bench!Queue(<<Bench!Conductor>>, Bench!Conductor)
    BY <1>1, <1>12, <1>17, <2>1, <2>2, Queued
  <2>4. ended' = Mates /\ \A g \in Mates : bm'[g].count = Cycles + 1
    <3>1. bm'[First].count = Cycles + 1 /\ bm'[Second].count = Cycles + 1
      BY <1>6, <1>7, <1>8, <1>17, <2>1
    <3> QED
      BY <1>3, <1>17, <2>1, <3>1 DEF Mates
  <2>5. took' \in 1 .. 2 * Cycles + 2 /\ Bench!Sample' = took' - 1
    <3>1. ended # Mates
      BY <2>1 DEF Mates
    <3>2. took > 0 /\ took =< 2 * Cycles + 1 /\ took' \in 1 .. 2 * Cycles + 2
      BY <1>3, <1>4, <2>1
    <3> QED
      BY <1>14, <1>17, <3>1, <3>2
  <2> QED
    BY <1>5, <1>11, <2>3, <2>4, <2>5 DEF Over
<1>18. ASSUME NEW c \in 0 .. Cycles - 1, Uneven(c), f = Second PROVE FALSE
  BY <1>3, <1>4, <1>18 DEF Uneven
<1>19. (Over' /\ ended' = Mates) \/ (Half' /\ Timed')
  <2> HIDE DEF Level, Uneven, Half, Over, Timed, Mates
  <2> QED
    BY <1>1, <1>15, <1>16, <1>17, <1>18
<1>20. Turns'
  <2> HIDE DEF Half, Over
  <2>1. Over' \/ Half'
    BY <1>19
  <2> QED
    BY <1>1, <1>3, <2>1 DEF Turns
<1>21. Timed'
  BY <1>5, <1>19 DEF Timed
<1>22. Samples'
  BY <1>2, <1>3 DEF Samples
<1> QED
  BY <1>10, <1>20, <1>21, <1>22 DEF BenchInv

\* stats_add: a sample more, and the sum of them does not wrap.
LEMMA SampleAdded ==
    ASSUME NEW s, NEW n \in 0 .. Repeats - 1, Sampled(s, n), NEW d \in 0 .. 2 * Cycles + 1
    PROVE  Sampled(Bench!Add(s, d), n + 1)
<1> DEFINE c == 2 * Cycles + 1
           t == Bench!Add(s, d)
           lo == IF d < s.min THEN d ELSE s.min
           hi == IF d > s.max THEN d ELSE s.max
<1>1. /\ ClockMod \in Nat \ {0} /\ c \in Nat /\ c < ClockMod /\ Repeats \in Nat \ {0}
      /\ Repeats * c < ClockMod /\ n \in Nat /\ n + 1 =< Repeats /\ d \in Nat /\ d =< c
  <2>1. Cycles \in Nat /\ Repeats \in Nat \ {0} /\ Repeats * c < ClockMod
        /\ 2 * Cycles + 1 < ClockMod /\ ClockMod \in Nat \ {0}
    BY BenchAssumption, ClockRoom
  <2> QED
    BY <2>1
<1>2. /\ s.min \in Nat /\ s.max \in Nat /\ s.accumulator \in Nat /\ s.count = n
      /\ n = 0 => s.min = ClockMod - 1 /\ s.max = 0 /\ s.accumulator = 0
      /\ n # 0 => /\ s.min =< s.max /\ s.max =< c
                  /\ n * s.min =< s.accumulator /\ s.accumulator =< n * s.max
  BY DEF Sampled, Bench!NoStats
<1>3. t = [min |-> lo, max |-> hi, accumulator |-> (s.accumulator + d) % ClockMod,
           count |-> s.count + 1]
  BY DEF Bench!Add
<1>4. lo \in Nat /\ hi \in Nat /\ lo =< d /\ d =< hi /\ lo =< hi /\ hi =< c
      /\ (n # 0 => lo =< s.min /\ s.max =< hi)
  BY <1>1, <1>2
<1> HIDE DEF c, t, lo, hi
<1>5. \A a \in Nat, b \in Nat : a =< b => n * a =< n * b
  BY <1>1
<1>6. n * lo =< s.accumulator /\ s.accumulator =< n * hi
  <2>1. CASE n = 0
    BY <1>2, <1>4, <2>1
  <2>2. CASE n # 0
    <3>1. n * lo =< n * s.min /\ n * s.max =< n * hi
      BY <1>2, <1>4, <1>5, <2>2
    <3>2. n * lo \in Nat /\ n * s.min \in Nat /\ n * s.max \in Nat /\ n * hi \in Nat
      BY <1>1, <1>2, <1>4
    <3> QED
      BY <1>2, <2>2, <3>1, <3>2
  <2> QED
    BY <2>1, <2>2
<1>7. /\ (n + 1) * lo = n * lo + lo /\ (n + 1) * hi = n * hi + hi
      /\ n * lo \in Nat /\ n * hi \in Nat
  BY <1>1, <1>4
<1>8. s.accumulator + d < ClockMod
  <2>1. n * hi =< n * c /\ n * c \in Nat
    BY <1>1, <1>4, <1>5
  <2>2. PICK m \in Nat : Repeats = n + 1 + m
    <3>1. Repeats - (n + 1) \in Nat /\ Repeats = n + 1 + (Repeats - (n + 1))
      BY <1>1
    <3> QED
      BY <3>1
  <2>3. Repeats * c = n * c + c + m * c /\ m * c \in Nat
    BY <1>1, <2>2
  <2> QED
    BY <1>1, <1>2, <1>6, <1>7, <2>1, <2>3
<1>9. (s.accumulator + d) % ClockMod = s.accumulator + d
  <2> DEFINE x == s.accumulator + d
  <2>1. x \in Int /\ x \in 0 .. ClockMod - 1
    BY <1>1, <1>2, <1>8
  <2> HIDE DEF x
  <2>2. x % ClockMod = x
    BY <1>1, <2>1, Reduce
  <2> QED
    BY <2>2 DEF x
<1>10. t = [min |-> lo, max |-> hi, accumulator |-> s.accumulator + d, count |-> n + 1]
  BY <1>2, <1>3, <1>9
<1>11. /\ t \in [min : Nat, max : Nat, accumulator : Nat, count : Nat]
       /\ t.min = lo /\ t.max = hi /\ t.accumulator = s.accumulator + d /\ t.count = n + 1
  BY <1>1, <1>2, <1>4, <1>10
<1>12. (n + 1) * lo =< s.accumulator + d /\ s.accumulator + d =< (n + 1) * hi
  BY <1>1, <1>2, <1>4, <1>6, <1>7
<1>13. n + 1 # 0
  BY <1>1
<1> QED
  BY <1>4, <1>11, <1>12, <1>13 DEF Sampled, t, c

\* stats_mean: between the least sample and the greatest
LEMMA MeanBetween ==
    ASSUME NEW s, NEW n \in Nat \ {0}, Sampled(s, n)
    PROVE  s.count = n /\ s.min =< Bench!Mean(s) /\ Bench!Mean(s) =< s.max
<1> DEFINE x == s.accumulator + n \div 2
           q == x \div n
<1>1. /\ s.min \in Nat /\ s.max \in Nat /\ s.accumulator \in Nat /\ s.count = n
      /\ n * s.min =< s.accumulator /\ s.accumulator =< n * s.max
  BY DEF Sampled
<1>2. n \div 2 \in Nat /\ n \div 2 < n
  OBVIOUS
<1>3. x \in Nat /\ s.accumulator =< x /\ x < s.accumulator + n
  BY <1>1, <1>2
<1>4. Bench!Mean(s) = q
  BY <1>1 DEF Bench!Mean
<1> HIDE DEF x
<1>5. q \in Nat /\ n * q =< x /\ x < n * q + n
  BY <1>3, Rounding
<1> HIDE DEF q
<1>6. /\ n * q \in Nat /\ n * s.min \in Nat /\ n * s.max \in Nat
      /\ s.min * n = n * s.min /\ (q + 1) * n = n * q + n
      /\ q * n = n * q /\ (s.max + 1) * n = n * s.max + n
  BY <1>1, <1>5
<1>7. s.min < q + 1
  <2>1. s.min * n < (q + 1) * n
    BY <1>1, <1>3, <1>5, <1>6
  <2> QED
    BY <1>1, <1>5, <2>1, Factors
<1>8. q < s.max + 1
  <2>1. q * n < (s.max + 1) * n
    BY <1>1, <1>3, <1>5, <1>6
  <2> QED
    BY <1>1, <1>5, <2>1, Factors
<1> QED
  BY <1>1, <1>4, <1>5, <1>7, <1>8

\* When the conductor is in front, no fibre is under way.
LEMMA AllAtTop ==
    ASSUME BenchInv, Bench!Dispatched(Bench!Conductor)
    PROVE  /\ Bench!Chosen = <<Bench!Conductor>>
           /\ Bench!Rest = [run |-> <<>>, posted |-> <<>>]
           /\ \A f \in Bench!Players : bm[f].pt = "top"
           /\ stage = 0 \/ (stage \in 1 .. 4 /\ Over)
<1>1. /\ (stage = 0 /\ Bench!Chosen = <<Bench!Conductor>>) \/ (stage \in 1 .. 4 /\ Over)
      /\ BenchTypes
  BY InTurn DEF BenchInv
<1>2. Bench!Chosen = <<Bench!Conductor>>
  BY <1>1 DEF Over
<1>3. Bench!Rest = [run |-> <<>>, posted |-> <<>>]
  <2>1. Tail(Bench!Chosen) = <<>>
    BY <1>2, Fronts
  <2> QED
    BY <2>1 DEF Bench!Rest
<1>4. ASSUME NEW f \in Bench!Players PROVE bm[f].pt = "top"
  <2>1. bm[f].pt \in {"top", "loop"}
    BY <1>1 DEF BenchTypes
  <2>2. bm[f].pt = "loop" => stage \in 1 .. 4 /\ f \in Mates \ ended
    BY <1>1 DEF BenchTypes
  <2> QED
    BY <1>1, <2>1, <2>2 DEF Over
<1> QED
  BY <1>1, <1>2, <1>3, <1>4

\* The conductor starts a stage.
LEMMA StageStarted ==
    ASSUME NEW k \in 1 .. 4, Bench!StartStage(k), bm' = bm,
           Bench!Rest = [run |-> <<>>, posted |-> <<>>],
           \A f \in Bench!Players : bm[f].pt = "top"
    PROVE  stage' = k /\ took' = 0 /\ Turns' /\ Timed'
<1> DEFINE a == Bench!One(k)
           b == Bench!Other(k)
           q == [run |-> <<>>, posted |-> <<>>]
<1>1. /\ a \in Bench!Players /\ b \in Bench!Players /\ (a = b <=> k = 1)
      /\ a # Bench!Conductor /\ b # Bench!Conductor
      /\ (Bench!Stages[k] = "paired" <=> k = 2)
  BY Names
<1>2. /\ stage' = k /\ yielded' = <<>> /\ took' = 0 /\ ended' = {}
      /\ bq' = IF k = 2 THEN Bench!Run(Bench!Run(q, a), b) ELSE Bench!Run(q, a)
  BY <1>1 DEF Bench!StartStage
<1>3. First' = a /\ Second' = b
  BY <1>2 DEF First, Second
<1>4. Rounds(First)' = 0 /\ Rounds(Second)' = 0
  <2>1. /\ Rounds(First)' = IF bm'[First'].pt = "top" THEN 0 ELSE bm'[First'].count
        /\ Rounds(Second)' = IF bm'[Second'].pt = "top" THEN 0 ELSE bm'[Second'].count
    BY DEF Rounds, Bench!Count
  <2>2. bm'[a].pt = "top" /\ bm'[b].pt = "top"
    BY <1>1
  <2> HIDE DEF First, Second, a, b
  <2> QED
    BY <1>3, <2>1, <2>2
<1> HIDE DEF a, b, q
<1>5. a \in Everybody /\ b \in Everybody
  BY <1>1 DEF Everybody
<1>6. <<>> \in Seq(Everybody) /\ <<a>> \in Seq(Everybody) /\ <<a, b>> \in Seq(Everybody)
  BY <1>5
<1>7. Bench!Queue(<<>>, a) = <<a>> /\ (a # b => Bench!Queue(<<a>>, b) = <<a, b>>)
  <2>1. Bench!Queue(<<>>, a) = <<a>>
    BY <1>1, ShortQueues
  <2>2. a # b => Bench!Queue(<<a>>, b) = <<a, b>>
    BY ShortQueues
  <2> QED
    BY <2>1, <2>2
<1>8. Bench!Run(q, a) = [run |-> <<a>>, posted |-> <<>>]
  BY <1>5, <1>6, <1>7, RunIs DEF q
<1>9. Bench!Chosen' = IF k = 2 THEN <<a, b>> ELSE <<a>>
  <2>1. CASE k = 2
    <3>1. a # b
      BY <1>1, <2>1
    <3>2. bq' = [run |-> <<a, b>>, posted |-> <<>>]
      <4>1. bq' = Bench!Run([run |-> <<a>>, posted |-> <<>>], b)
        BY <1>2, <1>8, <2>1
      <4> QED
        BY <1>5, <1>6, <1>7, <3>1, <4>1, RunIs
    <3>3. Bench!Chosen' = <<a, b>>
      BY <1>2, <1>5, <1>6, <3>2, ChosenNext
    <3> QED
      BY <2>1, <3>3
  <2>2. CASE k # 2
    <3>1. bq' = [run |-> <<a>>, posted |-> <<>>]
      BY <1>2, <1>8, <2>2
    <3>2. Bench!Chosen' = <<a>>
      BY <1>2, <1>5, <1>6, <3>1, ChosenNext
    <3> QED
      BY <2>2, <3>2
  <2> QED
    BY <2>1, <2>2
<1>10. Level(0)'
  <2>1. took' = IF stage' = 1 THEN 0 ELSE 2 * 0
    BY <1>2
  <2>2. Bench!Chosen' = IF stage' = 2 THEN <<First', Second'>> ELSE <<First'>>
    BY <1>2, <1>3, <1>9
  <2> QED
    BY <1>2, <1>4, <2>1, <2>2 DEF Level
<1>11. Turns'
  <2>1. 0 \in 0 .. Cycles
    BY ClockRoom
  <2> HIDE DEF Level
  <2>2. \E c \in 0 .. Cycles : Level(c)'
    BY <1>10, <2>1
  <2> QED
    BY <1>2, <2>2 DEF Turns
<1>12. Timed'
  BY <1>2 DEF Timed
<1> QED
  BY <1>2, <1>11, <1>12

\* The busy wait before the first stage, and its start
LEMMA BenchWarmUp ==
    ASSUME BenchInv, Bench!Prepare \/ Bench!Begin
    PROVE  BenchInv'
<1>1. /\ Bench!Rest = [run |-> <<>>, posted |-> <<>>]
      /\ \A f \in Bench!Players : bm[f].pt = "top"
  BY AllAtTop DEF Bench!Prepare, Bench!Begin
<1>2. /\ BenchTypes /\ Samples /\ stage = 0 /\ Bench!Pass
      /\ bm' = bm /\ round' = round /\ stats' = stats
  BY DEF BenchInv, Bench!Prepare, Bench!Begin
<1>3. stage' \in {0, 1} /\ took' \in Nat /\ Turns' /\ Timed'
  <2>1. CASE Bench!Prepare
    <3>1. stage' = 0 /\ took' = took /\ yielded' = <<Bench!Conductor>>
          /\ bq' = [run |-> <<>>, posted |-> <<>>]
      BY <1>1, <1>2, <2>1 DEF Bench!Prepare
    <3>2. <<>> \in Seq(Everybody) /\ Bench!Conductor \in Everybody
      BY DEF Everybody
    <3>3. Bench!Queue(<<>>, Bench!Conductor) = <<Bench!Conductor>>
      <4>1. Bench!Conductor # <<>>
        BY DEF Bench!Conductor
      <4> QED
        BY <4>1, ShortQueues
    <3>4. Bench!Chosen' = <<Bench!Conductor>>
      BY <3>1, <3>2, <3>3, ChosenNext
    <3> QED
      BY <1>2, <3>1, <3>4 DEF BenchTypes, Turns, Timed
  <2>2. CASE Bench!Begin
    <3>1. Bench!StartStage(1) /\ 1 \in 1 .. 4
      BY <2>2 DEF Bench!Begin
    <3> QED
      BY <1>1, <1>2, <3>1, StageStarted
  <2> QED
    BY <2>1, <2>2
<1>4. BenchTypes'
  <2>1. ticks' \in 0 .. ClockMod - 1
    BY <1>2, OneTickMore DEF BenchTypes
  <2>2. stage' \in 0 .. 5 /\ round' \in 0 .. Repeats /\ (stage' < 5 <=> round' < Repeats)
    BY <1>2, <1>3 DEF BenchTypes
  <2>3. /\ bm' \in [Bench!Players -> [pt : {"top", "loop"}, start : 0 .. ClockMod - 1,
                                     end : 0 .. ClockMod - 1, count : Nat]]
        /\ \A f \in Bench!Players : ~ (bm'[f].pt = "loop")
    BY <1>1, <1>2 DEF BenchTypes
  <2> QED
    BY <1>3, <2>1, <2>2, <2>3 DEF BenchTypes
<1>5. Samples'
  <2>1. \A k \in 1 .. 4 :
            /\ (IF stage' \in 1 .. 4 /\ k < stage' THEN round' + 1 ELSE round') = round
            /\ (IF stage \in 1 .. 4 /\ k < stage THEN round + 1 ELSE round) = round
    BY <1>2, <1>3
  <2>2. /\ DOMAIN stats = 1 .. 4 /\ stats = [k \in 1 .. 4 |-> stats[k]]
        /\ \A k \in 1 .. 4 : Sampled(stats[k], round)
    BY <1>2, <2>1 DEF Samples
  <2>3. DOMAIN stats' = 1 .. 4 /\ stats' = [k \in 1 .. 4 |-> stats'[k]]
    BY <1>2, <2>2
  <2>4. \A k \in 1 .. 4 :
            Sampled(stats'[k], IF stage' \in 1 .. 4 /\ k < stage' THEN round' + 1 ELSE round')
    BY <1>2, <2>1, <2>2
  <2> QED
    BY <2>3, <2>4 DEF Samples
<1> QED
  BY <1>3, <1>4, <1>5 DEF BenchInv

\* The conductor takes the time, and starts the next stage or round.
LEMMA BenchMeasure ==
    ASSUME BenchInv, Bench!Measure
    PROVE  BenchInv'
<1>1. /\ Bench!Rest = [run |-> <<>>, posted |-> <<>>]
      /\ \A f \in Bench!Players : bm[f].pt = "top"
      /\ stage \in 1 .. 4 /\ Over
  <2>1. stage # 0
    BY DEF Bench!Measure
  <2> QED
    BY <2>1, AllAtTop DEF Bench!Measure
<1>2. /\ BenchTypes /\ Samples /\ Bench!Pass /\ bm' = bm
      /\ stats' = [stats EXCEPT ![stage] = Bench!Add(stats[stage], Bench!Sample)]
  BY DEF BenchInv, Bench!Measure
<1>3. Bench!Sample \in 0 .. 2 * Cycles + 1
  BY <1>1, ClockRoom DEF Over
<1>4. stage < 4 => Bench!StartStage(stage + 1) /\ round' = round
  <2>1. Len(Bench!Stages) = 4
    BY DEF Bench!Stages
  <2> QED
    BY <2>1 DEF Bench!Measure
<1>5. ~ (stage < 4) =>
          /\ round' = round + 1
          /\ IF round + 1 < Repeats THEN Bench!StartStage(1)
             ELSE stage' = 5 /\ bq' = Bench!Rest /\ yielded' = <<>> /\ took' = took
  <2>1. Len(Bench!Stages) = 4
    BY DEF Bench!Stages
  <2> QED
    BY <2>1 DEF Bench!Measure
<1>6. round \in 0 .. Repeats - 1 /\ Repeats \in Nat \ {0} /\ took \in Nat
  BY <1>1, <1>2, BenchAssumption DEF BenchTypes
<1>7. /\ stage' \in 1 .. 5 /\ round' \in 0 .. Repeats /\ (stage' < 5 <=> round' < Repeats)
      /\ stage < 4 => stage' = stage + 1 /\ round' = round
      /\ ~ (stage < 4) => stage' \in {1, 5} /\ round' = round + 1
      /\ took' \in Nat /\ Turns' /\ Timed'
  <2>1. CASE stage < 4
    <3> DEFINE k == stage + 1
    <3>1. k \in 1 .. 4 /\ Bench!StartStage(k) /\ round' = round
      BY <1>1, <1>4, <2>1
    <3>2. PICK j \in 1 .. 4 : j = k
      BY <3>1
    <3> HIDE DEF k
    <3>3. stage' = j /\ took' = 0 /\ Turns' /\ Timed'
      BY <1>1, <1>2, <3>1, <3>2, StageStarted
    <3> QED
      BY <1>1, <1>6, <2>1, <3>1, <3>2, <3>3 DEF k
  <2>2. CASE stage = 4 /\ round + 1 < Repeats
    <3>1. round' = round + 1 /\ Bench!StartStage(1) /\ 1 \in 1 .. 4
      BY <1>5, <2>2
    <3>2. stage' = 1 /\ took' = 0 /\ Turns' /\ Timed'
      BY <1>1, <1>2, <3>1, StageStarted
    <3> QED
      BY <1>6, <2>2, <3>1, <3>2
  <2>3. CASE stage = 4 /\ ~ (round + 1 < Repeats)
    <3>1. /\ round' = round + 1 /\ stage' = 5 /\ yielded' = <<>> /\ took' = took
          /\ bq' = [run |-> <<>>, posted |-> <<>>]
      BY <1>1, <1>5, <2>3
    <3>2. <<>> \in Seq(Everybody) /\ Bench!Conductor \in Everybody
      BY DEF Everybody
    <3>3. Bench!Chosen' = <<>>
      BY <3>1, <3>2, ChosenNext
    <3>4. Turns' /\ Timed'
      BY <3>1, <3>3 DEF Turns, Timed
    <3> QED
      BY <1>6, <2>3, <3>1, <3>4
  <2> QED
    BY <1>1, <2>1, <2>2, <2>3
<1>8. BenchTypes'
  <2>1. ticks' \in 0 .. ClockMod - 1
    BY <1>2, OneTickMore DEF BenchTypes
  <2>2. /\ bm' \in [Bench!Players -> [pt : {"top", "loop"}, start : 0 .. ClockMod - 1,
                                     end : 0 .. ClockMod - 1, count : Nat]]
        /\ \A f \in Bench!Players : ~ (bm'[f].pt = "loop")
    BY <1>1, <1>2 DEF BenchTypes
  <2>3. stage' \in 0 .. 5
    BY <1>7
  <2> QED
    BY <1>7, <2>1, <2>2, <2>3 DEF BenchTypes
<1>9. Samples'
  <2> DEFINE v == Bench!Add(stats[stage], Bench!Sample)
             n(k) == IF stage \in 1 .. 4 /\ k < stage THEN round + 1 ELSE round
             m(k) == IF stage' \in 1 .. 4 /\ k < stage' THEN round' + 1 ELSE round'
  <2>1. DOMAIN stats = 1 .. 4 /\ \A k \in 1 .. 4 : Sampled(stats[k], n(k))
    BY <1>2 DEF Samples
  <2>2. n(stage) = round /\ m(stage) = round + 1
        /\ \A k \in 1 .. 4 : k # stage => n(k) = m(k)
    <3>1. CASE stage < 4
      <4>1. stage \in 1 .. 3 /\ stage' = stage + 1 /\ round' = round /\ stage' \in 1 .. 4
            /\ round \in Nat
        BY <1>1, <1>6, <1>7, <3>1
      <4>2. \A k \in 1 .. 4 : k # stage => (k < stage <=> k < stage + 1)
        BY <4>1
      <4> QED
        BY <1>1, <4>1, <4>2
    <3>2. CASE stage = 4
      <4>1. stage' \in {1, 5} /\ round' = round + 1
        BY <1>7, <3>2
      <4>2. \A k \in 1 .. 4 : k # 4 => k < 4
        OBVIOUS
      <4>3. \A k \in 1 .. 4 : ~ (stage' \in 1 .. 4 /\ k < stage')
        BY <4>1
      <4>4. \A k \in 1 .. 4 : m(k) = round + 1
        BY <4>1, <4>3
      <4> QED
        BY <3>2, <4>2, <4>4
    <3> QED
      BY <1>1, <3>1, <3>2
  <2>3. Sampled(stats[stage], round)
    BY <1>1, <2>1, <2>2
  <2>4. Sampled(v, round + 1)
    <3> DEFINE s == stats[stage]
               d == Bench!Sample
    <3>1. Sampled(s, round) /\ d \in 0 .. 2 * Cycles + 1
      BY <1>3, <2>3
    <3> HIDE DEF s, d
    <3>2. Sampled(Bench!Add(s, d), round + 1)
      BY <1>6, <3>1, SampleAdded
    <3> QED
      BY <3>2 DEF s, d
  <2> HIDE DEF v
  <2>5. /\ DOMAIN stats' = 1 .. 4 /\ stats'[stage] = v
        /\ \A k \in 1 .. 4 : k # stage => stats'[k] = stats[k]
        /\ stats' = [k \in 1 .. 4 |-> stats'[k]]
    <3>1. stats = [k \in 1 .. 4 |-> stats[k]]
      BY <1>2 DEF Samples
    <3>2. stats' = [stats EXCEPT ![stage] = v]
      BY <1>2 DEF v
    <3> QED
      BY <1>1, <2>1, <3>1, <3>2
  <2> HIDE DEF n, m
  <2>6. \A k \in 1 .. 4 : Sampled(stats'[k], m(k))
    <3> TAKE k \in 1 .. 4
    <3>1. CASE k = stage
      BY <2>2, <2>4, <2>5, <3>1
    <3>2. CASE k # stage
      BY <2>1, <2>2, <2>5, <3>2
    <3> QED
      BY <3>1, <3>2
  <2> QED
    BY <2>5, <2>6 DEF Samples, m
<1> QED
  BY <1>7, <1>8, <1>9 DEF BenchInv

\* Every step of the benchmark
LEMMA BenchStepInv == BenchInv /\ [Bench!Next]_bench => BenchInv'
<1> SUFFICES ASSUME BenchInv, [Bench!Next]_bench PROVE BenchInv'
  OBVIOUS
<1>1. CASE UNCHANGED bench
  <2>1. /\ bq' = bq /\ yielded' = yielded /\ ticks' = ticks /\ bm' = bm /\ stage' = stage
        /\ round' = round /\ stats' = stats /\ took' = took /\ ended' = ended
    BY <1>1 DEF bench
  <2>2. Bench!Chosen' = Bench!Chosen /\ Bench!Sample' = Bench!Sample
        /\ First' = First /\ Second' = Second /\ Mates' = Mates
    BY <2>1 DEF Bench!Chosen, Bench!Sample, First, Second, Mates
  <2>3. Rounds(First)' = Rounds(First) /\ Rounds(Second)' = Rounds(Second)
    BY <2>1, <2>2 DEF Rounds, Bench!Count
  <2>4. BenchTypes'
    BY <2>1, <2>2 DEF BenchInv, BenchTypes
  <2>5. Turns'
    <3>1. \A c : Level(c) => Level(c)'
      BY <2>1, <2>2, <2>3 DEF Level
    <3>2. \A c : Uneven(c) => Uneven(c)'
      BY <2>1, <2>2, <2>3 DEF Uneven
    <3>3. (Half => Half') /\ (Over => Over')
      BY <2>1, <2>2, <2>3 DEF Half, Over
    <3> HIDE DEF Level, Uneven, Half, Over
    <3> QED
      BY <2>1, <2>2, <3>1, <3>2, <3>3 DEF BenchInv, Turns
  <2>6. Timed'
    BY <2>1, <2>2 DEF BenchInv, Timed
  <2>7. Samples'
    BY <2>1 DEF BenchInv, Samples
  <2> QED
    BY <2>4, <2>5, <2>6, <2>7 DEF BenchInv
<1>2. CASE Bench!Next
  BY <1>2, BenchGoRound, BenchFinish, BenchWarmUp, BenchMeasure DEF Bench!Next
<1> QED
  BY <1>1, <1>2

\* The times taken are the times of the whole stages.
LEMMA BenchMeasures == BenchInv => Bench!Measured
<1> SUFFICES ASSUME BenchInv PROVE Bench!Measured
  OBVIOUS
<1>1. ASSUME Bench!Dispatched(Bench!Conductor), stage \in 1 .. 4
      PROVE  /\ ended = Bench!Team(stage) /\ \A f \in ended : bm[f].count = Cycles + 1
             /\ Bench!Chosen = <<Bench!Conductor>> /\ Bench!Sample = took - 1
  <2>1. Over
    BY <1>1, AllAtTop
  <2>2. Bench!Team(stage) = Mates
    BY DEF Bench!Team, Mates, First, Second
  <2> QED
    BY <2>1, <2>2 DEF Over
<1>2. ASSUME stage = 5, NEW k \in 1 .. 4
      PROVE  /\ stats[k].count = Repeats /\ stats[k].min =< Bench!Mean(stats[k])
             /\ Bench!Mean(stats[k]) =< stats[k].max
  <2> DEFINE s == stats[k]
  <2>1. round = Repeats /\ Repeats \in Nat \ {0}
    BY <1>2, BenchAssumption DEF BenchInv, BenchTypes
  <2>2. Sampled(s, Repeats)
    <3>1. Sampled(s, IF stage \in 1 .. 4 /\ k < stage THEN round + 1 ELSE round)
      BY DEF BenchInv, Samples
    <3>2. (IF stage \in 1 .. 4 /\ k < stage THEN round + 1 ELSE round) = Repeats
      BY <1>2, <2>1
    <3> QED
      BY <3>1, <3>2
  <2> HIDE DEF s
  <2>3. s.count = Repeats /\ s.min =< Bench!Mean(s) /\ Bench!Mean(s) =< s.max
    BY <2>1, <2>2, MeanBetween
  <2> QED
    BY <2>3 DEF s
<1> QED
  BY <1>1, <1>2 DEF Bench!Measured

\* However many rounds and repeats, and wherever the clocks wrap: the benchmark measures
\* what it says it does, and the stopwatch shows the time that has gone by.
THEOREM TimeIsKept == Spec => []KeepsTime
<1>1. Init => BenchInv /\ WatchInv
  BY BenchInit, WatchInit
<1>2. BenchInv /\ WatchInv /\ [Next]_vars => BenchInv' /\ WatchInv'
  BY BenchStepInv, WatchStepInv, StepOfParts
<1>3. BenchInv /\ WatchInv => KeepsTime
  BY BenchMeasures, WatchIsInStep DEF KeepsTime
<1> QED
  BY <1>1, <1>2, <1>3, PTL DEF Spec
=============================================================================
