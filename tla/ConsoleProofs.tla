--------------------------- MODULE ConsoleProofs ----------------------------
(***************************************************************************)
(* Machine-checked proofs about the console, for every ring, line and      *)
(* table length, every set of characters and commands, and every choice of *)
(* strings for console_eval.                                               *)
(***************************************************************************)
EXTENDS Console, ListProofs, FiniteSetTheorems

\* What the assumption says of the sizes
Sizes ==
    /\ RingLen \in Nat /\ RingLen > 1
    /\ LineLen \in Nat /\ LineLen > 0
    /\ TableLen \in Nat /\ TableLen > 3

\* The sizes of the ring, the line and the table
LEMMA SizesAre == Sizes
  BY ConsoleAssumption DEF Sizes

Names == 0 .. 999

\* The commands' numbers are in the range that strcmp gives them.
LEMMA RanksAre == \A n \in DOMAIN Rank : Rank[n] \in Names
  BY ConsoleAssumption DEF Names

USE SizesAre DEF Sizes

Chars == Letters \cup {NUL, Junk}
Slots == 0 .. TableLen - 1
Entries == Names \cup {Unknown, Empty}

\* The types that LineAsTyped's TypeOK leaves out
Types ==
    /\ TypeOK
    /\ ring \in Seq(Keys) /\ driver \in {"fibre", "process"}
    /\ buf \in [0 .. LineLen -> Chars]
    /\ typed \in Seq(Letters) /\ edited \in BOOLEAN
    /\ etext \in Seq(Keys) /\ injected \in Seq(Keys) /\ quiet \in BOOLEAN
    /\ child \in [cmd : Entries, pc : {"none", "top", "middle"}]
    /\ cmd_table \in [Slots -> Entries]

\* Without '\b' the buffer is the keys since the prompt and then zeros; a
\* command may leave anything, and the prompt after it clears it.
LineHeld ==
    /\ run = "boot" => bufp = 0
    /\ (child = None /\ ~ edited) =>
          /\ Len(typed) = bufp
          /\ \A k \in 0 .. LineLen : buf[k] = IF k < bufp THEN typed[k + 1] ELSE NUL

\* The names, in order, then the entry without one, then empty slots
TableTo(p) ==
    /\ cmd_table[p] = Unknown
    /\ \A k \in Slots : /\ k < p => cmd_table[k] \in Names
                        /\ k > p => cmd_table[k] = Empty
    /\ \A j, k \in 0 .. p - 1 : j =< k => cmd_table[j] =< cmd_table[k]

Table == \E p \in Slots : TableTo(p)

\* The line and the ring hold what is before the index.
Held ==
    /\ ei = Len(typed) + Len(ring) /\ ei =< Len(etext)
    /\ \A k \in 1 .. Len(typed) : typed[k] = etext[k]
    /\ \A k \in 1 .. Len(ring) : ring[k] = etext[Len(typed) + k]

\* A line is being given to the console, or waits, or was executed; or it is
\* being executed.
Giving == child = None /\ ~ edited /\ Held /\ (epc = "yielded" => ei < Len(etext))
Given ==
    /\ child # None /\ epc = "idle" /\ ring = <<>>
    /\ child.cmd \in {NameOf(SubSeq(etext, 1, Len(etext) - 1)), Unknown}

LineGiven ==
    (quiet /\ IsLine(etext)) => run # "boot" /\ driver = "fibre" /\ (Giving \/ Given)

\* console_run and console_eval are in one context: neither finds the other in
\* the middle of something.
OneContext == ~ (run = "running" /\ epc = "put")

IInv == /\ Types /\ NoStuckInput /\ LineHeld /\ Table /\ OneContext /\ LineGiven

\* One thing of the fibre's state at a time: the steps' effects, by the state
\* they leave alone
LEMMA PutIs ==
    ASSUME NEW k \in Keys, ring \in Seq(Keys), Len(ring) =< RingLen - 1, Put(k)
    PROVE  ring' \in Seq(Keys) /\ Len(ring') =< RingLen - 1
<1>1. CASE Room
  <2>1. ring' = Append(ring, k)
    BY <1>1 DEF Put
  <2>2. ring' \in Seq(Keys) /\ Len(ring') = Len(ring) + 1
    BY <2>1, AppendProperties
  <2> QED
    BY <1>1, <2>2, LenProperties DEF Room
<1>2. CASE ~ Room
  BY <1>2 DEF Put
<1> QED
  BY <1>1, <1>2

\* A key is taken from a ring that has one.
LEMMA TakeIs ==
    ASSUME ring \in Seq(Keys), Len(ring) =< RingLen - 1, ring # <<>>, ring' = Tail(ring)
    PROVE  /\ ring' \in Seq(Keys) /\ Len(ring') =< RingLen - 1
           /\ Head(ring) \in Keys
<1>1. ring' \in Seq(Keys) /\ Len(ring') = Len(ring) - 1 /\ Head(ring) \in Keys
  BY HeadTailProperties
<1> QED
  BY <1>1, LenProperties

-----------------------------------------------------------------------------
(* The command table *)

\* The names' numbers are below the one of the entry without a name.
LEMMA NameIs ==
    ASSUME NEW n \in Names
    PROVE  n \in Nat /\ n < Unknown /\ n # Unknown /\ n # Empty
  BY DEF Names, Unknown, Empty

\* Names and the marks after them are numbers.
LEMMA EntryIs ==
    ASSUME Types, NEW k \in Slots
    PROVE  cmd_table[k] \in Nat
<1>1. cmd_table[k] \in Entries
  BY DEF Types
<1>2. cmd_table[k] \in 0 .. 999 \/ cmd_table[k] = 1000 \/ cmd_table[k] = 1001
  BY <1>1 DEF Entries, Names, Unknown, Empty
<1> QED
  BY <1>2

\* find_command finds the first entry with the name, or the one without.
LEMMA FindIs ==
    ASSUME Types, NEW p \in Slots, TableTo(p), NEW n
    PROVE  \E k \in 0 .. p : /\ FindCommand(n) = cmd_table[k]
                             /\ cmd_table[k] \in {n, Unknown}
                             /\ \A j \in 0 .. k - 1 : cmd_table[j] \notin {n, Unknown}
<1> DEFINE Good(k) == /\ cmd_table[k] \in {n, Unknown}
                      /\ \A j \in 0 .. k - 1 : cmd_table[j] \notin {n, Unknown}
           T == {k \in Slots : cmd_table[k] \in {n, Unknown}}
<1>1. T \subseteq Nat /\ p \in T
  BY DEF TableTo, Slots
<1>2. PICK x \in T : \A y \in T : x =< y
  BY <1>1, Least, T # {}
<1>3. x \in 0 .. p
  BY <1>1, <1>2 DEF Slots
<1>4. Good(x)
  <2>1. ASSUME NEW j \in 0 .. x - 1 PROVE j \notin T
    BY <1>2, <1>3 DEF Slots
  <2> QED
    BY <1>2, <1>3, <2>1 DEF Slots
<1>5. ASSUME NEW k \in Slots, Good(k) PROVE k = x
  <2>1. k \in T
    BY <1>5
  <2>2. x =< k
    BY <1>2, <2>1
  <2>3. ~ x < k
    <3> SUFFICES ASSUME x < k PROVE FALSE
      OBVIOUS
    <3>1. x \in 0 .. k - 1
      BY <1>3 DEF Slots
    <3> QED
      BY <1>4, <1>5, <3>1
  <2> QED
    BY <1>3, <2>2, <2>3 DEF Slots
<1>6. x \in Slots
  BY <1>2
<1> HIDE DEF T
<1>7. x = CHOOSE k \in 0 .. TableLen - 1 : Good(k)
  BY <1>4, <1>5, <1>6 DEF Slots
<1>8. FindCommand(n) = cmd_table[x]
  BY <1>7 DEF FindCommand
<1> QED
  BY <1>3, <1>4, <1>8

\* The place of a new name: after every name that is not greater, before the
\* entry without a name.
LEMMA PlaceIs ==
    ASSUME Types, NEW p \in Slots, TableTo(p), NEW n \in Names
    PROVE  /\ Place(n) \in 0 .. p
           /\ cmd_table[Place(n)] = Unknown \/ cmd_table[Place(n)] > n
           /\ \A j \in 0 .. Place(n) - 1 : cmd_table[j] =< n
<1> DEFINE Stops(k) == cmd_table[k] = Unknown \/ cmd_table[k] > n
           Good(k) == /\ Stops(k)
                      /\ \A j \in 0 .. k - 1 : cmd_table[j] # Unknown /\ cmd_table[j] =< n
           T == {k \in Slots : Stops(k)}
<1>1. T \subseteq Nat /\ p \in T
  BY DEF TableTo, Slots
<1>2. PICK x \in T : \A y \in T : x =< y
  BY <1>1, Least, T # {}
<1>3. x \in 0 .. p
  BY <1>1, <1>2 DEF Slots
<1>4. Good(x)
  <2>1. ASSUME NEW j \in 0 .. x - 1 PROVE cmd_table[j] # Unknown /\ cmd_table[j] =< n
    <3>1. j \in Slots /\ j \notin T
      BY <1>2, <1>3 DEF Slots
    <3>2. cmd_table[j] \in Nat
      BY <3>1, EntryIs
    <3> QED
      BY <3>1, <3>2, NameIs
  <2> QED
    BY <1>2, <2>1
<1>5. ASSUME NEW k \in Slots, Good(k) PROVE k = x
  <2>1. k \in T
    BY <1>5
  <2>2. x =< k
    BY <1>2, <2>1
  <2>3. ~ x < k
    <3> SUFFICES ASSUME x < k PROVE FALSE
      OBVIOUS
    <3>1. x \in 0 .. k - 1
      BY <1>3 DEF Slots
    <3>2. cmd_table[x] # Unknown /\ cmd_table[x] =< n
      BY <1>5, <3>1
    <3>3. cmd_table[x] \in Nat
      BY <1>2, EntryIs
    <3> QED
      BY <1>4, <3>2, <3>3, NameIs
  <2> QED
    BY <1>3, <2>2, <2>3 DEF Slots
<1>6. x \in Slots
  BY <1>2
<1> HIDE DEF T
<1>7. x = CHOOSE k \in 0 .. TableLen - 1 : Good(k)
  BY <1>4, <1>5, <1>6 DEF Slots
<1>8. Place(n) = x
  BY <1>7 DEF Place
<1> QED
  BY <1>3, <1>4, <1>8

\* console_register moves the rest of the table up by one.
LEMMA RegisterKeepsTable ==
    ASSUME Types, Table, NEW n \in Names, Register(n)
    PROVE  Table' /\ cmd_table' \in [Slots -> Entries]
<1>1. PICK p \in Slots : TableTo(p)
  BY DEF Table
<1>2. p \in 0 .. TableLen - 2
  <2>1. cmd_table[TableLen - 1] # Unknown
    BY DEF Register, Unknown, Empty
  <2> QED
    BY <1>1, <2>1 DEF TableTo, Slots
<1> DEFINE q == Place(n)
<1>3. /\ q \in 0 .. p
      /\ cmd_table[q] = Unknown \/ cmd_table[q] > n
      /\ \A j \in 0 .. q - 1 : cmd_table[j] =< n
  BY <1>1, PlaceIs
<1>4. \A k \in Slots : cmd_table'[k] = IF k = q THEN n
                                       ELSE IF k > q THEN cmd_table[k - 1]
                                       ELSE cmd_table[k]
  BY <1>3 DEF Register, Slots
<1>5. cmd_table' = [k \in Slots |-> IF k = q THEN n
                                    ELSE IF k > q THEN cmd_table[k - 1]
                                    ELSE cmd_table[k]]
  BY <1>3 DEF Register, Slots
<1> HIDE DEF q
<1>6. cmd_table' \in [Slots -> Entries]
  <2>1. \A k \in Slots : k > q => k - 1 \in Slots
    BY <1>3 DEF Slots
  <2>2. n \in Entries
    BY DEF Entries
  <2> QED
    BY <1>5, <2>1, <2>2 DEF Types
<1>7. PICK r \in Slots : r = p + 1
  BY <1>2 DEF Slots
<1>8. cmd_table'[r] = Unknown
  BY <1>1, <1>3, <1>4, <1>7 DEF TableTo, Slots
<1>9. \A k \in Slots : /\ k < r => cmd_table'[k] \in Names
                       /\ k > r => cmd_table'[k] = Empty
  <2> TAKE k \in Slots
  <2>1. CASE k = q
    <3>1. cmd_table'[k] = n /\ ~ k > r
      BY <1>3, <1>4, <1>7, <2>1 DEF Slots
    <3> QED
      BY <3>1
  <2>2. CASE k > q
    <3>1. k - 1 \in Slots /\ cmd_table'[k] = cmd_table[k - 1]
      BY <1>3, <1>4, <2>2 DEF Slots
    <3>2. /\ k < r => k - 1 < p
          /\ k > r => k - 1 > p
      BY <1>7 DEF Slots
    <3> QED
      BY <1>1, <3>1, <3>2 DEF TableTo
  <2>3. CASE k < q
    <3>1. k < p /\ ~ k > r /\ cmd_table'[k] = cmd_table[k]
      BY <1>3, <1>4, <1>7, <2>3 DEF Slots
    <3> QED
      BY <1>1, <3>1, <1>2 DEF TableTo, Slots
  <2> QED
    BY <1>3, <2>1, <2>2, <2>3 DEF Slots
<1>10. \A j, k \in 0 .. p : j =< k => cmd_table'[j] =< cmd_table'[k]
  <2> SUFFICES ASSUME NEW j \in 0 .. p, NEW k \in 0 .. p, j =< k
               PROVE  cmd_table'[j] =< cmd_table'[k]
    OBVIOUS
  <2>1. j \in Slots /\ k \in Slots
    BY DEF Slots
  <2>2. \A i \in 0 .. p - 1 : i \in Slots /\ cmd_table[i] \in Names
    BY <1>1 DEF TableTo, Slots
  <2>0. p \in Nat /\ q \in Nat /\ j \in Nat /\ k \in Nat /\ q =< p /\ k =< p /\ j =< p
    BY <1>2, <1>3
  <2>3. \A a, b \in 0 .. p - 1 : a =< b => cmd_table[a] =< cmd_table[b]
    BY <1>1 DEF TableTo
  <2>4. CASE k < q
    <3>1. j \in 0 .. p - 1 /\ k \in 0 .. p - 1
      BY <2>0, <2>4
    <3>2. cmd_table'[j] = cmd_table[j] /\ cmd_table'[k] = cmd_table[k]
      BY <1>3, <1>4, <2>1, <2>4
    <3> QED
      BY <2>3, <3>1, <3>2
  <2>5. CASE k = q
    <3>1. cmd_table'[k] = n
      BY <1>4, <2>1, <2>5
    <3>2. CASE j = k
      <4>1. cmd_table'[j] = n
        BY <3>1, <3>2
      <4> QED
        BY <3>1, <4>1, NameIs
    <3>3. CASE j # k
      <4>1. j \in 0 .. q - 1
        BY <1>3, <2>5, <3>3
      <4>2. cmd_table'[j] = cmd_table[j]
        BY <1>3, <1>4, <2>1, <4>1
      <4> QED
        BY <1>3, <3>1, <4>1, <4>2
    <3> QED
      BY <3>2, <3>3
  <2>6. CASE k > q
    <3>1. k - 1 \in 0 .. p - 1 /\ q \in 0 .. p - 1 /\ cmd_table'[k] = cmd_table[k - 1]
      BY <1>3, <1>4, <2>1, <2>6
    <3>2. n < cmd_table[q]
      BY <1>3, <2>2, <3>1, NameIs
    <3>3. cmd_table[q] =< cmd_table[k - 1]
      BY <1>3, <2>3, <2>6, <3>1
    <3>4. CASE j < q
      <4>1. j \in 0 .. p - 1 /\ j =< k - 1 /\ cmd_table'[j] = cmd_table[j]
        BY <1>3, <1>4, <2>1, <2>6, <3>4
      <4> QED
        BY <2>3, <3>1, <4>1
    <3>5. CASE j = q
      <4>1. cmd_table'[j] = n
        BY <1>4, <2>1, <3>5
      <4>2. PICK v \in Names : v = cmd_table[k - 1]
        BY <2>2, <3>1
      <4>3. PICK u \in Names : u = cmd_table[q]
        BY <2>2, <3>1
      <4>4. n =< v
        BY <3>2, <3>3, <4>2, <4>3 DEF Names
      <4> QED
        BY <3>1, <4>1, <4>2, <4>4
    <3>6. CASE j > q
      <4>1. j - 1 \in 0 .. p - 1 /\ j - 1 =< k - 1 /\ cmd_table'[j] = cmd_table[j - 1]
        BY <1>3, <1>4, <2>1, <3>6
      <4> QED
        BY <2>3, <3>1, <4>1
    <3> QED
      BY <1>3, <3>4, <3>5, <3>6
  <2> QED
    BY <1>3, <2>4, <2>5, <2>6
<1>11. TableTo(r)'
  <2>1. \A j, k \in 0 .. r - 1 : j =< k => cmd_table'[j] =< cmd_table'[k]
    BY <1>2, <1>7, <1>10
  <2> QED
    BY <1>8, <1>9, <2>1 DEF TableTo
<1> QED
  BY <1>6, <1>11 DEF Table

-----------------------------------------------------------------------------
(* Types *)

\* do_prompt leaves an empty line, and a zero for console_eval's index.
LEMMA PromptIs ==
    ASSUME Types, DoPrompt
    PROVE  /\ buf' \in [0 .. LineLen -> Chars] /\ bufp' \in 0 .. LineLen
           /\ buf'[LineLen] \in {NUL, Junk}
           /\ ei' = 0 /\ typed' \in Seq(Letters) /\ Len(typed') = 0 /\ edited' = FALSE
           /\ \A k \in 0 .. LineLen : buf'[k] = NUL
           /\ bufp' = 0
<1>1. buf' = Blank
  BY DEF DoPrompt
<1>2. \A k \in 0 .. LineLen : buf'[k] = NUL
  BY <1>1 DEF Blank
<1>3. buf' \in [0 .. LineLen -> Chars]
  BY <1>1 DEF Blank, Chars
<1>4. typed' = <<>>
  BY DEF DoPrompt
<1>5. typed' \in Seq(Letters) /\ Len(typed') = 0
  BY <1>4, EmptySeq
<1> QED
  BY <1>2, <1>3, <1>5 DEF DoPrompt

\* What a call of console_run starts with
LEMMA StartIs ==
    ASSUME Types, Start
    PROVE  /\ buf' \in [0 .. LineLen -> Chars] /\ bufp' \in 0 .. LineLen
           /\ buf'[LineLen] \in {NUL, Junk} /\ argc' \in {0, 1}
           /\ ei' \in 0 .. Beyond /\ typed' \in Seq(Letters)
           /\ edited' \in BOOLEAN
<1>1. CASE run = "boot" /\ argc = 0
  <2>1. DoPrompt /\ argc' = argc
    BY <1>1 DEF Start
  <2>2. Len(etext) \in Nat
    BY LenProperties DEF Types
  <2> QED
    BY <1>1, <2>1, <2>2, PromptIs DEF Beyond
<1>2. CASE run = "boot" /\ argc # 0
  BY <1>2 DEF Start, Types, TypeOK
<1>3. CASE run # "boot"
  BY <1>3 DEF Start, Types, TypeOK, line
<1> QED
  BY <1>1, <1>2, <1>3

\* The parts of Types, one for each thing that has operations of its own
RingTypes == ring \in Seq(Keys) /\ Len(ring) =< RingLen - 1
LineTypes ==
    /\ bufp \in 0 .. LineLen /\ buf[LineLen] \in {NUL, Junk} /\ argc \in {0, 1}
    /\ buf \in [0 .. LineLen -> Chars]
    /\ typed \in Seq(Letters) /\ edited \in BOOLEAN
EvalTypes ==
    /\ epc \in {"idle", "put", "yielded"} /\ ei \in 0 .. Beyond
    /\ etext \in Seq(Keys) /\ injected \in Seq(Keys) /\ quiet \in BOOLEAN
ControlTypes ==
    /\ run \in {"boot", "idle", "running"} /\ runnable \in BOOLEAN
    /\ tainted \in BOOLEAN /\ driver \in {"fibre", "process"}
    /\ child \in [cmd : Entries, pc : {"none", "top", "middle"}]

\* Together they are Types.
LEMMA TypesAre ==
    Types <=> /\ RingTypes /\ LineTypes /\ EvalTypes /\ ControlTypes
              /\ cmd_table \in [Slots -> Entries]
  BY DEF Types, TypeOK, RingTypes, LineTypes, EvalTypes, ControlTypes

\* What a command's use of the scratch space may do
LEMMA ScratchIs ==
    ASSUME Types, UseScratch
    PROVE  /\ buf' \in [0 .. LineLen -> Chars] /\ buf'[LineLen] \in {NUL, Junk}
           /\ ei' \in 0 .. Beyond
           /\ UNCHANGED <<argc, bufp, typed, edited, epc, etext, quiet, injected>>
<1>1. buf \in [0 .. LineLen -> Chars] /\ buf[LineLen] \in {NUL, Junk} /\ ei \in 0 .. Beyond
  BY DEF Types, TypeOK
<1> DEFINE spoilt == [k \in 0 .. LineLen |-> Junk]
<1>2. spoilt \in [0 .. LineLen -> Chars] /\ spoilt[LineLen] = Junk
  BY DEF Chars
<1>3. buf' \in {buf, spoilt} /\ (ei' = ei \/ ei' \in 0 .. Beyond)
  BY DEF UseScratch
<1> HIDE DEF spoilt
<1> QED
  BY <1>1, <1>2, <1>3 DEF UseScratch

\* What console_eval puts is a key, of the string as long as the index is in it.
LEMMA ReadIs ==
    ASSUME Types, NEW k \in Reads \ {NUL}
    PROVE  /\ k \in Keys /\ ei # Len(etext)
           /\ ei < Len(etext) => k = etext[ei + 1]
<1>1. etext \in Seq(Keys) /\ ei \in 0 .. Len(etext) + 1 /\ Len(etext) \in Nat
  BY LenProperties DEF Types, TypeOK, Beyond
<1>2. CASE ei = Beyond
  BY <1>1, <1>2 DEF Reads, Beyond
<1>3. CASE ei = Len(etext)
  BY <1>1, <1>3 DEF Reads, Beyond
<1>4. CASE ei < Len(etext)
  <2>1. k = etext[ei + 1]
    BY <1>1, <1>4 DEF Reads, Beyond
  <2>2. ei + 1 \in 1 .. Len(etext)
    BY <1>1, <1>4
  <2>3. etext[ei + 1] \in Keys
    BY <1>1, <2>2, ElementOfSeq
  <2> QED
    BY <1>1, <1>4, <2>1, <2>3
<1> QED
  BY <1>1, <1>2, <1>3, <1>4 DEF Beyond

\* Every step keeps the types of the ring.
LEMMA RingStep == Types /\ [Next]_vars => RingTypes'
<1> SUFFICES ASSUME Types, [Next]_vars PROVE RingTypes'
  OBVIOUS
<1>0. ring \in Seq(Keys) /\ Len(ring) =< RingLen - 1
  BY DEF Types, TypeOK
<1>1. CASE UNCHANGED ring
  BY <1>0, <1>1 DEF RingTypes
<1>2. ASSUME NEW k \in Keys, Put(k) PROVE RingTypes'
  BY <1>0, <1>2, PutIs DEF RingTypes
<1>3. CASE ring # <<>> /\ ring' = Tail(ring)
  BY <1>0, <1>3, TakeIs DEF RingTypes
<1>4. CASE EvalPut
  <2>1. PICK k \in Reads \ {NUL} : Put(k)
    BY <1>4 DEF EvalPut
  <2> QED
    BY <1>2, <2>1, ReadIs
<1>5. ASSUME NEW k \in Keys, PutChar(k) \/ Process(k) PROVE RingTypes'
  BY <1>2, <1>5 DEF PutChar, Process
<1>6. CASE KeyExecute \/ KeyBackspace \/ KeyCancel \/ KeyStore \/ CommandGetch
  BY <1>3, <1>6 DEF KeyExecute, KeyBackspace, KeyCancel, KeyStore, Key, CommandGetch
<1>7. CASE Dispatch \/ WaitKey \/ CommandYield \/ CommandWait \/ CommandEnd \/ Timer
  BY <1>1, <1>7 DEF Dispatch, WaitKey, CommandYield, CommandWait, CommandEnd, Timer
<1>8. CASE EvalYield \/ EvalResume \/ EvalEnd
  BY <1>1, <1>8 DEF EvalYield, EvalResume, EvalEnd
<1>9. CASE UNCHANGED vars
  BY <1>1, <1>9 DEF vars
<1>10. ASSUME NEW n \in DOMAIN Rank, Register(Rank[n]) PROVE RingTypes'
  BY <1>1, <1>10 DEF Register
<1>11. ASSUME NEW t \in Texts, EvalBegin(t) PROVE RingTypes'
  BY <1>1, <1>11 DEF EvalBegin
<1> QED
  BY <1>4, <1>5, <1>6, <1>7, <1>8, <1>9, <1>10, <1>11 DEF Next, ConsoleStep

\* Every step keeps the types of the line.
LEMMA LineTypesStep == Types /\ [Next]_vars => LineTypes'
<1> SUFFICES ASSUME Types, [Next]_vars PROVE LineTypes'
  OBVIOUS
<1>0. LineTypes
  BY TypesAre
<1>1. CASE UNCHANGED line
  BY <1>0, <1>1 DEF LineTypes, line
<1>2. CASE Start
  BY <1>2, StartIs DEF LineTypes
<1>3. CASE DoPrompt /\ UNCHANGED argc
  BY <1>0, <1>3, PromptIs DEF LineTypes
<1>4. CASE KeyExecute
  BY <1>0, <1>4 DEF KeyExecute, LineTypes
<1>5. CASE KeyBackspace
  <2>1. bufp' \in 0 .. LineLen
    BY <1>0, <1>5 DEF KeyBackspace, LineTypes
  <2>2. typed' \in Seq(Letters)
    BY <1>5, EmptySeq DEF KeyBackspace
  <2> QED
    BY <1>0, <1>5, <2>1, <2>2 DEF KeyBackspace, LineTypes
<1>6. CASE KeyStore
  <2>1. bufp \in 0 .. LineLen - 1 /\ Head(ring) \in Letters
    BY <1>0, <1>6 DEF KeyStore, LineTypes
  <2>2. /\ buf' = [buf EXCEPT ![bufp] = Head(ring)] /\ bufp' = bufp + 1
        /\ edited' = edited /\ argc' = argc
    BY <1>6 DEF KeyStore
  <2>3. buf' \in [0 .. LineLen -> Chars]
    BY <1>0, <2>1, <2>2 DEF LineTypes, Chars
  <2>4. buf'[LineLen] = buf[LineLen]
    BY <1>0, <2>1, <2>2 DEF LineTypes
  <2>5. typed' \in Seq(Letters)
    <3>1. Append(typed, Head(ring)) \in Seq(Letters)
      BY <1>0, <2>1, AppendProperties DEF LineTypes
    <3> QED
      BY <1>6, <3>1, EmptySeq DEF KeyStore
  <2> QED
    BY <1>0, <2>1, <2>2, <2>3, <2>4, <2>5 DEF LineTypes
<1>7. CASE CommandGetch \/ CommandYield \/ CommandWait
  <2>1. UseScratch
    BY <1>7 DEF CommandGetch, CommandYield, CommandWait
  <2> QED
    BY <1>0, <2>1, ScratchIs DEF LineTypes
<1>8. CASE Dispatch
  BY <1>2, <1>8 DEF Dispatch
<1>9. ASSUME NEW k \in Keys, PutChar(k) \/ Process(k) PROVE LineTypes'
  BY <1>1, <1>2, <1>9 DEF PutChar, Process
<1>10. CASE KeyCancel \/ CommandEnd
  BY <1>3, <1>10 DEF KeyCancel, CommandEnd
<1>11. CASE WaitKey \/ Timer
  BY <1>1, <1>11 DEF WaitKey, Timer
<1>12. CASE EvalPut \/ EvalYield \/ EvalResume \/ EvalEnd
  BY <1>1, <1>12 DEF EvalPut, EvalYield, EvalResume, EvalEnd
<1>13. CASE UNCHANGED vars
  BY <1>1, <1>13 DEF vars
<1>14. ASSUME NEW n \in DOMAIN Rank, Register(Rank[n]) PROVE LineTypes'
  BY <1>1, <1>14 DEF Register
<1>15. ASSUME NEW t \in Texts, EvalBegin(t) PROVE LineTypes'
  BY <1>1, <1>15 DEF EvalBegin
<1> QED
  BY <1>4, <1>5, <1>6, <1>7, <1>8, <1>9, <1>10, <1>11, <1>12, <1>13, <1>14, <1>15
     DEF Next, ConsoleStep

\* What console_eval keeps has its types, whatever a command or a prompt writes
\* over its index.
LEMMA EvalStep == Types /\ [Next]_vars => EvalTypes'
<1> SUFFICES ASSUME Types, [Next]_vars PROVE EvalTypes'
  OBVIOUS
<1>0. EvalTypes /\ Len(etext) \in Nat
  BY TypesAre, LenProperties DEF EvalTypes
<1>1. CASE UNCHANGED evals
  BY <1>0, <1>1 DEF EvalTypes, evals, Beyond
<1>2. CASE UNCHANGED <<epc, etext, quiet, injected>> /\ ei' \in 0 .. Beyond
  BY <1>0, <1>2 DEF EvalTypes, Beyond
<1>3. CASE UNCHANGED <<epc, etext, quiet, injected>> /\ DoPrompt
  BY <1>0, <1>2, <1>3, PromptIs DEF Beyond
<1>4. CASE Start
  <2>1. ei' \in 0 .. Beyond
    BY <1>4, StartIs
  <2> QED
    BY <1>2, <1>4, <2>1 DEF Start
<1>5. CASE Dispatch
  BY <1>4, <1>5 DEF Dispatch
<1>6. ASSUME NEW k \in Keys, Process(k) PROVE EvalTypes'
  BY <1>4, <1>6 DEF Process
<1>7. ASSUME NEW k \in Keys, PutChar(k) PROVE EvalTypes'
  <2>1. injected' \in Seq(Keys) /\ quiet' \in BOOLEAN
    BY <1>7, EmptySeq DEF PutChar
  <2> QED
    BY <1>0, <1>7, <2>1 DEF PutChar, EvalTypes, Beyond
<1>8. CASE KeyExecute \/ KeyBackspace \/ KeyStore
  <2>1. UNCHANGED evals
    BY <1>8 DEF KeyExecute, KeyBackspace, KeyStore, Key, evals
  <2> QED
    BY <1>1, <2>1
<1>9. CASE KeyCancel \/ CommandEnd
  BY <1>3, <1>9 DEF KeyCancel, Key, CommandEnd
<1>10. CASE CommandGetch \/ CommandYield \/ CommandWait
  <2>1. UseScratch
    BY <1>10 DEF CommandGetch, CommandYield, CommandWait
  <2> QED
    BY <1>2, <2>1, ScratchIs
<1>11. CASE WaitKey \/ Timer
  BY <1>1, <1>11 DEF WaitKey, Timer
<1>12. CASE UNCHANGED vars
  BY <1>1, <1>12 DEF vars
<1>13. ASSUME NEW n \in DOMAIN Rank, Register(Rank[n]) PROVE EvalTypes'
  BY <1>1, <1>13 DEF Register
<1>14. ASSUME NEW t \in Texts, EvalBegin(t) PROVE EvalTypes'
  <2>1. t \in Seq(Keys)
    BY ConsoleAssumption
  <2>2. Len(t) \in Nat
    BY <2>1, LenProperties
  <2>3. epc' = "put" /\ etext' = t /\ ei' = 0 /\ quiet' = FreshPrompt /\ injected' = <<>>
    BY <1>14 DEF EvalBegin
  <2>4. injected' \in Seq(Keys) /\ quiet' \in BOOLEAN
    BY <2>3, EmptySeq DEF FreshPrompt
  <2>5. ei' \in 0 .. Beyond'
    BY <2>2, <2>3 DEF Beyond
  <2> QED
    BY <2>1, <2>3, <2>4, <2>5 DEF EvalTypes
<1>15. CASE EvalPut
  <2>1. PICK k \in Reads \ {NUL} : Record(k)
    BY <1>15 DEF EvalPut
  <2>2. injected' \in Seq(Keys)
    <3>1. k \in Keys
      BY ReadIs
    <3>2. Append(injected, k) \in Seq(Keys)
      BY <1>0, <3>1, AppendProperties DEF EvalTypes
    <3> QED
      BY <1>0, <2>1, <3>2 DEF Record, EvalTypes
  <2>3. ei # Len(etext) /\ Advance /\ UNCHANGED <<epc, etext, quiet>>
    BY <1>15, ReadIs DEF EvalPut
  <2>4. ei' \in 0 .. Beyond
    BY <1>0, <2>3 DEF Advance, Beyond, EvalTypes
  <2> QED
    BY <1>0, <2>2, <2>3, <2>4 DEF EvalTypes, Beyond
<1>16. CASE EvalYield \/ EvalResume \/ EvalEnd
  BY <1>0, <1>16 DEF EvalYield, EvalResume, EvalEnd, EvalTypes, Beyond
<1> QED
  BY <1>5, <1>6, <1>7, <1>8, <1>9, <1>10, <1>11, <1>12, <1>13, <1>14, <1>15, <1>16
     DEF Next, ConsoleStep

\* The command table stays a table whatever is registered, and nothing else
\* writes to it.
LEMMA TableStep ==
    Types /\ Table /\ [Next]_vars => Table' /\ cmd_table' \in [Slots -> Entries]
<1> SUFFICES ASSUME Types, Table, [Next]_vars
             PROVE  Table' /\ cmd_table' \in [Slots -> Entries]
  OBVIOUS
<1>1. CASE UNCHANGED cmd_table
  BY <1>1 DEF Types, Table, TableTo
<1>2. ASSUME NEW n \in DOMAIN Rank, Register(Rank[n])
      PROVE  Table' /\ cmd_table' \in [Slots -> Entries]
  <2>1. Rank[n] \in Names
    BY RanksAre
  <2> QED
    BY <1>2, <2>1, RegisterKeepsTable
<1>3. ASSUME NEW k \in Keys, PutChar(k) \/ Process(k) PROVE UNCHANGED cmd_table
  BY <1>3 DEF PutChar, Process, Start
<1>4. CASE Timer \/ Dispatch \/ WaitKey
  BY <1>1, <1>4 DEF Timer, Dispatch, Start, WaitKey
<1>5. CASE KeyExecute \/ KeyBackspace \/ KeyCancel \/ KeyStore
  BY <1>1, <1>5 DEF KeyExecute, KeyBackspace, KeyCancel, KeyStore, Key
<1>6. CASE CommandGetch \/ CommandYield \/ CommandWait \/ CommandEnd
  BY <1>1, <1>6 DEF CommandGetch, CommandYield, CommandWait, CommandEnd
<1>7. CASE EvalPut \/ EvalYield \/ EvalResume \/ EvalEnd
  BY <1>1, <1>7 DEF EvalPut, EvalYield, EvalResume, EvalEnd
<1>8. ASSUME NEW t \in Texts, EvalBegin(t) PROVE UNCHANGED cmd_table
  BY <1>8 DEF EvalBegin
<1>9. CASE UNCHANGED vars
  BY <1>1, <1>9 DEF vars
<1> QED
  BY <1>1, <1>2, <1>3, <1>4, <1>5, <1>6, <1>7, <1>8, <1>9 DEF Next, ConsoleStep

\* What a step does to the fibre, the command and the taint has its types; and
\* a key that is in the ring when the main context lets go is looked at.
LEMMA ControlStep ==
    Types /\ Table /\ NoStuckInput /\ [Next]_vars => ControlTypes' /\ NoStuckInput'
<1> SUFFICES ASSUME Types, Table, NoStuckInput, [Next]_vars
             PROVE  ControlTypes' /\ NoStuckInput'
  OBVIOUS
<1>0. ControlTypes
  BY TypesAre
<1>1. CASE UNCHANGED <<ring, run, runnable, tainted, driver, child, epc>>
  BY <1>0, <1>1 DEF ControlTypes, NoStuckInput, MainFree
<1>2. ASSUME NEW k \in Keys, PutChar(k) PROVE ControlTypes' /\ NoStuckInput'
  BY <1>0, <1>2 DEF PutChar, ControlTypes, NoStuckInput
<1>3. ASSUME NEW k \in Keys, Process(k) PROVE ControlTypes' /\ NoStuckInput'
  BY <1>0, <1>3 DEF Process, Start, ControlTypes, NoStuckInput, MainFree
<1>4. CASE Timer
  BY <1>0, <1>4 DEF Timer, ControlTypes, NoStuckInput
<1>5. CASE Dispatch
  BY <1>0, <1>5 DEF Dispatch, Start, ControlTypes, NoStuckInput, MainFree
<1>6. CASE WaitKey
  BY <1>0, <1>6 DEF WaitKey, ControlTypes, NoStuckInput
<1>7. CASE KeyExecute
  <2>1. PICK p \in Slots : TableTo(p)
    BY DEF Table
  <2>2. PICK k \in 0 .. p : FindCommand(NameOf(Text(buf))) = cmd_table[k]
    BY <2>1, FindIs
  <2>3. cmd_table[k] \in Entries
    BY DEF Types, Slots
  <2>4. child' = [cmd |-> cmd_table[k], pc |-> "top"]
    BY <1>7, <2>2 DEF KeyExecute
  <2>5. child' \in [cmd : Entries, pc : {"none", "top", "middle"}]
    BY <2>3, <2>4
  <2>6. run = "running" /\ UNCHANGED <<run, runnable, tainted, driver>>
    BY <1>7 DEF KeyExecute, Key
  <2> QED
    BY <1>0, <2>5, <2>6 DEF ControlTypes, NoStuckInput, MainFree
<1>8. CASE KeyBackspace \/ KeyCancel \/ KeyStore
  BY <1>0, <1>8 DEF KeyBackspace, KeyCancel, KeyStore, Key, ControlTypes,
                    NoStuckInput, MainFree
<1>9. CASE CommandGetch
  BY <1>0, <1>9 DEF CommandGetch, InCommand, ControlTypes, NoStuckInput, MainFree
<1>10. CASE CommandYield \/ CommandWait
  <2>1. child' = [child EXCEPT !.pc = "middle"]
    BY <1>10 DEF CommandYield, CommandWait
  <2>2. child' \in [cmd : Entries, pc : {"none", "top", "middle"}]
    BY <1>0, <2>1 DEF ControlTypes
  <2>3. child'.pc = "middle"
    BY <1>0, <2>1 DEF ControlTypes
  <2>4. child' # None
    BY <2>3 DEF None
  <2>5. /\ run' \in {"idle", run} /\ runnable' \in {TRUE, runnable}
        /\ UNCHANGED <<tainted, driver>>
    BY <1>10 DEF CommandYield, CommandWait
  <2> QED
    BY <1>0, <2>2, <2>4, <2>5 DEF ControlTypes, NoStuckInput
<1>11. CASE CommandEnd
  <2>1. None \in [cmd : Entries, pc : {"none", "top", "middle"}]
    BY DEF None, Entries
  <2> QED
    BY <1>0, <1>11, <2>1 DEF CommandEnd, InCommand, ControlTypes, NoStuckInput, MainFree
<1>12. ASSUME NEW t \in Texts, EvalBegin(t) PROVE ControlTypes' /\ NoStuckInput'
  BY <1>0, <1>12 DEF EvalBegin, ControlTypes, NoStuckInput, MainFree
<1>13. CASE EvalPut \/ EvalResume
  BY <1>0, <1>13 DEF EvalPut, EvalResume, ControlTypes, NoStuckInput, MainFree
<1>14. CASE EvalYield \/ EvalEnd
  BY <1>0, <1>14 DEF EvalYield, EvalEnd, ControlTypes, NoStuckInput
<1>15. ASSUME NEW n \in DOMAIN Rank, Register(Rank[n])
       PROVE  ControlTypes' /\ NoStuckInput'
  BY <1>1, <1>15 DEF Register, evals
<1>16. CASE UNCHANGED vars
  BY <1>1, <1>16 DEF vars, evals
<1> QED
  BY <1>2, <1>3, <1>4, <1>5, <1>6, <1>7, <1>8, <1>9, <1>10, <1>11, <1>12, <1>13,
     <1>14, <1>15, <1>16 DEF Next, ConsoleStep

\* Every step that stores, cancels, executes or ends keeps the line what was
\* typed; a command may spoil the scratch space, for only a prompt ends it.
LEMMA LineStep == Types /\ LineHeld /\ [Next]_vars => LineHeld'
<1> SUFFICES ASSUME Types, LineHeld, [Next]_vars PROVE LineHeld'
  OBVIOUS
<1>1. CASE /\ UNCHANGED <<child, buf, bufp, typed, edited>>
           /\ run' = run \/ run' # "boot"
  BY <1>1 DEF LineHeld
<1>2. CASE DoPrompt
  BY <1>2, PromptIs DEF LineHeld
<1>3. CASE Start
  <2>1. child' = child /\ run' = "running"
    BY <1>3 DEF Start
  <2>2. CASE run = "boot" /\ argc # 0
    <3>1. bufp' = 0 /\ UNCHANGED <<buf, typed, edited>>
      BY <1>3, <2>2 DEF Start
    <3>2. bufp' = bufp
      BY <2>2, <3>1 DEF LineHeld
    <3> QED
      BY <1>1, <2>1, <3>1, <3>2
  <2> QED
    BY <1>1, <1>2, <1>3, <2>1, <2>2 DEF Start, line
<1>4. CASE KeyExecute
  <2>1. child'.pc = "top" /\ run' = "running"
    BY <1>4 DEF KeyExecute, Key
  <2>2. child' # None
    BY <2>1 DEF None
  <2> QED
    BY <2>1, <2>2 DEF LineHeld
<1>5. CASE KeyBackspace
  BY <1>5 DEF KeyBackspace, Key, LineHeld
<1>6. CASE KeyStore
  <2>1. /\ run' = "running" /\ child = None /\ child' = child /\ edited' = edited
        /\ Head(ring) \in Letters /\ bufp < LineLen /\ bufp' = bufp + 1
        /\ buf' = [buf EXCEPT ![bufp] = Head(ring)]
        /\ typed' = IF edited THEN <<>> ELSE Append(typed, Head(ring))
    BY <1>6 DEF KeyStore, Key
  <2>2. CASE edited
    BY <2>1, <2>2 DEF LineHeld
  <2>3. CASE ~ edited
    <3>1. /\ Len(typed) = bufp /\ typed \in Seq(Letters) /\ bufp \in 0 .. LineLen - 1
          /\ buf \in [0 .. LineLen -> Chars]
      BY <2>1, <2>3 DEF LineHeld, Types, TypeOK
    <3>2. /\ Len(typed') = bufp + 1
          /\ \A k \in 1 .. bufp : typed'[k] = typed[k]
          /\ typed'[bufp + 1] = Head(ring)
      BY <2>1, <2>3, <3>1, AppendProperties
    <3>3. ASSUME NEW k \in 0 .. LineLen
          PROVE  buf'[k] = IF k < bufp' THEN typed'[k + 1] ELSE NUL
      <4>1. buf[k] = IF k < bufp THEN typed[k + 1] ELSE NUL
        BY <2>1, <2>3 DEF LineHeld
      <4>2. CASE k = bufp
        <5>1. buf'[k] = Head(ring)
          BY <2>1, <3>1, <4>2
        <5>2. k < bufp' /\ typed'[k + 1] = Head(ring)
          BY <2>1, <3>1, <3>2, <4>2
        <5> QED
          BY <5>1, <5>2
      <4>3. CASE k # bufp
        <5>1. buf'[k] = buf[k]
          BY <2>1, <3>1, <4>3
        <5>2. k < bufp' <=> k < bufp
          BY <2>1, <3>1, <4>3
        <5>3. k < bufp => typed'[k + 1] = typed[k + 1]
          <6> SUFFICES ASSUME k < bufp PROVE k + 1 \in 1 .. bufp
            BY <3>2
          <6> QED
            BY <3>1
        <5> QED
          BY <4>1, <5>1, <5>2, <5>3
      <4> QED
        BY <4>2, <4>3
    <3> QED
      BY <2>1, <3>2, <3>3 DEF LineHeld
  <2> QED
    BY <2>2, <2>3
<1>7. CASE KeyCancel
  BY <1>2, <1>7 DEF KeyCancel
<1>8. CASE CommandEnd
  BY <1>2, <1>8 DEF CommandEnd
<1>9. CASE CommandGetch
  BY <1>9 DEF CommandGetch, InCommand, LineHeld
<1>10. CASE CommandYield \/ CommandWait
  <2>1. child' = [child EXCEPT !.pc = "middle"] /\ run' \in {run, "idle"} /\ run # "boot"
    BY <1>10 DEF CommandYield, CommandWait, InCommand
  <2>2. child'.pc = "middle"
    BY <2>1 DEF Types
  <2>3. child' # None
    BY <2>2 DEF None
  <2> QED
    BY <2>1, <2>3 DEF LineHeld
<1>11. CASE Dispatch
  BY <1>3, <1>11 DEF Dispatch
<1>12. ASSUME NEW k \in Keys, PutChar(k) \/ Process(k) PROVE LineHeld'
  BY <1>1, <1>3, <1>12 DEF PutChar, Process, line
<1>13. CASE WaitKey \/ Timer
  BY <1>1, <1>13 DEF WaitKey, Timer, line
<1>14. CASE EvalPut \/ EvalYield \/ EvalResume \/ EvalEnd
  BY <1>1, <1>14 DEF EvalPut, EvalYield, EvalResume, EvalEnd, line
<1>15. CASE UNCHANGED vars
  BY <1>1, <1>15 DEF vars, line
<1>16. ASSUME NEW n \in DOMAIN Rank, Register(Rank[n]) PROVE LineHeld'
  BY <1>1, <1>16 DEF Register, line
<1>17. ASSUME NEW t \in Texts, EvalBegin(t) PROVE LineHeld'
  BY <1>1, <1>17 DEF EvalBegin, line
<1> QED
  BY <1>4, <1>5, <1>6, <1>7, <1>8, <1>9, <1>10, <1>11, <1>12, <1>13, <1>14, <1>15,
     <1>16, <1>17 DEF Next, ConsoleStep

-----------------------------------------------------------------------------
(* A line that console_eval injects *)

\* The text before the first zero is the keys since the prompt.
LEMMA TextIs ==
    ASSUME Types, LineHeld, child = None, ~ edited
    PROVE  Text(buf) = typed
<1>1. /\ bufp \in 0 .. LineLen /\ Len(typed) = bufp /\ typed \in Seq(Letters)
      /\ \A k \in 0 .. LineLen : buf[k] = IF k < bufp THEN typed[k + 1] ELSE NUL
  BY DEF Types, TypeOK, LineHeld
<1>2. \A k \in 1 .. bufp : typed[k] # NUL
  <2> TAKE k \in 1 .. bufp
  <2>1. typed[k] \in Letters
    BY <1>1, ElementOfSeq
  <2> QED
    BY <2>1, ConsoleAssumption
<1>3. \A k \in 0 .. bufp - 1 : buf[k] = typed[k + 1] /\ buf[k] # NUL
  <2> TAKE k \in 0 .. bufp - 1
  <2>1. k \in 0 .. LineLen /\ k + 1 \in 1 .. bufp /\ k < bufp
    BY <1>1
  <2> QED
    BY <1>1, <1>2, <2>1
<1>4. buf[bufp] = NUL
  BY <1>1
<1> DEFINE Good(k) == buf[k] = NUL /\ \A j \in 0 .. k - 1 : buf[j] # NUL
<1>5. Good(bufp)
  BY <1>3, <1>4
<1>6. ASSUME NEW k \in 0 .. LineLen, Good(k) PROVE k = bufp
  <2>1. ~ k < bufp
    BY <1>1, <1>3, <1>6
  <2>2. ~ bufp < k
    <3> SUFFICES ASSUME bufp < k PROVE FALSE
      OBVIOUS
    <3>1. bufp \in 0 .. k - 1
      BY <1>1
    <3> QED
      BY <1>4, <1>6, <3>1
  <2> QED
    BY <1>1, <2>1, <2>2
<1>7. bufp = CHOOSE k \in 0 .. LineLen : Good(k)
  BY <1>1, <1>5, <1>6
<1>8. TextLen(buf) = bufp
  BY <1>1, <1>4, <1>7 DEF TextLen
<1>9. Text(buf) = [k \in 1 .. bufp |-> typed[k]]
  <2>1. Text(buf) = [k \in 1 .. bufp |-> buf[k - 1]]
    BY <1>8 DEF Text
  <2>2. \A k \in 1 .. bufp : buf[k - 1] = typed[k]
    <3> TAKE k \in 1 .. bufp
    <3>1. k - 1 \in 0 .. bufp - 1 /\ k - 1 + 1 = k
      BY <1>1
    <3> QED
      BY <1>3, <3>1
  <2> QED
    BY <2>1, <2>2
<1>10. typed = [k \in 1 .. bufp |-> typed[k]]
  BY <1>1, LenProperties
<1> QED
  BY <1>9, <1>10

\* console_run starts only where console_eval is not, and the other way round.
LEMMA ContextStep == OneContext /\ [Next]_vars => OneContext'
<1> SUFFICES ASSUME OneContext, [Next]_vars PROVE OneContext'
  OBVIOUS
<1>1. CASE UNCHANGED epc /\ run' \in {run, "idle"}
  BY <1>1 DEF OneContext
<1>2. CASE UNCHANGED epc /\ epc # "put"
  BY <1>2 DEF OneContext
<1>3. CASE Dispatch
  BY <1>2, <1>3 DEF Dispatch, MainFree, Start
<1>4. ASSUME NEW k \in Keys, PutChar(k) \/ Process(k) PROVE OneContext'
  BY <1>1, <1>2, <1>4 DEF PutChar, Process, MainFree, Start
<1>5. CASE Timer \/ WaitKey
  BY <1>1, <1>5 DEF Timer, WaitKey, evals
<1>6. CASE KeyExecute \/ KeyBackspace \/ KeyCancel \/ KeyStore
  BY <1>1, <1>6 DEF KeyExecute, KeyBackspace, KeyCancel, KeyStore, Key
<1>7. CASE CommandGetch \/ CommandYield \/ CommandWait \/ CommandEnd
  BY <1>1, <1>7 DEF CommandGetch, CommandYield, CommandWait, CommandEnd, UseScratch
<1>8. CASE EvalPut \/ EvalYield \/ EvalEnd
  BY <1>8 DEF EvalPut, EvalYield, EvalEnd, OneContext
<1>9. CASE EvalResume
  BY <1>9 DEF EvalResume, MainFree, OneContext
<1>10. ASSUME NEW t \in Texts, EvalBegin(t) PROVE OneContext'
  BY <1>10 DEF EvalBegin, MainFree, OneContext
<1>11. ASSUME NEW n \in DOMAIN Rank, Register(Rank[n]) PROVE OneContext'
  BY <1>1, <1>11 DEF Register, evals
<1>12. CASE UNCHANGED vars
  BY <1>1, <1>12 DEF vars, evals
<1> QED
  BY <1>3, <1>4, <1>5, <1>6, <1>7, <1>8, <1>9, <1>10, <1>11, <1>12 DEF Next, ConsoleStep

\* The next key that the console takes is the string's next one: a letter, or
\* the newline after all letters, which is in the ring when all has been put.
LEMMA NextKeyIs ==
    ASSUME Types, LineHeld, quiet, IsLine(etext), Giving, ring # <<>>
    PROVE  /\ Len(typed) = bufp /\ bufp + 1 \in 1 .. Len(etext)
           /\ Head(ring) = etext[bufp + 1]
           /\ \/ Head(ring) \in Letters /\ bufp < LineLen /\ bufp + 1 < Len(etext)
              \/ /\ Head(ring) = "NL" /\ Head(ring) \notin Letters
                 /\ ei = Len(etext) /\ Len(ring) = 1 /\ bufp + 1 = Len(etext)
<1>1. /\ typed \in Seq(Letters) /\ ring \in Seq(Keys) /\ Len(etext) \in Nat
      /\ bufp \in 0 .. LineLen /\ Len(typed) = bufp
  BY LenProperties DEF Types, TypeOK, LineHeld, Giving
<1>2. Len(ring) \in Nat /\ Len(ring) >= 1 /\ Head(ring) = ring[1]
  BY <1>1, LenProperties, EmptySeq
<1>3. ei = bufp + Len(ring) /\ ei =< Len(etext) /\ Head(ring) = etext[bufp + 1]
  BY <1>1, <1>2 DEF Giving, Held
<1>4. bufp + 1 \in 1 .. Len(etext) /\ Len(etext) \in 1 .. LineLen + 1
  BY <1>1, <1>2, <1>3 DEF IsLine
<1>5. CASE bufp + 1 = Len(etext)
  <2>1. Head(ring) = "NL"
    BY <1>3, <1>5 DEF IsLine
  <2>2. "NL" \notin Letters
    BY ConsoleAssumption
  <2>3. ei = Len(etext) /\ Len(ring) = 1
    <3> DEFINE n == Len(etext)
               m == Len(ring)
    <3>1. n \in Nat /\ m \in Nat /\ m >= 1 /\ ei = bufp + m /\ ei =< n /\ bufp + 1 = n
      BY <1>1, <1>2, <1>3, <1>5, Zenon
    <3>2. bufp \in Nat
      BY <1>1
    <3> HIDE DEF n, m
    <3>3. ei = n /\ m = 1
      BY <3>1, <3>2
    <3> QED
      BY <3>3 DEF n, m
  <2>4. Head(ring) \notin Letters
    BY <2>1, <2>2
  <2>5. /\ Len(typed) = bufp /\ bufp + 1 \in 1 .. Len(etext)
        /\ Head(ring) = etext[bufp + 1]
    BY <1>1, <1>3, <1>4
  <2> QED
    BY <1>5, <2>1, <2>3, <2>4, <2>5, Zenon
<1>6. CASE bufp + 1 # Len(etext)
  <2>1. bufp + 1 \in 1 .. Len(etext) - 1
    BY <1>1, <1>4, <1>6
  <2>2. etext[bufp + 1] \in Letters
    BY <2>1 DEF IsLine
  <2> QED
    BY <1>1, <1>3, <1>4, <2>1, <2>2
<1> QED
  BY <1>5, <1>6

\* Keys that are not the string's do not come.
LEMMA NoOtherKey ==
    ASSUME Types, LineHeld, quiet, IsLine(etext), Giving, Key
    PROVE  Head(ring) \notin {"BS", "ETX"}
<1>1. Head(ring) \in Letters \/ Head(ring) = "NL"
  BY NextKeyIs DEF Key
<1> QED
  BY <1>1, ConsoleAssumption

\* A letter goes from the ring to the line.
LEMMA StoreIsHeld ==
    ASSUME Types, LineHeld, quiet, IsLine(etext), Giving, KeyStore
    PROVE  Held'
<1>1. /\ ring # <<>> /\ ring' = Tail(ring) /\ UNCHANGED <<ei, etext, edited>>
      /\ ~ edited /\ typed' = Append(typed, Head(ring)) /\ Head(ring) \in Letters
  BY DEF KeyStore, Key, Giving
<1>2. typed \in Seq(Letters) /\ ring \in Seq(Keys) /\ Len(typed) = bufp
  BY DEF Types, TypeOK, LineHeld, Giving
<1>3. Head(ring) = etext[bufp + 1]
  BY <1>1, NextKeyIs
<1>4. /\ Len(typed') = Len(typed) + 1 /\ typed'[Len(typed) + 1] = Head(ring)
      /\ \A k \in 1 .. Len(typed) : typed'[k] = typed[k]
  BY <1>1, <1>2, AppendProperties
<1>5. /\ Len(ring') = Len(ring) - 1
      /\ \A k \in 1 .. Len(ring) - 1 : ring'[k] = ring[k + 1]
  BY <1>1, <1>2, HeadTailProperties
<1>6. Len(typed) \in Nat /\ Len(ring) \in Nat
  BY <1>2, LenProperties
<1>7. Held
  BY DEF Giving
<1>8. ei' = Len(typed') + Len(ring') /\ ei' =< Len(etext')
  BY <1>1, <1>4, <1>5, <1>6, <1>7 DEF Held
<1>9. \A k \in 1 .. Len(typed') : typed'[k] = etext'[k]
  <2> TAKE k \in 1 .. Len(typed')
  <2>1. CASE k = Len(typed) + 1
    BY <1>1, <1>2, <1>3, <1>4, <2>1
  <2>2. CASE k # Len(typed) + 1
    <3>1. k \in 1 .. Len(typed)
      BY <1>4, <1>6, <2>2
    <3> QED
      BY <1>1, <1>4, <1>7, <3>1 DEF Held
  <2> QED
    BY <2>1, <2>2
<1>10. \A k \in 1 .. Len(ring') : ring'[k] = etext'[Len(typed') + k]
  <2> TAKE k \in 1 .. Len(ring')
  <2>1. k \in 1 .. Len(ring) - 1 /\ k + 1 \in 1 .. Len(ring) /\ k \in Nat
    BY <1>5, <1>6
  <2>2. ring'[k] = etext[Len(typed) + (k + 1)]
    BY <1>5, <1>7, <2>1 DEF Held
  <2>3. Len(typed) + (k + 1) = Len(typed') + k
    BY <1>4, <1>6, <2>1
  <2> QED
    BY <1>1, <2>2, <2>3
<1> QED
  BY <1>8, <1>9, <1>10 DEF Held

\* console_eval puts the key at its index when there is room, and only then
\* moves on.
LEMMA PutIsHeld ==
    ASSUME Types, quiet, IsLine(etext), Giving, EvalPut
    PROVE  Held'
<1>1. PICK k \in Reads \ {NUL} : Put(k)
  BY DEF EvalPut
<1>2. Room /\ Advance /\ UNCHANGED <<etext, typed>>
  BY DEF EvalPut, line
<1>3. Held /\ ei \in Nat /\ Len(etext) \in Nat /\ ei =< Len(etext)
  BY LenProperties DEF Giving, Held, Types, TypeOK, Beyond
<1>4. k \in Keys /\ ei < Len(etext) /\ k = etext[ei + 1] /\ ei' = ei + 1
  BY <1>2, <1>3, ReadIs DEF Advance, Beyond
<1>5. typed \in Seq(Letters) /\ ring \in Seq(Keys)
  BY DEF Types
<1>6. Len(typed) \in Nat /\ Len(ring) \in Nat /\ ei = Len(typed) + Len(ring)
  BY <1>3, <1>5, LenProperties DEF Held
<1>7. ring' = Append(ring, k)
  BY <1>1, <1>2 DEF Put
<1>8. /\ Len(ring') = Len(ring) + 1 /\ ring'[Len(ring) + 1] = k
      /\ \A j \in 1 .. Len(ring) : ring'[j] = ring[j]
  BY <1>4, <1>5, <1>7, AppendProperties
<1>9. ei' = Len(typed') + Len(ring') /\ ei' =< Len(etext')
  BY <1>2, <1>3, <1>4, <1>6, <1>8
<1>10. \A j \in 1 .. Len(typed') : typed'[j] = etext'[j]
  BY <1>2, <1>3 DEF Held
<1>11. \A j \in 1 .. Len(ring') : ring'[j] = etext'[Len(typed') + j]
  <2> TAKE j \in 1 .. Len(ring')
  <2>1. CASE j = Len(ring) + 1
    <3>1. Len(typed) + j = ei + 1
      BY <1>6, <2>1
    <3> QED
      BY <1>2, <1>4, <1>8, <2>1, <3>1
  <2>2. CASE j # Len(ring) + 1
    <3>1. j \in 1 .. Len(ring)
      BY <1>6, <1>8, <2>2
    <3> QED
      BY <1>2, <1>3, <1>8, <3>1 DEF Held
  <2> QED
    BY <2>1, <2>2
<1> QED
  BY <1>9, <1>10, <1>11 DEF Held

\* An empty line and an empty ring hold nothing of the string.
LEMMA NothingHeld ==
    ASSUME etext' \in Seq(Keys), typed' = <<>>, ring' = <<>>, ei' = 0
    PROVE  Held'
<1>1. Len(typed') = 0 /\ Len(ring') = 0 /\ Len(etext') \in Nat
  BY EmptySeq, LenProperties
<1> QED
  BY <1>1 DEF Held

\* The newline runs the command that the string names, when all of the string
\* has been put and console_eval is done.
LEMMA ExecuteIsGiven ==
    ASSUME Types, LineHeld, Table, OneContext, quiet, IsLine(etext), Giving, KeyExecute
    PROVE  Given'
<1>1. /\ run = "running" /\ ring # <<>> /\ ring' = Tail(ring) /\ UNCHANGED <<epc, etext>>
      /\ Head(ring) = "NL" \/ bufp >= LineLen
      /\ child' = [cmd |-> FindCommand(NameOf(Text(buf))), pc |-> "top"]
  BY DEF KeyExecute, Key
<1>2. bufp \in 0 .. LineLen /\ ring \in Seq(Keys) /\ typed \in Seq(Letters)
      /\ etext \in Seq(Keys) /\ epc \in {"idle", "put", "yielded"}
  BY DEF Types, TypeOK
<1>3. Head(ring) = "NL" /\ ei = Len(etext) /\ Len(ring) = 1 /\ bufp + 1 = Len(etext)
      /\ Len(typed) = bufp
  <2>1. ~ (Head(ring) \in Letters /\ bufp < LineLen)
    <3>1. Head(ring) \in Letters => Head(ring) # "NL"
      BY ConsoleAssumption
    <3> QED
      BY <1>1, <1>2, <3>1
  <2> QED
    BY <1>1, <2>1, NextKeyIs
<1>4. epc = "idle"
  BY <1>1, <1>2, <1>3, LenProperties DEF OneContext, Giving
<1>5. ring' = <<>>
  <2>1. ring' \in Seq(Keys) /\ Len(ring') = 0
    BY <1>1, <1>2, <1>3, HeadTailProperties
  <2> QED
    BY <2>1, EmptySeq
<1> DEFINE name == SubSeq(etext, 1, Len(etext) - 1)
<1>6. typed = name
  <2>1. Len(etext) - 1 = bufp /\ bufp \in Nat /\ Len(etext) \in Nat
    BY <1>2, <1>3, LenProperties
  <2>2. \A k \in 1 .. bufp : etext[k] \in Letters
    BY <2>1 DEF IsLine
  <2>3. name = SubSeq(etext, 1, bufp)
    BY <2>1
  <2>4. /\ SubSeq(etext, 1, bufp) \in Seq(Letters)
        /\ Len(SubSeq(etext, 1, bufp)) = bufp
        /\ \A k \in 1 .. bufp : SubSeq(etext, 1, bufp)[k] = etext[k]
    BY <2>1, <2>2, SubSeqProperties
  <2>5. \A k \in 1 .. bufp : typed[k] = etext[k]
    BY <1>3 DEF Giving, Held
  <2> QED
    BY <1>2, <1>3, <2>3, <2>4, <2>5, SeqEqual
<1>7. Text(buf) = name
  BY <1>6, TextIs DEF Giving
<1> HIDE DEF name
<1>8. FindCommand(NameOf(name)) \in {NameOf(name), Unknown}
  BY FindIs DEF Table
<1>9. child'.cmd \in {NameOf(name), Unknown} /\ child'.pc = "top"
  BY <1>1, <1>7, <1>8
<1>10. child' # None
  BY <1>9 DEF None
<1> QED
  BY <1>1, <1>4, <1>5, <1>9, <1>10 DEF Given, name

\* A line stays given as it was begun: whatever the fibres do in turn, what the
\* console holds is the string so far, and its newline is the last.
LEMMA GivenStep ==
    Types /\ LineHeld /\ Table /\ OneContext /\ LineGiven /\ [Next]_vars => LineGiven'
<1> SUFFICES ASSUME Types, LineHeld, Table, OneContext, LineGiven, [Next]_vars,
                    quiet', IsLine(etext')
             PROVE  run' # "boot" /\ driver' = "fibre" /\ (Giving' \/ Given')
  BY DEF LineGiven
<1> DEFINE Goal == run' # "boot" /\ driver' = "fibre" /\ (Giving' \/ Given')
<1>a. ASSUME UNCHANGED <<etext, quiet>>
      PROVE  quiet /\ IsLine(etext) /\ run # "boot" /\ driver = "fibre" /\ (Giving \/ Given)
  BY <1>a DEF LineGiven, IsLine
<1>1. CASE /\ UNCHANGED <<ring, typed, edited, child, epc, etext, ei, quiet, driver>>
           /\ run' = run \/ run' # "boot"
  BY <1>1, <1>a DEF Giving, Given, Held
<1>2. CASE Dispatch
  <2>1. run # "boot"
    BY <1>2, <1>a DEF Dispatch, Start
  <2> QED
    BY <1>1, <1>2, <2>1 DEF Dispatch, Start, line
<1>3. ASSUME NEW k \in Keys, PutChar(k) \/ Process(k) PROVE Goal
  BY <1>3, <1>a DEF PutChar, Process, Start
<1>4. CASE Timer \/ WaitKey
  BY <1>1, <1>4 DEF Timer, WaitKey, line, evals
<1>5. CASE KeyExecute
  <2>1. /\ UNCHANGED <<etext, quiet, driver, run>> /\ child = None
    BY <1>5 DEF KeyExecute, Key
  <2>2. Giving
    BY <1>a, <2>1 DEF Given
  <2> QED
    BY <1>5, <1>a, <2>1, <2>2, ExecuteIsGiven
<1>6. CASE KeyBackspace \/ KeyCancel
  <2>1. Key /\ Head(ring) \in {"BS", "ETX"}
    BY <1>6 DEF KeyBackspace, KeyCancel
  <2>2. UNCHANGED <<etext, quiet>> /\ child = None
    BY <2>1 DEF Key
  <2>3. Giving
    BY <1>a, <2>2 DEF Given
  <2> QED
    BY <1>a, <2>1, <2>2, <2>3, NoOtherKey
<1>7. CASE KeyStore
  <2>1. UNCHANGED <<etext, quiet, driver, run, epc, ei, edited, child>> /\ child = None
    BY <1>7 DEF KeyStore, Key
  <2>2. Giving
    BY <1>a, <2>1 DEF Given
  <2>3. Held'
    BY <1>7, <1>a, <2>1, <2>2, StoreIsHeld
  <2> QED
    BY <1>a, <2>1, <2>2, <2>3 DEF Giving
<1>8. CASE CommandGetch
  <2>1. UNCHANGED <<etext, quiet>> /\ child # None /\ ring # <<>>
    BY <1>8 DEF CommandGetch, InCommand, UseScratch
  <2> QED
    BY <1>a, <2>1 DEF Giving, Given
<1>9. CASE CommandYield \/ CommandWait
  <2>1. /\ child # None /\ child' = [child EXCEPT !.pc = "middle"]
        /\ UseScratch /\ UNCHANGED <<ring, driver>> /\ run' \in {run, "idle"}
    BY <1>9 DEF CommandYield, CommandWait, InCommand
  <2>2. UNCHANGED <<etext, quiet, epc>>
    BY <2>1 DEF UseScratch
  <2>3. Given /\ run # "boot" /\ driver = "fibre"
    BY <1>a, <2>1, <2>2 DEF Giving
  <2>4. child'.cmd = child.cmd /\ child'.pc = "middle"
    BY <2>1 DEF Types
  <2>5. child' # None
    BY <2>4 DEF None
  <2> QED
    BY <2>1, <2>2, <2>3, <2>4, <2>5 DEF Given
<1>10. CASE CommandEnd
  <2>1. /\ child # None /\ child' = None /\ DoPrompt
        /\ UNCHANGED <<ring, driver, run, epc, etext, quiet>>
    BY <1>10 DEF CommandEnd, InCommand
  <2>2. Given /\ run # "boot" /\ driver = "fibre"
    BY <1>a, <2>1 DEF Giving
  <2>3. Held'
    BY <2>1, <2>2, NothingHeld DEF DoPrompt, Given, Types
  <2> QED
    BY <2>1, <2>2, <2>3 DEF Giving, Given, DoPrompt
<1>11. CASE EvalPut
  <2>1. /\ epc = "put" /\ UNCHANGED <<epc, etext, quiet, driver, run, child, edited>>
    BY <1>11 DEF EvalPut, line
  <2>2. Giving
    BY <1>a, <2>1 DEF Given
  <2>3. Held'
    BY <1>11, <1>a, <2>1, <2>2, PutIsHeld
  <2> QED
    BY <1>a, <2>1, <2>2, <2>3 DEF Giving
<1>12. CASE EvalYield \/ EvalResume \/ EvalEnd
  <2>1. /\ epc # "idle"
        /\ UNCHANGED <<ring, typed, edited, child, etext, ei, quiet, driver, run>>
    BY <1>12 DEF EvalYield, EvalResume, EvalEnd, line
  <2>2. Giving /\ run # "boot" /\ driver = "fibre"
    BY <1>a, <2>1 DEF Given
  <2>3. epc' = "yielded" => ei < Len(etext)
    <3> SUFFICES ASSUME epc' = "yielded" PROVE ei < Len(etext)
      OBVIOUS
    <3>1. EvalYield
      BY <1>12 DEF EvalResume, EvalEnd
    <3>2. ei # Len(etext)
      BY <3>1, LenProperties DEF EvalYield, Reads, Beyond, Types, TypeOK
    <3>3. ei \in Nat /\ Len(etext) \in Nat /\ ei =< Len(etext)
      BY <2>2, LenProperties DEF Giving, Held, Types, TypeOK, Beyond
    <3> QED
      BY <3>2, <3>3
  <2> QED
    BY <2>1, <2>2, <2>3 DEF Giving, Held
<1>13. ASSUME NEW t \in Texts, EvalBegin(t) PROVE Goal
  <2>1. /\ FreshPrompt /\ driver = "fibre" /\ epc' = "put" /\ ei' = 0 /\ etext' = t
        /\ UNCHANGED <<ring, driver, run, typed, edited, child>>
    BY <1>13 DEF EvalBegin, line
  <2>2. Held'
    BY <2>1, NothingHeld, ConsoleAssumption DEF FreshPrompt
  <2> QED
    BY <2>1, <2>2 DEF FreshPrompt, Giving
<1>14. ASSUME NEW n \in DOMAIN Rank, Register(Rank[n]) PROVE Goal
  BY <1>1, <1>14 DEF Register, line, evals
<1>15. CASE UNCHANGED vars
  BY <1>1, <1>15 DEF vars, line, evals
<1> QED
  BY <1>2, <1>3, <1>4, <1>5, <1>6, <1>7, <1>8, <1>9, <1>10, <1>11, <1>12, <1>13, <1>14,
     <1>15 DEF Next, ConsoleStep

\* What the line and the ring hold, one after the other, is the string so far.
LEMMA HeldIs ==
    ASSUME Types, Held
    PROVE  typed \o ring = SubSeq(etext, 1, ei)
<1>1. etext \in Seq(Keys) /\ ring \in Seq(Keys) /\ typed \in Seq(Keys)
  <2>1. Letters \subseteq Keys /\ typed \in Seq(Letters)
    BY DEF Types, Keys
  <2>2. \A k \in 1 .. Len(typed) : typed[k] \in Keys
    BY <2>1, ElementOfSeq
  <2> QED
    BY <2>1, <2>2, LenProperties DEF Types
<1>2. Len(typed) \in Nat /\ Len(ring) \in Nat /\ Len(etext) \in Nat
  BY <1>1, LenProperties
<1>3. ei \in Nat /\ ei = Len(typed) + Len(ring) /\ ei =< Len(etext)
  BY <1>2 DEF Held
<1>4. /\ typed \o ring \in Seq(Keys) /\ Len(typed \o ring) = ei
      /\ \A k \in 1 .. ei : (typed \o ring)[k] =
             IF k =< Len(typed) THEN typed[k] ELSE ring[k - Len(typed)]
  BY <1>1, <1>3, ConcatProperties
<1>5. /\ SubSeq(etext, 1, ei) \in Seq(Keys) /\ Len(SubSeq(etext, 1, ei)) = ei
      /\ \A k \in 1 .. ei : SubSeq(etext, 1, ei)[k] = etext[k]
  <2>1. \A k \in 1 .. ei : etext[k] \in Keys
    BY <1>1, <1>2, <1>3, ElementOfSeq
  <2> QED
    BY <1>3, <2>1, SubSeqProperties
<1>6. ASSUME NEW k \in 1 .. ei PROVE (typed \o ring)[k] = etext[k]
  <2>1. CASE k =< Len(typed)
    <3>1. k \in 1 .. Len(typed)
      BY <1>2, <1>3, <2>1
    <3> QED
      BY <1>4, <2>1, <3>1 DEF Held
  <2>2. CASE ~ k =< Len(typed)
    <3>1. k - Len(typed) \in 1 .. Len(ring) /\ Len(typed) + (k - Len(typed)) = k
      BY <1>2, <1>3, <2>2
    <3>2. ring[k - Len(typed)] = etext[Len(typed) + (k - Len(typed))]
      BY <3>1 DEF Held
    <3> QED
      BY <1>4, <2>2, <3>1, <3>2
  <2> QED
    BY <2>1, <2>2
<1> QED
  BY <1>4, <1>5, <1>6, SeqEqual

-----------------------------------------------------------------------------
(* The theorems *)

\* console_init leaves an empty line and a table of the two built-in commands.
LEMMA ConsoleInit == Init => IInv
<1> SUFFICES ASSUME Init PROVE IInv
  OBVIOUS
<1>1. RingTypes
  BY EmptySeq DEF Init, RingTypes
<1>2. \A k \in 0 .. LineLen : buf[k] = NUL
  BY DEF Init, Blank
<1>3. LineTypes
  <2>1. buf \in [0 .. LineLen -> Chars]
    BY DEF Init, Blank, Chars
  <2>2. typed \in Seq(Letters)
    BY EmptySeq DEF Init
  <2>3. buf[LineLen] = NUL
    BY <1>2
  <2>4. bufp \in 0 .. LineLen
    BY DEF Init
  <2>5. argc \in {0, 1} /\ edited \in BOOLEAN
    BY DEF Init
  <2> QED
    BY <2>1, <2>2, <2>3, <2>4, <2>5 DEF LineTypes
<1>4. EvalTypes
  BY EmptySeq DEF Init, EvalTypes
<1>5. ControlTypes
  <2>1. None \in [cmd : Entries, pc : {"none", "top", "middle"}]
    BY DEF None, Entries
  <2> QED
    BY <2>1 DEF Init, ControlTypes
<1>6. Echo \in Names /\ Help \in Names /\ Echo < Help
  <2>1. PICK e \in DOMAIN Rank : Echo = Rank[e]
    BY ConsoleAssumption
  <2>2. PICK h \in DOMAIN Rank : Help = Rank[h]
    BY ConsoleAssumption
  <2>3. Rank[e] \in Names /\ Rank[h] \in Names /\ Echo < Help
    BY ConsoleAssumption, RanksAre
  <2> QED
    BY <2>1, <2>2, <2>3
<1>7. \A k \in Slots : cmd_table[k] = IF k = 0 THEN Echo ELSE IF k = 1 THEN Help
                                      ELSE IF k = 2 THEN Unknown ELSE Empty
  BY DEF Init, Slots
<1>8. cmd_table \in [Slots -> Entries]
  <2>1. DOMAIN cmd_table = Slots /\ cmd_table = [k \in Slots |-> cmd_table[k]]
    BY DEF Init, Slots
  <2>2. \A k \in Slots : cmd_table[k] \in Entries
    <3> TAKE k \in Slots
    <3>1. cmd_table[k] = Echo \/ cmd_table[k] = Help \/ cmd_table[k] \in {Unknown, Empty}
      BY <1>7
    <3>2. Echo \in Entries /\ Help \in Entries /\ {Unknown, Empty} \subseteq Entries
      BY <1>6 DEF Entries
    <3> QED
      BY <3>1, <3>2
  <2> QED
    BY <2>1, <2>2
<1>9. 0 \in Slots /\ 1 \in Slots /\ 2 \in Slots
  BY DEF Slots
<1>10. TableTo(2)
  <2>1. cmd_table[0] = Echo /\ cmd_table[1] = Help /\ cmd_table[2] = Unknown
    BY <1>7, <1>9
  <2>2. \A k \in Slots : /\ k < 2 => cmd_table[k] \in Names
                         /\ k > 2 => cmd_table[k] = Empty
    <3> TAKE k \in Slots
    <3>1. k < 2 => cmd_table[k] = Echo \/ cmd_table[k] = Help
      BY <1>7 DEF Slots
    <3>2. k > 2 => cmd_table[k] = Empty
      BY <1>7 DEF Slots
    <3> QED
      BY <1>6, <3>1, <3>2
  <2>3. ASSUME NEW j \in 0 .. 2 - 1, NEW k \in 0 .. 2 - 1, j =< k
        PROVE  cmd_table[j] =< cmd_table[k]
    <3>1. \/ j = 0 /\ k = 0
          \/ j = 0 /\ k = 1
          \/ j = 1 /\ k = 1
      BY <2>3
    <3>2. Echo =< Echo /\ Echo =< Help /\ Help =< Help
      BY <1>6, NameIs
    <3> QED
      BY <2>1, <3>1, <3>2
  <2> QED
    BY <2>1, <2>2, <2>3 DEF TableTo
<1>11. Types /\ Table
  BY <1>1, <1>3, <1>4, <1>5, <1>8, <1>9, <1>10, TypesAre DEF Table
<1>12. NoStuckInput
  BY DEF Init, NoStuckInput
<1>13. LineHeld
  <2>1. Len(typed) = 0
    BY EmptySeq DEF Init
  <2> QED
    BY <1>2, <2>1 DEF Init, LineHeld
<1>14. OneContext /\ LineGiven
  BY DEF Init, OneContext, LineGiven
<1> QED
  BY <1>11, <1>12, <1>13, <1>14 DEF IInv

\* Every step of the console keeps the inductive invariant.
LEMMA ConsoleStepKeeps == IInv /\ [Next]_vars => IInv'
<1> SUFFICES ASSUME IInv, [Next]_vars PROVE IInv'
  OBVIOUS
<1>1. Types /\ NoStuckInput /\ LineHeld /\ Table /\ OneContext /\ LineGiven
  BY DEF IInv
<1>2. RingTypes' /\ LineTypes'
  BY <1>1, RingStep, LineTypesStep
<1>3. EvalTypes' /\ OneContext' /\ LineGiven'
  BY <1>1, EvalStep, ContextStep, GivenStep
<1>4. Table' /\ cmd_table' \in [Slots -> Entries]
  BY <1>1, TableStep
<1>5. ControlTypes' /\ NoStuckInput'
  BY <1>1, ControlStep
<1>6. LineHeld'
  BY <1>1, LineStep
<1>7. Types'
  BY <1>2, <1>3, <1>4, <1>5 DEF Types, TypeOK, RingTypes, LineTypes, EvalTypes, ControlTypes
<1> QED
  BY <1>3, <1>4, <1>5, <1>6, <1>7 DEF IInv

\* The invariant of the console holds in every state it reaches.
LEMMA ConsoleInvariance == Spec => []IInv
  BY ConsoleInit, ConsoleStepKeeps, PTL DEF Spec

\* console_run looks at every key: the fibre never sleeps while there is one in
\* the ring, no command in progress and no refused wake-up, however interrupts,
\* console_eval and the fibre's own steps interleave, whatever the sizes are.
THEOREM KeysLookedAt == Spec => []NoStuckInput
<1>1. IInv => NoStuckInput
  BY DEF IInv
<1> QED
  BY <1>1, ConsoleInvariance, PTL

\* The line that do_tokenize is given is what was typed since the prompt, for
\* lines of every length and commands that leave anything in the scratch space.
THEOREM LineIsTyped == Spec => []LineAsTyped
<1>1. IInv => LineAsTyped
  BY TextIs DEF IInv, LineAsTyped, Types
<1> QED
  BY <1>1, ConsoleInvariance, PTL

\* console_register keeps the table sorted and closed, and find_command finds
\* each command that was registered, in tables of every length.
THEOREM TableIsServed == Spec => []TableServes
<1>1. Types /\ Table => TableServes
  <2> SUFFICES ASSUME Types, Table PROVE TableServes
    OBVIOUS
  <2>1. PICK p \in Slots : TableTo(p)
    BY DEF Table
  <2> DEFINE Used == {k \in 0 .. TableLen - 1 : cmd_table[k] # Empty}
  <2>2. \A k \in Used : k \in 0 .. p
    BY <2>1 DEF TableTo, Slots
  <2>3. p \in Used /\ p \in Nat
    BY <2>1 DEF TableTo, Slots, Unknown, Empty
  <2>4. ASSUME NEW j \in Used, NEW k \in Used, j =< k
        PROVE  cmd_table[j] =< cmd_table[k]
    <3>1. CASE k < p
      <4>1. j \in 0 .. p - 1 /\ k \in 0 .. p - 1
        BY <2>2, <2>3, <2>4, <3>1
      <4> QED
        BY <2>1, <2>4, <4>1 DEF TableTo
    <3>2. CASE k = p
      <4>1. cmd_table[k] = 1000
        BY <2>1, <3>2 DEF TableTo, Unknown
      <4>2. CASE j = p
        BY <3>2, <4>1, <4>2
      <4>3. CASE j < p
        <5>1. cmd_table[j] \in Names
          BY <2>1, <4>3 DEF TableTo, Slots
        <5> QED
          BY <4>1, <5>1, NameIs DEF Unknown
      <4> QED
        BY <2>2, <2>3, <4>2, <4>3
    <3> QED
      BY <2>2, <2>3, <3>1, <3>2
  <2>5. {k \in Used : cmd_table[k] = Unknown} = {p}
    <3>1. ASSUME NEW k \in Used, cmd_table[k] = Unknown PROVE k = p
      <4>1. ASSUME k < p PROVE FALSE
        <5>1. cmd_table[k] \in Names
          BY <2>1, <4>1 DEF TableTo, Slots
        <5>2. cmd_table[k] = 1000
          BY <3>1 DEF Unknown
        <5> QED
          BY <5>1, <5>2, NameIs DEF Unknown
      <4> QED
        BY <2>2, <2>3, <4>1
    <3> QED
      BY <2>1, <2>3, <3>1 DEF TableTo
  <2>6. Cardinality({k \in Used : cmd_table[k] = Unknown}) = 1
    BY <2>5, FS_Singleton
  <2>7. ASSUME NEW k \in Used PROVE FindCommand(cmd_table[k]) = cmd_table[k]
    <3>1. PICK i \in 0 .. p : /\ FindCommand(cmd_table[k]) = cmd_table[i]
                              /\ cmd_table[i] \in {cmd_table[k], Unknown}
                              /\ \A j \in 0 .. i - 1 :
                                    cmd_table[j] \notin {cmd_table[k], Unknown}
      BY <2>1, FindIs
    <3>2. CASE cmd_table[i] = cmd_table[k]
      BY <3>1, <3>2
    <3>3. CASE cmd_table[i] = Unknown
      <4>1. i = p
        <5>1. i \in Used
          BY <2>1, <3>1, <3>3 DEF Slots, Unknown, Empty
        <5> QED
          BY <2>5, <3>3, <5>1
      <4>2. ~ k < i
        BY <2>2, <2>3, <3>1
      <4>3. k = p
        BY <2>2, <2>3, <4>1, <4>2
      <4> QED
        BY <3>1, <4>1, <4>3
    <3> QED
      BY <3>1, <3>2, <3>3
  <2> HIDE DEF Used
  <2>8. Used = {k \in 0 .. TableLen - 1 : cmd_table[k] # Empty}
    BY DEF Used
  <2> QED
    BY <2>4, <2>6, <2>7, <2>8 DEF TableServes
<1>2. IInv => TableServes
  BY <1>1 DEF IInv
<1> QED
  BY <1>2, ConsoleInvariance, PTL

\* A line that console_eval injects at a fresh prompt while nobody types is
\* executed once and as it was given, whatever the lengths of the ring and the
\* line: when the ring is full console_eval waits without losing its place, and
\* the prompt that clears its index comes when it has put the newline.
THEOREM LineIsInjected == Spec => []LineInjected
<1>1. IInv => LineInjected
  <2> SUFFICES ASSUME IInv, quiet, IsLine(etext)
               PROVE  \/ child = None /\ Text(buf) \o ring = SubSeq(etext, 1, ei)
                      \/ Given
    BY DEF LineInjected, Given
  <2>1. Types /\ LineHeld /\ (Giving \/ Given)
    BY DEF IInv, LineGiven
  <2>2. CASE Giving
    BY <2>1, <2>2, TextIs, HeldIs DEF Giving
  <2> QED
    BY <2>1, <2>2
<1> QED
  BY <1>1, ConsoleInvariance, PTL
=============================================================================
