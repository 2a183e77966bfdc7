------------------------------- MODULE RotEnc -------------------------------
(***************************************************************************)
(* The rotary encoder (librfn/rotenc.c).  Two contacts make four states    *)
(* per click, in Gray code; they bounce, and the decoder may be polled     *)
(* when nothing has moved.                                                 *)
(***************************************************************************)
EXTENDS Integers

CONSTANTS
    CountMod,       \* count is a uint8_t: 256 in the code
    InternalMod     \* internal_count is a uint16_t: 65536 in the code

VARIABLES
    last_state, count, internal_count,  \* rotenc_t
    clicks, quarter,    \* the knob: clicks since the start, modulo
                        \* InternalMod \div 4, and quarters of a click
    detent              \* clicks when the knob was last at a detent

vars == <<last_state, count, internal_count, clicks, quarter, detent>>

\* The contacts in each quarter of a click, clockwise
Gray == [q \in 0 .. 3 |-> CASE q = 0 -> <<0, 0>> [] q = 1 -> <<0, 1>>
                            [] q = 2 -> <<1, 1>> [] OTHER -> <<1, 0>>]

Init ==
    /\ last_state = <<0, 0>> /\ count = 0 /\ internal_count = 0
    /\ clicks = 0 /\ quarter = 0 /\ detent = 0

Clockwise == {<<<<0, 0>>, <<0, 1>>>>, <<<<0, 1>>, <<1, 1>>>>,
              <<<<1, 1>>, <<1, 0>>>>, <<<<1, 0>>, <<0, 0>>>>}
Anticlockwise == {<<t[2], t[1]>> : t \in Clockwise}

\* (Operators named Bug... are plausible mistakes in the definition that
\* follows them; each breaks a property below.)
BugDecode(state) ==
    /\ internal_count' =
           CASE <<last_state, state>> \in Clockwise ->
                    (internal_count + 1) % InternalMod
             [] <<last_state, state>> \in Anticlockwise ->
                    (internal_count - 1) % InternalMod
             [] OTHER -> internal_count
    /\ last_state' = state
    /\ count' = (internal_count' \div 4) % CountMod

\* rotenc_decode: count only follows at the detent.
Decode(state) ==
    /\ internal_count' =
           CASE <<last_state, state>> \in Clockwise ->
                    (internal_count + 1) % InternalMod
             [] <<last_state, state>> \in Anticlockwise ->
                    (internal_count - 1) % InternalMod
             [] OTHER -> internal_count
    /\ last_state' = state
    /\ count' = IF state = <<0, 0>> THEN (internal_count' \div 4) % CountMod
                ELSE count

\* rotenc_count14
Count14 ==
    LET i == internal_count \div 4
    IN  (i - (i % CountMod)) + count

\* The knob moves by a quarter or not at all, and is polled.
Turn(d) ==
    /\ quarter' = (quarter + d) % 4
    /\ clicks' = CASE d = 1 /\ quarter = 3 -> (clicks + 1) % (InternalMod \div 4)
                   [] d = -1 /\ quarter = 0 -> (clicks - 1) % (InternalMod \div 4)
                   [] OTHER -> clicks
    /\ detent' = IF quarter' = 0 THEN clicks' ELSE detent
    /\ Decode(Gray[quarter'])

Next == \E d \in {-1, 0, 1} : Turn(d)

-----------------------------------------------------------------------------
\* "No external debounce is required" (rotenc_decode): however the contacts
\* bounce between two detents, the count stays at the last one, and at a detent
\* both counts are the position of the knob.  Between detents rotenc_count14
\* stays at the last one too, but for one place: turned back from a multiple of
\* CountMod, it is CountMod less, as its high bits follow at once and its low
\* bits do not.
CountsClicks ==
    /\ count = detent % CountMod
    /\ quarter = 0 => Count14 = clicks
    /\ \/ Count14 = detent
       \/ /\ detent % CountMod = 0 /\ clicks = (detent - 1) % (InternalMod \div 4)
          /\ Count14 = (detent - CountMod) % (InternalMod \div 4)
=============================================================================
