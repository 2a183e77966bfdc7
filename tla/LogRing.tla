------------------------------ MODULE LogRing -------------------------------
(***************************************************************************)
(* The console that only logs (librfn/libopencm3/console_ring.c): a ring,  *)
(* read by a debugger, which makes room by discarding its oldest line.     *)
(***************************************************************************)
EXTENDS Naturals, Sequences, SequencesExt

CONSTANT RingRoom   \* sizeof(logbuf) - 1, 1023 in the code

VARIABLES
    logring,    \* the bytes in the ring
    logged,     \* the last RingRoom bytes that were logged
    before, gone \* the byte before the first in the ring, and how many bytes
                \* of its line are gone, at most RingRoom

vars == <<logring, logged, before, gone>>

Init == logring = <<>> /\ logged = <<>> /\ before = "NL" /\ gone = 0

\* The bytes up to the first end of line, or all
FirstLine ==
    IF Contains(logring, "NL")
    THEN SelectInSeq(logring, LAMBDA c : c = "NL") ELSE Len(logring)

Log(c) ==
    LET l == Append(logged, c)
    IN  logged' = IF Len(l) > RingRoom THEN Tail(l) ELSE l

\* The first n bytes go.
Forget(n) ==
    /\ before' = logring[n]
    /\ gone' = IF before' = "NL" THEN 0
               ELSE IF gone + n > RingRoom THEN RingRoom ELSE gone + n

Store(c) ==
    /\ Len(logring) < RingRoom
    /\ logring' = Append(logring, c)
    /\ Log(c)
    /\ UNCHANGED <<before, gone>>

\* (Operators named Bug... are plausible mistakes in the definition that
\* follows them; each breaks a property below.)
BugDiscard(c) ==
    /\ Len(logring) = RingRoom
    /\ logring' = Append(Tail(logring), c)
    /\ Forget(1)
    /\ Log(c)

\* The ring is full: discard until the end of the line, and store c.
Discard(c) ==
    /\ Len(logring) = RingRoom
    /\ logring' = Append(SubSeq(logring, FirstLine + 1, RingRoom), c)
    /\ Forget(FirstLine)
    /\ Log(c)

\* logchar, for each character that _write is given
LogChar(c) == Store(c) \/ Discard(c)

Next == \E c \in {"a", "b", "NL"} : LogChar(c)

-----------------------------------------------------------------------------
\* What a debugger finds in the ring is the end of the log without a gap, and
\* it begins with a line, unless that line alone would fill the ring.
WholeLines ==
    /\ logring = SubSeq(logged, Len(logged) - Len(logring) + 1, Len(logged))
    /\ before = "NL" \/ gone = RingRoom
=============================================================================
