----------------------------- MODULE StmConsole -----------------------------
(***************************************************************************)
(* The console of the STM32 (librfn/libopencm3/console_stm32.c): _write in *)
(* the main context and usart1_isr share outring, a ring buffer, without a *)
(* lock.  The interrupt handler consumes; both produce.  It interrupts     *)
(* _write between any two accesses to the ring, and runs to its end.       *)
(***************************************************************************)
EXTENDS Integers, Sequences

CONSTANTS
    Letters,    \* the characters other than '\r' and '\n'
    OutLen      \* sizeof(outbuf), 1024 in the code

VARIABLES
    outring,    \* the cells, readi and writei
    txeie,      \* USART_CR1_TXEIE
    mpc, mchar, \* _write: what is next, the bytes still to put, ...
    mwritei     \* ... and the copy of writei in ringbuf_put

vars == <<outring, txeie, mpc, mchar, mwritei>>

Cells == 0 .. OutLen - 1
Advance(i) == (i + 1) % OutLen

\* A cell is emptied, in the model only, when its byte is sent.
Gone == "gone"

Init ==
    /\ outring = [cell |-> [i \in Cells |-> Gone], readi |-> 0, writei |-> 0]
    /\ txeie = FALSE
    /\ mpc = "idle" /\ mchar = <<>> /\ mwritei = 0

\* ringbuf_put without an interruption
Put(r, c) ==
    IF Advance(r.writei) = r.readi THEN r
    ELSE [r EXCEPT !.cell[r.writei] = c, !.writei = Advance(r.writei)]

\* ringbuf_get of a ring that is not empty
Get(r) == [r EXCEPT !.cell[r.readi] = Gone, !.readi = Advance(r.readi)]

-----------------------------------------------------------------------------
(* _write, one character at a time *)

WriteChar(c) ==
    /\ mpc = "idle"
    /\ mchar' = IF c = "NL" THEN <<"CR", "NL">> ELSE <<c>>
    /\ mpc' = "load"
    /\ UNCHANGED <<outring, txeie, mwritei>>

WriteLoad ==
    /\ mpc = "load" /\ mchar # <<>>
    /\ mwritei' = outring.writei /\ mpc' = "check"
    /\ UNCHANGED <<outring, txeie, mchar>>

\* A byte that finds the ring full is dropped.
WriteCheck ==
    /\ mpc = "check"
    /\ IF Advance(mwritei) = outring.readi
       THEN mchar' = Tail(mchar) /\ mpc' = "load"
       ELSE mpc' = "store" /\ UNCHANGED mchar
    /\ UNCHANGED <<outring, txeie, mwritei>>

WriteStore ==
    /\ mpc = "store"
    /\ outring' = [outring EXCEPT !.cell[mwritei] = Head(mchar)]
    /\ mpc' = "publish"
    /\ UNCHANGED <<txeie, mchar, mwritei>>

WritePublish ==
    /\ mpc = "publish"
    /\ outring' = [outring EXCEPT !.writei = Advance(mwritei)]
    /\ mchar' = Tail(mchar) /\ mpc' = "load"
    /\ UNCHANGED <<txeie, mwritei>>

\* (Operators named Bug... are plausible mistakes in the definition that
\* follows them; each breaks a property below.)
BugWriteArm ==
    /\ mpc = "load" /\ mchar = <<>>
    /\ txeie' = (txeie \/ outring.readi = outring.writei)
    /\ mpc' = "idle"
    /\ UNCHANGED <<outring, mchar, mwritei>>

\* Enable the transmit interrupt.
WriteArm ==
    /\ mpc = "load" /\ mchar = <<>>
    /\ txeie' = TRUE
    /\ mpc' = "idle"
    /\ UNCHANGED <<outring, mchar, mwritei>>

-----------------------------------------------------------------------------
(* usart1_isr *)

\* What is received is echoed; a '\r' becomes a '\n'.
Received(r, c) == IF c = "CR" THEN Put(Put(r, "CR"), "NL") ELSE Put(r, c)

\* The part for TXE: send a byte, or disable the interrupt.
Transmit(r) ==
    IF r.readi = r.writei
    THEN txeie' = FALSE /\ outring' = r
    ELSE txeie' = TRUE /\ outring' = Get(r)

\* The transmit register is empty, or not.
RxIsr(c) ==
    /\ \/ Transmit(Received(outring, c))
       \/ txeie' = TRUE /\ outring' = Received(outring, c)
    /\ UNCHANGED <<mpc, mchar, mwritei>>

TxIsr ==
    /\ txeie
    /\ Transmit(outring)
    /\ UNCHANGED <<mpc, mchar, mwritei>>

-----------------------------------------------------------------------------

Write == WriteLoad \/ WriteCheck \/ WriteStore \/ WritePublish \/ WriteArm

Next ==
    \/ \E c \in Letters \cup {"NL"} : WriteChar(c)
    \/ Write
    \/ \E c \in Letters \cup {"CR"} : RxIsr(c)
    \/ TxIsr

Spec == Init /\ [][Next]_vars

-----------------------------------------------------------------------------
Waiting == {i \in Cells : (i - outring.readi) % OutLen
                              < (outring.writei - outring.readi) % OutLen}

\* Bytes in the ring are on their way: the transmit interrupt is enabled, or
\* _write is about to enable it, whatever the handler did meanwhile.
OutputIsArmed == Waiting # {} => txeie \/ mpc # "idle"

\* ringbuf.h: a "byte-based ring buffer".  What waits in it was put there and
\* has not been sent.
WaitingIsUnsent == \A i \in Waiting : outring.cell[i] # Gone
=============================================================================
