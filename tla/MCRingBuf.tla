------------------------------ MODULE MCRingBuf ------------------------------
(***************************************************************************)
(* Instances of RingBuf for TLC, and the mapping to Fifo.                  *)
(***************************************************************************)
EXTENDS RingBuf, Sequences

\* The bytes between the indices r and w of the storage b, oldest first
Used(r, w) == IF w >= r THEN w - r ELSE w - r + BufLen

Cell(r, k) == IF r + k >= BufLen THEN r + k - BufLen ELSE r + k

Bytes(r, w, b) == [k \in 1 .. Used(r, w) |-> b[Cell(r, k - 1)]]

qBar == Bytes(readi, writei, bufp)

Queue == INSTANCE Fifo WITH Capacity <- BufLen - 1, q <- qBar

\* The ring is a queue of BufLen - 1 bytes: no byte is lost, repeated or
\* reordered, and a put or a get fails only when the ring is full or empty at
\* the moment it looks.
ImplementsFifo == Queue!Spec
=============================================================================
