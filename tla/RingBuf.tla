------------------------------ MODULE RingBuf -------------------------------
(***************************************************************************)
(* librfn/ringbuf.c: a byte ring shared by one consumer and one producer   *)
(* at a time, with no lock and no read-modify-write.  An action is what a  *)
(* call does up to and including one access to something the other side    *)
(* writes.  readi is written by the consumer only and writei by the        *)
(* producer only, so a side's load of its own index is joined to the step  *)
(* that follows it.                                                        *)
(*                                                                         *)
(* ringbuf.h allows several producers under "additional locking":          *)
(* Producers are the calls that such a lock serialises (Serial).           *)
(***************************************************************************)
EXTENDS Integers

CONSTANTS
    Producers,
    Values,     \* bytes
    BufLen,     \* rb->buf_len
    Nothing     \* the -1 that ringbuf_get returns; not a byte

ASSUME RingAssumption ==
    /\ BufLen \in Nat \ {0}
    /\ Nothing \notin Values

Cells == 0 .. BufLen - 1

VARIABLES
    readi,      \* rb->readi
    writei,     \* rb->writei
    bufp,       \* the storage
    gpc,        \* where the consumer is in ringbuf_get
    gd,         \* its local d
    got,        \* what its last completed call returned
    ppc,        \* where each producer is in ringbuf_put or ringbuf_putchar
    old,        \* its local old_writei
    dat,        \* its argument
    accepted    \* what its last completed ringbuf_put returned

consumer == <<gpc, gd, got>>
producer == <<ppc, old, dat, accepted>>
vars == <<readi, writei, bufp, consumer, producer>>

\* (Operators named Bug... are plausible mistakes in the definition that
\* follows them; each breaks a property below.)
BugAdvance(i) == IF i + 1 > BufLen THEN i + 1 - BufLen ELSE i + 1
\* if (++i >= rb->buf_len) i -= rb->buf_len
Advance(i) == IF i + 1 >= BufLen THEN i + 1 - BufLen ELSE i + 1

\* ringbuf_init; the storage is the caller's.
Init ==
    /\ readi = 0 /\ writei = 0
    /\ bufp \in [Cells -> Values]
    /\ gpc = "idle" /\ gd = Nothing /\ got = Nothing
    /\ ppc = [p \in Producers |-> "idle"]
    /\ old = [p \in Producers |-> 0]
    /\ dat \in [Producers -> Values]
    /\ accepted = [p \in Producers |-> TRUE]

-----------------------------------------------------------------------------
(* ringbuf_get *)

\* readi == writei: return -1
GetEmpty ==
    /\ gpc = "idle"
    /\ readi = writei
    /\ got' = Nothing
    /\ UNCHANGED <<readi, writei, bufp, gpc, gd, producer>>

GetCheck ==
    /\ gpc = "idle"
    /\ readi # writei
    /\ gpc' = "read"
    /\ UNCHANGED <<readi, writei, bufp, gd, got, producer>>

BugGetRead ==
    /\ gpc = "read"
    /\ gd' = bufp[readi]
    /\ readi' = Advance(readi)
    /\ gpc' = "store"
    /\ UNCHANGED <<writei, bufp, got, producer>>

\* d = rb->bufp[readi]
GetRead ==
    /\ gpc = "read"
    /\ gd' = bufp[readi]
    /\ gpc' = "store"
    /\ UNCHANGED <<readi, writei, bufp, got, producer>>

BugGetStore ==
    /\ gpc = "store"
    /\ got' = gd
    /\ gpc' = "idle"
    /\ UNCHANGED <<readi, writei, bufp, gd, producer>>

\* atomic_store(&rb->readi, readi); return d
GetStore ==
    /\ gpc = "store"
    /\ readi' = Advance(readi)
    /\ got' = gd
    /\ gpc' = "idle"
    /\ UNCHANGED <<writei, bufp, gd, producer>>

-----------------------------------------------------------------------------
(* ringbuf_put ("try") and ringbuf_putchar ("spin") *)

Serial == \A p \in Producers : ppc[p] = "idle"

PutCall(p) ==
    /\ ppc[p] = "idle"
    /\ \E v \in Values : dat' = [dat EXCEPT ![p] = v]
    /\ \E call \in {"try", "spin"} : ppc' = [ppc EXCEPT ![p] = call]
    /\ UNCHANGED <<readi, writei, bufp, consumer, old, accepted>>

BugPutFull(p) ==
    /\ ppc[p] = "try"
    /\ writei = readi
    /\ ppc' = [ppc EXCEPT ![p] = "idle"]
    /\ accepted' = [accepted EXCEPT ![p] = FALSE]
    /\ UNCHANGED <<readi, writei, bufp, consumer, old, dat>>

\* writei + 1 == readi: return false.  ringbuf_putchar calls again, and
\* changes nothing until there is room.
PutFull(p) ==
    /\ ppc[p] = "try"
    /\ Advance(writei) = readi
    /\ ppc' = [ppc EXCEPT ![p] = "idle"]
    /\ accepted' = [accepted EXCEPT ![p] = FALSE]
    /\ UNCHANGED <<readi, writei, bufp, consumer, old, dat>>

BugPutCheck(p) ==
    /\ ppc[p] \in {"try", "spin"}
    /\ old' = [old EXCEPT ![p] = writei]
    /\ ppc' = [ppc EXCEPT ![p] = "write"]
    /\ UNCHANGED <<readi, writei, bufp, consumer, dat, accepted>>

PutCheck(p) ==
    /\ ppc[p] \in {"try", "spin"}
    /\ Advance(writei) # readi
    /\ old' = [old EXCEPT ![p] = writei]
    /\ ppc' = [ppc EXCEPT ![p] = "write"]
    /\ UNCHANGED <<readi, writei, bufp, consumer, dat, accepted>>

\* rb->bufp[old_writei] = d
PutWrite(p) ==
    /\ ppc[p] = "write"
    /\ bufp' = [bufp EXCEPT ![old[p]] = dat[p]]
    /\ ppc' = [ppc EXCEPT ![p] = "store"]
    /\ UNCHANGED <<readi, writei, consumer, old, dat, accepted>>

\* atomic_store(&rb->writei, writei); return true
PutStore(p) ==
    /\ ppc[p] = "store"
    /\ writei' = Advance(old[p])
    /\ ppc' = [ppc EXCEPT ![p] = "idle"]
    /\ accepted' = [accepted EXCEPT ![p] = TRUE]
    /\ UNCHANGED <<readi, bufp, consumer, old, dat>>

-----------------------------------------------------------------------------

ConsumerStep == GetEmpty \/ GetCheck \/ GetRead \/ GetStore

PutStep(p) == PutFull(p) \/ PutCheck(p) \/ PutWrite(p) \/ PutStore(p)

Next ==
    \/ ConsumerStep
    \/ \E p \in Producers : (Serial /\ PutCall(p)) \/ PutStep(p)

Spec == Init /\ [][Next]_vars

\* The consumer polls the ring, and a producer that found room finishes.
Fairness ==
    /\ WF_vars(GetCheck) /\ WF_vars(GetRead) /\ WF_vars(GetStore)
    /\ \A p \in Producers : WF_vars(PutStep(p))

FairSpec == Spec /\ Fairness

-----------------------------------------------------------------------------
(* Properties *)

\* The indices stay inside the storage (the assert of ringbuf_get) and only
\* bytes that were stored there are handed out.
TypeOK ==
    /\ readi \in Cells /\ writei \in Cells
    /\ bufp \in [Cells -> Values]
    /\ gpc \in {"idle", "read", "store"}
    /\ gd \in Values \cup {Nothing} /\ got \in Values \cup {Nothing}
    /\ ppc \in [Producers -> {"idle", "try", "spin", "write", "store"}]
    /\ old \in [Producers -> Cells]
    /\ dat \in [Producers -> Values]
    /\ accepted \in [Producers -> BOOLEAN]

Writing == {p \in Producers : ppc[p] \in {"write", "store"}}

\* A producer and the consumer are never on the same cell: the byte that
\* ringbuf_get reads cannot be overwritten before readi has moved past it.
NoSharedCell ==
    \A p \in Writing : gpc # "idle" => old[p] # readi

\* The invariant that every step preserves.  A check made before the other
\* side moved stays true: the consumer still has its byte, the producer its
\* room, although both indices were read earlier.
IInv ==
    /\ TypeOK
    /\ \A p, r \in Producers : ppc[p] # "idle" /\ ppc[r] # "idle" => p = r
    /\ gpc # "idle" => readi # writei
    /\ gpc = "store" => gd = bufp[readi]
    /\ \A p \in Writing : old[p] = writei /\ Advance(writei) # readi
    /\ \A p \in Producers : ppc[p] = "store" => bufp[old[p]] = dat[p]

\* ringbuf_putchar returns as long as the consumer polls.
PutcharReturns ==
    \A p \in Producers : ppc[p] = "spin" ~> ppc[p] = "idle"
=============================================================================
