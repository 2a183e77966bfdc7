------------------------------ MODULE MessageQ ------------------------------
(***************************************************************************)
(* librfn/messageq.c, one action per atomic operation.  Senders are        *)
(* threads or interrupt handlers at arbitrary points of                    *)
(*    messageq_claim ; fill the message ; messageq_send                    *)
(* and a single receiver calls messageq_receive and messageq_release.      *)
(*                                                                         *)
(* Two specifications share the actions.  OpenSpec lets claims overlap as  *)
(* messageq.h allows ("thread safe for ... many-to-one messaging").  Spec  *)
(* adds the discipline under which the unsigned counter num_free really    *)
(* works: a claim starts only while no other claim is in progress, or      *)
(* while every claim in progress is sure of a place (see Admitted).        *)
(***************************************************************************)
EXTENDS Integers, FiniteSets

CONSTANTS
    Senders,    \* claim-to-send transactions that may overlap
    Values,     \* message payloads
    QueueLen    \* messageq_t.queue_len

ASSUME QueueAssumption ==
    /\ QueueLen \in 1 .. 32
    /\ IsFiniteSet(Senders)

UCharMod == 256     \* num_free is an atomic_uchar

Slots == 0 .. QueueLen - 1

VARIABLES
    num_free,       \* mq->num_free
    sendp,          \* mq->sendp
    full_flags,     \* mq->full_flags, as the set of bits that are set
    receivep,       \* mq->receivep
    buf,            \* the message storage at mq->basep
    pc,             \* where each sender is
    ptr,            \* each sender's local sendp: the slot it claims
    nheld           \* messages received and not yet released

shared == <<num_free, sendp, full_flags, receivep, buf>>
vars == <<shared, pc, ptr, nheld>>

\* (Operators named Bug... are plausible mistakes in the definition that
\* follows them; each breaks a property below.)
BugAdvance(i) == IF i > QueueLen - 1 THEN 0 ELSE i + 1
\* (p >= queue_len-1 ? 0 : p+1), for sendp and for receivep alike.
Advance(i) == IF i >= QueueLen - 1 THEN 0 ELSE i + 1

-----------------------------------------------------------------------------
(* Who is where *)

At(l) == {s \in Senders : pc[s] = l}
Undoing == At("undo")                    \* saw no room, fetch_add still to come
Permitted == At("load") \cup At("cas")   \* inside messageq_claim, sure of a slot
Owners == At("fill") \cup At("send")     \* between claim and send

\* The slots that belong to somebody: to a sender that claimed one, to the
\* queue (sent), or to the receiver.
ClaimedSlots == {ptr[s] : s \in Owners}
\* The slot that the receiver took k receives ago.
Behind(k) == IF receivep >= k THEN receivep - k ELSE receivep - k + QueueLen
HeldSlots == {Behind(k) : k \in 1 .. nheld}

Spoken == nheld + Cardinality(full_flags) + Cardinality(Owners)
                + Cardinality(Permitted)

\* The discipline of Spec.  The first disjunct is one sender, or senders that
\* are serialised by a lock or by an interrupt priority; the second is a queue
\* deep enough for everything that can be in flight at once.
Admitted ==
    \/ Permitted \cup Undoing = {}
    \/ Spoken + Cardinality(Undoing) < QueueLen

-----------------------------------------------------------------------------
(* messageq_init; the storage is the caller's and is not touched *)

Init ==
    /\ num_free = QueueLen
    /\ sendp = 0
    /\ full_flags = {}
    /\ receivep = 0
    /\ buf \in [Slots -> Values]
    /\ pc = [s \in Senders |-> "idle"]
    /\ ptr = [s \in Senders |-> 0]
    /\ nheld = 0

Goto(s, l) == pc' = [pc EXCEPT ![s] = l]

\* int num_free = atomic_fetch_sub(&mq->num_free, 1); if (num_free <= 0) ...
\* The value fetched is an unsigned char, so it is never negative.
ClaimFetchSub(s) ==
    /\ pc[s] = "idle"
    /\ num_free' = (num_free - 1) % UCharMod
    /\ Goto(s, IF num_free <= 0 THEN "undo" ELSE "load")
    /\ UNCHANGED <<sendp, full_flags, receivep, buf, ptr, nheld>>

BugClaimUndo(s) ==
    /\ pc[s] = "undo"
    /\ Goto(s, "idle")
    /\ UNCHANGED <<shared, ptr, nheld>>

\* atomic_fetch_add(&mq->num_free, 1); return NULL;
ClaimUndo(s) ==
    /\ pc[s] = "undo"
    /\ num_free' = (num_free + 1) % UCharMod
    /\ Goto(s, "idle")
    /\ UNCHANGED <<sendp, full_flags, receivep, buf, ptr, nheld>>

\* sendp = atomic_load(&mq->sendp)
ClaimLoad(s) ==
    /\ pc[s] = "load"
    /\ ptr' = [ptr EXCEPT ![s] = sendp]
    /\ Goto(s, "cas")
    /\ UNCHANGED <<shared, nheld>>

BugClaimCasOk(s) ==
    /\ pc[s] = "cas"
    /\ sendp' = Advance(ptr[s])
    /\ Goto(s, "fill")
    /\ UNCHANGED <<num_free, full_flags, receivep, buf, ptr, nheld>>

\* The compare-and-exchange succeeds and messageq_claim returns slot ptr[s].
ClaimCasOk(s) ==
    /\ pc[s] = "cas"
    /\ sendp = ptr[s]
    /\ sendp' = Advance(ptr[s])
    /\ Goto(s, "fill")
    /\ UNCHANGED <<num_free, full_flags, receivep, buf, ptr, nheld>>

\* It fails, because sendp moved or spuriously (it is the weak form): the
\* local sendp is reloaded and the loop goes round.
ClaimCasFail(s) ==
    /\ pc[s] = "cas"
    /\ ptr' = [ptr EXCEPT ![s] = sendp]
    /\ UNCHANGED <<shared, pc, nheld>>

\* The caller fills the message it claimed.
Fill(s) ==
    /\ pc[s] = "fill"
    /\ \E v \in Values : buf' = [buf EXCEPT ![ptr[s]] = v]
    /\ Goto(s, "send")
    /\ UNCHANGED <<num_free, sendp, full_flags, receivep, ptr, nheld>>

BugSend(s) ==
    /\ pc[s] = "send"
    /\ full_flags' = full_flags \cup {sendp}
    /\ Goto(s, "idle")
    /\ UNCHANGED <<num_free, sendp, receivep, buf, ptr, nheld>>

\* messageq_send: atomic_fetch_or(&mq->full_flags, 1 << sendp)
Send(s) ==
    /\ pc[s] = "send"
    /\ full_flags' = full_flags \cup {ptr[s]}
    /\ Goto(s, "idle")
    /\ UNCHANGED <<num_free, sendp, receivep, buf, ptr, nheld>>

BugReceive ==
    /\ receivep \in full_flags
    /\ full_flags' = full_flags \ {receivep}
    /\ receivep' = Advance(receivep)
    /\ num_free' = (num_free + 1) % UCharMod
    /\ nheld' = nheld + 1
    /\ UNCHANGED <<sendp, buf, pc, ptr>>

\* messageq_receive, when it returns a message.  Only the receiver reads or
\* writes receivep, so the fetch_and and the advance are one step; a receive
\* that returns NULL changes nothing.
Receive ==
    /\ receivep \in full_flags
    /\ full_flags' = full_flags \ {receivep}
    /\ receivep' = Advance(receivep)
    /\ nheld' = nheld + 1
    /\ UNCHANGED <<num_free, sendp, buf, pc, ptr>>

BugRelease ==
    /\ nheld > 0
    /\ nheld' = nheld - 1
    /\ num_free' = IF num_free = 0 THEN 0 ELSE num_free + 1
    /\ UNCHANGED <<sendp, full_flags, receivep, buf, pc, ptr>>

\* messageq_release ignores which message it is given: what becomes free is
\* one more place, the oldest slot still held.
Release ==
    /\ nheld > 0
    /\ nheld' = nheld - 1
    /\ num_free' = (num_free + 1) % UCharMod
    /\ UNCHANGED <<sendp, full_flags, receivep, buf, pc, ptr>>

-----------------------------------------------------------------------------

SenderStep(s) ==
    \/ ClaimUndo(s)
    \/ ClaimLoad(s)
    \/ ClaimCasOk(s)
    \/ ClaimCasFail(s)
    \/ Fill(s)
    \/ Send(s)

Others == (\E s \in Senders : SenderStep(s)) \/ Receive \/ Release

Next == (\E s \in Senders : Admitted /\ ClaimFetchSub(s)) \/ Others

OpenNext == (\E s \in Senders : ClaimFetchSub(s)) \/ Others

Spec == Init /\ [][Next]_vars

OpenSpec == Init /\ [][OpenNext]_vars

\* A producer that was given a slot fills and sends it without blocking, the
\* scheduler polls the queue, and the receiver releases what it received.
Fairness ==
    /\ \A s \in Senders :
        /\ WF_vars(ClaimUndo(s)) /\ WF_vars(ClaimLoad(s))
        /\ WF_vars(ClaimCasOk(s)) /\ WF_vars(Fill(s)) /\ WF_vars(Send(s))
    /\ WF_vars(Receive)
    /\ WF_vars(Release)

FairSpec == Spec /\ Fairness

-----------------------------------------------------------------------------
(* Properties *)

\* Every variable stays in its C type's range and every slot index inside the
\* storage (messageq.c computes basep + sendp * msg_len from it).
TypeOK ==
    /\ num_free \in 0 .. UCharMod - 1
    /\ sendp \in Slots
    /\ full_flags \in SUBSET Slots
    /\ receivep \in Slots
    /\ buf \in [Slots -> Values]
    /\ pc \in [Senders -> {"idle", "undo", "load", "cas", "fill", "send"}]
    /\ ptr \in [Senders -> Slots]
    /\ nheld \in 0 .. QueueLen

\* A slot never has two users: two senders between messageq_claim and
\* messageq_send hold different slots, and neither holds a slot that is
\* waiting to be received or that the receiver has not released yet.
SlotExclusion ==
    /\ \A s, t \in Owners : s # t => ptr[s] # ptr[t]
    /\ ClaimedSlots \cap full_flags = {}
    /\ (ClaimedSlots \cup full_flags) \cap HeldSlots = {}

\* Strengthening of SlotExclusion that every step preserves.  Pending is the
\* number of slots between receivep and sendp.
Pending == Cardinality(full_flags) + Cardinality(Owners)

\* How far slot i is ahead of receivep.
Ahead(i) == IF i >= receivep THEN i - receivep ELSE i - receivep + QueueLen

\* num_free counts exactly what nobody holds, less the failed claim that has
\* still to give back what it took (and shows as 255 when it does).
FreeCount ==
    num_free = (QueueLen - Spoken - Cardinality(Undoing)) % UCharMod

\* No claim is ever granted beyond the number of slots.
NoOverclaim == Spoken =< QueueLen

\* The slots from receivep up to sendp are the claimed and the sent ones.
RingShape ==
    /\ ClaimedSlots \cup full_flags = {i \in Slots : Ahead(i) < Pending}
    /\ \/ Pending < QueueLen /\ Ahead(sendp) = Pending
       \/ Pending = QueueLen /\ sendp = receivep

IInv ==
    /\ TypeOK
    /\ FreeCount
    /\ NoOverclaim
    /\ Cardinality(Undoing) =< 1
    /\ RingShape
    /\ SlotExclusion

\* A message that was sent is received, whoever else is slow: the senders that
\* claimed before it complete theirs, so the head of the queue moves.
SentIsReceived ==
    \A i \in Slots : i \in full_flags ~> i \notin full_flags

\* A queue that refuses a claim recovers: the counter cannot stay at nothing
\* free (or below, which reads as 255) once the receiver has caught up.
RoomReturns ==
    num_free \notin 1 .. QueueLen ~> num_free \in 1 .. QueueLen
=============================================================================
