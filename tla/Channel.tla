------------------------------ MODULE Channel ------------------------------
(***************************************************************************)
(* What librfn's message queue promises its users: a bounded channel from  *)
(* many senders to one receiver.  A sender claims a place, fills it and    *)
(* sends it; the receiver takes messages in the order the places were      *)
(* CLAIMED (a slow sender holds back the ones behind it) and gives a place *)
(* back by releasing the message.  Nothing is said about slots, counters   *)
(* or bit fields: MessageQ is the lock-free implementation and Fibre is a  *)
(* user.                                                                   *)
(***************************************************************************)
EXTENDS Naturals, Sequences

CONSTANTS
    Senders,    \* one element per claim-to-send transaction that may overlap
    Values,     \* message payloads
    Capacity,   \* number of places
    Nobody      \* owner of a place once its message is sent; not a sender

VARIABLES
    chan,       \* places claimed and not yet received, in claim order
    held        \* payloads received and not yet released, oldest first

cvars == <<chan, held>>

Place(s, v) == [owner |-> s, val |-> v]

Init == chan = <<>> /\ held = <<>>

Room == Len(chan) + Len(held) < Capacity

\* A sender owns at most one place at a time.
Owns(s) == \E i \in 1 .. Len(chan) : chan[i].owner = s

Claim(s) ==
    /\ ~ Owns(s)
    /\ Room
    /\ chan' = Append(chan, Place(s, Nobody))
    /\ UNCHANGED held

Send(s, v) ==
    \E i \in 1 .. Len(chan) :
        /\ chan[i].owner = s
        /\ chan' = [chan EXCEPT ![i] = Place(Nobody, v)]
        /\ UNCHANGED held

\* A message is waiting at the head: the negation of messageq_empty.
Ready == chan # <<>> /\ Head(chan).owner = Nobody

Receive ==
    /\ Ready
    /\ held' = Append(held, Head(chan).val)
    /\ chan' = Tail(chan)

Release ==
    /\ held # <<>>
    /\ held' = Tail(held)
    /\ UNCHANGED chan

Next ==
    \/ \E s \in Senders : Claim(s)
    \/ \E s \in Senders, v \in Values : Send(s, v)
    \/ Receive
    \/ Release

Spec == Init /\ [][Next]_cvars
=============================================================================
