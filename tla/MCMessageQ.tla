----------------------------- MODULE MCMessageQ -----------------------------
(***************************************************************************)
(* Instances of MessageQ for TLC, and the mapping to Channel.              *)
(***************************************************************************)
EXTENDS MessageQ, Sequences, TLC

CONSTANT Nobody

ASSUME NobodyAssumption == Nobody \notin Senders

\* The slot k places ahead of receivep.
SlotAhead(k) == IF receivep + k >= QueueLen THEN receivep + k - QueueLen ELSE receivep + k

OwnersOf(i) == {s \in Owners : ptr[s] = i}

OwnerOf(i) ==
    IF i \in full_flags \/ OwnersOf(i) = {} THEN Nobody
    ELSE CHOOSE s \in OwnersOf(i) : TRUE

\* What a slot between receivep and sendp is to the channel.
PlaceOf(i) ==
    [owner |-> OwnerOf(i), val |-> IF i \in full_flags THEN buf[i] ELSE Nobody]

chanBar == [k \in 1 .. Pending |-> PlaceOf(SlotAhead(k - 1))]
heldBar == [k \in 1 .. nheld |-> buf[Behind(nheld + 1 - k)]]

Chan == INSTANCE Channel
            WITH Capacity <- QueueLen, chan <- chanBar, held <- heldBar

\* The lock-free queue implements the bounded channel: messages arrive once
\* each, in the order the slots were claimed, carrying what their sender
\* stored, and a message the receiver still holds is never overwritten.
ImplementsChannel == Chan!Spec

Symmetry == Permutations(Senders) \cup Permutations(Values)
=============================================================================
