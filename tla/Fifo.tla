-------------------------------- MODULE Fifo --------------------------------
(***************************************************************************)
(* What librfn's byte ring promises: a queue that refuses a byte exactly   *)
(* when it holds Capacity of them, and says it has nothing exactly when it *)
(* holds none.  RingBuf is the lock-free implementation.                   *)
(***************************************************************************)
EXTENDS Naturals, Sequences

CONSTANTS Producers, Values, Capacity, Nothing

VARIABLES
    q,          \* the bytes put and not yet got
    got,        \* what the last get returned, Nothing for -1
    accepted    \* what each producer's last completed put returned

fvars == <<q, got, accepted>>

Init ==
    /\ q = <<>>
    /\ got = Nothing
    /\ accepted = [p \in Producers |-> TRUE]

Put(p, v) ==
    /\ Len(q) < Capacity
    /\ q' = Append(q, v)
    /\ accepted' = [accepted EXCEPT ![p] = TRUE]
    /\ UNCHANGED got

Refuse(p) ==
    /\ Len(q) = Capacity
    /\ accepted' = [accepted EXCEPT ![p] = FALSE]
    /\ UNCHANGED <<q, got>>

Get ==
    /\ q # <<>>
    /\ got' = Head(q)
    /\ q' = Tail(q)
    /\ UNCHANGED accepted

GetNothing ==
    /\ q = <<>>
    /\ got' = Nothing
    /\ UNCHANGED <<q, accepted>>

Next ==
    \/ \E p \in Producers : Refuse(p) \/ \E v \in Values : Put(p, v)
    \/ Get
    \/ GetNothing

Spec == Init /\ [][Next]_fvars
=============================================================================
