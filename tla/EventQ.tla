------------------------------- MODULE EventQ -------------------------------
(***************************************************************************)
(* A fibre with an event queue (fibre_eventq_*, librfn/fibre.c).  Senders, *)
(* at any interrupt level, claim an event, fill it and send it; sending    *)
(* publishes the event and then posts the handler's fibre with             *)
(* fibre_run_atomic.  Both queues are Channels.  Of the scheduler there is *)
(* what Fibre shows it does: it drains atomic_runq, makes the fibres it    *)
(* finds runnable, and dispatches them.  Other users of atomic_runq post   *)
(* other fibres there.                                                     *)
(***************************************************************************)
EXTENDS Naturals, Sequences

CONSTANTS
    Senders,    \* contexts that send events
    Others,     \* contexts that make other fibres runnable
    EventLen,   \* length of the event queue
    AtomicLen,  \* length of atomic_runq_buf
    Nobody

ASSUME EventQAssumption ==
    /\ EventLen \in 1 .. 32 /\ AtomicLen \in 1 .. 32
    /\ Senders \cap Others = {}
    /\ Nobody \notin Senders \cup Others

VARIABLES
    spc,            \* where each sender is in fibre_eventq_claim and _send
    turn,           \* tells a sender's next event from the one before
    events, eheld,  \* evtq->eventq, and the event the handler works on
    runs, rheld,    \* kernel.atomic_runq
    handler,        \* evtq->fibre: "waiting", "queued" on runq, or "running"
    taint           \* kernel.taint_flags

vars == <<spc, turn, events, eheld, runs, rheld, handler, taint>>
eventq == <<events, eheld>>
atomicq == <<runs, rheld>>

EQ == INSTANCE Channel
          WITH Values <- Senders \X {0, 1}, Capacity <- EventLen,
               chan <- events, held <- eheld
AQ == INSTANCE Channel
          WITH Senders <- Senders \cup Others, Values <- {"handler", "other"},
               Capacity <- AtomicLen, chan <- runs, held <- rheld

Init ==
    /\ spc = [s \in Senders |-> "idle"] /\ turn = [s \in Senders |-> 0]
    /\ EQ!Init /\ AQ!Init
    /\ handler = "queued"       \* the program has called fibre_run on it
    /\ taint = {}

Goto(s, l) == spc' = [spc EXCEPT ![s] = l]

-----------------------------------------------------------------------------
(* Senders *)

\* fibre_eventq_claim
EventClaim(s) ==
    /\ spc[s] = "idle"
    /\ EQ!Claim(s)
    /\ Goto(s, "publish")
    /\ UNCHANGED <<turn, atomicq, handler, taint>>

EventRefused(s) ==
    /\ spc[s] = "idle"
    /\ ~ EQ!Room
    /\ taint' = taint \cup {"E"}
    /\ UNCHANGED <<spc, turn, eventq, atomicq, handler>>

BugEventPublish(s) ==
    /\ spc[s] = "publish"
    /\ EQ!Send(s, <<s, turn[s]>>)
    /\ turn' = [turn EXCEPT ![s] = 1 - @]
    /\ Goto(s, IF Len(events) > 1 THEN "idle" ELSE "wake")
    /\ UNCHANGED <<atomicq, handler, taint>>

\* fibre_eventq_send, first the messageq_send...
EventPublish(s) ==
    /\ spc[s] = "publish"
    /\ EQ!Send(s, <<s, turn[s]>>)
    /\ turn' = [turn EXCEPT ![s] = 1 - @]
    /\ Goto(s, "wake")
    /\ UNCHANGED <<atomicq, handler, taint>>

\* ... then fibre_run_atomic.
WakeClaim(s) ==
    /\ spc[s] = "wake"
    /\ AQ!Claim(s)
    /\ Goto(s, "post")
    /\ UNCHANGED <<turn, eventq, handler, taint>>

\* (Operators named Bug... are plausible mistakes in the definition that
\* follows them; each breaks a property below.)
BugWakeRefused(s) ==
    /\ spc[s] = "wake"
    /\ ~ AQ!Room
    /\ Goto(s, "idle")
    /\ UNCHANGED <<turn, eventq, atomicq, handler, taint>>

\* The event stays in its queue; the caller is told false.
WakeRefused(s) ==
    /\ spc[s] = "wake"
    /\ ~ AQ!Room
    /\ taint' = taint \cup {"A"}
    /\ Goto(s, "idle")
    /\ UNCHANGED <<turn, eventq, atomicq, handler>>

WakePost(s) ==
    /\ spc[s] = "post"
    /\ AQ!Send(s, "handler")
    /\ Goto(s, "idle")
    /\ UNCHANGED <<turn, eventq, handler, taint>>

OtherClaim(o) ==
    /\ AQ!Claim(o)
    /\ UNCHANGED <<spc, turn, eventq, handler, taint>>

OtherPost(o) ==
    /\ AQ!Send(o, "other")
    /\ UNCHANGED <<spc, turn, eventq, handler, taint>>

-----------------------------------------------------------------------------
(* The scheduler and the handler, in the main context *)

\* handle_atomic_runq: receive, run the fibre, release.
DrainReceive ==
    /\ handler # "running"
    /\ AQ!Receive
    /\ handler' = IF Head(runs).val = "handler" THEN "queued" ELSE handler
    /\ UNCHANGED <<spc, turn, eventq, taint>>

DrainRelease ==
    /\ AQ!Release
    /\ UNCHANGED <<spc, turn, eventq, handler, taint>>

Dispatch ==
    /\ handler = "queued"
    /\ rheld = <<>>
    /\ handler' = "running"
    /\ UNCHANGED <<spc, turn, eventq, atomicq, taint>>

\* The handler's body waits until fibre_eventq_receive returns an event, uses
\* it, releases it and goes round.
HandlerReceive ==
    /\ handler = "running"
    /\ eheld = <<>>
    /\ EQ!Receive
    /\ UNCHANGED <<spc, turn, atomicq, handler, taint>>

HandlerRelease ==
    /\ EQ!Release
    /\ UNCHANGED <<spc, turn, atomicq, handler, taint>>

HandlerWait ==
    /\ handler = "running"
    /\ eheld = <<>>
    /\ ~ EQ!Ready
    /\ handler' = "waiting"
    /\ UNCHANGED <<spc, turn, eventq, atomicq, taint>>

-----------------------------------------------------------------------------

SendStep(s) == EventPublish(s) \/ WakeClaim(s) \/ WakeRefused(s) \/ WakePost(s)

MainStep ==
    \/ DrainReceive \/ DrainRelease \/ Dispatch
    \/ HandlerReceive \/ HandlerRelease \/ HandlerWait

Next ==
    \/ \E s \in Senders : EventClaim(s) \/ EventRefused(s) \/ SendStep(s)
    \/ \E o \in Others : OtherClaim(o) \/ OtherPost(o)
    \/ MainStep

Spec == Init /\ [][Next]_vars

\* A sender that claimed goes on to send, and so does another user of
\* atomic_runq; the main context runs, and dispatches what is on runq (which
\* is what Fibre's NoLostWakeup says).
Fairness ==
    /\ \A s \in Senders : WF_vars(SendStep(s))
    /\ \A o \in Others : WF_vars(OtherPost(o))
    /\ WF_vars(DrainReceive) /\ WF_vars(DrainRelease)
    /\ SF_vars(Dispatch)
    /\ WF_vars(HandlerReceive) /\ WF_vars(HandlerRelease)
    /\ WF_vars(HandlerWait)

FairSpec == Spec /\ Fairness

-----------------------------------------------------------------------------
(* Properties *)

Published(e) == \E i \in 1 .. Len(events) : events[i] = EQ!Place(Nobody, e)

WakePending ==
    \/ handler \in {"queued", "running"}
    \/ \E i \in 1 .. Len(runs) : runs[i] = AQ!Place(Nobody, "handler")
    \/ \E s \in Senders : spc[s] \in {"publish", "wake", "post"}

\* No event is left in the queue while its handler sleeps and nobody is about
\* to wake it, unless the kernel was tainted 'A': fibredemo.c relies on taints
\* for its error handling and ignores what fibre_eventq_send returns.
StrandedIsTainted ==
    "A" \notin taint => (WakePending \/ \A i \in 1 .. Len(events) :
                                          events[i].owner # Nobody)

\* The loop of handle_atomic_runq keeps coming to an end.
NoStorm == []<>(rheld = <<>>)

\* Every event that is sent is received in the end, however senders overtake
\* each other, unless a wake-up was refused on the way.
HandledUnlessTainted ==
    NoStorm =>
        \/ <>("A" \in taint)
        \/ \A s \in Senders, t \in {0, 1} :
              Published(<<s, t>>) ~> ~ Published(<<s, t>>)
=============================================================================
