---------------------------- MODULE EventQProofs ----------------------------
(***************************************************************************)
(* Machine-checked proof that fibre_eventq_send strands no event without a *)
(* taint, for every number of senders and of other users of atomic_runq    *)
(* and all lengths of the two queues.                                      *)
(***************************************************************************)
EXTENDS EventQ, TLAPS

USE EventQAssumption

Steps == {"idle", "publish", "wake", "post"}

Event == [owner : Senders \cup {Nobody}, val : (Senders \X {0, 1}) \cup {Nobody}]

\* The types that the argument needs.
Typed ==
    /\ spc \in [Senders -> Steps]
    /\ events \in Seq(Event)
    /\ turn \in [Senders -> {0, 1}]
    /\ runs \in Seq([owner : Senders \cup Others \cup {Nobody},
                     val : {"handler", "other", Nobody}])

\* An event that was claimed and not sent has a sender, which has no other one
\* and goes on to send it.
Claimed ==
    \A i \in 1 .. Len(events) : events[i].owner # Nobody =>
        /\ spc[events[i].owner] = "publish"
        /\ \A j \in 1 .. Len(events) : events[j].owner = events[i].owner => i = j

Inv == Typed /\ Claimed /\ StrandedIsTainted

\* The head of a queue that is not empty
LEMMA HeadOf ==
    ASSUME NEW S, NEW q \in Seq(S), q # <<>>
    PROVE  1 \in 1 .. Len(q) /\ Head(q) = q[1] /\ q[1] \in S
<1>1. Len(q) \in Nat /\ Len(q) # 0
  OBVIOUS
<1> QED
  BY <1>1

\* At the start nothing is queued and nobody is owed a wake-up.
LEMMA EventQInit == Init => Inv
  BY DEF Init, Inv, Typed, Claimed, StrandedIsTainted, Steps, Event, WakePending,
         EQ!Init, AQ!Init

-----------------------------------------------------------------------------
(* Senders: while one is between its claim and its post, it is the wake-up *)
(* that is pending.                                                        *)

\* A sender claims its event, ...
LEMMA EventClaimInv ==
    ASSUME Inv, NEW s \in Senders, EventClaim(s)
    PROVE  Inv'
<1>1. /\ events' = Append(events, [owner |-> s, val |-> Nobody])
      /\ \A i \in 1 .. Len(events) : events[i].owner # s
      /\ spc' = [spc EXCEPT ![s] = "publish"]
      /\ UNCHANGED <<turn, runs, handler, taint>>
  BY DEF EventClaim, EQ!Claim, EQ!Place, EQ!Owns, Goto, atomicq
<1>2. Typed'
  BY <1>1 DEF Inv, Typed, Steps, Event
<1>3. Claimed'
  BY <1>1 DEF Inv, Claimed, Typed, Event
<1>4. WakePending'
  BY <1>1 DEF Inv, Typed, WakePending
<1> QED
  BY <1>2, <1>3, <1>4 DEF Inv, StrandedIsTainted

\* ... sends the event, ...
LEMMA EventPublishInv ==
    ASSUME Inv, NEW s \in Senders, EventPublish(s)
    PROVE  Inv'
<1>1. PICK i \in 1 .. Len(events) :
         /\ events[i].owner = s
         /\ events' = [events EXCEPT ![i] = [owner |-> Nobody, val |-> <<s, turn[s]>>]]
  BY DEF EventPublish, EQ!Send, EQ!Place
<1>2. /\ spc' = [spc EXCEPT ![s] = "wake"] /\ turn' = [turn EXCEPT ![s] = 1 - @]
      /\ UNCHANGED <<runs, handler, taint>>
  BY DEF EventPublish, Goto, atomicq
<1>3. Typed'
  BY <1>1, <1>2 DEF Inv, Typed, Steps, Event
<1>4. Claimed'
  BY <1>1, <1>2 DEF Inv, Claimed, Typed, Event
<1>5. WakePending'
  BY <1>2 DEF Inv, Typed, WakePending
<1> QED
  BY <1>3, <1>4, <1>5 DEF Inv, StrandedIsTainted

\* ... claims a place for the wake-up, ...
LEMMA WakeClaimInv ==
    ASSUME Inv, NEW s \in Senders, WakeClaim(s)
    PROVE  Inv'
<1>1. /\ runs' = Append(runs, [owner |-> s, val |-> Nobody])
      /\ spc[s] = "wake" /\ spc' = [spc EXCEPT ![s] = "post"]
      /\ UNCHANGED <<turn, events, handler, taint>>
  BY DEF WakeClaim, AQ!Claim, AQ!Place, Goto, eventq
<1>2. Typed'
  BY <1>1 DEF Inv, Typed, Steps, Event
<1>3. Claimed'
  BY <1>1 DEF Inv, Claimed, Typed, Event
<1>4. WakePending'
  BY <1>1 DEF Inv, Typed, WakePending
<1> QED
  BY <1>2, <1>3, <1>4 DEF Inv, StrandedIsTainted

\* ... or is refused one, and leaves the taint.
LEMMA WakeRefusedInv ==
    ASSUME Inv, NEW s \in Senders, WakeRefused(s)
    PROVE  Inv'
<1>1. /\ spc[s] = "wake" /\ spc' = [spc EXCEPT ![s] = "idle"]
      /\ "A" \in taint'
      /\ UNCHANGED <<turn, events, runs>>
  BY DEF WakeRefused, Goto, eventq, atomicq
<1>2. Typed'
  BY <1>1 DEF Inv, Typed, Steps, Event
<1>3. Claimed'
  BY <1>1 DEF Inv, Claimed, Typed, Event
<1> QED
  BY <1>1, <1>2, <1>3 DEF Inv, StrandedIsTainted

\* The message takes over from its sender.
LEMMA WakePostInv ==
    ASSUME Inv, NEW s \in Senders, WakePost(s)
    PROVE  Inv'
<1>1. PICK i \in 1 .. Len(runs) :
         runs' = [runs EXCEPT ![i] = [owner |-> Nobody, val |-> "handler"]]
  BY DEF WakePost, AQ!Send, AQ!Place
<1>2. /\ spc[s] = "post" /\ spc' = [spc EXCEPT ![s] = "idle"]
      /\ UNCHANGED <<turn, events, handler, taint>>
  BY DEF WakePost, Goto, eventq
<1>3. Typed'
  BY <1>1, <1>2 DEF Inv, Typed, Steps, Event
<1>4. Claimed'
  BY <1>2 DEF Inv, Claimed, Typed, Event
<1>5. i \in 1 .. Len(runs') /\ runs'[i] = [owner |-> Nobody, val |-> "handler"]
  BY <1>1 DEF Inv, Typed
<1>6. WakePending'
  BY <1>5 DEF WakePending, AQ!Place
<1> QED
  BY <1>3, <1>4, <1>6 DEF Inv, StrandedIsTainted

\* Other users of atomic_runq leave the messages of the senders alone.
LEMMA OtherInv ==
    ASSUME Inv, NEW o \in Others, OtherClaim(o) \/ OtherPost(o)
    PROVE  Inv'
<1>1. UNCHANGED <<spc, turn, events, handler, taint>>
  BY DEF OtherClaim, OtherPost, eventq
<1>2. /\ runs' \in Seq([owner : Senders \cup Others \cup {Nobody},
                        val : {"handler", "other", Nobody}])
      /\ \A i \in 1 .. Len(runs) : runs[i] = AQ!Place(Nobody, "handler") =>
             i \in 1 .. Len(runs') /\ runs'[i] = runs[i]
  <2>1. CASE OtherClaim(o)
    <3>1. runs' = Append(runs, [owner |-> o, val |-> Nobody])
      BY <2>1 DEF OtherClaim, AQ!Claim, AQ!Place
    <3> QED
      BY <3>1 DEF Inv, Typed
  <2>2. CASE OtherPost(o)
    <3>1. PICK k \in 1 .. Len(runs) :
             /\ runs[k].owner = o
             /\ runs' = [runs EXCEPT ![k] = [owner |-> Nobody, val |-> "other"]]
      BY <2>2 DEF OtherPost, AQ!Send, AQ!Place
    <3>2. o # Nobody
      OBVIOUS
    <3> QED
      BY <3>1, <3>2 DEF Inv, Typed, AQ!Place
  <2> QED
    BY <2>1, <2>2
<1>3. Typed'
  BY <1>1, <1>2 DEF Inv, Typed
<1>4. Claimed'
  BY <1>1 DEF Inv, Claimed
<1>5. WakePending => WakePending'
  BY <1>1, <1>2 DEF WakePending
<1> QED
  BY <1>1, <1>3, <1>4, <1>5 DEF Inv, StrandedIsTainted

-----------------------------------------------------------------------------
(* The main context *)

\* A message of a sender makes the handler runnable when it is taken.
LEMMA DrainReceiveInv ==
    ASSUME Inv, DrainReceive
    PROVE  Inv'
<1>1. /\ runs # <<>> /\ runs' = Tail(runs)
      /\ handler' = IF Head(runs).val = "handler" THEN "queued" ELSE handler
      /\ UNCHANGED <<spc, turn, events, taint>>
  BY DEF DrainReceive, AQ!Receive, AQ!Ready, eventq
<1>2. Typed'
  BY <1>1 DEF Inv, Typed
<1>3. Claimed'
  BY <1>1 DEF Inv, Claimed
<1>4. ASSUME WakePending PROVE WakePending'
  <2>1. CASE handler \in {"queued", "running"}
    BY <1>1, <2>1 DEF WakePending
  <2>2. CASE \E s \in Senders : spc[s] \in {"publish", "wake", "post"}
    BY <1>1, <2>2 DEF WakePending
  <2>3. CASE \E i \in 1 .. Len(runs) : runs[i] = AQ!Place(Nobody, "handler")
    <3>1. PICK i \in 1 .. Len(runs) : runs[i] = [owner |-> Nobody, val |-> "handler"]
      BY <2>3 DEF AQ!Place
    <3>2. CASE i = 1
      BY <1>1, <3>1, <3>2 DEF Inv, Typed, WakePending
    <3>3. CASE i # 1
      <4>1. i - 1 \in 1 .. Len(runs') /\ runs'[i - 1] = runs[i]
        BY <1>1, <3>3 DEF Inv, Typed
      <4> QED
        BY <3>1, <4>1 DEF WakePending, AQ!Place
    <3> QED
      BY <3>2, <3>3
  <2> QED
    BY <1>4, <2>1, <2>2, <2>3 DEF WakePending
<1> QED
  BY <1>1, <1>2, <1>3, <1>4 DEF Inv, StrandedIsTainted

\* The handler waits when the oldest event, if there is one, is not sent: its
\* sender is the wake-up that is pending.
LEMMA HandlerWaitInv ==
    ASSUME Inv, HandlerWait
    PROVE  Inv'
<1>1. /\ ~ (events # <<>> /\ Head(events).owner = Nobody)
      /\ UNCHANGED <<spc, turn, events, runs, taint>>
  BY DEF HandlerWait, EQ!Ready, eventq, atomicq
<1>2. Typed' /\ Claimed'
  BY <1>1 DEF Inv, Typed, Claimed
<1>3. CASE events = <<>>
  BY <1>1, <1>2, <1>3 DEF Inv, StrandedIsTainted
<1>4. CASE events # <<>>
  <2>1. /\ 1 \in 1 .. Len(events) /\ Head(events) = events[1]
        /\ events[1] \in Event
    <3>1. events \in Seq(Event)
      BY DEF Inv, Typed
    <3> QED
      BY <1>4, <3>1, HeadOf
  <2>2. events[1].owner # Nobody /\ events[1].owner \in Senders
    BY <1>1, <1>4, <2>1 DEF Event
  <2>3. WakePending'
    BY <1>1, <2>1, <2>2 DEF Inv, Claimed, WakePending
  <2> QED
    BY <1>2, <2>3 DEF Inv, StrandedIsTainted
<1> QED
  BY <1>3, <1>4

\* The handler takes the oldest event.
LEMMA HandlerReceiveInv ==
    ASSUME Inv, HandlerReceive
    PROVE  Inv'
<1>1. /\ events # <<>> /\ events' = Tail(events) /\ handler = "running"
      /\ UNCHANGED <<spc, turn, runs, handler, taint>>
  BY DEF HandlerReceive, EQ!Receive, EQ!Ready, atomicq
<1>2. Typed'
  BY <1>1 DEF Inv, Typed
<1>3. Claimed'
  <2>1. \A i \in 1 .. Len(events') :
           i + 1 \in 1 .. Len(events) /\ events'[i] = events[i + 1]
    BY <1>1 DEF Inv, Typed
  <2> QED
    BY <1>1, <2>1 DEF Inv, Claimed
<1>4. WakePending'
  BY <1>1 DEF WakePending
<1> QED
  BY <1>2, <1>3, <1>4 DEF Inv, StrandedIsTainted

\* Steps that move no message of the senders.
LEMMA OtherStepsInv ==
    ASSUME Inv,
           \/ \E s \in Senders : EventRefused(s)
           \/ DrainRelease \/ Dispatch \/ HandlerRelease
           \/ UNCHANGED vars
    PROVE  Inv'
<1>1. /\ UNCHANGED <<spc, turn, events, runs>>
      /\ taint \subseteq taint'
      /\ handler' = handler \/ handler' = "running"
  BY DEF EventRefused, DrainRelease, AQ!Release, Dispatch, HandlerRelease, EQ!Release,
         vars, eventq, atomicq
<1>2. WakePending => WakePending'
  BY <1>1 DEF WakePending
<1> QED
  BY <1>1, <1>2 DEF Inv, Typed, Claimed, StrandedIsTainted

\* The invariant is inductive.
LEMMA EventQStep == Inv /\ [Next]_vars => Inv'
<1> SUFFICES ASSUME Inv, [Next]_vars PROVE Inv'
  OBVIOUS
<1>1. ASSUME NEW s \in Senders, SendStep(s) \/ EventClaim(s) PROVE Inv'
  BY <1>1, EventClaimInv, EventPublishInv, WakeClaimInv, WakeRefusedInv, WakePostInv
     DEF SendStep
<1>2. ASSUME NEW o \in Others, OtherClaim(o) \/ OtherPost(o) PROVE Inv'
  BY <1>2, OtherInv
<1>3. CASE DrainReceive \/ HandlerReceive \/ HandlerWait
  BY <1>3, DrainReceiveInv, HandlerReceiveInv, HandlerWaitInv
<1>4. CASE \/ \E s \in Senders : EventRefused(s)
           \/ DrainRelease \/ Dispatch \/ HandlerRelease
           \/ UNCHANGED vars
  BY <1>4, OtherStepsInv
<1> QED
  BY <1>1, <1>2, <1>3, <1>4 DEF Next, MainStep

\* Whatever the number of senders and the lengths of the queues, an event that
\* fibre_eventq_send leaves in the queue of a sleeping fibre has somebody who is
\* about to wake that fibre, or the kernel is tainted 'A'.
THEOREM NothingStranded == Spec => []StrandedIsTainted
<1>1. Inv => StrandedIsTainted
  BY DEF Inv
<1> QED
  BY EventQInit, EventQStep, <1>1, PTL DEF Spec
=============================================================================
