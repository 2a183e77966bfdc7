------------------------------ MODULE Stopwatch ------------------------------
(***************************************************************************)
(* src/fibredemo.c: a fibre that sleeps from second to second and sends    *)
(* the time to another one, which shows it, through an event queue; and,   *)
(* when the time given to the program has come, the event that makes it    *)
(* exit.  One step is a call of the scheduler, or one pass of the loop in  *)
(* the body of a fibre.  The process may be stalled for several seconds.   *)
(***************************************************************************)
EXTENDS Integers, RunQ

CONSTANTS
    Minute,     \* 60
    EventRoom,  \* places of update_eventq, and of atomic_runq: 8 both
    Args,       \* what sscanf finds in argv[1]: <<>>, <<s>> or <<m, s>>
    LongStall,  \* seconds that a stall takes, at most
    Stalls,     \* and how many there are
    MaxMinutes, \* minutes stops counting here
    SecondsMod  \* 2^32 microseconds, in seconds

VARIABLES
    wq,             \* the scheduler's queues
    now, due,       \* kernel.now, and clock->time, in seconds
    asleep, body,   \* is the stopwatch on timerq; whose body runs, if any
    minutes, seconds, exit_after, \* the stopwatch
    events,         \* the events sent and not released
    shown, exited,  \* what the terminal shows; did the process exit?
    faults, stalls, \* kernel.taint_flags; stalls to come
    began           \* when the stopwatch was started (only properties read it)

vars == <<wq, now, due, asleep, body, minutes, seconds, exit_after, events,
          shown, exited, faults, stalls, began>>
record == <<minutes, seconds, exit_after>>

CycleCmp(a, b) == ((a - b + SecondsMod \div 2) % SecondsMod) - SecondsMod \div 2

\* main: exit_after_minutes and exit_after_seconds
Parse(arg) == CASE Len(arg) = 0 -> [m |-> 0, s |-> 0]
                [] Len(arg) = 1 -> [m |-> 0, s |-> arg[1]]
                [] OTHER -> [m |-> arg[1], s |-> arg[2]]

Init ==
    /\ wq = Run(Run(NoFibres, "stopwatch"), "updater")
    /\ now \in 0 .. SecondsMod - 1 /\ due = 0 /\ asleep = FALSE /\ body = "none"
    /\ minutes = 0 /\ seconds = 0 /\ exit_after \in {Parse(arg) : arg \in Args}
    /\ events = <<>> /\ shown = [m |-> 0, s |-> -1] /\ exited = FALSE
    /\ faults = {} /\ stalls = Stalls /\ began = 0

Time == [m |-> minutes, s |-> seconds]

\* clock->seconds += 1
Later(t) == IF t.s + 1 < Minute THEN [t EXCEPT !.s = @ + 1]
            ELSE [m |-> IF t.m < MaxMinutes THEN t.m + 1 ELSE t.m, s |-> 0]

-----------------------------------------------------------------------------
(* The main loop *)

Expired == IF asleep /\ CycleCmp(due, now) <= 0 THEN <<"stopwatch">> ELSE <<>>
Chosen == Choice(wq, <<>>, Expired).run

\* fibre_scheduler_next, up to the body.  The stopwatch starts from the time
\* at which it is first called, or has slept for one more second.
Dispatch ==
    /\ body = "none" /\ ~ exited /\ Chosen # <<>>
    /\ body' = Head(Chosen)
    /\ wq' = [run |-> Tail(Chosen), posted |-> <<>>]
    /\ asleep' = (asleep /\ Expired = <<>>)
    /\ IF Head(Chosen) = "stopwatch"
       THEN IF shown.s = -1 /\ ~ asleep
            THEN due' = now /\ began' = now /\ UNCHANGED record
            ELSE /\ minutes' = Later(Time).m /\ seconds' = Later(Time).s
                 /\ UNCHANGED <<due, began, exit_after>>
       ELSE UNCHANGED <<due, began, record>>
    /\ UNCHANGED <<now, events, shown, exited, faults, stalls>>

\* The loop keeps up with the clock...
Tick ==
    /\ body = "none" /\ ~ exited /\ Chosen = <<>>
    /\ now' = (now + 1) % SecondsMod
    /\ UNCHANGED <<wq, due, asleep, body, record, events, shown, exited, faults, stalls, began>>

\* ... but for the times when the process does not run.
Stall(n) ==
    /\ body = "none" /\ ~ exited /\ stalls > 0
    /\ now' = (now + n) % SecondsMod /\ stalls' = stalls - 1
    /\ UNCHANGED <<wq, due, asleep, body, record, events, shown, exited, faults, began>>

-----------------------------------------------------------------------------
(* stopwatch_fibre *)

\* fibre_eventq_claim and _send of some events, one after the other: an event
\* that finds no place taints the kernel, a wake-up that finds none too.
BugReport == [id |-> "time", at |-> Later(Time)]
Report == [id |-> "time", at |-> Time]
Expiry == [id |-> "exit", at |-> Time]
Places == 1 .. EventRoom - Len(events)
Sent(todo) == [k \in DOMAIN todo \cap Places |-> todo[k]]
Posted(todo) == DOMAIN Sent(todo) \cap (1 .. EventRoom - Len(wq.posted))
PostAll(todo) == [wq EXCEPT !.posted = wq.posted \o [k \in Posted(todo) |-> "updater"]]

BugTimeIsUp ==
    /\ exit_after # [m |-> 0, s |-> 0]
    /\ exit_after.m = minutes /\ exit_after.s = seconds

TimeIsUp ==
    /\ exit_after # [m |-> 0, s |-> 0]
    /\ exit_after.m <= minutes /\ exit_after.s <= seconds

BugPass ==
    LET todo == IF TimeIsUp THEN <<Report, Expiry>> ELSE <<Report>>
    IN  /\ body = "stopwatch"
        /\ events' = events \o Sent(todo)
        /\ wq' = PostAll(todo)
        /\ faults' = faults \cup (IF Sent(todo) # todo THEN {"E"} ELSE {})
        /\ due' = (now + 1) % SecondsMod
        /\ asleep' = TRUE /\ body' = "none" /\ UNCHANGED record
        /\ UNCHANGED <<now, shown, exited, stalls, began>>

\* Once round the loop: a second that is over already is counted at once.
Pass ==
    LET todo == IF TimeIsUp THEN <<Report, Expiry>> ELSE <<Report>>
        overdue == CycleCmp((due + 1) % SecondsMod, now) <= 0
    IN  /\ body = "stopwatch"
        /\ events' = events \o Sent(todo)
        /\ wq' = PostAll(todo)
        /\ faults' = faults \cup (IF Sent(todo) # todo THEN {"E"} ELSE {})
                            \cup (IF Len(wq.posted) + Len(Sent(todo)) > EventRoom
                                  THEN {"A"} ELSE {})
        /\ due' = (due + 1) % SecondsMod
        /\ IF overdue
           THEN /\ minutes' = Later(Time).m /\ seconds' = Later(Time).s
                /\ UNCHANGED <<exit_after, asleep, body>>
           ELSE asleep' = TRUE /\ body' = "none" /\ UNCHANGED record
        /\ UNCHANGED <<now, shown, exited, stalls, began>>

-----------------------------------------------------------------------------
(* update_handler *)

\* It receives an event, shows it and releases it.
Show ==
    /\ body = "updater" /\ ~ exited /\ events # <<>>
    /\ IF Head(events).id = "exit" THEN exited' = TRUE /\ UNCHANGED shown
       ELSE shown' = Head(events).at /\ UNCHANGED exited
    /\ events' = Tail(events)
    /\ UNCHANGED <<wq, now, due, asleep, body, record, faults, stalls, began>>

ShowNoMore ==
    /\ body = "updater" /\ ~ exited /\ events = <<>>
    /\ body' = "none"
    /\ UNCHANGED <<wq, now, due, asleep, record, events, shown, exited, faults, stalls, began>>

Next == Dispatch \/ Tick \/ Pass \/ Show \/ ShowNoMore \/ \E n \in 2 .. LongStall : Stall(n)

-----------------------------------------------------------------------------
(* Properties *)

Idle == body = "none" /\ ~ exited /\ Chosen = <<>>

\* Whatever the stalls, the terminal shows the time since the start whenever the
\* process is idle, and the program exits at the time it was given; unless the
\* kernel is tainted 'E' (errors are logged as scheduler taints, as the comment
\* at fibredemo.c:116 has it), because more seconds went by in a stall than there
\* are places for events.  A wake-up of the updater is never refused, and none is
\* missing.
InStep ==
    /\ exited /\ faults = {} => shown = exit_after
    /\ Idle /\ faults = {} /\ minutes < MaxMinutes =>
           shown.m * Minute + shown.s = (now - began) % SecondsMod
    /\ "A" \notin faults
    /\ events # <<>> => body = "updater" \/ Contains(Drain(wq).run, "updater")

\* No second is left out on the terminal and none is shown twice, in whichever
\* bursts they come after a stall.
SecondBySecond == shown' # shown /\ faults = {} => shown' = Later(shown)

\* In the end the program exits, even when the claim for the event that says so
\* was refused at first.  (Given a time of 60 seconds or more it does not.)
Expires == exit_after # [m |-> 0, s |-> 0] => <>exited
=============================================================================
