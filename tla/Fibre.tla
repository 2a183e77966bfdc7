------------------------------- MODULE Fibre --------------------------------
(***************************************************************************)
(* librfn/fibre.c: the run-to-completion fibre scheduler.  One main        *)
(* context calls fibre_scheduler_next and, from a fibre's body or between  *)
(* calls, fibre_run, fibre_kill and fibre_timeout.  Interrupt handlers (or *)
(* other threads) call fibre_run_atomic at any moment; all they share with *)
(* the main context is the message queue atomic_runq, which is a Channel   *)
(* here.  A main-context action reaches to its next access to that queue.  *)
(***************************************************************************)
EXTENDS Integers, Sequences, ListOps

CONSTANTS
    Fibres,
    Irqs,       \* interrupt handlers, each in at most one fibre_run_atomic
    AtomicLen,  \* length of atomic_runq_buf
    Half,       \* 2^31: half of the cycle of the 32-bit clock
    Calls,      \* the services used besides fibre_run_atomic in handlers
    Outcomes,   \* what the bodies return
    Main,       \* the main context as a caller of fibre_run_atomic
    None        \* NULL

ASSUME FibreAssumption ==
    /\ AtomicLen \in 1 .. 32
    /\ Half \in Nat \ {0, 1}
    /\ Calls \subseteq {"run", "kill", "atomic", "timeout"}
    /\ Outcomes \subseteq {"YIELDED", "WAITING", "EXITED", "FAILED"}
    /\ None \notin Fibres /\ None \notin Irqs /\ Main \notin Irqs \cup {None}

Ticks == 0 .. 2 * Half - 1
Returned == {"YIELDED", "WAITING", "EXITED", "FAILED"}
NoCall == [op |-> "none", fibre |-> None, back |-> "idle"]

VARIABLES
    pc,         \* where the main context is
    call,       \* the service it is in: its argument, and who called it
    frames,     \* fibres received by the handle_atomic_runq calls that are
                \* active, one per level of recursion, outermost first
    current,    \* kernel.current
    kstate,     \* kernel.state
    now,        \* kernel.now
    runq,       \* kernel.runq
    timerq,     \* kernel.timerq, each fibre with its duetime
    state,      \* fibre_t.state of each fibre
    priv,       \* fibre_t.priv: the next dispatch starts at the "top" of the
                \* body or in the "middle"
    taint,      \* kernel.taint_flags
    target,     \* what each interrupt handler has claimed a message for
    chan, held  \* kernel.atomic_runq: see Channel

main == <<pc, call, frames>>
kernel == <<current, kstate, now>>
queues == <<runq, timerq>>
fibre == <<state, priv>>
atomic == <<target, chan, held>>
vars == <<main, kernel, queues, fibre, taint, atomic>>

\* A place of the queue that nobody is filling belongs to None.
AQ == INSTANCE Channel
          WITH Senders <- Irqs \cup {Main}, Values <- Fibres,
               Capacity <- AtomicLen, Nobody <- None

-----------------------------------------------------------------------------
(* Time and queues *)

\* cyclecmp32, and duetime_cmp: the difference as a signed number.
CycleCmp(a, b) == ((a - b + Half) % (2 * Half)) - Half

Timer(f, d) == [fibre |-> f, due |-> d]
BugDueCmp(x, y) == x.due - y.due
DueCmp(x, y) == CycleCmp(x.due, y.due)

OnRunq(f) == Contains(runq, LAMBDA x : x = f)
OnTimerq(f) == Contains(timerq, LAMBDA x : x.fibre = f)
OffRunq(f) == Remove(runq, LAMBDA x : x = f)
OffTimerq(f) == Remove(timerq, LAMBDA x : x.fibre = f)

\* (Operators named Bug... are plausible mistakes in the definition that
\* follows them; each breaks a property below.)
BugRunnableTwice(f) ==
    /\ runq' = IF OnRunq(f) THEN runq ELSE Insert(runq, f)
    /\ UNCHANGED timerq

BugRunnableAtHead(f) ==
    IF OnRunq(f)
    THEN UNCHANGED queues
    ELSE /\ timerq' = OffTimerq(f)
         /\ runq' = <<f>> \o runq

\* The body of fibre_run, after its call of handle_atomic_runq.
MakeRunnable(f) ==
    IF OnRunq(f)
    THEN UNCHANGED queues
    ELSE /\ timerq' = OffTimerq(f)
         /\ runq' = Insert(runq, f)

-----------------------------------------------------------------------------

Init ==
    /\ pc = "idle" /\ call = NoCall /\ frames = <<>>
    /\ current = None /\ kstate = "YIELDED" /\ now = 0
    /\ runq = <<>> /\ timerq = <<>>
    /\ state = [f \in Fibres |-> "YIELDED"]
    /\ priv = [f \in Fibres |-> "top"]
    /\ taint = {}
    /\ target = [i \in Irqs |-> None]
    /\ AQ!Init

(* handle_atomic_runq, which fibre_run calls for every fibre it receives *)

\* messageq_receive returns a message; fibre_run on it starts by receiving
\* the next one.
DrainReceive ==
    /\ pc = "drain"
    /\ AQ!Receive
    /\ frames' = Append(frames, Head(chan).val)
    /\ UNCHANGED <<pc, call, kernel, queues, fibre, taint, target>>

\* It returns NULL inside the fibre_run of the innermost level, which goes on.
DrainInsert ==
    /\ pc = "drain" /\ ~ AQ!Ready
    /\ frames # <<>>
    /\ MakeRunnable(frames[Len(frames)])
    /\ pc' = "release"
    /\ UNCHANGED <<call, frames, kernel, fibre, taint, atomic>>

BugDrainRelease ==
    /\ pc = "release"
    /\ frames' = SubSeq(frames, 1, Len(frames) - 1)
    /\ pc' = "drain"
    /\ UNCHANGED <<call, kernel, queues, fibre, taint, atomic>>

\* messageq_release, and round the loop.
DrainRelease ==
    /\ pc = "release"
    /\ AQ!Release
    /\ frames' = SubSeq(frames, 1, Len(frames) - 1)
    /\ pc' = "drain"
    /\ UNCHANGED <<call, kernel, queues, fibre, taint, target>>

\* The outermost handle_atomic_runq is done.
Drained(op) ==
    /\ pc = "drain" /\ ~ AQ!Ready
    /\ frames = <<>>
    /\ call.op = op

-----------------------------------------------------------------------------
(* fibre_scheduler_next *)

BugFastPath ==
    /\ kstate = "YIELDED"
    /\ runq = <<>> /\ timerq = <<>>

\* Nothing but the fibre that yielded: the whole update can be skipped.
FastPath ==
    /\ kstate = "YIELDED"
    /\ runq = <<>> /\ timerq = <<>> /\ ~ AQ!Ready

\* The caller's clock moves on by less than half its cycle between calls.
SchedEnter(t) ==
    /\ pc = "idle"
    /\ CycleCmp(t, now) >= 0
    /\ now' = t
    /\ IF FastPath
       THEN /\ pc' = IF current # None THEN "body" ELSE "wakeup"
            /\ UNCHANGED call
       ELSE /\ pc' = "drain"
            /\ call' = [NoCall EXCEPT !.op = "sched"]
    /\ UNCHANGED <<frames, current, kstate, queues, fibre, taint,
                   atomic>>

SchedDrained ==
    /\ Drained("sched")
    /\ pc' = "update"
    /\ UNCHANGED <<call, frames, kernel, queues, fibre, taint, atomic>>

\* PT_INIT, and what the PT_ macros leave in priv when a body returns: one
\* that yields or waits resumes there; one that exits or fails leaves its
\* resume point as it was.
Restart == [priv EXCEPT ![current] = "top"]

Resume(st) ==
    IF st \in {"YIELDED", "WAITING"}
    THEN [priv EXCEPT ![current] = "middle"]
    ELSE priv

BugUpdateCurrent ==
    /\ pc = "update" /\ current # None
    /\ state' = [state EXCEPT ![current] = kstate]
    /\ IF kstate = "YIELDED"
       THEN /\ pc' = "drain"
            /\ call' = [call EXCEPT !.op = "yield"]
       ELSE /\ pc' = "dispatch"
            /\ UNCHANGED call
    /\ priv' = IF kstate = "EXITED" THEN Restart ELSE priv
    /\ taint' = IF kstate = "FAILED" THEN taint \cup {"F"} ELSE taint
    /\ UNCHANGED <<frames, kernel, queues, atomic>>

\* update_current_state, up to the fibre_run of a fibre that yielded.
UpdateCurrent ==
    /\ pc = "update" /\ current # None
    /\ state' = [state EXCEPT ![current] = kstate]
    /\ IF kstate = "YIELDED"
       THEN /\ pc' = "drain"
            /\ call' = [call EXCEPT !.op = "yield"]
       ELSE /\ pc' = "dispatch"
            /\ UNCHANGED call
    /\ priv' = IF kstate \in {"EXITED", "FAILED"} THEN Restart ELSE priv
    /\ taint' = IF kstate = "FAILED" THEN taint \cup {"F"} ELSE taint
    /\ UNCHANGED <<frames, kernel, queues, atomic>>

UpdateNobody ==
    /\ pc = "update" /\ current = None
    /\ pc' = "dispatch"
    /\ UNCHANGED <<call, frames, kernel, queues, fibre, taint, atomic>>

YieldDrained ==
    /\ Drained("yield")
    /\ MakeRunnable(current)
    /\ pc' = "dispatch"
    /\ UNCHANGED <<call, frames, kernel, fibre, taint, atomic>>

\* handle_timerq moves the leading fibres whose time has come, in order.
Due(x) == CycleCmp(x.due, now) <= 0

Expired ==
    CHOOSE n \in 0 .. Len(timerq) :
        /\ \A i \in 1 .. n : Due(timerq[i])
        /\ n < Len(timerq) => ~ Due(timerq[n + 1])

\* handle_timerq and get_next_task
Dispatch ==
    LET due == [i \in 1 .. Expired |-> timerq[i].fibre]
        ready == runq \o due
    IN  /\ pc = "dispatch"
        /\ timerq' = SubSeq(timerq, Expired + 1, Len(timerq))
        /\ IF ready = <<>>
           THEN /\ current' = None /\ runq' = <<>>
                /\ pc' = "wakeup"
           ELSE /\ current' = Head(ready) /\ runq' = Tail(ready)
                /\ pc' = "body"
        /\ call' = NoCall
        /\ UNCHANGED <<frames, kstate, now, fibre, taint, atomic>>

\* current->fn returns.
BodyReturn(st) ==
    /\ pc = "body"
    /\ kstate' = st
    /\ pc' = "wakeup"
    /\ priv' = Resume(st)
    /\ UNCHANGED <<call, frames, current, now, queues, state, taint,
                   atomic>>

BugNextWakeup ==
    IF AQ!Ready \/ runq # <<>> THEN now
    ELSE IF timerq = <<>> THEN (now + Half - 1) % (2 * Half)
    ELSE Head(timerq).due

BugWakeupWide ==
    IF current # None /\ kstate = "YIELDED" THEN now
    ELSE IF AQ!Ready \/ runq # <<>> THEN now
    ELSE IF timerq = <<>> THEN now + Half - 1
    ELSE Head(timerq).due

\* get_next_wakeup, or kernel.now at once for a fibre that yielded
NextWakeup ==
    IF current # None /\ kstate = "YIELDED" THEN now
    ELSE IF AQ!Ready \/ runq # <<>> THEN now
    ELSE IF timerq = <<>> THEN (now + Half - 1) % (2 * Half)
    ELSE Head(timerq).due

\* fibre_scheduler_next returns NextWakeup.
SchedReturn ==
    /\ pc = "wakeup"
    /\ pc' = "idle"
    /\ UNCHANGED <<call, frames, kernel, queues, fibre, taint, atomic>>

-----------------------------------------------------------------------------
(* Services called by a fibre's body, or between two calls of the scheduler *)

Enter(op, f) ==
    /\ op \in Calls
    /\ pc \in {"idle", "body"}
    /\ call' = [op |-> op, fibre |-> f, back |-> pc]

CallDrain(op, f) ==
    /\ Enter(op, f)
    /\ pc' = "drain"
    /\ UNCHANGED <<frames, kernel, queues, fibre, taint, atomic>>

RunCall(f) == CallDrain("run", f)
KillCall(f) == CallDrain("kill", f)

Return == pc' = call.back /\ call' = NoCall

RunDrained ==
    /\ Drained("run")
    /\ MakeRunnable(call.fibre)
    /\ Return
    /\ UNCHANGED <<frames, kernel, fibre, taint, atomic>>

KillDrained ==
    /\ Drained("kill")
    /\ runq' = OffRunq(call.fibre)
    /\ timerq' = OffTimerq(call.fibre)
    /\ Return
    /\ UNCHANGED <<frames, kernel, fibre, taint, atomic>>

\* fibre_timeout with a time that has not come.  (It returns true and changes
\* nothing otherwise; and on a fibre that is on runq it sets only duetime,
\* which is read only while the fibre is on timerq.)  A body that sleeps waits
\* next: it does not call this twice in one dispatch.
Sleep(d) ==
    /\ "timeout" \in Calls
    /\ pc = "body"
    /\ CycleCmp(d, now) > 0
    /\ ~ OnRunq(current)
    /\ ~ OnTimerq(current)
    /\ timerq' = InsertSorted(timerq, Timer(current, d), DueCmp)
    /\ UNCHANGED <<main, kernel, runq, fibre, taint, atomic>>

\* fibre_run_atomic called by the main context: the claim...
AtomicCall(f) ==
    /\ Enter("atomic", f)
    /\ AQ!Claim(Main)
    /\ pc' = "send"
    /\ UNCHANGED <<frames, kernel, queues, fibre, taint, target>>

AtomicRefused ==
    /\ "atomic" \in Calls
    /\ pc \in {"idle", "body"}
    /\ ~ AQ!Room
    /\ taint' = taint \cup {"A"}
    /\ UNCHANGED <<main, kernel, queues, fibre, atomic>>

\* ... and the store and the send.
AtomicSend ==
    /\ pc = "send"
    /\ AQ!Send(Main, call.fibre)
    /\ Return
    /\ UNCHANGED <<frames, kernel, queues, fibre, taint, target>>

-----------------------------------------------------------------------------
(* fibre_run_atomic in an interrupt handler *)

BugIrqClaim(i, f) ==
    /\ target[i] = None
    /\ AQ!Room
    /\ chan' = Append(chan, [owner |-> None, val |-> None])
    /\ target' = [target EXCEPT ![i] = f]
    /\ UNCHANGED <<main, kernel, queues, fibre, taint, held>>

IrqClaim(i, f) ==
    /\ target[i] = None
    /\ AQ!Claim(i)
    /\ target' = [target EXCEPT ![i] = f]
    /\ UNCHANGED <<main, kernel, queues, fibre, taint>>

IrqRefused(i) ==
    /\ target[i] = None
    /\ ~ AQ!Room
    /\ taint' = taint \cup {"A"}
    /\ UNCHANGED <<main, kernel, queues, fibre, atomic>>

IrqSend(i) ==
    /\ target[i] # None
    /\ AQ!Send(i, target[i])
    /\ target' = [target EXCEPT ![i] = None]
    /\ UNCHANGED <<main, kernel, queues, fibre, taint>>

-----------------------------------------------------------------------------

DrainStep == DrainReceive \/ DrainInsert \/ DrainRelease

MainStep ==
    \/ DrainStep
    \/ SchedDrained \/ YieldDrained \/ RunDrained \/ KillDrained
    \/ UpdateCurrent \/ UpdateNobody
    \/ Dispatch
    \/ \E st \in Outcomes : BodyReturn(st)
    \/ SchedReturn
    \/ AtomicSend

Service ==
    \/ \E f \in Fibres :
          RunCall(f) \/ KillCall(f) \/ AtomicCall(f)
    \/ AtomicRefused
    \/ \E d \in Ticks : Sleep(d)

SchedCall == \E t \in Ticks : SchedEnter(t)

IrqStep(i) == IrqRefused(i) \/ IrqSend(i) \/ \E f \in Fibres : IrqClaim(i, f)

Next == MainStep \/ Service \/ SchedCall \/ \E i \in Irqs : IrqStep(i)

Spec == Init /\ [][Next]_vars

\* The main loop keeps calling the scheduler, code that is running goes on
\* running, and a handler that has claimed a message sends it.
Fairness ==
    /\ WF_vars(MainStep)
    /\ WF_vars(SchedCall)
    /\ \A i \in Irqs : WF_vars(IrqSend(i))

FairSpec == Spec /\ Fairness

-----------------------------------------------------------------------------
(* Properties *)

TypeOK ==
    /\ pc \in {"idle", "drain", "release", "update", "dispatch", "body",
               "wakeup", "send"}
    /\ call \in [op : {"none", "sched", "yield", "run", "kill", "atomic"},
                fibre : Fibres \cup {None}, back : {"idle", "body"}]
    /\ frames \in Seq(Fibres)
    /\ current \in Fibres \cup {None}
    /\ kstate \in Returned
    /\ now \in Ticks
    /\ runq \in Seq(Fibres)
    /\ timerq \in Seq([fibre : Fibres, due : Ticks])
    /\ state \in [Fibres -> Returned]
    /\ priv \in [Fibres -> {"top", "middle"}]
    /\ taint \subseteq {"A", "F"}
    /\ target \in [Irqs -> Fibres \cup {None}]
    /\ chan \in Seq([owner : Irqs \cup {Main, None}, val : Fibres \cup {None}])
    /\ held \in Seq(Fibres)

\* fibre_t has one link: a fibre is at most once on one of the two queues.
\* (Inserting it a second time would cut or close the list.)
OneLink ==
    /\ \A i, j \in 1 .. Len(runq) : runq[i] = runq[j] => i = j
    /\ \A i, j \in 1 .. Len(timerq) :
          timerq[i].fibre = timerq[j].fibre => i = j
    /\ \A i \in 1 .. Len(runq), j \in 1 .. Len(timerq) :
          runq[i] # timerq[j].fibre

\* handle_atomic_runq recurses through fibre_run as deep as messages arrive,
\* but never deeper than the queue is long, because an active level has not
\* released its message; and when the outermost level returns, every message
\* it took has been given back.
DrainDiscipline ==
    /\ Len(frames) = Len(held)
    /\ Len(frames) + Len(chan) =< AtomicLen
    /\ pc \notin {"drain", "release"} => frames = <<>>

\* The scheduler has looked at the timers since the clock moved.
Settled == call.op \notin {"sched", "yield"}

\* timerq is in order of due time although times wrap around, so that looking
\* at its head is enough; and no fibre is left on it once its time has come.
TimersInOrder ==
    /\ \A i, j \in 1 .. Len(timerq) : i < j => DueCmp(timerq[i], timerq[j]) =< 0
    /\ Settled => \A i \in 1 .. Len(timerq) : ~ Due(timerq[i])

\* A fibre that exited or failed is started from the top of its body when it
\* is dispatched again, whichever way it was made runnable.
RestartFromTop ==
    [][pc = "dispatch" /\ pc' = "body" /\ state[current'] \in {"EXITED", "FAILED"}
         => priv[current'] = "top"]_vars

\* The time that fibre_scheduler_next returns is never too late: not after now
\* when a fibre can run, and not after any fibre's due time.
WakeupSound ==
    pc = "wakeup" =>
        /\ NextWakeup \in Ticks /\ CycleCmp(NextWakeup, now) >= 0
        /\ runq # <<>> \/ AQ!Ready \/ (current # None /\ kstate = "YIELDED")
               => NextWakeup = now
        /\ \A i \in 1 .. Len(timerq) : CycleCmp(NextWakeup, timerq[i].due) =< 0

Position(f) == CHOOSE i \in 1 .. Len(runq) : runq[i] = f

\* A fibre on the run queue only moves towards its head: neither fibres that
\* yield, nor timers, nor interrupt handlers get in front of it.
NeverOvertaken ==
    [][\A f \in Fibres :
          OnRunq(f) /\ OnRunq(f)' => Position(f)' =< Position(f)]_vars

\* f was asked for by fibre_run_atomic and is not on the run queue yet.
Posted(f) ==
    \/ \E i \in 1 .. Len(chan) : chan[i] = [owner |-> None, val |-> f]
    \/ \E i \in 1 .. Len(frames) : frames[i] = f

\* No wake-up is lost: as long as calls of the scheduler return (bodies run to
\* completion and interrupts do not come without end), a fibre that was asked
\* for gets on the run queue, and one on the run queue is dispatched.
NoLostWakeup ==
    []<>(pc = "wakeup") =>
        \A f \in Fibres : /\ Posted(f) ~> OnRunq(f)
                          /\ OnRunq(f) ~> ~ OnRunq(f)
=============================================================================
