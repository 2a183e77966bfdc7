------------------------------- MODULE Library -------------------------------
(***************************************************************************)
(* The smaller parts of the library, and its demonstration programs,       *)
(* checked together.  They share no state: which chooses one of them at    *)
(* the start, and the others stay in their initial states.                 *)
(***************************************************************************)
EXTENDS Integers, FiniteSets

CONSTANTS
    LogLen, HeadLimit, LogLines,        \* MLog
    CountMod, InternalMod,              \* RotEnc
    Cycle, Window, Limit, MaxCount,     \* RateLimit
    Word,                               \* Fader
    Letters, OutLen,                    \* StmConsole
    RingRoom,                           \* LogRing
    EchoRoom, PostRoom, Packet,         \* CdcAcm
    Cycles, Repeats, WarmUp, ClockMod,  \* Bench
    Minute, EventRoom, LongStall, Stalls, MaxMinutes, SecondsMod, \* Stopwatch
    Consoles,                           \* GpioCmd
    Short, Nap, Sleeps, Spins, Typeahead, WallMod \* MainLoop

VARIABLES
    which,
    line, head, recent,                                     \* MLog
    last_state, count, internal_count, clicks, quarter, detent, \* RotEnc
    clock, rs, age, permitted, refusal,                     \* RateLimit
    val, goal, step, from, nsteps, calls, done,             \* Fader
    outring, txeie, mpc, mchar, mwritei,                    \* StmConsole
    logring, logged, before, gone,                          \* LogRing
    echoring, task, ch, ep, settled, posts, tainted,        \* CdcAcm
    bq, yielded, ticks, bm, stage, round, warm, stats, took, ended, \* Bench
    wq, now, due, asleep, body, minutes, seconds, exit_after, events, shown,
    exited, faults, stalls, began,                          \* Stopwatch
    family, flags, latch, mode, pulsing, asked, known,      \* GpioCmd
    wall, slow, at_step, kernel_now, sleep_until, nap, typed_lines, posted,
    waited, busy, wake_at, on_timer                         \* MainLoop

\* MLog: head is folded back to where the array is still full.
ASSUME LogAssumption ==
    /\ LogLen \in Nat \ {0} /\ HeadLimit \in Nat /\ 2 * LogLen =< HeadLimit
    /\ "NULL" \notin LogLines

\* RotEnc: a click is four states, the counter holds whole clicks, and the clicks
\* that it tells apart are whole turns of count.
ASSUME KnobAssumption ==
    /\ CountMod \in Nat \ {0} /\ InternalMod \in Nat \ {0} /\ InternalMod % 4 = 0
    /\ (InternalMod \div 4) % CountMod = 0

\* LogRing, StmConsole and CdcAcm: the sizes of their rings
ASSUME RingAssumption ==
    RingRoom \in Nat \ {0} /\ OutLen \in Nat \ {0} /\ PostRoom \in Nat

\* RateLimit: a window is shorter than half a clock cycle, so that time differences
\* in it have a sign, and lets an event pass.
ASSUME RateAssumption ==
    /\ Cycle \in Nat \ {0} /\ Window \in Nat /\ 2 * Window + 1 < Cycle
    /\ Limit \in Nat \ {0}

\* Fader: half the words stand for negative numbers.
ASSUME FadeAssumption == Word \in Nat \ {0} /\ Word % 2 = 0

\* GpioCmd: a console is a fibre with its own struct.
ASSUME PinAssumption == IsFiniteSet(Consoles)

\* MainLoop: what the loop sleeps, and what a command is given, is well below half a
\* cycle of the clock, beyond which cyclecmp32 takes late for early.
ASSUME LoopAssumption ==
    /\ Short \in Nat \ {0} /\ Nap \in Nat /\ Short < Nap
    /\ WallMod \in Nat /\ Nap + 4 < WallMod \div 2
    /\ Spins \subseteq Nat /\ Sleeps \subseteq Nat
    /\ \A d \in Sleeps : d + 4 < WallMod \div 2

\* Bench: the clock does not go round before all the samples of a stage are added.
ASSUME BenchAssumption ==
    /\ Cycles \in Nat \ {0} /\ Repeats \in Nat \ {0} /\ ClockMod \in Nat
    /\ Repeats * (2 * Cycles + 1) < ClockMod

\* Stopwatch: the minutes that it counts are a cycle of the clock at most, and the
\* stalls less than half a one; the times given to the program are under Minute.
ASSUME WatchAssumption ==
    /\ Minute \in Nat /\ Minute > 2 /\ EventRoom \in Nat \ {0}
    /\ MaxMinutes \in Nat /\ SecondsMod \in Nat /\ MaxMinutes * Minute =< SecondsMod
    /\ Stalls \in Nat /\ LongStall \in Nat
    /\ Stalls * LongStall + 1 < SecondsMod \div 2

Log == INSTANCE MLog
Knob == INSTANCE RotEnc
Rate == INSTANCE RateLimit
Fade == INSTANCE Fader
Stm == INSTANCE StmConsole
Ring == INSTANCE LogRing
Usb == INSTANCE CdcAcm
Bench == INSTANCE Bench
Watch == INSTANCE Stopwatch WITH Args <- {<<>>, <<2>>, <<1, 1>>}
Gpio == INSTANCE GpioCmd
Loop == INSTANCE MainLoop

log == <<line, head, recent>>
knob == <<last_state, count, internal_count, clicks, quarter, detent>>
rate == <<clock, rs, age, permitted, refusal>>
fade == <<val, goal, step, from, nsteps, calls, done>>
stm == <<outring, txeie, mpc, mchar, mwritei>>
ring == <<logring, logged, before, gone>>
usb == <<echoring, task, ch, ep, settled, posts, tainted>>
parts == <<log, knob, rate, fade, stm, ring, usb>>
bench == <<bq, yielded, ticks, bm, stage, round, warm, stats, took, ended>>
watch == <<wq, now, due, asleep, body, minutes, seconds, exit_after, events, shown,
           exited, faults, stalls, began>>
gpio == <<family, flags, latch, mode, pulsing, asked, known>>
loop == <<wall, slow, at_step, kernel_now, sleep_until, nap, typed_lines, posted,
          waited, busy, wake_at, on_timer>>
more == <<bench, watch, gpio, loop>>
vars == <<which, parts, more>>

Parts == {"log", "knob", "rate", "fade", "stm", "ring", "usb",
          "bench", "watch", "gpio", "loop"}

\* The initial states of the parts
Start ==
    /\ Log!Init /\ Knob!Init
    /\ Rate!Init /\ (which # "rate" => clock = 0)
    /\ Fade!Init /\ Stm!Init /\ Ring!Init /\ Usb!Init
    /\ Bench!Init /\ (which # "bench" => ticks = 0)
    /\ Watch!Init /\ now = SecondsMod - 3 /\ (which # "watch" => exit_after.s = 0)
    /\ Gpio!Init /\ (which # "gpio" => family = "F1" /\ flags = {})
    /\ Loop!Init

Init == which \in Parts /\ Start

LogStep ==
    /\ which = "log" /\ Log!Next
    /\ UNCHANGED <<which, knob, rate, fade, stm, ring, usb, more>>

KnobStep ==
    /\ which = "knob" /\ Knob!Next
    /\ UNCHANGED <<which, log, rate, fade, stm, ring, usb, more>>

RateStep ==
    /\ which = "rate" /\ Rate!Next
    /\ UNCHANGED <<which, log, knob, fade, stm, ring, usb, more>>

FadeStep ==
    /\ which = "fade" /\ Fade!Next
    /\ UNCHANGED <<which, log, knob, rate, stm, ring, usb, more>>

StmStep ==
    /\ which = "stm" /\ Stm!Next
    /\ UNCHANGED <<which, log, knob, rate, fade, ring, usb, more>>

RingStep ==
    /\ which = "ring" /\ Ring!Next
    /\ UNCHANGED <<which, log, knob, rate, fade, stm, usb, more>>

UsbStep ==
    /\ which = "usb" /\ Usb!Next
    /\ UNCHANGED <<which, log, knob, rate, fade, stm, ring, more>>

BenchStep ==
    /\ which = "bench" /\ Bench!Next
    /\ UNCHANGED <<which, parts, watch, gpio, loop>>

WatchStep ==
    /\ which = "watch" /\ Watch!Next
    /\ UNCHANGED <<which, parts, bench, gpio, loop>>

GpioStep ==
    /\ which = "gpio" /\ Gpio!Next
    /\ UNCHANGED <<which, parts, bench, watch, loop>>

LoopStep ==
    /\ which = "loop" /\ Loop!Next
    /\ UNCHANGED <<which, parts, bench, watch, gpio>>

\* The parts that come to an end
Exited ==
    /\ \/ which = "bench" /\ stage = 5
       \/ which = "watch" /\ exited
    /\ UNCHANGED vars

Next == LogStep \/ KnobStep \/ RateStep \/ FadeStep \/ StmStep \/ RingStep
        \/ UsbStep \/ BenchStep \/ WatchStep \/ GpioStep \/ LoopStep \/ Exited

\* Fairness: the scheduler of the two demonstration programs is called again and
\* again.
Spec ==
    /\ Init /\ [][Next]_vars
    /\ WF_vars(BenchStep) /\ WF_vars(WatchStep)

-----------------------------------------------------------------------------
(* Each property is stated, and its comment is, in the part's own module. *)

\* MLog: mlog_dump shows the last lines in order.
\* LogRing: the ring holds whole lines, the last ones.
ShowsRecent == Log!ShowsRecent /\ Ring!WholeLines

\* RotEnc: the counts are the position of the knob, bounces notwithstanding.
CountsClicks == Knob!CountsClicks

\* RateLimit: at most n events in a window, and none refused after it.
LimitsRate == Rate!LimitsRate

\* Fader: a fade stays between its ends and arrives.
FadesToGoal == Fade!FadesToGoal

\* StmConsole: bytes in the output ring are on their way.
\* CdcAcm: output_fibre runs again while there is something to send.
OutputIsServed == Stm!OutputIsArmed /\ Usb!OutputIsServed

\* Bench: every sample is the time that its stage took.
\* Stopwatch: the time shown is the time that has gone by.
KeepsTime == Bench!Measured /\ Watch!InStep

\* Stopwatch: every second is shown once.
SecondBySecond == [][Watch!SecondBySecond]_vars

\* MainLoop: no command waits for too long, no key is overlooked.
InTime == Loop!InTime

\* MainLoop: no command waits for less than it was told to.
NeverEarly == [][Loop!WaitsItOut]_vars

\* GpioCmd: a pin has the level that it was asked to have.
PinAsAsked == Gpio!PinAsAsked
=============================================================================
