------------------------------ MODULE MainLoop ------------------------------
(***************************************************************************)
(* A POSIX program that runs fibres: the main loop (posix/fibre_posix.c),  *)
(* which sleeps until there is something to do or for a short nap, a       *)
(* console that has commands that wait (src/consoledemo.c), and the        *)
(* thread that injects what is typed (posix/console_posix.c).  Time goes   *)
(* on between the steps, by a tick at most in each.                        *)
(***************************************************************************)
EXTENDS Integers, Sequences

CONSTANTS
    Short, Nap, \* 1000 and 50000 microseconds, in ticks
    Sleeps, Spins,  \* what usleep and udelay are given
    Typeahead,  \* lines that the console's ring holds
    WallMod     \* 2^32 microseconds, in ticks

VARIABLES
    wall, slow,         \* the clock, and has the step under way had its tick?
    at_step,            \* where the loop is
    kernel_now, sleep_until, nap,   \* its variables, and the rest of its usleep
    typed_lines,        \* what the ring holds: commands and their delays
    posted, waited,     \* is the console in atomic_runq, and for how long?
    busy, wake_at,      \* the command that waits, and scratch.u32[1]
    on_timer            \* is the console on the timer queue, or did it yield?

vars == <<wall, slow, at_step, kernel_now, sleep_until, nap, typed_lines, posted, waited,
          busy, wake_at, on_timer>>
loop == <<at_step, kernel_now, sleep_until, nap>>
console == <<typed_lines, posted, waited, busy, wake_at, on_timer>>

CycleCmp(a, b) == ((a - b + WallMod \div 2) % WallMod) - WallMod \div 2

\* console_init has called fibre_run.
Init ==
    /\ wall = 0 /\ slow = FALSE
    /\ at_step = "call" /\ kernel_now = 0 /\ sleep_until = 0 /\ nap = 0
    /\ typed_lines = <<>> /\ posted = TRUE /\ waited = 0
    /\ busy = "none" /\ wake_at = 0 /\ on_timer = FALSE

-----------------------------------------------------------------------------
(* The world *)

Tick ==
    /\ ~ slow \/ nap > 0
    /\ wall' = (wall + 1) % WallMod
    /\ IF nap > 0 THEN nap' = nap - 1 /\ UNCHANGED slow ELSE slow' = TRUE /\ UNCHANGED nap
    /\ waited' = IF posted THEN waited + 1 ELSE 0
    /\ UNCHANGED <<at_step, kernel_now, sleep_until, typed_lines, posted, busy, wake_at,
                   on_timer>>

\* injector: console_putchar, of a line's end; a full ring drops it, and the
\* console is woken all the same.
Type(line) ==
    /\ typed_lines' = IF Len(typed_lines) < Typeahead THEN Append(typed_lines, line)
                      ELSE typed_lines
    /\ posted' = TRUE
    /\ UNCHANGED <<wall, slow, loop, waited, busy, wake_at, on_timer>>

-----------------------------------------------------------------------------
(* fibre_scheduler_main_loop and fibre_scheduler_next *)

GoTo(s) == at_step' = s /\ slow' = FALSE /\ UNCHANGED wall

\* time_now() is read for fibre_scheduler_next.
Call ==
    /\ at_step = "call" /\ kernel_now' = wall
    /\ GoTo("run") /\ UNCHANGED <<sleep_until, nap, console>>

Runnable == posted \/ busy = "udelay" \/ (on_timer /\ CycleCmp(wake_at, kernel_now) <= 0)

BugOver == busy = "none" \/ posted \/ CycleCmp(wake_at, kernel_now) <= 0

\* console_usleep asks fibre_timeout, console_udelay the clock.
Over == CASE busy = "usleep" -> CycleCmp(wake_at, kernel_now) <= 0
          [] busy = "udelay" -> CycleCmp(wall, wake_at) >= 0
          [] OTHER -> TRUE

\* The console goes on waiting, on the timer queue again if a key woke it; or
\* the command is over, do_prompt clears the scratch buffer, and the next line, if
\* there is one, is a new command.
Run ==
    /\ at_step = "run" /\ Runnable
    /\ posted' = FALSE /\ waited' = 0
    /\ IF ~ Over THEN on_timer' = (busy = "usleep") /\ UNCHANGED <<busy, wake_at, typed_lines>>
       ELSE IF typed_lines = <<>>
       THEN busy' = "none" /\ wake_at' = 0 /\ on_timer' = FALSE /\ UNCHANGED typed_lines
       ELSE LET line == Head(typed_lines)
            IN  /\ busy' = line.cmd /\ wake_at' = (wall + line.delay) % WallMod
                /\ on_timer' = (line.cmd = "usleep")
                /\ typed_lines' = Tail(typed_lines)
    /\ GoTo("return") /\ UNCHANGED <<kernel_now, sleep_until, nap>>

NothingToRun ==
    /\ at_step = "run" /\ ~ Runnable
    /\ GoTo("return") /\ UNCHANGED <<kernel_now, sleep_until, nap, console>>

\* get_next_wakeup
Return ==
    /\ at_step = "return"
    /\ sleep_until' = CASE busy = "udelay" \/ posted -> kernel_now
                        [] on_timer /\ busy # "udelay" /\ ~ posted -> wake_at
                        [] OTHER -> (kernel_now + WallMod \div 2 - 1) % WallMod
    /\ GoTo("interval") /\ UNCHANGED <<kernel_now, nap, console>>

BugInterval(interval) == interval

Interval(interval) == IF interval < Short THEN interval ELSE Nap

\* time_now() is read again, and usleep called if there is time to sleep.
Sleep ==
    /\ at_step = "interval"
    /\ LET interval == Interval(CycleCmp(sleep_until, wall))
       IN  nap' = IF interval > 0 THEN interval ELSE 0
    /\ sleep_until' = 0 /\ GoTo("asleep") /\ UNCHANGED <<kernel_now, console>>

Wake == at_step = "asleep" /\ nap = 0 /\ GoTo("call")
        /\ UNCHANGED <<kernel_now, sleep_until, nap, console>>

Next ==
    \/ Tick
    \/ \E d \in Sleeps : Type([cmd |-> "usleep", delay |-> d])
    \/ \E d \in Spins : Type([cmd |-> "udelay", delay |-> d])
    \/ Call \/ Run \/ NothingToRun \/ Return \/ Sleep \/ Wake

-----------------------------------------------------------------------------
(* Properties *)

Steps == 4

\* A sleeping command ends at most a nap after its time, less what a nap is not
\* taken for, and what is typed is looked at within a nap; plus the ticks of the
\* loop's steps.  A key that comes between the scheduler's return and the sleep
\* changes nothing, nor does the clock when it wraps.
InTime ==
    /\ busy = "usleep" => CycleCmp(wall, wake_at) <= Nap - Short + Steps
    /\ waited <= Nap + Steps

\* No key that wakes the console early ends a command that waits, in either way,
\* before its time.
WaitsItOut ==
    busy # "none" /\ <<busy, wake_at>>' # <<busy, wake_at>> => CycleCmp(wall, wake_at) >= 0
=============================================================================
