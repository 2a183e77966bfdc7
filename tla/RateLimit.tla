----------------------------- MODULE RateLimit ------------------------------
(***************************************************************************)
(* ratelimit_check (librfn/util.c).  Time is cyclic; the model adds how    *)
(* long ago the window was really opened.                                  *)
(***************************************************************************)
EXTENDS Integers

CONSTANTS
    Cycle,      \* 2^32 in the code
    Window,     \* the window in ticks, window * 1000000 in the code
    Limit,      \* n, at least 1
    MaxCount    \* the model makes no more calls than this in a window; in the
                \* code count would have to reach 2^32 to wrap

VARIABLES
    clock,      \* what time_now() returns
    rs,         \* ratelimit_state_t: time and count, zero at the start
    age,        \* ticks since the window was opened, at most Cycle
    permitted,  \* events permitted since then
    refusal     \* the age at which the last call was refused, or -1

vars == <<clock, rs, age, permitted, refusal>>

Signed(d) == LET u == d % Cycle IN IF u < Cycle \div 2 THEN u ELSE u - Cycle

Init ==
    /\ clock \in 0 .. Cycle - 1
    /\ rs = [time |-> 0, count |-> 0]
    /\ age = Cycle /\ permitted = 0 /\ refusal = -1

Delta == Signed(rs.time - clock)
IsOpen == Delta >= 0 /\ Delta =< Window

\* A new window; the clock may tick between its two readings.
CheckOpens(delay) ==
    /\ ~ IsOpen
    /\ clock' = (clock + delay) % Cycle
    /\ rs' = [time |-> (clock' + Window) % Cycle, count |-> 1]
    /\ age' = 0 /\ permitted' = 1
    /\ UNCHANGED refusal

\* (Operators named Bug... are plausible mistakes in the definition that
\* follows them; each breaks a property below.)
BugCheckCounts ==
    /\ IsOpen /\ rs.count < MaxCount
    /\ rs' = [rs EXCEPT !.count = @ + 1]
    /\ IF rs.count =< Limit
       THEN permitted' = permitted + 1 /\ UNCHANGED refusal
       ELSE refusal' = age /\ UNCHANGED permitted
    /\ UNCHANGED <<clock, age>>

\* The window is still open: count the event.
CheckCounts ==
    /\ IsOpen /\ rs.count < MaxCount
    /\ rs' = [rs EXCEPT !.count = @ + 1]
    /\ IF rs.count < Limit
       THEN permitted' = permitted + 1 /\ UNCHANGED refusal
       ELSE refusal' = age /\ UNCHANGED permitted
    /\ UNCHANGED <<clock, age>>

Tick ==
    /\ clock' = (clock + 1) % Cycle
    /\ age' = IF age < Cycle THEN age + 1 ELSE age
    /\ UNCHANGED <<rs, permitted, refusal>>

Next == CheckCounts \/ Tick \/ \E delay \in {0, 1} : CheckOpens(delay)

-----------------------------------------------------------------------------
\* util.h: the limiter triggers "if there are more than n events each window",
\* and only then: an event is refused only in a window that is still open, or
\* after an idle time of a whole clock cycle, less a window, or more.
LimitsRate ==
    /\ age =< Window => permitted =< Limit
    /\ refusal =< Window \/ refusal >= Cycle - Window
=============================================================================
