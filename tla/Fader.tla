------------------------------- MODULE Fader --------------------------------
(***************************************************************************)
(* rgb_fader_init and rgb_fade (librfn/rgb.c).  step is unsigned, so that  *)
(* the branch for a downward fade (f->step < 0) is never taken and the     *)
(* upward test decides: a downward fade jumps to the goal at once.         *)
(***************************************************************************)
EXTENDS Integers

CONSTANT Word   \* 2^32 in the code

VARIABLES
    val, goal, step,    \* the value and rgb_fader_t
    from, nsteps,       \* what rgb_fader_init was given
    calls, done         \* calls of rgb_fade since then, and the last result

vars == <<val, goal, step, from, nsteps, calls, done>>

High(x) == x >= Word \div 2         \* the top bit
Signed(x) == IF High(x) THEN x - Word ELSE x

\* C's division truncates towards zero.
Divide(a, b) == IF a >= 0 THEN a \div b ELSE -((-a) \div b)

Init ==
    /\ val = 0 /\ goal = 0 /\ step = 0 /\ from = 0 /\ nsteps = 1
    /\ calls = 0 /\ done = TRUE

\* rgb_fader_init, from the current value
FaderInit(to, n) ==
    LET s == Divide(Signed((to - val) % Word), n) % Word
    IN  /\ step' = IF s = 0 THEN 1 ELSE s
        /\ goal' = to /\ from' = val /\ nsteps' = n
        /\ calls' = 0 /\ done' = FALSE
        /\ UNCHANGED val

Adopts(to) ==
    \/ High(val) # High(to)
    \/ step > 0 /\ to >= goal
    \/ step < 0 /\ to =< goal

\* (Operators named Bug... are plausible mistakes in the definition that
\* follows them; each breaks a property below.)
BugFade ==
    LET to == (val + step) % Word
    IN  /\ ~ done
        /\ val' = IF to = goal THEN goal ELSE to
        /\ done' = (to = goal)
        /\ calls' = calls + 1
        /\ UNCHANGED <<goal, step, from, nsteps>>

\* rgb_fade
Fade ==
    LET to == (val + step) % Word
    IN  /\ ~ done
        /\ val' = IF Adopts(to) THEN goal ELSE to
        /\ done' = Adopts(to)
        /\ calls' = calls + 1
        /\ UNCHANGED <<goal, step, from, nsteps>>

\* The caller fades to another value when it likes.
Next == Fade \/ \E to \in 0 .. Word - 1, n \in 1 .. Word \div 4 : FaderInit(to, n)

-----------------------------------------------------------------------------
\* A fade arrives, never later than the rounding of its step allows; while it
\* is under way the value is on the way from where it started to the goal; and
\* it is under way upwards only, for one that is not jumps at its first call.
FadesToGoal ==
    /\ done => val = goal
    /\ ~ done /\ goal =< from => calls = 0
    /\ ~ done /\ from =< goal /\ High(from) = High(goal) =>
           /\ calls < 2 * nsteps
           /\ from + calls * step = val /\ val =< goal
=============================================================================
