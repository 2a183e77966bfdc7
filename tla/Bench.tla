-------------------------------- MODULE Bench --------------------------------
(***************************************************************************)
(* The scheduler benchmark (src/libbench.c, conducted by src/benchmark.c): *)
(* one fibre, or two that wake each other, go round a number of times and  *)
(* then wake the conductor, which takes the time from the first fibre's    *)
(* start to the last one's end.  A step is one fibre_scheduler_next.       *)
(***************************************************************************)
EXTENDS Integers, RunQ

CONSTANTS
    Cycles,     \* rounds of each fibre, 1000000 or half of it in the code
    Repeats,    \* benchmark_run_once is run 50 times
    WarmUp,     \* steps of two seconds' busy waiting
    ClockMod    \* 2^32

Stages == <<"single", "paired", "simple_run", "atomic_run">>
Conductor == <<"conductor", 0>>
One(k) == <<Stages[k], 0>>
Other(k) == <<Stages[k], IF k = 1 THEN 0 ELSE 1>>
Team(k) == {One(k), Other(k)}
Players == UNION {Team(k) : k \in 1 .. Len(Stages)}
Friend(f) == <<f[1], 1 - f[2]>>

VARIABLES
    bq, yielded,     \* the scheduler's queues; the fibre that has just yielded
    ticks,          \* time_now()
    bm,             \* benchmark_fibre_t of each fibre, and its resume point
    stage,          \* results->pt: 0 before the first stage, 5 when all is done
    round, warm,        \* the conductor's loop, and its busy wait
    stats,          \* results->stats
    took, ended     \* steps since the stage began, and fibres that ended in it

vars == <<bq, yielded, ticks, bm, stage, round, warm, stats, took, ended>>

NoStats == [min |-> ClockMod - 1, max |-> 0, accumulator |-> 0, count |-> 0]

\* main has called fibre_run(&conductor.fibre)
Init ==
    /\ bq = Run(NoFibres, Conductor) /\ yielded = <<>>
    /\ ticks \in 0 .. ClockMod - 1
    /\ bm = [f \in Players |-> [pt |-> "top", start |-> 0, end |-> 0, count |-> 0]]
    /\ stage = 0 /\ round = 0 /\ warm = WarmUp
    /\ stats = [k \in 1 .. Len(Stages) |-> NoStats]
    /\ took = 0 /\ ended = {}

Chosen == Choice(bq, yielded, <<>>).run

\* f is dispatched; rest is what is left for the calls it makes.
Dispatched(f) == Chosen # <<>> /\ f = Head(Chosen)
Rest == [run |-> Tail(Chosen), posted |-> <<>>]
Pass == ticks' = (ticks + 1) % ClockMod

-----------------------------------------------------------------------------
(* yield_fibre, run_fibre and atomic_run_fibre *)

Count(f) == IF bm[f].pt = "top" THEN 0 ELSE bm[f].count
Start(f) == IF bm[f].pt = "top" THEN ticks ELSE bm[f].start

WakeFriend(r, f) ==
    CASE f[1] = "simple_run" -> Run(r, Friend(f))
      [] f[1] = "atomic_run" -> Post(r, Friend(f))
      [] OTHER -> r

\* Round the loop: PT_YIELD(), or wake the friend and PT_WAIT().
GoRound(f) ==
    /\ Dispatched(f) /\ Count(f) < Cycles
    /\ bq' = WakeFriend(Rest, f)
    /\ yielded' = IF f[1] \in {"single", "paired"} THEN <<f>> ELSE <<>>
    /\ bm' = [bm EXCEPT ![f] = [@ EXCEPT !.pt = "loop", !.start = Start(f),
                                         !.count = Count(f) + 1]]
    /\ took' = took + 1
    /\ Pass /\ UNCHANGED <<stage, round, warm, stats, ended>>

BugFinish(f) ==
    /\ Dispatched(f) /\ Count(f) >= Cycles
    /\ bq' = Run(Rest, Conductor)
    /\ yielded' = <<>>
    /\ bm' = [bm EXCEPT ![f] = [@ EXCEPT !.pt = "top", !.end = ticks,
                                         !.count = bm[f].count + 1]]
    /\ took' = took + 1 /\ ended' = ended \cup {f}
    /\ Pass /\ UNCHANGED <<stage, round, warm, stats>>

\* The first of two pokes the other one last time; each wakes the conductor.
Finish(f) ==
    /\ Dispatched(f) /\ Count(f) >= Cycles
    /\ bq' = Run(IF f[2] = 0 THEN WakeFriend(Rest, f) ELSE Rest, Conductor)
    /\ yielded' = <<>>
    /\ bm' = [bm EXCEPT ![f] = [@ EXCEPT !.pt = "top", !.end = ticks,
                                         !.count = bm[f].count + 1]]
    /\ took' = took + 1 /\ ended' = ended \cup {f}
    /\ Pass /\ UNCHANGED <<stage, round, warm, stats>>

-----------------------------------------------------------------------------
(* conductor_fibre and benchmark_run_once *)

Prepare ==
    /\ Dispatched(Conductor) /\ stage = 0 /\ warm > 0
    /\ warm' = warm - 1
    /\ bq' = Rest /\ yielded' = <<Conductor>>
    /\ Pass /\ UNCHANGED <<bm, stage, round, stats, took, ended>>

\* fibre_run on the stage's fibres: on both, where they do not wake each other.
StartStage(k) ==
    /\ stage' = k
    /\ bq' = IF Stages[k] = "paired" THEN Run(Run(Rest, One(k)), Other(k))
            ELSE Run(Rest, One(k))
    /\ yielded' = <<>> /\ took' = 0 /\ ended' = {}

Begin ==
    /\ Dispatched(Conductor) /\ stage = 0 /\ warm = 0
    /\ StartStage(1)
    /\ Pass /\ UNCHANGED <<bm, round, warm, stats>>

\* stats_add
Add(s, d) ==
    [min |-> IF d < s.min THEN d ELSE s.min, max |-> IF d > s.max THEN d ELSE s.max,
     accumulator |-> (s.accumulator + d) % ClockMod, count |-> s.count + 1]

Sample == (bm[Other(stage)].end - bm[One(stage)].start) % ClockMod

\* The conductor is woken: it takes the time and starts the next stage, or the
\* next round, or shows the results and calls exit.
Measure ==
    /\ Dispatched(Conductor) /\ stage \in 1 .. Len(Stages)
    /\ stats' = [stats EXCEPT ![stage] = Add(@, Sample)]
    /\ IF stage < Len(Stages)
       THEN StartStage(stage + 1) /\ UNCHANGED round
       ELSE /\ round' = round + 1
            /\ IF round + 1 < Repeats THEN StartStage(1)
               ELSE stage' = 5 /\ bq' = Rest /\ yielded' = <<>> /\ UNCHANGED <<took, ended>>
    /\ Pass /\ UNCHANGED <<bm, warm>>

Next == \/ \E f \in Players : GoRound(f) \/ Finish(f)
        \/ Prepare \/ Begin \/ Measure

-----------------------------------------------------------------------------
(* Properties *)

\* stats_mean, rounded to the nearest
Mean(s) == (s.accumulator + s.count \div 2) \div s.count

\* A time is taken when all the fibres of its stage have ended in this round,
\* each after its full number of cycles, and none of them is on a queue (it
\* would wake the conductor a second time, in a later stage); so the sample is
\* the time the stage took, although the clock wraps and although the last
\* wake-up of atomic_run is posted and the conductor's is not.
Measured ==
    /\ Dispatched(Conductor) /\ stage \in 1 .. 4 =>
           /\ ended = Team(stage)
           /\ \A f \in ended : bm[f].count = Cycles + 1
           /\ Chosen = <<Conductor>>
           /\ Sample = took - 1
    /\ stage = 5 => \A k \in 1 .. 4 : /\ stats[k].count = Repeats
                                      /\ stats[k].min <= Mean(stats[k])
                                      /\ Mean(stats[k]) <= stats[k].max

\* The benchmark comes to its end: no wake-up between the fibres is missing.
Completes == <>(stage = 5)
=============================================================================
