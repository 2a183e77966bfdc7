-------------------------------- MODULE RunQ --------------------------------
(***************************************************************************)
(* The queues of librfn/fibre.c as a program sees them that has no         *)
(* interrupt handlers: a record of kernel.runq and of the fibres posted in *)
(* kernel.atomic_runq.  (Fibre is the detailed model; this is what the     *)
(* calls of its services amount to when nothing comes between.)            *)
(***************************************************************************)
EXTENDS Naturals, Sequences, SequencesExt

NoFibres == [run |-> <<>>, posted |-> <<>>]

Queue(run, f) == IF Contains(run, f) THEN run ELSE Append(run, f)

\* handle_atomic_runq.  (fibre.c's recursion would turn round several different
\* fibres that are posted; these programs only ever post one.)
Drain(q) == [run |-> FoldLeft(Queue, q.run, q.posted), posted |-> <<>>]

BugRun(q, f) == [q EXCEPT !.run = Queue(@, f)]

\* fibre_run drains first, so that what was posted before stays in front.
Run(q, f) == [Drain(q) EXCEPT !.run = Queue(@, f)]

\* fibre_run_atomic
Post(q, f) == [q EXCEPT !.posted = Append(@, f)]

\* The queues when fibre_scheduler_next chooses: it drains, runs the fibre that
\* yielded, and moves the fibres of due, whose time has come.
Choice(q, yielded, due) ==
    [run |-> FoldLeft(Queue, Drain(q).run, yielded \o due), posted |-> <<>>]
=============================================================================
