------------------------------- MODULE CdcAcm -------------------------------
(***************************************************************************)
(* The USB console (librfn/libopencm3/console_cdcacm.c).  Its contexts are *)
(* fibres: usb_fibre polls the USB stack, whose callback echoes what the   *)
(* host sends; the console's fibre prints; output_fibre sends the bytes of *)
(* outring one by one.  The callback cannot call fibre_run and posts to    *)
(* atomic_runq, once for each character and once for the echo.  Interrupt  *)
(* handlers post other fibres there.  Of the scheduler there is what Fibre *)
(* shows it does.                                                          *)
(***************************************************************************)
EXTENDS Naturals, Sequences, SequencesExt

CONSTANTS
    EchoRoom,   \* sizeof(outbuf) - 1, 1023 in the code
    PostRoom,   \* lengthof(atomic_runq_buf), 8 in the code
    Packet      \* the longest packet from the host, 64 in the code

VARIABLES
    echoring,   \* outring: how many bytes wait in it
    task,       \* output_task: its resume point, and where its fibre is
    ch,         \* output_task.ch is still to be sent
    ep,         \* the endpoint has room for a packet
    settled,    \* two seconds have passed since the start
    posts,      \* kernel.atomic_runq
    tainted     \* the kernel is tainted 'A'

vars == <<echoring, task, ch, ep, settled, posts, tainted>>

Init ==
    /\ echoring = 0 /\ task = [at |-> "top", where |-> "nowhere"]
    /\ ch = FALSE /\ ep = TRUE /\ settled = FALSE
    /\ posts = <<>> /\ tainted = FALSE

Least(m, n) == IF m < n THEN m ELSE n

\* ringbuf_put of n bytes, as many as there is room for
PutBytes(n) == echoring' = Least(EchoRoom, echoring + n)

\* fibre_run_atomic, for each fibre in fs
Post(fs) ==
    /\ posts' = SubSeq(posts \o fs, 1, Least(PostRoom, Len(posts \o fs)))
    /\ tainted' = (tainted \/ Len(posts \o fs) > PostRoom)

\* The scheduler makes the fibres in atomic_runq runnable.
Drain ==
    /\ posts # <<>> /\ task.where # "running"
    /\ posts' = <<>>
    /\ task' = IF Contains(posts, "output") THEN [task EXCEPT !.where = "runq"] ELSE task
    /\ UNCHANGED <<echoring, ch, ep, settled, tainted>>

OtherPost == Post(<<"other">>) /\ UNCHANGED <<echoring, task, ch, ep, settled>>

-----------------------------------------------------------------------------
(* usb_fibre *)

\* (Operators named Bug... are plausible mistakes in the definition that
\* follows them; each breaks a property below.)
BugReceive(n, extra) ==
    /\ task.where # "running"
    /\ PutBytes(n + extra)
    /\ Post([k \in 1 .. n |-> "console"])
    /\ UNCHANGED <<task, ch, ep, settled>>

\* cdcacm_data_rx_cb, from usbd_poll; extra is the number of '\r'.
Receive(n, extra) ==
    /\ task.where # "running"
    /\ PutBytes(n + extra)
    /\ Post([k \in 1 .. n |-> "console"] \o <<"output">>)
    /\ UNCHANGED <<task, ch, ep, settled>>

\* The host has taken the packet.
Sent ==
    /\ ~ ep /\ ep' = TRUE
    /\ UNCHANGED <<echoring, task, ch, settled, posts, tainted>>

\* _write, in any other fibre; fibre_run also drains atomic_runq.
WriteOut(n) ==
    /\ task.where # "running"
    /\ PutBytes(n)
    /\ task' = [task EXCEPT !.where = "runq"]
    /\ posts' = <<>>
    /\ UNCHANGED <<ch, ep, settled, tainted>>

-----------------------------------------------------------------------------
(* output_fibre *)

\* Time goes by...
Settle ==
    /\ ~ settled /\ settled' = TRUE
    /\ UNCHANGED <<echoring, task, ch, ep, posts, tainted>>

\* ... and the scheduler finds that the fibre's timer has expired.
Expire ==
    /\ settled /\ task.where = "timerq"
    /\ task' = [task EXCEPT !.where = "runq"]
    /\ UNCHANGED <<echoring, ch, ep, settled, posts, tainted>>

\* The fibre is dispatched; fibre_timeout(2000000) before the time has come.
Dispatch ==
    /\ task.where = "runq"
    /\ task' = IF task.at \in {"top", "settling"} /\ ~ settled
              THEN [at |-> "settling", where |-> "timerq"]
              ELSE [at |-> "loop", where |-> "running"]
    /\ UNCHANGED <<echoring, ch, ep, settled, posts, tainted>>

\* ringbuf_get, and PT_EXIT when there is nothing
GetByte ==
    /\ task.where = "running" /\ ~ ch
    /\ IF echoring = 0
       THEN task' = [at |-> "top", where |-> "nowhere"] /\ UNCHANGED <<echoring, ch>>
       ELSE echoring' = echoring - 1 /\ ch' = TRUE /\ UNCHANGED task
    /\ UNCHANGED <<ep, settled, posts, tainted>>

\* usbd_ep_write_packet takes the byte.
WriteByte ==
    /\ task.where = "running" /\ ch /\ ep
    /\ ch' = FALSE /\ ep' = FALSE
    /\ UNCHANGED <<echoring, task, settled, posts, tainted>>

\* It does not: PT_YIELD.
WriteBusy ==
    /\ task.where = "running" /\ ch /\ ~ ep
    /\ task' = [at |-> "loop", where |-> "runq"]
    /\ UNCHANGED <<echoring, ch, ep, settled, posts, tainted>>

Next ==
    \/ \E n \in 0 .. Packet : \E extra \in 0 .. n : Receive(n, extra)
    \/ Sent
    \/ \E n \in 1 .. Packet : WriteOut(n)
    \/ Settle \/ Expire \/ Dispatch \/ GetByte \/ WriteByte \/ WriteBusy
    \/ Drain \/ OtherPost

-----------------------------------------------------------------------------
\* Output waits for nobody: while there are bytes to send, output_fibre will run
\* again, by the run queue, by its timer or by atomic_runq, unless a post was
\* refused.  (A packet of PostRoom characters is enough for that: each of them
\* has posted the console's fibre before the echo is posted.)
OutputIsServed ==
    (echoring > 0 \/ ch) /\ ~ tainted =>
        task.where # "nowhere" \/ Contains(posts, "output")
=============================================================================
