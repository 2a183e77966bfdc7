# A verification of librfn in TLA+

librfn is a small C library for microcontrollers: a run-to-completion fibre
scheduler, the lock-free queues through which interrupt handlers talk to it,
protothreads, a console, and a set of data structures and arithmetic helpers.
This directory holds TLA+ models of its concurrent core, the TLC
configurations that check them, and TLAPS proofs about them.  `PROJECT.json`
maps every definition to the source lines it translates.

## 1. Inventory

| component (source) | state | operations | what is hard | what makes it correct |
|---|---|---|---|---|
| message queue (`messageq.c`) | `num_free`, `sendp`, `full_flags`, `receivep`, storage | claim, send, receive, release, empty | claims race through a counter and a compare-and-exchange; senders finish out of order; an unsigned counter that must never go below zero | no slot has two users; messages arrive once, in claim order; a full queue recovers |
| ring buffer (`ringbuf.c`) | `readi`, `writei`, storage | get, empty, put, putchar | no lock and no read-modify-write: each side acts on a stale copy of the other's index | a queue of `buf_len - 1` bytes; never two sides on a cell; putchar returns |
| fibre scheduler (`fibre.c`) | `kernel` (current, state, now, runq, atomic_runq, timerq, taint flags), each `fibre_t` | scheduler_next, run, run_atomic, kill, timeout, self | wake-ups from interrupts between any two accesses; recursion between `handle_atomic_runq` and `fibre_run`; one link for two queues; a clock that wraps | no wake-up lost; no fibre linked twice; timers in order; nobody overtaken; next wake-up never late |
| fibre event queue (`fibre.c`) | a fibre and a message queue | claim, send, empty, receive, release | the event is published before the wake-up, which can fail | an event that was sent is eventually handled |
| list (`list.c`) | head, tail, next pointers | insert, insert_sorted, push, extract, iterate, remove, contains | the stale tail of an empty list; removal through a pointer to a pointer | the sequence its users see |
| protothreads (`protothreads.h`) | a resume point | wait, yield, exit, fail, spawn, call | a resume point that outlives the thread | restart from the top after exit or failure |
| console (`console.c`) | ring, line buffer, arguments, command table, two protothreads | putchar, getch, eval, run, process, register | two producers of one ring; a child protothread; the end of the buffer | every complete line runs one command |
| console backends (`console_*.c`) | output ring, interrupt enables | isr, `_write` | two producers of one ring; an interrupt enable that races the last byte | bytes are sent in order |
| main loops (`fibre_posix.c`, `fibre_default.c`), `consoledemo.c` | the next wake-up time | loop, inject a line, sleep, spin | turning a wake-up time into a sleep; lines typed meanwhile | no command waits for less than it was told to, none much longer; no key is overlooked |
| gpio commands (`console_cmd_gpio.c`) | the pin's registers | register, on, off, toggle, pulse, float, ... | pulses of several consoles overlap; active-low and open-drain pins | the pin has the level asked for |
| demos (`libbench.c`, `benchmark.c`, `fibredemo.c`) | fibres, an event queue, statistics | go round, sleep from second to second | a process stalled for seconds; a clock that wraps during a measurement | every sample is its stage's time; every second is shown once; they end |
| binary tree (`bintree.c`) | left and right pointers, iterators | four iterators, traversals, free | iterators thread and mark the tree while walking it | each node once, in order; the tree is restored |
| log, rotary encoder, statistics, rate limit, fader (`mlog.c`, `rotenc.c`, `stats.c`, `util.c`, `rgb.c`) | counters | one or two each | wrap-around and boundaries | agree with unbounded arithmetic |
| pack, wavheader | a cursor | pack and unpack | overflow of the buffer | never writes past the end; round trip |
| tokenizer (`do_tokenize`), hex (`hex.c`) | a cursor | cut a line into arguments; dump bytes, read them back | quotes; the end of the text and of `argv` | the words that were typed; the bytes that were dumped |
| string, enum, bitops, rand, fuzz, regdump | none or a seed | conversions | little | unit tests suffice |

**How they interact.**  An interrupt handler calls `fibre_run_atomic`, which
claims a message of `kernel.atomic_runq`, stores a fibre in it and sends it.
The main context drains that queue in `handle_atomic_runq`, whenever the
scheduler runs and at the start of `fibre_run` and `fibre_kill`, and moves the
fibres to `runq`.  `fibre_scheduler_next` moves expired fibres from `timerq` to
`runq`, takes the head of `runq` and calls its body, which may call `fibre_run`,
`fibre_kill`, `fibre_timeout` and `fibre_run_atomic`.  The return value tells
the main loop how long it may sleep.  The console is a fibre fed by a ring
buffer that an interrupt handler fills.  The list is the scheduler's data
structure, and event queues combine a message queue with `fibre_run_atomic`.

## 2. Plan

| module | status | what it is |
|---|---|---|
| `Channel` | done | what the message queue promises: a bounded channel in claim order |
| `MessageQ`, `MCMessageQ`, `MessageQProofs` | done | `messageq.c`, its invariant and its refinement of `Channel` proved |
| `Fifo` | done | what the byte ring promises |
| `RingBuf`, `MCRingBuf`, `RingBufProofs` | done | `ringbuf.c`, its invariant and its refinement of `Fifo` proved |
| `ListOps` | done | what a list is to its users |
| `Fibre`, `MCFibre` | done | the scheduler, on `Channel` and `ListOps` |
| `List`, `ListSpec`, `MCList` | done | `list.c` with its pointers, shown to implement sequences |
| `EventQ` | done | `fibre_eventq_*`: two channels and a wake-up that can fail |
| `Console`, `MCConsole` | done | console core: ring, line editing, command table, the command protothread, `console_eval`, `console_process` |
| `StmConsole`, `CdcAcm`, `LogRing` | done | the output rings of the STM32, USB and debugger back ends of the console |
| `Bintree` | done | the iterators and `bintree_free` over every small tree |
| `MLog`, `RotEnc`, `RateLimit`, `Fader`, `WavHeader` | done | counters at their wraps, and the WAV header codec on the cursor of `pack.c` |
| `RunQ`, `Bench`, `Stopwatch` | done | the scheduler as a program without interrupts sees it, and two programs on it |
| `MainLoop` | done | the POSIX main loop, the thread that injects keys, and the commands that wait |
| `GpioCmd` | done | the pins that consoles control |
| `Hex`, `Tokenize` | done | dumping and reading bytes; cutting a line into arguments |
| `Library`, `MCLibrary` | done | run everything above that is not part of the scheduler, the message queue or the console core together |
| `ListProofs`, `FibreProofs` | done | the scheduler's invariants and what its steps never do, for every number of fibres, every queue length and every cycle of the clock |
| `EventQProofs` | done | `StrandedIsTainted` for every number of senders |
| `ConsoleProofs` | done | the console's invariants, for every length of ring, line and table |
| `PointerProofs` | done | `list.c` refines `ListSpec`, for every number of lists and nodes |
| `LibraryProofs` | done | the invariants of the memory log, the encoder, the rate limiter, the fader, the pins, the back ends, the main loop, the benchmark and the stopwatch |

Modules that are proved about use no recursive operator; parameters are
CONSTANTS with a named ASSUME, an action stands for one operation or one atomic
step of it, and invariants are conjunctions of named parts.

## 3. The models

### MessageQ and Channel

Every access to a shared word is one action.  `ClaimFetchSub` is the
`atomic_fetch_sub`, `ClaimUndo` the `atomic_fetch_add` of a refused claim,
`ClaimLoad` the load of `sendp`, `ClaimCasOk` and `ClaimCasFail` the two outcomes
of the weak compare-and-exchange (it may also fail spuriously), `Fill` the
caller's store into its message, `Send` the `atomic_fetch_or`.  The receiver is a
single context, so the `fetch_and` and the private update of `receivep` are one
action, `Receive`; `Release` is the `fetch_add`.  `num_free` is kept modulo 256.
A receive that returns NULL and `messageq_empty` change nothing.

`OpenSpec` lets claims overlap freely, as `messageq.h` allows ("thread safe for
one-to-one and many-to-one messaging").  TLC finds that a slot then gets two
owners: `atomic_fetch_sub` of an `atomic_uchar` at 0 stores 255, the test
`num_free <= 0` is only true of 0, and a claim that comes before the refused one
has added its unit back is granted.  `Spec` adds the discipline `Admitted` under
which the code works: a claim starts only when no claim is in progress (one
sender, a lock, or handlers that do not preempt each other), or while the
claims in progress cannot exhaust the queue.  Everything below about `MessageQ`
except the run `MessageQOpen` is about `Spec`.

`Channel` is what users rely on: a sequence of places in claim order, each
owned by its sender until it is sent, and the sequence of messages held by the
receiver.  `MCMessageQ` maps slots, counted from `receivep`, to places.

### RingBuf and Fifo

`readi` has one writer and `writei` has one writer, so an action reaches to the
next access to something the *other* side writes: the check against the other
index, the access to the cell, the publication.  `ringbuf_putchar` is a `put`
whose refusal goes round again, so that only its success is a step.
`ringbuf.h` demands a lock for several producers: `Serial` is that lock.

### Fibre

Interrupt handlers touch nothing of the kernel but `atomic_runq` and the taint
flags.  The main context is therefore cut exactly where it looks at that queue:
each `messageq_receive`, `messageq_release` and `messageq_empty`.  Between two
of them a whole stretch of code is one action.

| action | code |
|---|---|
| `SchedEnter` | `fibre_scheduler_next` up to the fast path test |
| `DrainReceive`, `DrainInsert`, `DrainRelease` | the loop of `handle_atomic_runq` and the `fibre_run` in it; `frames` is the recursion |
| `SchedDrained`, `UpdateCurrent`, `UpdateNobody`, `YieldDrained` | `update_current_state` with its call of `fibre_run` |
| `Dispatch` | `handle_timerq` and `get_next_task` |
| `BodyReturn`, `SchedReturn` | the call of `current->fn`, and `get_next_wakeup` |
| `RunCall`/`RunDrained`, `KillCall`/`KillDrained`, `Sleep` | `fibre_run`, `fibre_kill`, `fibre_timeout` called by a body or between two scheduler calls |
| `AtomicCall`, `AtomicRefused`, `AtomicSend` | `fibre_run_atomic` called by the main context |
| `IrqClaim`, `IrqRefused`, `IrqSend` | the same in an interrupt handler, interruptible between claim and send |

Abstractions: `atomic_runq` is a `Channel` (which `MessageQ` implements under
`Admitted`: handlers that nest must not find the queue full); a list is a
sequence (`ListOps`); a resume point is "top" or "middle"; the clock has
`2 * Half` ticks instead of 2^32 and moves by less than `Half` between two calls
of the scheduler; a body calls `fibre_timeout` with a future time once per
dispatch.  The last one is an assumption on callers: a second call would link
the fibre twice (see the hazards in `PROJECT.json`).

### List and ListSpec

A `list_node_t` has its next pointer, and a `list_t` its head pointer, at offset
0, so one address stands for both and `ptr` maps addresses to pointers.  An
iterator's `prevnext` is an address, and `containerof(prevnext, list_node_t,
next)` is the same address: that is how the code gives the tail of an emptied
list the list's own address, and the model keeps that.  A call is one action,
because nothing else runs on a list meanwhile.  `ListSpec` is the same interface
on sequences (it uses the operators of `ListOps`, on which `Fibre` is built);
`MCList` maps the pointers to sequences and an iterator to a position.
Premises, from `list.h`: a node that is inserted is on no list, and an iterator
is not used after another change to its list.

### EventQ

An event queue is a message queue of events and a fibre.  Both it and
`atomic_runq` are `Channel`s.  A sender claims, publishes the event
(`EventPublish`, `messageq_send`) and only then runs `fibre_run_atomic`
(`WakeClaim`, `WakePost`, or `WakeRefused`, which taints the kernel).  The
scheduler is the abstraction that `Fibre` justifies: it drains `atomic_runq` and
dispatches what it finds.  The handler receives until the queue shows nothing
and then waits.  Because the wake-up comes after the event and can be refused,
an event can be stranded: the handler sleeps, the event queue fills, and every
later claim fails.  `fibre.h` (on `fibre_eventq_send`: "If the fibre is not
already runnable then it will be added to the run queue") does not say so; the
only trace is the taint flag, and `StrandedIsTainted` states just that.

### Console

An action of `console_run` is what follows one `console_getch`, or one call of
the command that it has spawned.  The scratch union is the line buffer `buf`,
and also the place of `console_eval`'s index `ei`, in its last bytes: `DoPrompt`
clears both, as the `memset` does.  A command may write anywhere in it
(`UseScratch`): it may leave anything in the buffer (`Junk`), and any index, even
one behind the string's end, where `console_eval` then reads what is there.  It
may read keys itself.  `argv` is abstracted to the text of the line, and a command name
to its place in `strcmp`'s order.

Behaviour that the model keeps and that may surprise: `'\b'` only moves `bufp`
back and leaves the character in the buffer, so that `LineAsTyped` says nothing
of a line with a `'\b'` in it; any key that finds the line full executes it and
is lost.  The ring is a `Fifo`: `console_putchar` in an interrupt handler and
`console_eval` are two producers, for which `ringbuf.h` demands a lock, so the
model serialises them.  What happens without one is shown by `StmConsole`, where
the library itself does this.

`console_eval` runs in a fibre of its own, and yields when the ring is full.
`quiet` remembers that it began at a fresh prompt and that nobody has typed
since, so that all that reaches the console is its string; `injected` is what it
has put.  `LineInjected` says that one line comes through that: whatever was put
is in the buffer and in the ring, as far as the index says, and the command that
is spawned is the one given.  This is because the newline is the last character,
so that no prompt and no command gets at the index before it is put.  With a
second line behind it that is no longer so (`EvalInjectsOnce`, a finding).

### StmConsole

`_write` is cut at its accesses to `outring`; `usart1_isr` interrupts it anywhere
and runs to its end.  A cell is emptied, in the model only, when its byte is
sent, so that a byte which appears again can be told.  The configuration
without `CONFIG_CONSOLE_FROM_ISR` is modelled, in which the handler does not
call `_write` itself.

### CdcAcm and LogRing

In the USB back end everything that touches `outring` is a fibre, so its
functions are actions, except that interrupt handlers may post other fibres.
`Receive` posts the console's fibre once for each character and then the echo's
fibre, as `cdcacm_data_rx_cb` does, without the scheduler in between.  The model
shows that a packet as long as `atomic_runq` (8 entries, where a packet has up to
64 characters) gets the last post refused: the echo then stays in `outring`
until something else is printed, and the kernel is tainted.  `OutputIsServed`
therefore excepts a tainted kernel.

`LogRing` is `logchar`, which discards a line when the ring is full.

### Bintree, MLog, RotEnc, RateLimit, Fader, WavHeader

These share no state with anything else, and each is one context, so a call or
one turn of a loop is an action.

- `Bintree`: a node is its even address, so that the post-order mark, an odd
  left pointer, is what it is in the code.  The recursive traversals are
  operators; the iterators are state machines that are compared with them.
- `MLog` folds `head` back at a limit of 11 lines instead of 2^31 - 1.
- `RotEnc` is driven by a knob that moves by a quarter of a click in either
  direction, or not at all: that is a contact that bounces.  A poll that comes
  so late that both contacts have changed is not modelled.
  `CountsClicks` says what both counts are at the detents, and between them:
  `rotenc_count14` adds high bits that follow at once to low bits that do not, so
  that it is 256 less while the knob is turned back from a multiple of 256, and
  nowhere else.
- `RateLimit` adds the true age of the window to the cyclic clock.
- `Fader`: `step` is unsigned, so a downward fade jumps to its goal at its first
  call.  The model shows what the code does, and `FadesToGoal` says it, next to
  where an upward fade is on its way.  (An upward fade from one half of the words
  into the other one jumps, too, when it gets there.)
- `WavHeader`: bytes are numbers; the header that a program builds is encoded
  into buffers that end inside every part of it, and decoded.

### RunQ, Bench and Stopwatch

`RunQ` is what calls of `fibre.c` amount to in a program without interrupt
handlers: a record of the run queue and of what is posted.  `Bench` is the
conductor of `benchmark.c` and the four stages of `libbench.c` on it; a step is
one `fibre_scheduler_next`.  `Measured` compares each sample of `stats` with the
steps that the stage really took, although `time_now` wraps.  `Drain` keeps the order
of posting, where the recursion in `fibre.c` would turn round several different fibres
posted at once; in these programs only one fibre is ever posted, and the two agree.  `Stopwatch` is
`fibredemo.c`: a step is a call of the scheduler or one pass of the loop in a
body.  The process may be stalled for several seconds (`LongStall`), and the
stopwatch then sends one event for each of them.  Two things follow that one
might not expect: a stall longer than the event queue has places loses seconds,
with the taint 'E' as the only trace (`InStep` and `SecondBySecond`
except a tainted kernel); and a program that is told to end after 60 seconds or
more, as one number ("90"), never ends, because the seconds are compared with
those on the clock.  `Expires` is stated for arguments that can come.

### MainLoop

The loop of `fibre_posix.c`: it takes the wake-up time, and naps for at most
`Nap` when that is at least `Short` away.  Keys are injected by a thread; the
commands of `consoledemo.c` that wait either yield or use a timer.  A key that finds
the ring full is dropped, and wakes the console all the same.  Time goes on
by a tick in a step, and as long as the sleep in `usleep`.  `InTime` bounds how
late a command ends and how long a posted console waits: the nap may sleep
through a timer by as much as itself, which is what the code does.
`WaitsItOut` says that none ends early.  Delays of half the clock's cycle or
more (`usleep 2147483648`) return at once; the model leaves them out.

### GpioCmd

A command is one action, except "pulse", which begins and ends in two, with
other consoles' commands between.  The pin is the bit of the output register and
the mode; on F4 an open-drain pin is an input or an output that is low
(`Switched`).  `asked` and `known` record what was asked for: `PinAsAsked` is the
physical level, for active-low pins too, with every pulse under way inverting
it.  So "on" or "off" during another console's pulse is undone when that ends.
On F4 an open-drain pin comes up released whatever "default_on" says, and
`known` is false until it is driven.

### Hex and Tokenize

A step is one `hex_get_byte`, or one round of the loop of `do_tokenize`.
`ReadsBack`: what was dumped, with or without addresses, is what is read.
(`hex_get_byte` looks for ':' beyond the end of the line: the string can only be
given again on every call when there are no addresses in it; the model gives it
once.)  `ArgvSound`: the arguments are the words typed.  The last place of `argv`
holds all the rest of the line, with a closing quote; an empty argument in
quotes is dropped; a word in quotes that begins with the other kind of quote
is mangled, and is not among the words of the model.

`Library` puts the parts from `StmConsole` on together that `LibraryProofs` is about,
and `MCLibrary` adds those that compute on data, which only TLC checks: `Bintree`,
`WavHeader`, `Hex` and `Tokenize`.  They share one run: `which` chooses one of them at
the start, and the others stay where they are.  (`Bintree` could not be in `Library`: it
is written with recursive operators, which a module that is proved about cannot reach.)

## 4. What is checked

| run | instance | shows |
|---|---|---|
| `MessageQ` | 3 senders, 2 values, 3 slots, fairness | `TypeOK`, `SlotExclusion`, the inductive invariant `IInv`, the refinement `ImplementsChannel`, `SentIsReceived`, `RoomReturns` |
| `MessageQOpen` | 3 senders, 2 slots, no discipline | violation of `SlotExclusion`: a finding |
| `RingBuf` | 2 producers, 2 values, 3 cells, fairness | `NoSharedCell`, `IInv` (which contains `TypeOK`), the refinement `ImplementsFifo`, `PutcharReturns` |
| `Fibre` | 2 fibres, 1 handler, 2 places, every service | `TypeOK`, `OneLink`, `DrainDiscipline`, `WakeupSound`, `RestartFromTop`, `NeverOvertaken` |
| `FibreTimers` | 3 fibres, no handler, a clock of 6 ticks | `TimersInOrder` with three timers across the wrap |
| `FibreLive` | 2 fibres, 1 handler, fairness | `NoLostWakeup` |
| `List` | 3 nodes, 2 lists, 2 keys | `Shape`, the refinement `ImplementsSequences` |
| `EventQ` | 2 senders, 1 other user, two-place queues, fairness | `StrandedIsTainted`, `HandledUnlessTainted` |
| `Console` | ring of 3 cells, lines of 2 characters, 3 commands, one string | `NoStuckInput`, `LineAsTyped`, `TableServes`, `LineInjected` |
| `ConsoleEval` | the same with a string of two lines, begun at a fresh prompt after boot | violation of `EvalInjectsOnce`: a finding |
| `Library` | trees of up to 5 nodes, a log of 4 lines, words of 4 bits, a clock of 16 ticks, stalls of 5 seconds, 2 consoles, ... | `Traverses` (Bintree: `AsTraversed`, `Restored`, `NoUseAfterFree`); `ShowsRecent` (MLog, LogRing); `CountsClicks`, `LimitsRate`, `FadesToGoal`, `RoundTrip`; `OutputIsServed` (StmConsole, CdcAcm); `KeepsTime` (Bench, Stopwatch), `SecondBySecond` (Stopwatch); `InTime`, `NeverEarly` (MainLoop); `PinAsAsked`; `ReadsText` (Tokenize, Hex); `Ends` (Bintree, Bench, Stopwatch) |
| `StmConsole` | a ring of 4 cells | violation of `WaitingIsUnsent`: a finding |

**Findings.**  Overlapping claims on a full message queue share a slot
(`MessageQOpen`).  `console_eval` keeps its index in scratch space that the prompt
clears after each command, so a string of two lines that does not fit into the ring
is injected from its start again and again (`ConsoleEval`).
The echo of `usart1_isr` and `_write` produce into one ring without a lock
(`StmConsole`).  `PROJECT.json` has the lines and the quotations.

**Bounds.**  Three senders are one that is slow, one that overtakes it and one
that is refused; three slots let the ring wrap while a slot is claimed, one is
sent and one is held.  A ring of three cells holds two bytes, so that full,
empty and in between are different and both indices wrap.  Two fibres and two
places give the scheduler every combination of current, queued, sleeping and
posted, a recursion of depth two and a full queue; one handler may be
interrupted between claim and send while the main context posts too.  Three
sleepers on a clock of six ticks (three ahead, three behind) put an insertion
in the middle of a list whose times straddle the wrap.  Three nodes are a
first, a middle and a last one, and two lists let a node be on the other.  In
`EventQ` one sender can overtake the other, and one other user is enough to fill
`atomic_runq` at the wrong moment.  A console ring of two characters is full in
the middle of a word, and a line of two is full before most commands.  Trees of
five nodes have every pattern of thread, mark and free up to depth five, and both
kinds of list.  The log is written far enough to wrap and to be folded, the
encoder's counts wrap both ways, the limiter's clock goes all the way round, and
the fader has every pair of values of a 4-bit word, on both sides of the sign.
The stopwatch has a minute of three seconds, so that it carries, and three event
places, which a stall of up to five seconds fills and overflows.  In `MainLoop` a
wake-up time can lie within `Short` (2 ticks), within a nap (3) or beyond, on a
clock of 18 ticks that goes round.  Two consoles can have two pulses overlap.
The dumps have up to four bytes in lines of two, so that there is a full last
line and one that is not; up to four words meet three places of `argv`.
`FibreSymmetry` permutes
fibres only in runs without liveness.

**Fairness.**  A sender that was given a slot completes, because the code
between claim and send does not block.  The consumer of a ring and the receiver
of a queue poll.  The main loop keeps calling the scheduler, running code
continues, and a handler that claimed a message sends it.  These are weak.
In `EventQ` the dispatch of the handler is strongly fair, which is what
`NoLostWakeup` shows of the scheduler; its premise `NoStorm` is that of
`NoLostWakeup`.  `MCLibrary` assumes that a program which iterates over a tree
goes on, and that the scheduler of the two demonstration programs is called
again and again, as their main loops do.
`NoLostWakeup` adds the premise that calls of the scheduler return, because a
body that loops for ever or interrupts that post without end keep
`handle_atomic_runq` going.

## 5. What is proved

`MessageQProofs` proves, for any finite set of senders, any set of values and
any queue length from 1 to 32, that `Spec => []IInv` (`Invariance`), and from it
`TypeCorrect` and `Exclusion`.  `SlotExclusion` is not inductive: that a claim
which passes the counter finds a free slot at `sendp` needs to know how the
counter and the ring relate.  `IInv` adds

- `FreeCount`: `num_free` is `QueueLen` less the slots spoken for and less the
  units of refused claims, modulo 256;
- `NoOverclaim`: never more slots are spoken for than exist;
- at most one refused claim has not given its unit back (what `Admitted` buys);
- `RingShape`: counted from `receivep`, the claimed and sent slots are the
  first `Pending` ones, and `sendp` is the next.

From these the slot at `sendp` is free when a claim is permitted, and the slots
behind `receivep` are exactly the held ones.  The proof has a lemma per action.

It then proves from the same invariant that the queue implements
`Channel` (`QueueIsChannel`, which is `Spec => ImplementsChannel`).  `RingShape`
gives the mapping its meaning: place `k` of the channel is the slot `k - 1` ahead
of `receivep`, and it shows either the sender that owns the slot or the message
that was sent (`ChanShows`).  A claim takes effect when its compare-and-exchange
succeeds, a send when its flag is set (`ClaimMaps`, `SendMaps`); a receive and a
release move the oldest place and the oldest message held (`ReceiveMaps`,
`ReleaseMaps`).  Taking and giving back a unit of `num_free`, reading `sendp`,
failing to exchange it and filling a message are invisible (`HiddenStep`), the
last because `SlotExclusion` keeps the slot out of every other user's hands.

`RingBufProofs` proves `Spec => []IInv` for every ring length and set of
producers (`RingInvariance`) and `RingNoSharedCell` from it.  The invariant says
that what a side established when it checked the other's index stays true: the
other side only moves away.

From the same invariant it proves the refinement (`RingIsFifo`, which is
`Spec => ImplementsFifo`): the queue of `Fifo` is the bytes between the two
indices, the store of `writei` appends the byte that was written before, the
store of `readi` takes the head, and every other step leaves what users see as
it was.  In particular a refusal happens only while the queue is full.

`ListProofs` has the facts about `ListOps` that the scheduler needs, among them
that the first of several places exists (a well-founded order on the numbers).

`FibreProofs` proves `Inv` of `Fibre` for any sets of fibres and of interrupt
handlers, any length of `atomic_runq` and any choice of services, and from it
`FibreTypes`, `LinkedOnce` and `DrainBounded`.  `Inv` is `TypeOK`, `OneLink` and
`DrainDiscipline`, strengthened by `Calling` (what a call remembers, its fibre and
where it returns to, is there at every point where it is used) and `Messages` (a
place of `atomic_runq` that was sent holds a fibre).  `OneLink` is carried by
one notion for both queues, `Thins`: a list with some nodes taken out keeps
everything that was true of it.

It also proves two action properties of the same specification.  `RestartsAtTop`
(`Spec => RestartFromTop`) needs one more invariant, `Fresh`: a fibre that
exited or failed is back at the top of its body, unless it is the one that has just
run, whose state the next call brings up to date.  `NobodyOvertakes` (`Spec => NeverOvertaken`) says of each step that
the run queue after it has the fibres that stay in their old order, with no new
one before them (`NoFurther`).

Its second half proves, for any length of the clock's cycle, that the timer
queue is in order across wraps (`TimersOrdered`) and that the wake-up time is
never late (`WakeupInTime`).  Neither is inductive: `duetime_cmp` compares two
times modulo the cycle, and that comparison is not transitive.  `ClockInv` says
it with each timer's distance from `now` instead: distances do not decrease
along the queue, differ by less than half a cycle, and are positive once the
scheduler has looked at the timers.  `CycleDiff` is the lemma that turns distances into
comparisons and back; the limit on how far the clock moves between two calls is
used exactly once, in `ClockMoves`.

`EventQProofs` proves `NothingStranded` for any number of senders and of other
users of `atomic_runq`: an event in the queue of a handler that sleeps has a
sender that has still to post the wake-up, or a message of it on the way, or
the kernel is tainted.

`ConsoleProofs` proves the console's four invariants for any lengths of ring,
line and table, any letters, any names and any texts: `KeysLookedAt`
(`NoStuckInput`), `LineIsTyped` (`LineAsTyped`), `TableIsServed` (`TableServes`)
and `LineIsInjected` (`LineInjected`).  Three of them needed strengthening.
`LineAsTyped` reads the buffer up to its first zero; `LineHeld` says what every
cell of it holds, and that `bufp` is as long as the line.  `TableServes` is
about looking commands up; `Table` is the shape that insertion keeps: the names
in order, the entry without a name, then empty slots.  `LineInjected` is `LineGiven`
and `OneContext`: console and `console_eval` share the main context, so that neither
is in the middle of a step of the other, and while a line is given the console is in
one of a few situations, in each of which the index, the ring and the buffer are
related as the property says.

`PointerProofs` is about `List`, for any finite set of nodes and any lists.  The
inductive invariant `IInv` is the existence of sequences that the pointers stand
for (`Rep`): each pointer of a list is the next node or NULL behind the last one
(`Chained`), no node is in two places (`Apart`), a node on no list has no
successor (`Loose`), a list with nodes ends at its tail (`Ends`), and the
iterator in use is at a pointer of its list (`IterOn`).  A lemma per operation
shows which sequences the pointers stand for after it; all of them are one of
two stores (`LinksIn`, `LinksOut`) at a pointer whose place in the sequence is
known.  From it follow `PointersAreLists` (`Spec => []Shape`) and
`PointersAreSequences` (`Spec => ImplementsSequences`).  That the tail which
`list_extract` and `list_iterator_remove` leave behind in a list that becomes
empty is never read is where `Ends` speaks of lists with nodes only.  The proof
corrected the mapping: `PosOf` chose any step of a walk that is at the
iterator's address, and a walk that has reached the end stays there, so that
two choices were possible; it now takes the first.

`LibraryProofs` is about the parts that `Library` runs.  Each has an invariant of
its own over its own variables, and `StepOfParts` says that a step of the whole is
a step, or a stutter, of each.

- `KnobIsFollowed`: `KnobInv` ties the counter to the position of the knob
  (`internal_count = 4 * clicks + quarter`), the last contacts to the quarter, and the
  position to the last detent, which is it or the next click; `Borrows` and `TurnedBack`
  say what mixing new high bits and old low bits makes of them.
- `OutputGoesOut`: `StmInv` and `UsbInv`, which add to the property only what
  types it mentions.
- `RateIsLimited`: `RateInv` says where the window began, modulo the cycle, as
  long as less than a cycle has passed; `OpenInTime` turns that into what the
  code's signed comparison says.
- `FadeArrives`: `FadeInv` bounds what rounding loses, `goal - from < 2 * nsteps * step`,
  so that `Factors` bounds the number of calls; of a fade that does not go up it keeps
  that its first step, the negative of what it should be taken for unsigned, leaves the
  half or is at the goal or above it (`StepDown`, `DownJumps`).
- `LogsAreShown`: `LogInv` says at which cell each line is, before and after `head`
  is folded back (`Around`); `RingInv` says that the ring is the end of what was
  logged, and that what is gone ended with a newline or was longer than the ring.
- `PinObeys`: `PinInv` gives the level in terms of the registers and of the parity of
  the pulses under way.
- `NobodyWaitsTooLong` (`InTime`) and `NobodyIsEarly` (`NeverEarly`): `LoopInv` gives, for
  each place of the main loop, how old `kernel_now` is, how long a key has waited and
  how late the command is; each step adds the tick that it may take, and `KeyWaits`
  and `CommandWaits` say why what is posted too late to be seen waits for one nap
  only.  `Differs`, `Between` and `Ticks` are what is needed of `cyclecmp32`: inside half
  a cycle, differences add up.
- `SecondsAreShown` (`SecondBySecond`) and the second half of `TimeIsKept`
  (`KeepsTime`), about the stopwatch.  `WatchInv` follows a second through the
  program: the next wake-up is due when the second now counted ends, and it is late by
  no more than the stalls took (`OnTime`); of the events that wait, each is one
  second after the one before it, the first one is one after what is shown, and the
  last one is the time counted, unless one was refused (`Consecutive`, `Recorded`);
  and the updater is posted, queued or running while there are events (`Awaited`).
  That a wake-up of the updater is never refused follows from counting: those that are
  posted are as many, at most, as the events that wait, and those have no more places.
- The first half of `TimeIsKept`, about the benchmark.  `BenchInv` says whose turn it is
  (`Turns`): both fibres of a stage have gone round equally often (`Level`), the first
  once more (`Uneven`), the first has ended and the second is in front of the conductor
  (`Half`), or both have ended (`Over`); each of them says how many steps the stage has
  taken and who is on the queue, the conductor behind the last wake-up included.  `Timed`
  relates those steps to the clock since the first fibre's start, and `Samples` bounds
  each sum of samples by the least and the greatest, from which `MeanBetween` follows.

Both rest on what `RunQ` does with the wake-ups that are posted: a fold over a sequence.
An operator on all sequences would need induction, but in these programs only one fibre
is ever posted; `PostedOnce` shows, with a least counterexample, that however often it was
posted it is on the queue once.

The proofs of the main loop and the pins corrected the models: in `Return` of `MainLoop` and in
`Init` of `GpioCmd` two arms of a CASE overlapped.  TLC takes the first one, as the code
does; in TLA+ either could be meant.  The arms now exclude each other, in the order
of the code's conditions.

The assumptions are `QueueAssumption`, `NobodyAssumption` (the mark of a place
without an owner is not a sender), `RingAssumption`, `FibreAssumption`,
`EventQAssumption`, `ConsoleAssumption` (among others, that letters are not the
marks of a zero byte and of what a command leaves, nor keys with a meaning, and that
texts are made of keys), `IndexAssumption` (a text is shorter than the 65535 characters
that `console_eval`'s index counts), `ListAssumption` and `NullAssumption` (NULL is neither a node, a list nor
an iterator), stated in the modules and evaluated by TLC on the instances.  Those of `Library`
come from the code: a window of the rate limiter is less than half of the
clock's cycle, as in `cyclecmp32`; the encoder's counter wraps at a multiple of
four, and the clicks that it tells apart are whole turns of the narrow count; what the main loop naps, and what a command sleeps, is below half a
cycle of the clock by the four steps of the loop; a word has an even number of values; the memory log folds `head` back
only where the array is full; the consoles are finitely many; the samples of a stage of the
benchmark add up to less than a cycle of the clock (fifty runs of a million steps);
all stalls of the stopwatch together are shorter than half a cycle, beyond which
`cyclecmp32` takes late for early, and the minutes that the model counts are within one
cycle, 71 minutes of microseconds, since what has gone by is the difference of two times of it.

Only model-checked: `ReadsText` and `RoundTrip`, which say what loops over data
compute, and would need induction over the data; all properties of `Bintree`, for the
same reason, and because it is written with recursive operators, which the prover cannot
handle; and all liveness properties (fairness and ENABLED are outside the prover).

## 6. What is not modelled

See the component list in `PROJECT.json`.  In short:

- strings, enumeration names and bit operations are pure functions of a few
  lines; random numbers and fuzzing are arithmetic on 32-bit seeds; `regdump`
  formats and prints.  Unit tests reach all of it.
- the demonstration programs for the STM32 set up hardware, and then call what
  is modelled; so do the parts of the back ends that program registers.
- `librfn/benchmark.c` (`rf_benchmark_init`, `_running`, `_finalize`) has no caller in the
  repository: a busy wait, a comparison and two divisions on a 64-bit clock.  `Bench` is
  about the programs `src/benchmark.c` and `src/libbench.c`, which use `stats.c`.
- the statistics are modelled with integers, as the benchmark uses them.  (Built
  with `STATS_USE_FLOAT` or `STATS_USE_DOUBLE`, `stats_init` starts `min` at the
  smallest and `max` at the largest number, the wrong way round.)
- the 64-bit clock, which a 32-bit core reads in two halves: whether a read is
  torn is decided by the compiler, and a model would only restate that.
- formatting and printing.
- memory ordering weaker than sequential consistency: the library uses the
  sequentially consistent forms throughout.
