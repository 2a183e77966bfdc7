------------------------------ MODULE Console ------------------------------
(***************************************************************************)
(* The console (librfn/console.c).  An interrupt handler puts characters   *)
(* in the ring and makes the console's fibre runnable; console_run, the    *)
(* fibre's protothread, edits a line and spawns a command, itself a        *)
(* protothread; console_eval, in another fibre, injects a string; and      *)
(* console_process drives console_run from a thread without fibres.        *)
(*                                                                         *)
(* The ring is a Fifo: ringbuf.h asks for a lock when there are several    *)
(* producers, and console_eval and console_putchar are two.  An action of  *)
(* console_run is what follows one console_getch, or one call of the       *)
(* command.                                                                *)
(***************************************************************************)
EXTENDS Naturals, Sequences, FiniteSets

CONSTANTS
    Letters,        \* the characters that are only stored, '\0' not among them
    RingLen,        \* sizeof(ringbuf), 16 in the code
    LineLen,        \* the last place of scratch.buf, 79 in the code
    TableLen,       \* lengthof(cmd_table), 32 in the code
    Rank,           \* where strcmp puts each command name: [name -> number]
    Echo, Help,     \* the ranks of the two built-in commands
    Texts           \* strings given to console_eval

NUL == "NUL"
Junk == "junk"      \* what a command leaves in the scratch space
\* '\n', '\b' and Ctrl-C
Keys == Letters \cup {"NL", "BS", "ETX"}

ASSUME ConsoleAssumption ==
    /\ RingLen \in Nat /\ RingLen > 1 /\ LineLen \in Nat \ {0}
    /\ TableLen \in Nat /\ TableLen > 3
    /\ \A n \in DOMAIN Rank : Rank[n] \in 0 .. 999
    /\ Echo < Help /\ {Echo, Help} \subseteq {Rank[n] : n \in DOMAIN Rank}
    /\ Letters \cap {NUL, Junk, "NL", "BS", "ETX"} = {}
    /\ \A t \in Texts : t \in Seq(Keys)

\* *i, a uint16_t, counts the characters of the string.
ASSUME IndexAssumption == \A t \in Texts : Len(t) < 65535

Unknown == 1000     \* cmd_unknown, the entry without a name
Empty == 1001       \* a slot that is still NULL

VARIABLES
    ring,           \* c->ring
    driver,         \* who calls console_run: "fibre" or "process"
    run,            \* console_run: "boot" (not yet called), "idle" or "running"
    runnable,       \* the console's fibre is on runq or in atomic_runq
    tainted,        \* a wake-up was refused because atomic_runq was full
    argc,           \* 0 until something is tokenized, or console_silent
    buf, bufp,      \* the line in c->scratch, and where the next key goes
    child,          \* the command in progress and its resume point, or "none"
    cmd_table,
    epc, etext, ei, \* console_eval, its string, and *i, which is in c->scratch
    typed, edited,  \* the keys since the prompt; was '\b' one of them?
    quiet, injected \* see EvalBegin; what console_eval put since then

line == <<argc, buf, bufp, typed, edited>>
evals == <<epc, etext, ei, quiet, injected>>
vars == <<ring, driver, run, runnable, tainted, line, child, cmd_table, evals>>

None == [cmd |-> Unknown, pc |-> "none"]
Blank == [k \in 0 .. LineLen |-> NUL]

\* strlen(c->scratch.buf), and the text before it
TextLen(b) == IF \A k \in 0 .. LineLen : b[k] # NUL THEN LineLen + 1
              ELSE CHOOSE k \in 0 .. LineLen : /\ b[k] = NUL
                                               /\ \A j \in 0 .. k - 1 : b[j] # NUL
Text(b) == [k \in 1 .. TextLen(b) |-> b[k - 1]]

Room == Len(ring) < RingLen - 1
Put(k) == ring' = IF Room THEN Append(ring, k) ELSE ring

\* console_init, and console_silent in some console_hwinit
Init ==
    /\ ring = <<>> /\ driver \in {"fibre", "process"}
    /\ run = "boot" /\ runnable = (driver = "fibre") /\ tainted = FALSE
    /\ argc \in {0, 1} /\ buf = Blank /\ bufp = 0
    /\ child = None
    /\ cmd_table = [k \in 0 .. TableLen - 1 |->
                       CASE k = 0 -> Echo [] k = 1 -> Help [] k = 2 -> Unknown
                         [] OTHER -> Empty]
    /\ epc = "idle" /\ etext = <<>> /\ ei = 0
    /\ typed = <<>> /\ edited = FALSE
    /\ quiet = FALSE /\ injected = <<>>

\* The main context is in neither console_run nor console_eval.
MainFree == run # "running" /\ epc # "put"

-----------------------------------------------------------------------------
(* The command table *)

\* console_register
Place(n) ==
    CHOOSE k \in 0 .. TableLen - 1 :
        /\ cmd_table[k] = Unknown \/ cmd_table[k] > n
        /\ \A j \in 0 .. k - 1 : cmd_table[j] # Unknown /\ cmd_table[j] =< n

\* (Operators named Bug... are plausible mistakes in the definition that
\* follows them; each breaks a property below.)
BugRegister(n) ==
    /\ MainFree
    /\ cmd_table[TableLen - 1] = Empty
    /\ cmd_table' = [k \in 0 .. TableLen - 1 |->
                       CASE k = Place(n) -> n
                         [] k > Place(n) + 1 -> cmd_table[k - 1]
                         [] OTHER -> cmd_table[k]]
    /\ UNCHANGED <<ring, driver, run, runnable, tainted, line, child, evals>>

Register(n) ==
    /\ MainFree
    /\ cmd_table[TableLen - 1] = Empty
    /\ cmd_table' = [k \in 0 .. TableLen - 1 |->
                       CASE k = Place(n) -> n
                         [] k > Place(n) -> cmd_table[k - 1]
                         [] OTHER -> cmd_table[k]]
    /\ UNCHANGED <<ring, driver, run, runnable, tainted, line, child, evals>>

\* find_command: the first entry with that name, or the one without
FindCommand(n) ==
    cmd_table[CHOOSE k \in 0 .. TableLen - 1 :
                  /\ cmd_table[k] \in {n, Unknown}
                  /\ \A j \in 0 .. k - 1 : cmd_table[j] \notin {n, Unknown}]

NameOf(text) == IF text \in DOMAIN Rank THEN Rank[text] ELSE Unknown

-----------------------------------------------------------------------------
(* The interrupt handler *)

\* console_putchar: a character that finds the ring full is dropped, and the
\* wake-up may be refused.
PutChar(k) ==
    /\ driver = "fibre"
    /\ Put(k)
    /\ \/ runnable' = TRUE /\ UNCHANGED tainted
       \/ tainted' = TRUE /\ UNCHANGED runnable
    /\ quiet' = FALSE /\ injected' = <<>>
    /\ UNCHANGED <<driver, run, line, child, cmd_table, epc, etext, ei>>

\* What a waiting command waits for, such as its timer, has happened.
Timer ==
    /\ driver = "fibre" /\ child # None /\ run = "idle"
    /\ runnable' = TRUE
    /\ UNCHANGED <<ring, driver, run, tainted, line, child, cmd_table, evals>>

-----------------------------------------------------------------------------
(* console_run *)

BugDoPrompt ==
    /\ buf' = [buf EXCEPT ![0] = NUL] /\ bufp' = 0 /\ ei' = 0
    /\ typed' = <<>> /\ edited' = FALSE

\* do_prompt clears the whole scratch union, with the index that console_eval
\* keeps in its last bytes (of the 160 it has where pointers are 8 bytes).
DoPrompt ==
    /\ buf' = Blank /\ bufp' = 0 /\ ei' = 0
    /\ typed' = <<>> /\ edited' = FALSE

\* From the top, or where PT_WAIT_UNTIL or PT_SPAWN left off.
Start ==
    /\ run' = "running"
    /\ IF run = "boot"
       THEN IF argc = 0
            THEN DoPrompt /\ UNCHANGED argc
            ELSE bufp' = 0 /\ UNCHANGED <<argc, buf, typed, edited, ei>>
       ELSE UNCHANGED <<line, ei>>
    /\ UNCHANGED <<driver, tainted, child, cmd_table, epc, etext, quiet, injected>>

\* The scheduler dispatches the fibre.
Dispatch ==
    /\ driver = "fibre" /\ runnable /\ MainFree
    /\ runnable' = FALSE
    /\ Start
    /\ UNCHANGED ring

\* console_process puts a character and calls console_run.
Process(k) ==
    /\ driver = "process" /\ MainFree
    /\ Put(k)
    /\ Start
    /\ UNCHANGED runnable

\* console_getch returns -1: PT_WAITING.
WaitKey ==
    /\ run = "running" /\ child = None /\ ring = <<>>
    /\ run' = "idle"
    /\ UNCHANGED <<ring, driver, runnable, tainted, line, child, cmd_table, evals>>

\* A key while there is no command in progress
Key ==
    /\ run = "running" /\ child = None /\ ring # <<>>
    /\ ring' = Tail(ring)
    /\ UNCHANGED <<driver, run, runnable, tainted, cmd_table,
                   epc, etext, quiet, injected>>

\* do_tokenize and find_command; PT_SPAWN calls PT_INIT(&c->pt).  When the line
\* is full any key does this, and is lost.
KeyExecute ==
    /\ Key
    /\ Head(ring) = "NL" \/ bufp >= LineLen
    /\ argc' = 1
    /\ child' = [cmd |-> FindCommand(NameOf(Text(buf))), pc |-> "top"]
    /\ UNCHANGED <<buf, bufp, typed, edited, ei>>

\* The character stays in the buffer until another one replaces it.
KeyBackspace ==
    /\ Key
    /\ Head(ring) = "BS" /\ bufp < LineLen
    /\ bufp' = IF bufp > 0 THEN bufp - 1 ELSE 0
    /\ edited' = TRUE /\ typed' = <<>>
    /\ UNCHANGED <<argc, buf, child, ei>>

KeyCancel ==
    /\ Key
    /\ Head(ring) = "ETX" /\ bufp < LineLen
    /\ DoPrompt
    /\ UNCHANGED <<argc, child>>

BugKeyStore ==
    /\ Key
    /\ Head(ring) \in Letters /\ bufp =< LineLen
    /\ buf' = [buf EXCEPT ![bufp] = Head(ring)] /\ bufp' = bufp + 1
    /\ typed' = IF edited THEN <<>> ELSE Append(typed, Head(ring))
    /\ UNCHANGED <<argc, child, edited, ei>>

KeyStore ==
    /\ Key
    /\ Head(ring) \in Letters /\ bufp < LineLen
    /\ buf' = [buf EXCEPT ![bufp] = Head(ring)] /\ bufp' = bufp + 1
    /\ typed' = IF edited THEN <<>> ELSE Append(typed, Head(ring))
    /\ UNCHANGED <<argc, child, edited, ei>>

-----------------------------------------------------------------------------
(* The command, called from PT_SPAWN in console_run *)

InCommand == run = "running" /\ child # None

\* Every place behind the string's end, for console_eval's index
Beyond == Len(etext) + 1

\* It may keep its state anywhere in the scratch space, in the line and in
\* the last bytes, where console_eval has its index.
UseScratch ==
    /\ IF child.cmd \in {Echo, Help, Unknown}
       THEN UNCHANGED <<buf, ei>>
       ELSE buf' \in {buf, [k \in 0 .. LineLen |-> Junk]} /\ ei' \in 0 .. Beyond
    /\ UNCHANGED <<argc, bufp, typed, edited, epc, etext, quiet, injected>>

\* It may read keys.
CommandGetch ==
    /\ InCommand /\ child.cmd \notin {Echo, Help, Unknown}
    /\ ring # <<>>
    /\ ring' = Tail(ring)
    /\ UseScratch
    /\ UNCHANGED <<driver, run, runnable, tainted, child, cmd_table>>

\* PT_YIELDED: the scheduler calls again, and console_process does so itself.
CommandYield ==
    /\ InCommand /\ child.cmd \notin {Echo, Unknown}
    /\ child' = [child EXCEPT !.pc = "middle"]
    /\ IF driver = "fibre"
       THEN run' = "idle" /\ runnable' = TRUE
       ELSE UNCHANGED <<run, runnable>>
    /\ UseScratch
    /\ UNCHANGED <<ring, driver, tainted, cmd_table>>

CommandWait ==
    /\ InCommand /\ child.cmd \notin {Echo, Help, Unknown}
    /\ child' = [child EXCEPT !.pc = "middle"]
    /\ run' = "idle"
    /\ UseScratch
    /\ UNCHANGED <<ring, driver, runnable, tainted, cmd_table>>

\* PT_EXITED or PT_FAILED
CommandEnd ==
    /\ InCommand
    /\ child' = None
    /\ DoPrompt
    /\ UNCHANGED <<ring, driver, run, runnable, tainted, argc, cmd_table,
                   epc, etext, quiet, injected>>

-----------------------------------------------------------------------------
(* console_eval, in a fibre of its own *)

\* The console waits at a fresh prompt, and there is nothing for it to read.
FreshPrompt ==
    run = "idle" /\ child = None /\ ring = <<>> /\ typed = <<>> /\ ~ edited

\* (quiet says that console_eval began at such a prompt, and that nobody has
\* typed since.)
EvalBegin(t) ==
    /\ driver = "fibre" /\ MainFree /\ epc = "idle"
    /\ epc' = "put" /\ etext' = t /\ ei' = 0
    /\ quiet' = FreshPrompt /\ injected' = <<>>
    /\ UNCHANGED <<ring, driver, run, runnable, tainted, line, child, cmd_table>>

\* cmd[*i]; behind the string there may be anything.
Reads ==
    IF ei = Beyond THEN Keys \cup {NUL}
    ELSE IF ei = Len(etext) THEN {NUL} ELSE {etext[ei + 1]}

\* *i += 1, which goes round in 16 bits
Advance == ei' \in IF ei = Beyond THEN {Beyond, 0} ELSE {ei + 1}

\* (injected grows to one more than the string, which is enough to see that
\* it is not the string.)
Record(k) ==
    injected' = IF quiet /\ Len(injected) =< Len(etext) THEN Append(injected, k)
                ELSE injected

BugEvalPut ==
    /\ epc = "put"
    /\ \E k \in Reads \ {NUL} : Put(k) /\ Record(k)
    /\ Advance
    /\ UNCHANGED <<driver, run, runnable, tainted, line, child, cmd_table,
                   epc, etext, quiet>>

EvalPut ==
    /\ epc = "put" /\ Room
    /\ \E k \in Reads \ {NUL} : Put(k) /\ Record(k)
    /\ Advance
    /\ UNCHANGED <<driver, run, runnable, tainted, line, child, cmd_table,
                   epc, etext, quiet>>

\* No room: make the console runnable, and yield.
EvalYield ==
    /\ epc = "put" /\ Reads # {NUL} /\ ~ Room
    /\ runnable' = TRUE /\ epc' = "yielded"
    /\ UNCHANGED <<ring, driver, run, tainted, line, child, cmd_table,
                   etext, ei, quiet, injected>>

EvalResume ==
    /\ MainFree /\ epc = "yielded"
    /\ epc' = "put"
    /\ UNCHANGED <<ring, driver, run, runnable, tainted, line, child, cmd_table,
                   etext, ei, quiet, injected>>

BugEvalEnd ==
    /\ epc = "put" /\ NUL \in Reads
    /\ epc' = "idle"
    /\ UNCHANGED <<ring, driver, run, runnable, tainted, line, child, cmd_table,
                   etext, ei, quiet, injected>>

EvalEnd ==
    /\ epc = "put" /\ NUL \in Reads
    /\ runnable' = TRUE
    /\ epc' = "idle"
    /\ UNCHANGED <<ring, driver, run, tainted, line, child, cmd_table,
                   etext, ei, quiet, injected>>

-----------------------------------------------------------------------------

ConsoleStep ==
    \/ Dispatch \/ WaitKey
    \/ KeyExecute \/ KeyBackspace \/ KeyCancel \/ KeyStore
    \/ CommandGetch \/ CommandYield \/ CommandWait \/ CommandEnd

Next ==
    \/ \E n \in DOMAIN Rank : Register(Rank[n])
    \/ \E k \in Keys : PutChar(k) \/ Process(k)
    \/ Timer
    \/ ConsoleStep
    \/ \E t \in Texts : EvalBegin(t)
    \/ EvalPut \/ EvalYield \/ EvalResume \/ EvalEnd

Spec == Init /\ [][Next]_vars

-----------------------------------------------------------------------------
(* Properties *)

TypeOK ==
    /\ Len(ring) =< RingLen - 1
    /\ bufp \in 0 .. LineLen /\ buf[LineLen] \in {NUL, Junk}
    /\ run \in {"boot", "idle", "running"} /\ runnable \in BOOLEAN
    /\ tainted \in BOOLEAN /\ argc \in {0, 1}
    /\ child.pc \in {"none", "top", "middle"}
    /\ epc \in {"idle", "put", "yielded"} /\ ei \in 0 .. Beyond

\* A key in the ring is looked at: the console's fibre does not sleep on it,
\* unless a command is in progress or the kernel is tainted.
NoStuckInput ==
    (ring # <<>> /\ MainFree /\ child = None) => runnable \/ tainted

\* The line is what was typed since the prompt, whatever the last command left
\* in the scratch space, and however long the line before it was.  (Not when
\* '\b' was typed: the code leaves the character in the buffer.)
LineAsTyped ==
    /\ TypeOK
    /\ (child = None /\ ~ edited /\ run # "boot") => Text(buf) = typed

\* The table stays sorted and closed by the entry without a name, so that
\* find_command finds every command that was registered, and nothing else.
TableServes ==
    LET Used == {k \in 0 .. TableLen - 1 : cmd_table[k] # Empty}
    IN  /\ \A j, k \in Used : j =< k => cmd_table[j] =< cmd_table[k]
        /\ Cardinality({k \in Used : cmd_table[k] = Unknown}) = 1
        /\ \A k \in Used : FindCommand(cmd_table[k]) = cmd_table[k]

\* A line that fits: letters, and a newline at the end
IsLine(t) ==
    /\ Len(t) \in 1 .. LineLen + 1 /\ t[Len(t)] = "NL"
    /\ \A k \in 1 .. Len(t) - 1 : t[k] \in Letters

\* A line that console_eval injects at a fresh prompt, with nobody typing, is
\* executed once and as it was given: what is in the buffer and in the ring is
\* what the index, in the scratch space, says; console_eval waits for room and
\* drops nothing; and no prompt clears the index before it is done, for the
\* newline is the last that it puts.
LineInjected ==
    (quiet /\ IsLine(etext)) =>
        \/ child = None /\ Text(buf) \o ring = SubSeq(etext, 1, ei)
        \/ /\ child # None /\ epc = "idle" /\ ring = <<>>
           /\ child.cmd \in {NameOf(SubSeq(etext, 1, Len(etext) - 1)), Unknown}

\* console.h on console_eval: "a safe alternative to console_putchar() since it
\* will yield rather than dropping input during overflow conditions".  At a
\* fresh prompt, with nobody typing, it injects the string.
EvalInjectsOnce ==
    quiet => /\ Len(injected) =< Len(etext)
             /\ injected = SubSeq(etext, 1, Len(injected))
=============================================================================
