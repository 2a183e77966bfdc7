-------------------------------- MODULE MLog --------------------------------
(***************************************************************************)
(* The memory log (librfn/mlog.c): a circular array of lines and a counter *)
(* that is folded back before it can overflow.                             *)
(***************************************************************************)
EXTENDS Naturals, Sequences

CONSTANTS
    LogLen,     \* lengthof(log.line), 256 in the code
    HeadLimit,  \* where head is folded back, 2^31 - 1 in the code
    LogLines    \* what is logged: format strings and their arguments

VARIABLES
    line, head, \* log.line and log.head
    recent      \* the last LogLen lines since mlog_clear

vars == <<line, head, recent>>

Null == "NULL"

Init ==
    /\ line = [i \in 0 .. LogLen - 1 |-> Null]
    /\ head = 0 /\ recent = <<>>

\* (Operators named Bug... are plausible mistakes in the definition that
\* follows them; each breaks a property below.)
BugFold(h) == IF h >= HeadLimit THEN h % LogLen ELSE h

Fold(h) == IF h >= HeadLimit THEN h - LogLen ELSE h

\* vmlog
MLog(l) ==
    /\ line' = [line EXCEPT ![head % LogLen] = l]
    /\ head' = Fold(head + 1)
    /\ recent' = LET r == Append(recent, l)
                 IN  IF Len(r) > LogLen THEN Tail(r) ELSE r

\* vmlog_nice; when the log is full it does nothing.
MLogNice(l) == head < LogLen /\ MLog(l)

\* mlog_clear
Clear == head' = 0 /\ recent' = <<>> /\ UNCHANGED line

\* get_line
GetLine(n) ==
    CASE n >= head \/ n >= LogLen -> Null
      [] n < head /\ n < LogLen /\ head >= LogLen -> line[(n + head) % LogLen]
      [] OTHER -> line[n % LogLen]

\* mlog_dump: the lines up to the first NULL
Dump ==
    LET end == CHOOSE n \in 0 .. LogLen : /\ GetLine(n) = Null
                                          /\ \A k \in 0 .. n - 1 : GetLine(k) # Null
    IN  [k \in 1 .. end |-> GetLine(k - 1)]

Next == \/ \E l \in LogLines : MLog(l) \/ MLogNice(l)
        \/ Clear

-----------------------------------------------------------------------------
\* The log shows the last lines in the order in which they came, also when the
\* counter has just been folded back and when an earlier life of the log has
\* left its lines in the array.
ShowsRecent == Dump = recent
=============================================================================
