------------------------------ MODULE Tokenize ------------------------------
(***************************************************************************)
(* do_tokenize (librfn/console.c): the console's line is cut into argv in  *)
(* place.  A step is a round of its loop.  (Console is about how the line  *)
(* gets there, and about what becomes of the command.)                     *)
(***************************************************************************)
EXTENDS Naturals, Sequences, SequencesExt

CONSTANTS
    Words,      \* what a user may type as a word: plain, or in quotes
    MaxWords,
    MaxArgs     \* lengthof(c->argv), 4

VARIABLES
    words,      \* what was typed
    chars,      \* scratch.buf, up to the NUL that ends the line
    quote, at,  \* the loop's variables
    argv        \* the arguments found, as indices of chars

vars == <<words, chars, quote, at, argv>>

NUL == "\\0"
Quotes == {"'", "\""}

\* The loop begins at the second character: the command's name is not quoted.
Init ==
    /\ words \in {ws \in UNION {[1 .. n -> Words] : n \in 1 .. MaxWords} :
                      Head(ws[1]) \notin Quotes}
    /\ \E gap \in {<<" ">>, <<" ", " ">>} :
           chars = FlattenSeq([k \in DOMAIN words |-> words[k] \o gap])
    /\ quote = NUL /\ at = 2 /\ argv = <<1>>

Looping == at <= Len(chars) /\ Len(argv) < MaxArgs
Char == chars[at]
Blank == Char = " " /\ quote = NUL
Starts == chars[at - 1] = NUL /\ Char # quote /\ ~ Blank

BugCloseQuote ==
    /\ Looping /\ Char = quote
    /\ quote' = NUL /\ at' = at + 1
    /\ UNCHANGED <<words, chars, argv>>

Cut(q) == chars' = [chars EXCEPT ![at] = NUL] /\ quote' = q /\ at' = at + 1
CutBlank == Looping /\ Blank /\ Cut(quote) /\ UNCHANGED <<words, argv>>
CloseQuote == Looping /\ Char = quote /\ Cut(NUL) /\ UNCHANGED <<words, argv>>
OpenQuote == Looping /\ Starts /\ Char \in Quotes /\ Cut(Char) /\ UNCHANGED <<words, argv>>

\* After MaxArgs of them the loop is left.
NextArg ==
    /\ Looping /\ Starts /\ Char \notin Quotes
    /\ argv' = Append(argv, at) /\ at' = at + 1
    /\ UNCHANGED <<words, chars, quote>>

Within ==
    /\ Looping /\ ~ Blank /\ Char # quote /\ ~ Starts
    /\ at' = at + 1 /\ UNCHANGED <<words, chars, quote, argv>>

Next == CutBlank \/ CloseQuote \/ OpenQuote \/ NextArg \/ Within

-----------------------------------------------------------------------------
(* Properties *)

Meaning(w) == IF Head(w) \in Quotes THEN SubSeq(w, 2, Len(w) - 1) ELSE w

\* What a command finds: up to the NUL, or to the end of the line
String(p) ==
    LET z == SelectInSubSeq(chars, p, Len(chars), LAMBDA c : c = NUL)
    IN  SubSeq(chars, p, IF z = 0 THEN Len(chars) ELSE z - 1)

\* The arguments are the words that were typed, the blanks and the other kind of
\* quote in a quoted one included; when there are more than argv has places, the
\* last one begins as its word does and holds the rest of the line.
ArgvSound ==
    ~ Looping =>
        /\ Len(argv) = IF Len(words) < MaxArgs THEN Len(words) ELSE MaxArgs
        /\ \A k \in DOMAIN argv :
               IF k < MaxArgs THEN String(argv[k]) = Meaning(words[k])
               ELSE IsPrefix(Meaning(words[k]), String(argv[k]))
=============================================================================
