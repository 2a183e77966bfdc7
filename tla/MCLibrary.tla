------------------------------ MODULE MCLibrary ------------------------------
(***************************************************************************)
(* The parts that Library runs, for TLC, and as more of them those that    *)
(* compute on data, word by word, byte by byte or node by node: the        *)
(* codecs, the words of a command line, and the binary tree.               *)
(***************************************************************************)
EXTENDS Library

CONSTANTS
    MaxNodes,                   \* Bintree
    Sizes, Frames,              \* WavHeader
    Octets, MaxOctets, PerLine, \* Hex
    MaxWords, MaxArgs           \* Tokenize

VARIABLES
    left, right, orig, freed, op, tree, lists, iter, pc, curr, prev, marking,
    ret, out,                           \* Bintree
    wh, buf, decoded,                   \* WavHeader
    data, text, addressed, cursor, got, \* Hex
    words, chars, quote, at, argv       \* Tokenize

Tree == INSTANCE Bintree
Wav == INSTANCE WavHeader
Hex == INSTANCE Hex
Tok == INSTANCE Tokenize WITH Words <-
           {<<"a">>, <<"b", "'", "a">>, <<"\"", "a", "'", "\"">>,
            <<"'", " ", "b", "'">>, <<"'", "b", " ", "\"", "'">>}

nodes == <<left, right, orig, freed, op, tree, lists, iter, pc, curr, prev, marking,
           ret, out>>
wav == <<wh, buf, decoded>>
hex == <<data, text, addressed, cursor, got>>
tok == <<words, chars, quote, at, argv>>
mine == <<nodes, wav, hex, tok>>

MCInit ==
    /\ which \in Parts \cup {"tree", "wav", "hex", "tok"}
    /\ Start
    /\ Tree!Init /\ (which # "tree" => orig.root = Tree!NULL)
    /\ Wav!Init
    /\ Hex!Init /\ (which # "hex" => data = <<>> /\ addressed)
    /\ Tok!Init /\ (which # "tok" => chars = <<"a", " ">>)

TreeStep == which = "tree" /\ Tree!Next /\ UNCHANGED <<vars, wav, hex, tok>>
WavStep == which = "wav" /\ Wav!Next /\ UNCHANGED <<vars, nodes, hex, tok>>
HexStep == which = "hex" /\ Hex!Next /\ UNCHANGED <<vars, nodes, wav, tok>>
TokStep == which = "tok" /\ Tok!Next /\ UNCHANGED <<vars, nodes, wav, hex>>
PartStep == Next /\ UNCHANGED mine

\* The end of the text or of the line
AtEnd ==
    /\ \/ which = "hex" /\ -1 \in {got[k] : k \in DOMAIN got}
       \/ which = "tok" /\ ~ Tok!Looping
    /\ UNCHANGED <<vars, mine>>

MCNext == TreeStep \/ WavStep \/ HexStep \/ TokStep \/ PartStep \/ AtEnd

\* Fairness: a program that iterates over a tree goes on, and the scheduler of
\* the two demonstration programs is called again and again.
MCSpec ==
    /\ MCInit /\ [][MCNext]_<<vars, mine>>
    /\ WF_nodes(TreeStep /\ Tree!Step)
    /\ WF_vars(BenchStep /\ UNCHANGED mine) /\ WF_vars(WatchStep /\ UNCHANGED mine)

\* Bintree: an iterator visits what the recursive traversal visits, it leaves the
\* tree as it was, and neither it nor bintree_free looks at a node that was freed.
Traverses == Tree!AsTraversed /\ Tree!Restored /\ Tree!NoUseAfterFree

\* WavHeader: decoding undoes encoding, and a header cut off is not taken for
\* a whole one.
RoundTrip == Wav!RoundTrip

\* Tokenize: argv holds the words that were typed.
\* Hex: what was dumped is read back.
ReadsText == Tok!ArgvSound /\ Hex!ReadsBack

\* Every iteration over a tree comes to an end (Bintree), and so do the
\* benchmark (Bench) and the stopwatch that was given a time (Stopwatch).
Ends ==
    /\ Tree!Ends
    /\ (which = "bench" => Bench!Completes)
    /\ (which = "watch" => Watch!Expires)
=============================================================================
