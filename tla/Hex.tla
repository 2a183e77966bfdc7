--------------------------------- MODULE Hex ---------------------------------
(***************************************************************************)
(* librfn/hex.c: data is dumped as text, a character being its ASCII code, *)
(* and hex_get_byte reads it back byte by byte.                            *)
(***************************************************************************)
EXTENDS Integers, Sequences, SequencesExt

CONSTANTS
    Octets, MaxOctets,  \* the bytes that are dumped, and how many
    PerLine             \* 16

VARIABLES
    data, text, addressed,  \* what was dumped, and are there addresses?
    cursor,                     \* *p, an index of text, 0 for NULL
    got                     \* what hex_get_byte returned

vars == <<data, text, addressed, cursor, got>>

NL == 10

BugHexchar(h) == IF h =< 10 THEN 48 + h ELSE 97 - 10 + h
Hexchar(h) == IF h < 10 THEN 48 + h ELSE 97 - 10 + h
Byte(b) == <<Hexchar(b \div 16), Hexchar(b % 16)>>

\* hex_dump_to_file
Dump(bytes) ==
    FlattenSeq([k \in DOMAIN bytes |->
        Byte(bytes[k]) \o (IF k % PerLine = 0 \/ k = Len(bytes) THEN <<NL>> ELSE <<>>)])

\* Dumps as other tools make them: "f0: 0x12 00 |text" on every line
Foreign(bytes) ==
    FlattenSeq([k \in DOMAIN bytes |->
        (IF (k - 1) % PerLine = 0 THEN <<102, 48, 58, 32>> ELSE <<>>) \o
        (IF k % 2 = 1 THEN <<48, 120>> ELSE <<>>) \o Byte(bytes[k]) \o
        (IF k % PerLine = 0 THEN <<32, 124, 97, 97, NL>> ELSE <<32>>)])

Init ==
    /\ data \in UNION {[1 .. n -> Octets] : n \in 0 .. MaxOctets}
    /\ addressed \in BOOLEAN /\ text = IF addressed THEN Foreign(data) ELSE Dump(data)
    /\ cursor = 1 /\ got = <<>>

\* nibble, and isxdigit
Letter(h) == IF h >= 97 THEN h - 32 ELSE h
Nibble(h) == IF h <= 57 THEN h - 48 ELSE Letter(h) - 65 + 10
IsDigit(h) == h \in 48 .. 57 \cup 65 .. 70 \cup 97 .. 102

\* The string is terminated by NUL.
Char(p) == IF p \in DOMAIN text THEN text[p] ELSE 0

\* strchr(s + p, c), 0 for NULL
Strchr(p, c) == SelectInSubSeq(text, p, Len(text), LAMBDA x : x = c)

\* From next_line, or from where the blanks are skipped, to the end
Scan ==
    LET scan[p \in 1 .. Len(text) + 1, phase \in {"next_line", "blanks"}] ==
            LET b == IF Char(p) = 48 /\ Char(p + 1) = 120 THEN p + 2 ELSE p
            IN  CASE phase = "next_line" ->
                       scan[IF Strchr(p, 58) # 0 THEN Strchr(p, 58) + 1 ELSE p, "blanks"]
                  [] phase = "blanks" /\ Char(p) = NL -> scan[p + 1, "next_line"]
                  [] phase = "blanks" /\ Char(p) = 32 -> scan[p + 1, "blanks"]
                  [] OTHER ->
                       IF IsDigit(Char(b)) /\ IsDigit(Char(b + 1))
                       THEN [p |-> b + 2, byte |-> 16 * Nibble(Char(b)) + Nibble(Char(b + 1))]
                       ELSE IF Strchr(b, NL) # 0 THEN scan[Strchr(b, NL) + 1, "next_line"]
                       ELSE [p |-> 0, byte |-> -1]
    IN  scan

\* hex_get_byte: s is given in the first call, and may be in later ones if the
\* lines have no addresses: the search for ':' begins at s.
GetByte(given) ==
    /\ IF got = <<>> THEN given ELSE ~ given \/ ~ addressed
    /\ -1 \notin {got[k] : k \in DOMAIN got}
    /\ LET r == IF cursor = 0 THEN [p |-> 0, byte |-> -1]
                ELSE Scan[cursor, IF given THEN "next_line" ELSE "blanks"]
       IN  cursor' = r.p /\ got' = Append(got, r.byte)
    /\ UNCHANGED <<data, text, addressed>>

Next == \E given \in BOOLEAN : GetByte(given)

-----------------------------------------------------------------------------
\* A dump, of this library or another, is read back byte for byte, and then
\* comes the end; nothing past the end of the string is read.
ReadsBack ==
    /\ IsPrefix(got, Append(data, -1))
    /\ IF got = Append(data, -1) THEN cursor = 0 ELSE cursor \in 1 .. Len(text) + 1
=============================================================================
