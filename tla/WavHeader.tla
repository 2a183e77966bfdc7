----------------------------- MODULE WavHeader ------------------------------
(***************************************************************************)
(* rf_wavheader_t and its codec (librfn/wavheader.c), on the cursor of     *)
(* librfn/pack.c, which moves on past the end of the buffer but touches    *)
(* nothing there.  A byte is a number.                                     *)
(***************************************************************************)
EXTENDS Integers, Sequences, SequencesExt

CONSTANTS
    Sizes,      \* sizes of the buffers that are used
    Frames      \* what rf_wavheader_set_num_frames is given

VARIABLES
    wh,         \* the header that the program builds
    buf,        \* a buffer: the header encoded in it, its bytes, and what
                \* rf_wavheader_encode returned
    decoded     \* the header decoded from it, and what rf_wavheader_decode
                \* returned

vars == <<wh, buf, decoded>>

EINVAL == 22
Null == <<0, 0, 0, 0>>
Riff == <<82, 73, 70, 70>>
Wave == <<87, 65, 86, 69>>
Fmt == <<102, 109, 116, 32>>
Fact == <<102, 97, 99, 116>>
Data == <<100, 97, 116, 97>>
Zeros(n) == [k \in 1 .. n |-> 0]

\* rf_pack_u16le, rf_pack_u32le, and the bytes they write
LE(n, width) == [k \in 1 .. width |-> (n \div 256 ^ (k - 1)) % 256]
Number(bytes) ==
    FoldRight(LAMBDA b, n : 256 * n + b, bytes, 0)

Cleared ==
    [chunk_id |-> Null, chunk_size |-> 0, format |-> Null,
     fmt_chunk_id |-> Null, fmt_chunk_size |-> 0, audio_format |-> 0,
     num_channels |-> 0, sample_rate |-> 0, byte_rate |-> 0, block_align |-> 0,
     bits_per_sample |-> 0, cb_size |-> 0, valid_bits_per_sample |-> 0,
     channel_mask |-> 0, sub_format |-> Zeros(16),
     fact_chunk_id |-> Null, fact_chunk_size |-> 0, sample_length |-> 0,
     data_chunk_id |-> Null, data_chunk_size |-> 0]

\* rf_wavheader_init, of a header that was cleared
Header(sfreq, channels, sample, float) ==
    [Cleared EXCEPT
        !.chunk_id = Riff, !.chunk_size = 12 + 18 + 12 + 8, !.format = Wave,
        !.fmt_chunk_id = Fmt,
        !.fmt_chunk_size = IF float THEN 18 ELSE 16,
        !.audio_format = IF float THEN 3 ELSE 1,
        !.num_channels = channels, !.sample_rate = sfreq,
        !.byte_rate = sfreq * sample * channels,
        !.block_align = sample * channels, !.bits_per_sample = sample * 8,
        !.fact_chunk_id = IF float THEN Fact ELSE @,
        !.fact_chunk_size = IF float THEN 12 ELSE @,
        !.data_chunk_id = Data]

NoBuffer == [of |-> Cleared, bytes |-> <<>>, needs |-> 0]
Nothing == [wh |-> Cleared, result |-> -EINVAL]

Init == wh = Header(44100, 1, 2, FALSE) /\ buf = NoBuffer /\ decoded = Nothing

-----------------------------------------------------------------------------

\* rf_wavheader_init
InitHeader(channels, sample, float) ==
    /\ float => sample = 4
    /\ wh' = Header(44100, channels, sample, float)
    /\ buf' = NoBuffer /\ decoded' = Nothing

\* A program that wants the extended format, or a format chunk that is longer
\* than the fields that are known, sets the fields itself.
Extend(chunk, cb) ==
    /\ buf = NoBuffer /\ wh.audio_format # 65534
    /\ wh' = [wh EXCEPT !.fmt_chunk_size = chunk, !.chunk_size = @ + chunk,
                        !.cb_size = cb, !.audio_format = 65534,
                        !.valid_bits_per_sample = IF cb = 22 THEN 16 ELSE 0,
                        !.channel_mask = IF cb = 22 THEN 259 ELSE 0,
                        !.sub_format = IF cb = 22 THEN [k \in 1 .. 16 |-> k] ELSE @]
    /\ UNCHANGED <<buf, decoded>>

\* rf_wavheader_set_num_frames
SetNumFrames(n) ==
    /\ buf = NoBuffer
    /\ wh' = [wh EXCEPT !.chunk_size = @ - wh.data_chunk_size + n * wh.block_align,
                        !.data_chunk_size = n * wh.block_align,
                        !.sample_length = n * wh.num_channels]
    /\ UNCHANGED <<buf, decoded>>

-----------------------------------------------------------------------------
(* rf_wavheader_encode *)

\* What it packs, one after the other
Items ==
    <<wh.chunk_id, LE(wh.chunk_size, 4), wh.format, wh.fmt_chunk_id,
      LE(wh.fmt_chunk_size, 4), LE(wh.audio_format, 2), LE(wh.num_channels, 2),
      LE(wh.sample_rate, 4), LE(wh.byte_rate, 4), LE(wh.block_align, 2),
      LE(wh.bits_per_sample, 2)>>
    \o (CASE wh.fmt_chunk_size < 18 -> <<>>
          [] wh.fmt_chunk_size >= 18 /\ wh.cb_size = 22 ->
                <<LE(wh.cb_size, 2), LE(wh.valid_bits_per_sample, 2),
                  LE(wh.channel_mask, 4), wh.sub_format>>
          [] OTHER -> <<LE(wh.cb_size, 2), Zeros(wh.fmt_chunk_size - 18)>>)
    \o (IF wh.fact_chunk_id = Fact
        THEN <<Fact, LE(wh.fact_chunk_size, 4), LE(wh.sample_length, 4)>>
        ELSE <<>>)
    \o <<wh.data_chunk_id, LE(wh.data_chunk_size, 4)>>

\* PACK: an item that does not fit is skipped, and so is all that follows,
\* because the cursor has moved past the end.
Pack(items, size) ==
    FoldLeft(LAMBDA pack, item :
                 LET p == pack.p + Len(item)
                 IN  [p |-> p, bytes |-> IF p =< size THEN pack.bytes \o item
                                         ELSE pack.bytes],
             [p |-> 0, bytes |-> <<>>], items)

\* The buffer is clear before; sz - rf_pack_remaining(&pack) is the cursor.
Encode(size) ==
    LET pack == Pack(Items, size)
    IN  /\ buf' = [of |-> wh, needs |-> pack.p,
                   bytes |-> pack.bytes \o Zeros(size - Len(pack.bytes))]
        /\ decoded' = Nothing
        /\ UNCHANGED wh

-----------------------------------------------------------------------------
(* rf_wavheader_decode *)

\* rf_unpack_bytes, rf_unpack_u16le and rf_unpack_u32le: zero past the end
Bytes(at, n) == IF at + n =< Len(buf.bytes) THEN SubSeq(buf.bytes, at + 1, at + n)
                ELSE Zeros(n)
U16(at) == Number(Bytes(at, 2))
U32(at) == Number(Bytes(at, 4))

\* (Operators named Bug... are plausible mistakes in the definition that
\* follows them; each breaks a property below.)
BugFmtEnd(fsz, cb) ==
    CASE fsz < 18 -> 36
      [] fsz >= 18 /\ cb = 22 -> 60
      [] OTHER -> 36 + fsz - 18

\* Where the format chunk ends
FmtEnd(fsz, cb) ==
    CASE fsz < 18 -> 36
      [] fsz >= 18 /\ cb = 22 -> 60
      [] OTHER -> 38 + fsz - 18

Decode ==
    buf # NoBuffer /\
    LET fsz == U32(16)
        cb == IF fsz >= 18 THEN U16(36) ELSE 0
        extended == fsz >= 18 /\ cb = 22
        e == FmtEnd(fsz, cb)
        isFact == Bytes(e, 4) = Fact
        d == IF isFact THEN e + 12 ELSE e
        w == [chunk_id |-> Bytes(0, 4), chunk_size |-> U32(4),
              format |-> Bytes(8, 4), fmt_chunk_id |-> Bytes(12, 4),
              fmt_chunk_size |-> fsz, audio_format |-> U16(20),
              num_channels |-> U16(22), sample_rate |-> U32(24),
              byte_rate |-> U32(28), block_align |-> U16(32),
              bits_per_sample |-> U16(34), cb_size |-> cb,
              valid_bits_per_sample |-> IF extended THEN U16(38) ELSE 0,
              channel_mask |-> IF extended THEN U32(40) ELSE 0,
              sub_format |-> IF extended THEN Bytes(44, 16) ELSE Zeros(16),
              fact_chunk_id |-> IF isFact THEN Fact ELSE Null,
              fact_chunk_size |-> IF isFact THEN U32(e + 4) ELSE 0,
              sample_length |-> IF isFact THEN U32(e + 8) ELSE 0,
              data_chunk_id |-> Bytes(d, 4), data_chunk_size |-> U32(d + 4)]
        valid == /\ w.chunk_id = Riff /\ w.format = Wave
                 /\ w.chunk_size >= 12 + w.fmt_chunk_size + w.fact_chunk_size
    IN  /\ decoded' = [wh |-> w, result |-> IF valid THEN d + 8 ELSE -EINVAL]
        /\ UNCHANGED <<wh, buf>>

Next ==
    \/ \E channels \in {1, 2}, sample \in {2, 4}, float \in BOOLEAN :
           InitHeader(channels, sample, float)
    \/ Extend(18, 0) \/ Extend(24, 0) \/ Extend(40, 22)
    \/ \E n \in Frames : SetNumFrames(n)
    \/ \E size \in Sizes : Encode(size)
    \/ Decode

-----------------------------------------------------------------------------
\* The header as it comes back: without a fact chunk there is no place for
\* sample_length.
Sent(h) == IF h.fact_chunk_id = Fact THEN h ELSE [h EXCEPT !.sample_length = 0]

\* A header that fits comes back as it was, and the decoder takes from the
\* buffer what the encoder put there; a result that is not an error and not
\* more than the buffer holds is never given for a header that was cut off.
RoundTrip ==
    [][Decode =>
          IF buf.needs =< Len(buf.bytes)
          THEN decoded' = [wh |-> Sent(buf.of), result |-> buf.needs]
          ELSE decoded'.result = -EINVAL \/ decoded'.result > Len(buf.bytes)]_vars
=============================================================================
