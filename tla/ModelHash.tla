------------------------------- MODULE ModelHash -------------------------------
(***************************************************************************)
(* src/model/model_hash.cpp: the streaming around SHA-256's compression,   *)
(* which is left out: a digest is the list of the blocks compressed.       *)
(***************************************************************************)
EXTENDS Integers, Sequences, SequencesExt

CONSTANTS
    BlockSize,  \* bytes of a block, 64
    LengthSize, \* bytes of the length at the end of the last block, 8
    ChunkSize   \* bytes read at once, 1 MB

ASSUME HashAssumption ==
    /\ BlockSize \in Nat /\ LengthSize \in 1 .. (BlockSize - 1)
    /\ ChunkSize \in Nat \ {0}

Byte == 8   \* bits
Pad == 128
Lesser(a, b) == IF a < b THEN a ELSE b

\* state_, buffer_ with buffer_len_, bit_len_.
NewHasher == [state |-> <<>>, buffer |-> <<>>, bits |-> 0]

\* The whole blocks of a sequence of bytes, and what is left of it.
Blocks(s) == [b \in 1 .. (Len(s) \div BlockSize) |->
                 SubSeq(s, (b - 1) * BlockSize + 1, b * BlockSize)]
Rest(s) == SubSeq(s, (Len(s) \div BlockSize) * BlockSize + 1, Len(s))

\* Mutation: only the whole blocks count.
Update_CountsBlocks(h, data) ==
    LET take == IF h.buffer = <<>> THEN 0 ELSE Lesser(Len(data), BlockSize - Len(h.buffer))
        top  == h.buffer \o SubSeq(data, 1, take)
        more == SubSeq(data, take + 1, Len(data))
    IN  [state  |-> h.state \o Blocks(top) \o Blocks(more),
         buffer |-> IF Rest(more) = <<>> THEN Rest(top) ELSE Rest(more),
         bits   |-> h.bits + Byte * BlockSize * Len(Blocks(top) \o Blocks(more))]

\* Sha256::update: the buffer is topped up, whole blocks are taken, the rest is kept.
Update(h, data) ==
    LET take == IF h.buffer = <<>> THEN 0 ELSE Lesser(Len(data), BlockSize - Len(h.buffer))
        top  == h.buffer \o SubSeq(data, 1, take)
        more == SubSeq(data, take + 1, Len(data))
    IN  [state  |-> h.state \o Blocks(top) \o Blocks(more),
         buffer |-> IF Rest(more) = <<>> THEN Rest(top) ELSE Rest(more),
         bits   |-> h.bits + Byte * Len(data)]

\* The zero bytes of finalize_hex, one by one until the length fits behind them.
ZeroFill(h) ==
    LET After[n \in 0..BlockSize] == IF n = 0 THEN h ELSE Update(After[n - 1], <<0>>)
        Fits(n) == Len(After[n].buffer) = BlockSize - LengthSize
    IN  After[CHOOSE n \in 0..BlockSize : Fits(n) /\ \A m \in 0..(n - 1) : ~Fits(m)]

\* The length in its field, most significant byte first, in a base that no count exceeds.
LengthField(bits) == [b \in 1 .. LengthSize |-> IF b = LengthSize THEN bits ELSE 0]

\* Mutation: the padding counts as part of the message.
Finalize_CountsPadding(h) ==
    LET filled == ZeroFill(Update(h, <<Pad>>))
    IN  Append(filled.state, filled.buffer \o LengthField(filled.bits))

\* Sha256::finalize_hex, which restores the count after each byte of padding.
Finalize(h) ==
    LET filled == ZeroFill(Update(h, <<Pad>>))
    IN  Append(filled.state, filled.buffer \o LengthField(h.bits))
-----------------------------------------------------------------------------
(***************************************************************************)
(* FIPS 180-4, 5.1.1, without streaming: the message, a one bit, the least *)
(* number of zeros and the message's length fill whole blocks.             *)
(***************************************************************************)
Fills(s, zeros) == (Len(s) + 1 + zeros + LengthSize) % BlockSize = 0

Padding(s) ==
    LET zeros == CHOOSE z \in 0 .. (BlockSize - 1) : Fills(s, z)
    IN  <<Pad>> \o [z \in 1..zeros |-> 0] \o LengthField(Byte * Len(s))

Digest(s) == Blocks(s \o Padding(s))
=============================================================================
