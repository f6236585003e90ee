----------------------------- MODULE ByteRanges -----------------------------
(***************************************************************************)
(* Which bytes clear-zero writes and which verify_zero reads back          *)
(* (src/src/erase.c): pieces of at most a chunk, over a medium whose size  *)
(* is no multiple of it.  Positions count from 0.                          *)
(***************************************************************************)
EXTENDS Integers

CONSTANTS WriteBytes,  \* 8 MiB in the source
          ReadBytes    \* 1 MiB

ASSUME ChunkAssumption == WriteBytes \in Nat \ {0} /\ ReadBytes \in Nat \ {0}

(* A piece at `position` of a medium of `size` bytes.                      *)
Wanted(size, position, chunk) == IF size - position < chunk THEN size - position ELSE chunk

Piece(size, position, chunk) == position..(position + Wanted(size, position, chunk) - 1)

(* positions[3]; the last one from the end, or the whole of a small medium.*)
(* Mutant: the last sample ends one byte early.                            *)
SampleAtEarly(size, index) ==
    IF index = 1 THEN 0
    ELSE IF index = 2 THEN size \div 2
    ELSE IF size > ReadBytes THEN size - ReadBytes - 1 ELSE 0

SampleAt(size, index) ==
    IF index = 1 THEN 0
    ELSE IF index = 2 THEN size \div 2
    ELSE IF size > ReadBytes THEN size - ReadBytes ELSE 0

(* Mutant: a last piece smaller than a chunk is not counted.               *)
WholeRounds(size, full) == IF full THEN size \div ReadBytes ELSE 3

Rounds(size, full) ==
    IF full THEN size \div ReadBytes + (IF size % ReadBytes # 0 THEN 1 ELSE 0) ELSE 3

PositionOf(size, full, index) ==
    IF full THEN (index - 1) * ReadBytes ELSE SampleAt(size, index)

(* What round `index` reads: nothing from a position beyond the end.       *)
ReadIn(size, full, index) ==
    LET position == PositionOf(size, full, index)
    IN  IF position >= size THEN {} ELSE Piece(size, position, ReadBytes)

ReadsOf(size, full) == UNION {ReadIn(size, full, index) : index \in 1..Rounds(size, full)}

(* What a success vouches for: every byte, or a chunk at the beginning, one*)
(* at the end and one in the middle.                                       *)
Vouched(size, full) ==
    {b \in 0..(size - 1) :
       full \/ b < ReadBytes \/ b >= size - ReadBytes
            \/ b \in (size \div 2)..(size \div 2 + ReadBytes - 1)}
=============================================================================
