------------------------------- MODULE Sha256 -------------------------------
(***************************************************************************)
(* The streaming digest of src/src/sha256.c: bytes collected into blocks,  *)
(* the final padding and the length field.  transform, the compression of  *)
(* one block, is left uninterpreted: the state is the sequence of the      *)
(* blocks compressed so far, so that two contexts have the same state      *)
(* exactly when they compressed the same blocks in the same order.         *)
(***************************************************************************)
EXTENDS Integers, Sequences

CONSTANTS BlockBytes,  \* 64 in the source
          LengthBytes, \* 8: the width of the length field and of bit_length
          Radix        \* 256, the values of a byte

ASSUME DigestAssumption ==
    /\ BlockBytes \in Nat /\ LengthBytes \in 1..(BlockBytes - 1)
    /\ Radix \in Nat \ {0, 1}

AnyByte == 0..(Radix - 1)
Marker == Radix \div 2  \* 0x80
Power[n \in 0..LengthBytes] == IF n = 0 THEN 1 ELSE Radix * Power[n - 1]
Width == Power[LengthBytes]
Room == BlockBytes - LengthBytes

Zeros(n) == [i \in 1..n |-> 0]

(* Big-endian.                                                             *)
LengthField(bits) == [i \in 1..LengthBytes |-> (bits \div Power[LengthBytes - i]) % Radix]

-----------------------------------------------------------------------------
(* dfx_sha256_init, dfx_sha256_update, dfx_sha256_final.                   *)
Start == [state |-> <<>>, block |-> <<>>, bits |-> 0]

AddByte(c, byte) ==
    LET block == Append(c.block, byte)
    IN  IF Len(block) < BlockBytes THEN [c EXCEPT !.block = block]
        ELSE [state |-> Append(c.state, block), block |-> <<>>,
              bits |-> (c.bits + 8 * BlockBytes) % Width]

Update(c, bytes) ==
    LET after[n \in 0..Len(bytes)] == IF n = 0 THEN c ELSE AddByte(after[n - 1], bytes[n])
    IN  after[Len(bytes)]

(* Mutant: the marker may not reach the length field's first byte.         *)
FitsTightly(marked) == Len(marked) < Room

(* index <= 56: the length field still fits behind the marker.             *)
Fits(marked) == Len(marked) <= Room

Final(c) ==
    LET marked == Append(c.block, Marker)
        full == marked \o Zeros(BlockBytes - Len(marked))
        rest == IF Fits(marked) THEN marked ELSE <<>>
        bits == (c.bits + 8 * Len(c.block)) % Width
        last == rest \o Zeros(Room - Len(rest)) \o LengthField(bits)
    IN  IF Fits(marked) THEN Append(c.state, last) ELSE c.state \o <<full, last>>

-----------------------------------------------------------------------------
(* FIPS 180-4, 5.1.1: the message, the marker, the fewest zeros that make  *)
(* the whole a number of blocks, and the length in bits.                   *)
Padded(m) ==
    LET zeros == CHOOSE k \in 0..(BlockBytes - 1) :
                   (Len(m) + 1 + k + LengthBytes) % BlockBytes = 0
    IN  m \o <<Marker>> \o Zeros(zeros) \o LengthField(8 * Len(m))

Digest(m) ==
    LET p == Padded(m)
    IN  [i \in 1..(Len(p) \div BlockBytes) |->
           SubSeq(p, (i - 1) * BlockBytes + 1, i * BlockBytes)]

(* Byte i of the blocks compressed.                                        *)
DigestByte(digest, i) == digest[(i - 1) \div BlockBytes + 1][((i - 1) % BlockBytes) + 1]
=============================================================================
