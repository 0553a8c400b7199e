----------------------------- MODULE EmbeddedLc -----------------------------
(***************************************************************************)
(* The embedded LC that dmr_encode_emblc spreads over bursts B to E of a   *)
(* superframe: the LC and a checksum of 5 bits in seven rows of 16, each a *)
(* Hamming codeword, an eighth row of column parities, and the 128 bits    *)
(* taken out column by column in four segments.                            *)
(*                                                                         *)
(* The state is the LC that was encoded last and its segments.             *)
(***************************************************************************)
EXTENDS DmrBits

CONSTANTS
    MaxSteps,           \* bound: steps away from the first LC
    Bytes               \* values that a byte of the LC is given

ConstantsOK == MaxSteps \in Nat /\ Bytes \subseteq Byte

VARIABLES lc, segments, steps

vars == <<lc, segments, steps>>

-----------------------------------------------------------------------------
\* bit_insert
BitInsert(buf, pos, val) == SubSeq(buf, 1, pos) \o <<val>> \o SubSeq(buf, pos + 1, Len(buf))

\* The bits of the LC with the checksum's among them, at 32, 43, 54, 65, 76
WithCsum(l) ==
    LET csum == [k \in 1..5 |-> (Csum5(l) \div 2^(5 - k)) % 2]
        buf[k \in 0..5] ==
            IF k = 0 THEN BytesToBits(l) ELSE BitInsert(buf[k - 1], 21 + 11 * k, csum[k])
    IN  buf[5]

\* The seven rows: eleven bits and their check bits, inserted behind them
Rows(bits77) ==
    [i \in 1..112 |->
        LET row == SubSeq(bits77, 11 * ((i - 1) \div 16) + 1, 11 * ((i - 1) \div 16) + 11)
        IN  (row \o Ham16114(row))[((i - 1) % 16) + 1]]

\* ... and the row of column parities
WithParities(buf) ==
    buf \o [col \in 1..16 |-> Cardinality({r \in 0..6 : buf[16 * r + col] = 1}) % 2]

\* EMBLC_IDX: columns 4 seg to 4 seg + 3, from the top; where bit 25 should be,
\* the table has 24 a second time
EMBLC_IDX(seg, i) == IF seg = 2 /\ i = 9 THEN 24 ELSE 16 * (i % 8) + 4 * seg + (i \div 8)

\* dmr_encode_emblc
EncodeEmblc(l) ==
    LET buf == WithParities(Rows(WithCsum(l)))
    IN  [seg \in 0..3 |-> BitsToBytes([i \in 1..32 |-> At(buf, EMBLC_IDX(seg, i - 1))])]

-----------------------------------------------------------------------------
TypeOK ==
    /\ lc \in [1..9 -> Byte] /\ steps \in 0..MaxSteps
    /\ segments \in [0..3 -> [1..4 -> Byte]]

Init ==
    /\ lc = Zeros(9) /\ steps = 0
    /\ segments = EncodeEmblc(lc)

\* translator_cccc_bon: a call from the CC-CC side begins with an LC that has
\* one byte changed.
Encode(i, b) ==
    /\ steps < MaxSteps
    /\ steps' = steps + 1
    /\ lc' = [lc EXCEPT ![i] = b]
    /\ segments' = EncodeEmblc(lc')

Next == \E i \in 1..9, b \in Bytes : Encode(i, b)

Spec == Init /\ [][Next]_vars

-----------------------------------------------------------------------------
(* Properties.  A receiver puts the segments back in the columns, corrects   *)
(* one wrong bit in a row, and reads the LC and its checksum.                *)

Received ==
    LET bits == [seg \in 0..3 |-> BytesToBits(segments[seg])]
    IN  [row \in 0..7 |-> [col \in 1..16 |->
            At(bits[(col - 1) \div 4], 8 * ((col - 1) % 4) + row)]]

IsCodeword(row) == SubSeq(row, 12, 16) = Ham16114(SubSeq(row, 1, 11))

Flipped(row, i) == [row EXCEPT ![i] = 1 - @]

Corrected(row) ==
    IF IsCodeword(row) THEN row
    ELSE LET places == {i \in 1..16 : IsCodeword(Flipped(row, i))}
         IN  IF places = {} THEN row ELSE Flipped(row, CHOOSE i \in places : TRUE)

Data == [row \in 0..6 |-> SubSeq(Corrected(Received[row]), 1, 11)]

\* The LC comes through: what a receiver reads is the LC that was encoded, and
\* the checksum bits among it are the checksum of that LC, in spite of the bit
\* that dmr_encode_emblc never sends (EMBLC_IDX has 24 twice): that costs the
\* second row the one error which its code corrects.
EmbeddedReadsBack ==
    LET lcBits == Data[0] \o Data[1] \o SubSeq(Data[2], 1, 10) \o SubSeq(Data[3], 1, 10)
                  \o SubSeq(Data[4], 1, 10) \o SubSeq(Data[5], 1, 10) \o SubSeq(Data[6], 1, 10)
        csum == 16 * Data[2][11] + 8 * Data[3][11] + 4 * Data[4][11] + 2 * Data[5][11] + Data[6][11]
    IN  BitsToBytes(lcBits) = lc /\ csum = Csum5(lc)

\* No row but the second spends its correction, and the columns' parities are
\* right except where the missing bit is.
OnlyOneBitWrong ==
    /\ \A row \in (0..6) \ {1} : IsCodeword(Received[row])
    /\ \A col \in (1..16) \ {10} :
         Cardinality({row \in 0..7 : Received[row][col] = 1}) % 2 = 0
    /\ Cardinality({i \in 1..16 : Corrected(Received[1])[i] # Received[1][i]}) <= 1
=============================================================================
