------------------------------- MODULE FullLc -------------------------------
(***************************************************************************)
(* The full LC in a voice header or terminator: dmr_bptc_encode_lc puts    *)
(* the LC and its Reed-Solomon parity in a matrix of 13 rows and 15        *)
(* columns, whose rows and columns are Hamming codewords, and interleaves  *)
(* it; build_head_term_payload puts the block, the slot type and the sync  *)
(* pattern in a burst; dmr_bptc_decode_full_lc picks the LC out again.     *)
(*                                                                         *)
(* The state is the LC that was encoded last and its burst.  The codes are *)
(* linear, and the masks constant: LCs with few ones show what they do.    *)
(***************************************************************************)
EXTENDS Rs129

CONSTANT MaxOnes        \* bound: bits of an LC that are 1

ConstantsOK == MaxOnes \in Nat

VARIABLES lc, is_term, payload

vars == <<lc, is_term, payload>>

INDEX_181 == <<
    0, 181, 166, 151, 136, 121, 106, 91, 76, 61, 46, 31, 16, 1, 182, 167, 152, 137,
    122, 107, 92, 77, 62, 47, 32, 17, 2, 183, 168, 153, 138, 123, 108, 93, 78, 63,
    48, 33, 18, 3, 184, 169, 154, 139, 124, 109, 94, 79, 64, 49, 34, 19, 4, 185,
    170, 155, 140, 125, 110, 95, 80, 65, 50, 35, 20, 5, 186, 171, 156, 141, 126, 111,
    96, 81, 66, 51, 36, 21, 6, 187, 172, 157, 142, 127, 112, 97, 82, 67, 52, 37,
    22, 7, 188, 173, 158, 143, 128, 113, 98, 83, 68, 53, 38, 23, 8, 189, 174, 159,
    144, 129, 114, 99, 84, 69, 54, 39, 24, 9, 190, 175, 160, 145, 130, 115, 100, 85,
    70, 55, 40, 25, 10, 191, 176, 161, 146, 131, 116, 101, 86, 71, 56, 41, 26, 11,
    192, 177, 162, 147, 132, 117, 102, 87, 72, 57, 42, 27, 12, 193, 178, 163, 148, 133,
    118, 103, 88, 73, 58, 43, 28, 13, 194, 179, 164, 149, 134, 119, 104, 89, 74, 59,
    44, 29, 14, 195, 180, 165, 150, 135, 120, 105, 90, 75, 60, 45, 30, 15 >>

DECODE_LC_IDX == <<
    136, 121, 106, 91, 76, 61, 46, 31, 152, 137, 122, 107,
    92, 77, 62, 47, 32, 17, 2, 123, 108, 93, 78, 63,
    48, 33, 18, 3, 184, 169, 94, 79, 64, 49, 34, 19,
    4, 185, 170, 155, 140, 65, 50, 35, 20, 5, 186, 171,
    156, 141, 126, 111, 36, 21, 6, 187, 172, 157, 142, 127,
    112, 97, 82, 7, 188, 173, 158, 143, 128, 113, 98, 83 >>

-----------------------------------------------------------------------------
(* bit_insert, four times at epos: the check bits of a row go in behind it *)
InsertRowCheck(buf, index) ==
    LET epos == index * 15 + 12
        row == SubSeq(buf, epos - 10, epos)
    IN  SubSeq(buf, 1, epos) \o Ham15113(row) \o SubSeq(buf, epos + 1, Len(buf))

\* The nine rows of data12, behind R0-R3, padded to 196 bits
Rows(data12) ==
    LET buf[n \in 0..9] ==
            IF n = 0 THEN Zeros(4) \o BytesToBits(data12) ELSE InsertRowCheck(buf[n - 1], n - 1)
    IN  buf[9] \o Zeros(196 - Len(buf[9]))

\* Fault: the check bits of a column are written one row up.
WithColumnChecksUp(buf) ==
    [i \in 1..196 |->
        LET col == (i - 2) % 15
            row == (i - 2) \div 15
        IN  IF i < 122 \/ row > 11 THEN buf[i]
            ELSE At(Ham1393([n \in 1..9 |-> At(buf, col + 1 + 15 * (n - 1))]), row - 8)]

\* The column checks, written in place behind the ninth row
WithColumnChecks(buf) ==
    [i \in 1..196 |->
        LET col == (i - 2) % 15
            row == (i - 2) \div 15
        IN  IF i < 137 THEN buf[i]
            ELSE At(Ham1393([n \in 1..9 |-> At(buf, col + 1 + 15 * (n - 1))]), row - 9)]

\* dmr_bptc_encode_19696
Encode19696(data12) == WithColumnChecks(Rows(data12))

\* interleave_19696
Interleave(in196) ==
    LET place[i \in 0..195] == CHOOSE n \in 1..196 : INDEX_181[n] = i
    IN  [i \in 1..196 |-> in196[place[i - 1]]]

\* dmr_bptc_encode_lc
EncodeLc(l, term) == Interleave(Encode19696(l \o LcEncode(l, term)))

SLOT_TYPE_VHEAD == <<0,0,0,1,0,0,0,1,1,0,1,1,1,0,0,0,1,1,0,0>>
SLOT_TYPE_VTERM == <<0,0,0,1,0,0,1,0,1,0,1,0,0,1,0,1,1,0,0,1>>

\* build_head_term_payload
HeadTermPayload(l, term) ==
    LET full_lc == EncodeLc(l, term)
        slot_type == IF term THEN SLOT_TYPE_VTERM ELSE SLOT_TYPE_VHEAD
    IN  BitsToBytes(SubSeq(full_lc, 1, 98) \o SubSeq(slot_type, 1, 10) \o BS_DATA_SYNC
                    \o SubSeq(slot_type, 11, 20) \o SubSeq(full_lc, 99, 196))

\* dmr_bptc_decode_full_lc
DecodeFullLc(in196) == BitsToBytes([i \in 1..72 |-> At(in196, DECODE_LC_IDX[i])])

-----------------------------------------------------------------------------
Ones(l) == {i \in 0..71 : At(BytesToBits(l), i) = 1}

Init ==
    /\ lc = Zeros(9) /\ is_term \in BOOLEAN
    /\ payload = HeadTermPayload(lc, is_term)

\* build_head_term_payload for an LC with one more bit, the bits set in order
Encode(i) ==
    /\ Cardinality(Ones(lc)) < MaxOnes
    /\ \A j \in Ones(lc) : j < i
    /\ lc' = [lc EXCEPT ![(i \div 8) + 1] = @ + 2^(7 - (i % 8))]
    /\ payload' = HeadTermPayload(lc', is_term)
    /\ UNCHANGED is_term

Next == \E i \in 0..71 : Encode(i)

Spec == Init /\ [][Next]_vars

-----------------------------------------------------------------------------
(* Properties *)

\* The block of a burst: what is on both sides of slot type and sync
Sent == LET bits == BytesToBits(payload) IN SubSeq(bits, 1, 98) \o SubSeq(bits, 167, 264)

\* The matrix of the block, by the interleaver's rule (181 i mod 196) instead
\* of its table; the first bit, R3, is in no row.
Matrix ==
    LET block == Sent
    IN  [row \in 0..12 |-> [col \in 1..15 |-> At(block, (181 * (15 * row + col)) % 196)]]

\* What dmr_bptc_decode_full_lc picks out of a burst's block is the LC that
\* build_head_term_payload put there, header or terminator.
LcReadsBack == DecodeFullLc(Sent) = lc

\* A receiver can correct errors along both ways of the matrix: all thirteen
\* rows are codewords of the one Hamming code, those of column checks as well,
\* and all fifteen columns of the other.
RowsAndColumns ==
    LET matrix == Matrix
        column(col) == [n \in 1..13 |-> matrix[n - 1][col]]
    IN  /\ \A row \in 0..12 :
             SubSeq(matrix[row], 12, 15) = Ham15113(SubSeq(matrix[row], 1, 11))
        /\ \A col \in 1..15 :
             SubSeq(column(col), 10, 13) = Ham1393(SubSeq(column(col), 1, 9))

\* The parity that dmr_rs129_lc_encode computes, its mask taken off, makes the
\* LC a multiple of the generator: 2, 4 and 8 are roots of the twelve bytes
\* that the rows of the block carry.
ReedSolomonHolds ==
    LET matrix == Matrix
        data == [n \in 1..99 |-> matrix[(n - 1) \div 11][((n - 1) % 11) + 1]]
        bytes == BitsToBytes(SubSeq(data, 4, 99))
        mask == IF is_term THEN END_MASK ELSE START_MASK
        word == [i \in 1..12 |-> IF i <= 9 THEN bytes[i] ELSE bytes[i] ^^ mask[i - 9]]
    IN  \A x \in {2, 4, 8} : ValueAt(word, x) = 0
=============================================================================
