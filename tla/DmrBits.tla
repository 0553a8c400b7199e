------------------------------ MODULE DmrBits -------------------------------
(***************************************************************************)
(* Bit arrays of the DMR code: sequences of 0 and 1, most significant bit  *)
(* first, and the small codes on them.  Arrays count from 0 in the code,   *)
(* sequences from 1: At takes the code's index.                            *)
(***************************************************************************)
EXTENDS Integers, Sequences, FiniteSets, Bitwise

Bit == {0, 1}
Byte == 0..255

At(s, i) == s[i + 1]
Zeros(n) == [i \in 1..n |-> 0]

\* dmr_bytes_to_bits
BytesToBits(bytes) ==
    [i \in 1..(8 * Len(bytes)) |->
        (At(bytes, (i - 1) \div 8) \div 2^(7 - ((i - 1) % 8))) % 2]

\* dmr_bits_to_bytes: a tail of fewer than 8 bits is padded with zeros
BitsToBytes(bits) ==
    LET bit(i) == IF i < Len(bits) THEN At(bits, i) ELSE 0
    IN  [n \in 1..((Len(bits) + 7) \div 8) |->
            LET i == 8 * (n - 1)
            IN  128 * bit(i) + 64 * bit(i + 1) + 32 * bit(i + 2) + 16 * bit(i + 3)
                + 8 * bit(i + 4) + 4 * bit(i + 5) + 2 * bit(i + 6) + bit(i + 7)]

\* DMR_BS_VOICE_SYNC and DMR_BS_DATA_SYNC
BS_VOICE_SYNC == BytesToBits(<<117, 95, 215, 223, 117, 247>>)
BS_DATA_SYNC == BytesToBits(<<223, 245, 125, 117, 223, 93>>)

\* The number of places in which two arrays of the same length differ
Distance(s, t) == Cardinality({i \in DOMAIN s : s[i] # t[i]})

\* The exclusive or of the bits of d with the given indices
Parity(d, indices) == Cardinality({i \in indices : At(d, i) = 1}) % 2

\* dmr_ham_15113
Ham15113(d) ==
    << Parity(d, {0, 1, 2, 3, 5, 7, 8}), Parity(d, {1, 2, 3, 4, 6, 8, 9}),
       Parity(d, {2, 3, 4, 5, 7, 9, 10}), Parity(d, {0, 1, 2, 4, 6, 7, 10}) >>

\* dmr_ham_1393
Ham1393(d) ==
    << Parity(d, {0, 1, 3, 5, 6}), Parity(d, {0, 1, 2, 4, 6, 7}),
       Parity(d, {0, 1, 2, 3, 5, 7, 8}), Parity(d, {0, 2, 4, 5, 8}) >>

\* dmr_ham_16114
Ham16114(d) == Ham15113(d) \o << Parity(d, {0, 2, 5, 6, 8, 9, 10}) >>

\* dmr_csum5
Csum5(lc) ==
    (lc[1] + lc[2] + lc[3] + lc[4] + lc[5] + lc[6] + lc[7] + lc[8] + lc[9]) % 31
=============================================================================
