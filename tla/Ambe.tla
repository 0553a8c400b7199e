-------------------------------- MODULE Ambe --------------------------------
(***************************************************************************)
(* The voice payload on its way between the two sides: three AMBE frames   *)
(* of 49 bits, packed in 21 bytes on a CC-CC link (cccc_ambe.c), and with  *)
(* their error correction in the 264 bits of a DMR burst (ambe.c,          *)
(* translate.c).                                                           *)
(*                                                                         *)
(* The state is a payload that came in from the CC-CC side, the burst that *)
(* translator_cccc_voice made of it, and its place in the superframe.      *)
(***************************************************************************)
EXTENDS DmrBits

CONSTANTS
    emb,                \* call_state.emb: four fragments of four bytes
    MaxOnes             \* bound: bits of a frame that are 1

ConstantsOK == MaxOnes \in Nat

VARIABLES ambe49, payload21, burst33, pos

vars == <<ambe49, payload21, burst33, pos>>

-----------------------------------------------------------------------------
(* golay.c *)

\* The polynomial of dmr_golay2312
GOLAY_POLY == 2787

\* One round of dmr_golay2312's loop
GolayShift(cw) == (IF cw % 2 = 1 THEN cw ^^ GOLAY_POLY ELSE cw) \div 2

\* dmr_golay2312
Golay2312(data) ==
    LET cw[i \in 0..12] == IF i = 0 THEN data ELSE GolayShift(cw[i - 1])
    IN  4096 * cw[12] + data

\* dmr_parity
OddOnes(cw) == Cardinality({i \in 0..23 : (cw \div 2^i) % 2 = 1}) % 2

-----------------------------------------------------------------------------
(* ambe.c: a frame is a matrix of four rows, C0 to C3, of up to 24 bits *)

RW == << 0,1,0,1,0,1, 0,1,0,1,0,1, 0,1,0,1,0,1,
         0,1,0,1,0,2, 0,2,0,2,0,2, 0,2,0,2,0,2 >>
RX == << 23,10,22,9,21,8, 20,7,19,6,18,5, 17,4,16,3,15,2,
         14,1,13,0,12,10, 11,9,10,8,9,7, 8,6,7,5,6,4 >>
RY == << 0,2,0,2,0,2, 0,2,0,3,0,3, 1,3,1,3,1,3,
         1,3,1,3,1,3, 1,3,1,3,1,3, 1,3,1,3,1,3 >>
RZ == << 5,3,4,2,3,1, 2,0,1,13,0,12, 22,11,21,10,20,9,
         19,8,18,7,17,6, 16,5,15,4,14,3, 13,2,12,1,11,0 >>

\* The 12 bits of d from i on as a number, the first one lowest
Twelve(d, i) ==
    LET value[n \in 0..12] == IF n = 0 THEN 0 ELSE value[n - 1] + At(d, i + n - 1) * 2^(n - 1)
    IN  value[12]

\* frames_from_49
FramesFrom49(d) ==
    LET c0 == Golay2312(Twelve(d, 0))
        c1 == Golay2312(Twelve(d, 12))
        word0 == c0 + OddOnes(c0) * 2^23
    IN  [row \in 0..3 |-> [j \in 0..23 |->
            CASE row = 0             -> (word0 \div 2^(23 - j)) % 2
              [] row = 1 /\ j <= 22  -> (c1 \div 2^(22 - j)) % 2
              [] row = 2 /\ j <= 10  -> At(d, 34 - j)
              [] row = 3 /\ j <= 13  -> At(d, 48 - j)
              [] OTHER               -> 0]]

\* demodulate: C1 is combined with a sequence that the data bits of C0 seed
Demodulate(fr) ==
    LET foo[n \in 0..12] == IF n = 0 THEN 0 ELSE foo[n - 1] + fr[0][n + 11] * 2^(n - 1)
        seed == 16 * foo[12]
        pr[i \in 0..23] == IF i = 0 THEN seed ELSE (173 * pr[i - 1] + 13849) % 65536
    IN  [fr EXCEPT ![1] = [j \in 0..23 |->
            IF j = 23 THEN @[j] ELSE (@[j] + pr[23 - j] \div 32768) % 2]]

\* ecc_extract_49
Extract49(fr) ==
    [n \in 1..49 |->
        CASE n <= 12 -> fr[0][24 - n]
          [] n \in 13..24 -> fr[1][35 - n]
          [] n \in 25..35 -> fr[2][35 - n]
          [] OTHER -> fr[3][49 - n]]

\* dmr_ambe_49_to_72
Ambe49To72(d) ==
    LET fr == Demodulate(FramesFrom49(d))
    IN  [n \in 1..72 |->
            LET i == ((n - 1) \div 2) + 1
            IN  IF n % 2 = 1 THEN fr[RW[i]][RX[i]] ELSE fr[RY[i]][RZ[i]]]

\* The matrix of dmr_ambe_72_to_49 before it is demodulated
Deinterleaved(in72) ==
    [row \in 0..3 |-> [j \in 0..23 |->
        LET first == {i \in 1..36 : RW[i] = row /\ RX[i] = j}
            second == {i \in 1..36 : RY[i] = row /\ RZ[i] = j}
        IN  IF first # {} THEN in72[2 * (CHOOSE i \in first : TRUE) - 1]
            ELSE IF second # {} THEN in72[2 * (CHOOSE i \in second : TRUE)]
            ELSE 0]]

\* dmr_ambe_72_to_49
Ambe72To49(in72) == Extract49(Demodulate(Deinterleaved(in72)))

-----------------------------------------------------------------------------
(* cccc_ambe.c *)

CCCC_AMBE_PERM == <<
     0,18,36, 1,19,37, 2,20,38, 3,21,39, 4,22,40, 5,23,41, 6,24,42,
     7,25,43, 8,26,44, 9,27,45,10,28,46,11,29,47,12,30,48,13,31,14,
    32,15,33,16,34,17,35 >>

\* Fault: the bits are packed with the permutation's inverse.
Pack21Back(d) ==
    LET unit(i) ==
            BitsToBytes([n \in 1..49 |-> d[i][CHOOSE j \in 1..49 : CCCC_AMBE_PERM[j] = n - 1]])
    IN  unit(1) \o unit(2) \o unit(3)

\* cccc_ambe_pack21
Pack21(d) ==
    LET unit(i) == BitsToBytes([j \in 1..49 |-> At(d[i], CCCC_AMBE_PERM[j])])
    IN  unit(1) \o unit(2) \o unit(3)

\* cccc_ambe_unpack21
Unpack21(in21) ==
    [i \in 1..3 |->
        LET wire == BytesToBits(SubSeq(in21, 7 * i - 6, 7 * i))
        IN  [n \in 1..49 |-> wire[CHOOSE j \in 1..49 : CCCC_AMBE_PERM[j] = n - 1]]]

-----------------------------------------------------------------------------
(* translate.c *)

\* DMR_EMB, burst B to burst F
EMB == << <<0,0,0,1,0,0,1,1,1,0,0,1,0,0,0,1>>, <<0,0,0,1,0,1,1,1,0,1,1,1,0,1,0,0>>,
          <<0,0,0,1,0,1,1,1,0,1,1,1,0,1,0,0>>, <<0,0,0,1,0,1,0,1,0,0,0,0,0,1,1,1>>,
          <<0,0,0,1,0,0,0,1,1,1,1,0,0,0,1,0>> >>

\* build_embed
BuildEmbed(p) ==
    IF p = 0 THEN BS_VOICE_SYNC
    ELSE SubSeq(EMB[p], 1, 8)
         \o (IF p <= 4 THEN BytesToBits(emb[p]) ELSE Zeros(32))
         \o SubSeq(EMB[p], 9, 16)

\* translator_cccc_voice, from the frames to the burst
VoiceBurst(d, embed) ==
    LET a2 == Ambe49To72(d[2])
    IN  BitsToBytes(Ambe49To72(d[1]) \o SubSeq(a2, 1, 36) \o embed
                    \o SubSeq(a2, 37, 72) \o Ambe49To72(d[3]))

\* extract_ambe
ExtractAmbe(payload33) ==
    LET b == BytesToBits(payload33)
    IN  << Ambe72To49(SubSeq(b, 1, 72)),
           Ambe72To49(SubSeq(b, 73, 108) \o SubSeq(b, 157, 192)),
           Ambe72To49(SubSeq(b, 193, 264)) >>

-----------------------------------------------------------------------------
Ones(d) == {<<i, n>> \in (1..3) \X (1..49) : d[i][n] = 1}

Relay(d, p) ==
    /\ payload21' = Pack21(d)
    /\ burst33' = VoiceBurst(Unpack21(payload21'), BuildEmbed(p))

Init ==
    /\ ambe49 = [i \in 1..3 |-> Zeros(49)]
    /\ pos \in {0, 3}
    /\ payload21 = Pack21(ambe49)
    /\ burst33 = VoiceBurst(ambe49, BuildEmbed(pos))

\* The next packet of the call: one more bit of one of its frames is 1.  Pairs
\* are of a bit of C0, which keys the scrambling, and another one of C0 or of C1,
\* which is scrambled; the rest is linear.
Voice(i, n) ==
    /\ Cardinality(Ones(ambe49)) < MaxOnes
    /\ \A o \in Ones(ambe49) : o[1] = i /\ o[2] < n /\ o[2] <= 12 /\ n <= 24
    /\ ambe49' = [ambe49 EXCEPT ![i][n] = 1]
    /\ pos' = (pos + 1) % 6
    /\ Relay(ambe49', pos')

Next == \E i \in 1..3, n \in 1..49 : Voice(i, n)

Spec == Init /\ [][Next]_vars

-----------------------------------------------------------------------------
(* Properties *)

\* Voice crosses the program both ways without a bit changed: the frames that
\* extract_ambe takes out of the burst are those that were packed on the CC-CC
\* side, through both interleavings, the scrambling of C1 and the layout of
\* the burst around the embedded field.
VoiceReadsBack == ExtractAmbe(burst33) = ambe49

\* The order of the bits on the wire is the one that cccc_ambe.c describes:
\* the frame is written in rows of 18, 18 and 13 and read down the columns,
\* most significant bit first, and the last seven bits of a unit are zero.
LanesOnWire ==
    \A i \in 1..3 :
        LET wire == BytesToBits(SubSeq(payload21, 7 * i - 6, 7 * i))
            column(k) == [r \in 1..(IF k < 13 THEN 3 ELSE 2) |-> At(ambe49[i], 18 * (r - 1) + k)]
            read[k \in 0..18] == IF k = 0 THEN <<>> ELSE read[k - 1] \o column(k - 1)
        IN  wire = read[18] \o Zeros(7)

\* The 32 bits of the embedded field that a receiver collects from bursts B to
\* E are the call's fragments in order, and burst A has the sync pattern there.
FragmentsCarried ==
    LET field == SubSeq(BytesToBits(burst33), 109, 156)
    IN  /\ pos \in 1..4 => BitsToBytes(SubSeq(field, 9, 40)) = emb[pos]
        /\ field = BS_VOICE_SYNC <=> pos = 0

\* The first n bits of a row, the first one highest
Word(row, n) ==
    LET value[j \in 0..n] == IF j = 0 THEN 0 ELSE 2 * value[j - 1] + row[j - 1]
    IN  value[n]

IsGolay(word) == word = Golay2312(word % 4096)

\* The error correction that a receiver relies on is there, in each of the
\* three frames of a burst: C0 is a word of the Golay code extended by a bit
\* that makes its weight even, and C1, once unscrambled, a word of the code.
GolayInBurst ==
    LET b == BytesToBits(burst33)
        lanes == << SubSeq(b, 1, 72), SubSeq(b, 73, 108) \o SubSeq(b, 157, 192),
                    SubSeq(b, 193, 264) >>
    IN  \A i \in 1..3 :
            LET fr == Demodulate(Deinterleaved(lanes[i]))
                c0 == Word(fr[0], 24)
            IN  /\ IsGolay(c0 % 2^23) /\ OddOnes(c0) = 0
                /\ IsGolay(Word(fr[1], 23))
=============================================================================
