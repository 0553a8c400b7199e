---------------------------- MODULE MCConfigCodes ---------------------------
(***************************************************************************)
(* One instance for TLC of two kinds of parts.  The first is Reload with   *)
(* the files of MCReload.  The others are code that computes, from the     *)
(* reader of the configuration file to the DMR codes and the voice         *)
(* payload: a behaviour gives larger and larger inputs to one of them.     *)
(* The parts share no state; a behaviour is one of them for good, and the  *)
(* others stay in a state that they begin in.                              *)
(***************************************************************************)
EXTENDS MCReload, DmrBits

CONSTANTS
    MaxSteps, Bytes,                            \* FullLc, EmbeddedLc
    MaxText, BufSize,                           \* TomlLine
    Names, Tables, Keys, Values, MaxEntries, MaxNames, MaxLines,    \* Toml
    Nothing                                     \* what a part has no use for

VARIABLES
    part,               \* which of them
    input, output,
    mode, mid, place    \* what else a part has: a role, an intermediate value, a place

F == INSTANCE FullLc WITH MaxOnes <- 1, lc <- input, is_term <- mode, payload <- output

E == INSTANCE EmbeddedLc WITH lc <- input, segments <- output, steps <- place

A == INSTANCE Ambe WITH
    emb <- << <<145, 255, 2, 8>>, <<0, 0, 0, 0>>, <<1, 2, 3, 4>>, <<255, 255, 255, 255>> >>,
    MaxOnes <- 2, ambe49 <- input, payload21 <- mid, burst33 <- output, pos <- place

I == INSTANCE TomlLine WITH
    Alphabet <- {"\"", "'", "\\", "\n", "#", "n", " ", "=", "]", ","}, text <- input

T == INSTANCE Toml WITH
    entries <- output, atables <- mid, section <- mode, pc <- place, blocks <- input

ASSUME FunctionsAssumption ==
    F!ConstantsOK /\ E!ConstantsOK /\ A!ConstantsOK /\ I!ConstantsOK

MCInit ==
    \/ /\ part = "reload" /\ Init
       /\ input = Nothing /\ output = Nothing
       /\ mode = Nothing /\ mid = Nothing /\ place = Nothing
    \/ /\ Init /\ file = Unreadable
       /\ \/ part = "full LC" /\ F!Init /\ mid = Nothing /\ place = Nothing
          \/ part = "embedded LC" /\ E!Init /\ mode = Nothing /\ mid = Nothing
          \/ part = "voice" /\ A!Init /\ mode = Nothing
          \/ /\ part = "line" /\ I!Init
             /\ output = Nothing /\ mode = Nothing /\ mid = Nothing /\ place = Nothing
          \/ part = "file" /\ T!Init
          \/ /\ part = "field" /\ input = 0 /\ mode \in Byte
             /\ output = Nothing /\ mid = Nothing /\ place = Nothing
          \/ /\ part = "golay" /\ input \in 0..63
             /\ output = Nothing /\ mode = Nothing /\ mid = Nothing /\ place = Nothing

\* The next pair of bytes, the next word
Count(n, last) == input + n <= last /\ input' = input + n

Compute ==
    \/ part = "full LC" /\ F!Next /\ UNCHANGED <<mid, place>>
    \/ part = "embedded LC" /\ E!Next /\ UNCHANGED <<mode, mid>>
    \/ part = "voice" /\ A!Next /\ UNCHANGED mode
    \/ part = "line" /\ I!Next /\ UNCHANGED <<output, mode, mid, place>>
    \/ part = "file" /\ T!Next
    \/ part = "field" /\ Count(1, 255) /\ UNCHANGED <<output, mode, mid, place>>
    \/ part = "golay" /\ Count(64, 4095) /\ UNCHANGED <<output, mode, mid, place>>

dataVars == <<input, output, mode, mid, place>>
allVars == <<part, vars, dataVars>>

\* An action of Reload while it is the part that runs
Inside(Act) == part = "reload" /\ Act /\ UNCHANGED <<part, dataVars>>

MCNext ==
    \/ Inside(Next)
    \/ Compute /\ UNCHANGED <<part, vars>>

\* The fairness of Reload's FairSpec; what computes need not go on.
MCSpec == MCInit /\ [][MCNext]_allVars /\ WF_allVars(Inside(Step))

-----------------------------------------------------------------------------
(* The properties of the parts that compute, under names that a             *)
(* configuration can use; those of Reload have theirs.                      *)

\* The tables of rs129.c are those of the field: log_mult is the product of two
\* polynomials over GF(2) modulo x^8 + x^4 + x^3 + x^2 + 1, for every pair of
\* bytes, zero and the largest sum of logarithms included.
LogMultIsProduct == F!LogMult(input, mode) = F!Product(input, mode)

\* Link control comes through.  A full LC is read back from the burst of
\* build_head_term_payload, whose rows and columns are Hamming codewords and
\* whose parity is Reed-Solomon's; the LC that dmr_encode_emblc spreads over four
\* bursts is read back in spite of the bit that it never sends, on which only
\* one row spends its correction.
LinkControlCoded ==
    /\ part = "full LC" => F!LcReadsBack /\ F!RowsAndColumns /\ F!ReedSolomonHolds
    /\ part = "embedded LC" => E!EmbeddedReadsBack /\ E!OnlyOneBitWrong
    /\ part = "field" => LogMultIsProduct

Weight(n) == Cardinality({i \in 0..23 : (n \div 2^i) % 2 = 1})

\* dmr_golay2312 is the Golay code: it is linear, so the distance of two words
\* is the weight of a third, and no word but 0 has a weight below 7; with the
\* bit of dmr_parity that is 8.  Three errors in C0 or C1 can be corrected.
GolayDistance ==
    LET word == A!Golay2312(input)
    IN  /\ \A i \in 0..11 : A!Golay2312(input ^^ (2^i)) = word ^^ A!Golay2312(2^i)
        /\ input # 0 => /\ Weight(word) >= 7
                        /\ Weight(word + A!OddOnes(word) * 2^23) >= 8

\* Voice crosses the program both ways without a bit changed (extract_ambe,
\* translator_cccc_voice), with the bits on the CC-CC wire in the order that
\* cccc_ambe.c describes, the call's fragments in its bursts (build_embed), and
\* in each frame of a burst C0 a word of the extended Golay code and C1, once
\* unscrambled, a word of the Golay code (ambe.c).
VoiceCoded ==
    /\ part = "voice" =>
        A!VoiceReadsBack /\ A!LanesOnWire /\ A!FragmentsCarried /\ A!GolayInBurst
    /\ part = "golay" => GolayDistance

\* A configuration file is read as it was written: a text in a basic string
\* (where strip_comment lets it), a literal string or an array; what the i-th
\* block of a name says under "name#i", and what any part of a [table] says
\* first under its name (toml_get).
FileReadBack ==
    /\ part = "line" => I!MostReadBack /\ I!LiteralReadsBack /\ I!ArrayReadsBack
    /\ part = "file" => T!TypeOK /\ T!FiledInOrder /\ T!TablesJoined
=============================================================================
