---------------------------- MODULE MCCcccLink ----------------------------
(* Small instances of CcccLink for TLC. *)
EXTENDS CcccLink, TLC

CONSTANTS out1, in1, in2, h1, s1, s2, s3, p1, p2, f1, f2, f3, f4

\* One link that dials, and two that the same remote end dials, told apart
\* by their lid.
MixedLinks == {out1, in1, in2}
MixedOutbound == {out1}
MixedHost == [l \in MixedLinks |-> h1]
MixedLid == (out1 :> 1) @@ (in1 :> 1) @@ (in2 :> 2)

\* The two inbound links alone.
InboundLinks == {in1, in2}
InboundHost == [l \in InboundLinks |-> h1]
InboundLid == (in1 :> 1) @@ (in2 :> 2)
NoLinks == {}

\* One link of each role.
PairLinks == {out1, in1}
PairHost == [l \in PairLinks |-> h1]
PairLid == [l \in PairLinks |-> 1]

OutHost == [l \in MixedOutbound |-> h1]
OutLid == [l \in MixedOutbound |-> 1]

OneHostSet == {h1}
TwoLids == {1, 2}

\* Descriptors, pending slots and sync sources are interchangeable.
Symmetry ==
    Permutations(Fds) \cup Permutations(Slots) \cup Permutations(Ssrcs)
=============================================================================
