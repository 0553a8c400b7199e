------------------------------ MODULE MCCc2obp ------------------------------
(* Small instances of Cc2obp for TLC. *)
EXTENDS Cc2obp

CONSTANTS l1, l2, b1, b2, t1, t2

\* Two talkgroups of one peer.
TwoLinks == {l1, l2}
OneLink == {l1}
TwoLinksPeer == [l \in TwoLinks |-> b1]
OneLinkPeer == [l \in OneLink |-> b1]
=============================================================================
