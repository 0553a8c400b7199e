------------------------------ MODULE MCSystem ------------------------------
(* A small instance of System for TLC: one link that its remote end dials,   *)
(* so that a new connection may replace the one a call is on.                *)
EXTENDS System

CONSTANTS l1, h1, b1

OneLink == {l1}
OneLinkHost == [l \in OneLink |-> h1]
OneLinkLid == [l \in OneLink |-> 1]
OneLinkPeer == [l \in OneLink |-> b1]
=============================================================================
