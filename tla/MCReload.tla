----------------------------- MODULE MCReload -------------------------------
(* Files for Reload: every choice of the fields that a clash depends on,    *)
(* the rest fixed, and files with one thing wrong with them.                *)
EXTENDS Reload, TLC

MCTrimcpy(s) == IF s \in {" ", "\t"} THEN "" ELSE IF s = " a" THEN "a" ELSE s
MCUpper(s) ==
    CASE s = "inbound" -> "INBOUND" [] s = "outbound" -> "OUTBOUND" [] OTHER -> s

S(v) == [type |-> "string", s |-> v]
N(v) == [type |-> "int", i |-> v]
B(v) == [type |-> "bool", b |-> v]

P(name, enabled, port) ==
    [name |-> S(name), enabled |-> B(enabled), peer_ip |-> S("ip1"), peer_port |-> N(7),
     bind_port |-> N(port), network_id |-> N(1), passphrase |-> S("key")]

L(name, enabled, system, tgid) ==
    [name |-> S(name), enabled |-> B(enabled), openbridge_system |-> S(system),
     tgid |-> N(tgid), cc_role |-> S("inbound"), cc_lid |-> N(tgid),
     cc_remote_ip |-> S("ip1"), cc_remote_voice_port |-> N(7)]

O(name) ==
    [k \in {"cc_remote_port", "cc_channel_name"} |->
        IF k = "cc_remote_port" THEN N(7) ELSE S("group")] @@
    ("cc_role" :> S("outbound")) @@ L(name, TRUE, "a", 3)

File(peers, links) == [global |-> [log_level |-> S("INFO")], openbridge |-> peers, link |-> links]

\* Two peers, one of them disabled; the other way round, and the other one first.
PeerFiles ==
    {File(<<P("a", FALSE, 7), P("b", TRUE, 8)>>, <<L("x", TRUE, " a", 1)>>),
     File(<<P("b", FALSE, 8), P("a", TRUE, 7)>>, <<L("x", FALSE, "a", 1)>>)}

\* Two links of one peer, with talkgroups exchanged, one disabled, and one that
\* is outbound.
LinkFiles ==
    {File(<<P("a", TRUE, 7)>>, ls) :
        ls \in {<<L("x", TRUE, "a", 1), L("y", TRUE, "a", 2)>>,
                <<L("x", TRUE, "a", 2), L("y", FALSE, "a", 1)>>,
                <<O("x"), ("cross_connect_active" :> B(FALSE)) @@ L("y", TRUE, "a", 1)>>}}

\* Mistyped; repeated once the number is wrapped; too many.
BadFiles ==
    {File(<<P("a", TRUE, 7)>>, <<("cc_lid" :> S("1")) @@ L("x", TRUE, "a", 1)>>),
     File(<<P("a", TRUE, 7)>>,
          <<L("x", TRUE, "a", 1), ("tgid" :> N(1 + 2 * Half)) @@ L("y", TRUE, "a", 2)>>),
     File(<<P("a", TRUE, 7), P("b", TRUE, 8), P("c", FALSE, 8)>>, <<>>)}

RunFiles == PeerFiles \cup LinkFiles \cup BadFiles
=============================================================================
