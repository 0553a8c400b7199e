------------------------------- MODULE Config -------------------------------
(***************************************************************************)
(* config.c: what config_load makes of a file that toml.c could read, what *)
(* it refuses, and how config_reload_toggles merges a new file into the    *)
(* running configuration.  A file is the tables toml.c hands over, each a  *)
(* function from the keys that are present to typed values.                *)
(***************************************************************************)
EXTENDS Integers, Sequences

CONSTANTS
    Trimcpy(_), Upper(_),   \* trimcpy and str_to_upper on the strings in use
    ValidIps,               \* the strings inet_pton accepts
    Half,                   \* 2^31, half the values of an int
    MaxOpenbridge, MaxLinks \* CFG_MAX_OPENBRIDGE, CFG_MAX_LINKS

ASSUME HalfAssumption == Half \in Nat \ {0}
ASSUME MaxAssumption == MaxOpenbridge \in Nat \ {0} /\ MaxLinks \in Nat \ {0}

\* The casts of a long long to int and to uint32_t.
Int32(n) == ((n + Half) % (2 * Half)) - Half
Uint32(n) == n % (2 * Half)

-----------------------------------------------------------------------------
(* The typed getters: the value that is stored, and whether there is an    *)
(* error to report.  A missing or mistyped key leaves the default, one out *)
(* of range is stored all the same.                                        *)

Has(t, key, type) == key \in DOMAIN t /\ t[key].type = type

Mistyped(t, key, type, required) ==
    IF key \in DOMAIN t THEN t[key].type # type ELSE required

Str(t, key, deflt) == IF Has(t, key, "string") THEN Trimcpy(t[key].s) ELSE deflt

Num(t, key, deflt) == IF Has(t, key, "int") THEN t[key].i ELSE deflt

Flag(t, key, deflt) == IF Has(t, key, "bool") THEN t[key].b ELSE deflt

Choice(t, key, choices, deflt) ==
    IF Has(t, key, "string") /\ Upper(Trimcpy(t[key].s)) \in choices
    THEN Upper(Trimcpy(t[key].s)) ELSE deflt

BadInt(t, key, required, allowed) ==
    \/ Mistyped(t, key, "int", required)
    \/ Has(t, key, "int") /\ t[key].i \notin allowed

BadChoice(t, key, choices, required) ==
    \/ Mistyped(t, key, "string", required)
    \/ Has(t, key, "string") /\ Upper(Trimcpy(t[key].s)) \notin choices

BadIp(t, key) ==
    \/ Mistyped(t, key, "string", TRUE)
    \/ Str(t, key, "") \notin ValidIps \cup {""}

Ports == 1..65535

\* i and j are two places of the list es, each pair once.
Pairs(es) == {p \in (DOMAIN es) \X (DOMAIN es) : p[1] < p[2]}

-----------------------------------------------------------------------------
(* load_openbridge *)

Peer(t) ==
    [name |-> Str(t, "name", ""),
     enabled |-> Flag(t, "enabled", TRUE),
     peer_ip |-> Str(t, "peer_ip", ""),
     peer_port |-> Int32(Num(t, "peer_port", 0)),
     bind_port |-> Int32(Num(t, "bind_port", 0)),
     network_id |-> Uint32(Num(t, "network_id", 0)),
     preserve_source_peer |-> Flag(t, "preserve_source_peer", FALSE),
     passphrase |-> Str(t, "passphrase", "")]

BadPeer(t) ==
    \/ \E key \in {"name", "passphrase"} : Mistyped(t, key, "string", TRUE)
    \/ \E key \in {"enabled", "preserve_source_peer"} : Mistyped(t, key, "bool", FALSE)
    \/ BadIp(t, "peer_ip")
    \/ \E key \in {"peer_port", "bind_port"} : BadInt(t, key, TRUE, Ports)
    \/ BadInt(t, "network_id", TRUE, Nat)

SameName(es, p) == es[p[1]].name = es[p[2]].name /\ es[p[1]].name # ""

SamePort(peers, p) ==
    /\ peers[p[1]].enabled /\ peers[p[2]].enabled
    /\ peers[p[1]].bind_port = peers[p[2]].bind_port

PeersClash(peers) == \E p \in Pairs(peers) : SameName(peers, p) \/ SamePort(peers, p)

-----------------------------------------------------------------------------
(* load_links *)

\* The first entry of that name, 0 (-1 in the code) if there is none.
FindByName(es, name) ==
    IF \E i \in DOMAIN es : es[i].name = name
    THEN CHOOSE i \in DOMAIN es :
             es[i].name = name /\ \A j \in 1..(i - 1) : es[j].name # name
    ELSE 0

Roles == {"OUTBOUND", "INBOUND"}

Link(t, peers) ==
    LET role == Choice(t, "cc_role", Roles, "OUTBOUND")
    IN  [name |-> Str(t, "name", ""),
         enabled |-> Flag(t, "enabled", TRUE),
         cross_connect_active |-> Flag(t, "cross_connect_active", TRUE),
         tgid |-> Int32(Num(t, "tgid", 0)),
         openbridge_system |-> Str(t, "openbridge_system", ""),
         openbridge_idx |-> FindByName(peers, Str(t, "openbridge_system", "")),
         cc_role |-> role,
         cc_lid |-> Int32(Num(t, "cc_lid", 0)),
         cc_remote_ip |-> Str(t, "cc_remote_ip", ""),
         cc_remote_port |-> IF role = "OUTBOUND" THEN Int32(Num(t, "cc_remote_port", 0)) ELSE -1,
         cc_remote_voice_port |-> Int32(Num(t, "cc_remote_voice_port", 0)),
         cc_channel_name |-> Str(t, "cc_channel_name", "")]

BadLink(t, peers) ==
    LET link == Link(t, peers)
        outbound == link.cc_role = "OUTBOUND"
    IN  \/ \E key \in {"name", "openbridge_system"} : Mistyped(t, key, "string", TRUE)
        \/ \E key \in {"enabled", "cross_connect_active"} : Mistyped(t, key, "bool", FALSE)
        \/ \E key \in {"tgid", "cc_lid"} : BadInt(t, key, TRUE, Nat)
        \/ link.openbridge_system # "" /\ link.openbridge_idx = 0
        \/ BadChoice(t, "cc_role", Roles, TRUE)
        \/ BadIp(t, "cc_remote_ip")
        \/ outbound /\ BadInt(t, "cc_remote_port", TRUE, Ports)
        \/ BadInt(t, "cc_remote_voice_port", TRUE, Ports)
        \/ Mistyped(t, "cc_channel_name", "string", outbound)

SameRoute(links, p) ==
    /\ links[p[1]].openbridge_idx # 0
    /\ links[p[1]].openbridge_idx = links[p[2]].openbridge_idx
    /\ links[p[1]].tgid = links[p[2]].tgid

SameCaller(links, p) ==
    /\ links[p[1]].cc_role = "INBOUND" /\ links[p[2]].cc_role = "INBOUND"
    /\ links[p[1]].cc_remote_ip = links[p[2]].cc_remote_ip
    /\ links[p[1]].cc_lid = links[p[2]].cc_lid

LinksClash(links) ==
    \E p \in Pairs(links) :
        SameName(links, p) \/ SameRoute(links, p) \/ SameCaller(links, p)

-----------------------------------------------------------------------------
(* config_load *)

\* The strings of [global] go into the CC-CC handshake as they are.
GlobalStrings ==
    {"cc_site_name", "cc_mac_address", "cc_code_revision", "cc_version", "cc_os_version"}

BadGlobal(t) ==
    \/ BadChoice(t, "log_level", {"DEBUG", "INFO", "WARNING", "ERROR"}, FALSE)
    \/ \E key \in GlobalStrings : Mistyped(t, key, "string", FALSE)
    \/ BadInt(t, "cc_keepalive_interval", FALSE, 1..300)
    \/ BadInt(t, "cc_link_timeout", FALSE, 1..3600)

\* toml_array_len entries, as many as the table holds.
Held(tables, max) == SubSeq(tables, 1, IF Len(tables) > max THEN max ELSE Len(tables))

Peers(file) ==
    [i \in DOMAIN Held(file.openbridge, MaxOpenbridge) |-> Peer(file.openbridge[i])]

Links(file) ==
    [i \in DOMAIN Held(file.link, MaxLinks) |-> Link(file.link[i], Peers(file))]

Loaded(file) == [openbridge |-> Peers(file), link |-> Links(file)]

\* An empty errbag: nothing is wrong with the file.
Accepted(file) ==
    /\ ~BadGlobal(file.global)
    /\ Len(file.openbridge) <= MaxOpenbridge /\ Len(file.link) <= MaxLinks
    /\ \A i \in DOMAIN Peers(file) : ~BadPeer(file.openbridge[i])
    /\ \A i \in DOMAIN Links(file) : ~BadLink(file.link[i], Peers(file))
    /\ ~PeersClash(Peers(file))
    /\ ~LinksClash(Links(file))

-----------------------------------------------------------------------------
(* config_reload_toggles *)

PeerToggles == {"enabled"}
LinkToggles == {"enabled", "cross_connect_active"}

\* Fault: the whole entry is taken over, not just its toggles.
CopiedAll(e, fresh, toggles) ==
    IF FindByName(fresh, e.name) = 0 THEN e ELSE fresh[FindByName(fresh, e.name)]

\* One entry of the running configuration after the merge.
Merged(e, fresh, toggles) ==
    LET j == FindByName(fresh, e.name)
    IN  IF j = 0 THEN e
        ELSE [k \in DOMAIN e |-> IF k \in toggles THEN fresh[j][k] ELSE e[k]]

\* Fault: entries are matched by their place in the file.
MergedByPlace(es, fresh, toggles) ==
    [i \in DOMAIN es |->
        IF i \in DOMAIN fresh
        THEN [k \in DOMAIN es[i] |-> IF k \in toggles THEN fresh[i][k] ELSE es[i][k]]
        ELSE es[i]]

MergedAll(es, fresh, toggles) == [i \in DOMAIN es |-> Merged(es[i], fresh, toggles)]
=============================================================================
