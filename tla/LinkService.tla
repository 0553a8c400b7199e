---------------------------- MODULE LinkService ----------------------------
(***************************************************************************)
(* What cccc_link.c promises the rest of the program about its CC-CC       *)
(* links, without handshakes, sockets or timers.  A link is up or not; it  *)
(* is up only while the program runs and the link is enabled; and whenever *)
(* a link's session ends the translator is told, by exactly one call of    *)
(* translator_cccc_link_down.  That call is visible here as a flip of      *)
(* session[l], so a session that ended without it, or a call that came     *)
(* without an ended session, is not a behaviour of this specification.     *)
(***************************************************************************)

CONSTANT Links              \* the [[link]] entries of the configuration

VARIABLES
    phase,                  \* "new", "running" or "stopped"
    enabled,                \* cfg->link[i].enabled
    up,                     \* is the link's session established
    session                 \* flips with each translator_cccc_link_down(i)

vars == <<phase, enabled, up, session>>

TypeOK ==
    /\ phase \in {"new", "running", "stopped"}
    /\ enabled \in [Links -> BOOLEAN]
    /\ up \in [Links -> BOOLEAN]
    /\ session \in [Links -> BOOLEAN]

\* The sessions of the links of S end: each one's translator state is told.
SessionsEnd(S) ==
    /\ up' = [l \in Links |-> up[l] /\ l \notin S]
    /\ session' = [l \in Links |-> IF l \in S THEN ~session[l] ELSE session[l]]

UpLinks == {l \in Links : up[l]}

Init ==
    /\ phase = "new"
    /\ enabled \in [Links -> BOOLEAN]
    /\ up = [l \in Links |-> FALSE]
    /\ session = [l \in Links |-> FALSE]

Start ==
    /\ phase = "new"
    /\ phase' = "running"
    /\ UNCHANGED <<enabled, up, session>>

LinkUp(l) ==
    /\ phase = "running"
    /\ enabled[l] /\ ~up[l]
    /\ up' = [up EXCEPT ![l] = TRUE]
    /\ UNCHANGED <<phase, enabled, session>>

\* A new connection takes the place of the one in use: down and up again.
LinkReplaced(l) ==
    /\ phase = "running"
    /\ enabled[l] /\ up[l]
    /\ session' = [session EXCEPT ![l] = ~session[l]]
    /\ UNCHANGED <<phase, enabled, up>>

LinkDown(l) ==
    /\ up[l]
    /\ SessionsEnd({l})
    /\ UNCHANGED <<phase, enabled>>

\* A reload takes down the links it disables and no other.
Reload(en) ==
    /\ phase = "running"
    /\ enabled' = en
    /\ SessionsEnd({l \in UpLinks : ~en[l]})
    /\ UNCHANGED phase

Stop ==
    /\ phase = "running"
    /\ phase' = "stopped"
    /\ SessionsEnd(UpLinks)
    /\ UNCHANGED enabled

Next ==
    \/ Start
    \/ \E l \in Links : LinkUp(l) \/ LinkReplaced(l) \/ LinkDown(l)
    \/ \E en \in [Links -> BOOLEAN] : Reload(en)
    \/ Stop

Spec == Init /\ [][Next]_vars
=============================================================================
