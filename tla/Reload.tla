------------------------------- MODULE Reload -------------------------------
(***************************************************************************)
(* main.c with config.c and the sockets of obp_link.c: start, the tick     *)
(* that looks at the two signal flags, the reload of the toggles, stop.    *)
(* Signals and edits of the file come at any time, also inside the tick.   *)
(***************************************************************************)
EXTENDS Config

CONSTANTS
    Files,              \* the contents the file may have, as toml.c reads them
    Unreadable,         \* a file toml.c cannot open or parse
    NoConfig            \* the local fresh of config_reload_toggles before it is filled

\* toml.c hands the entries over in arrays.
ASSUME FilesAssumption ==
    \A f \in Files : /\ Len(f.openbridge) \in Nat /\ DOMAIN f.openbridge = 1..Len(f.openbridge)
                    /\ Len(f.link) \in Nat /\ DOMAIN f.link = 1..Len(f.link)

VARIABLES
    file,               \* what is on disk
    cfg,                \* g_cfg
    fresh,              \* the configuration read by the reload in progress
    active,             \* obp_mux.active: the peers with a socket
    pc,                 \* where the program is
    reload_requested,   \* g_reload_requested
    shutdown_requested, \* g_shutdown_requested
    unread              \* a SIGHUP came after the file was last read

flags == <<reload_requested, shutdown_requested>>
vars == <<file, cfg, fresh, active, pc, flags, unread>>

\* "wait" is ev_run between two ticks; "load", "apply" and "rest" are inside
\* tick_cb, before config_load, before the merge and after do_reload.
Points == {"off", "wait", "load", "apply", "rest", "ended"}

TypeOK ==
    /\ file \in Files \cup {Unreadable}
    /\ pc = "off" => cfg = NoConfig
    /\ fresh # NoConfig =>
        /\ pc \in {"apply", "rest"}
        /\ ~PeersClash(fresh.openbridge) /\ ~LinksClash(fresh.link)
    /\ pc \in Points
    /\ reload_requested \in BOOLEAN /\ shutdown_requested \in BOOLEAN /\ unread \in BOOLEAN
    /\ pc # "off" => active \subseteq DOMAIN cfg.openbridge

\* config_load returns 0.
LoadSucceeds == file # Unreadable /\ Accepted(file)

Init ==
    /\ file \in Files \cup {Unreadable}
    /\ cfg = NoConfig /\ fresh = NoConfig
    /\ active = {}
    /\ pc = "off"
    /\ reload_requested = FALSE /\ shutdown_requested = FALSE /\ unread = FALSE

-----------------------------------------------------------------------------

EnabledPeers(c) == {i \in DOMAIN c.openbridge : c.openbridge[i].enabled}

\* main up to ev_run.  A peer whose bind fails stays without a socket; a file
\* that is refused, or a shared CC-CC port that is taken, ends the program.
Start ==
    /\ pc = "off"
    /\ LoadSucceeds
    /\ cfg' = Loaded(file)
    /\ active' \in SUBSET EnabledPeers(cfg')
    /\ pc' = "wait"
    /\ UNCHANGED <<file, fresh, flags, unread>>

\* on_sighup
Sighup ==
    /\ pc \notin {"off", "ended"}
    /\ reload_requested' = TRUE
    /\ unread' = TRUE
    /\ UNCHANGED <<file, cfg, fresh, active, pc, shutdown_requested>>

\* on_sigterm
Sigterm ==
    /\ pc \notin {"off", "ended"}
    /\ shutdown_requested' = TRUE
    /\ UNCHANGED <<file, cfg, fresh, active, pc, reload_requested, unread>>

\* Somebody saves the file, or makes it unreadable.
Edit ==
    /\ pc # "ended"
    /\ file' \in (Files \cup {Unreadable}) \ {file}
    /\ UNCHANGED <<cfg, fresh, active, pc, flags, unread>>

\* tick_cb up to do_reload
Tick ==
    /\ pc = "wait"
    /\ pc' = IF reload_requested THEN "load" ELSE "rest"
    /\ reload_requested' = FALSE
    /\ UNCHANGED <<file, cfg, fresh, active, shutdown_requested, unread>>

\* do_reload, config_reload_toggles: the file is read and refused
ReloadFails ==
    /\ pc = "load"
    /\ ~LoadSucceeds
    /\ pc' = "rest"
    /\ unread' = FALSE
    /\ UNCHANGED <<file, cfg, fresh, active, flags>>

\* config_reload_toggles: the file is read and accepted
ReloadLoads ==
    /\ pc = "load"
    /\ LoadSucceeds
    /\ fresh' = Loaded(file)
    /\ pc' = "apply"
    /\ unread' = FALSE
    /\ UNCHANGED <<file, cfg, active, flags>>

\* Fault: sockets are opened, but not closed.
BindsOnly(c) == {a \in SUBSET (EnabledPeers(c) \cup active) : active \subseteq a}

\* obp_mux_reconcile: what active may become
Reconciled(c) == {a \in SUBSET EnabledPeers(c) : active \cap EnabledPeers(c) \subseteq a}

\* config_reload_toggles after the load, and the rest of do_reload
ReloadApplies ==
    /\ pc = "apply"
    /\ cfg' = [openbridge |-> MergedAll(cfg.openbridge, fresh.openbridge, PeerToggles),
               link |-> MergedAll(cfg.link, fresh.link, LinkToggles)]
    /\ active' \in Reconciled(cfg')
    /\ pc' = "rest"
    /\ UNCHANGED <<file, fresh, flags, unread>>

\* Fault: the flag is cleared when the reload is over.
TickEndsClears ==
    /\ pc = "rest"
    /\ fresh' = NoConfig
    /\ reload_requested' = FALSE
    /\ IF shutdown_requested
       THEN pc' = "ended" /\ active' = {}
       ELSE pc' = "wait" /\ UNCHANGED active
    /\ UNCHANGED <<file, cfg, shutdown_requested, unread>>

\* The rest of tick_cb: ev_stop, whereupon main closes everything, or the
\* next tick.
TickEnds ==
    /\ pc = "rest"
    /\ fresh' = NoConfig
    /\ IF shutdown_requested
       THEN pc' = "ended" /\ active' = {}
       ELSE pc' = "wait" /\ UNCHANGED active
    /\ UNCHANGED <<file, cfg, flags, unread>>

Step == Tick \/ ReloadFails \/ ReloadLoads \/ ReloadApplies \/ TickEnds

Next == Start \/ Sighup \/ Sigterm \/ Edit \/ Step

Spec == Init /\ [][Next]_vars

\* The tick is armed again whenever it ends (EventTimers!TimersFire), and a
\* callback runs to its end.
FairSpec == Spec /\ WF_vars(Step)

-----------------------------------------------------------------------------
(* Properties *)

\* config_load has filled g_cfg.
Running == pc # "off"

\* No sequence of edits and reloads makes two entries of the running
\* configuration share a name, two links a talkgroup of one peer, or two
\* inbound links a remote and link id: the keys that
\* translator_obp_dmrd_received, handle_question_complete and the next reload
\* look entries up by.  The file
\* as a whole is checked, but only parts of it are taken over.
KeysStayUnique ==
    Running =>
        /\ \A p \in Pairs(cfg.openbridge) : ~SameName(cfg.openbridge, p)
        /\ ~LinksClash(cfg.link)

\* Every entry of es that new has under its name carries new's toggles.
Follow(es, new, toggles) ==
    \A i \in DOMAIN es, j \in DOMAIN new :
        es[i].name = new[j].name /\ es[i].name # "" => \A k \in toggles : es[i][k] = new[j][k]

\* After a reload every entry that the file has under its name carries the
\* file's toggles, wherever in the file it stands (config_reload_toggles).
TogglesFollowFile ==
    pc = "rest" /\ fresh # NoConfig =>
        /\ Follow(cfg.openbridge, fresh.openbridge, PeerToggles)
        /\ Follow(cfg.link, fresh.link, LinkToggles)

\* Outside of a reload no disabled peer has a socket, whatever binds failed
\* and however often it was toggled (obp_mux_reconcile).
DisabledPeersDark == TypeOK /\ (Running => active \subseteq EnabledPeers(cfg))

\* The file is read again after every SIGHUP, unless the program ends first.
RequestServed == unread ~> ~unread \/ pc = "ended"

\* SIGTERM ends the program, however many SIGHUPs arrive with it (tick_cb).
ShutdownServed == shutdown_requested ~> pc = "ended"

\* Neither signal is lost, whenever it arrives and whatever the tick is doing:
\* the flag of a SIGHUP is cleared before the file is opened, and that of a
\* SIGTERM is looked at in every tick (tick_cb).
SignalsServed == RequestServed /\ ShutdownServed
=============================================================================
