----------------------------- MODULE EventLoop ------------------------------
(***************************************************************************)
(* The descriptor side of eventloop.c: the tables of read and write        *)
(* registrations, and the round of ev_run that polls a snapshot of them    *)
(* and then dispatches by index while callbacks change the tables and the  *)
(* kernel gives closed numbers out again.                                  *)
(*                                                                         *)
(* Callbacks are those of cccc_link.c and obp_link.c.  What they do to the *)
(* loop is a sequence of the operations below, in any order; only          *)
(* on_connect_writable, which the loop's promise is about, is spelled out. *)
(* Timers are in EventTimers: here their callbacks come between the poll   *)
(* and the dispatch.                                                       *)
(***************************************************************************)
EXTENDS Integers, Sequences, FiniteSets

CONSTANTS
    Fds,                \* the numbers the kernel gives out
    Uds, NoUd,          \* the (cb, ud) pairs; none
    NoCb, TimerCb,      \* no callback is running; one of a timer (or main) is
    MaxFds              \* MAX_FDS

Entry == [fd : Fds, ud : Uds]

\* The program never holds more sockets than a table has room for: 3 shared
\* ones, CFG_MAX_OPENBRIDGE, CFG_MAX_LINKS and MAX_PENDING are 195 of 256.
ASSUME RoomAssumption == IsFiniteSet(Fds) /\ MaxFds \in Nat /\ Cardinality(Fds) <= MaxFds
ASSUME UdAssumption == NoUd \notin Uds
ASSUME CbAssumption == NoCb # TimerCb /\ NoCb \notin Entry /\ TimerCb \notin Entry

Kinds == {"read", "write"}

VARIABLES
    tab,                \* tab["read"] is fds[0..nfds), tab["write"] wfds[0..nwfds)
    running,            \* loop->running
    pc,                 \* where ev_run is: "poll", "timers", "dispatch" or "done"
    pfd, pos,           \* pfd with rmap and wmap; the index of the dispatch loop
    cb,                 \* the callback that is running, with its arguments
    sock,               \* what the kernel has open under each number
    ready,              \* the numbers with input, or an end of it, waiting
    owner,              \* who the callers of ev_add_fd/ev_del_fd registered last
    opened              \* the numbers given out since the poll

loopVars == <<running, pc, pfd, pos>>
vars == <<tab, loopVars, cb, sock, ready, owner, opened>>

\* UDP sockets block on recv; TCP ones are O_NONBLOCK.  A connect is in
\* progress or over, with an outcome that SO_ERROR will tell.
SockStates == {"closed", "udp", "tcp", "dialing", "dialed"}

Polled == [kind : Kinds, fd : Fds, idx : 1..MaxFds, rev : BOOLEAN]

TypeOK ==
    /\ tab \in [Kinds -> Seq(Entry)]
    /\ running \in BOOLEAN
    /\ pc \in {"poll", "timers", "dispatch", "done"}
    /\ pfd \in Seq(Polled) /\ pos \in 1..(Len(pfd) + 1)
    /\ cb \in {NoCb, TimerCb} \cup Entry
    /\ sock \in [Fds -> SockStates]
    /\ ready \subseteq Fds
    /\ owner \in [Kinds -> [Fds -> Uds \cup {NoUd}]]
    /\ opened \subseteq Fds

-----------------------------------------------------------------------------
(* The tables *)

Has(s, f) == \E i \in DOMAIN s : s[i].fd = f

\* The index at which the search loops stop.
IndexOf(s, f) == CHOOSE i \in DOMAIN s : s[i].fd = f /\ \A j \in 1..(i - 1) : s[j].fd # f

\* Fault: an entry of the same number is not looked for.
AppendOnly(s, f, u) == Append(s, [fd |-> f, ud |-> u])

\* ev_add_fd, ev_add_fd_write
EvAdd(s, f, u) ==
    IF Has(s, f) THEN [s EXCEPT ![IndexOf(s, f)] = [fd |-> f, ud |-> u]]
    ELSE IF Len(s) < MaxFds THEN Append(s, [fd |-> f, ud |-> u]) ELSE s

\* Fault: the entries behind the deleted one are kept, the last is lost.
DelLast(s, f) == IF Has(s, f) THEN SubSeq(s, 1, Len(s) - 1) ELSE s

\* ev_del_fd, ev_del_fd_write: the last entry takes the place of the deleted
EvDel(s, f) ==
    IF Has(s, f)
    THEN [j \in 1..(Len(s) - 1) |-> IF j = IndexOf(s, f) THEN s[Len(s)] ELSE s[j]]
    ELSE s

-----------------------------------------------------------------------------
(* What callbacks do *)

InCallback == cb # NoCb

Free == {f \in Fds : sock[f] = "closed"}

\* udp_bind, or tcp_accept and tcp_listen, and the registration for reading
OpenForReading(f, u, type) ==
    /\ InCallback
    /\ f \in Free
    /\ sock' = [sock EXCEPT ![f] = type]
    /\ tab' = [tab EXCEPT !["read"] = EvAdd(@, f, u)]
    /\ owner' = [owner EXCEPT !["read"][f] = u]
    /\ opened' = opened \cup {f}
    /\ UNCHANGED <<loopVars, cb, ready>>

\* cccc_start_outbound_connect: tcp_connect_start, then ev_add_fd_write
Dial(f, u) ==
    /\ InCallback
    /\ f \in Free
    /\ sock' = [sock EXCEPT ![f] = "dialing"]
    /\ tab' = [tab EXCEPT !["write"] = EvAdd(@, f, u)]
    /\ owner' = [owner EXCEPT !["write"][f] = u]
    /\ opened' = opened \cup {f}
    /\ UNCHANGED <<loopVars, cb, ready>>

\* handle_question_complete hands a pending connection on to its link: the
\* same number is registered again, for another owner.
HandOver(f, u) ==
    /\ InCallback
    /\ sock[f] = "tcp" /\ owner["read"][f] # NoUd
    /\ tab' = [tab EXCEPT !["read"] = EvAdd(@, f, u)]
    /\ owner' = [owner EXCEPT !["read"][f] = u]
    /\ UNCHANGED <<loopVars, cb, sock, ready, opened>>

Closed(f) ==
    /\ sock' = [sock EXCEPT ![f] = "closed"]
    /\ ready' = ready \ {f}

\* teardown_link_connection, free_pending, unbind_peer: ev_del_fd,
\* ev_del_fd_write, close
Drop(f) ==
    /\ InCallback
    /\ f \notin Free
    /\ tab' = [k \in Kinds |-> EvDel(tab[k], f)]
    /\ owner' = [k \in Kinds |-> [owner[k] EXCEPT ![f] = NoUd]]
    /\ Closed(f)
    /\ UNCHANGED <<loopVars, cb, opened>>

\* ev_stop, from tick_cb; main sets up before ev_run, and does not call it
EvStop ==
    /\ InCallback /\ pc # "poll"
    /\ running' = FALSE
    /\ UNCHANGED <<tab, pc, pfd, pos, cb, sock, ready, owner, opened>>

Return ==
    /\ InCallback
    /\ cb' = NoCb
    /\ UNCHANGED <<tab, loopVars, sock, ready, owner, opened>>

Operation ==
    \/ EvStop
    \/ \E f \in Fds : Drop(f)
    \/ \E f \in Fds, u \in Uds :
         Dial(f, u) \/ HandOver(f, u) \/ \E type \in {"udp", "tcp"} : OpenForReading(f, u, type)

-----------------------------------------------------------------------------
(* The kernel: input arrives on a socket; a connect is over *)

Arrives(f) ==
    /\ sock[f] \in {"udp", "tcp"}
    /\ ready' = ready \cup {f}
    /\ UNCHANGED <<tab, loopVars, cb, sock, owner, opened>>

ConnectOver(f) ==
    /\ sock[f] = "dialing"
    /\ sock' = [sock EXCEPT ![f] = "dialed"]
    /\ UNCHANGED <<tab, loopVars, cb, ready, owner, opened>>

Kernel == \E f \in Fds : Arrives(f) \/ ConnectOver(f)

-----------------------------------------------------------------------------
(* One round of ev_run *)

\* main registers the sockets that are there from the start, then calls ev_run.
Init ==
    /\ tab = [k \in Kinds |-> <<>>]
    /\ running = TRUE
    /\ pc = "poll" /\ pfd = <<>> /\ pos = 1
    /\ cb = TimerCb
    /\ sock = [f \in Fds |-> "closed"]
    /\ ready = {} /\ opened = {}
    /\ owner = [k \in Kinds |-> [f \in Fds |-> NoUd]]

Revents(k, f) == IF k = "read" THEN f \in ready ELSE sock[f] = "dialed"

\* pfd[] for table k: an entry remembers the index it came from.
Snapshot(k) ==
    [i \in DOMAIN tab[k] |->
       [kind |-> k, fd |-> tab[k][i].fd, idx |-> i, rev |-> Revents(k, tab[k][i].fd)]]

\* poll returns with what is ready, or after its timeout with nothing.
Poll ==
    /\ pc = "poll" /\ ~InCallback
    /\ pfd' = Snapshot("read") \o Snapshot("write")
    /\ pos' = 1
    /\ pc' = "timers"
    /\ opened' = {}
    /\ UNCHANGED <<tab, running, cb, sock, ready, owner>>

\* poll fails with anything but EINTR, which only starts the round again.
PollFails ==
    /\ pc = "poll" /\ ~InCallback
    /\ pc' = "done"
    /\ UNCHANGED <<tab, running, pfd, pos, cb, sock, ready, owner, opened>>

\* The pass over the timers, with callbacks or without.  One callback stands
\* for those of the pass: it may do all that they do.
TimerPass ==
    /\ pc = "timers" /\ ~InCallback
    /\ cb' \in {NoCb, TimerCb}
    /\ pc' = "dispatch"
    /\ UNCHANGED <<tab, running, pfd, pos, sock, ready, owner, opened>>

\* Fault: the index is trusted.
HitByIndex(e) == e.rev /\ e.idx <= Len(tab[e.kind])

\* The registration found at an entry's index still has the entry's number.
Hit(e) ==
    /\ e.rev
    /\ e.idx <= Len(tab[e.kind])
    /\ tab[e.kind][e.idx].fd = e.fd

\* Fault: the loop over pfd does not look at running.
AtEntryStopped == pc = "dispatch" /\ ~InCallback /\ pos <= Len(pfd)

AtEntry == pc = "dispatch" /\ ~InCallback /\ running /\ pos <= Len(pfd)

\* The event is absent, or its registration is gone or was moved.
Skip ==
    /\ AtEntry
    /\ ~Hit(pfd[pos])
    /\ pos' = pos + 1
    /\ UNCHANGED <<tab, running, pc, pfd, cb, sock, ready, owner, opened>>

\* A read callback begins: it takes what is waiting.
CallReader ==
    /\ AtEntry
    /\ pfd[pos].kind = "read" /\ Hit(pfd[pos])
    /\ cb' = [fd |-> pfd[pos].fd, ud |-> tab["read"][pfd[pos].idx].ud]
    /\ ready' = ready \ {pfd[pos].fd}
    /\ pos' = pos + 1
    /\ UNCHANGED <<tab, running, pc, pfd, sock, owner, opened>>

\* on_connect_writable: ev_del_fd_write, then tcp_connect_finish.  With
\* SO_ERROR = 0 the link begins its handshake and registers for reading; with
\* an error the socket is closed.  A connect still in progress has no error.
CallConnected(failed) ==
    /\ AtEntry
    /\ pfd[pos].kind = "write" /\ Hit(pfd[pos])
    /\ LET f == pfd[pos].fd
           u == tab["write"][pfd[pos].idx].ud
       IN  /\ failed => sock[f] = "dialed"
           /\ cb' = [fd |-> f, ud |-> u]
           /\ IF failed
              THEN /\ tab' = [tab EXCEPT !["write"] = EvDel(@, f)]
                   /\ owner' = [owner EXCEPT !["write"][f] = NoUd]
                   /\ Closed(f)
              ELSE /\ tab' = [tab EXCEPT !["write"] = EvDel(@, f),
                                         !["read"] = EvAdd(@, f, u)]
                   /\ owner' = [owner EXCEPT !["write"][f] = NoUd, !["read"][f] = u]
                   /\ sock' = [sock EXCEPT ![f] = "tcp"]
                   /\ UNCHANGED ready
    /\ pos' = pos + 1
    /\ UNCHANGED <<running, pc, pfd, opened>>

\* pfd is local to the round.
RoundDone ==
    /\ pc = "dispatch" /\ ~InCallback
    /\ ~running \/ pos > Len(pfd)
    /\ pc' = IF running THEN "poll" ELSE "done"
    /\ pfd' = <<>> /\ pos' = 1 /\ opened' = {}
    /\ UNCHANGED <<tab, running, cb, sock, ready, owner>>

Dispatch == Skip \/ CallReader \/ (\E failed \in BOOLEAN : CallConnected(failed)) \/ RoundDone

Next == Operation \/ Return \/ Kernel \/ Poll \/ PollFails \/ TimerPass \/ Dispatch

Spec == Init /\ [][Next]_vars

-----------------------------------------------------------------------------
(* Properties *)

\* The tables are what their callers registered: no number twice, none lost
\* or revived by the moves of ev_del_fd, each with its latest (cb, ud).
TablesFaithful ==
    \A k \in Kinds :
        /\ \A i, j \in DOMAIN tab[k] : tab[k][i].fd = tab[k][j].fd => i = j
        /\ \A f \in Fds, u \in Uds :
             owner[k][f] = u <=> \E i \in DOMAIN tab[k] : tab[k][i] = [fd |-> f, ud |-> u]

\* A socket is watched as long as it is open, in exactly one of the tables,
\* and a number that is closed is in none: poll never sees a stale number.
OpenIsWatched ==
    \A f \in Fds :
        /\ sock[f] \in {"udp", "tcp"} <=> Has(tab["read"], f)
        /\ sock[f] \in {"dialing", "dialed"} <=> Has(tab["write"], f)

\* Both, after any sequence of ev_add_fd, ev_del_fd and closings.
TablesExact == TypeOK /\ TablesFaithful /\ OpenIsWatched

\* A callback begins with a number that is open and with the (cb, ud) that
\* is registered for it, whatever earlier callbacks of the round moved.
RightOwnerCalled ==
    cb = NoCb /\ cb' \in Entry =>
        \/ owner["read"][cb'.fd] = cb'.ud
        \/ owner["write"][cb'.fd] = cb'.ud

\* What a callback is called for is still true when it begins: input waits on
\* the socket, the connect is over.  The one exception is a number that was
\* closed and given out again since the poll, which ev_run cannot tell apart.
StaleOnlyIfReopened ==
    cb = NoCb /\ cb' \in Entry /\ cb'.fd \notin opened =>
        cb'.fd \in ready \/ sock[cb'.fd] = "dialed"

\* Whatever the callbacks of a round move, close and open, ev_run's test of
\* index and number finds the owner of an event, and the event is real.
EventsReachOwners == [][RightOwnerCalled /\ StaleOnlyIfReopened]_vars

\* After ev_stop no callback begins: the program does not act on its sockets
\* once it has decided to end.
StoppedIsQuiet == ~running => cb' \in {cb, NoCb}

\* Input that waits is taken, or its socket closed, whatever the callbacks of
\* each round do to the tables.
InputServed ==
    \A f \in Fds : f \in ready ~> (f \notin ready \/ ~running \/ pc = "done")

\* Likewise for the outcome of a connect.
OutcomeServed ==
    \A f \in Fds : sock[f] = "dialed" ~> (sock[f] # "dialed" \/ ~running \/ pc = "done")

\* Nothing that poll reports is skipped for ever, although ev_del_fd moves
\* entries under the indices of the round (eventloop.c:207-222).
EventsServed == InputServed /\ OutcomeServed

\* A callback never stalls the loop: one that reads a blocking (UDP) socket
\* is only called when there is something to read (eventloop.h: "without
\* blocking the single-threaded loop").
LoopNeverBlocks ==
    [][cb = NoCb /\ cb' \in Entry => (sock[cb'.fd] = "udp" => cb'.fd \in ready)]_vars
=============================================================================
