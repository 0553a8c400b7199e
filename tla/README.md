# cc2obp: specifications, model checking and proofs

cc2obp joins c-Bridge CC-CC links to OpenBridge peers: it keeps TCP control
connections to other Control Centers, carries calls between each link and a
talkgroup of an OpenBridge peer, and is reconfigured by SIGHUP while it runs.
It is one process with one thread and an event loop. What makes it hard is not
parallelism but the number of orders in which callbacks can come: two ends that
start calls at once, connections that are replaced before the old one is known
to be dead, descriptors that the kernel hands out again, timers that outlive
what they were armed for, reloads that pull links and sockets away in mid-call.

This directory holds TLA+ modules for that behaviour, TLC configurations that
check small instances, and proofs that TLAPS checks for instances of any size.
`PROJECT.json` lists every run, theorem, hazard and finding, and maps each
definition to the source lines it models.

## 1. The system

| Part | Source | State | Operations | Hard because |
|---|---|---|---|---|
| CC-CC links | `cccc/cccc_link.c` | per link: state, fd, sync source, receive buffer, Answer lines, keepalive and reconnect timers; the pending table | dial, connect result, Question, Answer, accept, match, replace, keepalive, timeout, tear down, reconcile, stop | ownership of descriptors and timers over many exit paths; input that is split, merged, early or never comes |
| Translator | `translate.c` | per link: the call (origin, stream, last activity, first voice sent, slot, burst position); per peer: the sequence byte | head, burst, term from the peer; B-on, voice, B-off from the link; link up and down; idle tick | half duplex: both ends may start; ends of calls get lost or are dropped by a gate that has closed |
| OpenBridge peers | `openbridge/obp_link.c` | per peer: UDP socket | bind, unbind, reconcile, receive, send | sockets disappear under calls |
| Main | `main.c` | reload and shutdown flags | start, tick, reload, stop | the order of translator, links and peers in each |
| Configuration | `config.c` | the running configuration | load, validate, merge toggles | the merge mixes a validated file with running values |
| TOML reader | `toml.c` | while it reads: section, entries, counts of blocks | lines, headers, entries, lookups | three scanners of one line; interleaved blocks |
| Event loop | `eventloop.c` | read set, write set, timers | add, delete, arm, cancel, one round | a round dispatches a snapshot over tables that callbacks change |
| Sockets | `net.c` | none | wrappers of system calls | |
| Coding | `cccc/cccc_ambe.c`, `dmr/` | none | AMBE packing, FEC, BPTC | tables and index arithmetic in which a round trip can hide two mistakes |
| Digests | `crypto.c` | the context of a hash | SHA-1, SHA-256, HMAC-SHA1 | lengths around a block's end |
| Log | `log.c` | none | output | |

Interaction: the event loop calls `cccc_link.c` and `obp_link.c` when bytes or
timers are due. Both call the translator (`translator_cccc_bon`, `_voice`,
`_boff`, `_link_up`, `_link_down`; `translator_obp_dmrd_received`), and the
translator calls back into both to send (`cccc_send_*`, `obp_send_dmrd`) and to
ask whether a peer has a socket (`obp_peer_is_enabled`). All share the
configuration, which a reload changes in place. Nothing is stored on disk, so
a restart begins afresh and there is no recovery to model.

What makes each part correct:

- **Links**: each connection has one owner and each owner the callbacks and
  timers it should have; sync sources identify links; a disabled link is dark;
  the translator hears of every session that ends, once; links that are silent
  or down are noticed and redialed.
- **Translator**: each end is told of calls in brackets; the two ends never
  both hold a link; a call ends when its link or its activity does.
- **Peers and main**: a call that a reload ends is ended at the peer before its
  socket closes; no signal is lost; a disabled peer has no socket.
- **Packets**: sequence, timestamp and position agree with each other and with
  the time that passed, over losses, jitter, wraps and sockets that come and go.
- **Event loop**: a callback gets the context of its own descriptor, timers
  fire in order, once and only while somebody holds them, and nothing that is
  waiting is skipped for ever.
- **Configuration**: what is accepted satisfies the rules, also after merges;
  the reader reads what was written.
- **Coding and digests**: what is encoded can be decoded by the standard's
  receiver, bit for bit.

## 2. Modules

| Module | Models | Kind |
|---|---|---|
| `LinkService` | what `cccc_link.c` promises the rest of the program | abstract specification |
| `CcccLink` | all of `cccc_link.c` that keeps state, with the descriptor and timer tables it uses | detailed specification |
| `CcccLinkProofs` | safety of `CcccLink`; it implements `LinkService`; `System` implements `Cc2obp` | proofs |
| `Translator` | the handlers of `translate.c` as operators | component, without a Next of its own |
| `Cc2obp` | the bridge: `Translator` over `LinkService`, with the peers' sockets, the tick and the reload | composition |
| `Cc2obpProofs` | safety of `Cc2obp` | proofs |
| `System` | the program: the links of `CcccLink` under the bridge of `Cc2obp` | composition |
| `Keepalive` | the supervision of one link over time: `keepalive_cb`, the reflection in `on_voice_readable`, a far end, a lossy network | component with its environment |
| `KeepaliveProofs` | the watchdog of `Keepalive` | proofs |
| `ControlStream` | `feed_bytes`: lines out of TCP segments | component |
| `RtpClock` | sequence numbers and timestamps of `handle_obp_voice_burst`, a source and a network with jitter | component with its environment |
| `RtpClockProofs` | the numbers of `RtpClock` | proofs |
| `Superframe` | burst positions, embedded fragments and the sequence byte of `send_dmrd` | component |
| `EventLoop` | the descriptor tables and the round of `eventloop.c`, and the kernel's sockets | component with its environment |
| `EventTimers` | the timer list of `eventloop.c` | component |
| `EventTimersProofs`, `EventLoopProofs` | safety of `EventTimers`; of `EventLoop`, and of both as `MCEventLoop` joins them | proofs |
| `Config` | `config.c`: load, validation, merge | operators |
| `Reload` | `main.c` around `Config`: signals, tick, reload, peers' sockets | composition |
| `ReloadProofs` | safety of `Reload` | proofs |
| `TomlLine` | one line of `toml.c`, character by character | operators and the texts to try them on |
| `Toml` | `toml_parse_file` on lines, `toml_get`, `toml_array_len` | component |
| `DmrBits`, `Rs129` | bit arrays, Hamming codes, checksum; GF(256) and Reed-Solomon | operators |
| `FullLc`, `EmbeddedLc`, `Ambe` | the three payloads: header and terminator, embedded LC, voice | operators and the data to try them on |
| `Sha` | streaming and padding of the digests, HMAC | component |
| `MCCcccLink`, `MCCc2obp`, `MCSystem`, `MCReload` | constants and data of the instances | model checking |
| `MCEventLoop` | `EventLoop` and `EventTimers`, with the fairness of both | model checking |
| `MCTraffic` | `Keepalive`, `ControlStream`, `RtpClock`, `Superframe` and `Sha` | model checking |
| `TrafficProofs` | safety of the five as `MCTraffic` joins them; `ControlStream`, `Superframe` and `Sha` themselves | proofs |
| `MCConfigCodes` | `Reload` with the files of `MCReload`; `FullLc`, `EmbeddedLc`, `Ambe`, `Rs129`, `TomlLine` and `Toml` | model checking |

`MCEventLoop`, `MCTraffic` and `MCConfigCodes` put modules that share no state into one run: a variable
(`side`, `part`) is chosen in the initial state and says which of them moves,
and each property speaks about the part that is running. `RtpClock` is
instantiated twice, for delays below half a slot and above a whole one.

The composition has three layers. `CcccLink` keeps the promises of
`LinkService`; `Cc2obp` is the bridge over those promises; `System` is the
bridge over the code, with the descriptors, timers, pending slots and
handshakes of `CcccLink` under the translator's calls. The product is too large
for TLC beyond the smallest instance, so what the bridge does is checked on
`Cc2obp` and carried over: `System` implements `Cc2obp` (`BridgeHolds`), by a
proof for every instance. What `LinkService` has to carry for this is
`session[l]`, which flips with each call of `translator_cccc_link_down(l)`: a
session that ends silently, or a report of a session that has not ended, is not
a behaviour of it.

### CcccLink

A link's `state`, `fd`, `ssrc`, `hsn`, `active` are the fields of `cc_link`
with their names shortened (`ssrc = NoSsrc` is `has_sync_source == 0`). `pend`
is the pending table. Three things are modelled in a way that lets mistakes
show:

- *Descriptors* are drawn from a small set and are reused after `close()`.
  `open` is what the kernel holds for the process, `handler` and `wr` what is
  registered with the event loop; neither is derived from the link's state.
- *Timers* are counts (`katimer`, `reconn`, `ptimer`), not flags. A handle that
  is overwritten while its timer is still armed leaves a count of two, and the
  timer still fires.
- *Input* is lines. Of buffers the model keeps what later steps can notice:
  the number of Answer lines (`hsn`), and whether an incomplete line is held
  (`part`).

| Action | Code |
|---|---|
| `Start`, `Reload`, `Stop` | `cccc_mux_start`, `cccc_mux_reconcile` after the toggles were copied, `cccc_mux_stop` |
| `ReconnectTimer` | `reconnect_cb` and the connect it starts |
| `ConnectSucceeds`, `ConnectFails` | `on_connect_writable` |
| `AnswerLine`, `AnswerAccepted`, `AnswerRejected` | `link_on_line`, `finish_outbound_handshake` |
| `LinkBytes`, `PeerClosed` | `on_link_tcp_readable` |
| `KeepaliveSent`, `KeepaliveExpired`, `KeepaliveReceived` | `keepalive_cb`, `on_voice_readable` |
| `Accept` | one turn of `on_listen_readable` |
| `QuestionLine`, `QuestionRefused`, `QuestionAccepted` | `pending_on_line`, `handle_question_complete` |
| `PendingClosed`, `PendingTimeout` | `on_pending_readable`, `pending_timeout_cb` |
| `QuestionAcceptedTwice` | the same segment holds a line too many; only in `SpecPipelined` |

`teardown_link_connection` and `cccc_start_outbound_connect` are called from
many places and, in a reload, for many links in one callback. `Connections`
describes any such set of teardowns and dials at once; `Teardown` is the case
of a single link.

Time: a link's clock is the number of keepalive expiries since the last
keepalive was heard (`missed`). At the m-th expiry the age of that keepalive
lies between m - 1 and m intervals plus what timers are late; `MayExpire` and
`MustExpire` are the two edges, and in between either outcome is allowed.

### Translator and Cc2obp

`call[l]` is `has_call` and the part of `call_state` that decides anything:
origin, stream, and whether voice has been sent (`cc_sent_first`). `far[l]` and
`near[l]` are not variables of the program: they are what the CC-CC end and the
peer, having received what was sent, believe about the call. They are moved
only by what the code sends and drops, and the properties speak about them.
`"stray"` marks a message that no bracket allows (voice before B-on, a second
VOICE_HEAD), `"abandoned"` a stream left open by a socket that was closed.

| Action | Code |
|---|---|
| `FromObp` | `on_obp_readable`, `translator_obp_dmrd_received`: head, burst or term of any stream in any order |
| `FromCc` | `dispatch_established_line`, `on_voice_readable`: B-on, voice, B-off in any order |
| `LinkComesUp`, `SessionEnds` | a session begins, ends or is replaced in `cccc_link.c`, and the translator's callback |
| `Tick`, `TickReload` | `tick_cb`: `translator_tick`, then the reload if one was asked for: toggles, links, peers |
| `Start`, `Stop` | `main` |

One definition stands out of the handlers: `CallsEnd(expired, down, closing)`
is the order of a tick with a reload. Idle calls are ended while their links
are still up; then links go down, with a VOICE_TERM for their calls; then
sockets close.

### System

`System` adds no state. Each of its actions is an action of `CcccLink` with what
the translator does in the same callback:

| Action | Code |
|---|---|
| `LinkCallback` | any callback of a connection, a slot or a timer in `cccc_link.c`; for each session it ends, `translator_cccc_link_down` before it returns (`TranslatorTold`) |
| `CallLine` | `dispatch_established_line`: a B-on or B-off on the link's own connection |
| `VoicePacket` | `on_voice_readable`: a voice packet, to the link with its sync source and address |
| `PeerPacket` | `on_obp_readable` |
| `Begin`, `IdleTick`, `ReloadTick`, `End` | `main`, `tick_cb`: links and sockets in the order of the code |

`Up` is `cccc_link_is_up`, the test in every `cccc_send_*`. It is computed from
the links' states, where `Cc2obp` has a variable. The properties that are new
here relate a call to what is under it: `CallSupervised` says that an announced
call has a connection that is watched, a keepalive timer and a sync source.

### Keepalive, ControlStream, RtpClock, Superframe

Four questions about `cccc_link.c` and `translate.c` that need something the
two big modules abstract from: time, bytes, or numbers.

`Keepalive` has a clock. `conn` is the connection each end believes in,
`last_recv` and the timer are those of `cc_link`; datagrams carry the time by
which they arrive. The far end is external: the protocol lets an end originate
keepalives, reflect them, or both, so `kind` is chosen at the start of a
connection and all three are tried. It may vanish without closing.

`ControlStream` is the loop of `feed_bytes` over a segment in one action, with
the text since the last LF kept beside the buffer, for the properties.

`RtpClock` has a source that sends head, bursts and terminator a slot apart and
a network that loses, delays and reorders them; `Slot` units of time are 60 ms.
`SlotIndex` is the rounding of `translate.c:275` in integers, and `SeqMod` and
`TsMod` are the widths of the two header fields. `Idle` is
`CALL_IDLE_TIMEOUT_S`.

`Superframe` takes calls from the CC-CC side on several links of one peer.
`heard` is what the peer received of a stream without a gap.

### EventLoop and EventTimers

The two halves of `ev_run` share only the order of a round: poll, timers,
dispatch. `EventLoop` keeps both tables as sequences, because the code depends
on indices: `Snapshot` is the array given to `poll`, `Hit` the test of index
and number, `EvDel` the move of the last entry. A callback is a period in
which any sequence of the operations that callbacks use may happen
(`OpenForReading`, `Dial`, `HandOver`, `Drop`, `EvStop`); that covers every
callback of the program and more. `TimerPass` is the pass over the timers as
this half sees it: one period in which callbacks run. `owner` remembers what
was registered and `opened` what was opened since the last poll, for the
properties. `sock` is the kernel's side: a UDP socket blocks, a TCP socket
does not, a connect is in progress or over.

In `EventTimers` a timer is a block of memory that is free, active or
cancelled; `held` are the handles that the rest of the program keeps. Time
passes between any two steps, also inside a pass, whose `now` is fixed.

### Config and Reload

`Config` translates the loading functions: a file is three groups of tables
from keys to typed values, `Loaded` the configuration made of them and
`Accepted` the absence of every error. `Merged` is what
`config_reload_toggles` takes over of an entry; its warnings are left out.
`Trimcpy` and `Upper`, which work on the characters of a string, are constants.
`Reload` splits `tick_cb` at the points where a signal or an
edit of the file makes a difference.

### TomlLine and Toml

`TomlLine` is the only module that works on characters, because its property
is about them. The state is a text; each property writes it down as a value in
one of the forms TOML has, runs `ParseLine` on the line, and compares. `Toml`
takes lines as already understood and models where they are filed.

### DmrBits, Rs129, FullLc, EmbeddedLc, Ambe, Sha

Pure functions, on sequences of bits and bytes with the code's tables. Each
property compares with a definition that is not the code's own inverse: a
matrix whose rows and columns are codewords, a polynomial with its roots, a
product computed by shifting, a receiver that corrects one bit a row, the
padding of a whole message. In `Sha` the compression function is a
constructor: a hash is the sequence of blocks it was made of. Its loops are
functions of the number of turns, with as many turns as the loop can need.

Definitions marked "Fault:" are not part of any specification. They are
plausible mistakes in the definition that follows (a forgotten `ev_del_fd`, an
unchecked flag, a swapped order), kept to show for every property that some
mistake in the code would break it.

## 3. Runs

| Run | Instance | Shows | States |
|---|---|---|---|
| `link_mixed` | 1 outbound, 2 inbound links of one address, 1 slot, 4 fds, 3 sync sources, Answer of 2 lines, Question of 1 | type, ownership, dispatch, timers, sync sources, darkness, fresh buffers, and refinement of `LinkService` | 79 496 |
| `link_live` | 1 link of each role, 1 slot, 3 fds, Question of 2 lines | silence is noticed, a link that is down redials, slots empty | 33 628 |
| `link_pipelined` | 2 inbound links, 2 slots, 4 fds, Question of 2 lines, `SpecPipelined` | finding 1 | violation |
| `link_handshake` | 1 outbound link | finding 2 | violation |
| `bridge_calls` | 2 links of 1 peer, 2 streams | brackets at both ends, half duplex, calls end with links and sockets | 118 464 |
| `system` | 1 inbound link, 1 slot, 2 fds, Question of 2 lines, 1 peer, 1 stream, idle timeout of 2 ticks | the bridge over the real links is the bridge; calls have what ends them, and calls without an end are ended | 16 280 |
| `bridge_late_up` | 1 link, 1 stream | finding 3 | violation |
| `loop` | 2 descriptors, 2 owners; 2 timers, 2 delays, 3 units of time | tables and handles stay exact while callbacks change them in mid-round; events and timers reach their owners, in order, and all are served | 158 691 |
| `loop_blocks` | 1 descriptor | finding 4 | violation |
| `traffic` | keepalives: interval 3, timeout 7, flights of 1 or 2, three kinds of far end, 1 loss, 2 connections; lines: buffer of 4, segments of up to 3, lines of up to 5; packets: 6 bursts, numbers modulo 4, timestamps modulo 13; superframes: 2 links, sequence byte modulo 4, 10 frames; digests: messages and keys of up to 13 bytes in blocks of 4 | live links stay and dead ones are noticed; lines come out whole; numbers and timestamps agree with time; one row of numbers and complete link control for late entry; digests of pieces are those of the whole | 3 487 351 |
| `config_and_codes` | 8 files: peers and links reordered, exchanged, gone, disabled, refused; single bits of a full LC, LCs of 7 byte values around the checksum's edges, pairs of bits of a voice frame, all pairs of bytes, all Golay words, texts of 4 out of 10 special characters, files of 5 lines | merges follow the file and keep keys unique; disabled peers are dark; SIGHUP and SIGTERM are served; codes, packing and the TOML reader agree with their definitions | 184 397 |
| `call_numbers` | 2 bursts a slot of 2 apart, no delay | finding 5 | violation |

The runs of this table that check several modules have properties that join
the ones the modules state: `TablesExact` is `TablesFaithful` and
`OpenIsWatched`; `EventsReachOwners` is `RightOwnerCalled` and
`StaleOnlyIfReopened`; `TimersOnTime` is `PassEnds`, `FiresInOrder` and
`PollWakesInTime`; `WatchdogExact` is `AlarmMeant` and `DeadNoticed`;
`NumbersInStep` is `GapsAgree`, `PlaceFromFirst` and `TotalCounts`;
`DigestsRight` is `NothingLost`, `HashesAgree` and `HmacAgrees`; and three
of `config_and_codes` (`LinkControlCoded`, `VoiceCoded`, `FileReadBack`) are each what
one subject's modules state. The type invariant of
a module is a part of one of them.

**Bounds.** Two inbound links of one address are what matching by address and
lid has to tell apart, and an outbound link beside them makes the two ways of
obtaining a sync source collide. Four descriptors are one per connection that
three links and one slot can hold at once, so there is always one to reuse, and
a smaller set makes reuse more frequent and not less. The eight fields of a
Question and seven of an Answer differ only in which line is the last: two
fields have a first line, a last one and something in between to interrupt.
`KaInterval = 1, LinkTimeout = 2` gives expiries that must not, may, and must
find the link silent. Two streams are what a duplicate, a superseding and a
stray frame need. Two pending connections that name the same link are more than
`link_mixed` can afford; there the proofs of section 4 speak for any number of
slots. Descriptors, slots and sync sources are symmetric; no liveness run uses
symmetry. The cfgs set
`CHECK_DEADLOCK FALSE` because a stopped program does nothing more; those of
the other modules because a source that has sent all its bursts, a text of full
length or the end of the model's time has no next step.

Two descriptors are the fewest with an entry that is moved over another, and
two timers the fewest with one that is armed or cancelled while another is due.
The keepalives' time has room for a connection, its end by timeout and the
reappearance of its packets in a second one; the timeout is the least that
leaves room for one exchange without a loss and too little for one with a loss,
so both sides of `NoFalseAlarm` happen. Six bursts wrap a sequence number
modulo 4 and ten frames a sequence byte modulo 4. `PlaceFromFirst` and
`TotalCounts` count from the first packet that was sent and bound the total from
below, because a program that starts at 0, as the protocol has it, and one that
starts at 1, as this one does, should both satisfy them; what the two differ in
is finding 5. Configuration files differ in
what a reload takes over, in what it leaves alone and in what is refused. Five
lines are two blocks with an entry each and one header too many. The
codes are linear over constant masks, so that single ones determine them, and in
a voice frame pairs with one in C0, whose bits key the scrambling of C1; the
checksum of the embedded LC is not linear, and its values around 31 are tried.
Block lengths of 4 with a length field of 2 keep the three cases of the padding
(fits, fits exactly, needs another block).

**Fairness.** `link_live` assumes that the loop fires due timers (weak fairness
of each timer callback), that the kernel reports the outcome of every connect,
and that `socket()` does not fail for ever (strong fairness of a reconnect that
obtains a descriptor). Nothing is assumed of remote ends: no line, no
keepalive and no close ever has to come. `system` assumes only the tick,
which rearms itself in `tick_cb` as long as the program runs. `loop`
assumes that callbacks return, that the loop goes on and that time passes, all
weakly fair: a step of the loop stays enabled until it is taken. That a pass
over the timers is one step for the descriptors is justified by `PassEnds`. No
descriptor ever has to become ready. `config_and_codes` assumes the steps of the
tick, which `TimersFire` shows to come back.

### Findings

1. **A line after the Question** (`cccc_link.c:568`). `pending_on_line` calls
   `handle_question_complete` for each line once eight are collected. When the
   segment that holds the eighth holds one more, the second call finds the link
   up, tears it down, closing the connection, and establishes it again over
   `p->fd`, which is -1. The link stays up, without a connection, until its
   keepalives time out. Protocol section 3.1 has one control connection for
   each link. A remote end that waits for the Answer, as the protocol's
   section 4 describes it, never causes this, which is why `Spec` leaves it out
   and `SpecPipelined` adds it.
2. **No timeout for the Answer** (`cccc_link.c:446`). The keepalive timer
   starts with the Answer, and inbound connections have
   `PENDING_TIMEOUT_S`, but an outbound link in `LST_HANDSHAKING` has no timer
   at all. CONFIGURING.md:35 promises that a link without keepalives is torn
   down after `cc_link_timeout`.
3. **A call that is older than its link** (`translate.c:244`). A VOICE_HEAD
   starts a call whether or not the CC-CC link is up; the B-on is dropped when
   it is not. If the link comes up during the call, voice and B-off follow with
   no B-on before them. If voice had been dropped earlier, it also comes without
   the marker bit. Protocol sections 6.1 and 7 have the B-on and the marker at
   the start of a call.
4. **A stale event blocks the loop** (`eventloop.c:212`). A reload runs in the
   timer pass, between `poll` and the dispatch of its events. If it closes the
   socket of a peer that has a datagram waiting and opens one for another peer,
   the kernel gives the new socket the old number; if the old one was the last
   entry, the new one also has its index, and the event is taken for the new
   socket's. OpenBridge sockets block, so `recvfrom` stops the whole program
   until the new peer sends something.
5. **Numbers count from the head** (`translate.c:275`). The slots of a call are
   counted from its VOICE_HEAD, which becomes no voice packet, so a call in step
   starts with sequence number 1 and timestamp 480. `end_obp_origin_call` makes
   the total of the B-off out of the last number, as if the first one were 0,
   and so reports one packet more than there were. Protocol section 6.1 starts
   both fields at 0, and section 7.2 has the total of the voice packets. The two
   disagreements have one cause, and the run's last state shows both: if the
   first burst were slot 0, `NumberedAndCounted` would hold.

### Observations

Places where the code does something other than a text of the repository says,
met while modelling; they follow from single definitions, so no run is spent on
them.

- `net.c:135`: the stale event of finding 4 with POLLOUT. A connect started
  under the number and index of one that has just ended is reported as
  successful, because SO_ERROR is 0 while it is in progress. No property rules
  this out: those of the loop exempt numbers that were opened again within the
  round. `StaleOnlyIfReopened` says that there is no other way to it.
- `cccc_link.c:640`: a reflected keepalive cannot be told from an original, so
  two ends that both originate and reflect bounce each one as long as the
  connection lasts (`EchoesEnd` is about what stops it); protocol section 8 has
  one about every ten seconds.
- `config.c:315`: the file is checked with its own ports while the running
  configuration keeps its old ones, so a reload can enable two peers on one
  port, which the comment at `config.c:134` means to exclude.
- `config.c:319`: a changed `bind_port`, passphrase, role or channel name is
  ignored without the warning that `config.h:75` promises.
- `config.c:179`: a blank `openbridge_system` is neither missing nor unknown,
  and passes.
- `toml.c:43`: a # behind an escaped quote in a basic string cuts the value
  short without an error; `MostReadBack` excludes these texts and no others.

## 4. Proofs

Every safety property that a passing run checks is a theorem, except
`LinkControlCoded`, `VoiceCoded` and `FileReadBack`. The theorems hold for any sets of links, peers, slots,
descriptors, sync sources, streams and files, and any numbers of fields, sizes
and intervals that satisfy the named assumptions:

| Assumption | In | Why the code justifies it |
|---|---|---|
| `LinksAssumption`, `NumbersAssumption` | `CcccLink` | inbound links differ in address or lid, which `load_links` enforces; numbers of fields and the interval are positive |
| `PeerAssumption`, `TickAssumption`, `BridgeAssumption` | `Translator`, `System` | a link has one peer, the tick an interval |
| `RoomAssumption` | `EventLoop` | no more sockets than places in a table: 3 shared ones, 32 peers, 128 links and 32 pending slots are 195, and `MAX_FDS` is 256 |
| `NamesAssumption`, `NoConnAssumption`, `StreamAssumption`, `UdAssumption`, `CbAssumption` | `CcccLink`, `Translator`, `EventLoop` | the model's names are distinct; "none" is no owner, connection or stream |
| `ConstantsOK` | `EventTimers`, `Keepalive`, `ControlStream`, `RtpClock`, `Superframe`, `Sha` | intervals and sizes are positive; a receive buffer holds more than one character; a call goes idle long before its numbers come round (6 s against 65 minutes); the length at a message's end is shorter than a block, and a hash not longer; bounds are numbers; "no call" is no call |
| `FilesAssumption` | `Reload` | what `toml.c` reads are lists |

`NumbersStayInStep` is about the two clocks that `MCTraffic` has; `Numbering`,
which it rests on, is for every slot, jitter and idle time.
None of them bounds a behaviour: `MaxTime`, `MaxLosses`, `MaxConns`, `Bursts`
and the like are any number.

**CcccLinkProofs.** `IInv` is `TypeOK`, the four properties `FdOwnership`,
`Dispatch`, `TimerDiscipline`, `SsrcUnique`, and `Shape`. None of the four is
inductive alone. That a callback may close its descriptor needs `FdOwnership`
(it is nobody else's); that the callback runs for the right link needs
`Dispatch`; that a reconnect timer finds its link down, and so does not
overwrite a live `fd`, needs `TimerDiscipline`; that a matched link is `active`
needs `Shape`, which says what the code relies on without testing it: an
inbound link is down or up and never in between, a sync source exists from the
Question on, `active` follows `enabled`. There is one lemma per action.
`ConnectionsKeeps` covers every set of teardowns and dials, so a reload is
proved once and not link by link. `DarkWhenDisabled` and the action property
`BuffersFresh` follow from `IInv`.

`LinkImplementsService`, in the same module: initial states map to initial states, and under `IInv`
each step is a step of `LinkService` or leaves its variables alone. The
mapping is `up[l] <- state[l] = "UP"`; `phase`, `enabled` and `session` are
their own images.

`SystemImplementsBridge`, in the same module, puts the two halves together:
`SystemSpec => B!Spec`. Under `IInv` a callback of `cccc_link.c` is a step of
`LinkService` that leaves `phase` and `enabled` alone. If it ends no session the
bridge sees a link come up or nothing at all; if it ends some, the sessions that
flipped are exactly those that `TranslatorTold` gives to `CallsEnd`, and the
step is `SessionEnds`. `Start`, `Reload` and `Stop` map to the service's actions
by name and not merely to some step of it, because the bridge does something
else in each. What is proved of `Cc2obp` then holds of `System`
(`SystemStreamsWhole`, `SystemCallsTerminated`), and `CallsSupervised` joins the
invariants of both: a call that the CC-CC end knows of needs its link
(`CcCallNeedsLink`), and a link that is up has a connection of its own
(`FdOwnership`), a handler (`Dispatch`), one timer (`TimerDiscipline`) and a
sync source (`Shape`).

**Cc2obpProofs.** `LinkInv(l)` joins what the peer believes, what the CC-CC end
believes and the call on one link. `HalfDuplex` is not inductive: it needs that
an open stream belongs to a call of CC-CC origin and an announced call to one of
OpenBridge origin, which is `NearBracketed` and `FarInStep`, which in turn
need `CcCallNeedsLink`. `OneCall` reduces a step on one link to that link;
`CallsEndKeeps` treats ticks, reloads, link ends and stop alike.
`EndedCallsHold` is an action property and follows from `IInv` step by step.
`UsesLinkService` is the other half of `LinkImplementsService`: seen at the
links alone, the bridge is a behaviour of `LinkService`. `CcCallNeedsLink` and
the type invariant are proved and not checked in a run of their own.

**EventTimersProofs.** `HandlesExact` and `TimersOnTime` with two facts that a
pass relies on: it does not run ahead of the clock that callbacks arm by, and
poll runs no callback. `LeastNatural` gives the next due time that the timeout
of poll is computed from. The action property `NoneFires` (nothing fires after
`ev_stop`) needs no invariant.

**EventLoopProofs.** `TablesExact` needs, besides what it says, that a table
never overflows (`Room`: its numbers are distinct and there are no more than
`MaxFds`), and that removing an entry by moving the last one into its place
keeps a table what its owners registered. `RoundInv` is about the snapshot of
`poll`: what it saw of an entry holds until that number is closed or given out
again, which makes `EventsReachOwners` inductive across the timer pass and the
callbacks in between. The last section takes the descriptors and the timers
together, in the specification that TLC runs.

**ReloadProofs.** A merge writes toggles and reads names, so what
`config_load` checked of the first file (names, ids and address-lid pairs
differ) stays true of the running configuration after any later file. The
invariant adds to the three properties that both configurations have their
fields, and that the file in hand between reading and applying is one that
`config_load` has accepted.

**KeepaliveProofs.** `NoFalseAlarm` is about quantities: a link whose far end is
there is given up only if more datagrams were lost than the timeout has room
for. The invariant counts. For a far end that originates, `Tally`: the
keepalives it sent since one was heard here that are not on their way are no
more than the losses. For one that reflects, `Reflections`: for every moment x,
the keepalives this end sent up to x since one was heard are no more than the
losses and the copies on their way, there or back, that may carry one of them.
It has to be stated for every x, because a reflection of an older keepalive
that arrives starts the count again without taking a newer one out of the
network. When `keepalive_cb` gives up, the silence is longer than the timeout;
`Windows` finds a keepalive in each interval of it, and those older than two
flights are no longer on their way. A bag of datagrams has no cardinality in
the libraries, so `CopiesOf` makes it a set of numbered copies.
`DeadNoticed` and `EchoesEnd` need only the times of what is on its way
(`BasicInv`).

**RtpClockProofs.** Slots are remainders and quotients of the clock, and the
lemmas about them come first. `Pending` and `CallInv` say that head and burst
came at most the jitter after they were sent. So the distance of a packet's slot
from the place of its burst lies in a `Window` as wide as the jitter and a slot,
which depends on when the call began and on nothing else; the first packet's
distance lies in it too, and the difference of two distances in one window is
`PlaceFromFirst`. With delays below half a slot the window has room for 0 only,
so that no burst sent is beyond the last number and `TotalCounts` follows
(`UpTo`). `PacketInv` says that two packets in a row are less than a round of the
sequence number apart, because the call would have gone idle, so that the
difference of the 16 bits is the difference of the slots and `GapsAgree` holds
over wraps.

**TrafficProofs.** For `ControlStream` a segment is a loop over its characters
(`SegmentKeeps`): the state between two characters is `Good` (the buffer is
the line so far, cut at its size), by induction over the characters. That
induction is on a set of numbers (`AllNaturals`, from the least-number
principle), which needs no theorem with an operator parameter. For
`Superframe`, what a peer has heard of a stream is a `Row`: the head, if heard,
and bursts at consecutive positions; sync first and late entry are properties
of a row (`RowIsLateEntry`, `SixInARow`). For `Sha`, `Held(m)` is the context of
a message m: its full blocks, its length and the rest. A turn of the loop of
`sha1_update` moves a piece from what is left to what was taken, and that
either leaves the last block open (`PieceFits`) or fills it (`PieceFills`), so
`Update(Held(m), p)` is `Held(m \o p)` (`UpdateTakes`). The loop of
`sha1_final` stops after the one number of zeros with which the length fits
(`ZerosFit`, `PadZerosStop`), so `Final(Held(m))` is the hash of the padded
whole (`FinalIsWhole`), and the HMAC is built of such hashes. Both loops are
functions of the number of turns; that these exist is `IterationExists`, again
by induction on a set of numbers. The rest carries these and the
theorems about `Keepalive` and `RtpClock` over to the specification that TLC
runs, with the two instances of `RtpClock` it has.

**Only model-checked.** The liveness properties (`SilentLinkEnds`,
`DownLinkRedials`, `PendingEnds`, `SilentCallEnds`, `GatedCallEnds`,
`EventsServed`, `TimersFire`, `SignalsServed`): the prover handles neither
fairness (ENABLED) nor well-founded arguments over the clocks. The violations,
which are traces. What `TomlLine`, `Toml` and the codes compute
(`LinkControlCoded`, `VoiceCoded`, `FileReadBack`): `TomlLine` is induction over
the structure of texts, and `DmrBits` (with all that extends it) uses `Bitwise`,
which keeps it out of the prover's reach.

## 5. What is not modelled, and the plan

Left out: `log.c` and the wording of messages, argument parsing and `--check`,
the compression functions of the digests (`sha1_block`, `sha256_block`: the
published vectors say more about them than any instance that TLC could
enumerate), the addresses in `net.c`, `ev_free` and the other destructors, the
trial-echo socket (it returns what it gets), the tools and the tests.

Of things that can go wrong, these are without a property: SIGPIPE and short
writes on a connection that was reset and the peer that is disabled alone in
mid-call (both in `PROJECT.json`, with the reason), the error buffer of
`config.c` when it overflows (the model keeps the verdict on a file, not its
text), configuration lines of more than 1023 characters (texts have at most
four), link ids above 99 (the protocol leaves their encoding open).

Planned:

1. `EvDel` and the reads of the round as lemmas about tables of any kind, where
   they now speak of the two that `EventLoop` has.
