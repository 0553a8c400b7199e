----------------------------- MODULE Superframe -----------------------------
(***************************************************************************)
(* What translate.c sends to an OpenBridge peer for calls from the CC-CC   *)
(* side: the position of each burst in its superframe of six, the embedded *)
(* link control that goes with it, and the sequence byte that all links of *)
(* the peer share.  The CC-CC packets that carry the voice may be lost,    *)
(* the cross-connect closed and opened, and the peer's socket closed.      *)
(***************************************************************************)
EXTENDS Integers, Sequences

CONSTANTS
    Links,              \* the links of one peer
    SeqMod,             \* 256, the values of the sequence byte
    MaxSends,           \* bound: the frames that are sent
    NoCall

ConstantsOK == SeqMod \in Nat \ {0} /\ MaxSends \in Nat

Positions == 0..5

\* The 48 bits in the middle of a burst: the sync pattern, one of the four
\* fragments of the embedded link control, or the empty one.
Embeds == {"sync", "lc1", "lc2", "lc3", "lc4", "null"}

VARIABLES
    obp_seq_pos,        \* call.obp_seq_pos per link, NoCall without a call
    obp_seq_ctr,        \* obp_seq_ctr[peer]
    bound,              \* the peer's socket is bound
    dropped,            \* frames that obp_send_dmrd dropped since the last one sent
    last,               \* the sequence byte of the last frame sent, -1 before
    heard               \* per link, what the peer has heard in a row of its stream

vars == <<obp_seq_pos, obp_seq_ctr, bound, dropped, last, heard>>

TypeOK ==
    /\ obp_seq_pos \in [Links -> Nat \cup {NoCall}]
    /\ obp_seq_ctr \in Nat
    /\ bound \in BOOLEAN
    /\ dropped \in Nat
    /\ last \in -1..(SeqMod - 1)
    /\ heard \in [Links -> Seq(Embeds \cup {"head"})]

Init ==
    /\ obp_seq_pos = [l \in Links |-> NoCall]
    /\ obp_seq_ctr = 0
    /\ bound = TRUE
    /\ dropped = 0
    /\ last = -1
    /\ heard = [l \in Links |-> <<>>]

-----------------------------------------------------------------------------

\* Fault: the byte is taken from the position in the call.
SeqOfCall(l) == (IF obp_seq_pos[l] = NoCall THEN 0 ELSE obp_seq_pos[l]) % SeqMod

\* the sequence byte of link l's next frame
SeqByte(l) == obp_seq_ctr % SeqMod

\* send_dmrd and obp_send_dmrd: the counter goes on whether or not the peer
\* has a socket.
SendDmrd(l) ==
    /\ obp_seq_ctr < MaxSends
    /\ obp_seq_ctr' = obp_seq_ctr + 1
    /\ IF bound THEN last' = SeqByte(l) /\ dropped' = 0
       ELSE dropped' = dropped + 1 /\ UNCHANGED last

\* Fault: the last fragment is taken for the empty one.
EmbedShort(pos) ==
    CASE pos = 0 -> "sync" [] pos = 1 -> "lc1" [] pos = 2 -> "lc2"
      [] pos = 3 -> "lc3" [] OTHER -> "null"

\* build_embed
Embed(pos) ==
    CASE pos = 0 -> "sync" [] pos = 1 -> "lc1" [] pos = 2 -> "lc2"
      [] pos = 3 -> "lc3" [] pos = 4 -> "lc4" [] OTHER -> "null"

\* translator_cccc_bon with the gate open, send_obp_voice_head
Bon(l) ==
    /\ obp_seq_pos[l] = NoCall
    /\ obp_seq_pos' = [obp_seq_pos EXCEPT ![l] = 0]
    /\ SendDmrd(l)
    /\ heard' = [heard EXCEPT ![l] = IF bound THEN <<"head">> ELSE <<>>]
    /\ UNCHANGED bound

\* translator_cccc_voice with the cross-connect active; when it is not, or
\* the packet was lost, nothing changes.  The peer loses count of a stream
\* whose frame is dropped.
Voice(l) ==
    /\ obp_seq_pos[l] # NoCall
    /\ obp_seq_pos' = [obp_seq_pos EXCEPT ![l] = @ + 1]
    /\ SendDmrd(l)
    /\ heard' = [heard EXCEPT ![l] = IF bound THEN Append(@, Embed(obp_seq_pos[l] % 6)) ELSE <<>>]
    /\ UNCHANGED bound

\* end_cc_origin_call: B-off, idle, or the end of the link
CallEnds(l) ==
    /\ obp_seq_pos[l] # NoCall
    /\ obp_seq_pos' = [obp_seq_pos EXCEPT ![l] = NoCall]
    /\ SendDmrd(l)
    /\ UNCHANGED <<bound, heard>>

\* A reload disables or enables the peer.
Toggle == bound' = ~bound /\ UNCHANGED <<obp_seq_pos, obp_seq_ctr, dropped, last, heard>>

Next == Toggle \/ \E l \in Links : Bon(l) \/ Voice(l) \/ CallEnds(l)

Spec == Init /\ [][Next]_vars

-----------------------------------------------------------------------------
(* Properties *)

\* All frames to a peer are numbered in one row, whichever links they come
\* from and across calls: the number of a frame is one more than that of the
\* last, or further by just the frames that were dropped in between.
SeqFollows ==
    last' # last \/ (obp_seq_ctr' # obp_seq_ctr /\ bound) =>
        last' = (last + dropped + 1) % SeqMod

SeqInOneRow == [][SeqFollows]_vars

\* Whoever joins a stream has the whole link control after any six bursts in
\* a row, each fragment once and the sync with them.
LateEntry ==
    \A l \in Links :
        LET six == {heard[l][i] : i \in (Len(heard[l]) - 5)..Len(heard[l])}
        IN  Len(heard[l]) >= 6 /\ "head" \notin six => six = Embeds

\* The first burst behind a head is the sync burst.
BeginsWithSync ==
    \A l \in Links :
        Len(heard[l]) >= 2 /\ heard[l][1] = "head" => heard[l][2] = "sync"
=============================================================================
