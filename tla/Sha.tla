-------------------------------- MODULE Sha ---------------------------------
(***************************************************************************)
(* The streaming and padding of SHA-1 and SHA-256 (the same code twice)    *)
(* and the HMAC over SHA-1 that signs every OpenBridge packet.             *)
(*                                                                         *)
(* The compression function is external: a hash value stands for the       *)
(* sequence of blocks that it was given, so that two hashes are equal only *)
(* when the blocks are.  A byte is a pair: data, a byte of a hash, or a    *)
(* byte combined with one of the pads.                                     *)
(***************************************************************************)
EXTENDS Integers, Sequences

CONSTANTS
    Block,              \* bytes of a block: 64
    LenBytes,           \* bytes of the length at the end: 8
    DigestBytes,        \* bytes of a hash: 20 (32)
    MaxBytes            \* bound: bytes of a message, and of a key

ConstantsOK ==
    /\ {Block, LenBytes, DigestBytes} \subseteq Nat \ {0} /\ MaxBytes \in Nat
    /\ LenBytes < Block /\ DigestBytes <= Block

VARIABLES
    ctx,                \* the context of a hash that is computed in pieces
    msg,                \* what it was given so far
    key,                \* ... and a passphrase
    out                 \* the last hash

vars == <<ctx, msg, key, out>>

D(n) == <<"data", n>>
Repeated(b, n) == [i \in 1..n |-> b]
Smaller(a, b) == IF a < b THEN a ELSE b

-----------------------------------------------------------------------------
\* sha1_init, sha256_init
ShaInit == [h |-> <<>>, len |-> 0, buf |-> <<>>]

\* One turn of the loop of sha1_update: fill the buffer, and compress it when
\* it is full
Turn(c) ==
    IF c.rest = <<>> THEN c
    ELSE LET k == Smaller(Block - Len(c.buf), Len(c.rest))
             buf == c.buf \o SubSeq(c.rest, 1, k)
             full == Len(buf) = Block
         IN  [h |-> IF full THEN Append(c.h, buf) ELSE c.h,
              buf |-> IF full THEN <<>> ELSE buf,
              rest |-> SubSeq(c.rest, k + 1, Len(c.rest))]

\* sha1_update, sha256_update; each turn takes a byte or more
Update(c, p) ==
    LET after[n \in 0..Len(p)] ==
            IF n = 0 THEN [h |-> c.h, buf |-> c.buf, rest |-> p] ELSE Turn(after[n - 1])
        end == after[Len(p)]
    IN  [h |-> end.h, len |-> c.len + 8 * Len(p), buf |-> end.buf]

\* while (c->n != 56), which happens within a block
PadZero(c) == IF Len(c.buf) = Block - LenBytes THEN c ELSE Update(c, <<D(0)>>)

PadZeros(c) ==
    LET after[n \in 0..Block] == IF n = 0 THEN c ELSE PadZero(after[n - 1])
    IN  after[Block]

LengthBytes(bits) == [i \in 1..LenBytes |-> D((bits \div 256^(LenBytes - i)) % 256)]

Digest(h) == [i \in 1..DigestBytes |-> <<"hash", <<i, h>>>>]

\* Fault: the length is taken after the padding.
FinalLate(c) ==
    LET padded == PadZeros(Update(c, <<D(128)>>))
    IN  Digest(Update(padded, LengthBytes(padded.len)).h)

\* sha1_final, sha256_final
Final(c) ==
    LET padded == PadZeros(Update(c, <<D(128)>>))
    IN  Digest(Update(padded, LengthBytes(c.len)).h)

\* sha1, sha256
Sha(data) == Final(Update(ShaInit, data))

Ipad(b) == <<"ipad", b>>
Opad(b) == <<"opad", b>>

\* The block that hmac_sha1 makes of a key
HmacKey(k) ==
    IF Len(k) > Block THEN Sha(k) \o Repeated(D(0), Block - DigestBytes)
    ELSE k \o Repeated(D(0), Block - Len(k))

\* hmac_sha1
Hmac(k, m) ==
    LET pad == HmacKey(k)
        inner == Final(Update(Update(ShaInit, [i \in 1..Block |-> Ipad(pad[i])]), m))
    IN  Final(Update(Update(ShaInit, [i \in 1..Block |-> Opad(pad[i])]), inner))

-----------------------------------------------------------------------------
Init == ctx = ShaInit /\ msg = <<>> /\ key = <<>> /\ out = <<>>

\* One call of sha1_update with n bytes
Give(n) ==
    /\ Len(msg) + n <= MaxBytes
    /\ LET p == [i \in 1..n |-> D(Len(msg) + i)]
       IN  msg' = msg \o p /\ ctx' = Update(ctx, p)
    /\ UNCHANGED <<key, out>>

\* sha1_final; the context is not used again before sha1_init
Finish ==
    /\ out' = Final(ctx)
    /\ UNCHANGED <<ctx, msg, key>>

\* A longer passphrase
LongerKey ==
    /\ Len(key) < MaxBytes
    /\ key' = Append(key, D(Len(key)))
    /\ ctx' = ShaInit /\ msg' = <<>> /\ out' = <<>>

Next == (\E n \in 0..(2 * Block + 1) : Give(n)) \/ Finish \/ LongerKey

Spec == Init /\ [][Next]_vars

-----------------------------------------------------------------------------
(* Properties, against the definition of the hash on a whole message *)

Padded(m) ==
    LET zeros == CHOOSE n \in 0..(Block - 1) : (Len(m) + 1 + n + LenBytes) % Block = 0
    IN  m \o <<D(128)>> \o Repeated(D(0), zeros) \o LengthBytes(8 * Len(m))

Blocks(m) == [i \in 1..(Len(m) \div Block) |-> SubSeq(m, Block * (i - 1) + 1, Block * i)]

Rest(m) == SubSeq(m, Block * (Len(m) \div Block) + 1, Len(m))

\* A context that was given m
Held(m) == [h |-> Blocks(m), len |-> 8 * Len(m), buf |-> Rest(m)]

WholeHash(m) == Digest(Blocks(Padded(m)))

\* However a message is cut in pieces for sha1_update, empty ones and ones of
\* more than a block included, nothing of it is lost or doubled: its full blocks
\* have been compressed, each as it is, and the rest is in the buffer.
NothingLost == ctx = Held(msg)

\* sha1_final pads to the shortest whole number of blocks, also where the
\* length does not fit behind the message's last byte any more: the hash does
\* not depend on the pieces.
HashesAgree == Final(ctx) = WholeHash(msg)

\* hmac_sha1 is the construction of RFC 2104 for keys on both sides of the
\* block's length, over the hash of the whole: inside its context nothing of
\* pads or message is left from one hash to the next.
HmacAgrees ==
    LET k == IF Len(key) > Block THEN WholeHash(key) ELSE key
        pad == k \o Repeated(D(0), Block - Len(k))
        inner == WholeHash([i \in 1..Block |-> Ipad(pad[i])] \o msg)
    IN  Hmac(key, msg) = WholeHash([i \in 1..Block |-> Opad(pad[i])] \o inner)
=============================================================================
