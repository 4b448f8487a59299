------------------------------ MODULE SeedExpander ------------------------------
(***************************************************************************)
(* seedexpander_init and seedexpander (rng.c): a stream of bytes made from *)
(* a seed, handed out in requests of any length through a buffer of one    *)
(* block of the cipher, a step for every turn of the loop.  The cipher is  *)
(* a free constructor; the bytes of a block are told apart by position.    *)
(***************************************************************************)
EXTENDS Integers, Sequences, Aes

CONSTANTS
    BlockBytes,  \* 16
    CtrBytes,    \* 4, the bytes of ctr that count blocks
    ByteValues,  \* 256, values of a byte of ctr
    Seeds, Diversifiers, MaxLens, Requests

VARIABLES
    ctx,    \* the AES_XOF_struct; nonce is the part of ctr that is not counted
    maxlen, \* what seedexpander_init was given
    xlen,   \* bytes that the request still wants
    out,    \* the bytes returned since seedexpander_init
    pc

vars == <<ctx, maxlen, xlen, out, pc>>

Zeros == <<"zeros">>

Fresh(seed, diversifier, len) ==
    [buffer |-> Zeros, buffer_pos |-> BlockBytes, length_remaining |-> len,
     key |-> seed, nonce |-> <<diversifier, len>>,
     ctr |-> [n \in 1..CtrBytes |-> 0]]

Init ==
    /\ \E s \in Seeds, d \in Diversifiers, len \in MaxLens :
          ctx = Fresh(s, d, len) /\ maxlen = len
    /\ xlen = 0
    /\ out = <<>>
    /\ pc = "ready"

(* seedexpander_init again, on the same context. *)
SeedExpanderInit ==
    /\ pc = "ready"
    /\ \E s \in Seeds, d \in Diversifiers, len \in MaxLens :
          ctx' = Fresh(s, d, len) /\ maxlen' = len
    /\ out' = <<>>
    /\ UNCHANGED <<xlen, pc>>

(* "if ( xlen >= ctx->length_remaining ) return RNG_BAD_REQ_LEN": a request *)
(* that is refused changes nothing, and neither does one without a buffer   *)
(* (RNG_BAD_OUTBUF), which is not modelled.                                 *)
Refused_Never(n) == FALSE
Refused(n) == n >= ctx.length_remaining

SeedExpander ==
    /\ pc = "ready"
    /\ \E n \in Requests :
          /\ ~Refused(n)
          /\ xlen' = n
          /\ ctx' = [ctx EXCEPT !.length_remaining = @ - n]
    /\ pc' = "expand"
    /\ UNCHANGED <<maxlen, out>>

(* The next n bytes of the buffer. *)
Taken(n) == [j \in 1..n |-> <<ctx.buffer, ctx.buffer_pos + j>>]
Left == BlockBytes - ctx.buffer_pos

(* "buffer has what we need" *)
PosAfter_Kept(n) == ctx.buffer_pos
PosAfter(n) == ctx.buffer_pos + n

TakeAll ==
    /\ pc = "expand"
    /\ xlen > 0 /\ xlen <= Left
    /\ out' = out \o Taken(xlen)
    /\ ctx' = [ctx EXCEPT !.buffer_pos = PosAfter(xlen)]
    /\ xlen' = 0
    /\ pc' = "ready"
    /\ UNCHANGED maxlen

(* "increment the counter", from its last byte. *)
Incremented_NoCarry(ctr) == [ctr EXCEPT ![CtrBytes] = (@ + 1) % ByteValues]
Incremented(ctr) ==
    [n \in 1..CtrBytes |->
        IF \A k \in (n + 1)..CtrBytes : ctr[k] = ByteValues - 1
        THEN (ctr[n] + 1) % ByteValues ELSE ctr[n]]

(* "take what's in the buffer", and fill it again. *)
Refill ==
    /\ pc = "expand"
    /\ xlen > Left
    /\ out' = out \o Taken(Left)
    /\ xlen' = xlen - Left
    /\ ctx' = [ctx EXCEPT
                  !.buffer = Aes256Ecb(ctx.key, <<ctx.nonce, ctx.ctr>>, @),
                  !.buffer_pos = 0,
                  !.ctr = Incremented(@)]
    /\ UNCHANGED <<maxlen, pc>>

(* Nothing was asked for: the loop does not run. *)
TakeNothing ==
    /\ pc = "expand"
    /\ xlen = 0
    /\ pc' = "ready"
    /\ UNCHANGED <<ctx, maxlen, xlen, out>>

Next == SeedExpanderInit \/ SeedExpander \/ TakeAll \/ Refill \/ TakeNothing

Spec == Init /\ [][Next]_vars

-------------------------------------------------------------------------------
(* Block n of the stream that this code makes of a seed. *)
Blocks(seed) ==
    LET b[n \in Nat] == IF n = 0 THEN Zeros ELSE Encrypt(seed, b[n - 1])
    IN  b
Block(seed, n) == Blocks(seed)[n]

(* However the requests cut it up, the caller gets the one stream of the   *)
(* seed: no byte is left out, repeated or out of turn between two requests. *)
OneStream ==
    \A j \in 1..Len(out) :
        out[j] = <<Block(ctx.key, ((j - 1) \div BlockBytes) + 1),
                   ((j - 1) % BlockBytes) + 1>>

(* "maxlen - maximum number of bytes generated under this seed and          *)
(* diversifier": length_remaining is what is left of it, to the byte.       *)
MaxLenHolds ==
    /\ Len(out) + xlen <= maxlen
    /\ Len(out) + xlen + ctx.length_remaining = maxlen

(* The number that the first n bytes of ctr spell, and that all of it does. *)
Spelled(ctr) ==
    LET c[n \in 0..CtrBytes] ==
            IF n = 0 THEN 0 ELSE c[n - 1] * ByteValues + ctr[n]
    IN  c
Counted(ctr) == Spelled(ctr)[CtrBytes]
Largest == Counted([n \in 1..CtrBytes |-> ByteValues - 1])

(* The low bytes of ctr count the blocks, across the carries of its bytes,  *)
(* from 0 to the largest number they spell and round again.                *)
CtrCounts ==
    LET blocks == (Len(out) + BlockBytes - ctx.buffer_pos) \div BlockBytes
    IN  Counted(ctx.ctr)
            = IF ctx.buffer = Zeros THEN 0 ELSE blocks % (Largest + 1)

(* As the comment on AES256_ECB has it: "ctr - a 128-bit plaintext value,   *)
(* buffer - a 128-bit ciphertext value".                                    *)
EncryptsCtr ==
    [][ctx'.ctr # ctx.ctr /\ ctx'.buffer # Zeros =>
          ctx'.buffer = Encrypt(ctx.key, <<ctx.nonce, ctx.ctr>>)]_vars
===============================================================================
