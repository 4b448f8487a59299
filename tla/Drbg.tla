---------------------------------- MODULE Drbg ----------------------------------
(***************************************************************************)
(* randombytes_init, randombytes and AES256_CTR_DRBG_Update (rng.c), a step *)
(* for every turn of the loop of randombytes.  The arrays block and temp   *)
(* are encrypted in place before anything is written to them: what they    *)
(* hold is what the stack held, which may be what an earlier call left.    *)
(* The cipher is a free constructor, and so is the exclusive or.           *)
(***************************************************************************)
EXTENDS Integers, Sequences, SequencesExt, Aes

CONSTANTS
    BlockBytes,                  \* 16
    Entropy, Personalizations,   \* the arguments of randombytes_init
    NULL,
    Contents,                    \* what the stack may hold before the first call
    Requests,                    \* lengths that are asked for
    MaxCalls                     \* bound on the number of calls

VARIABLES
    DRBG_ctx,  \* the global; V is a block and how often it was incremented
    block,     \* the local of randombytes, or what the last one left of it
    asked, xlen,
    x,         \* the bytes that this call has written
    given,     \* the blocks that were put out since randombytes_init
    calls, pc

vars == <<DRBG_ctx, block, asked, xlen, x, given, calls, pc>>

Zeros == <<"zeros">>
Xor(a, b) == <<"xor", a, b>>
Stack(c) == <<"stack", c>>

Increment(v) == [v EXCEPT !.added = @ + 1]

(* What an array on the stack holds that was not written: what was there      *)
(* before, or a block that was put out and left there.                      *)
Unwritten == {Stack(c) : c \in Contents} \cup {block} \cup ToSet(given)

(* AES256_CTR_DRBG_Update, where the array temp held g: the first two blocks *)
(* are the new key, the third the new V.                                    *)
Update(provided_data, ctx, g) ==
    LET V == [n \in 1..3 |-> [ctx.V EXCEPT !.added = @ + n]]
        Block(n) == Aes256Ecb(ctx.Key, V[n], <<g, n>>)
        temp == [n \in 1..3 |->
                    IF provided_data = NULL THEN Block(n)
                    ELSE Xor(Block(n), <<provided_data, n>>)]
    IN  [ctx EXCEPT !.Key = <<temp[1], temp[2]>>,
                    !.V = [block |-> temp[3], added |-> 0]]

Init ==
    /\ DRBG_ctx = [Key |-> Zeros, V |-> [block |-> Zeros, added |-> 0],
                   reseed_counter |-> 0]
    /\ \E c \in Contents : block = Stack(c)
    /\ asked = 0 /\ xlen = 0
    /\ x = <<>>
    /\ given = <<>>
    /\ calls = 0
    /\ pc = "ready"

NewCall ==
    /\ pc = "ready"
    /\ calls < MaxCalls
    /\ calls' = calls + 1
    /\ x' = <<>>

SeedMaterial(e, p) == IF p = NULL THEN e ELSE Xor(e, p)

RandombytesInit ==
    /\ NewCall
    /\ \E e \in Entropy, p \in Personalizations \cup {NULL}, g \in Unwritten :
          DRBG_ctx' = Update(SeedMaterial(e, p),
                             [Key |-> Zeros,
                              V |-> [block |-> Zeros, added |-> 0],
                              reseed_counter |-> 1], g)
    /\ given' = <<>>
    /\ asked' = 0
    /\ UNCHANGED <<block, xlen, pc>>

Randombytes ==
    /\ NewCall
    /\ asked' \in Requests
    /\ xlen' = asked'
    /\ block' \in Unwritten
    /\ pc' = "fill"
    /\ UNCHANGED <<DRBG_ctx, given>>

(* "if ( xlen > 15 )": there is room for the whole block. *)
RoomForBlock_Less(n) == n >= BlockBytes - 1
RoomForBlock(n) == n > BlockBytes - 1

(* The first n bytes of a block. *)
Bytes(b, n) == [j \in 1..n |-> <<b, j>>]

NextBlock ==
    /\ pc = "fill"
    /\ xlen > 0
    /\ DRBG_ctx' = [DRBG_ctx EXCEPT !.V = Increment(@)]
    /\ block' = Aes256Ecb(DRBG_ctx.Key, DRBG_ctx'.V, block)
    /\ given' = Append(given, block')
    /\ IF RoomForBlock(xlen)
       THEN x' = x \o Bytes(block', BlockBytes) /\ xlen' = xlen - BlockBytes
       ELSE x' = x \o Bytes(block', xlen) /\ xlen' = 0
    /\ UNCHANGED <<asked, calls, pc>>

(* The state that randombytes leaves: the key that made the bytes is gone. *)
AfterCall_SameKey(ctx, g) == [ctx EXCEPT !.reseed_counter = @ + 1]
AfterCall(ctx, g) == [Update(NULL, ctx, g) EXCEPT !.reseed_counter = @ + 1]

Return ==
    /\ pc = "fill"
    /\ xlen = 0
    /\ \E g \in Unwritten : DRBG_ctx' = AfterCall(DRBG_ctx, g)
    /\ pc' = "ready"
    /\ UNCHANGED <<block, asked, xlen, x, given, calls>>

Next == RandombytesInit \/ Randombytes \/ NextBlock \/ Return

Spec == Init /\ [][Next]_vars

-------------------------------------------------------------------------------
(* A call writes as many bytes as it was asked for, whether or not that is   *)
(* a number of blocks: byte after byte of one block after the other, none    *)
(* past the end of the caller's buffer.                                      *)
WritesRequested ==
    asked > 0 =>
        /\ Len(x) <= asked /\ Len(x) + xlen = asked
        /\ \A j \in 1..Len(x) :
              x[j] = <<given[Len(given) - (Len(x) - 1) \div BlockBytes
                                        + (j - 1) \div BlockBytes],
                       ((j - 1) % BlockBytes) + 1>>

(* No block is put out twice under one seed, in one call or in several, even *)
(* if a call finds on its stack what another found there, or put out.       *)
NothingRepeats ==
    \A j, k \in 1..Len(given) : given[j] = given[k] => j = k
===============================================================================
