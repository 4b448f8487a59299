--------------------------------- MODULE Sha256 ---------------------------------
(***************************************************************************)
(* The streaming interface of sha256.c and the functions that hash with it: *)
(* seed_state and thash, gen_message_random, hash_message and mgf1.  The   *)
(* compression function is a free constructor: a chaining value is the     *)
(* sequence of the blocks it has absorbed.  Strings are sequences of       *)
(* cells, a few to a block, in the proportions of the byte sizes of the    *)
(* code.                                                                   *)
(***************************************************************************)
EXTENDS Integers, Sequences

CONSTANTS
    Block,     \* cells of a block, 64 bytes
    LenCells,  \* cells of the length at the end of the padding, 8 bytes
    N,         \* cells of a hash, 32 bytes, half a block
    AddrCells, \* cells of an address, 22 bytes
    VlMax,     \* cells that one vector instruction can load
    Seeds,     \* public seeds
    MaxBlocks, \* bound on inblocks of thash
    MaxLen     \* bound on the length of messages and masks

(* The one load of a block is not repeated for words it did not take. *)
ASSUME VlMaxAssumption == VlMax \in Nat /\ VlMax >= Block

(* "Currently only supports SPX_N of at most SPX_SHA256_BLOCK_BYTES" *)
ASSUME SizesAssumption ==
    /\ Block \in Nat \ {0} /\ LenCells \in 0..Block /\ N \in 1..Block
    /\ AddrCells \in Nat /\ MaxBlocks \in Nat /\ MaxLen \in Nat

VARIABLES
    state_seeded,  \* the global state_seeded
    seed,          \* the seed of the last seed_state
    call, out      \* the last call, and the string it returned

vars == <<state_seeded, seed, call, out>>

Repeat(x, n) == [k \in 1..n |-> x]
Take(s, n) == SubSeq(s, 1, n)
Drop(s, n) == SubSeq(s, n + 1, Len(s))

(* A string of n cells, by the name of its content, and one constant cell. *)
Cells(name, n) == [k \in 1..n |-> <<name, k>>]
Cell(x) == <<<<x>>, 0>>

-------------------------------------------------------------------------------
(* __riscv_vsetvl_e32m1, and a block as it reaches the array w: what was not *)
(* loaded is what an earlier block left there.                              *)
Vl(avl) == IF avl < VlMax THEN avl ELSE VlMax

Load(block) == [k \in 1..Block |-> IF k <= Vl(Block) THEN block[k] ELSE Cell("stale")]

(* crypto_hashblocks_sha256 absorbs the whole blocks of in. *)
HashBlocks(st, in) ==
    [st EXCEPT !.blocks = @ \o
        [k \in 1..(Len(in) \div Block) |->
            Load(SubSeq(in, (k - 1) * Block + 1, k * Block))]]

IncInit == [blocks |-> <<>>, bytes |-> 0]

Counted_Not(bytes, in) == bytes
Counted(bytes, in) == bytes + Len(in)

IncBlocks(st, in) == [HashBlocks(st, in) EXCEPT !.bytes = Counted(@, in)]

(* The length in bits, that ends the padding. *)
LengthCells(bytes) == Cells(<<"bits", bytes>>, LenCells)

(* The blocks of padded: one if "inlen < 56". *)
Padded_Loose(rest) == IF Len(rest) <= Block - LenCells THEN Block ELSE 2 * Block
Padded(rest) == IF Len(rest) < Block - LenCells THEN Block ELSE 2 * Block

IncFinalize(st, in) ==
    LET rest  == Drop(in, (Len(in) \div Block) * Block)
        zeros == Padded(rest) - LenCells - 1 - Len(rest)
        last  == rest \o <<Cell("0x80")>> \o Repeat(Cell("0"), zeros)
                      \o LengthCells(st.bytes + Len(in))
    IN  HashBlocks(HashBlocks(st, in), last)

Digest(st) == Cells(<<"sha256", st.blocks>>, N)

Sha256(in) == Digest(IncFinalize(IncInit, in))

-------------------------------------------------------------------------------
(* seed_state, by initialize_hash_function. *)
SeedBlock(s) == Cells(<<s>>, N) \o Repeat(Cell("0"), Block - N)
SeedState(s) == IncBlocks(IncInit, SeedBlock(s))

(* What thash hashes after the seed. *)
ThashInput(inblocks) == Cells(<<"addr">>, AddrCells) \o Cells(<<"in">>, inblocks * N)

(* Hashes head and m as hash_message and gen_message_random do: if they do   *)
(* not fill the blocks that head begins, at once; else those blocks first,   *)
(* "so that finalize only uses the message".                                 *)
Room_Less(blocks, head) == blocks * Block - Len(head) - 1
Room(blocks, head) == blocks * Block - Len(head)

FillAndFinalize(st, blocks, head, m) ==
    IF Len(head) + Len(m) < blocks * Block
    THEN Digest(IncFinalize(st, head \o m))
    ELSE LET room == Room(blocks, head)
         IN  Digest(IncFinalize(IncBlocks(st, head \o Take(m, room)),
                                Drop(m, room)))

(* SPX_INBLOCKS *)
InBlocks == (3 * N + Block - 1) \div Block
R_Pk == Cells(<<"R">>, N) \o Cells(<<"pk">>, 2 * N)

HashMessageSeed(m) == FillAndFinalize(IncInit, InBlocks, R_Pk, m)

(* "This implements HMAC-SHA256": sk_prf xor 0x36, and xor 0x5c. *)
KeyBlock(pad) == Cells(<<pad, "sk_prf">>, N) \o Repeat(Cell(pad), Block - N)
Optrand == Cells(<<"optrand">>, N)

GenMessageRandom(m) ==
    LET inner == FillAndFinalize(IncBlocks(IncInit, KeyBlock("0x36")), 1, Optrand, m)
    IN  Sha256(KeyBlock("0x5c") \o inner)

(* mgf1: whole digests "while we can fit in another", then what remains. *)
MgfDigest(in, i) == Sha256(in \o Cells(<<"counter", i>>, 1))

Whole(outlen) == outlen \div N
Remaining_All(outlen) == N
Remaining(outlen) == outlen - Whole(outlen) * N

Mgf1(in, outlen) ==
    LET written[i \in 0..Whole(outlen)] ==
            IF i = 0 THEN <<>> ELSE written[i - 1] \o MgfDigest(in, i - 1)
    IN  IF Remaining(outlen) > 0
        THEN written[Whole(outlen)]
             \o Take(MgfDigest(in, Whole(outlen)), Remaining(outlen))
        ELSE written[Whole(outlen)]

-------------------------------------------------------------------------------
Init ==
    /\ state_seeded = IncInit
    /\ seed = "none"
    /\ call = <<"none", 0>>
    /\ out = <<>>

InitializeHashFunction ==
    /\ seed' \in Seeds
    /\ state_seeded' = SeedState(seed')
    /\ call' = <<"none", 0>>
    /\ out' = <<>>

(* thash works on a copy of state_seeded. *)
Kept_Not(end) == end
Kept(end) == state_seeded

CallThash ==
    /\ seed # "none"
    /\ \E inblocks \in 1..MaxBlocks :
          LET end == IncFinalize(state_seeded, ThashInput(inblocks))
          IN  /\ out' = Digest(end)
              /\ state_seeded' = Kept(end)
              /\ call' = <<"thash", inblocks>>
    /\ UNCHANGED seed

CallHashMessage ==
    /\ \E mlen \in 0..MaxLen :
          /\ call' = <<"hash_message", mlen>>
          /\ out' = HashMessageSeed(Cells(<<"m">>, mlen))
    /\ UNCHANGED <<state_seeded, seed>>

CallGenMessageRandom ==
    /\ \E mlen \in 0..MaxLen :
          /\ call' = <<"gen_message_random", mlen>>
          /\ out' = GenMessageRandom(Cells(<<"m">>, mlen))
    /\ UNCHANGED <<state_seeded, seed>>

CallMgf1 ==
    /\ \E outlen \in 1..MaxLen :
          /\ call' = <<"mgf1", outlen>>
          /\ out' = Mgf1(Cells(<<"seed">>, N), outlen)
    /\ UNCHANGED <<state_seeded, seed>>

Next == InitializeHashFunction \/ CallThash \/ CallHashMessage
        \/ CallGenMessageRandom \/ CallMgf1

Spec == Init /\ [][Next]_vars

-------------------------------------------------------------------------------
(* SHA-256 of a whole string, by FIPS 180: the string, a one bit, as few     *)
(* zeros as make whole blocks, and the length.                               *)
Whole256(in) ==
    LET zeros  == CHOOSE z \in 0..(Block - 1) :
                     (Len(in) + 1 + z + LenCells) % Block = 0
        padded == in \o <<Cell("0x80")>> \o Repeat(Cell("0"), zeros) \o LengthCells(Len(in))
    IN  Cells(<<"sha256", [k \in 1..(Len(padded) \div Block) |->
                              SubSeq(padded, (k - 1) * Block + 1, k * Block)]>>, N)

(* thash returns the hash of the padded seed, the address and the input, of *)
(* the seed that was set last, however often it was called since.           *)
ThashSeeded ==
    call[1] = "thash" => out = Whole256(SeedBlock(seed) \o ThashInput(call[2]))

(* At every length of the message, the cut that hash_message makes does not *)
(* show in the hash of R, the public key and the message.                   *)
MessageHashedWhole ==
    call[1] = "hash_message" => out = Whole256(R_Pk \o Cells(<<"m">>, call[2]))

(* And gen_message_random is HMAC, of optrand and the message. *)
RandomIsHmac ==
    call[1] = "gen_message_random" =>
        out = Whole256(KeyBlock("0x5c")
                       \o Whole256(KeyBlock("0x36") \o Optrand
                                   \o Cells(<<"m">>, call[2])))

(* mgf1 returns the first outlen bytes of one stream, whether or not outlen *)
(* is a number of digests.                                                  *)
MaskIsStream ==
    call[1] = "mgf1" =>
        /\ Len(out) = call[2]
        /\ \A k \in 1..Len(out) :
            out[k] = Whole256(Cells(<<"seed">>, N)
                              \o Cells(<<"counter", (k - 1) \div N>>, 1))[((k - 1) % N) + 1]
===============================================================================
