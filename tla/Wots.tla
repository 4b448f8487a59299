---------------------------------- MODULE Wots ----------------------------------
(***************************************************************************)
(* WOTS+ (wots.c): one-time signatures by hash chains.  The signer walks a *)
(* chain per digit of the message, as far as the digit says; the verifier  *)
(* walks the rest.  Functions that are given an address return it as they  *)
(* leave it, in the field addr, because their callers go on using it.      *)
(***************************************************************************)
EXTENDS Hash, Bits, Integers, Sequences

CONSTANTS
    N,      \* SPX_N, bytes of a hash
    LogW,   \* SPX_WOTS_LOGW, a divisor of 8
    WotsLen2    \* SPX_WOTS_LEN2, digits of the checksum, precomputed in params.h

W == TwoTo[LogW]
WotsLen1 == (8 * N) \div LogW
WotsLen == WotsLen1 + WotsLen2

(* "This only works when log_w is a divisor of 8"; and the digits of the     *)
(* checksum must be enough for the largest one.                            *)
ASSUME SizesAssumption ==
    /\ N \in Nat \ {0}
    /\ LogW \in {1, 2, 4, 8}
    /\ WotsLen2 \in Nat \ {0}
    /\ WotsLen1 * (W - 1) < TwoTo[LogW * WotsLen2]

-------------------------------------------------------------------------------
(* Digits.  Byte strings and digit strings are sequences. *)

UllToBytes(outlen, in) ==
    [i \in 1..outlen |-> (in \div TwoTo[8 * (outlen - i)]) % 256]

(* base_w: each byte of the input gives PerByte digits, the high bits first. *)
PerByte == 8 \div LogW

BaseW(outlen, input) ==
    [out \in 1..outlen |->
        LET total == input[(out - 1) \div PerByte + 1]
            bits  == 8 - LogW * (((out - 1) % PerByte) + 1)
        IN  (total \div TwoTo[bits]) % W]

(* How far a digit is from the end of its chain. *)
Remaining_Digit(digit) == digit
Remaining(digit) == W - 1 - digit

(* "Make sure expected empty zero bits are the least significant bits." *)
ChecksumShift_None == 0
ChecksumShift == (8 - ((WotsLen2 * LogW) % 8)) % 8

WotsChecksum(msg_base_w) ==
    LET csum[i \in 0..WotsLen1] ==
            IF i = 0 THEN 0 ELSE csum[i - 1] + Remaining(msg_base_w[i])
    IN  BaseW(WotsLen2, UllToBytes((WotsLen2 * LogW + 7) \div 8,
                                   csum[WotsLen1] * TwoTo[ChecksumShift]))

ChainLengths(msg) ==
    LET digits == BaseW(WotsLen1, msg)
    IN  digits \o WotsChecksum(digits)

-------------------------------------------------------------------------------
(* Chains. *)

(* The address of step i of a chain. *)
StepAddr_FromZero(addr, start, i) == SetHash(addr, i - start)
StepAddr(addr, start, i) == SetHash(addr, i)

GenChain(seeded, in, start, steps, addr) ==
    LET last == IF start + steps < W THEN start + steps ELSE W
        out[i \in start..last] ==
            IF i = start THEN in
            ELSE Thash(seeded, StepAddr(addr, start, i - 1), <<out[i - 1]>>)
    IN  [addr |-> IF last > start THEN StepAddr(addr, start, last - 1) ELSE addr,
         out  |-> out[last]]

(* wots_gen_sk: "make sure that the hash address is actually zeroed". *)
WotsGenSk(sk_seed, addr) ==
    LET a == SetHash(addr, 0) IN [addr |-> a, out |-> Prf(sk_seed, a)]

(* The loop over the chains: Chain(a, i) is what is done for chain i. *)
Chains == WotsLen

ChainAddr_Same(addr, i) == SetChain(addr, 0)
ChainAddr(addr, i) == SetChain(addr, i - 1)

AllChains(Chain(_, _), addr) ==
    LET s[i \in 0..Chains] ==
            IF i = 0 THEN [addr |-> addr, out |-> <<>>]
            ELSE LET before == s[i - 1]
                     c == Chain(ChainAddr(before.addr, i), i)
                 IN  [addr |-> c.addr, out |-> Append(before.out, c.out)]
    IN  s[Chains]

WotsGenPk(sk_seed, seeded, addr) ==
    LET Chain(a, i) ==
            LET sk == WotsGenSk(sk_seed, a)
            IN  GenChain(seeded, sk.out, 0, W - 1, sk.addr)
    IN  AllChains(Chain, addr)

WotsSign(msg, sk_seed, seeded, addr) ==
    LET lengths == ChainLengths(msg)
        Chain(a, i) ==
            LET sk == WotsGenSk(sk_seed, a)
            IN  GenChain(seeded, sk.out, 0, lengths[i], sk.addr)
    IN  AllChains(Chain, addr)

WotsPkFromSig(sig, msg, seeded, addr) ==
    LET lengths == ChainLengths(msg)
        Chain(a, i) ==
            GenChain(seeded, sig[i], lengths[i], W - 1 - lengths[i], a)
    IN  AllChains(Chain, addr)
===============================================================================
