-------------------------------- MODULE OneTime --------------------------------
(***************************************************************************)
(* One WOTS key pair in use: wots_gen_pk makes the public key, wots_sign   *)
(* signs one message, and wots_pk_from_sig is given the signature together *)
(* with any message.  The caller accepts when the key it returns is the    *)
(* public key.                                                             *)
(***************************************************************************)
EXTENDS Wots, FiniteSets

CONSTANTS Messages, SkSeed, Seeded

ASSUME MessagesAssumption == Messages \subseteq [1..N -> 0..255]

VARIABLES msg, claimed, pk, sig, recovered, addr, pc

vars == <<msg, claimed, pk, sig, recovered, addr, pc>>

(* The address a caller prepares: complete but for chain and hash. *)
KeyAddr == SetKeypair(SetTree(SetLayer(SetType(ZeroAddr, WOTS), 1), 3), 5)

Init ==
    /\ msg \in Messages
    /\ claimed = msg
    /\ addr = KeyAddr
    /\ pk = <<>>
    /\ sig = <<>>
    /\ recovered = <<>>
    /\ pc = "gen"

GenPk ==
    /\ pc = "gen"
    /\ LET r == WotsGenPk(SkSeed, Seeded, addr)
       IN  pk' = r.out /\ addr' = r.addr
    /\ pc' = "sign"
    /\ UNCHANGED <<msg, claimed, sig, recovered>>

(* The address still holds the chain and the hash of the last step. *)
Sign ==
    /\ pc = "sign"
    /\ LET r == WotsSign(msg, SkSeed, Seeded, addr)
       IN  sig' = r.out /\ addr' = r.addr
    /\ pc' = "verify"
    /\ UNCHANGED <<msg, claimed, pk, recovered>>

PkFromSig ==
    /\ pc = "verify"
    /\ claimed' \in Messages
    /\ LET r == WotsPkFromSig(sig, claimed', Seeded, addr)
       IN  recovered' = r.out /\ addr' = r.addr
    /\ pc' = "done"
    /\ UNCHANGED <<msg, pk, sig>>

Next == GenPk \/ Sign \/ PkFromSig

Spec == Init /\ [][Next]_vars

-------------------------------------------------------------------------------
(* What the digits of the checksum should add up to. *)
Missing(digits) ==
    LET s[i \in 0..Len(digits)] == IF i = 0 THEN 0 ELSE s[i - 1] + (W - 1 - digits[i])
    IN  s[Len(digits)]

(* chain_lengths writes every bit of the message once, in order, and then the *)
(* whole checksum: none of its bits is shifted out of csum_bytes or left over. *)
DigitsSpell ==
    LET lengths == ChainLengths(msg)
        digits  == SubSeq(lengths, 1, WotsLen1)
        check   == SubSeq(lengths, WotsLen1 + 1, WotsLen)
    IN  /\ \A i \in 1..Len(msg) :
              Spelled(W, SubSeq(digits, (i - 1) * (8 \div LogW) + 1,
                                        i * (8 \div LogW))) = msg[i]
        /\ Spelled(W, check) = Missing(digits)

(* A signature of one message cannot be walked forward to one of another: some *)
(* chain would have to be walked back (the purpose of wots_checksum).          *)
ChecksumBlocks ==
    msg # claimed =>
        \E i \in 1..WotsLen : ChainLengths(claimed)[i] < ChainLengths(msg)[i]

(* wots_pk_from_sig finishes the chains that wots_sign began, under the same *)
(* addresses: it recovers the public key, and from this message alone.       *)
OnlyItsMessage == pc = "done" => (recovered = pk <=> claimed = msg)

(* What was hashed to get the end of a chain, from the last step down, and  *)
(* the addresses of those steps.                                           *)
Before(x) == IF IsThash(x) THEN x[4][1] ELSE x
ChainAddrs(end) ==
    LET at[k \in 0..W] == IF k = 0 THEN end ELSE Before(at[k - 1])
        steps == {k \in 0..W : IsThash(at[k])}
    IN  [p \in 1..Cardinality(steps) |-> at[p - 1][3]]

(* No two of the hashes in a public key are made under the same address, *)
(* although the fields of one address are overwritten all along.         *)
NoStepTwice ==
    pc = "sign" =>
        \A i, j \in 1..Len(pk) :
            LET a == ChainAddrs(pk[i])
                b == ChainAddrs(pk[j])
            IN  \A p \in 1..Len(a), q \in 1..Len(b) :
                    a[p] = b[q] => i = j /\ p = q
===============================================================================
