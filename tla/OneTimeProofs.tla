------------------------------ MODULE OneTimeProofs ------------------------------
(***************************************************************************)
(* One WOTS key pair in use: what it signs says which message it is of,    *)
(* and the verifier ends at the public key with that message and no other. *)
(***************************************************************************)
EXTENDS OneTime, WotsLemmas, FiniteSetTheorems

(* The key pair of the module. *)
Pair == [sk |-> SkSeed, seeded |-> Seeded, layer |-> 1, tree |-> 3, kp1 |-> 5]

LEMMA PairFields == SkSeedOf(Pair) = SkSeed /\ SeededOf(Pair) = Seeded
BY DEF Pair, SkSeedOf, SeededOf

-------------------------------------------------------------------------------
(* The inputs of the model are messages. *)
Inputs == msg \in Messages /\ claimed \in Messages

(* The messages are never anything but messages. *)
LEMMA InputsHold == Spec => []Inputs
<1>1. Init => Inputs
  BY DEF Init, Inputs
<1>2. Inputs /\ [Next]_vars => Inputs'
  BY DEF Inputs, Next, vars, GenPk, Sign, PkFromSig
<1> QED
  BY <1>1, <1>2, PTL DEF Spec

(* Whatever the message, its digits spell its bytes, and the digits of the  *)
(* checksum the whole sum of the others' distances: chain_lengths neither   *)
(* drops a bit nor writes one twice.                                        *)
THEOREM Spells == Spec => []DigitsSpell
<1>1. ASSUME msg \in [1..N -> 0..255] PROVE DigitsSpell
  <2> DEFINE D == BaseW(WotsLen1, msg)
             C == WotsChecksum(D)
  <2>1. /\ SubSeq(ChainLengths(msg), 1, WotsLen1) = D
        /\ SubSeq(ChainLengths(msg), WotsLen1 + 1, WotsLen) = C
    BY <1>1, Lengths
  <2>2. Len(msg) = N
    BY <1>1, SizesAssumption
  <2>3. \A i \in 1..N : Spelled(W, SubSeq(D, (i - 1) * PerByte + 1, i * PerByte)) = msg[i]
    BY <1>1, ByteSpelled
  <2>4. Missing(D) = Spelled(W, C)
    <3> DEFINE c == CHOOSE h : IsSum(h, WotsLen1, D)
    <3>1. Len(D) = WotsLen1 /\ Digits(D, WotsLen1)
      BY <1>1, MessageDigits
    <3>2. IsSum(c, WotsLen1, D)
      <4>1. WotsLen1 \in Nat
        BY Sizes
      <4>2. \E h : IsSum(h, WotsLen1, D)
        <5> HIDE DEF D
        <5> QED
          BY <3>1, <4>1, SumExists
      <4> QED
        BY <4>2
    <3>3. Missing(D) = c[WotsLen1]
      <4> HIDE DEF D
      <4> QED
        BY <3>1 DEF Missing, IsSum
    <3> HIDE DEF c
    <3> QED
      BY <1>1, <3>2, <3>3, SumSpelled
  <2> HIDE DEF D, C
  <2> QED
    BY <2>1, <2>2, <2>3, <2>4 DEF DigitsSpell, PerByte
<1>2. Inputs => DigitsSpell
  BY <1>1, MessagesAssumption DEF Inputs
<1> QED
  BY <1>2, InputsHold, PTL

(* Whatever two messages: some chain of the first ends beyond where the same *)
(* chain of the second does, so that a signature cannot be walked on to it. *)
THEOREM Blocks == Spec => []ChecksumBlocks
<1>1. Inputs => ChecksumBlocks
  <2> SUFFICES ASSUME Inputs, msg # claimed
               PROVE  \E i \in 1..WotsLen : ChainLengths(claimed)[i] < ChainLengths(msg)[i]
    BY DEF ChecksumBlocks
  <2>1. msg \in [1..N -> 0..255] /\ claimed \in [1..N -> 0..255]
    BY MessagesAssumption DEF Inputs
  <2> QED
    BY <2>1, NoWayOn
<1> QED
  BY <1>1, InputsHold, PTL

(* The address the caller prepares has chain and hash zero. *)
LEMMA KeyFields == KeyAddr = At(Pair, 0, 0)
<1>1. Byte(0) = 0 /\ Byte(1) = 1 /\ Byte(5) = 5
  BY DEF Byte
<1>2. SetType(ZeroAddr, WOTS) = ZeroAddr
  BY <1>1 DEF SetType, ZeroAddr, WOTS
<1>3. SetLayer(SetType(ZeroAddr, WOTS), 1)
          = [layer |-> 1, tree |-> 0, type |-> 0, kp1 |-> 0, b17 |-> 0, b18_20 |-> 0, b21 |-> 0]
  BY <1>1, <1>2 DEF SetLayer, ZeroAddr
<1>4. SetTree(SetLayer(SetType(ZeroAddr, WOTS), 1), 3)
          = [layer |-> 1, tree |-> 3, type |-> 0, kp1 |-> 0, b17 |-> 0, b18_20 |-> 0, b21 |-> 0]
  BY <1>3 DEF SetTree
<1> QED
  BY <1>1, <1>4 DEF KeyAddr, At, SetKeypair, Pair, WOTS

-------------------------------------------------------------------------------
(* What the three steps have left. *)
KeyInv ==
    /\ Inputs
    /\ OfKey(Pair, addr)
    /\ pc \in {"gen", "sign", "verify", "done"}
    /\ pc # "gen" => IsKey(Pair, pk)
    /\ pc \in {"verify", "done"} => IsSignature(Pair, sig, msg)
    /\ pc = "done" => IsRecovered(Pair, recovered, sig, claimed)

(* wots_gen_pk establishes what KeyInv says of the public key. *)
LEMMA GenStep ==
    ASSUME KeyInv, GenPk
    PROVE  KeyInv'
<1> DEFINE r == WotsGenPk(SkSeed, Seeded, addr)
<1>1. IsKey(Pair, r.out) /\ OfKey(Pair, r.addr)
  BY GenPkOut, PairFields DEF KeyInv
<1>2. /\ pk' = r.out /\ addr' = r.addr /\ pc = "gen" /\ pc' = "sign"
      /\ UNCHANGED <<msg, claimed, sig, recovered>>
  BY DEF GenPk
<1> HIDE DEF r
<1>3. IsKey(Pair, pk') /\ Inputs'
  BY <1>1, <1>2 DEF KeyInv, Inputs
<1> QED
  BY <1>1, <1>2, <1>3 DEF KeyInv

(* wots_sign establishes what KeyInv says of the signature. *)
LEMMA SignStep ==
    ASSUME KeyInv, Sign
    PROVE  KeyInv'
<1> DEFINE r == WotsSign(msg, SkSeed, Seeded, addr)
<1>1. msg \in [1..N -> 0..255]
  BY MessagesAssumption DEF KeyInv, Inputs
<1>2. IsSignature(Pair, r.out, msg) /\ OfKey(Pair, r.addr)
  BY <1>1, SignOut, PairFields DEF KeyInv
<1>3. /\ sig' = r.out /\ addr' = r.addr /\ pc = "sign" /\ pc' = "verify"
      /\ UNCHANGED <<msg, claimed, pk, recovered>>
  BY DEF Sign
<1> HIDE DEF r
<1>4. IsSignature(Pair, sig', msg') /\ IsKey(Pair, pk') /\ Inputs'
  BY <1>2, <1>3 DEF KeyInv, Inputs
<1> QED
  BY <1>2, <1>3, <1>4 DEF KeyInv

(* wots_pk_from_sig establishes what KeyInv says of the recovered key. *)
LEMMA RecoverStep ==
    ASSUME KeyInv, PkFromSig
    PROVE  KeyInv'
<1> DEFINE o == claimed'
           r == WotsPkFromSig(sig, o, Seeded, addr)
<1>1. /\ o \in Messages /\ recovered' = r.out /\ addr' = r.addr
      /\ pc = "verify" /\ pc' = "done" /\ UNCHANGED <<msg, pk, sig>>
  BY DEF PkFromSig
<1>2. o \in [1..N -> 0..255]
  BY <1>1, MessagesAssumption
<1> HIDE DEF o
<1>3. IsRecovered(Pair, r.out, sig, o) /\ OfKey(Pair, r.addr)
  BY <1>2, RecoverOut, PairFields DEF KeyInv
<1> HIDE DEF r
<1>4. IsRecovered(Pair, recovered', sig', o)
  BY <1>1, <1>3
<1>5. IsKey(Pair, pk') /\ IsSignature(Pair, sig', msg') /\ Inputs'
  BY <1>1 DEF KeyInv, Inputs, o
<1> QED
  BY <1>1, <1>3, <1>4, <1>5 DEF KeyInv, o

(* KeyInv always holds. *)
LEMMA KeyInvHolds == Spec => []KeyInv
<1>1. Init => KeyInv
  BY KeyFields DEF Init, KeyInv, Inputs, OfKey
<1>2. KeyInv /\ [Next]_vars => KeyInv'
  <2> SUFFICES ASSUME KeyInv, [Next]_vars PROVE KeyInv'
    OBVIOUS
  <2>1. CASE GenPk
    BY <2>1, GenStep
  <2>2. CASE Sign
    BY <2>2, SignStep
  <2>3. CASE PkFromSig
    BY <2>3, RecoverStep
  <2>4. CASE UNCHANGED vars
    BY <2>4 DEF KeyInv, Inputs, vars
  <2> QED
    BY <2>1, <2>2, <2>3, <2>4 DEF Next
<1> QED
  BY <1>1, <1>2, PTL DEF Spec

(* The verifier ends at the public key with the message that was signed, and *)
(* with no other, whatever the sizes and the messages.                       *)
THEOREM Recovers == Spec => []OnlyItsMessage
<1>1. KeyInv => OnlyItsMessage
  <2> SUFFICES ASSUME KeyInv, pc = "done" PROVE recovered = pk <=> claimed = msg
    BY DEF OnlyItsMessage
  <2>1. /\ IsKey(Pair, pk) /\ IsSignature(Pair, sig, msg) /\ IsRecovered(Pair, recovered, sig, claimed)
        /\ msg \in [1..N -> 0..255] /\ claimed \in [1..N -> 0..255]
    BY MessagesAssumption DEF KeyInv, Inputs
  <2>2. \A i \in 1..WotsLen : /\ ChainLengths(msg)[i] \in 0..(W - 1)
                              /\ ChainLengths(claimed)[i] \in 0..(W - 1)
    BY <2>1, LengthsInRange
  <2>3. \A i \in 1..WotsLen :
           recovered[i] = End(Pair, Byte(i - 1), Whole(Pair, Byte(i - 1))[ChainLengths(msg)[i]],
                              ChainLengths(claimed)[i], W - 1)
    <3>1. \A i \in 1..WotsLen : sig[i] = Whole(Pair, Byte(i - 1))[ChainLengths(msg)[i]]
      BY <2>1 DEF IsSignature, Chain
    <3>2. \A i \in 1..WotsLen :
             recovered[i] = End(Pair, Byte(i - 1), sig[i], ChainLengths(claimed)[i], W - 1)
      BY <2>1 DEF IsRecovered
    <3> QED
      BY <3>1, <3>2
  <2>4. \A i \in 1..WotsLen : pk[i] = Whole(Pair, Byte(i - 1))[W - 1]
    BY <2>1 DEF IsKey, Chain
  <2>5. ASSUME claimed = msg PROVE recovered = pk
    <3>1. \A i \in 1..WotsLen : recovered[i] = pk[i]
      <4> SUFFICES ASSUME NEW i \in 1..WotsLen PROVE recovered[i] = pk[i]
        OBVIOUS
      <4> DEFINE l == ChainLengths(msg)[i]
      <4>1. l \in 0..(W - 1) /\ W - 1 \in l..(W - 1)
        BY <2>2, Sizes
      <4>2. recovered[i] = End(Pair, Byte(i - 1), Whole(Pair, Byte(i - 1))[l], l, W - 1)
        BY <2>3, <2>5
      <4> HIDE DEF l
      <4> QED
        BY <2>4, <4>1, <4>2, EndOnChain
    <3>2. recovered = [i \in 1..WotsLen |-> recovered[i]] /\ pk = [i \in 1..WotsLen |-> pk[i]]
      BY <2>1 DEF IsRecovered, IsKey
    <3> QED
      BY <3>1, <3>2
  <2>6. ASSUME claimed # msg PROVE recovered # pk
    <3>1. PICK i \in 1..WotsLen : ChainLengths(claimed)[i] < ChainLengths(msg)[i]
      BY <2>1, <2>6, NoWayOn
    <3> DEFINE a == ChainLengths(claimed)[i]
               b == ChainLengths(msg)[i]
    <3>2. a \in 0..(W - 1) /\ b \in 0..(W - 1) /\ a < b
      BY <2>2, <3>1
    <3>3. recovered[i] = End(Pair, Byte(i - 1), Whole(Pair, Byte(i - 1))[b], a, W - 1)
      BY <2>3
    <3> HIDE DEF a, b
    <3>4. recovered[i] # Whole(Pair, Byte(i - 1))[W - 1]
      BY <3>2, <3>3, TooFar
    <3> QED
      BY <2>4, <3>4
  <2> QED
    BY <2>5, <2>6
<1> QED
  BY <1>1, KeyInvHolds, PTL

-------------------------------------------------------------------------------
(* The addresses under which a whole chain was hashed, its last step first. *)
LEMMA IsThashHere ==
    /\ \A a, x : IsThash(Thash(SeededOf(Pair), a, <<x>>)) /\ Before(Thash(SeededOf(Pair), a, <<x>>)) = x
                 /\ Thash(SeededOf(Pair), a, <<x>>)[3] = a
    /\ \A c : ~IsThash(Secret(Pair, c)) /\ Before(Secret(Pair, c)) = Secret(Pair, c)
<1>1. ASSUME NEW a, NEW x
      PROVE  /\ IsThash(Thash(SeededOf(Pair), a, <<x>>)) /\ Before(Thash(SeededOf(Pair), a, <<x>>)) = x
             /\ Thash(SeededOf(Pair), a, <<x>>)[3] = a
  BY DEF IsThash, Before, Thash
<1>2. ASSUME NEW c PROVE ~IsThash(Secret(Pair, c)) /\ Before(Secret(Pair, c)) = Secret(Pair, c)
  BY DEF IsThash, Before, Secret, Prf
<1> QED
  BY <1>1, <1>2

(* The addresses of a whole chain are the chain's, with the step counting down. *)
LEMMA AddrsOfChain ==
    ASSUME NEW c
    PROVE  ChainAddrs(Whole(Pair, c)[W - 1]) = [p \in 1..(W - 1) |-> At(Pair, c, W - 1 - p)]
<1> DEFINE o == Whole(Pair, c)
           l == W - 1
           end == o[l]
           Is(f) == f = [k \in 0..W |-> IF k = 0 THEN end ELSE Before(f[k - 1])]
           at == CHOOSE f : Is(f)
           g == [k \in 0..W |-> IF k = W THEN o[0] ELSE o[l - k]]
<1>1. W \in Nat /\ l \in Nat /\ l >= 1 /\ W = l + 1
  BY Sizes
<1>2. o[0] = Secret(Pair, c) /\ \A i \in 0..(l - 1) : o[i + 1] = Thash(SeededOf(Pair), At(Pair, c, i), <<o[i]>>)
  <2>1. o[0] = Secret(Pair, c) /\ Steps(Pair, o, c, 0, l)
    BY WholeLaw
  <2> HIDE DEF o, l
  <2> QED
    BY <2>1 DEF Steps
<1> HIDE DEF o, l
<1>3. ASSUME NEW k \in 0..l, k # l
      PROVE  /\ Before(o[l - k]) = o[l - (k + 1)] /\ IsThash(o[l - k])
             /\ o[l - k][3] = At(Pair, c, l - (k + 1))
  <2> DEFINE i == l - (k + 1)
  <2>1. i \in 0..(l - 1) /\ i + 1 = l - k
    BY <1>1, <1>3
  <2> HIDE DEF i
  <2>2. o[l - k] = Thash(SeededOf(Pair), At(Pair, c, i), <<o[i]>>)
    BY <1>2, <2>1
  <2> QED
    BY <2>2, IsThashHere DEF i
<1>4. Is(g)
  <2>1. \A k \in 0..W : g[k] = IF k = 0 THEN end ELSE Before(g[k - 1])
    <3> SUFFICES ASSUME NEW k \in 0..W
                 PROVE  g[k] = IF k = 0 THEN end ELSE Before(g[k - 1])
      OBVIOUS
    <3>1. CASE k = 0
      <4>1. k # W /\ l - k = l
        BY <1>1, <3>1
      <4> QED
        BY <3>1, <4>1
    <3>2. CASE k # 0 /\ k # W
      <4>1. k - 1 \in 0..l /\ k - 1 # l /\ k - 1 # W /\ (k - 1) + 1 = k /\ k - 1 \in 0..W
        BY <1>1, <3>2
      <4>2. g[k] = o[l - k] /\ g[k - 1] = o[l - (k - 1)]
        BY <3>2, <4>1
      <4>3. Before(o[l - (k - 1)]) = o[l - k]
        BY <1>3, <4>1
      <4> QED
        BY <3>2, <4>2, <4>3
    <3>3. CASE k = W
      <4>1. k - 1 \in 0..W /\ k - 1 # W /\ l - (k - 1) = 0 /\ k # 0
        BY <1>1, <3>3
      <4>2. g[k] = o[0] /\ g[k - 1] = o[0]
        BY <3>3, <4>1
      <4>3. Before(o[0]) = o[0]
        BY <1>2, IsThashHere
      <4> QED
        BY <4>1, <4>2, <4>3
    <3> QED
      BY <3>1, <3>2, <3>3
  <2>2. g = [k \in 0..W |-> g[k]]
    OBVIOUS
  <2> HIDE DEF g, end
  <2> QED
    BY <2>1, <2>2
<1>5. Is(at)
  <2> HIDE DEF Is, g
  <2> QED
    BY <1>4
<1> HIDE DEF at, end
<1>6. \A k \in 0..W : at[k] = g[k]
  <2> DEFINE T == {k \in Nat : k <= W => at[k] = g[k]}
  <2>1. /\ \A k \in 0..W : at[k] = IF k = 0 THEN end ELSE Before(at[k - 1])
        /\ \A k \in 0..W : g[k] = IF k = 0 THEN end ELSE Before(g[k - 1])
    <3> HIDE DEF g
    <3> QED
      BY <1>4, <1>5
  <2> HIDE DEF g
  <2>2. 0 \in T
    BY <1>1, <2>1
  <2>3. ASSUME NEW k \in T PROVE k + 1 \in T
    <3> SUFFICES ASSUME k + 1 <= W PROVE at[k + 1] = g[k + 1]
      OBVIOUS
    <3>1. k + 1 \in 0..W /\ k + 1 # 0 /\ (k + 1) - 1 = k /\ at[k] = g[k]
      BY <1>1
    <3>2. at[k + 1] = Before(at[k]) /\ g[k + 1] = Before(g[k])
      BY <2>1, <3>1
    <3> QED
      BY <3>1, <3>2
  <2>4. T = Nat
    <3>1. T \subseteq Nat
      OBVIOUS
    <3> HIDE DEF T
    <3> QED
      BY <2>2, <2>3, <3>1, NatInd
  <2> QED
    BY <1>1, <2>4
<1>7. {k \in 0..W : IsThash(at[k])} = 0..(l - 1)
  <2>1. ASSUME NEW k \in 0..(l - 1) PROVE k \in 0..W /\ IsThash(at[k])
    <3>1. k \in 0..W /\ k \in 0..l /\ k # l /\ k # W
      BY <1>1
    <3>2. at[k] = o[l - k]
      BY <1>6, <3>1
    <3> QED
      BY <1>3, <3>1, <3>2
  <2>2. ASSUME NEW k \in 0..W, IsThash(at[k]) PROVE k \in 0..(l - 1)
    <3>1. CASE k = W \/ k = l
      <4>1. at[k] = o[0]
        <5>1. l - l = 0 /\ l # W
          BY <1>1
        <5> QED
          BY <1>6, <3>1, <5>1
      <4>2. ~IsThash(o[0])
        BY <1>2, IsThashHere
      <4> QED
        BY <2>2, <4>1, <4>2
    <3>2. CASE k # W /\ k # l
      BY <1>1, <3>2
    <3> QED
      BY <3>1, <3>2
  <2> QED
    BY <2>1, <2>2
<1>8. Cardinality(0..(l - 1)) = l
  <2>1. 0 \in Int /\ l - 1 \in Int /\ ~(0 > l - 1) /\ (l - 1) - 0 + 1 = l
    BY <1>1
  <2>2. Cardinality(0..(l - 1)) = IF 0 > l - 1 THEN 0 ELSE (l - 1) - 0 + 1
    BY <2>1, FS_Interval
  <2> QED
    BY <2>1, <2>2
<1>9. ChainAddrs(end) = [p \in 1..Cardinality({k \in 0..W : IsThash(at[k])}) |-> at[p - 1][3]]
  BY DEF ChainAddrs, at
<1>10. \A p \in 1..l : at[p - 1][3] = At(Pair, c, l - p)
  <2> SUFFICES ASSUME NEW p \in 1..l PROVE at[p - 1][3] = At(Pair, c, l - p)
    OBVIOUS
  <2>1. p - 1 \in 0..W /\ p - 1 \in 0..l /\ p - 1 # l /\ p - 1 # W /\ (p - 1) + 1 = p
    BY <1>1
  <2>2. at[p - 1] = o[l - (p - 1)]
    BY <1>6, <2>1
  <2> QED
    BY <1>3, <2>1, <2>2
<1>11. ChainAddrs(end) = [p \in 1..l |-> At(Pair, c, l - p)]
  BY <1>7, <1>8, <1>9, <1>10
<1> QED
  BY <1>11 DEF end, o, l

(* With no more chains than a byte of the address can number, no two hashes *)
(* of a public key are made under one address.                              *)
THEOREM Separates ==
    ASSUME WotsLen <= 256
    PROVE  Spec => []NoStepTwice
<1>1. KeyInv => NoStepTwice
  <2> SUFFICES ASSUME KeyInv, pc = "sign", NEW i \in 1..Len(pk), NEW j \in 1..Len(pk),
                      NEW p \in 1..Len(ChainAddrs(pk[i])), NEW q \in 1..Len(ChainAddrs(pk[j])),
                      ChainAddrs(pk[i])[p] = ChainAddrs(pk[j])[q]
               PROVE  i = j /\ p = q
    BY DEF NoStepTwice
  <2>1. pk = [n \in 1..WotsLen |-> Whole(Pair, Byte(n - 1))[W - 1]]
    BY DEF KeyInv, IsKey, Chain
  <2>2. WotsLen \in Nat /\ W - 1 \in Nat
    BY Sizes
  <2>3. i \in 1..WotsLen /\ j \in 1..WotsLen
    BY <2>1, <2>2
  <2>4. Byte(i - 1) = i - 1 /\ Byte(j - 1) = j - 1
    <3>1. i - 1 \in 0..255 /\ j - 1 \in 0..255
      BY <2>2, <2>3
    <3> QED
      BY <3>1, SmallByte, ZenonT(40)
  <2>5. /\ ChainAddrs(pk[i]) = [n \in 1..(W - 1) |-> At(Pair, i - 1, W - 1 - n)]
        /\ ChainAddrs(pk[j]) = [n \in 1..(W - 1) |-> At(Pair, j - 1, W - 1 - n)]
    BY <2>1, <2>3, <2>4, AddrsOfChain
  <2>6. p \in 1..(W - 1) /\ q \in 1..(W - 1)
    BY <2>2, <2>5
  <2>7. At(Pair, i - 1, W - 1 - p) = At(Pair, j - 1, W - 1 - q)
    BY <2>5, <2>6
  <2>8. i - 1 = j - 1 /\ W - 1 - p = W - 1 - q
    BY <2>7 DEF At
  <2> QED
    BY <2>2, <2>3, <2>6, <2>8
<1> QED
  BY <1>1, KeyInvHolds, PTL
===============================================================================
