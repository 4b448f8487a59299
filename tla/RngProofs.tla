-------------------------------- MODULE RngProofs --------------------------------
(***************************************************************************)
(* What the two generators of rng.c write: the expander the one stream of  *)
(* its seed, and no byte more than it was told; randombytes as many bytes  *)
(* as it was asked for, of one block after the other.  For blocks of every *)
(* size and requests of every length, and any number of them.  The counter  *)
(* of the expander counts its blocks, and randombytes repeats none.        *)
(***************************************************************************)
EXTENDS Rng, WellFoundedInduction, TLAPS

-------------------------------------------------------------------------------
(* Induction over the natural numbers, for a property that is a set. *)
LEMMA NatInd ==
    ASSUME NEW T, T \subseteq Nat, 0 \in T, \A n \in T : n + 1 \in T
    PROVE  T = Nat
<1> SUFFICES ASSUME Nat \ T # {} PROVE FALSE
  OBVIOUS
<1> DEFINE R == OpToRel(<, Nat)
           U == Nat \ T
<1>1. IsWellFoundedOn(R, Nat)
  BY NatLessThanWellFounded
<1>2. \A i, j \in Nat : i < j => <<i, j>> \in R
  BY DEF OpToRel
<1>3. U \subseteq Nat /\ U # {}
  OBVIOUS
<1> HIDE DEF R, U
<1>4. PICK n \in U : \A y \in U : ~(<<y, n>> \in R)
  BY <1>1, <1>3, WFMin
<1>5. n \in Nat /\ n \notin T /\ \A y \in U : ~(y < n)
  BY <1>2, <1>4 DEF U
<1>6. n # 0 /\ n - 1 \in Nat /\ (n - 1) + 1 = n
  BY <1>5
<1>7. n - 1 \in T
  BY <1>5, <1>6 DEF U
<1> QED
  BY <1>5, <1>6, <1>7

(* The blocks of a seed are well defined: each is the encryption of the one *)
(* before.                                                                 *)
LEMMA BlockLaw ==
    ASSUME NEW seed
    PROVE  /\ Expander!Block(seed, 0) = Expander!Zeros
           /\ \A n \in Nat : Expander!Block(seed, n + 1)
                                 = Expander!Encrypt(seed, Expander!Block(seed, n))
<1> DEFINE E(b) == Expander!Encrypt(seed, b)
           Z == Expander!Zeros
           IsPart(h, n) == h = [k \in 0..n |-> IF k = 0 THEN Z ELSE E(h[k - 1])]
           IsAll(h) == h = [k \in Nat |-> IF k = 0 THEN Z ELSE E(h[k - 1])]
           Part(n) == CHOOSE h : IsPart(h, n)
           Parts == {n \in Nat : \E h : IsPart(h, n)}
           Agree == {m \in Nat : \A n \in Nat : n >= m => Part(n)[m] = Part(m)[m]}
           all == [n \in Nat |-> Part(n)[n]]
<1> HIDE DEF E, Z
<1>1. Parts = Nat
  <2>1. 0 \in Parts
    <3>1. IsPart([k \in 0..0 |-> Z], 0)
      OBVIOUS
    <3> HIDE DEF IsPart
    <3> QED
      BY <3>1
  <2>2. ASSUME NEW n \in Parts PROVE n + 1 \in Parts
    <3>1. PICK h : IsPart(h, n)
      OBVIOUS
    <3> DEFINE g == [k \in 0..(n + 1) |-> IF k = n + 1 THEN E(h[n]) ELSE h[k]]
    <3>2. \A k \in 0..(n + 1) : g[k] = IF k = 0 THEN Z ELSE E(g[k - 1])
      <4> SUFFICES ASSUME NEW k \in 0..(n + 1)
                   PROVE  g[k] = IF k = 0 THEN Z ELSE E(g[k - 1])
        OBVIOUS
      <4>1. n \in Nat
        OBVIOUS
      <4>2. CASE k = n + 1
        BY <4>1, <4>2
      <4>3. CASE k # n + 1
        <5>1. k \in 0..n /\ g[k] = h[k] /\ (k # 0 => g[k - 1] = h[k - 1])
          BY <4>1, <4>3
        <5>2. h[k] = IF k = 0 THEN Z ELSE E(h[k - 1])
          BY <3>1, <5>1
        <5> QED
          BY <5>1, <5>2
      <4> QED
        BY <4>2, <4>3
    <3>3. IsPart(g, n + 1)
      <4>1. g = [k \in 0..(n + 1) |-> g[k]]
        OBVIOUS
      <4> HIDE DEF g
      <4> QED
        BY <3>2, <4>1
    <3>4. n + 1 \in Nat
      OBVIOUS
    <3> HIDE DEF IsPart
    <3> QED
      BY <3>3, <3>4
  <2>3. Parts \subseteq Nat
    OBVIOUS
  <2> HIDE DEF Parts
  <2> QED
    BY <2>1, <2>2, <2>3, NatInd
<1>2. ASSUME NEW n \in Nat
      PROVE  \A k \in 0..n : Part(n)[k] = IF k = 0 THEN Z ELSE E(Part(n)[k - 1])
  <2>1. \E h : IsPart(h, n)
    BY <1>1
  <2>2. IsPart(Part(n), n)
    <3> HIDE DEF IsPart
    <3> QED
      BY <2>1
  <2> HIDE DEF Part
  <2> QED
    BY <2>2
<1> HIDE DEF Part
<1>3. Agree = Nat
  <2>1. 0 \in Agree
    BY <1>2
  <2>2. ASSUME NEW m \in Agree PROVE m + 1 \in Agree
    <3> SUFFICES ASSUME NEW n \in Nat, n >= m + 1 PROVE Part(n)[m + 1] = Part(m + 1)[m + 1]
      OBVIOUS
    <3>1. m \in Nat /\ m + 1 \in 0..n /\ m + 1 \in 0..(m + 1) /\ (m + 1) - 1 = m
      OBVIOUS
    <3>2. Part(n)[m + 1] = E(Part(n)[m])
      BY <1>2, <3>1
    <3>3. Part(m + 1)[m + 1] = E(Part(m + 1)[m])
      BY <1>2, <3>1
    <3>4. Part(n)[m] = Part(m)[m] /\ Part(m + 1)[m] = Part(m)[m]
      BY <3>1
    <3> QED
      BY <3>2, <3>3, <3>4
  <2>3. Agree \subseteq Nat
    OBVIOUS
  <2> HIDE DEF Agree
  <2> QED
    BY <2>1, <2>2, <2>3, NatInd
<1>4. IsAll(all)
  <2>1. ASSUME NEW n \in Nat PROVE all[n] = IF n = 0 THEN Z ELSE E(all[n - 1])
    <3>1. CASE n = 0
      BY <1>2, <3>1
    <3>2. CASE n # 0
      <4>1. n - 1 \in Nat /\ n \in 0..n /\ n >= n - 1
        BY <3>2
      <4>2. Part(n)[n] = E(Part(n)[n - 1])
        BY <1>2, <3>2, <4>1
      <4>3. n - 1 \in Agree
        BY <1>3, <4>1
      <4>4. Part(n)[n - 1] = Part(n - 1)[n - 1]
        BY <4>1, <4>3
      <4> QED
        BY <3>2, <4>1, <4>2, <4>4
    <3> QED
      BY <3>1, <3>2
  <2>2. all = [n \in Nat |-> all[n]]
    OBVIOUS
  <2> HIDE DEF all
  <2> QED
    BY <2>1, <2>2
<1>5. IsAll(Expander!Blocks(seed))
  <2>1. Expander!Blocks(seed) = CHOOSE h : IsAll(h)
    BY DEF Expander!Blocks, E, Z
  <2> HIDE DEF IsAll, all
  <2> QED
    BY <1>4, <2>1
<1>6. /\ Expander!Blocks(seed)[0] = Z
      /\ \A n \in Nat : Expander!Blocks(seed)[n + 1] = E(Expander!Blocks(seed)[n])
  <2>1. \A n \in Nat : n + 1 \in Nat /\ n + 1 # 0 /\ (n + 1) - 1 = n
    OBVIOUS
  <2> QED
    BY <1>5, <2>1
<1> QED
  BY <1>6 DEF Expander!Block, E, Z

-------------------------------------------------------------------------------
(* Byte r of block q, counted from zero. *)
LEMMA Position ==
    ASSUME NEW q \in Nat, NEW r \in Nat, r < BlockBytes
    PROVE  (q * BlockBytes + r) \div BlockBytes = q /\ (q * BlockBytes + r) % BlockBytes = r
<1> DEFINE m == q * BlockBytes + r
           d == m \div BlockBytes
           e == m % BlockBytes
<1>1. BlockBytes \in Nat \ {0} /\ q * BlockBytes \in Nat /\ m \in Nat
  BY SizesAssumption
<1>2. d \in Int /\ e \in 0..(BlockBytes - 1) /\ m = BlockBytes * d + e
  BY <1>1
<1> HIDE DEF d, e
<1>3. BlockBytes * (d - q) = r - e
  <2>1. BlockBytes * (d - q) = BlockBytes * d - q * BlockBytes
    BY <1>1, <1>2
  <2> QED
    BY <1>1, <1>2, <2>1
<1>4. d - q = 0
  <2>1. CASE d - q >= 1
    <3>1. BlockBytes * (d - q) >= BlockBytes
      BY <1>1, <1>2, <2>1
    <3> QED
      BY <1>1, <1>2, <1>3, <3>1
  <2>2. CASE d - q <= -1
    <3>1. BlockBytes * (d - q) <= -BlockBytes
      BY <1>1, <1>2, <2>2
    <3> QED
      BY <1>1, <1>2, <1>3, <3>1
  <2> QED
    BY <1>2, <2>1, <2>2
<1>5. d = q /\ e = r
  BY <1>1, <1>2, <1>3, <1>4
<1> QED
  BY <1>5 DEF d, e

(* Sequences whose elements are of no set in particular. *)
IsSequence(s) == Len(s) \in Nat /\ s = [k \in 1..Len(s) |-> s[k]]

LEMMA Appended ==
    ASSUME NEW s, IsSequence(s), NEW t, IsSequence(t)
    PROVE  /\ IsSequence(s \o t) /\ Len(s \o t) = Len(s) + Len(t)
           /\ \A k \in 1..Len(s) : (s \o t)[k] = s[k]
           /\ \A k \in 1..Len(t) : (s \o t)[Len(s) + k] = t[k]
<1> DEFINE S == {s[k] : k \in 1..Len(s)} \cup {t[k] : k \in 1..Len(t)}
<1>1. s \in Seq(S) /\ t \in Seq(S)
  BY DEF IsSequence
<1> HIDE DEF S
<1>2. /\ s \o t \in Seq(S) /\ Len(s \o t) = Len(s) + Len(t)
      /\ \A k \in 1..Len(s) : (s \o t)[k] = s[k]
      /\ \A k \in 1..Len(t) : (s \o t)[Len(s) + k] = t[k]
  BY <1>1
<1>3. \A u \in Seq(S) : Len(u) \in Nat /\ u = [k \in 1..Len(u) |-> u[k]]
  OBVIOUS
<1> QED
  BY <1>2, <1>3 DEF IsSequence

LEMMA Put ==
    ASSUME NEW s, IsSequence(s), NEW e
    PROVE  /\ IsSequence(Append(s, e)) /\ Len(Append(s, e)) = Len(s) + 1
           /\ \A k \in 1..Len(s) : Append(s, e)[k] = s[k]
           /\ Append(s, e)[Len(s) + 1] = e
<1> DEFINE S == {s[k] : k \in 1..Len(s)} \cup {e}
<1>1. s \in Seq(S) /\ e \in S
  BY DEF IsSequence
<1> HIDE DEF S
<1>2. /\ Append(s, e) \in Seq(S) /\ Len(Append(s, e)) = Len(s) + 1
      /\ \A k \in 1..Len(s) : Append(s, e)[k] = s[k]
      /\ Append(s, e)[Len(s) + 1] = e
  BY <1>1
<1>3. \A u \in Seq(S) : Len(u) \in Nat /\ u = [k \in 1..Len(u) |-> u[k]]
  OBVIOUS
<1> QED
  BY <1>2, <1>3 DEF IsSequence

-------------------------------------------------------------------------------
(* The seed expander: what is in the buffer is a block of the stream, and   *)
(* buffer_pos is where the next byte of the stream is in it.               *)
StreamByte(seed, j) ==
    <<Expander!Block(seed, ((j - 1) \div BlockBytes) + 1), ((j - 1) % BlockBytes) + 1>>

InStream(b) ==
    /\ ctx.buffer = Expander!Block(ctx.key, b)
    /\ Len(out) + BlockBytes = b * BlockBytes + ctx.buffer_pos

ExpanderInv ==
    /\ expanding \in {"ready", "expand"}
    /\ wanted \in Nat
    /\ expanding = "ready" => wanted = 0
    /\ maxlen \in Nat
    /\ DOMAIN ctx = {"buffer", "buffer_pos", "length_remaining", "key", "nonce", "ctr"}
    /\ ctx = [f \in DOMAIN ctx |-> ctx[f]]
    /\ ctx.buffer_pos \in 0..BlockBytes
    /\ ctx.length_remaining \in Nat
    /\ IsSequence(out)
    /\ Len(out) + wanted + ctx.length_remaining = maxlen
    /\ \E b \in Nat : InStream(b)
    /\ \A j \in 1..Len(out) : out[j] = StreamByte(ctx.key, j)

LEMMA Takes ==
    ASSUME ExpanderInv, NEW n \in Nat, n <= Expander!Left,
           NEW b \in Nat, InStream(b), NEW new, new = out \o Expander!Taken(n)
    PROVE  /\ IsSequence(new) /\ Len(new) = Len(out) + n
           /\ \A j \in 1..Len(new) : new[j] = StreamByte(ctx.key, j)
<1> DEFINE t == Expander!Taken(n)
<1> USE SizesAssumption
<1>1. t = [j \in 1..n |-> <<ctx.buffer, ctx.buffer_pos + j>>]
  BY DEF Expander!Taken
<1>2. IsSequence(t) /\ Len(t) = n
  <2>1. Len(t) = n
    BY <1>1
  <2>2. t = [j \in 1..n |-> t[j]]
    BY <1>1
  <2> HIDE DEF t
  <2> QED
    BY <2>1, <2>2 DEF IsSequence
<1>3. /\ Len(out) \in Nat /\ ctx.buffer_pos \in 0..BlockBytes
      /\ ctx.buffer_pos + n <= BlockBytes
      /\ Len(out) + BlockBytes = b * BlockBytes + ctx.buffer_pos
  <2>1. Len(out) \in Nat /\ ctx.buffer_pos \in 0..BlockBytes
    BY DEF ExpanderInv, IsSequence
  <2>2. n <= BlockBytes - ctx.buffer_pos
    BY DEF Expander!Left
  <2> QED
    BY <2>1, <2>2 DEF InStream
<1> HIDE DEF t
<1>4. /\ IsSequence(new) /\ Len(new) = Len(out) + n
      /\ \A k \in 1..Len(out) : new[k] = out[k]
      /\ \A k \in 1..n : new[Len(out) + k] = t[k]
  <2>1. IsSequence(out) /\ new = out \o t
    BY DEF ExpanderInv, t
  <2>2. IsSequence(t) /\ Len(t) = n
    BY <1>2
  <2>3. /\ IsSequence(out \o t) /\ Len(out \o t) = Len(out) + Len(t)
        /\ \A k \in 1..Len(out) : (out \o t)[k] = out[k]
        /\ \A k \in 1..Len(t) : (out \o t)[Len(out) + k] = t[k]
    <3>1. IsSequence(out)
      BY <2>1
    <3>2. IsSequence(t)
      BY <2>2
    <3> QED
      BY <3>1, <3>2, Appended
  <2> QED
    BY <2>1, <2>2, <2>3
<1>5. ASSUME NEW j \in 1..Len(new) PROVE new[j] = StreamByte(ctx.key, j)
  <2>1. CASE j <= Len(out)
    BY <1>3, <1>4, <2>1 DEF ExpanderInv
  <2>2. CASE j > Len(out)
    <3> DEFINE k == j - Len(out)
               r == ctx.buffer_pos + k - 1
    <3>1. k \in 1..n /\ j = Len(out) + k
      BY <1>3, <1>4, <2>2
    <3>2. r \in Nat /\ r < BlockBytes
      <4>1. ctx.buffer_pos \in Nat /\ k \in Nat /\ k >= 1 /\ k <= n /\ BlockBytes \in Nat
        BY <1>3, <3>1
      <4>2. ctx.buffer_pos + n <= BlockBytes
        BY <1>3
      <4> HIDE DEF k
      <4> QED
        BY <4>1, <4>2
    <3>3. b - 1 \in Nat
      <4>1. ASSUME b = 0 PROVE FALSE
        <5>1. b * BlockBytes = 0
          BY <4>1
        <5>2. Len(out) + BlockBytes = ctx.buffer_pos
          BY <1>3, <5>1
        <5>3. ctx.buffer_pos < BlockBytes
          BY <1>3, <3>1
        <5> QED
          BY <1>3, <5>2, <5>3
      <4> QED
        BY <4>1
    <3>4. j - 1 = (b - 1) * BlockBytes + r
      <4> DEFINE P == b * BlockBytes
                 Q == (b - 1) * BlockBytes
      <4>1. Q = P - BlockBytes /\ P \in Nat /\ Q \in Int
        OBVIOUS
      <4>2. Len(out) + BlockBytes = P + ctx.buffer_pos
        BY <1>3
      <4> HIDE DEF P, Q
      <4>3. j - 1 = Q + r
        <5>1. /\ k \in Nat /\ j = Len(out) + k /\ BlockBytes \in Nat
              /\ ctx.buffer_pos \in Nat /\ Len(out) \in Nat
          BY <1>3, <3>1
        <5> HIDE DEF k
        <5> QED
          BY <4>1, <4>2, <5>1, SMTT(20)
      <4> QED
        BY <4>3 DEF Q
    <3> HIDE DEF r
    <3>5. (j - 1) \div BlockBytes = b - 1 /\ (j - 1) % BlockBytes = r
      <4> DEFINE q == b - 1
      <4>1. q \in Nat /\ j - 1 = q * BlockBytes + r
        BY <3>3, <3>4
      <4> HIDE DEF q
      <4>2. (j - 1) \div BlockBytes = q /\ (j - 1) % BlockBytes = r
        BY <3>2, <4>1, Position
      <4> QED
        BY <4>2 DEF q
    <3>6. StreamByte(ctx.key, j) = <<Expander!Block(ctx.key, b), r + 1>>
      <4>1. (b - 1) + 1 = b
        OBVIOUS
      <4> QED
        BY <3>5, <4>1 DEF StreamByte
    <3>7. new[j] = <<Expander!Block(ctx.key, b), ctx.buffer_pos + k>>
      BY <1>1, <1>4, <3>1 DEF InStream
    <3>8. r + 1 = ctx.buffer_pos + k
      BY <1>3, <3>1 DEF r
    <3> QED
      BY <3>6, <3>7, <3>8
  <2> QED
    BY <1>3, <1>4, <2>1, <2>2
<1> QED
  BY <1>4, <1>5

(* A context that was made anew, by the first or a later initialisation.    *)
LEMMA FreshContext ==
    ASSUME NEW s, NEW d, NEW len \in MaxLens, ctx' = Expander!Fresh(s, d, len),
           maxlen' = len, out' = <<>>, wanted' = 0, expanding' = "ready"
    PROVE  ExpanderInv'
<1> USE SizesAssumption
<1>1. /\ DOMAIN ctx' = {"buffer", "buffer_pos", "length_remaining", "key", "nonce", "ctr"}
      /\ ctx' = [f \in DOMAIN ctx' |-> ctx'[f]]
      /\ ctx'.buffer_pos = BlockBytes /\ ctx'.length_remaining = len
      /\ ctx'.buffer = Expander!Zeros /\ ctx'.key = s
  BY DEF Expander!Fresh
<1>2. IsSequence(out') /\ Len(out') = 0
  BY DEF IsSequence
<1>3. InStream(0)'
  <2>1. ctx'.buffer = Expander!Block(ctx'.key, 0)
    BY <1>1, BlockLaw
  <2> QED
    BY <1>1, <1>2, <2>1 DEF InStream
<1>4. \E b \in Nat : InStream(b)'
  BY <1>3
<1> QED
  BY <1>1, <1>2, <1>4 DEF ExpanderInv

LEMMA ExpanderInitStep == Expander!Init => ExpanderInv
<1> SUFFICES ASSUME Expander!Init PROVE ExpanderInv
  OBVIOUS
<1> USE SizesAssumption
<1>1. PICK s \in Seeds, d \in Diversifiers, len \in MaxLens :
          ctx = Expander!Fresh(s, d, len) /\ maxlen = len
  BY DEF Expander!Init
<1>2. /\ DOMAIN ctx = {"buffer", "buffer_pos", "length_remaining", "key", "nonce", "ctr"}
      /\ ctx = [f \in DOMAIN ctx |-> ctx[f]]
      /\ ctx.buffer_pos = BlockBytes /\ ctx.length_remaining = len
      /\ ctx.buffer = Expander!Zeros /\ ctx.key = s
  BY <1>1 DEF Expander!Fresh
<1>3. IsSequence(out) /\ Len(out) = 0
  BY DEF IsSequence, Expander!Init
<1>4. InStream(0)
  <2>1. ctx.buffer = Expander!Block(ctx.key, 0)
    BY <1>2, BlockLaw
  <2> QED
    BY <1>2, <1>3, <2>1 DEF InStream
<1> QED
  BY <1>1, <1>2, <1>3, <1>4 DEF ExpanderInv, Expander!Init

LEMMA ExpanderStep == ExpanderInv /\ Expander!Next => ExpanderInv'
<1> SUFFICES ASSUME ExpanderInv, Expander!Next PROVE ExpanderInv'
  OBVIOUS
<1> USE SizesAssumption
<1>0. /\ wanted \in Nat /\ Len(out) \in Nat /\ ctx.buffer_pos \in 0..BlockBytes
      /\ ctx.length_remaining \in Nat /\ maxlen \in Nat
      /\ Len(out) + wanted + ctx.length_remaining = maxlen
  BY DEF ExpanderInv, IsSequence
<1>1. CASE Expander!SeedExpanderInit
  <2>1. PICK s \in Seeds, d \in Diversifiers, len \in MaxLens :
            ctx' = Expander!Fresh(s, d, len) /\ maxlen' = len
    BY <1>1 DEF Expander!SeedExpanderInit
  <2>2. out' = <<>> /\ wanted' = 0 /\ expanding' = "ready"
    BY <1>1 DEF Expander!SeedExpanderInit, ExpanderInv
  <2> QED
    BY <2>1, <2>2, FreshContext
<1>2. CASE Expander!SeedExpander
  <2>1. PICK n \in Requests :
            /\ ~Expander!Refused(n)
            /\ wanted' = n
            /\ ctx' = [ctx EXCEPT !.length_remaining = @ - n]
    BY <1>2 DEF Expander!SeedExpander
  <2>2. expanding = "ready" /\ expanding' = "expand" /\ UNCHANGED <<maxlen, out>>
    BY <1>2 DEF Expander!SeedExpander
  <2>3. n \in Nat /\ n < ctx.length_remaining
    BY <1>0, <2>1 DEF Expander!Refused
  <2>4. /\ DOMAIN ctx' = DOMAIN ctx /\ ctx' = [f \in DOMAIN ctx' |-> ctx'[f]]
        /\ ctx'.length_remaining = ctx.length_remaining - n
        /\ ctx'.buffer = ctx.buffer /\ ctx'.buffer_pos = ctx.buffer_pos
        /\ ctx'.key = ctx.key
    BY <2>1 DEF ExpanderInv
  <2>5. wanted = 0
    BY <2>2 DEF ExpanderInv
  <2>6. Len(out') + wanted' + ctx'.length_remaining = maxlen'
    BY <1>0, <2>1, <2>2, <2>3, <2>4, <2>5
  <2>7. \E b \in Nat : InStream(b)'
    <3>1. PICK b \in Nat : InStream(b)
      BY DEF ExpanderInv
    <3>2. InStream(b)'
      BY <2>2, <2>4, <3>1 DEF InStream
    <3> QED
      BY <3>2
  <2>8. IsSequence(out') /\ \A j \in 1..Len(out') : out'[j] = StreamByte(ctx'.key, j)
    BY <2>2, <2>4 DEF ExpanderInv, IsSequence
  <2>9. ctx'.length_remaining \in Nat /\ wanted' \in Nat /\ maxlen' \in Nat
    BY <1>0, <2>1, <2>2, <2>3, <2>4
  <2>10. DOMAIN ctx' = {"buffer", "buffer_pos", "length_remaining", "key", "nonce", "ctr"}
         /\ ctx'.buffer_pos \in 0..BlockBytes
    BY <1>0, <2>4 DEF ExpanderInv
  <2> QED
    BY <2>2, <2>4, <2>6, <2>7, <2>8, <2>9, <2>10 DEF ExpanderInv, StreamByte
<1>3. CASE Expander!TakeAll
  <2>1. /\ expanding' = "ready" /\ wanted' = 0 /\ maxlen' = maxlen
        /\ wanted <= Expander!Left
        /\ out' = out \o Expander!Taken(wanted)
        /\ ctx' = [ctx EXCEPT !.buffer_pos = ctx.buffer_pos + wanted]
    BY <1>3 DEF Expander!TakeAll, Expander!PosAfter
  <2>2. PICK b \in Nat : InStream(b)
    BY DEF ExpanderInv
  <2>3. /\ IsSequence(out') /\ Len(out') = Len(out) + wanted
        /\ \A j \in 1..Len(out') : out'[j] = StreamByte(ctx.key, j)
    BY <1>0, <2>1, <2>2, Takes
  <2>4. /\ DOMAIN ctx' = DOMAIN ctx /\ ctx' = [f \in DOMAIN ctx' |-> ctx'[f]]
        /\ ctx'.length_remaining = ctx.length_remaining
        /\ ctx'.buffer = ctx.buffer /\ ctx'.buffer_pos = ctx.buffer_pos + wanted
        /\ ctx'.key = ctx.key
    BY <2>1 DEF ExpanderInv
  <2>5. ctx'.buffer_pos \in 0..BlockBytes
    BY <1>0, <2>1, <2>4 DEF Expander!Left
  <2>6. InStream(b)'
    <3> DEFINE P == b * BlockBytes
    <3>1. P \in Nat /\ Len(out) + BlockBytes = P + ctx.buffer_pos
      BY <2>2 DEF InStream
    <3> HIDE DEF P
    <3>2. Len(out') + BlockBytes = P + ctx'.buffer_pos
      <4>1. /\ ctx.buffer_pos \in Nat /\ BlockBytes \in Nat
            /\ Len(out) \in Nat /\ wanted \in Nat
        BY <1>0
      <4>2. Len(out') = Len(out) + wanted /\ ctx'.buffer_pos = ctx.buffer_pos + wanted
        BY <2>3, <2>4
      <4> QED
        BY <3>1, <4>1, <4>2
    <3>3. ctx'.buffer = Expander!Block(ctx'.key, b)
      BY <2>2, <2>4 DEF InStream
    <3> QED
      BY <3>2, <3>3 DEF InStream, P
  <2>7. \E c \in Nat : InStream(c)'
    BY <2>6
  <2>8. Len(out') + wanted' + ctx'.length_remaining = maxlen'
    BY <1>0, <2>1, <2>3, <2>4
  <2>9. DOMAIN ctx' = {"buffer", "buffer_pos", "length_remaining", "key", "nonce", "ctr"}
        /\ ctx'.length_remaining \in Nat /\ maxlen' \in Nat
    BY <1>0, <2>1, <2>4 DEF ExpanderInv
  <2> QED
    BY <2>1, <2>3, <2>4, <2>5, <2>7, <2>8, <2>9 DEF ExpanderInv, StreamByte
<1>4. CASE Expander!Refill
  <2>1. /\ expanding' = expanding /\ expanding = "expand" /\ maxlen' = maxlen
        /\ wanted > Expander!Left
        /\ out' = out \o Expander!Taken(Expander!Left)
        /\ wanted' = wanted - Expander!Left
    BY <1>4 DEF Expander!Refill
  <2>2. /\ DOMAIN ctx' = DOMAIN ctx /\ ctx' = [f \in DOMAIN ctx' |-> ctx'[f]]
        /\ ctx'.length_remaining = ctx.length_remaining
        /\ ctx'.buffer = Expander!Encrypt(ctx.key, ctx.buffer)
        /\ ctx'.buffer_pos = 0 /\ ctx'.key = ctx.key
    BY <1>4 DEF Expander!Refill, ExpanderInv, Expander!Aes256Ecb
  <2>3. PICK b \in Nat : InStream(b)
    BY DEF ExpanderInv
  <2>4. Expander!Left \in Nat /\ Expander!Left = BlockBytes - ctx.buffer_pos
    BY <1>0 DEF Expander!Left
  <2>5. /\ IsSequence(out') /\ Len(out') = Len(out) + Expander!Left
        /\ \A j \in 1..Len(out') : out'[j] = StreamByte(ctx.key, j)
    <3>1. PICK n : n = Expander!Left
      OBVIOUS
    <3>2. n \in Nat /\ n <= Expander!Left /\ out' = out \o Expander!Taken(n)
      BY <2>1, <2>4, <3>1
    <3>3. /\ IsSequence(out') /\ Len(out') = Len(out) + n
          /\ \A j \in 1..Len(out') : out'[j] = StreamByte(ctx.key, j)
      BY <2>3, <3>2, Takes
    <3> QED
      BY <3>1, <3>3
  <2>6. InStream(b + 1)'
    <3> DEFINE P == b * BlockBytes
               Q == (b + 1) * BlockBytes
    <3>1. /\ P \in Nat /\ Q \in Nat /\ Q = P + BlockBytes
          /\ Len(out) + BlockBytes = P + ctx.buffer_pos
      BY <2>3 DEF InStream
    <3> HIDE DEF P, Q
    <3>2. Len(out') + BlockBytes = Q + ctx'.buffer_pos
      <4>1. ctx.buffer_pos \in Nat /\ BlockBytes \in Nat
        BY <1>0
      <4>2. Len(out') = Len(out) + (BlockBytes - ctx.buffer_pos) /\ ctx'.buffer_pos = 0
        BY <2>2, <2>4, <2>5
      <4>3. Len(out') = P
        BY <1>0, <3>1, <4>1, <4>2
      <4> QED
        BY <3>1, <4>1, <4>2, <4>3
    <3>3. Expander!Block(ctx.key, b + 1) = Expander!Encrypt(ctx.key, Expander!Block(ctx.key, b))
      BY BlockLaw
    <3>4. ctx'.buffer = Expander!Block(ctx'.key, b + 1)
      BY <2>2, <2>3, <3>3 DEF InStream
    <3> QED
      BY <3>2, <3>4 DEF InStream, Q
  <2>7. \E c \in Nat : InStream(c)'
    BY <2>6
  <2>8. Len(out') + wanted' + ctx'.length_remaining = maxlen'
    BY <1>0, <2>1, <2>2, <2>4, <2>5
  <2>9. /\ DOMAIN ctx' = {"buffer", "buffer_pos", "length_remaining", "key", "nonce", "ctr"}
        /\ ctx'.length_remaining \in Nat /\ maxlen' \in Nat /\ wanted' \in Nat
        /\ ctx'.buffer_pos \in 0..BlockBytes
    BY <1>0, <2>1, <2>2, <2>4 DEF ExpanderInv
  <2> QED
    BY <2>1, <2>2, <2>5, <2>7, <2>8, <2>9 DEF ExpanderInv, StreamByte
<1>5. CASE Expander!TakeNothing
  BY <1>5 DEF Expander!TakeNothing, ExpanderInv, InStream, IsSequence, StreamByte
<1> QED
  BY <1>1, <1>2, <1>3, <1>4, <1>5 DEF Expander!Next

-------------------------------------------------------------------------------
(* randombytes: the call has written the last q blocks that were put out,   *)
(* all but the last of them whole.                                         *)
LEMMA BlockOf ==
    ASSUME NEW q \in Nat, NEW m \in Nat, m < q * BlockBytes
    PROVE  m \div BlockBytes \in 0..(q - 1)
<1> DEFINE d == m \div BlockBytes
           e == m % BlockBytes
<1>1. BlockBytes \in Nat \ {0} /\ q * BlockBytes \in Nat
  BY SizesAssumption
<1>2. d \in Nat /\ e \in Nat /\ m = BlockBytes * d + e
  BY <1>1
<1> HIDE DEF d, e
<1>3. ASSUME d >= q PROVE FALSE
  <2>1. BlockBytes * d >= q * BlockBytes
    BY <1>1, <1>2, <1>3
  <2>2. BlockBytes * d \in Nat
    BY <1>1, <1>2
  <2> QED
    BY <1>1, <1>2, <2>1, <2>2
<1> QED
  BY <1>2, <1>3 DEF d

Written(q) ==
    /\ q <= Len(given)
    /\ Len(x) <= q * BlockBytes
    /\ q > 0 => (q - 1) * BlockBytes < Len(x)
    /\ xlen > 0 => Len(x) = q * BlockBytes
    /\ \A j \in 1..Len(x) :
          x[j] = <<given[Len(given) - q + 1 + ((j - 1) \div BlockBytes)],
                   ((j - 1) % BlockBytes) + 1>>

GeneratorInv ==
    /\ filling \in {"ready", "fill"}
    /\ asked \in Nat /\ xlen \in Nat
    /\ filling = "ready" => xlen = 0
    /\ IsSequence(x) /\ IsSequence(given)
    /\ asked = 0 => xlen = 0
    /\ asked > 0 => Len(x) + xlen = asked /\ \E q \in Nat : Written(q)

LEMMA GeneratorInitStep == Generator!Init => GeneratorInv
<1> SUFFICES ASSUME Generator!Init PROVE GeneratorInv
  OBVIOUS
<1>1. IsSequence(x) /\ IsSequence(given)
  BY DEF Generator!Init, IsSequence
<1> QED
  BY <1>1 DEF Generator!Init, GeneratorInv

LEMMA BlockWritten ==
    ASSUME GeneratorInv, asked > 0, xlen > 0, NEW q \in Nat, Written(q),
           NEW n \in Nat, n > 0, n <= BlockBytes,
           given' = Append(given, block'), x' = x \o Generator!Bytes(block', n),
           xlen' \in Nat, xlen' > 0 => n = BlockBytes
    PROVE  /\ IsSequence(x') /\ IsSequence(given') /\ Len(x') = Len(x) + n
           /\ Written(q + 1)'
<1> DEFINE t == Generator!Bytes(block', n)
           P == q * BlockBytes
<1>1. t = [j \in 1..n |-> <<block', j>>]
  BY DEF Generator!Bytes
<1>2. IsSequence(t) /\ Len(t) = n
  <2>1. Len(t) = n
    BY <1>1
  <2>2. t = [j \in 1..n |-> t[j]]
    BY <1>1
  <2> HIDE DEF t
  <2> QED
    BY <2>1, <2>2 DEF IsSequence
<1> HIDE DEF t
<1>3. /\ IsSequence(x') /\ Len(x') = Len(x) + n
      /\ \A k \in 1..Len(x) : x'[k] = x[k]
      /\ \A k \in 1..n : x'[Len(x) + k] = t[k]
  <2>1. IsSequence(x) /\ x' = x \o t
    BY DEF GeneratorInv, t
  <2>2. IsSequence(t) /\ Len(t) = n
    BY <1>2
  <2>3. /\ IsSequence(x \o t) /\ Len(x \o t) = Len(x) + Len(t)
        /\ \A k \in 1..Len(x) : (x \o t)[k] = x[k]
        /\ \A k \in 1..Len(t) : (x \o t)[Len(x) + k] = t[k]
    <3>1. IsSequence(x)
      BY <2>1
    <3>2. IsSequence(t)
      BY <2>2
    <3> QED
      BY <3>1, <3>2, Appended
  <2> QED
    BY <2>1, <2>2, <2>3
<1>4. /\ IsSequence(given') /\ Len(given') = Len(given) + 1
      /\ \A k \in 1..Len(given) : given'[k] = given[k]
      /\ given'[Len(given) + 1] = block'
  <2>1. IsSequence(given)
    BY DEF GeneratorInv
  <2> QED
    BY <2>1, Put
<1>5. /\ BlockBytes \in Nat /\ P \in Nat /\ (q + 1) * BlockBytes = P + BlockBytes
      /\ Len(x) = P /\ Len(given) \in Nat /\ q <= Len(given)
  BY SizesAssumption, SMTT(20) DEF GeneratorInv, Written, IsSequence
<1>6. \A j \in 1..Len(x') :
          x'[j] = <<given'[Len(given') - (q + 1) + 1 + ((j - 1) \div BlockBytes)],
                    ((j - 1) % BlockBytes) + 1>>
  <2> SUFFICES ASSUME NEW j \in 1..Len(x')
               PROVE  x'[j] = <<given'[Len(given') - (q + 1) + 1 + ((j - 1) \div BlockBytes)],
                                ((j - 1) % BlockBytes) + 1>>
    OBVIOUS
  <2> DEFINE d == (j - 1) \div BlockBytes
             at == Len(given) - q + 1 + d
  <2>1. Len(given') - (q + 1) + 1 = Len(given) - q + 1
    BY <1>4, <1>5
  <2>2. CASE j <= Len(x)
    <3>1. d \in 0..(q - 1)
      <4>1. j - 1 \in Nat /\ j - 1 < P
        BY <1>3, <1>5, <2>2
      <4> QED
        BY <4>1, BlockOf
    <3>2. x[j] = <<given[at], ((j - 1) % BlockBytes) + 1>>
      <4>1. \A k \in 1..Len(x) :
                x[k] = <<given[Len(given) - q + 1 + ((k - 1) \div BlockBytes)],
                         ((k - 1) % BlockBytes) + 1>>
        BY DEF Written
      <4>2. j \in 1..Len(x)
        BY <1>5, <2>2
      <4> QED
        BY <4>1, <4>2
    <3>3. x'[j] = x[j]
      BY <1>3, <1>5, <2>2
    <3> HIDE DEF d
    <3>4. at \in 1..Len(given)
      BY <1>5, <3>1
    <3>5. given'[at] = given[at]
      BY <1>4, <3>4
    <3> QED
      BY <2>1, <3>2, <3>3, <3>5 DEF d
  <2>3. CASE j > Len(x)
    <3> DEFINE k == j - Len(x)
               r == k - 1
    <3>1. k \in 1..n /\ j = Len(x) + k
      BY <1>3, <1>5, <2>3
    <3>2. r \in Nat /\ r < BlockBytes /\ j - 1 = P + r /\ r + 1 = k
      <4> HIDE DEF k
      <4> QED
        BY <1>5, <3>1
    <3>3. d = q /\ (j - 1) % BlockBytes = r
      <4> HIDE DEF r
      <4> QED
        BY <3>2, Position
    <3>4. x'[j] = <<block', k>>
      <4>1. x'[Len(x) + k] = t[k]
        BY <1>3, <3>1
      <4>2. t[k] = <<block', k>>
        BY <1>1, <3>1
      <4> QED
        BY <3>1, <4>1, <4>2
    <3>5. at = Len(given) + 1
      <4> HIDE DEF d
      <4> QED
        BY <1>5, <3>3
    <3>6. given'[at] = block'
      BY <1>4, <3>5
    <3> QED
      BY <2>1, <3>2, <3>3, <3>4, <3>6
  <2>4. j <= Len(x) \/ j > Len(x)
    BY <1>3, <1>5
  <2> QED
    BY <2>2, <2>3, <2>4
<1>7. /\ q + 1 <= Len(given')
      /\ Len(x') <= (q + 1) * BlockBytes
      /\ (q + 1) - 1 = q /\ P < Len(x')
      /\ xlen' > 0 => Len(x') = (q + 1) * BlockBytes
  <2> HIDE DEF P
  <2> QED
    BY <1>3, <1>4, <1>5
<1> QED
  BY <1>3, <1>4, <1>6, <1>7 DEF Written

LEMMA GeneratorStep == GeneratorInv /\ Generator!Next => GeneratorInv'
<1> SUFFICES ASSUME GeneratorInv, Generator!Next PROVE GeneratorInv'
  OBVIOUS
<1> USE SizesAssumption
<1>1. CASE Generator!RandombytesInit
  <2>1. /\ x' = <<>> /\ given' = <<>> /\ asked' = 0 /\ filling' = filling /\ xlen' = xlen
        /\ filling = "ready"
    BY <1>1 DEF Generator!RandombytesInit, Generator!NewCall
  <2>2. IsSequence(x') /\ IsSequence(given')
    BY <2>1 DEF IsSequence
  <2> QED
    BY <2>1, <2>2 DEF GeneratorInv
<1>2. CASE Generator!Randombytes
  <2>1. /\ x' = <<>> /\ given' = given /\ asked' \in Nat /\ filling' = "fill"
        /\ xlen' = asked'
    BY <1>2 DEF Generator!Randombytes, Generator!NewCall
  <2>2. IsSequence(x') /\ Len(x') = 0 /\ IsSequence(given') /\ Len(given') \in Nat
    BY <2>1 DEF IsSequence, GeneratorInv
  <2>3. Written(0)'
    BY <2>1, <2>2 DEF Written
  <2>4. Len(x') + xlen' = asked' /\ \E q \in Nat : Written(q)'
    <3>1. Len(x') + xlen' = asked'
      <4>1. PICK a \in Nat : a = asked'
        BY <2>1
      <4>2. Len(x') = 0 /\ xlen' = a
        BY <2>1, <2>2, <4>1
      <4>3. Len(x') + xlen' = 0 + a
        BY <4>2
      <4>4. \A i \in Nat : 0 + i = i
        OBVIOUS
      <4> QED
        BY <4>1, <4>3, <4>4
    <3>2. 0 \in Nat /\ Written(0)'
      BY <2>3
    <3> QED
      BY <3>1, <3>2
  <2> QED
    BY <2>1, <2>2, <2>4 DEF GeneratorInv
<1>3. CASE Generator!NextBlock
  <2>1. /\ filling = "fill" /\ filling' = filling /\ asked' = asked /\ xlen > 0
        /\ given' = Append(given, block')
    BY <1>3 DEF Generator!NextBlock
  <2>2. asked > 0 /\ Len(x) + xlen = asked /\ xlen \in Nat /\ asked \in Nat /\ Len(x) \in Nat
    BY <2>1 DEF GeneratorInv, IsSequence
  <2>3. PICK q \in Nat : Written(q)
    BY <2>2 DEF GeneratorInv
  <2>4. PICK n \in Nat : /\ n > 0 /\ n <= BlockBytes /\ n <= xlen
                         /\ x' = x \o Generator!Bytes(block', n)
                         /\ xlen' = xlen - n
                         /\ xlen' > 0 => n = BlockBytes
    <3>1. BlockBytes \in Nat /\ BlockBytes > 0
      OBVIOUS
    <3>2. CASE Generator!RoomForBlock(xlen)
      <4>1. xlen >= BlockBytes
        BY <2>2, <3>1, <3>2 DEF Generator!RoomForBlock
      <4>2. x' = x \o Generator!Bytes(block', BlockBytes) /\ xlen' = xlen - BlockBytes
        BY <1>3, <3>2 DEF Generator!NextBlock
      <4> QED
        BY <3>1, <4>1, <4>2
    <3>3. CASE ~Generator!RoomForBlock(xlen)
      <4>1. xlen <= BlockBytes
        BY <2>2, <3>1, <3>3 DEF Generator!RoomForBlock
      <4>2. x' = x \o Generator!Bytes(block', xlen) /\ xlen' = 0
        BY <1>3, <3>3 DEF Generator!NextBlock
      <4>3. xlen' = xlen - xlen /\ ~(xlen' > 0)
        BY <2>2, <4>2
      <4> QED
        BY <2>1, <2>2, <4>1, <4>2, <4>3
    <3> QED
      BY <3>2, <3>3
  <2>5. xlen' \in Nat
    BY <2>2, <2>4
  <2>6. /\ IsSequence(x') /\ IsSequence(given') /\ Len(x') = Len(x) + n
        /\ Written(q + 1)'
    BY <2>1, <2>2, <2>3, <2>4, <2>5, BlockWritten
  <2>7. Len(x') + xlen' = asked'
    <3>1. Len(x') + xlen' = (Len(x) + n) + (xlen - n)
      BY <2>4, <2>6
    <3>2. (Len(x) + n) + (xlen - n) = Len(x) + xlen
      BY <2>2
    <3> QED
      BY <2>1, <2>2, <3>1, <3>2
  <2>8. \E p \in Nat : Written(p)'
    BY <2>6
  <2> QED
    BY <2>1, <2>2, <2>5, <2>6, <2>7, <2>8 DEF GeneratorInv
<1>4. CASE Generator!Return
  BY <1>4 DEF Generator!Return, GeneratorInv, Written, IsSequence
<1> QED
  BY <1>1, <1>2, <1>3, <1>4 DEF Generator!Next

LEMMA GeneratorServes == GeneratorInv => WritesRequested
<1> SUFFICES ASSUME GeneratorInv, asked > 0
             PROVE  /\ Len(x) <= asked /\ Len(x) + xlen = asked
                    /\ \A j \in 1..Len(x) :
                          x[j] = <<given[Len(given) - ((Len(x) - 1) \div BlockBytes)
                                             + ((j - 1) \div BlockBytes)],
                                   ((j - 1) % BlockBytes) + 1>>
  BY DEF WritesRequested, Generator!WritesRequested
<1> USE SizesAssumption
<1>1. PICK q \in Nat : Written(q)
  BY DEF GeneratorInv
<1>2. /\ Len(x) \in Nat /\ xlen \in Nat /\ asked \in Nat /\ Len(x) + xlen = asked
      /\ Len(given) \in Nat
  BY DEF GeneratorInv, IsSequence
<1>3. ASSUME NEW j \in 1..Len(x)
      PROVE  x[j] = <<given[Len(given) - ((Len(x) - 1) \div BlockBytes)
                                + ((j - 1) \div BlockBytes)],
                      ((j - 1) % BlockBytes) + 1>>
  <2> DEFINE d == (j - 1) \div BlockBytes
             l == (Len(x) - 1) \div BlockBytes
  <2>1. x[j] = <<given[Len(given) - q + 1 + d], ((j - 1) % BlockBytes) + 1>>
    BY <1>1 DEF Written
  <2>2. l = q - 1
    <3> DEFINE Q == (q - 1) * BlockBytes
               r == Len(x) - 1 - Q
               p == q - 1
    <3>1. q > 0
      <4>1. ASSUME q = 0 PROVE FALSE
        <5>1. q * BlockBytes = 0
          BY <4>1
        <5> QED
          BY <1>1, <1>2, <5>1 DEF Written
      <4> QED
        BY <4>1
    <3>2. Q \in Nat /\ BlockBytes \in Nat /\ q * BlockBytes = Q + BlockBytes /\ p \in Nat
      BY <3>1
    <3>3. Q < Len(x) /\ Len(x) <= q * BlockBytes
      BY <1>1, <3>1 DEF Written
    <3>4. r \in Nat /\ r < BlockBytes /\ Len(x) - 1 = p * BlockBytes + r
      <4>1. r \in Nat /\ r < BlockBytes /\ Len(x) - 1 = Q + r
        <5> HIDE DEF Q
        <5> QED
          BY <1>2, <3>2, <3>3
      <4> QED
        BY <4>1
    <3> HIDE DEF p, r
    <3>5. l = p
      BY <3>2, <3>4, Position
    <3> QED
      BY <3>5 DEF p
  <2>3. d \in Int
    BY <1>2
  <2> HIDE DEF d, l
  <2>4. Len(given) - l + d = Len(given) - q + 1 + d
    BY <1>2, <2>2, <2>3
  <2> QED
    BY <2>1, <2>4 DEF d, l
<1> QED
  BY <1>2, <1>3

-------------------------------------------------------------------------------
LEMMA Steps ==
    (ExpanderInv /\ GeneratorInv) /\ [Next]_vars => (ExpanderInv /\ GeneratorInv)'
<1> SUFFICES ASSUME ExpanderInv, GeneratorInv, [Next]_vars
             PROVE  ExpanderInv' /\ GeneratorInv'
  OBVIOUS
<1>1. ASSUME UNCHANGED expander_vars PROVE ExpanderInv'
  BY <1>1 DEF expander_vars, ExpanderInv, InStream, IsSequence, StreamByte
<1>2. ASSUME UNCHANGED generator_vars PROVE GeneratorInv'
  BY <1>2 DEF generator_vars, GeneratorInv, Written, IsSequence
<1>3. CASE Expander!Next /\ UNCHANGED generator_vars
  BY <1>2, <1>3, ExpanderStep
<1>4. CASE Generator!Next /\ UNCHANGED expander_vars
  BY <1>1, <1>4, GeneratorStep
<1>5. CASE UNCHANGED vars
  BY <1>1, <1>2, <1>5 DEF vars
<1> QED
  BY <1>3, <1>4, <1>5 DEF Next

LEMMA Invariant == Spec => [](ExpanderInv /\ GeneratorInv)
<1>1. Init => ExpanderInv /\ GeneratorInv
  BY ExpanderInitStep, GeneratorInitStep DEF Init
<1> QED
  BY <1>1, Steps, PTL DEF Spec

(* However its requests cut up the stream, seedexpander gives the caller    *)
(* byte j of the one stream of its seed as byte j of what it returns, for   *)
(* blocks of every size: the buffer and buffer_pos lose and repeat nothing. *)
THEOREM Continues == Spec => []OneStream
<1>1. ExpanderInv => OneStream
  BY DEF ExpanderInv, StreamByte, OneStream, Expander!OneStream
<1> QED
  BY <1>1, Invariant, PTL

(* seedexpander never gives a byte more than the maxlen that                *)
(* seedexpander_init was told, and length_remaining is the rest to the byte. *)
THEOREM KeepsMaxLen == Spec => []MaxLenHolds
<1>1. ExpanderInv => MaxLenHolds
  <2> SUFFICES ASSUME ExpanderInv PROVE MaxLenHolds
    OBVIOUS
  <2>1. /\ Len(out) \in Nat /\ wanted \in Nat /\ ctx.length_remaining \in Nat
        /\ maxlen \in Nat /\ Len(out) + wanted + ctx.length_remaining = maxlen
    BY DEF ExpanderInv, IsSequence
  <2> QED
    BY <2>1 DEF MaxLenHolds, Expander!MaxLenHolds
<1> QED
  BY <1>1, Invariant, PTL

(* randombytes writes as many bytes as it was asked for, a number of blocks *)
(* or not: the last blocks that it put out, in order, none past the end.    *)
THEOREM Writes == Spec => []WritesRequested
<1>1. GeneratorInv => WritesRequested
  BY GeneratorServes
<1> QED
  BY <1>1, Invariant, PTL

-------------------------------------------------------------------------------
(* No block of randombytes comes twice.  A block is an encryption of the    *)
(* block before it, back to what the stack first held, and a key is made of *)
(* the key before it, back to the zeros of randombytes_init; so neither      *)
(* comes round again, and a block tells the key it was made by.              *)
Enc(k, b) == Generator!Encrypt(k, b)

Follows(k, l) ==
    \E y, z, u, v :
        \/ l = <<Enc(k, y), Enc(k, z)>>
        \/ l = <<Generator!Xor(Enc(k, y), u), Generator!Xor(Enc(k, z), v)>>

Keys(K, c) == K[0] = Generator!Zeros /\ \A i \in 1..c : Follows(K[i - 1], K[i])
Blocks(B, d) ==
    /\ \E s : B[0] = Generator!Stack(s)
    /\ \A i \in 1..d : \E k : B[i] = Enc(k, B[i - 1])

(* A value that such a history ends with. *)
Made(v) == \E C : \E e \in Nat : Blocks(C, e) /\ C[e] = v

LEMMA EncTells ==
    ASSUME NEW k, NEW b, NEW l, NEW e, Enc(k, b) = Enc(l, e)
    PROVE  k = l /\ b = e
BY DEF Enc, Generator!Encrypt

LEMMA FollowsTells ==
    ASSUME NEW k, NEW l, NEW m, Follows(k, m), Follows(l, m)
    PROVE  k = l
<1>1. ASSUME NEW y, NEW z, m = <<Enc(k, y), Enc(k, z)>> PROVE k = l
  <2>1. m[1] = <<"aes", k, y>>
    BY <1>1 DEF Enc, Generator!Encrypt
  <2>2. PICK a, b, u, v :
            \/ m = <<Enc(l, a), Enc(l, b)>>
            \/ m = <<Generator!Xor(Enc(l, a), u), Generator!Xor(Enc(l, b), v)>>
    BY DEF Follows
  <2>3. m[1] = <<"aes", l, a>> \/ m[1] = <<"xor", Enc(l, a), u>>
    BY <2>2 DEF Enc, Generator!Encrypt, Generator!Xor
  <2> QED
    BY <2>1, <2>3
<1>2. ASSUME NEW y, NEW z, NEW s, NEW t,
             m = <<Generator!Xor(Enc(k, y), s), Generator!Xor(Enc(k, z), t)>>
      PROVE  k = l
  <2>1. m[1] = <<"xor", Enc(k, y), s>>
    BY <1>2 DEF Generator!Xor
  <2>2. PICK a, b, u, v :
            \/ m = <<Enc(l, a), Enc(l, b)>>
            \/ m = <<Generator!Xor(Enc(l, a), u), Generator!Xor(Enc(l, b), v)>>
    BY DEF Follows
  <2>3. m[1] = <<"aes", l, a>> \/ m[1] = <<"xor", Enc(l, a), u>>
    BY <2>2 DEF Enc, Generator!Encrypt, Generator!Xor
  <2>4. Enc(k, y) = Enc(l, a)
    BY <2>1, <2>3
  <2> QED
    BY <2>4, EncTells
<1> QED
  BY <1>1, <1>2 DEF Follows

(* No key and no block of a history is that of an earlier moment. *)
LEMMA KeysDiffer ==
    ASSUME NEW K, NEW c \in Nat, Keys(K, c)
    PROVE  \A i, j \in 0..c : i < j => K[i] # K[j]
<1> DEFINE T == {i \in Nat : \A j \in 0..c : i < j => K[i] # K[j]}
<1>1. 0 \in T
  <2> SUFFICES ASSUME NEW j \in 1..c PROVE K[0] # K[j]
    OBVIOUS
  <2>1. K[0] = <<"zeros">> /\ Follows(K[j - 1], K[j])
    BY DEF Keys, Generator!Zeros
  <2>2. Len(K[j]) = 2
    BY <2>1 DEF Follows
  <2>3. Len(K[0]) = 1
    BY <2>1
  <2> QED
    BY <2>2, <2>3
<1>2. ASSUME NEW i \in T PROVE i + 1 \in T
  <2> SUFFICES ASSUME NEW j \in 0..c, i + 1 < j, K[i + 1] = K[j] PROVE FALSE
    OBVIOUS
  <2>1. i + 1 \in 1..c /\ j \in 1..c /\ (i + 1) - 1 = i /\ j - 1 \in 0..c /\ i < j - 1
    OBVIOUS
  <2>2. Follows(K[i], K[j]) /\ Follows(K[j - 1], K[j])
    BY <2>1 DEF Keys
  <2>3. K[i] = K[j - 1]
    BY <2>2, FollowsTells
  <2> QED
    BY <2>1, <2>3
<1>3. T \subseteq Nat
  OBVIOUS
<1>4. T = Nat
  <2> HIDE DEF T
  <2> QED
    BY <1>1, <1>2, <1>3, NatInd
<1> QED
  BY <1>4

LEMMA BlocksDiffer ==
    ASSUME NEW B, NEW d \in Nat, Blocks(B, d)
    PROVE  \A i, j \in 0..d : i < j => B[i] # B[j]
<1> DEFINE T == {i \in Nat : \A j \in 0..d : i < j => B[i] # B[j]}
<1>1. 0 \in T
  <2> SUFFICES ASSUME NEW j \in 1..d PROVE B[0] # B[j]
    OBVIOUS
  <2>1. (\E s : B[0] = <<"stack", s>>) /\ \E k : B[j] = Enc(k, B[j - 1])
    BY DEF Blocks, Generator!Stack
  <2>2. Len(B[j]) = 3
    BY <2>1 DEF Enc, Generator!Encrypt
  <2>3. Len(B[0]) = 2
    BY <2>1
  <2> QED
    BY <2>2, <2>3
<1>2. ASSUME NEW i \in T PROVE i + 1 \in T
  <2> SUFFICES ASSUME NEW j \in 0..d, i + 1 < j, B[i + 1] = B[j] PROVE FALSE
    OBVIOUS
  <2>1. i + 1 \in 1..d /\ j \in 1..d /\ (i + 1) - 1 = i /\ j - 1 \in 0..d /\ i < j - 1
    OBVIOUS
  <2>2. PICK k : B[i + 1] = Enc(k, B[(i + 1) - 1])
    BY <2>1 DEF Blocks
  <2>3. PICK l : B[j] = Enc(l, B[j - 1])
    BY <2>1 DEF Blocks
  <2>4. Enc(k, B[i]) = Enc(l, B[j - 1])
    BY <2>1, <2>2, <2>3
  <2>5. B[i] = B[j - 1]
    BY <2>4, EncTells
  <2> QED
    BY <2>1, <2>5
<1>3. T \subseteq Nat
  OBVIOUS
<1>4. T = Nat
  <2> HIDE DEF T
  <2> QED
    BY <1>1, <1>2, <1>3, NatInd
<1> QED
  BY <1>4

(* A history that goes on. *)
GoesOn(L, K, c, l) == L[c + 1] = l /\ \A i \in 0..c : L[i] = K[i]

LEMMA KeysGrow ==
    ASSUME NEW K, NEW c \in Nat, Keys(K, c), NEW l, Follows(K[c], l)
    PROVE  \E L : Keys(L, c + 1) /\ GoesOn(L, K, c, l)
<1> DEFINE L == [i \in 0..(c + 1) |-> IF i = c + 1 THEN l ELSE K[i]]
<1>1. L[c + 1] = l /\ \A i \in 0..c : L[i] = K[i]
  OBVIOUS
<1> HIDE DEF L
<1>2. Keys(L, c + 1)
  <2>1. ASSUME NEW i \in 1..(c + 1) PROVE Follows(L[i - 1], L[i])
    <3>1. CASE i = c + 1
      <4>1. i - 1 = c /\ c \in 0..c
        BY <3>1
      <4> QED
        BY <1>1, <3>1, <4>1
    <3>2. CASE i # c + 1
      <4>1. i \in 1..c /\ i \in 0..c /\ i - 1 \in 0..c
        BY <3>2
      <4> QED
        BY <1>1, <4>1 DEF Keys
    <3> QED
      BY <3>1, <3>2
  <2>2. L[0] = Generator!Zeros
    BY <1>1 DEF Keys
  <2> QED
    BY <2>1, <2>2 DEF Keys
<1> QED
  BY <1>1, <1>2 DEF GoesOn

LEMMA BlocksGrow ==
    ASSUME NEW B, NEW d \in Nat, Blocks(B, d), NEW k
    PROVE  \E C : Blocks(C, d + 1) /\ GoesOn(C, B, d, Enc(k, B[d]))
<1> DEFINE C == [i \in 0..(d + 1) |-> IF i = d + 1 THEN Enc(k, B[d]) ELSE B[i]]
<1>1. C[d + 1] = Enc(k, B[d]) /\ \A i \in 0..d : C[i] = B[i]
  OBVIOUS
<1> HIDE DEF C
<1>2. Blocks(C, d + 1)
  <2>1. ASSUME NEW i \in 1..(d + 1) PROVE \E l : C[i] = Enc(l, C[i - 1])
    <3>1. CASE i = d + 1
      <4>1. i - 1 = d /\ d \in 0..d
        BY <3>1
      <4> QED
        BY <1>1, <3>1, <4>1
    <3>2. CASE i # d + 1
      <4>1. i \in 1..d /\ i \in 0..d /\ i - 1 \in 0..d
        BY <3>2
      <4> QED
        BY <1>1, <4>1 DEF Blocks
    <3> QED
      BY <3>1, <3>2
  <2>2. C[0] = B[0]
    BY <1>1
  <2> QED
    BY <2>1, <2>2 DEF Blocks
<1> QED
  BY <1>1, <1>2 DEF GoesOn

(* The last n blocks that were put out are those of this call. *)
Drawn(K, c, B, d, n) ==
    /\ Keys(K, c) /\ K[c] = DRBG_ctx.Key
    /\ Blocks(B, d) /\ B[d] = block
    /\ n <= d /\ n <= Len(given)
    /\ \A j \in 1..(Len(given) - n) : \E i \in 0..(c - 1) : \E b : given[j] = Enc(K[i], b)
    /\ \A m \in 0..(n - 1) :
          given[Len(given) - m] = B[d - m] /\ \E b : B[d - m] = Enc(K[c], b)
    /\ filling = "ready" => n = 0

DrawnInv ==
    /\ IsSequence(given)
    /\ DOMAIN DRBG_ctx = {"Key", "V", "reseed_counter"}
    /\ Generator!NothingRepeats
    /\ \A j \in 1..Len(given) : Made(given[j])
    /\ \E K, B : \E c, d, n \in Nat : Drawn(K, c, B, d, n)

LEMMA UpdateLaw ==
    ASSUME NEW data, NEW c, DOMAIN c = {"Key", "V", "reseed_counter"}, NEW g
    PROVE  /\ DOMAIN Generator!Update(data, c, g) = {"Key", "V", "reseed_counter"}
           /\ Follows(c.Key, Generator!Update(data, c, g).Key)
<1> DEFINE V == [n \in 1..3 |-> [c.V EXCEPT !.added = @ + n]]
           Block(n) == Generator!Aes256Ecb(c.Key, V[n], <<g, n>>)
           temp == [n \in 1..3 |->
                      IF data = NULL THEN Block(n) ELSE Generator!Xor(Block(n), <<data, n>>)]
           u == [c EXCEPT !.Key = <<temp[1], temp[2]>>,
                          !.V = [block |-> temp[3], added |-> 0]]
<1>1. Generator!Update(data, c, g) = u
  BY DEF Generator!Update
<1>2. \A n \in 1..3 : Block(n) = Enc(c.Key, <<g, n>>)
  BY DEF Generator!Aes256Ecb, Enc
<1>3. \A n \in 1..3 : temp[n] = IF data = NULL THEN Enc(c.Key, <<g, n>>)
                                ELSE Generator!Xor(Enc(c.Key, <<g, n>>), <<data, n>>)
  BY <1>2
<1> HIDE DEF temp
<1>4. DOMAIN u = {"Key", "V", "reseed_counter"} /\ u.Key = <<temp[1], temp[2]>>
  OBVIOUS
<1>5. Follows(c.Key, <<temp[1], temp[2]>>)
  BY <1>3 DEF Follows
<1> QED
  BY <1>1, <1>4, <1>5

(* A block that the current call puts out was not put out before. *)
LEMMA DrawnBlock ==
    ASSUME DrawnInv, NEW K, NEW B, NEW c \in Nat, NEW d \in Nat, NEW n \in Nat,
           Drawn(K, c, B, d, n), NEW e, e = Enc(DRBG_ctx.Key, block)
    PROVE  \A j \in 1..Len(given) : given[j] # e
<1> SUFFICES ASSUME NEW j \in 1..Len(given), given[j] = e PROVE FALSE
  OBVIOUS
<1>1. Len(given) \in Nat /\ n <= Len(given) /\ n <= d /\ e = Enc(K[c], B[d])
  <2>1. Len(given) \in Nat
    BY DEF DrawnInv, IsSequence
  <2>2. K[c] = DRBG_ctx.Key /\ B[d] = block /\ n <= d /\ n <= Len(given)
    BY DEF Drawn
  <2> QED
    BY <2>1, <2>2
<1>2. CASE j <= Len(given) - n
  <2>1. PICK i \in 0..(c - 1) : \E b : given[j] = Enc(K[i], b)
    <3>1. j \in 1..(Len(given) - n)
      BY <1>1, <1>2
    <3> QED
      BY <3>1 DEF Drawn
  <2>2. K[i] = K[c]
    BY <1>1, <2>1, EncTells
  <2>3. i \in 0..c /\ c \in 0..c /\ i < c
    BY <2>1
  <2> QED
    BY <2>2, <2>3, KeysDiffer DEF Drawn
<1>3. CASE j > Len(given) - n
  <2> DEFINE m == Len(given) - j
  <2>1. m \in 0..(n - 1) /\ j = Len(given) - m
    BY <1>1, <1>3
  <2> HIDE DEF m
  <2>2. given[j] = B[d - m]
    BY <2>1 DEF Drawn
  <2>3. PICK C : Blocks(C, d + 1) /\ GoesOn(C, B, d, e)
    <3>1. Blocks(B, d)
      BY DEF Drawn
    <3> QED
      BY <1>1, <3>1, BlocksGrow
  <2>4. d - m \in 0..d /\ d - m \in 0..(d + 1) /\ d + 1 \in 0..(d + 1) /\ d - m < d + 1
    BY <1>1, <2>1
  <2>5. C[d - m] # C[d + 1]
    BY <2>3, <2>4, BlocksDiffer
  <2> QED
    BY <2>2, <2>3, <2>4, <2>5 DEF GoesOn
<1> QED
  BY <1>1, <1>2, <1>3

LEMMA StackBegins ==
    ASSUME NEW s
    PROVE  \E C : Blocks(C, 0) /\ C[0] = Generator!Stack(s)
<1> DEFINE C == [i \in 0..0 |-> Generator!Stack(s)]
<1>1. Blocks(C, 0) /\ C[0] = Generator!Stack(s)
  BY DEF Blocks
<1> HIDE DEF C
<1> QED
  BY <1>1

(* So what an array that was not written holds is the end of a history. *)
LEMMA UnwrittenMade ==
    ASSUME DrawnInv, NEW g \in Generator!Unwritten
    PROVE  Made(g)
<1>1. CASE g = block
  BY <1>1 DEF DrawnInv, Drawn, Made
<1>2. CASE \E s : g = Generator!Stack(s)
  <2>1. PICK s : g = Generator!Stack(s)
    BY <1>2
  <2> QED
    BY <2>1, StackBegins DEF Made
<1>3. CASE g \in Generator!ToSet(given)
  <2>1. PICK j \in DOMAIN given : g = given[j]
    BY <1>3 DEF Generator!ToSet
  <2>2. DOMAIN given = 1..Len(given)
    BY DEF DrawnInv, IsSequence
  <2> QED
    BY <2>1, <2>2 DEF DrawnInv
<1> QED
  BY <1>1, <1>2, <1>3 DEF Generator!Unwritten

LEMMA DrawnInit == Generator!Init => DrawnInv
<1> SUFFICES ASSUME Generator!Init PROVE DrawnInv
  OBVIOUS
<1>0. PICK s \in Contents : block = Generator!Stack(s)
  BY DEF Generator!Init
<1> DEFINE K == [i \in 0..0 |-> Generator!Zeros]
<1>1. given = <<>> /\ DRBG_ctx.Key = Generator!Zeros
      /\ DOMAIN DRBG_ctx = {"Key", "V", "reseed_counter"}
  BY DEF Generator!Init
<1>2. IsSequence(given) /\ Len(given) = 0 /\ Generator!NothingRepeats
  BY <1>1 DEF IsSequence, Generator!NothingRepeats
<1>3. Keys(K, 0) /\ K[0] = Generator!Zeros
  BY DEF Keys
<1> HIDE DEF K
<1>4. PICK B : Blocks(B, 0) /\ B[0] = block
  BY <1>0, StackBegins
<1>5. Drawn(K, 0, B, 0, 0)
  BY <1>1, <1>2, <1>3, <1>4 DEF Drawn
<1> QED
  BY <1>1, <1>2, <1>5 DEF DrawnInv

LEMMA DrawnStep == DrawnInv /\ Generator!Next => DrawnInv'
<1> SUFFICES ASSUME DrawnInv, Generator!Next PROVE DrawnInv'
  OBVIOUS
<1>1. PICK K, B : \E c, d, n \in Nat : Drawn(K, c, B, d, n)
  BY DEF DrawnInv
<1>2. PICK c \in Nat, d \in Nat, n \in Nat : Drawn(K, c, B, d, n)
  BY <1>1
<1>3. /\ Keys(K, c) /\ K[c] = DRBG_ctx.Key /\ Blocks(B, d) /\ B[d] = block
      /\ n <= d /\ n <= Len(given) /\ Len(given) \in Nat /\ IsSequence(given)
      /\ DOMAIN DRBG_ctx = {"Key", "V", "reseed_counter"} /\ Generator!NothingRepeats
  BY <1>2 DEF Drawn, DrawnInv, IsSequence
<1>4. CASE Generator!RandombytesInit
  <2> DEFINE fresh == [Key |-> Generator!Zeros,
                       V |-> [block |-> Generator!Zeros, added |-> 0],
                       reseed_counter |-> 1]
             Z == [i \in 0..0 |-> Generator!Zeros]
  <2>1. PICK data, g : DRBG_ctx' = Generator!Update(data, fresh, g)
    BY <1>4 DEF Generator!RandombytesInit
  <2>2. DOMAIN fresh = {"Key", "V", "reseed_counter"} /\ fresh.Key = Generator!Zeros
    OBVIOUS
  <2> HIDE DEF fresh
  <2>3. /\ DOMAIN DRBG_ctx' = {"Key", "V", "reseed_counter"}
        /\ Follows(Generator!Zeros, DRBG_ctx'.Key)
    BY <2>1, <2>2, UpdateLaw
  <2>4. Keys(Z, 0) /\ Z[0] = Generator!Zeros
    BY DEF Keys
  <2> HIDE DEF Z
  <2>5. PICK L : Keys(L, 0 + 1) /\ GoesOn(L, Z, 0, DRBG_ctx'.Key)
    BY <2>3, <2>4, KeysGrow
  <2>6. given' = <<>> /\ block' = block /\ filling' = filling
    BY <1>4 DEF Generator!RandombytesInit
  <2>7. IsSequence(given') /\ Len(given') = 0 /\ Generator!NothingRepeats'
    BY <2>6 DEF IsSequence, Generator!NothingRepeats
  <2>8. Drawn(L, 1, B, d, 0)'
    BY <1>3, <2>5, <2>6, <2>7 DEF Drawn, GoesOn
  <2> QED
    BY <2>3, <2>6, <2>7, <2>8 DEF DrawnInv, Made
<1>5. CASE Generator!Randombytes
  <2>1. /\ given' = given /\ DRBG_ctx' = DRBG_ctx /\ filling = "ready"
        /\ block' \in Generator!Unwritten
    BY <1>5 DEF Generator!Randombytes, Generator!NewCall
  <2>2. n = 0
    BY <1>2, <2>1 DEF Drawn
  <2>3. \E C : \E e \in Nat : Blocks(C, e) /\ C[e] = block'
    BY <2>1, UnwrittenMade DEF Made
  <2>4. PICK C : \E e \in Nat : Blocks(C, e) /\ C[e] = block'
    BY <2>3
  <2>5. PICK e \in Nat : Blocks(C, e) /\ C[e] = block'
    BY <2>4
  <2>6. Drawn(K, c, C, e, 0)'
    <3>1. \A j \in 1..(Len(given) - 0) : \E i \in 0..(c - 1) : \E b : given[j] = Enc(K[i], b)
      BY <1>2, <2>2 DEF Drawn
    <3> QED
      BY <1>3, <2>1, <2>5, <3>1 DEF Drawn
  <2> QED
    BY <1>3, <2>1, <2>6 DEF DrawnInv, Generator!NothingRepeats, Made
<1>6. CASE Generator!NextBlock
  <2>1. /\ given' = Append(given, block') /\ block' = Enc(DRBG_ctx.Key, block)
        /\ filling = "fill" /\ filling' = filling
    BY <1>6 DEF Generator!NextBlock, Generator!Aes256Ecb, Enc
  <2>2. DRBG_ctx'.Key = DRBG_ctx.Key /\ DOMAIN DRBG_ctx' = {"Key", "V", "reseed_counter"}
    BY <1>3, <1>6 DEF Generator!NextBlock
  <2>3. /\ IsSequence(given') /\ Len(given') = Len(given) + 1
        /\ \A k \in 1..Len(given) : given'[k] = given[k]
        /\ given'[Len(given) + 1] = block'
    BY <1>3, <2>1, Put
  <2>4. \A j \in 1..Len(given) : given[j] # block'
    BY <1>2, <2>1, DrawnBlock
  <2>5. Generator!NothingRepeats'
    <3> SUFFICES ASSUME NEW j \in 1..Len(given'), NEW k \in 1..Len(given'),
                        given'[j] = given'[k]
                 PROVE  j = k
      BY DEF Generator!NothingRepeats
    <3>1. CASE j = Len(given') \/ k = Len(given')
      BY <1>3, <2>3, <2>4, <3>1
    <3>2. CASE j # Len(given') /\ k # Len(given')
      <4>1. j \in 1..Len(given) /\ k \in 1..Len(given)
        BY <1>3, <2>3, <3>2
      <4>2. given[j] = given[k]
        BY <2>3, <4>1
      <4> QED
        BY <1>3, <4>1, <4>2 DEF Generator!NothingRepeats
    <3> QED
      BY <3>1, <3>2
  <2>6. PICK C : Blocks(C, d + 1) /\ GoesOn(C, B, d, block')
    BY <1>3, <2>1, BlocksGrow
  <2>7. Drawn(K, c, C, d + 1, n + 1)'
    <3>1. \A j \in 1..(Len(given') - (n + 1)) : \E i \in 0..(c - 1) : \E b : given'[j] = Enc(K[i], b)
      <4> SUFFICES ASSUME NEW j \in 1..(Len(given') - (n + 1))
                   PROVE  \E i \in 0..(c - 1) : \E b : given'[j] = Enc(K[i], b)
        OBVIOUS
      <4>1. j \in 1..(Len(given) - n) /\ j \in 1..Len(given)
        BY <1>3, <2>3
      <4>2. given'[j] = given[j]
        BY <2>3, <4>1
      <4>3. \E i \in 0..(c - 1) : \E b : given[j] = Enc(K[i], b)
        BY <1>2, <4>1 DEF Drawn
      <4> QED
        BY <4>2, <4>3
    <3>2. ASSUME NEW m \in 0..((n + 1) - 1)
          PROVE  /\ given'[Len(given') - m] = C[(d + 1) - m]
                 /\ \E b : C[(d + 1) - m] = Enc(K[c], b)
      <4>1. CASE m = 0
        <5>1. Len(given') - m = Len(given) + 1 /\ (d + 1) - m = d + 1
          BY <1>3, <2>3, <4>1
        <5> QED
          BY <1>3, <2>1, <2>3, <2>6, <5>1 DEF GoesOn
      <4>2. CASE m # 0
        <5> DEFINE l == m - 1
        <5>1. /\ l \in 0..(n - 1) /\ Len(given') - m = Len(given) - l
              /\ (d + 1) - m = d - l /\ Len(given) - l \in 1..Len(given) /\ d - l \in 0..d
          BY <1>3, <2>3, <4>2
        <5> HIDE DEF l
        <5>2. given[Len(given) - l] = B[d - l]
          BY <1>2, <5>1 DEF Drawn
        <5>3. \E b : B[d - l] = Enc(K[c], b)
          BY <1>2, <5>1 DEF Drawn
        <5>4. given'[Len(given) - l] = given[Len(given) - l] /\ C[d - l] = B[d - l]
          BY <2>3, <2>6, <5>1 DEF GoesOn
        <5> QED
          BY <5>1, <5>2, <5>3, <5>4
      <4> QED
        BY <4>1, <4>2
    <3>3. n + 1 <= d + 1 /\ n + 1 <= Len(given')
      BY <1>3, <2>3
    <3>4. filling' # "ready"
      BY <2>1
    <3>5. K[c] = DRBG_ctx'.Key
      BY <1>3, <2>2
    <3> QED
      BY <1>3, <2>6, <3>1, <3>2, <3>3, <3>4, <3>5 DEF Drawn, GoesOn
  <2>8. \A j \in 1..Len(given') : Made(given'[j])
    <3> SUFFICES ASSUME NEW j \in 1..Len(given') PROVE Made(given'[j])
      OBVIOUS
    <3>1. CASE j = Len(given) + 1
      <4>1. given'[j] = C[d + 1] /\ d + 1 \in Nat
        BY <2>3, <2>6, <3>1 DEF GoesOn
      <4> QED
        BY <2>6, <4>1 DEF Made
    <3>2. CASE j # Len(given) + 1
      <4>1. j \in 1..Len(given)
        BY <1>3, <2>3, <3>2
      <4>2. Made(given[j])
        BY <4>1 DEF DrawnInv
      <4> QED
        BY <2>3, <4>1, <4>2
    <3> QED
      BY <3>1, <3>2
  <2> QED
    BY <2>2, <2>3, <2>5, <2>7, <2>8 DEF DrawnInv, Made
<1>7. CASE Generator!Return
  <2>1. given' = given /\ block' = block
    BY <1>7 DEF Generator!Return
  <2>2. PICK g : DRBG_ctx' = Generator!AfterCall(DRBG_ctx, g)
    BY <1>7 DEF Generator!Return
  <2>3. /\ DOMAIN DRBG_ctx' = {"Key", "V", "reseed_counter"}
        /\ Follows(DRBG_ctx.Key, DRBG_ctx'.Key)
    <3> DEFINE u == Generator!Update(NULL, DRBG_ctx, g)
    <3>1. DOMAIN u = {"Key", "V", "reseed_counter"} /\ Follows(DRBG_ctx.Key, u.Key)
      BY <1>3, UpdateLaw
    <3>2. DRBG_ctx' = [u EXCEPT !.reseed_counter = @ + 1]
      BY <2>2 DEF Generator!AfterCall
    <3> HIDE DEF u
    <3>3. DOMAIN DRBG_ctx' = DOMAIN u /\ DRBG_ctx'.Key = u.Key
      BY <3>1, <3>2
    <3> QED
      BY <3>1, <3>3
  <2>4. PICK L : Keys(L, c + 1) /\ GoesOn(L, K, c, DRBG_ctx'.Key)
    BY <1>3, <2>3, KeysGrow
  <2>5. \A j \in 1..(Len(given) - 0) : \E i \in 0..((c + 1) - 1) : \E b : given[j] = Enc(L[i], b)
    <3> SUFFICES ASSUME NEW j \in 1..Len(given) PROVE \E i \in 0..c : \E b : given[j] = Enc(L[i], b)
      BY <1>3
    <3>1. CASE j <= Len(given) - n
      <4>1. j \in 1..(Len(given) - n)
        BY <1>3, <3>1
      <4>2. PICK i \in 0..(c - 1) : \E b : given[j] = Enc(K[i], b)
        BY <1>2, <4>1 DEF Drawn
      <4>3. i \in 0..c /\ L[i] = K[i]
        BY <2>4, <4>2 DEF GoesOn
      <4> QED
        BY <4>2, <4>3
    <3>2. CASE j > Len(given) - n
      <4> DEFINE m == Len(given) - j
      <4>1. m \in 0..(n - 1) /\ j = Len(given) - m
        BY <1>3, <3>2
      <4> HIDE DEF m
      <4>2. given[j] = B[d - m]
        BY <1>2, <4>1 DEF Drawn
      <4>3. \E b : B[d - m] = Enc(K[c], b)
        BY <1>2, <4>1 DEF Drawn
      <4>4. c \in 0..c /\ L[c] = K[c]
        BY <2>4 DEF GoesOn
      <4> QED
        BY <4>2, <4>3, <4>4
    <3> QED
      BY <1>3, <3>1, <3>2
  <2>6. Drawn(L, c + 1, B, d, 0)'
    BY <1>3, <2>1, <2>4, <2>5 DEF Drawn, GoesOn
  <2> QED
    BY <1>3, <2>1, <2>3, <2>6 DEF DrawnInv, Generator!NothingRepeats, Made
<1> QED
  BY <1>4, <1>5, <1>6, <1>7 DEF Generator!Next

(* randombytes puts out no block twice under one seed: not within a call,   *)
(* although each block is made of the one before it and not of the counter, *)
(* and not in two calls, although each may find on its stack what the other *)
(* found there or put out; for any number of calls of any length.           *)
THEOREM NeverRepeats == Spec => []NothingRepeats
<1>1. Init => DrawnInv
  BY DrawnInit DEF Init
<1>2. DrawnInv /\ [Next]_vars => DrawnInv'
  <2> SUFFICES ASSUME DrawnInv, [Next]_vars PROVE DrawnInv'
    OBVIOUS
  <2>1. CASE UNCHANGED generator_vars
    <3>1. /\ DRBG_ctx' = DRBG_ctx /\ given' = given
          /\ block' = block /\ filling' = filling
      BY <2>1 DEF generator_vars
    <3>2. PICK K, B : \E c, d, n \in Nat : Drawn(K, c, B, d, n)
      BY DEF DrawnInv
    <3>3. PICK c \in Nat, d \in Nat, n \in Nat : Drawn(K, c, B, d, n)
      BY <3>2
    <3>4. Drawn(K, c, B, d, n)'
      BY <3>1, <3>3 DEF Drawn
    <3>5. /\ IsSequence(given) /\ Generator!NothingRepeats
          /\ \A j \in 1..Len(given) : Made(given[j])
          /\ DOMAIN DRBG_ctx = {"Key", "V", "reseed_counter"}
      BY DEF DrawnInv
    <3>6. /\ IsSequence(given') /\ Generator!NothingRepeats'
          /\ \A j \in 1..Len(given') : Made(given'[j])
          /\ DOMAIN DRBG_ctx' = {"Key", "V", "reseed_counter"}
      BY <3>1, <3>5 DEF Generator!NothingRepeats, Made
    <3> QED
      BY <3>4, <3>6 DEF DrawnInv, Made
  <2> QED
    BY <2>1, DrawnStep DEF Next, vars
<1>3. DrawnInv => NothingRepeats
  BY DEF DrawnInv, NothingRepeats
<1> QED
  BY <1>1, <1>2, <1>3, PTL DEF Spec

-------------------------------------------------------------------------------
(* The counter of seedexpander.  Its bytes, as digits, spell a number.      *)
Digits(c) == c \in [1..CtrBytes -> 0..(ByteValues - 1)]
Number(c, n) == Expander!Spelled(c)[n]

LEMMA SpelledExists ==
    ASSUME NEW f
    PROVE  \A m \in Nat : \E h : h = [n \in 0..m |->
               IF n = 0 THEN 0 ELSE h[n - 1] * ByteValues + f[n]]
<1> DEFINE E(b, n) == b * ByteValues + f[n]
           IsPart(h, m) == h = [n \in 0..m |-> IF n = 0 THEN 0 ELSE E(h[n - 1], n)]
           T == {m \in Nat : \E h : IsPart(h, m)}
<1> HIDE DEF E
<1>1. 0 \in T
  <2>1. IsPart([n \in 0..0 |-> 0], 0)
    OBVIOUS
  <2> HIDE DEF IsPart
  <2> QED
    BY <2>1
<1>2. ASSUME NEW m \in T PROVE m + 1 \in T
  <2>1. PICK h : IsPart(h, m)
    OBVIOUS
  <2> DEFINE g == [n \in 0..(m + 1) |-> IF n = m + 1 THEN E(h[m], m + 1) ELSE h[n]]
  <2>2. \A n \in 0..(m + 1) : g[n] = IF n = 0 THEN 0 ELSE E(g[n - 1], n)
    <3> SUFFICES ASSUME NEW n \in 0..(m + 1)
                 PROVE  g[n] = IF n = 0 THEN 0 ELSE E(g[n - 1], n)
      OBVIOUS
    <3>1. m \in Nat
      OBVIOUS
    <3>2. CASE n = m + 1
      BY <3>1, <3>2
    <3>3. CASE n # m + 1
      <4>1. n \in 0..m /\ g[n] = h[n] /\ (n # 0 => g[n - 1] = h[n - 1])
        BY <3>1, <3>3
      <4>2. h[n] = IF n = 0 THEN 0 ELSE E(h[n - 1], n)
        BY <2>1, <4>1
      <4> QED
        BY <4>1, <4>2
    <3> QED
      BY <3>2, <3>3
  <2>3. IsPart(g, m + 1)
    <3>1. g = [n \in 0..(m + 1) |-> g[n]]
      OBVIOUS
    <3> HIDE DEF g
    <3> QED
      BY <2>2, <3>1
  <2>4. m + 1 \in Nat
    OBVIOUS
  <2> HIDE DEF IsPart
  <2> QED
    BY <2>3, <2>4
<1>3. T \subseteq Nat
  OBVIOUS
<1>4. T = Nat
  <2> HIDE DEF T
  <2> QED
    BY <1>1, <1>2, <1>3, NatInd
<1> QED
  BY <1>4 DEF E

LEMMA NumberLaw ==
    ASSUME NEW f
    PROVE  /\ Number(f, 0) = 0
           /\ \A n \in 1..CtrBytes : Number(f, n) = Number(f, n - 1) * ByteValues + f[n]
<1> DEFINE IsAll(h) == h = [n \in 0..CtrBytes |->
                               IF n = 0 THEN 0 ELSE h[n - 1] * ByteValues + f[n]]
           S == Expander!Spelled(f)
<1>1. \E h : IsAll(h)
  BY SpelledExists, CtrAssumption
<1>2. S = CHOOSE h : IsAll(h)
  BY DEF Expander!Spelled
<1>3. IsAll(S)
  <2> HIDE DEF IsAll, S
  <2> QED
    BY <1>1, <1>2
<1> HIDE DEF S
<1>4. S[0] = 0
  BY <1>3, CtrAssumption
<1>5. ASSUME NEW n \in 1..CtrBytes PROVE S[n] = S[n - 1] * ByteValues + f[n]
  <2>1. n \in 0..CtrBytes /\ n # 0
    BY CtrAssumption
  <2> QED
    BY <1>3, <2>1
<1> QED
  BY <1>4, <1>5 DEF Number, S

(* Of no digits more than of all of the largest. *)
Nines == [n \in 1..CtrBytes |-> ByteValues - 1]

LEMMA NumberRange ==
    ASSUME NEW c, Digits(c)
    PROVE  \A n \in 0..CtrBytes : /\ Number(c, n) \in Nat /\ Number(Nines, n) \in Nat
                                  /\ Number(c, n) <= Number(Nines, n)
<1> DEFINE T == {n \in Nat : n <= CtrBytes =>
                    /\ Number(c, n) \in Nat /\ Number(Nines, n) \in Nat
                    /\ Number(c, n) <= Number(Nines, n)}
<1>1. 0 \in T
  BY NumberLaw
<1>2. ASSUME NEW n \in T PROVE n + 1 \in T
  <2> SUFFICES ASSUME n + 1 <= CtrBytes
               PROVE  /\ Number(c, n + 1) \in Nat /\ Number(Nines, n + 1) \in Nat
                      /\ Number(c, n + 1) <= Number(Nines, n + 1)
    OBVIOUS
  <2> DEFINE a == Number(c, n)
             b == Number(Nines, n)
  <2>1. n \in Nat /\ n + 1 \in 1..CtrBytes /\ (n + 1) - 1 = n /\ CtrBytes \in Nat
        /\ ByteValues \in Nat \ {0}
    BY CtrAssumption
  <2>2. a \in Nat /\ b \in Nat /\ a <= b
    BY <2>1
  <2>3. c[n + 1] \in 0..(ByteValues - 1) /\ Nines[n + 1] = ByteValues - 1
    BY <2>1 DEF Digits, Nines
  <2>4. /\ Number(c, n + 1) = a * ByteValues + c[n + 1]
        /\ Number(Nines, n + 1) = b * ByteValues + Nines[n + 1]
    BY <2>1, NumberLaw
  <2> HIDE DEF a, b
  <2>5. a * ByteValues \in Nat /\ b * ByteValues \in Nat /\ a * ByteValues <= b * ByteValues
    BY <2>1, <2>2
  <2> QED
    BY <2>1, <2>3, <2>4, <2>5
<1>3. T \subseteq Nat
  OBVIOUS
<1>4. T = Nat
  <2> HIDE DEF T
  <2> QED
    BY <1>1, <1>2, <1>3, NatInd
<1> QED
  BY <1>4, CtrAssumption

(* Incrementing byte by byte adds one to the first n bytes if all that are  *)
(* behind them carry, and nothing otherwise.                               *)
Carries(c, n) == \A k \in (n + 1)..CtrBytes : c[k] = ByteValues - 1
Succ(a, max) == IF a = max THEN 0 ELSE a + 1

LEMMA IncrementedLaw ==
    ASSUME NEW c, Digits(c)
    PROVE  /\ Digits(Expander!Incremented(c))
           /\ \A n \in 1..CtrBytes : Expander!Incremented(c)[n] =
                 IF ~Carries(c, n) THEN c[n]
                 ELSE IF c[n] = ByteValues - 1 THEN 0 ELSE c[n] + 1
<1> DEFINE e == Expander!Incremented(c)
<1>1. \A n \in 1..CtrBytes : e[n] = IF Carries(c, n) THEN (c[n] + 1) % ByteValues ELSE c[n]
  BY DEF Expander!Incremented, Carries
<1>2. \A w \in 0..(ByteValues - 1) :
          (w + 1) % ByteValues = IF w = ByteValues - 1 THEN 0 ELSE w + 1
  BY CtrAssumption
<1>3. \A n \in 1..CtrBytes : c[n] \in 0..(ByteValues - 1)
  BY DEF Digits
<1>4. e = [n \in 1..CtrBytes |-> e[n]]
  BY DEF Expander!Incremented
<1> HIDE DEF e
<1>5. \A n \in 1..CtrBytes : e[n] = IF ~Carries(c, n) THEN c[n]
                                   ELSE IF c[n] = ByteValues - 1 THEN 0 ELSE c[n] + 1
  BY <1>1, <1>2, <1>3
<1>6. \A n \in 1..CtrBytes : e[n] \in 0..(ByteValues - 1)
  BY <1>3, <1>5, CtrAssumption
<1>7. Digits(e)
  BY <1>4, <1>6 DEF Digits
<1> QED
  BY <1>5, <1>7 DEF e

LEMMA CountsOn ==
    ASSUME NEW c, Digits(c)
    PROVE  Expander!Counted(Expander!Incremented(c))
               = Succ(Expander!Counted(c), Expander!Largest)
<1> DEFINE e == Expander!Incremented(c)
           Next1(n) == Number(e, n) = IF Carries(c, n) THEN Succ(Number(c, n), Number(Nines, n))
                                      ELSE Number(c, n)
           T == {n \in Nat : n <= CtrBytes => Next1(n)}
<1>0. /\ Digits(e)
      /\ \A n \in 1..CtrBytes : e[n] = IF ~Carries(c, n) THEN c[n]
                                       ELSE IF c[n] = ByteValues - 1 THEN 0 ELSE c[n] + 1
  BY IncrementedLaw
<1> HIDE DEF e
<1>1. 0 \in T
  BY NumberLaw DEF Succ
<1>2. ASSUME NEW n \in T PROVE n + 1 \in T
  <2> SUFFICES ASSUME n + 1 <= CtrBytes PROVE Next1(n + 1)
    OBVIOUS
  <2> DEFINE a == Number(c, n)
             z == Number(Nines, n)
             w == c[n + 1]
             y == Number(e, n)
  <2>1. /\ n \in Nat /\ n + 1 \in 1..CtrBytes /\ n \in 0..CtrBytes /\ (n + 1) - 1 = n
        /\ CtrBytes \in Nat /\ ByteValues \in Nat \ {0}
    BY CtrAssumption
  <2>2. a \in Nat /\ z \in Nat /\ a <= z
    BY <2>1, NumberRange
  <2>3. w \in 0..(ByteValues - 1) /\ Nines[n + 1] = ByteValues - 1
    BY <2>1 DEF Digits, Nines
  <2>4. /\ Number(c, n + 1) = a * ByteValues + w
        /\ Number(Nines, n + 1) = z * ByteValues + (ByteValues - 1)
        /\ Number(e, n + 1) = y * ByteValues + e[n + 1]
    BY <2>1, <2>3, NumberLaw
  <2>5. y = IF Carries(c, n) THEN Succ(a, z) ELSE a
    BY <2>1
  <2>6. Carries(c, n) <=> Carries(c, n + 1) /\ w = ByteValues - 1
    <3>1. \A k : k \in (n + 1)..CtrBytes <=> k = n + 1 \/ k \in ((n + 1) + 1)..CtrBytes
      BY <2>1
    <3> QED
      BY <3>1 DEF Carries
  <2> HIDE DEF a, z, w, y
  <2>7. /\ a * ByteValues \in Nat /\ z * ByteValues \in Nat
        /\ (a + 1) * ByteValues = a * ByteValues + ByteValues /\ 0 * ByteValues = 0
        /\ a # z => a * ByteValues + ByteValues <= z * ByteValues
    <3>1. a * ByteValues \in Nat /\ z * ByteValues \in Nat /\ 0 * ByteValues = 0
          /\ (a + 1) * ByteValues = a * ByteValues + ByteValues
      BY <2>1, <2>2
    <3>2. ASSUME a # z PROVE a * ByteValues + ByteValues <= z * ByteValues
      <4>1. a + 1 <= z /\ a + 1 \in Nat
        BY <2>2, <3>2
      <4>2. (a + 1) * ByteValues <= z * ByteValues
        BY <2>1, <2>2, <4>1
      <4> QED
        BY <3>1, <4>2
    <3> QED
      BY <3>1, <3>2
  <2>8. CASE ~Carries(c, n + 1)
    <3>1. y = a /\ e[n + 1] = w
      BY <1>0, <2>1, <2>5, <2>6, <2>8 DEF w
    <3> QED
      BY <2>4, <2>8, <3>1
  <2>9. CASE Carries(c, n + 1) /\ w = ByteValues - 1
    <3>1. y = Succ(a, z) /\ e[n + 1] = 0
      BY <1>0, <2>1, <2>5, <2>6, <2>9 DEF w
    <3>2. CASE a = z
      <4>1. y = 0
        BY <3>1, <3>2 DEF Succ
      <4>2. Number(e, n + 1) = 0 /\ Number(c, n + 1) = Number(Nines, n + 1)
        BY <2>4, <2>7, <2>9, <3>1, <3>2, <4>1
      <4> QED
        BY <2>9, <4>2 DEF Succ
    <3>3. CASE a # z
      <4>1. y = a + 1
        BY <3>1, <3>3 DEF Succ
      <4> DEFINE A == a * ByteValues
                 Z == z * ByteValues
      <4>2. Number(e, n + 1) = A + ByteValues
        <5>1. (a + 1) * ByteValues = A + ByteValues /\ A + ByteValues \in Nat
          BY <2>1, <2>7
        <5> QED
          BY <2>4, <3>1, <4>1, <5>1
      <4>3. Number(c, n + 1) = A + (ByteValues - 1) /\ Number(Nines, n + 1) = Z + (ByteValues - 1)
        BY <2>4, <2>9
      <4>4. A \in Nat /\ Z \in Nat /\ A + ByteValues <= Z
        BY <2>7, <3>3
      <4> HIDE DEF A, Z
      <4>5. Number(c, n + 1) # Number(Nines, n + 1) /\ Number(e, n + 1) = Number(c, n + 1) + 1
        BY <2>1, <4>2, <4>3, <4>4
      <4> QED
        BY <2>9, <4>5 DEF Succ
    <3> QED
      BY <3>2, <3>3
  <2>10. CASE Carries(c, n + 1) /\ w # ByteValues - 1
    <3>1. y = a /\ e[n + 1] = w + 1
      BY <1>0, <2>1, <2>5, <2>6, <2>10 DEF w
    <3> DEFINE A == a * ByteValues
               Z == z * ByteValues
    <3>2. /\ Number(e, n + 1) = A + (w + 1) /\ Number(c, n + 1) = A + w
          /\ Number(Nines, n + 1) = Z + (ByteValues - 1)
      BY <2>4, <3>1
    <3>3. A \in Nat /\ Z \in Nat /\ A <= Z
      BY <2>1, <2>2, <2>7
    <3> HIDE DEF A, Z
    <3>4. Number(c, n + 1) # Number(Nines, n + 1) /\ Number(e, n + 1) = Number(c, n + 1) + 1
      BY <2>1, <2>3, <2>10, <3>2, <3>3
    <3> QED
      BY <2>10, <3>4 DEF Succ
  <2> QED
    BY <2>8, <2>9, <2>10
<1>3. T \subseteq Nat
  OBVIOUS
<1>4. T = Nat
  <2> HIDE DEF T
  <2> QED
    BY <1>1, <1>2, <1>3, NatInd
<1>5. Next1(CtrBytes) /\ Carries(c, CtrBytes)
  BY <1>4, CtrAssumption DEF Carries
<1> QED
  BY <1>5 DEF e, Number, Nines, Expander!Counted, Expander!Largest

(* seedexpander has filled its buffer as often as its counter says.         *)
Fills == (Len(out) + BlockBytes - ctx.buffer_pos) \div BlockBytes

Round == Expander!Largest + 1

CounterInv ==
    /\ Digits(ctx.ctr)
    /\ Expander!Counted(ctx.ctr) = Fills % Round

LEMMA RoundType == Expander!Largest \in Nat /\ Round \in Nat \ {0}
<1>1. Digits(Nines) /\ CtrBytes \in 0..CtrBytes
  BY CtrAssumption DEF Digits, Nines
<1>2. Number(Nines, CtrBytes) \in Nat
  BY <1>1, NumberRange
<1> QED
  BY <1>2 DEF Round, Number, Nines, Expander!Counted, Expander!Largest

LEMMA ZerosCount ==
    ASSUME NEW c, c = [n \in 1..CtrBytes |-> 0]
    PROVE  Digits(c) /\ Expander!Counted(c) = 0
<1> DEFINE T == {n \in Nat : n <= CtrBytes => Number(c, n) = 0}
<1>1. 0 \in T
  BY NumberLaw
<1>2. ASSUME NEW n \in T PROVE n + 1 \in T
  <2> SUFFICES ASSUME n + 1 <= CtrBytes PROVE Number(c, n + 1) = 0
    OBVIOUS
  <2>1. n \in Nat /\ n + 1 \in 1..CtrBytes /\ (n + 1) - 1 = n /\ n <= CtrBytes
    BY CtrAssumption
  <2>2. Number(c, n) = 0 /\ c[n + 1] = 0
    BY <2>1
  <2>3. Number(c, n + 1) = Number(c, n) * ByteValues + c[n + 1]
    BY <2>1, NumberLaw
  <2> QED
    BY <2>2, <2>3, CtrAssumption
<1>3. T \subseteq Nat
  OBVIOUS
<1>4. T = Nat
  <2> HIDE DEF T
  <2> QED
    BY <1>1, <1>2, <1>3, NatInd
<1>5. Number(c, CtrBytes) = 0
  BY <1>4, CtrAssumption
<1>6. Digits(c)
  BY CtrAssumption DEF Digits
<1> QED
  BY <1>5, <1>6 DEF Number, Expander!Counted

LEMMA Remainder ==
    ASSUME NEW p \in Nat \ {0}, NEW q \in Nat, NEW r \in 0..(p - 1)
    PROVE  (p * q + r) % p = r
<1> DEFINE m == p * q + r
           d == m \div p
           e == m % p
<1>1. p * q \in Nat /\ m \in Nat
  OBVIOUS
<1>2. d \in Int /\ e \in 0..(p - 1) /\ m = p * d + e
  BY <1>1
<1> HIDE DEF d, e
<1>3. p * (d - q) = r - e
  <2>1. p * (d - q) = p * d - p * q
    BY <1>1, <1>2
  <2> QED
    BY <1>1, <1>2, <2>1
<1>4. d - q = 0
  <2>1. CASE d - q >= 1
    <3>1. p * (d - q) >= p
      BY <1>1, <1>2, <2>1
    <3> QED
      BY <1>1, <1>2, <1>3, <3>1
  <2>2. CASE d - q <= -1
    <3>1. p * (d - q) <= -p
      BY <1>1, <1>2, <2>2
    <3> QED
      BY <1>1, <1>2, <1>3, <3>1
  <2> QED
    BY <1>2, <2>1, <2>2
<1>5. e = r
  BY <1>1, <1>2, <1>3, <1>4
<1> QED
  BY <1>5 DEF e

(* Once more round the counter. *)
LEMMA RoundLaw ==
    ASSUME NEW b \in Nat
    PROVE  (b + 1) % Round = Succ(b % Round, Expander!Largest) /\ 0 % Round = 0
<1> DEFINE m == b % Round
           q == b \div Round
<1>1. Round \in Nat \ {0} /\ Expander!Largest = Round - 1
  BY RoundType DEF Round
<1> HIDE DEF Round
<1>2. m \in 0..(Round - 1) /\ q \in Nat /\ b = Round * q + m
  BY <1>1
<1>3. 0 % Round = 0
  BY <1>1
<1> HIDE DEF m, q
<1>4. CASE m = Round - 1
  <2>1. b + 1 = Round * (q + 1)
    <3>1. Round * (q + 1) = Round * q + Round /\ Round * q \in Nat
      BY <1>1, <1>2
    <3> QED
      BY <1>1, <1>2, <1>4, <3>1
  <2>2. (Round * (q + 1)) % Round = 0
    BY <1>1, <1>2, Remainder
  <2> QED
    BY <1>1, <1>3, <1>4, <2>1, <2>2 DEF Succ, m
<1>5. CASE m # Round - 1
  <2>1. m + 1 \in 0..(Round - 1) /\ b + 1 = Round * q + (m + 1)
    <3>1. Round * q \in Nat
      BY <1>1, <1>2
    <3> QED
      BY <1>1, <1>2, <1>5, <3>1
  <2>2. (Round * q + (m + 1)) % Round = m + 1
    BY <1>1, <1>2, <2>1, Remainder
  <2> QED
    BY <1>1, <1>3, <1>5, <2>1, <2>2 DEF Succ, m
<1> QED
  BY <1>4, <1>5

LEMMA FillsLaw ==
    ASSUME ExpanderInv, NEW b \in Nat, InStream(b)
    PROVE  Fills = b
<1>1. b * BlockBytes \in Nat /\ BlockBytes \in Nat /\ 0 < BlockBytes
  BY SizesAssumption
<1>2. Len(out) \in Nat /\ ctx.buffer_pos \in Nat
  BY SizesAssumption DEF ExpanderInv, IsSequence
<1>3. Len(out) + BlockBytes = b * BlockBytes + ctx.buffer_pos
  BY DEF InStream
<1>4. Len(out) + BlockBytes - ctx.buffer_pos = b * BlockBytes + 0
  BY <1>1, <1>2, <1>3
<1>5. (b * BlockBytes + 0) \div BlockBytes = b
  BY <1>1, Position
<1> QED
  BY <1>4, <1>5 DEF Fills

LEMMA CounterStart ==
    ASSUME NEW s, NEW d, NEW len, NEW new, new = Expander!Fresh(s, d, len)
    PROVE  /\ Digits(new.ctr) /\ Expander!Counted(new.ctr) = 0
           /\ (Len(<<>>) + BlockBytes - new.buffer_pos) \div BlockBytes = 0
<1>1. new.ctr = [n \in 1..CtrBytes |-> 0] /\ new.buffer_pos = BlockBytes
  BY DEF Expander!Fresh
<1>2. Digits(new.ctr) /\ Expander!Counted(new.ctr) = 0
  BY <1>1, ZerosCount
<1>3. (Len(<<>>) + BlockBytes - new.buffer_pos) \div BlockBytes = 0
  <2>1. Len(<<>>) + BlockBytes - new.buffer_pos = 0 * BlockBytes + 0
    BY <1>1, SizesAssumption
  <2>2. (0 * BlockBytes + 0) \div BlockBytes = 0
    BY SizesAssumption, Position
  <2> QED
    BY <2>1, <2>2
<1> QED
  BY <1>2, <1>3

LEMMA CounterStep == ExpanderInv /\ CounterInv /\ Expander!Next => CounterInv'
<1> SUFFICES ASSUME ExpanderInv, CounterInv, Expander!Next PROVE CounterInv'
  OBVIOUS
<1> USE SizesAssumption
<1>0. /\ wanted \in Nat /\ Len(out) \in Nat /\ ctx.buffer_pos \in 0..BlockBytes
      /\ DOMAIN ctx = {"buffer", "buffer_pos", "length_remaining", "key", "nonce", "ctr"}
      /\ ctx = [f \in DOMAIN ctx |-> ctx[f]]
  BY DEF ExpanderInv, IsSequence
<1>1. CASE Expander!SeedExpanderInit
  <2>1. PICK s \in Seeds, d \in Diversifiers, len \in MaxLens :
            ctx' = Expander!Fresh(s, d, len) /\ maxlen' = len
    BY <1>1 DEF Expander!SeedExpanderInit
  <2>2. out' = <<>>
    BY <1>1 DEF Expander!SeedExpanderInit
  <2>3. Digits(ctx'.ctr) /\ Expander!Counted(ctx'.ctr) = 0 /\ Fills' = 0
    BY <2>1, <2>2, CounterStart DEF Fills
  <2>4. 0 % Round = 0
    BY RoundLaw
  <2> QED
    BY <2>3, <2>4 DEF CounterInv, Round
<1>2. CASE Expander!SeedExpander
  <2>1. ctx'.ctr = ctx.ctr /\ ctx'.buffer_pos = ctx.buffer_pos /\ out' = out
    BY <1>0, <1>2 DEF Expander!SeedExpander
  <2> QED
    BY <2>1 DEF CounterInv, Fills
<1>3. CASE Expander!TakeAll
  <2>1. PICK b \in Nat : InStream(b)
    BY DEF ExpanderInv
  <2>2. /\ wanted <= Expander!Left
        /\ out' = out \o Expander!Taken(wanted)
        /\ ctx' = [ctx EXCEPT !.buffer_pos = ctx.buffer_pos + wanted]
    BY <1>3 DEF Expander!TakeAll, Expander!PosAfter
  <2>3. Len(out') = Len(out) + wanted
    BY <1>0, <2>1, <2>2, Takes
  <2>4. ctx'.ctr = ctx.ctr /\ ctx'.buffer_pos = ctx.buffer_pos + wanted
    BY <1>0, <2>2
  <2>5. Len(out') + BlockBytes - ctx'.buffer_pos = Len(out) + BlockBytes - ctx.buffer_pos
    BY <1>0, <2>3, <2>4
  <2> QED
    BY <2>4, <2>5 DEF CounterInv, Fills
<1>4. CASE Expander!Refill
  <2>1. PICK b \in Nat : InStream(b)
    BY DEF ExpanderInv
  <2>2. out' = out \o Expander!Taken(Expander!Left)
    BY <1>4 DEF Expander!Refill
  <2>3. ctx'.ctr = Expander!Incremented(ctx.ctr) /\ ctx'.buffer_pos = 0
    BY <1>0, <1>4 DEF Expander!Refill
  <2>4. Len(out') = Len(out) + (BlockBytes - ctx.buffer_pos)
    <3>1. PICK n : n = Expander!Left
      OBVIOUS
    <3>2. n \in Nat /\ n = BlockBytes - ctx.buffer_pos
      BY <1>0, <3>1 DEF Expander!Left
    <3>3. n <= Expander!Left /\ out' = out \o Expander!Taken(n)
      BY <2>2, <3>1, <3>2
    <3>4. Len(out') = Len(out) + n
      BY <2>1, <3>2, <3>3, Takes
    <3> QED
      BY <3>2, <3>4
  <2>5. Fills = b
    BY <2>1, FillsLaw
  <2>6. Fills' = b + 1
    <3> DEFINE P == b * BlockBytes
               Q == (b + 1) * BlockBytes
    <3>1. P \in Nat /\ Q = P + BlockBytes /\ Len(out) + BlockBytes = P + ctx.buffer_pos
      BY <2>1 DEF InStream
    <3> HIDE DEF P, Q
    <3>2. Len(out') + BlockBytes - ctx'.buffer_pos = Q + 0
      BY <1>0, <2>3, <2>4, <3>1
    <3>3. (Q + 0) \div BlockBytes = b + 1
      BY Position DEF Q
    <3> QED
      BY <3>2, <3>3 DEF Fills
  <2>7. Digits(ctx.ctr) /\ Expander!Counted(ctx.ctr) = b % Round
    BY <2>5 DEF CounterInv
  <2>8. Digits(ctx'.ctr)
    BY <2>3, <2>7, IncrementedLaw
  <2>9. Expander!Counted(ctx'.ctr) = (b + 1) % Round
    BY <2>3, <2>7, CountsOn, RoundLaw
  <2> QED
    BY <2>6, <2>8, <2>9 DEF CounterInv, Round
<1>5. CASE Expander!TakeNothing
  BY <1>5 DEF Expander!TakeNothing, CounterInv, Fills
<1> QED
  BY <1>1, <1>2, <1>3, <1>4, <1>5 DEF Expander!Next

(* A buffer is zeros only before it is first filled. *)
LEMMA FilledOnce ==
    ASSUME NEW s, NEW b \in Nat, Expander!Block(s, b) = Expander!Zeros
    PROVE  b = 0
<1> SUFFICES ASSUME b # 0 PROVE FALSE
  OBVIOUS
<1>1. b - 1 \in Nat /\ (b - 1) + 1 = b
  OBVIOUS
<1>2. Expander!Block(s, b) = Expander!Encrypt(s, Expander!Block(s, b - 1))
  BY <1>1, BlockLaw
<1>3. Len(Expander!Zeros) = 1
  BY DEF Expander!Zeros
<1>4. Len(Expander!Encrypt(s, Expander!Block(s, b - 1))) = 3
  BY DEF Expander!Encrypt
<1> QED
  BY <1>2, <1>3, <1>4

(* The counter of seedexpander is the number of blocks that it has made,    *)
(* for any number of its bytes and of values of a byte: the carry goes      *)
(* through as many bytes as it must, and after the largest number they      *)
(* spell the count begins again.                                           *)
THEOREM Counts == Spec => []CtrCounts
<1>1. Init => CounterInv
  <2> SUFFICES ASSUME Init PROVE CounterInv
    OBVIOUS
  <2>1. PICK s \in Seeds, d \in Diversifiers, len \in MaxLens :
            ctx = Expander!Fresh(s, d, len) /\ maxlen = len
    BY DEF Init, Expander!Init
  <2>2. out = <<>>
    BY DEF Init, Expander!Init
  <2>3. Digits(ctx.ctr) /\ Expander!Counted(ctx.ctr) = 0 /\ Fills = 0
    BY <2>1, <2>2, CounterStart DEF Fills
  <2>4. 0 % Round = 0
    BY RoundLaw
  <2> QED
    BY <2>3, <2>4 DEF CounterInv, Round
<1>2. ExpanderInv /\ CounterInv /\ [Next]_vars => CounterInv'
  <2> SUFFICES ASSUME ExpanderInv, CounterInv, [Next]_vars PROVE CounterInv'
    OBVIOUS
  <2>1. CASE UNCHANGED expander_vars
    BY <2>1 DEF expander_vars, CounterInv, Fills
  <2> QED
    BY <2>1, CounterStep DEF Next, vars
<1>3. ExpanderInv /\ CounterInv => CtrCounts
  <2> SUFFICES ASSUME ExpanderInv, CounterInv PROVE CtrCounts
    OBVIOUS
  <2>1. PICK b \in Nat : InStream(b)
    BY DEF ExpanderInv
  <2>2. Fills = b
    BY <2>1, FillsLaw
  <2>3. ctx.buffer = Expander!Zeros => Fills % Round = 0
    <3>1. ASSUME ctx.buffer = Expander!Zeros PROVE b = 0
      BY <2>1, <3>1, FilledOnce DEF InStream
    <3> QED
      BY <2>2, <3>1, RoundLaw
  <2> QED
    BY <2>3 DEF CounterInv, CtrCounts, Expander!CtrCounts, Fills, Round
<1> QED
  BY <1>1, <1>2, <1>3, Invariant, PTL DEF Spec
===============================================================================
