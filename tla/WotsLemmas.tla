-------------------------------- MODULE WotsLemmas --------------------------------
(***************************************************************************)
(* What the functions of wots.c compute, for hashes of every length, every *)
(* Winternitz parameter that divides 8 and as many checksum digits as the  *)
(* largest checksum needs: the digits of a message spell it and its         *)
(* checksum, no digits can all be walked on to those of another message,   *)
(* and what key generation, signing and verification return are the ends   *)
(* of walks along the chains of the key pair whose address they are given.  *)
(***************************************************************************)
EXTENDS Wots, WellFoundedInduction, TLAPS

-------------------------------------------------------------------------------
(* Induction over the natural numbers, for a property that is a set. *)
LEMMA NatInd ==
    ASSUME NEW T, T \subseteq Nat, 0 \in T, \A n \in T : n + 1 \in T
    PROVE  T = Nat
<1> SUFFICES ASSUME Nat \ T # {} PROVE FALSE
  OBVIOUS
<1> DEFINE R == OpToRel(<, Nat)
           U == Nat \ T
<1>1. IsWellFoundedOn(R, Nat)
  BY NatLessThanWellFounded
<1>2. \A i, j \in Nat : i < j => <<i, j>> \in R
  BY DEF OpToRel
<1>3. U \subseteq Nat /\ U # {}
  OBVIOUS
<1> HIDE DEF R, U
<1>4. PICK n \in U : \A y \in U : ~(<<y, n>> \in R)
  BY <1>1, <1>3, WFMin
<1>5. n \in Nat /\ n \notin T /\ \A y \in U : ~(y < n)
  BY <1>2, <1>4 DEF U
<1>6. n # 0 /\ n - 1 \in Nat /\ (n - 1) + 1 = n
  BY <1>5
<1>7. n - 1 \in T
  BY <1>5, <1>6 DEF U
<1> QED
  BY <1>5, <1>6, <1>7

(* A sequence that starts at 0 and goes on by s[i] = s[i - 1] * b + d[i]. *)
Follows(s, n, b, d) ==
    s = [i \in 0..n |-> IF i = 0 THEN 0 ELSE s[i - 1] * b + d[i]]

(* Such a sequence exists, and what it holds are natural numbers. *)
LEMMA Exists ==
    ASSUME NEW b \in Nat, NEW m \in Nat, NEW d, \A i \in 1..m : d[i] \in Nat
    PROVE  /\ \E s : Follows(s, m, b, d)
           /\ \A s : Follows(s, m, b, d) => \A i \in 0..m : s[i] \in Nat
<1> DEFINE Good(n) == n <= m => \E s : Follows(s, n, b, d) /\ \A i \in 0..n : s[i] \in Nat
           T == {n \in Nat : Good(n)}
<1>1. 0 \in T
  <2> DEFINE s == [i \in 0..0 |-> 0]
  <2>1. s = [i \in 0..0 |-> IF i = 0 THEN 0 ELSE s[i - 1] * b + d[i]]
    OBVIOUS
  <2>2. \A i \in 0..0 : s[i] \in Nat
    OBVIOUS
  <2> HIDE DEF s
  <2> QED
    BY <2>1, <2>2 DEF Follows
<1>2. ASSUME NEW n \in T PROVE n + 1 \in T
  <2> SUFFICES ASSUME n + 1 <= m PROVE \E s : Follows(s, n + 1, b, d) /\ \A i \in 0..(n + 1) : s[i] \in Nat
    OBVIOUS
  <2>1. PICK h : Follows(h, n, b, d) /\ \A i \in 0..n : h[i] \in Nat
    OBVIOUS
  <2> DEFINE g == [i \in 0..(n + 1) |-> IF i = n + 1 THEN h[n] * b + d[n + 1] ELSE h[i]]
  <2>2. \A i \in 0..n : h[i] = IF i = 0 THEN 0 ELSE h[i - 1] * b + d[i]
    BY <2>1 DEF Follows
  <2>3. \A i \in 0..(n + 1) : g[i] = IF i = 0 THEN 0 ELSE g[i - 1] * b + d[i]
    <3> SUFFICES ASSUME NEW i \in 0..(n + 1)
                 PROVE  g[i] = IF i = 0 THEN 0 ELSE g[i - 1] * b + d[i]
      OBVIOUS
    <3>1. CASE i = n + 1
      <4>1. g[i] = h[n] * b + d[n + 1] /\ g[i - 1] = h[n] /\ i # 0
        BY <3>1
      <4> QED
        BY <3>1, <4>1
    <3>2. CASE i # n + 1
      <4>1. i \in 0..n /\ g[i] = h[i] /\ (i # 0 => g[i - 1] = h[i - 1])
        BY <3>2
      <4> QED
        BY <2>2, <4>1
    <3> QED
      BY <3>1, <3>2
  <2>4. \A i \in 0..(n + 1) : g[i] \in Nat
    <3>1. h[n] \in Nat /\ d[n + 1] \in Nat
      BY <2>1
    <3>2. h[n] * b + d[n + 1] \in Nat
      BY <3>1
    <3> QED
      BY <2>1, <3>2
  <2>5. g = [i \in 0..(n + 1) |-> g[i]]
    OBVIOUS
  <2> HIDE DEF g
  <2>6. Follows(g, n + 1, b, d)
    BY <2>3, <2>5 DEF Follows
  <2> QED
    BY <2>4, <2>6
<1>3. T = Nat
  <2>1. T \subseteq Nat
    OBVIOUS
  <2> HIDE DEF T
  <2> QED
    BY <1>1, <1>2, <2>1, NatInd
<1>4. \E s : Follows(s, m, b, d)
  BY <1>3
<1>5. ASSUME NEW s, Follows(s, m, b, d) PROVE \A i \in 0..m : s[i] \in Nat
  <2> DEFINE U == {i \in Nat : i <= m => s[i] \in Nat}
  <2>1. \A i \in 0..m : s[i] = IF i = 0 THEN 0 ELSE s[i - 1] * b + d[i]
    BY <1>5 DEF Follows
  <2>2. 0 \in U
    BY <2>1
  <2>3. ASSUME NEW i \in U PROVE i + 1 \in U
    <3> SUFFICES ASSUME i + 1 <= m PROVE s[i + 1] \in Nat
      OBVIOUS
    <3>1. s[i] \in Nat /\ i + 1 \in 1..m /\ i + 1 # 0 /\ (i + 1) - 1 = i
      OBVIOUS
    <3>2. s[i + 1] = s[i] * b + d[i + 1]
      BY <2>1, <3>1
    <3>3. s[i] * b \in Nat
      BY <3>1
    <3> QED
      BY <3>1, <3>2, <3>3
  <2>4. U = Nat
    <3>1. U \subseteq Nat
      OBVIOUS
    <3> HIDE DEF U
    <3> QED
      BY <2>2, <2>3, <3>1, NatInd
  <2> QED
    BY <2>4
<1> QED
  BY <1>4, <1>5

-------------------------------------------------------------------------------
(* The powers of two are well defined. *)
LEMMA TwoToLaw ==
    /\ TwoTo[0] = 1
    /\ \A n \in Nat : TwoTo[n + 1] = 2 * TwoTo[n]
    /\ \A n \in Nat : TwoTo[n] \in Nat \ {0}
<1> DEFINE E(b) == 2 * b
           Z == 1
           IsPart(h, n) == h = [k \in 0..n |-> IF k = 0 THEN Z ELSE E(h[k - 1])]
           IsAll(h) == h = [k \in Nat |-> IF k = 0 THEN Z ELSE E(h[k - 1])]
           Part(n) == CHOOSE h : IsPart(h, n)
           Parts == {n \in Nat : \E h : IsPart(h, n)}
           Agree == {m \in Nat : \A n \in Nat : n >= m => Part(n)[m] = Part(m)[m]}
           all == [n \in Nat |-> Part(n)[n]]
<1> HIDE DEF E, Z
<1>1. Parts = Nat
  <2>1. 0 \in Parts
    <3>1. IsPart([k \in 0..0 |-> Z], 0)
      OBVIOUS
    <3> HIDE DEF IsPart
    <3> QED
      BY <3>1
  <2>2. ASSUME NEW n \in Parts PROVE n + 1 \in Parts
    <3>1. PICK h : IsPart(h, n)
      OBVIOUS
    <3> DEFINE g == [k \in 0..(n + 1) |-> IF k = n + 1 THEN E(h[n]) ELSE h[k]]
    <3>2. \A k \in 0..(n + 1) : g[k] = IF k = 0 THEN Z ELSE E(g[k - 1])
      <4> SUFFICES ASSUME NEW k \in 0..(n + 1)
                   PROVE  g[k] = IF k = 0 THEN Z ELSE E(g[k - 1])
        OBVIOUS
      <4>1. n \in Nat
        OBVIOUS
      <4>2. CASE k = n + 1
        BY <4>1, <4>2
      <4>3. CASE k # n + 1
        <5>1. k \in 0..n /\ g[k] = h[k] /\ (k # 0 => g[k - 1] = h[k - 1])
          BY <4>1, <4>3
        <5>2. h[k] = IF k = 0 THEN Z ELSE E(h[k - 1])
          BY <3>1, <5>1
        <5> QED
          BY <5>1, <5>2
      <4> QED
        BY <4>2, <4>3
    <3>3. IsPart(g, n + 1)
      <4>1. g = [k \in 0..(n + 1) |-> g[k]]
        OBVIOUS
      <4> HIDE DEF g
      <4> QED
        BY <3>2, <4>1
    <3>4. n + 1 \in Nat
      OBVIOUS
    <3> HIDE DEF IsPart
    <3> QED
      BY <3>3, <3>4
  <2>3. Parts \subseteq Nat
    OBVIOUS
  <2> HIDE DEF Parts
  <2> QED
    BY <2>1, <2>2, <2>3, NatInd
<1>2. ASSUME NEW n \in Nat
      PROVE  \A k \in 0..n : Part(n)[k] = IF k = 0 THEN Z ELSE E(Part(n)[k - 1])
  <2>1. \E h : IsPart(h, n)
    BY <1>1
  <2>2. IsPart(Part(n), n)
    <3> HIDE DEF IsPart
    <3> QED
      BY <2>1
  <2> HIDE DEF Part
  <2> QED
    BY <2>2
<1> HIDE DEF Part
<1>3. Agree = Nat
  <2>1. 0 \in Agree
    BY <1>2
  <2>2. ASSUME NEW m \in Agree PROVE m + 1 \in Agree
    <3> SUFFICES ASSUME NEW n \in Nat, n >= m + 1 PROVE Part(n)[m + 1] = Part(m + 1)[m + 1]
      OBVIOUS
    <3>1. m \in Nat /\ m + 1 \in 0..n /\ m + 1 \in 0..(m + 1) /\ (m + 1) - 1 = m
      OBVIOUS
    <3>2. Part(n)[m + 1] = E(Part(n)[m])
      BY <1>2, <3>1
    <3>3. Part(m + 1)[m + 1] = E(Part(m + 1)[m])
      BY <1>2, <3>1
    <3>4. Part(n)[m] = Part(m)[m] /\ Part(m + 1)[m] = Part(m)[m]
      BY <3>1
    <3> QED
      BY <3>2, <3>3, <3>4
  <2>3. Agree \subseteq Nat
    OBVIOUS
  <2> HIDE DEF Agree
  <2> QED
    BY <2>1, <2>2, <2>3, NatInd
<1>4. IsAll(all)
  <2>1. ASSUME NEW n \in Nat PROVE all[n] = IF n = 0 THEN Z ELSE E(all[n - 1])
    <3>1. CASE n = 0
      BY <1>2, <3>1
    <3>2. CASE n # 0
      <4>1. n - 1 \in Nat /\ n \in 0..n /\ n >= n - 1
        BY <3>2
      <4>2. Part(n)[n] = E(Part(n)[n - 1])
        BY <1>2, <3>2, <4>1
      <4>3. n - 1 \in Agree
        BY <1>3, <4>1
      <4>4. Part(n)[n - 1] = Part(n - 1)[n - 1]
        BY <4>1, <4>3
      <4> QED
        BY <3>2, <4>1, <4>2, <4>4
    <3> QED
      BY <3>1, <3>2
  <2>2. all = [n \in Nat |-> all[n]]
    OBVIOUS
  <2> HIDE DEF all
  <2> QED
    BY <2>1, <2>2
<1>5. IsAll(TwoTo)
  <2>1. TwoTo = CHOOSE h : IsAll(h)
    BY DEF TwoTo, E, Z
  <2> HIDE DEF IsAll, all
  <2> QED
    BY <1>4, <2>1
<1>6. TwoTo[0] = Z /\ \A n \in Nat : TwoTo[n + 1] = E(TwoTo[n])
  <2>1. \A n \in Nat : n + 1 \in Nat /\ n + 1 # 0 /\ (n + 1) - 1 = n
    OBVIOUS
  <2> QED
    BY <1>5, <2>1
<1>7. \A n \in Nat : TwoTo[n] \in Nat \ {0}
  <2> DEFINE T == {n \in Nat : TwoTo[n] \in Nat \ {0}}
  <2>1. 0 \in T
    BY <1>6 DEF Z
  <2>2. \A n \in T : n + 1 \in T
    BY <1>6 DEF E
  <2>3. T = Nat
    <3>1. T \subseteq Nat
      OBVIOUS
    <3> HIDE DEF T
    <3> QED
      BY <2>1, <2>2, <3>1, NatInd
  <2> QED
    BY <2>3
<1> QED
  BY <1>6, <1>7 DEF E, Z

(* The shift by a sum of bits is one shift after the other. *)
LEMMA TwoToAdd ==
    ASSUME NEW a \in Nat, NEW b \in Nat
    PROVE  TwoTo[a + b] = TwoTo[a] * TwoTo[b]
<1> DEFINE T == {n \in Nat : TwoTo[a + n] = TwoTo[a] * TwoTo[n]}
<1>1. 0 \in T
  BY TwoToLaw
<1>2. ASSUME NEW n \in T PROVE n + 1 \in T
  <2>1. TwoTo[a + (n + 1)] = 2 * TwoTo[a + n]
    <3>1. a + n \in Nat /\ a + (n + 1) = (a + n) + 1
      OBVIOUS
    <3> QED
      BY <3>1, TwoToLaw
  <2>2. TwoTo[n + 1] = 2 * TwoTo[n]
    BY TwoToLaw
  <2>3. 2 * (TwoTo[a] * TwoTo[n]) = TwoTo[a] * (2 * TwoTo[n])
    BY TwoToLaw
  <2> QED
    BY <2>1, <2>2, <2>3
<1>3. T = Nat
  <2>1. T \subseteq Nat
    OBVIOUS
  <2> HIDE DEF T
  <2> QED
    BY <1>1, <1>2, <2>1, NatInd
<1> QED
  BY <1>3

(* The powers that the bits of one byte need. *)
LEMMA SmallPowers ==
    /\ TwoTo[0] = 1 /\ TwoTo[1] = 2 /\ TwoTo[2] = 4 /\ TwoTo[3] = 8 /\ TwoTo[4] = 16
    /\ TwoTo[5] = 32 /\ TwoTo[6] = 64 /\ TwoTo[7] = 128 /\ TwoTo[8] = 256
<1>1. /\ TwoTo[0] = 1 /\ TwoTo[0 + 1] = 2 * TwoTo[0] /\ TwoTo[1 + 1] = 2 * TwoTo[1]
      /\ TwoTo[2 + 1] = 2 * TwoTo[2] /\ TwoTo[3 + 1] = 2 * TwoTo[3]
  BY TwoToLaw
<1>2. /\ TwoTo[4 + 1] = 2 * TwoTo[4] /\ TwoTo[5 + 1] = 2 * TwoTo[5]
      /\ TwoTo[6 + 1] = 2 * TwoTo[6] /\ TwoTo[7 + 1] = 2 * TwoTo[7]
  BY TwoToLaw
<1>3. TwoTo[1] = 2 /\ TwoTo[2] = 4 /\ TwoTo[3] = 8 /\ TwoTo[4] = 16
  BY <1>1
<1> QED
  BY <1>1, <1>2, <1>3

(* Dividing twice is dividing by the product. *)
LEMMA DivDiv ==
    ASSUME NEW x \in Nat, NEW a \in Nat \ {0}, NEW b \in Nat \ {0}
    PROVE  (x \div a) \div b = x \div (a * b)
OBVIOUS

(* A common factor goes. *)
LEMMA DivCancel ==
    ASSUME NEW x \in Nat, NEW a \in Nat \ {0}, NEW b \in Nat \ {0}
    PROVE  (x * b) \div (a * b) = x \div a
<1>1. (x * b) \div b = x
  OBVIOUS
<1>2. x * b \in Nat
  OBVIOUS
<1>3. ((x * b) \div b) \div a = (x * b) \div (b * a)
  BY <1>2, DivDiv
<1>4. b * a = a * b
  OBVIOUS
<1> QED
  BY <1>1, <1>3, <1>4

(* The sizes that the assumption allows. *)
LEMMA ByteSizes ==
    \/ (PerByte = 8 /\ LogW = 1)
    \/ (PerByte = 4 /\ LogW = 2)
    \/ (PerByte = 2 /\ LogW = 4)
    \/ (PerByte = 1 /\ LogW = 8)
<1>1. CASE LogW = 1
  BY <1>1 DEF PerByte
<1>2. CASE LogW = 2
  BY <1>2 DEF PerByte
<1>3. CASE LogW = 4
  BY <1>3 DEF PerByte
<1>4. CASE LogW = 8
  BY <1>4 DEF PerByte
<1> QED
  BY <1>1, <1>2, <1>3, <1>4, SizesAssumption

(* What follows for the sizes of params.h. *)
LEMMA Sizes ==
    /\ LogW \in {1, 2, 4, 8} /\ PerByte \in Nat \ {0} /\ LogW * PerByte = 8
    /\ W \in {2, 4, 16, 256}
    /\ WotsLen1 \in Nat /\ WotsLen1 = PerByte * N
    /\ WotsLen2 \in Nat \ {0} /\ WotsLen \in Nat /\ WotsLen = WotsLen1 + WotsLen2
<1>1. W \in {2, 4, 16, 256}
  BY SizesAssumption, SmallPowers DEF W
<1>2. CASE LogW = 1
  BY <1>1, <1>2, SizesAssumption DEF PerByte, WotsLen1, WotsLen
<1>3. CASE LogW = 2
  BY <1>1, <1>3, SizesAssumption DEF PerByte, WotsLen1, WotsLen
<1>4. CASE LogW = 4
  BY <1>1, <1>4, SizesAssumption DEF PerByte, WotsLen1, WotsLen
<1>5. CASE LogW = 8
  BY <1>1, <1>5, SizesAssumption DEF PerByte, WotsLen1, WotsLen
<1> QED
  BY <1>2, <1>3, <1>4, <1>5, SizesAssumption

-------------------------------------------------------------------------------
(* Reading digits and bytes off a number. *)

(* Where the digit k of a byte begins. *)
Low(k) == 8 - LogW * k

(* The shift of base_w is not negative: every digit lies in its byte. *)
LEMMA LowNat ==
    ASSUME NEW k \in 1..PerByte
    PROVE  Low(k) \in Nat /\ TwoTo[Low(k)] \in Nat \ {0}
<1>1. LogW \in {1, 2, 4, 8} /\ PerByte \in Nat /\ LogW * PerByte = 8
  BY Sizes
<1>2. Low(k) \in Nat
  BY <1>1 DEF Low
<1> QED
  BY <1>2, TwoToLaw

(* Bytes are natural numbers. *)
LEMMA ByteNat == \A x \in 0..255 : x \in Nat
OBVIOUS

(* So are quotients. *)
LEMMA DivNat ==
    ASSUME NEW x \in Nat, NEW a \in Nat \ {0}
    PROVE  x \div a \in Nat
OBVIOUS

(* A digit that lies in the low byte of a number is the same digit of the number. *)
LEMMA ByteDigit ==
    ASSUME NEW y \in Nat, NEW k \in 1..PerByte
    PROVE  /\ Low(k) \in Nat
           /\ ((y % 256) \div TwoTo[Low(k)]) % W = (y \div TwoTo[Low(k)]) % W
<1>1. CASE LogW = 8
  <2>1. PerByte = 1 /\ W = 256 /\ Low(1) = 0
    BY <1>1, SmallPowers DEF PerByte, W, Low
  <2>2. ((y % 256) \div 1) % 256 = (y \div 1) % 256
    OBVIOUS
  <2>3. k = 1
    BY <2>1
  <2> QED
    BY <2>1, <2>2, <2>3, SmallPowers
<1>2. CASE LogW = 4
  <2>1. PerByte = 2 /\ W = 16 /\ Low(1) = 4 /\ Low(2) = 0
    BY <1>2, SmallPowers DEF PerByte, W, Low
  <2>2. /\ ((y % 256) \div 1) % 16 = (y \div 1) % 16
        /\ ((y % 256) \div 16) % 16 = (y \div 16) % 16
    OBVIOUS
  <2>3. k \in {1, 2}
    BY <2>1
  <2> QED
    BY <2>1, <2>2, <2>3, SmallPowers
<1>3. CASE LogW = 2
  <2>1. PerByte = 4 /\ W = 4 /\ Low(1) = 6 /\ Low(2) = 4 /\ Low(3) = 2 /\ Low(4) = 0
    BY <1>3, SmallPowers DEF PerByte, W, Low
  <2>2. /\ ((y % 256) \div 1) % 4 = (y \div 1) % 4
        /\ ((y % 256) \div 4) % 4 = (y \div 4) % 4
        /\ ((y % 256) \div 16) % 4 = (y \div 16) % 4
        /\ ((y % 256) \div 64) % 4 = (y \div 64) % 4
    OBVIOUS
  <2>3. k \in {1, 2, 3, 4}
    BY <2>1
  <2> QED
    BY <2>1, <2>2, <2>3, SmallPowers
<1>4. CASE LogW = 1
  <2>1. /\ PerByte = 8 /\ W = 2
        /\ \A j \in 1..8 : Low(j) = 8 - j
    BY <1>4, SmallPowers DEF PerByte, W, Low
  <2>2. /\ ((y % 256) \div 1) % 2 = (y \div 1) % 2
        /\ ((y % 256) \div 2) % 2 = (y \div 2) % 2
        /\ ((y % 256) \div 4) % 2 = (y \div 4) % 2
        /\ ((y % 256) \div 8) % 2 = (y \div 8) % 2
    OBVIOUS
  <2>3. /\ ((y % 256) \div 16) % 2 = (y \div 16) % 2
        /\ ((y % 256) \div 32) % 2 = (y \div 32) % 2
        /\ ((y % 256) \div 64) % 2 = (y \div 64) % 2
        /\ ((y % 256) \div 128) % 2 = (y \div 128) % 2
    OBVIOUS
  <2>4. k \in 1..8 /\ Low(k) \in 0..7
    BY <2>1
  <2>5. ((y % 256) \div TwoTo[Low(k)]) % 2 = (y \div TwoTo[Low(k)]) % 2
    BY <2>2, <2>3, <2>4, SmallPowers
  <2> QED
    BY <2>1, <2>4, <2>5
<1> QED
  BY <1>1, <1>2, <1>3, <1>4, SizesAssumption

(* Len(digits) digits to the base W, each where it belongs, spell a number *)
(* that is small enough for them.                                          *)
LEMMA Horner ==
    ASSUME NEW L \in Nat, NEW x \in Nat, x < TwoTo[LogW * L],
           NEW digits, Len(digits) = L,
           \A k \in 1..L : digits[k] = (x \div TwoTo[LogW * (L - k)]) % W
    PROVE  Spelled(W, digits) = x
<1> DEFINE s == CHOOSE h : Follows(h, L, W, digits)
           High(k) == x \div TwoTo[LogW * (L - k)]
           T == {k \in Nat : k <= L => s[k] = High(k)}
<1>1. W \in Nat \ {0} /\ LogW \in Nat
  BY Sizes
<1>2. \A k \in 0..L : LogW * (L - k) \in Nat /\ High(k) \in Nat
  <2> SUFFICES ASSUME NEW k \in 0..L
               PROVE  LogW * (L - k) \in Nat /\ High(k) \in Nat
    OBVIOUS
  <2>1. L - k \in Nat
    OBVIOUS
  <2>2. LogW * (L - k) \in Nat
    BY <1>1, <2>1
  <2>3. TwoTo[LogW * (L - k)] \in Nat \ {0}
    BY <2>2, TwoToLaw
  <2> QED
    BY <2>2, <2>3, SMTT(20)
<1>3. \A k \in 1..L : digits[k] \in Nat
  BY <1>1, <1>2
<1>4. /\ s[0] = 0
      /\ \A k \in 1..L : s[k] = s[k - 1] * W + digits[k]
  <2>1. W \in Nat
    BY <1>1
  <2>2. \E h : Follows(h, L, W, digits)
    BY <1>3, <2>1, Exists
  <2>3. Follows(s, L, W, digits)
    BY <2>2
  <2> HIDE DEF s
  <2> QED
    <3>1. \A i \in 0..L : s[i] = IF i = 0 THEN 0 ELSE s[i - 1] * W + digits[i]
      BY <2>3 DEF Follows
    <3> QED
      BY <3>1
<1> HIDE DEF s
<1>5. 0 \in T
  <2>1. LogW * (L - 0) = LogW * L /\ LogW * L \in Nat
    BY <1>1
  <2>2. TwoTo[LogW * L] \in Nat \ {0}
    BY <2>1, TwoToLaw
  <2>3. x \div TwoTo[LogW * L] = 0
    BY <2>2
  <2> QED
    BY <1>4, <2>1, <2>3
<1>6. ASSUME NEW k \in T PROVE k + 1 \in T
  <2> SUFFICES ASSUME k + 1 <= L PROVE s[k + 1] = High(k + 1)
    OBVIOUS
  <2> DEFINE e == LogW * (L - (k + 1))
             y == x \div TwoTo[e]
  <2>1. k \in 0..L /\ k + 1 \in 1..L /\ (k + 1) - 1 = k /\ s[k] = High(k)
    OBVIOUS
  <2>2. LogW * (L - k) = e + LogW /\ e \in Nat
    BY <1>1, <1>2, <2>1
  <2>3. TwoTo[e] \in Nat \ {0} /\ TwoTo[LogW * (L - k)] = TwoTo[e] * W
    <3> HIDE DEF e
    <3> QED
      BY <1>1, <2>2, TwoToLaw, TwoToAdd DEF W
  <2>4. High(k) = y \div W
    <3> HIDE DEF e
    <3> QED
      BY <1>1, <2>3, DivDiv
  <2>5. y \in Nat /\ y = (y \div W) * W + (y % W)
    <3>1. y \in Nat
      <4> HIDE DEF e
      <4> QED
        BY <2>3
    <3> HIDE DEF y
    <3>2. CASE W = 2
      BY <3>1, <3>2
    <3>3. CASE W = 4
      BY <3>1, <3>3
    <3>4. CASE W = 16
      BY <3>1, <3>4
    <3>5. CASE W = 256
      BY <3>1, <3>5
    <3> QED
      BY <3>2, <3>3, <3>4, <3>5, Sizes
  <2>6. digits[k + 1] = y % W /\ High(k + 1) = y
    BY <2>1
  <2>7. s[k + 1] = s[k] * W + digits[k + 1]
    BY <1>4, <2>1
  <2> HIDE DEF y, High, e
  <2> QED
    BY <2>1, <2>4, <2>5, <2>6, <2>7
<1>7. T = Nat
  <2>1. T \subseteq Nat
    OBVIOUS
  <2> HIDE DEF T
  <2> QED
    BY <1>5, <1>6, <2>1, NatInd
<1>8. s[L] = x
  <2>1. LogW * (L - L) = 0
    BY <1>1
  <2>2. x \div 1 = x
    OBVIOUS
  <2>3. High(L) = x
    BY <2>1, <2>2, TwoToLaw
  <2>4. s[L] = High(L)
    BY <1>7
  <2> QED
    BY <2>3, <2>4
<1> QED
  BY <1>8 DEF s, Spelled, Follows

-------------------------------------------------------------------------------
(* The sum of the checksum: how far all the digits are from their ends. *)
IsSum(c, n, d) == c = [i \in 0..n |-> IF i = 0 THEN 0 ELSE c[i - 1] + (W - 1 - d[i])]

Digits(d, n) == \A i \in 1..n : d[i] \in 0..(W - 1)

(* The loop of wots_checksum has a result. *)
LEMMA SumExists ==
    ASSUME NEW n \in Nat, NEW d, Digits(d, n)
    PROVE  \E c : IsSum(c, n, d)
<1> DEFINE e == [i \in 1..n |-> W - 1 - d[i]]
<1>1. \A i \in 1..n : e[i] \in Nat /\ e[i] = W - 1 - d[i]
  BY Sizes DEF Digits
<1> HIDE DEF e
<1>2. PICK s : Follows(s, n, 1, e)
  BY <1>1, Exists
<1>3. \A i \in 0..n : s[i] \in Nat
  BY <1>1, <1>2, Exists
<1>4. s = [i \in 0..n |-> s[i]] /\ \A i \in 0..n : s[i] = IF i = 0 THEN 0 ELSE s[i - 1] * 1 + e[i]
  BY <1>2 DEF Follows
<1>5. \A i \in 0..n : s[i] = IF i = 0 THEN 0 ELSE s[i - 1] + (W - 1 - d[i])
  <2> SUFFICES ASSUME NEW i \in 0..n, i # 0 PROVE s[i] = s[i - 1] + (W - 1 - d[i])
    BY <1>4
  <2>1. i \in 1..n /\ i - 1 \in 0..n
    OBVIOUS
  <2>2. s[i - 1] \in Nat /\ e[i] = W - 1 - d[i]
    BY <1>1, <1>3, <2>1
  <2>3. s[i] = s[i - 1] * 1 + e[i]
    BY <1>4
  <2>4. s[i - 1] * 1 = s[i - 1]
    BY <2>2
  <2> QED
    BY <2>2, <2>3, <2>4
<1>6. s = [i \in 0..n |-> s[i]]
  BY <1>4
<1> QED
  BY <1>5, <1>6 DEF IsSum

(* No checksum is larger than one for a message of zeros. *)
LEMMA SumBound ==
    ASSUME NEW n \in Nat, NEW d, Digits(d, n), NEW c, IsSum(c, n, d)
    PROVE  \A i \in 0..n : c[i] \in Nat /\ c[i] <= i * (W - 1)
<1> DEFINE T == {i \in Nat : i <= n => c[i] \in Nat /\ c[i] <= i * (W - 1)}
<1>1. \A i \in 0..n : c[i] = IF i = 0 THEN 0 ELSE c[i - 1] + (W - 1 - d[i])
  BY DEF IsSum
<1>2. 0 \in T
  BY <1>1, Sizes
<1>3. ASSUME NEW i \in T PROVE i + 1 \in T
  <2> SUFFICES ASSUME i + 1 <= n
               PROVE  c[i + 1] \in Nat /\ c[i + 1] <= (i + 1) * (W - 1)
    OBVIOUS
  <2>1. i + 1 \in 1..n /\ i + 1 # 0 /\ (i + 1) - 1 = i /\ c[i] \in Nat /\ c[i] <= i * (W - 1)
    OBVIOUS
  <2>2. c[i + 1] = c[i] + (W - 1 - d[i + 1])
    BY <1>1, <2>1
  <2>3. d[i + 1] \in 0..(W - 1) /\ W - 1 \in Nat
    BY <2>1, Sizes DEF Digits
  <2>4. (i + 1) * (W - 1) = i * (W - 1) + (W - 1)
    BY <2>3
  <2>5. i * (W - 1) \in Nat
    BY <2>3
  <2> QED
    BY <2>1, <2>2, <2>3, <2>4, <2>5
<1>4. T = Nat
  <2>1. T \subseteq Nat
    OBVIOUS
  <2> HIDE DEF T
  <2> QED
    BY <1>2, <1>3, <2>1, NatInd
<1> QED
  BY <1>4

(* Higher digits leave less to walk. *)
LEMMA SumMonotone ==
    ASSUME NEW n \in Nat, NEW d, Digits(d, n), NEW e, Digits(e, n),
           \A i \in 1..n : d[i] <= e[i],
           NEW c, IsSum(c, n, d), NEW f, IsSum(f, n, e)
    PROVE  \A i \in 0..n : /\ f[i] <= c[i]
                           /\ (\E j \in 1..i : d[j] # e[j]) => f[i] < c[i]
<1> DEFINE Less(i) == /\ f[i] <= c[i]
                      /\ (\E j \in 1..i : d[j] # e[j]) => f[i] < c[i]
           T == {i \in Nat : i <= n => Less(i)}
<1>1. \A i \in 0..n : c[i] = IF i = 0 THEN 0 ELSE c[i - 1] + (W - 1 - d[i])
  BY DEF IsSum
<1>2. \A i \in 0..n : f[i] = IF i = 0 THEN 0 ELSE f[i - 1] + (W - 1 - e[i])
  BY DEF IsSum
<1>3. \A i \in 0..n : c[i] \in Nat
  BY SumBound
<1>4. \A i \in 0..n : f[i] \in Nat
  BY SumBound
<1>5. 0 \in T
  BY <1>1, <1>2
<1>6. ASSUME NEW i \in T PROVE i + 1 \in T
  <2> SUFFICES ASSUME i + 1 <= n PROVE Less(i + 1)
    OBVIOUS
  <2>1. i + 1 \in 1..n /\ i \in 0..n /\ i + 1 # 0 /\ (i + 1) - 1 = i /\ Less(i)
    OBVIOUS
  <2>2. /\ c[i + 1] = c[i] + (W - 1 - d[i + 1])
        /\ f[i + 1] = f[i] + (W - 1 - e[i + 1])
    BY <1>1, <1>2, <2>1
  <2>3. d[i + 1] \in Nat /\ e[i + 1] \in Nat /\ d[i + 1] <= e[i + 1] /\ W \in Nat
    BY <2>1, Sizes DEF Digits
  <2>4. c[i] \in Nat /\ f[i] \in Nat
    BY <1>3, <1>4, <2>1
  <2>5. f[i + 1] <= c[i + 1]
    BY <2>1, <2>2, <2>3, <2>4
  <2>6. ASSUME NEW j \in 1..(i + 1), d[j] # e[j] PROVE f[i + 1] < c[i + 1]
    <3>1. CASE j = i + 1
      <4>1. d[i + 1] < e[i + 1]
        BY <2>3, <2>6, <3>1
      <4> QED
        BY <2>1, <2>2, <2>3, <2>4, <4>1
    <3>2. CASE j # i + 1
      <4>1. j \in 1..i
        BY <2>1, <3>2
      <4>2. f[i] < c[i]
        BY <2>1, <2>6, <4>1
      <4> QED
        BY <2>2, <2>3, <2>4, <4>2
    <3> QED
      BY <3>1, <3>2
  <2> QED
    BY <2>5, <2>6
<1>7. T = Nat
  <2>1. T \subseteq Nat
    OBVIOUS
  <2> HIDE DEF T
  <2> QED
    BY <1>5, <1>6, <2>1, NatInd
<1> QED
  BY <1>7

(* Higher digits spell a higher number. *)
LEMMA SpelledMonotone ==
    ASSUME NEW n \in Nat, NEW a, Len(a) = n, NEW b, Len(b) = n,
           \A i \in 1..n : a[i] \in Nat /\ b[i] \in Nat /\ a[i] <= b[i]
    PROVE  Spelled(W, a) <= Spelled(W, b)
<1> DEFINE s == CHOOSE h : Follows(h, n, W, a)
           t == CHOOSE h : Follows(h, n, W, b)
           T == {i \in Nat : i <= n => s[i] <= t[i]}
<1>1. W \in Nat
  BY Sizes
<1>2. Follows(s, n, W, a) /\ Follows(t, n, W, b)
  <2>1. \E h : Follows(h, n, W, a)
    BY <1>1, Exists
  <2>2. \E h : Follows(h, n, W, b)
    BY <1>1, Exists
  <2> QED
    BY <2>1, <2>2
<1> HIDE DEF s, t
<1>3. \A i \in 0..n : s[i] \in Nat
  BY <1>1, <1>2, Exists
<1>4. \A i \in 0..n : t[i] \in Nat
  BY <1>1, <1>2, Exists
<1>5. /\ \A i \in 0..n : s[i] = IF i = 0 THEN 0 ELSE s[i - 1] * W + a[i]
      /\ \A i \in 0..n : t[i] = IF i = 0 THEN 0 ELSE t[i - 1] * W + b[i]
  BY <1>2 DEF Follows
<1>6. 0 \in T
  BY <1>5
<1>7. ASSUME NEW i \in T PROVE i + 1 \in T
  <2> SUFFICES ASSUME i + 1 <= n PROVE s[i + 1] <= t[i + 1]
    OBVIOUS
  <2>1. i + 1 \in 1..n /\ i \in 0..n /\ i + 1 # 0 /\ (i + 1) - 1 = i /\ s[i] <= t[i]
    OBVIOUS
  <2>2. s[i + 1] = s[i] * W + a[i + 1] /\ t[i + 1] = t[i] * W + b[i + 1]
    BY <1>5, <2>1
  <2>3. s[i] \in Nat /\ t[i] \in Nat /\ a[i + 1] \in Nat /\ b[i + 1] \in Nat /\ a[i + 1] <= b[i + 1]
    BY <1>3, <1>4, <2>1
  <2>4. s[i] * W <= t[i] * W /\ s[i] * W \in Nat /\ t[i] * W \in Nat
    <3>1. ASSUME NEW p \in Nat, NEW q \in Nat, p <= q
          PROVE  p * W <= q * W /\ p * W \in Nat /\ q * W \in Nat
      <4>1. W = 2 \/ W = 4 \/ W = 16 \/ W = 256
        BY Sizes
      <4> QED
        BY <3>1, <4>1
    <3> QED
      BY <2>1, <2>3, <3>1
  <2> QED
    BY <2>2, <2>3, <2>4, SMTT(20)
<1>8. T = Nat
  <2>1. T \subseteq Nat
    OBVIOUS
  <2> HIDE DEF T
  <2> QED
    BY <1>6, <1>7, <2>1, NatInd
<1>9. s[n] <= t[n]
  BY <1>8
<1> QED
  BY <1>9 DEF s, t, Spelled, Follows

-------------------------------------------------------------------------------
(* The digits of a message. *)

(* Digit k of byte i is at this place, and places are made up so. *)
LEMMA Place ==
    ASSUME NEW n \in Nat, NEW p \in 1..n
    PROVE  LET i == (p - 1) \div PerByte + 1
               k == ((p - 1) % PerByte) + 1
           IN  i \in Nat \ {0} /\ k \in 1..PerByte /\ p = (i - 1) * PerByte + k
<1>1. PerByte \in {1, 2, 4, 8}
  BY SizesAssumption DEF PerByte
<1>2. CASE PerByte = 1
  BY <1>2
<1>3. CASE PerByte = 2
  BY <1>3
<1>4. CASE PerByte = 4
  BY <1>4
<1>5. CASE PerByte = 8
  BY <1>5
<1> QED
  BY <1>1, <1>2, <1>3, <1>4, <1>5

(* The place where base_w writes digit k of byte i leads back to i and k. *)
LEMMA PlaceOf ==
    ASSUME NEW i \in Nat \ {0}, NEW k \in 1..PerByte
    PROVE  LET p == (i - 1) * PerByte + k
           IN  /\ p \in Nat \ {0}
               /\ (p - 1) \div PerByte + 1 = i
               /\ ((p - 1) % PerByte) + 1 = k
<1>1. PerByte \in {1, 2, 4, 8}
  BY SizesAssumption DEF PerByte
<1>2. CASE PerByte = 1
  BY <1>2
<1>3. CASE PerByte = 2
  BY <1>3
<1>4. CASE PerByte = 4
  BY <1>4
<1>5. CASE PerByte = 8
  BY <1>5
<1> QED
  BY <1>1, <1>2, <1>3, <1>4, <1>5

(* base_w of a message: its digits, and those of byte i in their places. *)
LEMMA MessageDigits ==
    ASSUME NEW m \in [1..N -> 0..255]
    PROVE  /\ BaseW(WotsLen1, m) \in Seq(Nat)
           /\ Len(BaseW(WotsLen1, m)) = WotsLen1
           /\ Digits(BaseW(WotsLen1, m), WotsLen1)
           /\ \A i \in 1..N, k \in 1..PerByte :
                 /\ (i - 1) * PerByte + k \in 1..WotsLen1
                 /\ BaseW(WotsLen1, m)[(i - 1) * PerByte + k] = (m[i] \div TwoTo[Low(k)]) % W
<1>1. \A q \in 1..N : m[q] \in 0..255
  BY SizesAssumption
<1> DEFINE D == BaseW(WotsLen1, m)
           InByte(p) == (p - 1) \div PerByte + 1
           Digit(p) == ((p - 1) % PerByte) + 1
<1>2. /\ WotsLen1 \in Nat /\ WotsLen1 = PerByte * N /\ PerByte \in {1, 2, 4, 8}
      /\ N \in Nat \ {0} /\ W \in Nat \ {0}
  BY Sizes, SizesAssumption DEF PerByte
<1>3. D = [p \in 1..WotsLen1 |-> (m[InByte(p)] \div TwoTo[Low(Digit(p))]) % W]
  BY DEF BaseW, Low
<1> HIDE DEF D
<1>4. ASSUME NEW p \in 1..WotsLen1
      PROVE  InByte(p) \in 1..N /\ Digit(p) \in 1..PerByte
  <2>1. InByte(p) \in Nat \ {0} /\ Digit(p) \in 1..PerByte /\ p = (InByte(p) - 1) * PerByte + Digit(p)
    BY <1>2, Place
  <2> HIDE DEF InByte, Digit
  <2>2. (InByte(p) - 1) * PerByte < PerByte * N
    BY <1>2, <2>1
  <2>3. InByte(p) - 1 < N
    BY <1>2, <2>1, <2>2
  <2> QED
    BY <1>2, <2>1, <2>3
<1>5. \A p \in 1..WotsLen1 : D[p] \in 0..(W - 1)
  <2> SUFFICES ASSUME NEW p \in 1..WotsLen1 PROVE D[p] \in 0..(W - 1)
    OBVIOUS
  <2>1. D[p] = (m[InByte(p)] \div TwoTo[Low(Digit(p))]) % W
    BY <1>3
  <2>2. \A q \in 1..N, k \in 1..PerByte : (m[q] \div TwoTo[Low(k)]) % W \in 0..(W - 1)
    <3> SUFFICES ASSUME NEW q \in 1..N, NEW k \in 1..PerByte
                 PROVE  (m[q] \div TwoTo[Low(k)]) % W \in 0..(W - 1)
      OBVIOUS
    <3>1. TwoTo[Low(k)] \in Nat \ {0}
      BY LowNat
    <3>2. m[q] \in Nat
      <4>1. m[q] \in 0..255
        BY <1>2
      <4> QED
        BY <4>1, ByteNat
    <3>3. m[q] \div TwoTo[Low(k)] \in Nat
      BY <1>2, <3>1, <3>2, DivNat
    <3> QED
      BY <1>2, <3>3
  <2>3. InByte(p) \in 1..N /\ Digit(p) \in 1..PerByte
    BY <1>4
  <2> HIDE DEF InByte, Digit
  <2> QED
    BY <2>1, <2>2, <2>3
<1>6. D \in Seq(Nat) /\ Len(D) = WotsLen1
  <2>1. \A p \in 1..WotsLen1 : D[p] \in Nat
    BY <1>2, <1>5
  <2>2. D = [p \in 1..WotsLen1 |-> D[p]]
    BY <1>3
  <2>3. D \in [1..WotsLen1 -> Nat]
    BY <2>1, <2>2
  <2> QED
    BY <1>2, <2>3
<1>7. ASSUME NEW i \in 1..N, NEW k \in 1..PerByte
      PROVE  /\ (i - 1) * PerByte + k \in 1..WotsLen1
             /\ D[(i - 1) * PerByte + k] = (m[i] \div TwoTo[Low(k)]) % W
  <2> DEFINE p == (i - 1) * PerByte + k
  <2>1. p \in Nat \ {0} /\ InByte(p) = i /\ Digit(p) = k
    BY <1>2, PlaceOf
  <2>2. p <= WotsLen1
    BY <1>2
  <2> HIDE DEF p, InByte, Digit
  <2>3. p \in 1..WotsLen1
    BY <1>2, <2>1, <2>2
  <2> QED
    BY <1>3, <2>1, <2>3 DEF p
<1> QED
  BY <1>5, <1>6, <1>7 DEF D, Digits

-------------------------------------------------------------------------------
(* The digits of the checksum. *)

CsumBytes == (WotsLen2 * LogW + 7) \div 8

(* Shifted, the checksum fills its bytes but for nothing. *)
LEMMA ShiftFills ==
    /\ ChecksumShift \in Nat /\ CsumBytes \in Nat
    /\ 8 * CsumBytes = LogW * WotsLen2 + ChecksumShift
<1> DEFINE n == WotsLen2 * LogW
<1>1. n \in Nat /\ n = LogW * WotsLen2
  BY Sizes
<1>2. /\ ChecksumShift = (8 - (n % 8)) % 8
      /\ CsumBytes = (n + 7) \div 8
  BY DEF ChecksumShift, CsumBytes
<1> HIDE DEF n
<1> QED
  BY <1>1, <1>2

(* wots_checksum: its digits spell the sum, none of whose bits is lost. *)
LEMMA ChecksumDigits ==
    ASSUME NEW d, Digits(d, WotsLen1)
    PROVE  /\ WotsChecksum(d) \in Seq(Nat)
           /\ Len(WotsChecksum(d)) = WotsLen2
           /\ Digits(WotsChecksum(d), WotsLen2)
           /\ \A c : IsSum(c, WotsLen1, d) => c[WotsLen1] = Spelled(W, WotsChecksum(d))
<1> DEFINE c == CHOOSE h : IsSum(h, WotsLen1, d)
           x == c[WotsLen1]
           v == x * TwoTo[ChecksumShift]
           C == WotsChecksum(d)
           B == UllToBytes(CsumBytes, v)
           InByte(p) == (p - 1) \div PerByte + 1
           Digit(p) == ((p - 1) % PerByte) + 1
<1>1. /\ WotsLen1 \in Nat /\ WotsLen2 \in Nat \ {0} /\ W \in Nat \ {0}
      /\ LogW \in {1, 2, 4, 8} /\ PerByte \in Nat \ {0} /\ LogW * PerByte = 8
  BY Sizes
<1>2. C = BaseW(WotsLen2, B)
  BY DEF WotsChecksum, CsumBytes, IsSum, Remaining
<1>3. B = [j \in 1..CsumBytes |-> (v \div TwoTo[8 * (CsumBytes - j)]) % 256]
  BY DEF UllToBytes
<1>4. IsSum(c, WotsLen1, d)
  <2>1. \E h : IsSum(h, WotsLen1, d)
    BY <1>1, SumExists
  <2> QED
    BY <2>1
<1> HIDE DEF C, B, v, c
<1>5. x \in Nat /\ x < TwoTo[LogW * WotsLen2]
  <2>1. c[WotsLen1] \in Nat /\ c[WotsLen1] <= WotsLen1 * (W - 1)
    BY <1>1, <1>4, SumBound
  <2>2. WotsLen1 * (W - 1) \in Nat /\ TwoTo[LogW * WotsLen2] \in Nat
    <3>1. LogW * WotsLen2 \in Nat
      BY <1>1
    <3> QED
      BY <1>1, <3>1, TwoToLaw
  <2> QED
    BY <2>1, <2>2, SizesAssumption
<1>6. C = [p \in 1..WotsLen2 |-> (B[InByte(p)] \div TwoTo[Low(Digit(p))]) % W]
  BY <1>2 DEF BaseW, Low
<1>7. ASSUME NEW p \in 1..WotsLen2
      PROVE  C[p] = (x \div TwoTo[LogW * (WotsLen2 - p)]) % W
  <2> DEFINE j == InByte(p)
             k == Digit(p)
             high == 8 * (CsumBytes - j)
             e == LogW * (WotsLen2 - p)
  <2>1. C[p] = (B[j] \div TwoTo[Low(k)]) % W
    BY <1>6
  <2>2. j \in Nat \ {0} /\ k \in 1..PerByte /\ p = (j - 1) * PerByte + k
    BY <1>1, Place
  <2> HIDE DEF j, k
  <2>3. LogW * p = 8 * (j - 1) + LogW * k
    <3> QED
      BY <2>2, ByteSizes
  <2>4. e \in Nat /\ e = LogW * WotsLen2 - LogW * p
    BY <1>1
  <2>5. high + Low(k) = e + ChecksumShift
    BY <1>1, <2>2, <2>3, <2>4, ShiftFills DEF Low
  <2>6. j \in 1..CsumBytes /\ high \in Nat
    <3>1. Low(k) \in Nat /\ Low(k) < 8
      BY <1>1, <2>2, LowNat DEF Low
    <3>2. high + Low(k) >= 0
      BY <2>4, <2>5, ShiftFills
    <3> QED
      BY <2>2, <3>1, <3>2, ShiftFills
  <2>7. v \in Nat /\ TwoTo[high] \in Nat \ {0} /\ TwoTo[Low(k)] \in Nat \ {0}
        /\ TwoTo[ChecksumShift] \in Nat \ {0} /\ TwoTo[e] \in Nat \ {0}
    <3>1. TwoTo[ChecksumShift] \in Nat \ {0}
      BY ShiftFills, TwoToLaw
    <3>2. v \in Nat
      BY <1>5, <3>1 DEF v
    <3> HIDE DEF high, e, x
    <3> QED
      BY <2>2, <2>4, <2>6, <3>1, <3>2, TwoToLaw, LowNat
  <2>8. B[j] = (v \div TwoTo[high]) % 256
    BY <1>3, <2>6
  <2> HIDE DEF high, e, x
  <2>9. C[p] = ((v \div TwoTo[high]) \div TwoTo[Low(k)]) % W
    <3>1. v \div TwoTo[high] \in Nat
      BY <2>7, DivNat
    <3> QED
      BY <2>1, <2>2, <2>8, <3>1, ByteDigit
  <2>10. (v \div TwoTo[high]) \div TwoTo[Low(k)] = v \div TwoTo[high + Low(k)]
    <3>1. TwoTo[high + Low(k)] = TwoTo[high] * TwoTo[Low(k)]
      BY <2>2, <2>6, LowNat, TwoToAdd
    <3> QED
      BY <2>7, <3>1, DivDiv
  <2>11. v \div TwoTo[e + ChecksumShift] = x \div TwoTo[e]
    <3>1. TwoTo[e + ChecksumShift] = TwoTo[e] * TwoTo[ChecksumShift]
      BY <2>4, ShiftFills, TwoToAdd
    <3> QED
      BY <1>5, <2>7, <3>1, DivCancel, SMTT(20) DEF v
  <2> QED
    BY <2>5, <2>9, <2>10, <2>11 DEF e
<1> HIDE DEF x
<1>8. C \in Seq(Nat) /\ Len(C) = WotsLen2 /\ Digits(C, WotsLen2)
  <2>1. ASSUME NEW p \in 1..WotsLen2 PROVE C[p] \in 0..(W - 1) /\ C[p] \in Nat
    <3> DEFINE e == LogW * (WotsLen2 - p)
    <3>1. e \in Nat
      BY <1>1
    <3>2. C[p] = (x \div TwoTo[e]) % W
      BY <1>7
    <3> HIDE DEF e
    <3>3. x \div TwoTo[e] \in Nat
      BY <1>5, <3>1, TwoToLaw, DivNat
    <3> QED
      BY <1>1, <3>2, <3>3
  <2>2. C = [p \in 1..WotsLen2 |-> C[p]]
    BY <1>6
  <2>3. C \in [1..WotsLen2 -> Nat]
    BY <2>1, <2>2
  <2>4. Digits(C, WotsLen2)
    BY <2>1 DEF Digits
  <2> QED
    BY <1>1, <2>3, <2>4
<1>9. Spelled(W, C) = x
  <2>1. WotsLen2 \in Nat
    BY <1>1
  <2> QED
    BY <1>5, <1>7, <1>8, <2>1, Horner
<1>10. ASSUME NEW f, IsSum(f, WotsLen1, d) PROVE f[WotsLen1] = x
  <2>1. \A i \in 1..WotsLen1 : d[i] <= d[i]
    BY <1>1 DEF Digits
  <2>2. f[WotsLen1] <= c[WotsLen1]
    BY <1>1, <1>4, <1>10, <2>1, SumMonotone
  <2>3. c[WotsLen1] <= f[WotsLen1]
    BY <1>1, <1>4, <1>10, <2>1, SumMonotone
  <2>4. f[WotsLen1] \in Nat /\ c[WotsLen1] \in Nat
    BY <1>1, <1>4, <1>10, SumBound
  <2> QED
    BY <2>2, <2>3, <2>4 DEF x
<1> QED
  BY <1>8, <1>9, <1>10 DEF C

-------------------------------------------------------------------------------
(* Both together. *)
LEMMA Pieces ==
    ASSUME NEW a \in Seq(Nat), NEW c \in Seq(Nat)
    PROVE  /\ SubSeq(a \o c, 1, Len(a)) = a
           /\ SubSeq(a \o c, Len(a) + 1, Len(a) + Len(c)) = c
           /\ \A i \in 1..Len(a) : (a \o c)[i] = a[i]
           /\ \A i \in 1..Len(c) : (a \o c)[Len(a) + i] = c[i]
OBVIOUS

(* Reading a piece of a sequence. *)
LEMMA Piece ==
    ASSUME NEW a \in Seq(Nat), NEW n \in Nat, NEW p \in Nat, p + n <= Len(a)
    PROVE  /\ Len(SubSeq(a, p + 1, p + n)) = n
           /\ \A k \in 1..n : SubSeq(a, p + 1, p + n)[k] = a[p + k]
OBVIOUS

(* chain_lengths is the digits of the message, then those of the checksum. *)
LEMMA Lengths ==
    ASSUME NEW m \in [1..N -> 0..255]
    PROVE  LET D == BaseW(WotsLen1, m)
               C == WotsChecksum(D)
           IN  /\ SubSeq(ChainLengths(m), 1, WotsLen1) = D
               /\ SubSeq(ChainLengths(m), WotsLen1 + 1, WotsLen) = C
               /\ \A i \in 1..WotsLen1 : ChainLengths(m)[i] = D[i]
               /\ \A i \in 1..WotsLen2 : ChainLengths(m)[WotsLen1 + i] = C[i]
<1> DEFINE D == BaseW(WotsLen1, m)
           C == WotsChecksum(D)
<1>1. D \in Seq(Nat) /\ Len(D) = WotsLen1 /\ Digits(D, WotsLen1)
  BY MessageDigits
<1>2. ChainLengths(m) = D \o C
  BY DEF ChainLengths
<1> HIDE DEF D
<1>3. C \in Seq(Nat) /\ Len(C) = WotsLen2
  BY <1>1, ChecksumDigits
<1> HIDE DEF C
<1>4. WotsLen = WotsLen1 + WotsLen2
  BY DEF WotsLen
<1>5. /\ SubSeq(ChainLengths(m), 1, WotsLen1) = D
      /\ SubSeq(ChainLengths(m), WotsLen1 + 1, WotsLen) = C
      /\ \A i \in 1..WotsLen1 : ChainLengths(m)[i] = D[i]
      /\ \A i \in 1..WotsLen2 : ChainLengths(m)[WotsLen1 + i] = C[i]
  <2>1. /\ SubSeq(D \o C, 1, Len(D)) = D
        /\ SubSeq(D \o C, Len(D) + 1, Len(D) + Len(C)) = C
        /\ \A i \in 1..Len(D) : (D \o C)[i] = D[i]
        /\ \A i \in 1..Len(C) : (D \o C)[Len(D) + i] = C[i]
    <3>1. D \in Seq(Nat) /\ C \in Seq(Nat)
      BY <1>1, <1>3
    <3> QED
      BY <3>1, Pieces
  <2> QED
    BY <1>1, <1>2, <1>3, <1>4, <2>1
<1> QED
  BY <1>5 DEF C, D

(* The digits of a byte spell it. *)
LEMMA ByteSpelled ==
    ASSUME NEW m \in [1..N -> 0..255], NEW i \in 1..N
    PROVE  Spelled(W, SubSeq(BaseW(WotsLen1, m), (i - 1) * PerByte + 1, i * PerByte)) = m[i]
<1> DEFINE D == BaseW(WotsLen1, m)
           p == (i - 1) * PerByte
           x == m[i]
           d == SubSeq(D, p + 1, p + PerByte)
<1>1. /\ PerByte \in Nat \ {0} /\ N \in Nat \ {0} /\ WotsLen1 = PerByte * N
      /\ LogW \in {1, 2, 4, 8} /\ LogW * PerByte = 8
  BY Sizes, SizesAssumption
<1>2. /\ D \in Seq(Nat) /\ Len(D) = WotsLen1
      /\ \A k \in 1..PerByte : D[p + k] = (x \div TwoTo[Low(k)]) % W
  BY MessageDigits
<1>3. p \in Nat /\ p + PerByte <= WotsLen1 /\ i * PerByte = p + PerByte
  <2>1. PerByte = 8 \/ PerByte = 4 \/ PerByte = 2 \/ PerByte = 1
    BY ByteSizes
  <2> QED
    BY <1>1, <2>1
<1>4. x \in Nat /\ x < 256
  <2>1. x \in 0..255
    BY <1>1
  <2> HIDE DEF x
  <2> QED
    BY <2>1
<1> HIDE DEF D, p, x
<1>5. Len(d) = PerByte /\ \A k \in 1..PerByte : d[k] = D[p + k]
  <2>1. PerByte \in Nat /\ p + PerByte <= Len(D)
    BY <1>1, <1>2, <1>3
  <2> QED
    BY <1>2, <1>3, <2>1, Piece
<1> HIDE DEF d
<1>6. \A k \in 1..PerByte : Low(k) = LogW * (PerByte - k)
  <2>1. \/ (PerByte = 8 /\ LogW = 1)
        \/ (PerByte = 4 /\ LogW = 2)
        \/ (PerByte = 2 /\ LogW = 4)
        \/ (PerByte = 1 /\ LogW = 8)
    BY ByteSizes
  <2> QED
    BY <2>1 DEF Low
<1>7. \A k \in 1..PerByte : d[k] = (x \div TwoTo[LogW * (PerByte - k)]) % W
  BY <1>2, <1>5, <1>6
<1>8. PerByte \in Nat /\ x < TwoTo[LogW * PerByte]
  BY <1>1, <1>4, SmallPowers
<1>9. Spelled(W, d) = x
  BY <1>4, <1>5, <1>7, <1>8, Horner
<1> QED
  BY <1>3, <1>9 DEF d, D, p, x

(* The digits of the checksum spell the sum. *)
LEMMA SumSpelled ==
    ASSUME NEW m \in [1..N -> 0..255], NEW c, IsSum(c, WotsLen1, BaseW(WotsLen1, m))
    PROVE  c[WotsLen1] = Spelled(W, WotsChecksum(BaseW(WotsLen1, m)))
<1>1. Digits(BaseW(WotsLen1, m), WotsLen1)
  BY MessageDigits
<1> QED
  BY <1>1, ChecksumDigits

(* No digits can all be walked on to those of another message. *)
LEMMA NoWayOn ==
    ASSUME NEW m \in [1..N -> 0..255], NEW o \in [1..N -> 0..255], m # o
    PROVE  \E i \in 1..WotsLen : ChainLengths(o)[i] < ChainLengths(m)[i]
<1> SUFFICES ASSUME \A i \in 1..WotsLen : ~(ChainLengths(o)[i] < ChainLengths(m)[i])
             PROVE  FALSE
  OBVIOUS
<1> DEFINE Dm == BaseW(WotsLen1, m)
           Do == BaseW(WotsLen1, o)
           Cm == WotsChecksum(Dm)
           Co == WotsChecksum(Do)
<1>1. /\ WotsLen1 \in Nat /\ WotsLen2 \in Nat /\ WotsLen = WotsLen1 + WotsLen2
      /\ W \in Nat
  BY Sizes
<1>2. Digits(Dm, WotsLen1) /\ Digits(Do, WotsLen1)
  BY MessageDigits
<1>3. \A i \in 1..WotsLen1 : ChainLengths(m)[i] = Dm[i] /\ ChainLengths(o)[i] = Do[i]
  BY Lengths
<1>4. \A i \in 1..WotsLen2 : /\ ChainLengths(m)[WotsLen1 + i] = Cm[i]
                              /\ ChainLengths(o)[WotsLen1 + i] = Co[i]
  BY Lengths
<1>5. \E i \in 1..WotsLen1 : Dm[i] # Do[i]
  <2> SUFFICES ASSUME \A i \in 1..WotsLen1 : Dm[i] = Do[i] PROVE FALSE
    OBVIOUS
  <2>1. Dm = Do
    BY DEF BaseW
  <2>2. \A i \in 1..N : m[i] = Spelled(W, SubSeq(Dm, (i - 1) * PerByte + 1, i * PerByte))
    BY ByteSpelled
  <2>3. \A i \in 1..N : o[i] = Spelled(W, SubSeq(Do, (i - 1) * PerByte + 1, i * PerByte))
    BY ByteSpelled
  <2> HIDE DEF Dm, Do
  <2>4. \A i \in 1..N : m[i] = o[i]
    BY <2>1, <2>2, <2>3
  <2>5. m = [i \in 1..N |-> m[i]] /\ o = [i \in 1..N |-> o[i]]
    OBVIOUS
  <2>6. m = o
    BY <2>4, <2>5
  <2> QED
    BY <2>6
<1>6. /\ Cm \in Seq(Nat) /\ Len(Cm) = WotsLen2
      /\ Co \in Seq(Nat) /\ Len(Co) = WotsLen2
  BY <1>2, ChecksumDigits
<1>7. PICK cm : IsSum(cm, WotsLen1, Dm)
  BY <1>1, <1>2, SumExists
<1>8. PICK co : IsSum(co, WotsLen1, Do)
  BY <1>1, <1>2, SumExists
<1>9. cm[WotsLen1] = Spelled(W, Cm) /\ co[WotsLen1] = Spelled(W, Co)
  BY <1>7, <1>8, SumSpelled
<1> HIDE DEF Dm, Do, Cm, Co
<1>10. \A i \in 1..WotsLen1 : Dm[i] <= Do[i]
  <2> SUFFICES ASSUME NEW i \in 1..WotsLen1 PROVE Dm[i] <= Do[i]
    OBVIOUS
  <2>1. i \in 1..WotsLen
    BY <1>1
  <2>2. ~(Do[i] < Dm[i])
    BY <1>3, <2>1
  <2>3. Dm[i] \in Nat /\ Do[i] \in Nat
    BY <1>1, <1>2 DEF Digits
  <2> QED
    BY <2>2, <2>3
<1>11. \A i \in 1..WotsLen2 : Cm[i] \in Nat /\ Co[i] \in Nat /\ Cm[i] <= Co[i]
  <2> SUFFICES ASSUME NEW i \in 1..WotsLen2
               PROVE  Cm[i] \in Nat /\ Co[i] \in Nat /\ Cm[i] <= Co[i]
    OBVIOUS
  <2>1. WotsLen1 + i \in 1..WotsLen
    BY <1>1
  <2>2. ~(Co[i] < Cm[i])
    BY <1>4, <2>1
  <2>3. Cm[i] \in Nat /\ Co[i] \in Nat
    BY <1>6
  <2> QED
    BY <2>2, <2>3
<1>12. co[WotsLen1] < cm[WotsLen1]
  <2>1. \A i \in 0..WotsLen1 : (\E j \in 1..i : Dm[j] # Do[j]) => co[i] < cm[i]
    BY <1>1, <1>2, <1>7, <1>8, <1>10, SumMonotone
  <2> QED
    BY <1>1, <1>5, <2>1
<1>13. Spelled(W, Cm) <= Spelled(W, Co)
  BY <1>1, <1>6, <1>11, SpelledMonotone
<1>14. cm[WotsLen1] \in Nat /\ co[WotsLen1] \in Nat
  BY <1>1, <1>2, <1>7, <1>8, SumBound
<1> QED
  BY <1>9, <1>12, <1>13, <1>14

-------------------------------------------------------------------------------
(* The addresses of one key pair: only chain and hash ever change. *)
At(kp, c, h) ==
    [layer |-> kp.layer, tree |-> kp.tree, type |-> WOTS, kp1 |-> kp.kp1, b17 |-> c,
     b18_20 |-> 0, b21 |-> h]

(* What the functions are given besides: the secret seed and the hash state. *)
SkSeedOf(kp) == kp.sk
SeededOf(kp) == kp.seeded

OfKey(kp, a) == \E c, h : a = At(kp, c, h)

(* set_chain_addr and set_hash_addr change one byte each. *)
LEMMA SetFields ==
    ASSUME NEW kp, NEW c, NEW h, NEW n
    PROVE  SetChain(At(kp, c, h), n) = At(kp, Byte(n), h) /\ SetHash(At(kp, c, h), n) = At(kp, c, Byte(n))
BY DEF At, SetChain, SetHash

(* A walk along the chain c from value x at step from to step last. *)
IsWalk(kp, o, c, x, from, last) ==
    o = [i \in from..last |-> IF i = from THEN x
                              ELSE Thash(SeededOf(kp), At(kp, c, i - 1), <<o[i - 1]>>)]

(* The loop of gen_chain has a result. *)
LEMMA WalkExists ==
    ASSUME NEW kp, NEW c, NEW x, NEW from \in Nat, NEW last \in Nat, from <= last
    PROVE  \E o : IsWalk(kp, o, c, x, from, last)
<1> DEFINE H(i, v) == Thash(SeededOf(kp), At(kp, c, i - 1), <<v>>)
           Is(o, l) == o = [i \in from..l |-> IF i = from THEN x ELSE H(i, o[i - 1])]
           T == {n \in Nat : \E o : Is(o, from + n)}
<1> HIDE DEF H
<1>1. 0 \in T
  <2> DEFINE o == [i \in from..(from + 0) |-> x]
  <2>1. Is(o, from + 0)
    OBVIOUS
  <2> HIDE DEF Is, o
  <2> QED
    BY <2>1
<1>2. ASSUME NEW n \in T PROVE n + 1 \in T
  <2> DEFINE l == from + n
  <2>1. PICK h : Is(h, l)
    OBVIOUS
  <2>2. l \in Nat /\ from <= l /\ from + (n + 1) = l + 1
    OBVIOUS
  <2> HIDE DEF l
  <2> DEFINE g == [i \in from..(l + 1) |-> IF i = l + 1 THEN H(l + 1, h[l]) ELSE h[i]]
  <2>3. \A i \in from..(l + 1) : g[i] = IF i = from THEN x ELSE H(i, g[i - 1])
    <3> SUFFICES ASSUME NEW i \in from..(l + 1)
                 PROVE  g[i] = IF i = from THEN x ELSE H(i, g[i - 1])
      OBVIOUS
    <3>1. CASE i = l + 1
      <4>1. g[i] = H(l + 1, h[l]) /\ g[i - 1] = h[l] /\ i # from
        BY <2>2, <3>1
      <4> QED
        BY <3>1, <4>1
    <3>2. CASE i # l + 1
      <4>1. i \in from..l /\ g[i] = h[i] /\ (i # from => g[i - 1] = h[i - 1])
        BY <2>2, <3>2
      <4>2. h[i] = IF i = from THEN x ELSE H(i, h[i - 1])
        BY <2>1, <4>1
      <4> QED
        BY <4>1, <4>2
    <3> QED
      BY <3>1, <3>2
  <2>4. g = [i \in from..(l + 1) |-> g[i]]
    OBVIOUS
  <2> HIDE DEF g
  <2>5. Is(g, l + 1)
    BY <2>3, <2>4
  <2> HIDE DEF Is
  <2> QED
    BY <2>2, <2>5
<1>3. T = Nat
  <2>1. T \subseteq Nat
    OBVIOUS
  <2> HIDE DEF T
  <2> QED
    BY <1>1, <1>2, <2>1, NatInd
<1>4. last - from \in Nat /\ from + (last - from) = last
  OBVIOUS
<1>5. \E o : Is(o, last)
  <2>1. \E o : Is(o, from + (last - from))
    <3> HIDE DEF Is
    <3> QED
      BY <1>3, <1>4
  <2> HIDE DEF Is
  <2> QED
    BY <1>4, <2>1
<1> QED
  BY <1>5 DEF IsWalk, H

(* Every step of o from one to the other is a hash at that step. *)
Steps(kp, o, c, from, last) ==
    \A i \in from..(last - 1) : o[i + 1] = Thash(SeededOf(kp), At(kp, c, i), <<o[i]>>)

(* Step after step of a walk is a hash of the step before. *)
LEMMA WalkLaw ==
    ASSUME NEW kp, NEW c, NEW x, NEW from \in Nat, NEW last \in Nat, from <= last,
           NEW o, IsWalk(kp, o, c, x, from, last)
    PROVE  o[from] = x /\ Steps(kp, o, c, from, last)
<1>1. \A i \in from..last : o[i] = IF i = from THEN x ELSE Thash(SeededOf(kp), At(kp, c, i - 1), <<o[i - 1]>>)
  BY DEF IsWalk
<1>2. o[from] = x
  <2>1. from \in from..last
    OBVIOUS
  <2> QED
    BY <1>1, <2>1
<1>3. ASSUME NEW i \in from..(last - 1)
      PROVE  o[i + 1] = Thash(SeededOf(kp), At(kp, c, i), <<o[i]>>)
  <2>1. i + 1 \in from..last /\ i + 1 # from /\ (i + 1) - 1 = i
    OBVIOUS
  <2> QED
    BY <1>1, <2>1
<1> QED
  BY <1>2, <1>3 DEF Steps

(* Two walks that meet at a step go on together. *)
LEMMA WalkOn ==
    ASSUME NEW kp, NEW o, NEW p, NEW c, NEW from \in Nat, NEW last \in Nat, from <= last,
           o[from] = p[from], Steps(kp, o, c, from, last), Steps(kp, p, c, from, last)
    PROVE  \A i \in from..last : o[i] = p[i]
<1> DEFINE T == {n \in Nat : from + n <= last => o[from + n] = p[from + n]}
<1>1. 0 \in T
  OBVIOUS
<1>2. ASSUME NEW n \in T PROVE n + 1 \in T
  <2> SUFFICES ASSUME from + (n + 1) <= last PROVE o[from + (n + 1)] = p[from + (n + 1)]
    OBVIOUS
  <2> DEFINE i == from + n
  <2>1. i \in from..(last - 1) /\ from + (n + 1) = i + 1 /\ o[i] = p[i]
    OBVIOUS
  <2> HIDE DEF i
  <2> QED
    BY <2>1 DEF Steps
<1>3. T = Nat
  <2>1. T \subseteq Nat
    OBVIOUS
  <2> HIDE DEF T
  <2> QED
    BY <1>1, <1>2, <2>1, NatInd
<1>4. ASSUME NEW i \in from..last PROVE o[i] = p[i]
  <2>1. i - from \in Nat /\ from + (i - from) = i /\ from + (i - from) <= last
    OBVIOUS
  <2>2. i - from \in T
    BY <1>3, <2>1
  <2> QED
    BY <2>1, <2>2
<1> QED
  BY <1>4

(* The whole chain c, from its secret value at step 0 to its end. *)
Secret(kp, c) == Prf(SkSeedOf(kp), At(kp, c, 0))
Whole(kp, c) == CHOOSE o : IsWalk(kp, o, c, Secret(kp, c), 0, W - 1)

(* A whole chain begins at its secret and is W - 1 hashes long. *)
LEMMA WholeLaw ==
    ASSUME NEW kp, NEW c
    PROVE  Whole(kp, c)[0] = Secret(kp, c) /\ Steps(kp, Whole(kp, c), c, 0, W - 1)
<1>1. W - 1 \in Nat /\ 0 <= W - 1
  BY Sizes
<1>2. \E o : IsWalk(kp, o, c, Secret(kp, c), 0, W - 1)
  BY <1>1, WalkExists
<1> DEFINE o == Whole(kp, c)
<1>3. IsWalk(kp, o, c, Secret(kp, c), 0, W - 1)
  BY <1>2 DEF Whole
<1> HIDE DEF o
<1>4. o[0] = Secret(kp, c) /\ Steps(kp, o, c, 0, W - 1)
  BY <1>1, <1>3, WalkLaw
<1> QED
  BY <1>4 DEF o

(* Hashes are equal only if what was hashed is. *)
LEMMA ThashInjective ==
    ASSUME NEW s, NEW a, NEW b, NEW x, NEW y, Thash(s, a, <<x>>) = Thash(s, b, <<y>>)
    PROVE  a = b /\ x = y
BY DEF Thash

(* No hash is a secret: the results of thash and prf_addr are apart. *)
LEMMA ThashNotSecret ==
    ASSUME NEW kp, NEW c, NEW s, NEW a, NEW in
    PROVE  Thash(s, a, in) # Secret(kp, c)
BY DEF Thash, Secret, Prf

-------------------------------------------------------------------------------
(* gen_chain walks; the hash field is the only part of the address it sets. *)
End(kp, c, x, from, last) == (CHOOSE o : IsWalk(kp, o, c, x, from, last))[last]

(* Every walk with that beginning has the same end. *)
LEMMA EndOfWalk ==
    ASSUME NEW kp, NEW c, NEW x, NEW from \in Nat, NEW last \in Nat, from <= last,
           NEW o, IsWalk(kp, o, c, x, from, last)
    PROVE  End(kp, c, x, from, last) = o[last]
<1> DEFINE p == CHOOSE q : IsWalk(kp, q, c, x, from, last)
<1>1. IsWalk(kp, p, c, x, from, last)
  OBVIOUS
<1>2. End(kp, c, x, from, last) = p[last]
  BY DEF End
<1> HIDE DEF p
<1>3. o[from] = x /\ Steps(kp, o, c, from, last)
  BY WalkLaw
<1>4. p[from] = x /\ Steps(kp, p, c, from, last)
  BY <1>1, WalkLaw
<1>5. o[from] = p[from]
  BY <1>3, <1>4
<1>6. \A i \in from..last : o[i] = p[i]
  BY <1>3, <1>4, <1>5, WalkOn
<1> QED
  BY <1>2, <1>6

(* A number below 256 fits its byte of the address. *)
LEMMA SmallByte == \A n \in 0..255 : Byte(n) = n
BY DEF Byte

(* gen_chain is a walk, and leaves an address of the same key. *)
LEMMA GenChainLaw ==
    ASSUME NEW kp, NEW c, NEW h, NEW x, NEW start \in Nat, NEW steps \in Nat, start + steps < W
    PROVE  /\ GenChain(SeededOf(kp), x, start, steps, At(kp, c, h)).out = End(kp, c, x, start, start + steps)
           /\ \E n : GenChain(SeededOf(kp), x, start, steps, At(kp, c, h)).addr = At(kp, c, n)
<1> DEFINE last == start + steps
           Is(o) == o = [i \in start..last |->
                            IF i = start THEN x
                            ELSE Thash(SeededOf(kp), SetHash(At(kp, c, h), i - 1), <<o[i - 1]>>)]
           g == GenChain(SeededOf(kp), x, start, steps, At(kp, c, h))
<1>1. last \in Nat /\ start <= last /\ last < W /\ W \in Nat /\ W <= 256
  BY Sizes
<1>2. g = [addr |-> IF last > start THEN SetHash(At(kp, c, h), last - 1) ELSE At(kp, c, h),
           out |-> (CHOOSE o : Is(o))[last]]
  BY <1>1 DEF GenChain, StepAddr
<1> HIDE DEF g, last
<1>3. ASSUME NEW o PROVE Is(o) <=> IsWalk(kp, o, c, x, start, last)
  <2>1. ASSUME NEW i \in start..last, i # start
        PROVE  SetHash(At(kp, c, h), i - 1) = At(kp, c, i - 1)
    <3>1. i - 1 \in 0..255
      BY <1>1, <2>1
    <3>2. Byte(i - 1) = i - 1
      BY <3>1, SmallByte
    <3> QED
      BY <3>2, SetFields
  <2>2. [i \in start..last |-> IF i = start THEN x
                               ELSE Thash(SeededOf(kp), SetHash(At(kp, c, h), i - 1), <<o[i - 1]>>)]
        = [i \in start..last |-> IF i = start THEN x
                                 ELSE Thash(SeededOf(kp), At(kp, c, i - 1), <<o[i - 1]>>)]
    BY <2>1
  <2> QED
    BY <2>2 DEF IsWalk
<1> HIDE DEF Is
<1>4. \E o : IsWalk(kp, o, c, x, start, last)
  BY <1>1, WalkExists
<1> DEFINE o == CHOOSE q : Is(q)
<1>5. Is(o)
  BY <1>3, <1>4
<1>6. g.out = o[last] /\ (g.addr = SetHash(At(kp, c, h), last - 1) \/ g.addr = At(kp, c, h))
  BY <1>2
<1> HIDE DEF o
<1>7. IsWalk(kp, o, c, x, start, last)
  BY <1>3, <1>5
<1>8. End(kp, c, x, start, last) = o[last]
  BY <1>1, <1>7, EndOfWalk
<1>9. \E n : g.addr = At(kp, c, n)
  BY <1>6, SetFields
<1> QED
  BY <1>6, <1>8, <1>9 DEF g, last

(* One chain of any of the three functions: of its secret value or of a      *)
(* signature x; from[i] is where it begins, steps[i] how far it goes.        *)
Turn(kp, of, x, from, steps, a, i) ==
    LET b == IF of = "secret" THEN SetHash(a, 0) ELSE a
        y == IF of = "secret" THEN Prf(SkSeedOf(kp), b) ELSE x[i]
    IN  GenChain(SeededOf(kp), y, from[i], steps[i], b)

Result(kp, of, x, from, steps, i) ==
    LET c == Byte(i - 1)
    IN  End(kp, c, IF of = "secret" THEN Secret(kp, c) ELSE x[i], from[i], from[i] + steps[i])

(* One turn of the loop over the chains, whatever the turn before left in the address. *)
LEMMA TurnLaw ==
    ASSUME NEW kp, NEW of \in {"secret", "sig"}, NEW x, NEW from, NEW steps, NEW i,
           from[i] \in Nat, steps[i] \in Nat, from[i] + steps[i] < W, NEW c, NEW h
    PROVE  LET t == Turn(kp, of, x, from, steps, ChainAddr(At(kp, c, h), i), i)
           IN  t.out = Result(kp, of, x, from, steps, i) /\ OfKey(kp, t.addr)
<1> DEFINE d == Byte(i - 1)
           f == from[i]
           s == steps[i]
<1>1. ChainAddr(At(kp, c, h), i) = At(kp, d, h)
  BY SetFields DEF ChainAddr
<1>2. SetHash(At(kp, d, h), 0) = At(kp, d, 0)
  <2>1. Byte(0) = 0
    BY SmallByte
  <2> QED
    BY <2>1, SetFields
<1> HIDE DEF d, f, s
<1>3. f \in Nat /\ s \in Nat /\ f + s < W
  BY DEF f, s
<1>4. CASE of = "secret"
  <2>1. Turn(kp, of, x, from, steps, ChainAddr(At(kp, c, h), i), i) = GenChain(SeededOf(kp), Secret(kp, d), f, s, At(kp, d, 0))
    BY <1>1, <1>2, <1>4 DEF Turn, Secret, f, s
  <2>2. Result(kp, of, x, from, steps, i) = End(kp, d, Secret(kp, d), f, f + s)
    BY <1>4 DEF Result, d, f, s
  <2>3. GenChain(SeededOf(kp), Secret(kp, d), f, s, At(kp, d, 0)).out = End(kp, d, Secret(kp, d), f, f + s)
    BY <1>3, GenChainLaw
  <2>4. \E n : GenChain(SeededOf(kp), Secret(kp, d), f, s, At(kp, d, 0)).addr = At(kp, d, n)
    BY <1>3, GenChainLaw
  <2> QED
    BY <2>1, <2>2, <2>3, <2>4 DEF OfKey
<1>5. CASE of = "sig"
  <2>1. Turn(kp, of, x, from, steps, ChainAddr(At(kp, c, h), i), i) = GenChain(SeededOf(kp), x[i], f, s, At(kp, d, h))
    BY <1>1, <1>5 DEF Turn, f, s
  <2>2. Result(kp, of, x, from, steps, i) = End(kp, d, x[i], f, f + s)
    BY <1>5 DEF Result, d, f, s
  <2>3. GenChain(SeededOf(kp), x[i], f, s, At(kp, d, h)).out = End(kp, d, x[i], f, f + s)
    BY <1>3, GenChainLaw
  <2>4. \E n : GenChain(SeededOf(kp), x[i], f, s, At(kp, d, h)).addr = At(kp, d, n)
    BY <1>3, GenChainLaw
  <2> QED
    BY <2>1, <2>2, <2>3, <2>4 DEF OfKey
<1> QED
  BY <1>4, <1>5

-------------------------------------------------------------------------------
(* The loop over the chains. *)
After(kp, before, of, x, from, steps, i) ==
    LET c == Turn(kp, of, x, from, steps, ChainAddr(before.addr, i), i)
    IN  [addr |-> c.addr, out |-> Append(before.out, c.out)]

IsLoop(kp, s, n, of, x, from, steps, a) ==
    s = [i \in 0..n |-> IF i = 0 THEN [addr |-> a, out |-> <<>>]
                        ELSE After(kp, s[i - 1], of, x, from, steps, i)]

(* The loop over the chains has a result. *)
LEMMA LoopExists ==
    ASSUME NEW kp, NEW m \in Nat, NEW of, NEW x, NEW from, NEW steps, NEW a
    PROVE  \E s : IsLoop(kp, s, m, of, x, from, steps, a)
<1> DEFINE Z == [addr |-> a, out |-> <<>>]
           E(v, i) == After(kp, v, of, x, from, steps, i)
           Is(s, n) == s = [i \in 0..n |-> IF i = 0 THEN Z ELSE E(s[i - 1], i)]
           T == {n \in Nat : \E s : Is(s, n)}
<1> HIDE DEF E, Z
<1>1. 0 \in T
  <2>1. Is([i \in 0..0 |-> Z], 0)
    OBVIOUS
  <2> HIDE DEF Is
  <2> QED
    BY <2>1
<1>2. ASSUME NEW n \in T PROVE n + 1 \in T
  <2>1. PICK h : Is(h, n)
    OBVIOUS
  <2> DEFINE g == [i \in 0..(n + 1) |-> IF i = n + 1 THEN E(h[n], n + 1) ELSE h[i]]
  <2>2. \A i \in 0..(n + 1) : g[i] = IF i = 0 THEN Z ELSE E(g[i - 1], i)
    <3> SUFFICES ASSUME NEW i \in 0..(n + 1)
                 PROVE  g[i] = IF i = 0 THEN Z ELSE E(g[i - 1], i)
      OBVIOUS
    <3>1. n \in Nat
      OBVIOUS
    <3>2. CASE i = n + 1
      <4>1. g[i] = E(h[n], n + 1) /\ g[i - 1] = h[n] /\ i # 0
        BY <3>1, <3>2
      <4> QED
        BY <3>2, <4>1
    <3>3. CASE i # n + 1
      <4>1. i \in 0..n /\ g[i] = h[i] /\ (i # 0 => g[i - 1] = h[i - 1])
        BY <3>1, <3>3
      <4>2. h[i] = IF i = 0 THEN Z ELSE E(h[i - 1], i)
        BY <2>1, <4>1
      <4> QED
        BY <4>1, <4>2
    <3> QED
      BY <3>2, <3>3
  <2>3. g = [i \in 0..(n + 1) |-> g[i]]
    OBVIOUS
  <2> HIDE DEF g
  <2>4. Is(g, n + 1)
    BY <2>2, <2>3
  <2>5. n + 1 \in Nat
    OBVIOUS
  <2> HIDE DEF Is
  <2> QED
    BY <2>4, <2>5
<1>3. T = Nat
  <2>1. T \subseteq Nat
    OBVIOUS
  <2> HIDE DEF T
  <2> QED
    BY <1>1, <1>2, <2>1, NatInd
<1>4. \E s : Is(s, m)
  <2> HIDE DEF Is
  <2> QED
    BY <1>3
<1> QED
  BY <1>4 DEF IsLoop, E, Z

(* Appending the next element to the ones so far. *)
LEMMA AppendTo ==
    ASSUME NEW n \in Nat, NEW v
    PROVE  Append([i \in 1..n |-> v[i]], v[n + 1]) = [i \in 1..(n + 1) |-> v[i]]
<1> DEFINE S == {v[i] : i \in 1..(n + 1)}
           a == [i \in 1..n |-> v[i]]
           b == Append(a, v[n + 1])
<1>1. a \in Seq(S) /\ Len(a) = n /\ v[n + 1] \in S
  OBVIOUS
<1>2. \A i \in 1..n : a[i] = v[i]
  OBVIOUS
<1> HIDE DEF S, a
<1>3. /\ b \in Seq(S) /\ Len(b) = n + 1
      /\ \A i \in 1..n : b[i] = a[i]
      /\ b[n + 1] = v[n + 1]
  BY <1>1
<1> HIDE DEF b
<1>4. b = [i \in 1..(n + 1) |-> b[i]]
  BY <1>3
<1>5. \A i \in 1..(n + 1) : b[i] = v[i]
  BY <1>2, <1>3
<1> QED
  BY <1>4, <1>5 DEF b, a

(* No chain is walked past its end. *)
InChain(from, steps) ==
    \A i \in 1..WotsLen :
        from[i] \in Nat /\ steps[i] \in Nat /\ from[i] + steps[i] < W

(* The loop over the chains makes each of them as if it were the only one. *)
LEMMA LoopLaw ==
    ASSUME NEW kp, NEW of \in {"secret", "sig"}, NEW x, NEW from, NEW steps, InChain(from, steps),
           NEW c, NEW h, NEW s, IsLoop(kp, s, WotsLen, of, x, from, steps, At(kp, c, h))
    PROVE  /\ s[WotsLen].out = [i \in 1..WotsLen |-> Result(kp, of, x, from, steps, i)]
           /\ OfKey(kp, s[WotsLen].addr)
<1> DEFINE v == [i \in 1..WotsLen |-> Result(kp, of, x, from, steps, i)]
           Good(i) == s[i].out = [j \in 1..i |-> v[j]] /\ OfKey(kp, s[i].addr)
           T == {i \in Nat : i <= WotsLen => Good(i)}
<1>1. WotsLen \in Nat
  BY Sizes
<1>2. \A i \in 0..WotsLen : s[i] = IF i = 0 THEN [addr |-> At(kp, c, h), out |-> <<>>]
                                   ELSE After(kp, s[i - 1], of, x, from, steps, i)
  BY DEF IsLoop
<1>3. \A i \in 1..WotsLen : v[i] = Result(kp, of, x, from, steps, i)
  OBVIOUS
<1> HIDE DEF v
<1>4. 0 \in T
  <2>1. s[0] = [addr |-> At(kp, c, h), out |-> <<>>]
    BY <1>1, <1>2
  <2>2. <<>> = [j \in 1..0 |-> v[j]]
    OBVIOUS
  <2> QED
    BY <2>1, <2>2 DEF OfKey
<1>5. ASSUME NEW i \in T PROVE i + 1 \in T
  <2> SUFFICES ASSUME i + 1 <= WotsLen PROVE Good(i + 1)
    OBVIOUS
  <2>1. i \in Nat /\ i + 1 \in 1..WotsLen /\ i + 1 # 0 /\ (i + 1) - 1 = i /\ Good(i)
    BY <1>1
  <2>2. PICK d, n : s[i].addr = At(kp, d, n)
    BY <2>1 DEF OfKey
  <2> DEFINE t == Turn(kp, of, x, from, steps, ChainAddr(At(kp, d, n), i + 1), i + 1)
  <2>3. s[i + 1] = [addr |-> t.addr, out |-> Append(s[i].out, t.out)]
    <3>1. s[i + 1] = After(kp, s[i], of, x, from, steps, i + 1)
      BY <1>2, <2>1
    <3> QED
      BY <2>2, <3>1 DEF After
  <2>4. t.out = v[i + 1] /\ OfKey(kp, t.addr)
    <3>1. from[i + 1] \in Nat /\ steps[i + 1] \in Nat /\ from[i + 1] + steps[i + 1] < W
      BY <2>1 DEF InChain
    <3>2. t.out = Result(kp, of, x, from, steps, i + 1) /\ OfKey(kp, t.addr)
      BY <3>1, TurnLaw
    <3> QED
      BY <1>3, <2>1, <3>2
  <2> HIDE DEF t
  <2>5. s[i + 1].out = Append([j \in 1..i |-> v[j]], v[i + 1])
    BY <2>1, <2>3, <2>4
  <2>6. s[i + 1].out = [j \in 1..(i + 1) |-> v[j]]
    BY <2>1, <2>5, AppendTo
  <2>7. OfKey(kp, s[i + 1].addr)
    BY <2>3, <2>4
  <2> QED
    BY <2>6, <2>7
<1>6. T = Nat
  <2>1. T \subseteq Nat
    OBVIOUS
  <2> HIDE DEF T
  <2> QED
    BY <1>4, <1>5, <2>1, NatInd
<1>7. Good(WotsLen)
  <2> HIDE DEF Good
  <2>1. WotsLen \in T
    BY <1>1, <1>6
  <2> QED
    BY <1>1, <2>1
<1>8. s[WotsLen].out = [i \in 1..WotsLen |-> Result(kp, of, x, from, steps, i)]
  BY <1>3, <1>7
<1> QED
  BY <1>7, <1>8

-------------------------------------------------------------------------------
(* What the three functions return, and that the address stays the key pair's. *)
Starts == [i \in 1..WotsLen |-> 0]
WholeSteps == [i \in 1..WotsLen |-> W - 1]

(* chain_lengths never asks for more steps than a chain has. *)
LEMMA LengthsInRange ==
    ASSUME NEW m \in [1..N -> 0..255]
    PROVE  \A i \in 1..WotsLen : ChainLengths(m)[i] \in 0..(W - 1)
<1> DEFINE D == BaseW(WotsLen1, m)
           C == WotsChecksum(D)
<1>1. WotsLen1 \in Nat /\ WotsLen2 \in Nat /\ WotsLen = WotsLen1 + WotsLen2
  BY Sizes
<1>2. Digits(D, WotsLen1)
  BY MessageDigits
<1>3. Digits(C, WotsLen2)
  BY <1>2, ChecksumDigits
<1>4. /\ \A i \in 1..WotsLen1 : ChainLengths(m)[i] = D[i]
      /\ \A i \in 1..WotsLen2 : ChainLengths(m)[WotsLen1 + i] = C[i]
  BY Lengths
<1> HIDE DEF D, C
<1> SUFFICES ASSUME NEW i \in 1..WotsLen PROVE ChainLengths(m)[i] \in 0..(W - 1)
  OBVIOUS
<1>5. CASE i <= WotsLen1
  <2>1. i \in 1..WotsLen1
    BY <1>1, <1>5
  <2> QED
    BY <1>2, <1>4, <2>1 DEF Digits
<1>6. CASE i > WotsLen1
  <2>1. i - WotsLen1 \in 1..WotsLen2 /\ WotsLen1 + (i - WotsLen1) = i
    BY <1>1, <1>6
  <2>2. ChainLengths(m)[i] = C[i - WotsLen1]
    BY <1>4, <2>1
  <2> QED
    BY <1>3, <2>1, <2>2 DEF Digits
<1> QED
  BY <1>1, <1>5, <1>6

(* wots_gen_pk returns the ends of the whole chains. *)
LEMMA GenLaw ==
    ASSUME NEW kp, NEW c, NEW h
    PROVE  LET r == WotsGenPk(SkSeedOf(kp), SeededOf(kp), At(kp, c, h))
           IN  /\ r.out = [i \in 1..WotsLen |-> Result(kp, "secret", <<>>, Starts, WholeSteps, i)]
               /\ OfKey(kp, r.addr)
<1> DEFINE from == Starts
           steps == WholeSteps
           Of(a, i) == GenChain(SeededOf(kp), WotsGenSk(SkSeedOf(kp), a).out, 0, W - 1, WotsGenSk(SkSeedOf(kp), a).addr)
           Is(s) == s = [i \in 0..WotsLen |->
                            IF i = 0 THEN [addr |-> At(kp, c, h), out |-> <<>>]
                            ELSE [addr |-> Of(ChainAddr(s[i - 1].addr, i), i).addr,
                                  out |-> Append(s[i - 1].out, Of(ChainAddr(s[i - 1].addr, i), i).out)]]
           s == CHOOSE q : Is(q)
           r == WotsGenPk(SkSeedOf(kp), SeededOf(kp), At(kp, c, h))
<1>1. r = s[WotsLen]
  BY DEF WotsGenPk, AllChains, Chains
<1>2. ASSUME NEW i \in 1..WotsLen, NEW a PROVE Of(a, i) = Turn(kp, "secret", <<>>, from, steps, a, i)
  BY DEF Turn, WotsGenSk, Starts, WholeSteps
<1>3. WotsLen \in Nat /\ "secret" \in {"secret", "sig"} /\ InChain(from, steps)
  BY Sizes DEF InChain, Starts, WholeSteps
<1> HIDE DEF Of, from, steps, r
<1>4. ASSUME NEW q PROVE Is(q) <=> IsLoop(kp, q, WotsLen, "secret", <<>>, from, steps, At(kp, c, h))
  <2>1. ASSUME NEW i \in 0..WotsLen, i # 0
        PROVE  [addr |-> Of(ChainAddr(q[i - 1].addr, i), i).addr,
                out |-> Append(q[i - 1].out, Of(ChainAddr(q[i - 1].addr, i), i).out)]
               = After(kp, q[i - 1], "secret", <<>>, from, steps, i)
    <3>1. i \in 1..WotsLen
      BY <1>3, <2>1
    <3> QED
      BY <1>2, <3>1 DEF After
  <2> DEFINE L == [i \in 0..WotsLen |->
                      IF i = 0 THEN [addr |-> At(kp, c, h), out |-> <<>>]
                      ELSE [addr |-> Of(ChainAddr(q[i - 1].addr, i), i).addr,
                            out |-> Append(q[i - 1].out, Of(ChainAddr(q[i - 1].addr, i), i).out)]]
             R == [i \in 0..WotsLen |->
                      IF i = 0 THEN [addr |-> At(kp, c, h), out |-> <<>>]
                      ELSE After(kp, q[i - 1], "secret", <<>>, from, steps, i)]
  <2>2. L = R
    BY <2>1
  <2>3. (Is(q) <=> q = L) /\ (IsLoop(kp, q, WotsLen, "secret", <<>>, from, steps, At(kp, c, h)) <=> q = R)
    BY DEF IsLoop
  <2> HIDE DEF L, R, Is
  <2> QED
    BY <2>2, <2>3
<1> HIDE DEF Is
<1>5. Is(s)
  <2>1. \E q : IsLoop(kp, q, WotsLen, "secret", <<>>, from, steps, At(kp, c, h))
    BY <1>3, LoopExists
  <2> QED
    BY <1>4, <2>1
<1> HIDE DEF s
<1>6. IsLoop(kp, s, WotsLen, "secret", <<>>, from, steps, At(kp, c, h))
  BY <1>4, <1>5
<1>7. /\ s[WotsLen].out = [i \in 1..WotsLen |-> Result(kp, "secret", <<>>, from, steps, i)]
      /\ OfKey(kp, s[WotsLen].addr)
  BY <1>3, <1>6, LoopLaw
<1> QED
  BY <1>1, <1>7 DEF r, from, steps, OfKey

(* wots_sign returns the points on the chains that the lengths name. *)
LEMMA SignLaw ==
    ASSUME NEW kp, NEW c, NEW h, NEW m \in [1..N -> 0..255]
    PROVE  LET r == WotsSign(m, SkSeedOf(kp), SeededOf(kp), At(kp, c, h))
           IN  /\ r.out = [i \in 1..WotsLen |-> Result(kp, "secret", <<>>, Starts, ChainLengths(m), i)]
               /\ OfKey(kp, r.addr)
<1> DEFINE from == Starts
           steps == ChainLengths(m)
           Of(a, i) == GenChain(SeededOf(kp), WotsGenSk(SkSeedOf(kp), a).out, 0, ChainLengths(m)[i], WotsGenSk(SkSeedOf(kp), a).addr)
           Is(s) == s = [i \in 0..WotsLen |->
                            IF i = 0 THEN [addr |-> At(kp, c, h), out |-> <<>>]
                            ELSE [addr |-> Of(ChainAddr(s[i - 1].addr, i), i).addr,
                                  out |-> Append(s[i - 1].out, Of(ChainAddr(s[i - 1].addr, i), i).out)]]
           s == CHOOSE q : Is(q)
           r == WotsSign(m, SkSeedOf(kp), SeededOf(kp), At(kp, c, h))
<1>1. r = s[WotsLen]
  BY DEF WotsSign, AllChains, Chains
<1>2. ASSUME NEW i \in 1..WotsLen, NEW a PROVE Of(a, i) = Turn(kp, "secret", <<>>, from, steps, a, i)
  BY DEF Turn, WotsGenSk, Starts
<1>3. WotsLen \in Nat /\ "secret" \in {"secret", "sig"} /\ InChain(from, steps)
  <2>1. W \in Nat /\ WotsLen \in Nat
    BY Sizes
  <2>2. \A i \in 1..WotsLen : ChainLengths(m)[i] \in 0..(W - 1)
    BY LengthsInRange
  <2> QED
    BY <2>1, <2>2 DEF InChain, Starts
<1> HIDE DEF Of, from, steps, r
<1>4. ASSUME NEW q PROVE Is(q) <=> IsLoop(kp, q, WotsLen, "secret", <<>>, from, steps, At(kp, c, h))
  <2>1. ASSUME NEW i \in 0..WotsLen, i # 0
        PROVE  [addr |-> Of(ChainAddr(q[i - 1].addr, i), i).addr,
                out |-> Append(q[i - 1].out, Of(ChainAddr(q[i - 1].addr, i), i).out)]
               = After(kp, q[i - 1], "secret", <<>>, from, steps, i)
    <3>1. i \in 1..WotsLen
      BY <1>3, <2>1
    <3> QED
      BY <1>2, <3>1 DEF After
  <2> DEFINE L == [i \in 0..WotsLen |->
                      IF i = 0 THEN [addr |-> At(kp, c, h), out |-> <<>>]
                      ELSE [addr |-> Of(ChainAddr(q[i - 1].addr, i), i).addr,
                            out |-> Append(q[i - 1].out, Of(ChainAddr(q[i - 1].addr, i), i).out)]]
             R == [i \in 0..WotsLen |->
                      IF i = 0 THEN [addr |-> At(kp, c, h), out |-> <<>>]
                      ELSE After(kp, q[i - 1], "secret", <<>>, from, steps, i)]
  <2>2. L = R
    BY <2>1
  <2>3. (Is(q) <=> q = L) /\ (IsLoop(kp, q, WotsLen, "secret", <<>>, from, steps, At(kp, c, h)) <=> q = R)
    BY DEF IsLoop
  <2> HIDE DEF L, R, Is
  <2> QED
    BY <2>2, <2>3
<1> HIDE DEF Is
<1>5. Is(s)
  <2>1. \E q : IsLoop(kp, q, WotsLen, "secret", <<>>, from, steps, At(kp, c, h))
    BY <1>3, LoopExists
  <2> QED
    BY <1>4, <2>1
<1> HIDE DEF s
<1>6. IsLoop(kp, s, WotsLen, "secret", <<>>, from, steps, At(kp, c, h))
  BY <1>4, <1>5
<1>7. /\ s[WotsLen].out = [i \in 1..WotsLen |-> Result(kp, "secret", <<>>, from, steps, i)]
      /\ OfKey(kp, s[WotsLen].addr)
  BY <1>3, <1>6, LoopLaw
<1> QED
  BY <1>1, <1>7 DEF r, from, steps, OfKey

(* wots_pk_from_sig walks on from the points it is given. *)
LEMMA RecoverLaw ==
    ASSUME NEW kp, NEW c, NEW h, NEW x, NEW m \in [1..N -> 0..255]
    PROVE  LET r == WotsPkFromSig(x, m, SeededOf(kp), At(kp, c, h))
           IN  /\ r.out = [i \in 1..WotsLen |-> Result(kp, "sig", x, ChainLengths(m), [p \in 1..WotsLen |-> W - 1 - ChainLengths(m)[p]], i)]
               /\ OfKey(kp, r.addr)
<1> DEFINE from == ChainLengths(m)
           steps == [i \in 1..WotsLen |-> W - 1 - ChainLengths(m)[i]]
           Of(a, i) == GenChain(SeededOf(kp), x[i], ChainLengths(m)[i], W - 1 - ChainLengths(m)[i], a)
           Is(s) == s = [i \in 0..WotsLen |->
                            IF i = 0 THEN [addr |-> At(kp, c, h), out |-> <<>>]
                            ELSE [addr |-> Of(ChainAddr(s[i - 1].addr, i), i).addr,
                                  out |-> Append(s[i - 1].out, Of(ChainAddr(s[i - 1].addr, i), i).out)]]
           s == CHOOSE q : Is(q)
           r == WotsPkFromSig(x, m, SeededOf(kp), At(kp, c, h))
<1>1. r = s[WotsLen]
  BY DEF WotsPkFromSig, AllChains, Chains
<1>2. ASSUME NEW i \in 1..WotsLen, NEW a PROVE Of(a, i) = Turn(kp, "sig", x, from, steps, a, i)
  BY DEF Turn, WotsGenSk, Starts
<1>3. WotsLen \in Nat /\ "sig" \in {"secret", "sig"} /\ InChain(from, steps)
  <2>1. W \in Nat /\ WotsLen \in Nat
    BY Sizes
  <2>2. \A i \in 1..WotsLen : ChainLengths(m)[i] \in 0..(W - 1)
    BY LengthsInRange
  <2> QED
    BY <2>1, <2>2 DEF InChain, Starts
<1> HIDE DEF Of, from, steps, r
<1>4. ASSUME NEW q PROVE Is(q) <=> IsLoop(kp, q, WotsLen, "sig", x, from, steps, At(kp, c, h))
  <2>1. ASSUME NEW i \in 0..WotsLen, i # 0
        PROVE  [addr |-> Of(ChainAddr(q[i - 1].addr, i), i).addr,
                out |-> Append(q[i - 1].out, Of(ChainAddr(q[i - 1].addr, i), i).out)]
               = After(kp, q[i - 1], "sig", x, from, steps, i)
    <3>1. i \in 1..WotsLen
      BY <1>3, <2>1
    <3> QED
      BY <1>2, <3>1 DEF After
  <2> DEFINE L == [i \in 0..WotsLen |->
                      IF i = 0 THEN [addr |-> At(kp, c, h), out |-> <<>>]
                      ELSE [addr |-> Of(ChainAddr(q[i - 1].addr, i), i).addr,
                            out |-> Append(q[i - 1].out, Of(ChainAddr(q[i - 1].addr, i), i).out)]]
             R == [i \in 0..WotsLen |->
                      IF i = 0 THEN [addr |-> At(kp, c, h), out |-> <<>>]
                      ELSE After(kp, q[i - 1], "sig", x, from, steps, i)]
  <2>2. L = R
    BY <2>1
  <2>3. (Is(q) <=> q = L) /\ (IsLoop(kp, q, WotsLen, "sig", x, from, steps, At(kp, c, h)) <=> q = R)
    BY DEF IsLoop
  <2> HIDE DEF L, R, Is
  <2> QED
    BY <2>2, <2>3
<1> HIDE DEF Is
<1>5. Is(s)
  <2>1. \E q : IsLoop(kp, q, WotsLen, "sig", x, from, steps, At(kp, c, h))
    BY <1>3, LoopExists
  <2> QED
    BY <1>4, <2>1
<1> HIDE DEF s
<1>6. IsLoop(kp, s, WotsLen, "sig", x, from, steps, At(kp, c, h))
  BY <1>4, <1>5
<1>7. /\ s[WotsLen].out = [i \in 1..WotsLen |-> Result(kp, "sig", x, from, steps, i)]
      /\ OfKey(kp, s[WotsLen].addr)
  BY <1>3, <1>6, LoopLaw
<1> QED
  BY <1>1, <1>7 DEF r, from, steps, OfKey

(* A walk that begins on a chain stays on it. *)
LEMMA EndOnChain ==
    ASSUME NEW kp, NEW c, NEW from \in 0..(W - 1), NEW last \in from..(W - 1)
    PROVE  End(kp, c, Whole(kp, c)[from], from, last) = Whole(kp, c)[last]
<1> DEFINE x == Whole(kp, c)[from]
           p == Whole(kp, c)
<1>1. from \in Nat /\ last \in Nat /\ from <= last /\ W \in Nat
  BY Sizes
<1>2. PICK o : IsWalk(kp, o, c, x, from, last)
  BY <1>1, WalkExists
<1>3. o[from] = x /\ Steps(kp, o, c, from, last)
  BY <1>1, <1>2, WalkLaw
<1>4. Steps(kp, p, c, from, last)
  <2>1. Steps(kp, p, c, 0, W - 1)
    BY WholeLaw
  <2>2. \A i \in from..(last - 1) : i \in 0..((W - 1) - 1)
    BY <1>1
  <2> HIDE DEF p
  <2> QED
    BY <2>1, <2>2 DEF Steps
<1>5. o[from] = p[from]
  BY <1>3
<1> HIDE DEF p
<1>6. \A i \in from..last : o[i] = p[i]
  BY <1>1, <1>3, <1>4, <1>5, WalkOn
<1>7. o[last] = p[last]
  BY <1>1, <1>6
<1>8. End(kp, c, x, from, last) = o[last]
  BY <1>1, <1>2, EndOfWalk
<1> QED
  BY <1>7, <1>8 DEF p

(* Walks that end in the same hash come from the same value. *)
Meet(kp, o, a, s, p, b, t, c) ==
    /\ a \in Nat /\ b \in Nat /\ s \in Nat /\ t \in Nat /\ a <= s /\ s - a = t - b
    /\ Steps(kp, o, c, a, s) /\ Steps(kp, p, c, b, t) /\ o[s] = p[t]

(* Two walks under the same addresses that end alike began alike, step for step. *)
LEMMA WalkBack ==
    ASSUME NEW kp, NEW o, NEW a, NEW s, NEW p, NEW b, NEW t, NEW c, Meet(kp, o, a, s, p, b, t, c)
    PROVE  o[a] = p[b]
<1> DEFINE n == s - a
<1>1. /\ n \in Nat /\ a \in Nat /\ b \in Nat /\ s = a + n /\ t = b + n
      /\ Steps(kp, o, c, a, s) /\ Steps(kp, p, c, b, t) /\ o[s] = p[t]
  BY DEF Meet
<1> HIDE DEF n
<1> DEFINE T == {k \in Nat : k <= n => o[s - k] = p[t - k]}
<1>2. 0 \in T
  <2>1. s - 0 = s /\ t - 0 = t
    BY <1>1
  <2> QED
    BY <1>1, <2>1
<1>3. ASSUME NEW k \in T PROVE k + 1 \in T
  <2> SUFFICES ASSUME k + 1 <= n PROVE o[s - (k + 1)] = p[t - (k + 1)]
    OBVIOUS
  <2> DEFINE i == s - (k + 1)
             j == t - (k + 1)
  <2>1. /\ i \in a..(s - 1) /\ i + 1 = s - k
        /\ j \in b..(t - 1) /\ j + 1 = t - k
    BY <1>1
  <2>2. o[s - k] = p[t - k]
    <3>1. k \in Nat /\ k <= n
      BY <1>1
    <3> QED
      BY <3>1
  <2> HIDE DEF i, j
  <2>3. o[i + 1] = Thash(SeededOf(kp), At(kp, c, i), <<o[i]>>)
    BY <1>1, <2>1 DEF Steps
  <2>4. p[j + 1] = Thash(SeededOf(kp), At(kp, c, j), <<p[j]>>)
    BY <1>1, <2>1 DEF Steps
  <2>5. Thash(SeededOf(kp), At(kp, c, i), <<o[i]>>) = Thash(SeededOf(kp), At(kp, c, j), <<p[j]>>)
    BY <2>1, <2>2, <2>3, <2>4
  <2>6. o[i] = p[j]
    BY <2>5, ThashInjective
  <2> QED
    BY <2>6 DEF i, j
<1>4. T = Nat
  <2>1. T \subseteq Nat
    OBVIOUS
  <2> HIDE DEF T
  <2> QED
    BY <1>2, <1>3, <2>1, NatInd
<1>5. o[s - n] = p[t - n]
  <2>1. \A k \in Nat : k <= n => o[s - k] = p[t - k]
    BY <1>4
  <2>2. n \in Nat /\ n <= n
    BY <1>1
  <2> QED
    BY <2>1, <2>2
<1>6. s - n = a /\ t - n = b
  BY <1>1
<1> QED
  BY <1>5, <1>6

(* A value that is already beyond a step does not end where the chain does. *)
LEMMA TooFar ==
    ASSUME NEW kp, NEW c, NEW a \in 0..(W - 1), NEW b \in 0..(W - 1), a < b
    PROVE  End(kp, c, Whole(kp, c)[b], a, W - 1) # Whole(kp, c)[W - 1]
<1> DEFINE p == Whole(kp, c)
           l == W - 1
<1>1. a \in Nat /\ b \in Nat /\ l \in Nat /\ a <= l /\ b <= l
  BY Sizes
<1>2. p[0] = Secret(kp, c) /\ Steps(kp, p, c, 0, l)
  BY WholeLaw
<1> HIDE DEF p, l
<1> SUFFICES ASSUME End(kp, c, p[b], a, l) = p[l] PROVE FALSE
  BY DEF p, l
<1>3. PICK o : IsWalk(kp, o, c, p[b], a, l)
  BY <1>1, WalkExists
<1>4. o[a] = p[b] /\ Steps(kp, o, c, a, l)
  BY <1>1, <1>3, WalkLaw
<1>5. o[l] = p[l]
  <2>1. End(kp, c, p[b], a, l) = o[l]
    BY <1>1, <1>3, EndOfWalk
  <2> QED
    BY <2>1
<1>6. \A i \in Nat, j \in Nat : j <= l => Steps(kp, p, c, i, j)
  <2> SUFFICES ASSUME NEW i \in Nat, NEW j \in Nat, j <= l PROVE Steps(kp, p, c, i, j)
    OBVIOUS
  <2>1. \A k \in i..(j - 1) : k \in 0..(l - 1)
    BY <1>1
  <2> QED
    BY <1>2, <2>1 DEF Steps
<1>7. o[a] = p[a]
  <2>1. Meet(kp, o, a, l, p, a, l, c)
    BY <1>1, <1>4, <1>5, <1>6 DEF Meet
  <2> QED
    BY <2>1, WalkBack
<1>8. p[0] = p[b - a]
  <2> DEFINE d == b - a
  <2>1. d \in Nat /\ a - 0 = b - d
    BY <1>1
  <2> HIDE DEF d
  <2>2. Meet(kp, p, 0, a, p, d, b, c)
    BY <1>1, <1>4, <1>6, <1>7, <2>1 DEF Meet
  <2>3. p[0] = p[d]
    BY <2>2, WalkBack
  <2> QED
    BY <2>3 DEF d
<1>9. p[b - a] = Thash(SeededOf(kp), At(kp, c, b - a - 1), <<p[b - a - 1]>>)
  <2>1. b - a - 1 \in 0..(l - 1) /\ (b - a - 1) + 1 = b - a
    BY <1>1
  <2> QED
    BY <1>2, <2>1 DEF Steps
<1> QED
  BY <1>2, <1>8, <1>9, ThashNotSecret

-------------------------------------------------------------------------------
(* What is returned, chain by chain: a public key is the ends of the chains, *)
(* a signature of m a value of each, and what a verifier gets from g and m   *)
(* is the values of g walked on.                                            *)
Chain(kp, i) == Whole(kp, Byte(i - 1))

IsKey(kp, k) == k = [i \in 1..WotsLen |-> Chain(kp, i)[W - 1]]
IsSignature(kp, g, m) == g = [i \in 1..WotsLen |-> Chain(kp, i)[ChainLengths(m)[i]]]
IsRecovered(kp, r, g, m) ==
    r = [i \in 1..WotsLen |-> End(kp, Byte(i - 1), g[i], ChainLengths(m)[i], W - 1)]

(* wots_gen_pk returns the end of every chain. *)
LEMMA GenPkOut ==
    ASSUME NEW kp, NEW a, OfKey(kp, a)
    PROVE  LET r == WotsGenPk(SkSeedOf(kp), SeededOf(kp), a)
           IN  IsKey(kp, r.out) /\ OfKey(kp, r.addr)
<1>1. PICK c, h : a = At(kp, c, h)
  BY DEF OfKey
<1> DEFINE r == WotsGenPk(SkSeedOf(kp), SeededOf(kp), At(kp, c, h))
           from == Starts
           steps == WholeSteps
<1>2. r.out = [i \in 1..WotsLen |-> Result(kp, "secret", <<>>, from, steps, i)]
  BY GenLaw
<1>3. OfKey(kp, r.addr)
  BY GenLaw
<1>4. ASSUME NEW i \in 1..WotsLen
      PROVE  Result(kp, "secret", <<>>, from, steps, i) = Chain(kp, i)[W - 1]
  <2>1. from[i] = 0 /\ steps[i] = W - 1 /\ 0 + (W - 1) = W - 1
    BY Sizes DEF Starts, WholeSteps
  <2> QED
    BY <2>1 DEF Result, Chain, Whole, End
<1> HIDE DEF r, from, steps
<1>5. r.out = [i \in 1..WotsLen |-> Chain(kp, i)[W - 1]]
  BY <1>2, <1>4
<1> QED
  BY <1>1, <1>5, <1>3 DEF r, IsKey

(* wots_sign returns of every chain the value that the message names. *)
LEMMA SignOut ==
    ASSUME NEW kp, NEW a, OfKey(kp, a), NEW m \in [1..N -> 0..255]
    PROVE  LET r == WotsSign(m, SkSeedOf(kp), SeededOf(kp), a)
           IN  IsSignature(kp, r.out, m) /\ OfKey(kp, r.addr)
<1>1. PICK c, h : a = At(kp, c, h)
  BY DEF OfKey
<1> DEFINE r == WotsSign(m, SkSeedOf(kp), SeededOf(kp), At(kp, c, h))
           from == Starts
           lengths == ChainLengths(m)
<1>2. r.out = [i \in 1..WotsLen |-> Result(kp, "secret", <<>>, from, lengths, i)]
  BY SignLaw
<1>3. OfKey(kp, r.addr)
  BY SignLaw
<1>4. ASSUME NEW i \in 1..WotsLen
      PROVE  Result(kp, "secret", <<>>, from, lengths, i) = Chain(kp, i)[lengths[i]]
  <2> DEFINE b == Byte(i - 1)
             l == lengths[i]
  <2>1. l \in 0..(W - 1)
    BY LengthsInRange
  <2>2. Result(kp, "secret", <<>>, from, lengths, i) = End(kp, b, Secret(kp, b), 0, l)
    <3>1. from[i] = 0 /\ 0 + l = l
      BY <2>1, Sizes DEF Starts
    <3> QED
      BY <3>1 DEF Result
  <2> HIDE DEF b, l
  <2>3. Secret(kp, b) = Whole(kp, b)[0]
    BY WholeLaw
  <2>4. 0 \in 0..(W - 1)
    BY Sizes
  <2>5. End(kp, b, Whole(kp, b)[0], 0, l) = Whole(kp, b)[l]
    BY <2>1, <2>4, EndOnChain
  <2> QED
    BY <2>2, <2>3, <2>5 DEF Chain, b, l
<1> HIDE DEF r, from
<1>5. r.out = [i \in 1..WotsLen |-> Chain(kp, i)[lengths[i]]]
  BY <1>2, <1>4
<1> QED
  BY <1>1, <1>5, <1>3 DEF r, IsSignature

(* wots_pk_from_sig walks every value it is given to where the chain ends. *)
LEMMA RecoverOut ==
    ASSUME NEW kp, NEW a, OfKey(kp, a), NEW x, NEW m \in [1..N -> 0..255]
    PROVE  LET r == WotsPkFromSig(x, m, SeededOf(kp), a)
           IN  IsRecovered(kp, r.out, x, m) /\ OfKey(kp, r.addr)
<1>1. PICK c, h : a = At(kp, c, h)
  BY DEF OfKey
<1> DEFINE r == WotsPkFromSig(x, m, SeededOf(kp), At(kp, c, h))
           from == ChainLengths(m)
           steps == [i \in 1..WotsLen |-> W - 1 - ChainLengths(m)[i]]
<1>2. r.out = [i \in 1..WotsLen |-> Result(kp, "sig", x, from, steps, i)]
  BY RecoverLaw
<1>3. OfKey(kp, r.addr)
  BY RecoverLaw
<1>4. ASSUME NEW i \in 1..WotsLen
      PROVE  Result(kp, "sig", x, from, steps, i) = End(kp, Byte(i - 1), x[i], ChainLengths(m)[i], W - 1)
  <2>1. ChainLengths(m)[i] \in 0..(W - 1)
    BY LengthsInRange
  <2>2. from[i] + steps[i] = W - 1
    BY <2>1, Sizes
  <2> HIDE DEF steps
  <2> QED
    BY <2>2 DEF Result
<1> HIDE DEF r, from, steps
<1>5. r.out = [i \in 1..WotsLen |-> End(kp, Byte(i - 1), x[i], ChainLengths(m)[i], W - 1)]
  BY <1>2, <1>4
<1> QED
  BY <1>1, <1>5, <1>3 DEF r, IsRecovered

(* A value that is walked from a step to the end of a chain is that step's. *)
LEMMA OnlyChainEnds ==
    ASSUME NEW kp, NEW c, NEW x, NEW a \in 0..(W - 1),
           End(kp, c, x, a, W - 1) = Whole(kp, c)[W - 1]
    PROVE  x = Whole(kp, c)[a]
<1> DEFINE p == Whole(kp, c)
           l == W - 1
<1>1. a \in Nat /\ l \in Nat /\ a <= l
  BY Sizes
<1>2. Steps(kp, p, c, 0, l) /\ End(kp, c, x, a, l) = p[l]
  BY WholeLaw
<1> HIDE DEF p, l
<1>3. PICK o : IsWalk(kp, o, c, x, a, l)
  BY <1>1, WalkExists
<1>4. o[a] = x /\ Steps(kp, o, c, a, l)
  BY <1>1, <1>3, WalkLaw
<1>5. o[l] = p[l]
  <2>1. End(kp, c, x, a, l) = o[l]
    BY <1>1, <1>3, EndOfWalk
  <2> QED
    BY <1>2, <2>1
<1>6. Steps(kp, p, c, a, l)
  <2>1. \A k \in a..(l - 1) : k \in 0..(l - 1)
    BY <1>1
  <2> QED
    BY <1>2, <2>1 DEF Steps
<1>7. o[a] = p[a]
  <2>1. Meet(kp, o, a, l, p, a, l, c)
    BY <1>1, <1>4, <1>5, <1>6 DEF Meet
  <2> QED
    BY <2>1, WalkBack
<1> QED
  BY <1>4, <1>7 DEF p

(* A value of a chain tells the key pair, the chain and the step. *)
LEMMA ChainValue ==
    ASSUME NEW kp, NEW kq, NEW c, NEW d, NEW a \in 0..(W - 1), NEW b \in 0..(W - 1),
           Whole(kp, c)[a] = Whole(kq, d)[b]
    PROVE  /\ kp.layer = kq.layer /\ kp.tree = kq.tree /\ kp.kp1 = kq.kp1
           /\ SkSeedOf(kp) = SkSeedOf(kq) \/ SeededOf(kp) = SeededOf(kq)
           /\ c = d /\ a = b
<1>1. W \in Nat
  BY Sizes
<1>2. ASSUME NEW k, NEW e, NEW n \in 0..(W - 1)
      PROVE  Whole(k, e)[n] = IF n = 0 THEN Prf(SkSeedOf(k), At(k, e, 0))
                              ELSE Thash(SeededOf(k), At(k, e, n - 1), <<Whole(k, e)[n - 1]>>)
  <2> DEFINE o == Whole(k, e)
  <2>1. o[0] = Secret(k, e) /\ Steps(k, o, e, 0, W - 1)
    BY WholeLaw
  <2> HIDE DEF o
  <2>2. CASE n = 0
    BY <2>1, <2>2 DEF Secret, o
  <2>3. CASE n # 0
    <3>1. n - 1 \in 0..((W - 1) - 1) /\ (n - 1) + 1 = n
      BY <1>1, <2>3
    <3> QED
      BY <2>1, <2>3, <3>1 DEF Steps, o
  <2> QED
    BY <2>2, <2>3
<1> DEFINE va == Whole(kp, c)[a - 1]
           vb == Whole(kq, d)[b - 1]
<1>3. Whole(kp, c)[a] = IF a = 0 THEN Prf(SkSeedOf(kp), At(kp, c, 0))
                        ELSE Thash(SeededOf(kp), At(kp, c, a - 1), <<va>>)
  BY <1>2
<1>4. Whole(kq, d)[b] = IF b = 0 THEN Prf(SkSeedOf(kq), At(kq, d, 0))
                        ELSE Thash(SeededOf(kq), At(kq, d, b - 1), <<vb>>)
  BY <1>2
<1> HIDE DEF va, vb
<1>5. CASE a = 0
  <2>1. b = 0
    <3> SUFFICES ASSUME b # 0 PROVE FALSE
      OBVIOUS
    <3>1. Prf(SkSeedOf(kp), At(kp, c, 0)) = Thash(SeededOf(kq), At(kq, d, b - 1), <<vb>>)
      BY <1>3, <1>4, <1>5
    <3> QED
      BY <3>1 DEF Prf, Thash
  <2>2. Prf(SkSeedOf(kp), At(kp, c, 0)) = Prf(SkSeedOf(kq), At(kq, d, 0))
    BY <1>3, <1>4, <1>5, <2>1
  <2>3. SkSeedOf(kp) = SkSeedOf(kq) /\ At(kp, c, 0) = At(kq, d, 0)
    BY <2>2 DEF Prf
  <2> QED
    BY <1>5, <2>1, <2>3 DEF At
<1>6. CASE a # 0
  <2>1. b # 0
    <3> SUFFICES ASSUME b = 0 PROVE FALSE
      OBVIOUS
    <3>1. Prf(SkSeedOf(kq), At(kq, d, 0)) = Thash(SeededOf(kp), At(kp, c, a - 1), <<va>>)
      BY <1>3, <1>4, <1>6
    <3> QED
      BY <3>1 DEF Prf, Thash
  <2>2. Thash(SeededOf(kp), At(kp, c, a - 1), <<va>>) = Thash(SeededOf(kq), At(kq, d, b - 1), <<vb>>)
    BY <1>3, <1>4, <1>6, <2>1
  <2>3. SeededOf(kp) = SeededOf(kq) /\ At(kp, c, a - 1) = At(kq, d, b - 1)
    BY <2>2 DEF Thash
  <2>4. a - 1 = b - 1
    BY <2>3 DEF At
  <2> QED
    BY <2>3, <2>4 DEF At
<1> QED
  BY <1>5, <1>6

===============================================================================
