------------------------------- MODULE Sha256Proofs -------------------------------
(***************************************************************************)
(* What the hash functions hash, for blocks, hashes and messages of every  *)
(* length: each way of cutting a string up for sha256_inc_blocks and       *)
(* sha256_inc_finalize gives the SHA-256 of the string.                    *)
(***************************************************************************)
EXTENDS Sha256, WellFoundedInduction, TLAPS

-------------------------------------------------------------------------------
(* Induction over the natural numbers, for a property that is a set. *)
LEMMA NatInd ==
    ASSUME NEW T, T \subseteq Nat, 0 \in T, \A n \in T : n + 1 \in T
    PROVE  T = Nat
<1> SUFFICES ASSUME Nat \ T # {} PROVE FALSE
  OBVIOUS
<1> DEFINE R == OpToRel(<, Nat)
           U == Nat \ T
<1>1. IsWellFoundedOn(R, Nat)
  BY NatLessThanWellFounded
<1>2. \A i, j \in Nat : i < j => <<i, j>> \in R
  BY DEF OpToRel
<1>3. U \subseteq Nat /\ U # {}
  OBVIOUS
<1> HIDE DEF R, U
<1>4. PICK n \in U : \A y \in U : ~(<<y, n>> \in R)
  BY <1>1, <1>3, WFMin
<1>5. n \in Nat /\ n \notin T /\ \A y \in U : ~(y < n)
  BY <1>2, <1>4 DEF U
<1>6. n # 0 /\ n - 1 \in Nat /\ (n - 1) + 1 = n
  BY <1>5
<1>7. n - 1 \in T
  BY <1>5, <1>6 DEF U
<1> QED
  BY <1>5, <1>6, <1>7

-------------------------------------------------------------------------------
(* A string is a sequence, whatever its cells are. *)
IsString(s) == Len(s) \in Nat /\ s = [k \in 1..Len(s) |-> s[k]]

LEMMA Appended ==
    ASSUME NEW s, IsString(s), NEW t, IsString(t)
    PROVE  /\ IsString(s \o t) /\ Len(s \o t) = Len(s) + Len(t)
           /\ \A k \in 1..Len(s) : (s \o t)[k] = s[k]
           /\ \A k \in 1..Len(t) : (s \o t)[Len(s) + k] = t[k]
<1> DEFINE S == {s[k] : k \in 1..Len(s)} \cup {t[k] : k \in 1..Len(t)}
<1>1. s \in Seq(S) /\ t \in Seq(S)
  BY DEF IsString
<1> HIDE DEF S
<1>2. /\ s \o t \in Seq(S) /\ Len(s \o t) = Len(s) + Len(t)
      /\ \A k \in 1..Len(s) : (s \o t)[k] = s[k]
      /\ \A k \in 1..Len(t) : (s \o t)[Len(s) + k] = t[k]
  BY <1>1
<1>3. \A u \in Seq(S) : Len(u) \in Nat /\ u = [k \in 1..Len(u) |-> u[k]]
  OBVIOUS
<1> QED
  BY <1>2, <1>3 DEF IsString

LEMMA Same ==
    ASSUME NEW s, IsString(s), NEW t, IsString(t), Len(s) = Len(t),
           \A k \in 1..Len(s) : s[k] = t[k]
    PROVE  s = t
BY DEF IsString

LEMMA Associates ==
    ASSUME NEW s, IsString(s), NEW t, IsString(t), NEW u, IsString(u)
    PROVE  (s \o t) \o u = s \o (t \o u)
<1> DEFINE S == {s[k] : k \in 1..Len(s)} \cup {t[k] : k \in 1..Len(t)}
                    \cup {u[k] : k \in 1..Len(u)}
<1>1. s \in Seq(S) /\ t \in Seq(S) /\ u \in Seq(S)
  BY SMTT(20) DEF IsString
<1> HIDE DEF S
<1> QED
  BY <1>1

LEMMA Empty ==
    /\ IsString(<<>>) /\ Len(<<>>) = 0
    /\ \A s : IsString(s) => <<>> \o s = s /\ s \o <<>> = s
<1>1. IsString(<<>>) /\ Len(<<>>) = 0
  BY DEF IsString
<1>2. ASSUME NEW s, IsString(s) PROVE <<>> \o s = s /\ s \o <<>> = s
  <2> DEFINE S == {s[k] : k \in 1..Len(s)}
  <2>1. s \in Seq(S)
    BY <1>2 DEF IsString
  <2> HIDE DEF S
  <2> QED
    BY <2>1
<1> QED
  BY <1>1, <1>2

LEMMA Sliced ==
    ASSUME NEW s, IsString(s), NEW a \in Nat, NEW b \in Nat, a <= b, b <= Len(s)
    PROVE  /\ IsString(SubSeq(s, a + 1, b)) /\ Len(SubSeq(s, a + 1, b)) = b - a
           /\ \A k \in 1..(b - a) : SubSeq(s, a + 1, b)[k] = s[a + k]
<1> DEFINE S == {s[k] : k \in 1..Len(s)}
           u == SubSeq(s, a + 1, b)
<1>1. s \in Seq(S) /\ Len(s) \in Nat
  BY DEF IsString
<1>2. \A k \in 1..Len(s) : s[k] \in S
  OBVIOUS
<1> HIDE DEF S
<1>3. u = [k \in 1..(b - a) |-> s[a + k]]
  <2>1. u = [k \in 1..(1 + b - (a + 1)) |-> s[k + (a + 1) - 1]]
    OBVIOUS
  <2>2. 1 + b - (a + 1) = b - a
    OBVIOUS
  <2>3. \A k \in 1..(b - a) : k + (a + 1) - 1 = a + k
    OBVIOUS
  <2> HIDE DEF u
  <2> QED
    BY <2>1, <2>2, <2>3
<1> HIDE DEF u
<1>4. b - a \in Nat /\ Len(u) = b - a
  BY <1>3
<1>5. u = [k \in 1..Len(u) |-> u[k]]
  BY <1>3, <1>4
<1> QED
  BY <1>3, <1>4, <1>5 DEF IsString, u

LEMMA Cut ==
    ASSUME NEW s, IsString(s), NEW n \in 0..Len(s)
    PROVE  /\ IsString(Take(s, n)) /\ Len(Take(s, n)) = n
           /\ \A k \in 1..n : Take(s, n)[k] = s[k]
           /\ IsString(Drop(s, n)) /\ Len(Drop(s, n)) = Len(s) - n
           /\ Take(s, n) \o Drop(s, n) = s
<1>1. Len(s) \in Nat /\ n \in Nat /\ n <= Len(s)
  BY DEF IsString
<1>2. /\ IsString(Take(s, n)) /\ Len(Take(s, n)) = n
      /\ \A k \in 1..n : Take(s, n)[k] = s[k]
  <2>1. /\ IsString(SubSeq(s, 0 + 1, n)) /\ Len(SubSeq(s, 0 + 1, n)) = n - 0
        /\ \A k \in 1..(n - 0) : SubSeq(s, 0 + 1, n)[k] = s[0 + k]
    BY <1>1, Sliced
  <2>2. 0 + 1 = 1 /\ n - 0 = n /\ \A k \in 1..n : 0 + k = k
    BY <1>1
  <2> QED
    BY <2>1, <2>2 DEF Take
<1>3. /\ IsString(Drop(s, n)) /\ Len(Drop(s, n)) = Len(s) - n
      /\ \A k \in 1..(Len(s) - n) : Drop(s, n)[k] = s[n + k]
  BY <1>1, Sliced DEF Drop
<1> DEFINE t == Take(s, n)
           d == Drop(s, n)
<1> HIDE DEF t, d
<1>4. /\ IsString(t \o d) /\ Len(t \o d) = Len(t) + Len(d)
      /\ \A k \in 1..Len(t) : (t \o d)[k] = t[k]
      /\ \A k \in 1..Len(d) : (t \o d)[Len(t) + k] = d[k]
  BY <1>2, <1>3, Appended DEF t, d
<1>5. Len(t) = n /\ Len(d) = Len(s) - n
  BY <1>2, <1>3 DEF t, d
<1>6. \A k \in 1..Len(s) : (t \o d)[k] = s[k]
  <2> SUFFICES ASSUME NEW k \in 1..Len(s) PROVE (t \o d)[k] = s[k]
    OBVIOUS
  <2>1. CASE k <= n
    BY <1>1, <1>2, <1>4, <1>5, <2>1 DEF t
  <2>2. CASE ~(k <= n)
    <3>1. k - n \in 1..Len(d) /\ n + (k - n) = k
      BY <1>1, <1>5, <2>2
    <3>2. (t \o d)[n + (k - n)] = d[k - n]
      BY <1>4, <1>5, <3>1
    <3>3. d[k - n] = s[n + (k - n)]
      BY <1>3, <1>5, <3>1 DEF d
    <3> QED
      BY <3>1, <3>2, <3>3
  <2> QED
    BY <2>1, <2>2
<1>7. t \o d = s
  <2>1. Len(t \o d) = Len(s)
    BY <1>1, <1>4, <1>5
  <2>2. IsString(t \o d)
    BY <1>4
  <2> QED
    BY <1>6, <2>1, <2>2, Same
<1> QED
  BY <1>2, <1>3, <1>7 DEF t, d

LEMMA CellsString ==
    ASSUME NEW n \in Nat, NEW x
    PROVE  /\ IsString(Cells(x, n)) /\ Len(Cells(x, n)) = n
           /\ IsString(Repeat(x, n)) /\ Len(Repeat(x, n)) = n
           /\ IsString(<<x>>) /\ Len(<<x>>) = 1
<1>1. IsString(Cells(x, n)) /\ Len(Cells(x, n)) = n
  BY DEF Cells, IsString
<1>2. IsString(Repeat(x, n)) /\ Len(Repeat(x, n)) = n
  BY DEF Repeat, IsString
<1>3. IsString(<<x>>) /\ Len(<<x>>) = 1
  BY DEF IsString
<1> QED
  BY <1>1, <1>2, <1>3

-------------------------------------------------------------------------------
(* The whole blocks of a string, and how they come together.               *)
Piece(s, k) == SubSeq(s, (k - 1) * Block + 1, k * Block)
Pieces(s) == [k \in 1..(Len(s) \div Block) |-> Piece(s, k)]

LEMMA Division ==
    ASSUME NEW p \in Nat \ {0}, NEW q \in Nat, NEW r \in 0..(p - 1)
    PROVE  (q * p + r) \div p = q /\ (q * p + r) % p = r
<1> DEFINE m == q * p + r
           d == m \div p
           e == m % p
<1>1. q * p \in Nat /\ m \in Nat
  OBVIOUS
<1>2. d \in Int /\ e \in 0..(p - 1) /\ m = p * d + e
  BY <1>1
<1> HIDE DEF d, e
<1>3. p * (d - q) = r - e
  <2>1. p * (d - q) = p * d - q * p
    BY <1>1, <1>2
  <2> QED
    BY <1>1, <1>2, <2>1
<1>4. d - q = 0
  <2>1. CASE d - q >= 1
    <3>1. p * (d - q) >= p
      BY <1>1, <1>2, <2>1
    <3> QED
      BY <1>1, <1>2, <1>3, <3>1
  <2>2. CASE d - q <= -1
    <3>1. p * (d - q) <= -p
      BY <1>1, <1>2, <2>2
    <3> QED
      BY <1>1, <1>2, <1>3, <3>1
  <2> QED
    BY <1>2, <2>1, <2>2
<1>5. d = q /\ e = r
  BY <1>1, <1>2, <1>3, <1>4
<1> QED
  BY <1>5 DEF d, e

(* A length is so many blocks and a rest. *)
LEMMA Divided ==
    ASSUME NEW p \in Nat \ {0}, NEW m \in Nat
    PROVE  /\ m \div p \in Nat /\ m % p \in 0..(p - 1)
           /\ m = (m \div p) * p + (m % p)
<1>1. m \div p \in Int /\ m % p \in 0..(p - 1) /\ m = p * (m \div p) + (m % p)
  OBVIOUS
<1> DEFINE d == m \div p
           r == m % p
<1> HIDE DEF d, r
<1>2. d \in Int /\ r \in 0..(p - 1) /\ m = p * d + r
  BY <1>1 DEF d, r
<1>3. d \in Nat
  <2> SUFFICES ASSUME d <= -1 PROVE FALSE
    BY <1>2
  <2>1. p * d <= -p
    BY <1>2
  <2>2. p * d \in Int
    BY <1>2
  <2> QED
    BY <1>2, <2>1, <2>2
<1>4. p * d = d * p
  BY <1>3
<1> QED
  BY <1>2, <1>3, <1>4 DEF d, r

LEMMA PieceLaw ==
    ASSUME NEW s, IsString(s), NEW k \in Nat \ {0}, k * Block <= Len(s)
    PROVE  /\ IsString(Piece(s, k)) /\ Len(Piece(s, k)) = Block
           /\ \A i \in 1..Block : Piece(s, k)[i] = s[(k - 1) * Block + i]
<1> DEFINE a == (k - 1) * Block
           b == k * Block
<1>1. a \in Nat /\ b \in Nat /\ b = a + Block /\ Block \in Nat
  BY SizesAssumption
<1>2. b <= Len(s) /\ Piece(s, k) = SubSeq(s, a + 1, b)
  BY DEF Piece
<1> HIDE DEF a, b
<1>3. a <= b /\ b - a = Block
  BY <1>1
<1>4. /\ IsString(SubSeq(s, a + 1, b)) /\ Len(SubSeq(s, a + 1, b)) = b - a
      /\ \A i \in 1..(b - a) : SubSeq(s, a + 1, b)[i] = s[a + i]
  BY <1>1, <1>2, <1>3, Sliced
<1> QED
  BY <1>2, <1>3, <1>4 DEF a

LEMMA PiecesString ==
    ASSUME NEW s, IsString(s)
    PROVE  /\ Len(s) \div Block \in Nat /\ IsString(Pieces(s))
           /\ Len(Pieces(s)) = Len(s) \div Block
           /\ \A k \in 1..(Len(s) \div Block) :
                 /\ k \in Nat \ {0} /\ k * Block <= Len(s)
                 /\ Pieces(s)[k] = Piece(s, k)
<1> DEFINE c == Len(s) \div Block
           r == Len(s) % Block
<1>0. Len(s) \in Nat
  BY DEF IsString
<1>1. c \in Nat /\ r \in Nat /\ Len(s) = c * Block + r
  <2>1. Block \in Nat \ {0}
    BY SizesAssumption
  <2>2. c \in Nat /\ r \in 0..(Block - 1) /\ Len(s) = c * Block + r
    BY <1>0, <2>1, Divided
  <2> QED
    BY <2>1, <2>2
<1>2. Pieces(s) = [k \in 1..c |-> Piece(s, k)]
  BY DEF Pieces
<1> HIDE DEF c, r
<1>3. Len(Pieces(s)) = c /\ IsString(Pieces(s))
  BY <1>1, <1>2 DEF IsString
<1>4. ASSUME NEW k \in 1..c PROVE k \in Nat \ {0} /\ k * Block <= Len(s)
  <2>1. k * Block <= c * Block
    BY <1>1, SizesAssumption
  <2>2. c * Block \in Nat /\ k * Block \in Nat
    BY <1>1, SizesAssumption
  <2> QED
    BY <1>1, <2>1, <2>2
<1> QED
  BY <1>1, <1>2, <1>3, <1>4 DEF c

(* Blocks are cut the same way whether what is before them is whole blocks  *)
(* that were absorbed already.                                             *)
LEMMA Joined ==
    ASSUME NEW s, IsString(s), NEW a \in Nat, Len(s) = a * Block,
           NEW t, IsString(t)
    PROVE  Pieces(s) \o Pieces(t) = Pieces(s \o t)
<1> DEFINE u == s \o t
           c == Len(t) \div Block
           r == Len(t) % Block
           P == Pieces(s) \o Pieces(t)
<1> USE SizesAssumption
<1>1. /\ IsString(u) /\ Len(u) = Len(s) + Len(t)
      /\ \A k \in 1..Len(s) : u[k] = s[k]
      /\ \A k \in 1..Len(t) : u[Len(s) + k] = t[k]
  BY Appended
<1> HIDE DEF u
<1>2. Len(t) \in Nat /\ Len(s) \in Nat
  BY DEF IsString
<1>3. c \in Nat /\ r \in 0..(Block - 1) /\ Len(t) = c * Block + r
  BY <1>2, Divided
<1>4. Len(s) \div Block = a
  <2>1. (a * Block + 0) \div Block = a
    BY Division
  <2>2. a * Block + 0 = a * Block
    OBVIOUS
  <2> QED
    BY <2>1, <2>2
<1>5. Len(u) \div Block = a + c
  <2> HIDE DEF c, r
  <2>1. Len(u) = (a + c) * Block + r
    <3>1. (a + c) * Block = a * Block + c * Block /\ a * Block \in Nat /\ c * Block \in Nat
      BY <1>3
    <3> QED
      BY <1>1, <1>3, <3>1
  <2>2. a + c \in Nat
    BY <1>3
  <2> QED
    BY <1>3, <2>1, <2>2, Division
<1>6. /\ IsString(Pieces(s)) /\ Len(Pieces(s)) = a
      /\ \A k \in 1..a : k * Block <= Len(s) /\ Pieces(s)[k] = Piece(s, k)
  BY <1>4, PiecesString
<1>7. /\ IsString(Pieces(t)) /\ Len(Pieces(t)) = c
      /\ \A k \in 1..c : k * Block <= Len(t) /\ Pieces(t)[k] = Piece(t, k)
  BY PiecesString
<1>8. /\ IsString(Pieces(u)) /\ Len(Pieces(u)) = a + c
      /\ \A k \in 1..(a + c) : k * Block <= Len(u) /\ Pieces(u)[k] = Piece(u, k)
  BY <1>1, <1>5, PiecesString
<1>9. /\ IsString(P) /\ Len(P) = a + c
      /\ \A k \in 1..a : P[k] = Pieces(s)[k]
      /\ \A k \in 1..c : P[a + k] = Pieces(t)[k]
  <2> DEFINE x == Pieces(s)
             y == Pieces(t)
  <2>1. IsString(x) /\ Len(x) = a /\ IsString(y) /\ Len(y) = c
    BY <1>6, <1>7
  <2>3. IsString(x)
    BY <2>1
  <2>4. IsString(y)
    BY <2>1
  <2> HIDE DEF x, y, c
  <2>2. /\ IsString(x \o y) /\ Len(x \o y) = Len(x) + Len(y)
        /\ \A k \in 1..Len(x) : (x \o y)[k] = x[k]
        /\ \A k \in 1..Len(y) : (x \o y)[Len(x) + k] = y[k]
    BY <2>3, <2>4, Appended
  <2> QED
    BY <2>1, <2>2 DEF x, y
<1> HIDE DEF P, c, r
<1>10. ASSUME NEW k \in 1..a PROVE P[k] = Pieces(u)[k]
  <2>0. k \in Nat \ {0} /\ k \in 1..(a + c)
    BY <1>3
  <2>1. k \in Nat \ {0} /\ k \in 1..(a + c) /\ k * Block <= Len(s) /\ k * Block <= Len(u)
    BY <1>6, <1>8, <2>0
  <2> DEFINE v == Piece(s, k)
             w == Piece(u, k)
             b == (k - 1) * Block
  <2>2. /\ IsString(v) /\ Len(v) = Block /\ \A i \in 1..Block : v[i] = s[b + i]
    BY <2>1, PieceLaw
  <2>3. /\ IsString(w) /\ Len(w) = Block /\ \A i \in 1..Block : w[i] = u[b + i]
    BY <1>1, <2>1, PieceLaw
  <2>4. b \in Nat /\ k * Block = b + Block
    BY <2>1
  <2> HIDE DEF v, w, b
  <2>5. \A i \in 1..Block : b + i \in 1..Len(s)
    BY <1>2, <2>1, <2>4
  <2>6. v = w
    BY <1>1, <2>2, <2>3, <2>5, Same
  <2> QED
    BY <1>6, <1>8, <1>9, <2>1, <2>6 DEF v, w
<1>11. ASSUME NEW k \in 1..c PROVE P[a + k] = Pieces(u)[a + k]
  <2>0. k \in Nat \ {0} /\ a + k \in 1..(a + c) /\ a + k \in Nat \ {0}
    BY <1>3
  <2>1. /\ k \in Nat \ {0} /\ a + k \in 1..(a + c) /\ a + k \in Nat \ {0}
        /\ k * Block <= Len(t) /\ (a + k) * Block <= Len(u)
    BY <1>7, <1>8, <2>0
  <2> DEFINE v == Piece(t, k)
             w == Piece(u, a + k)
             b == (k - 1) * Block
             d == (a + k - 1) * Block
  <2>2. /\ IsString(v) /\ Len(v) = Block /\ \A i \in 1..Block : v[i] = t[b + i]
    BY <2>1, PieceLaw
  <2>3. /\ IsString(w) /\ Len(w) = Block /\ \A i \in 1..Block : w[i] = u[d + i]
    BY <1>1, <2>1, PieceLaw
  <2>4. b \in Nat /\ k * Block = b + Block
    BY <2>1
  <2>5. d = Len(s) + b /\ d \in Nat
    <3>1. a + k - 1 = a + (k - 1) /\ k - 1 \in Nat
      BY <2>1
    <3>2. (a + (k - 1)) * Block = a * Block + (k - 1) * Block
      BY <3>1
    <3> QED
      BY <1>2, <2>4, <3>1, <3>2
  <2> HIDE DEF v, w, b, d
  <2>6. \A i \in 1..Block : b + i \in 1..Len(t) /\ d + i = Len(s) + (b + i)
    BY <1>2, <2>1, <2>4, <2>5
  <2>7. ASSUME NEW i \in 1..Block PROVE v[i] = w[i]
    <3>1. v[i] = t[b + i] /\ w[i] = u[d + i]
      BY <2>2, <2>3
    <3>2. b + i \in 1..Len(t) /\ d + i = Len(s) + (b + i)
      BY <2>6
    <3>3. u[Len(s) + (b + i)] = t[b + i]
      BY <1>1, <3>2
    <3> QED
      BY <3>1, <3>2, <3>3
  <2>8. v = w
    BY <2>2, <2>3, <2>7, Same
  <2> QED
    BY <1>7, <1>8, <1>9, <2>1, <2>8 DEF v, w
<1>12. \A k \in 1..(a + c) : P[k] = Pieces(u)[k]
  <2> SUFFICES ASSUME NEW k \in 1..(a + c), ~(k <= a) PROVE P[k] = Pieces(u)[k]
    BY <1>3, <1>10
  <2>1. k - a \in 1..c /\ a + (k - a) = k
    BY <1>3
  <2> QED
    BY <1>11, <2>1
<1>13. P = Pieces(u)
  BY <1>8, <1>9, <1>12, Same
<1> QED
  BY <1>13 DEF P, u

-------------------------------------------------------------------------------
(* The streaming interface: st is the state that has absorbed s, a number   *)
(* of whole blocks.                                                        *)
Aligned(s) == IsString(s) /\ \E a \in Nat : Len(s) = a * Block
State(s, n) == [blocks |-> Pieces(s), bytes |-> n]
Absorbed(st, s) == Aligned(s) /\ st = State(s, Len(s))

(* One vector load takes all of a block. *)
LEMMA LoadLaw ==
    ASSUME NEW s, IsString(s), Len(s) = Block
    PROVE  Load(s) = s
<1>1. Vl(Block) = Block
  BY VlMaxAssumption, SizesAssumption DEF Vl
<1>2. \A k \in 1..Block : k <= Vl(Block)
  BY <1>1, SizesAssumption
<1>3. Load(s) = [k \in 1..Block |-> s[k]]
  BY <1>2 DEF Load
<1> QED
  BY <1>3 DEF IsString

LEMMA HashLaw ==
    ASSUME NEW s, Aligned(s), NEW in, IsString(in), NEW n
    PROVE  HashBlocks(State(s, n), in) = State(s \o in, n)
<1> DEFINE new == [k \in 1..(Len(in) \div Block) |->
                      Load(SubSeq(in, (k - 1) * Block + 1, k * Block))]
<1>1. ASSUME NEW k \in 1..(Len(in) \div Block) PROVE Load(Piece(in, k)) = Piece(in, k)
  <2>1. k \in Nat \ {0} /\ k * Block <= Len(in)
    BY PiecesString
  <2>2. IsString(Piece(in, k)) /\ Len(Piece(in, k)) = Block
    BY <2>1, PieceLaw
  <2> QED
    BY <2>2, LoadLaw
<1>2. new = Pieces(in)
  BY <1>1 DEF Pieces, Piece
<1>3. HashBlocks(State(s, n), in) = [State(s, n) EXCEPT !.blocks = @ \o new]
  BY DEF HashBlocks
<1>4. PICK a \in Nat : Len(s) = a * Block
  BY DEF Aligned
<1>5. Pieces(s) \o Pieces(in) = Pieces(s \o in)
  BY <1>4, Joined DEF Aligned
<1> HIDE DEF new
<1> QED
  BY <1>2, <1>3, <1>5 DEF State

LEMMA AlignedJoined ==
    ASSUME NEW s, Aligned(s), NEW in, Aligned(in)
    PROVE  Aligned(s \o in) /\ Len(s \o in) = Len(s) + Len(in)
<1>1. IsString(s) /\ IsString(in)
  BY DEF Aligned
<1>2. IsString(s \o in) /\ Len(s \o in) = Len(s) + Len(in)
  BY <1>1, Appended
<1>3. PICK a \in Nat : Len(s) = a * Block
  BY DEF Aligned
<1>4. PICK b \in Nat : Len(in) = b * Block
  BY DEF Aligned
<1>5. a + b \in Nat /\ (a + b) * Block = a * Block + b * Block
  BY SizesAssumption
<1> QED
  BY <1>2, <1>3, <1>4, <1>5 DEF Aligned

LEMMA BlocksLaw ==
    ASSUME NEW st, NEW s, Absorbed(st, s), NEW in, Aligned(in)
    PROVE  Absorbed(IncBlocks(st, in), s \o in)
<1>1. st = State(s, Len(s)) /\ Aligned(s) /\ IsString(in)
  BY DEF Absorbed, Aligned
<1>2. HashBlocks(st, in) = State(s \o in, Len(s))
  BY <1>1, HashLaw
<1>3. IncBlocks(st, in) = State(s \o in, Len(s) + Len(in))
  BY <1>2 DEF IncBlocks, Counted, State
<1>4. Aligned(s \o in) /\ Len(s \o in) = Len(s) + Len(in)
  BY <1>1, AlignedJoined
<1> QED
  BY <1>3, <1>4 DEF Absorbed

LEMMA NothingAbsorbed == Absorbed(IncInit, <<>>)
<1>1. IsString(<<>>) /\ Len(<<>>) = 0 /\ 0 = 0 * Block
  BY Empty, SizesAssumption
<1>2. Aligned(<<>>)
  BY <1>1 DEF Aligned
<1>3. 0 \div Block = 0
  BY SizesAssumption
<1>4. Pieces(<<>>) = <<>>
  BY <1>1, <1>3 DEF Pieces
<1> QED
  BY <1>1, <1>2, <1>4 DEF Absorbed, State, IncInit

(* The zeros of FIPS 180 are those of sha256_inc_finalize.                 *)
Zeros(n) == CHOOSE z \in 0..(Block - 1) : (n + 1 + z + LenCells) % Block = 0

LEMMA ZerosLaw ==
    ASSUME NEW q \in Nat, NEW rest, IsString(rest), Len(rest) \in 0..(Block - 1)
    PROVE  /\ Padded(rest) - LenCells - 1 - Len(rest) \in Nat
           /\ Zeros(q * Block + Len(rest)) = Padded(rest) - LenCells - 1 - Len(rest)
<1> DEFINE r == Len(rest)
           n == q * Block + r
           y == Padded(rest) - LenCells - 1 - r
<1> USE SizesAssumption
<1>1. r \in 0..(Block - 1) /\ Block \in Nat \ {0} /\ LenCells \in 0..Block
  OBVIOUS
<1>2. PICK p \in {1, 2} : y = p * Block - LenCells - 1 - r /\ y \in 0..(Block - 1)
  BY <1>1 DEF Padded
<1>3. n + 1 + y + LenCells = (q + p) * Block /\ q + p \in Nat /\ n \in Nat
  <2>1. (q + p) * Block = q * Block + p * Block /\ q * Block \in Nat /\ p * Block \in Nat
    BY <1>1, <1>2
  <2> DEFINE x == q * Block
             z == p * Block
  <2>2. x \in Nat /\ z \in Nat /\ (q + p) * Block = x + z
    BY <2>1
  <2>3. n = x + r /\ y = z - LenCells - 1 - r
    BY <1>2
  <2> HIDE DEF x, y, z, n, r
  <2>4. n + 1 + y + LenCells = x + z /\ n \in Nat
    BY <1>1, <2>2, <2>3
  <2> QED
    BY <1>2, <2>2, <2>4
<1>4. ((q + p) * Block + 0) % Block = 0 /\ (q + p) * Block + 0 = (q + p) * Block
  <2> DEFINE e == q + p
  <2>1. e \in Nat /\ 0 \in 0..(Block - 1)
    BY <1>1, <1>3
  <2> HIDE DEF e
  <2>2. (e * Block + 0) % Block = 0
    BY <1>1, <2>1, Division
  <2>3. e * Block + 0 = e * Block
    BY <1>1, <2>1
  <2> QED
    BY <2>2, <2>3 DEF e
<1>5. (n + 1 + y + LenCells) % Block = 0
  BY <1>3, <1>4
<1> HIDE DEF y, n, r
<1>6. ASSUME NEW z \in 0..(Block - 1), (n + 1 + z + LenCells) % Block = 0 PROVE z = y
  <2> DEFINE m == n + 1 + z + LenCells
             d == m \div Block
             e == q + p
  <2>1. m \in Nat /\ d \in Nat /\ m = d * Block + (m % Block)
    <3>1. m \in Nat
      BY <1>1, <1>3
    <3> HIDE DEF m
    <3> QED
      BY <1>1, <3>1, Divided
  <2>2. m = d * Block
    <3> HIDE DEF d
    <3>1. d * Block \in Nat
      BY <1>1, <2>1
    <3> QED
      BY <1>6, <2>1, <3>1
  <2>3. n + 1 + y + LenCells = e * Block /\ e \in Nat
    BY <1>3
  <2>4. m = n + 1 + z + LenCells
    OBVIOUS
  <2> HIDE DEF m, d, e
  <2>5. (d - e) * Block = z - y
    <3>1. (d - e) * Block = d * Block - e * Block
      BY <1>1, <2>1, <2>3
    <3> QED
      BY <1>1, <1>2, <1>3, <2>2, <2>3, <2>4, <3>1
  <2>6. d = e
    <3>1. CASE d - e >= 1
      <4>1. (d - e) * Block >= Block
        BY <1>1, <2>1, <2>3, <3>1
      <4> QED
        BY <1>1, <1>2, <2>5, <4>1
    <3>2. CASE d - e <= -1
      <4>1. (d - e) * Block <= -Block
        BY <1>1, <2>1, <2>3, <3>2
      <4> QED
        BY <1>1, <1>2, <2>5, <4>1
    <3> QED
      BY <2>1, <2>3, <3>1, <3>2
  <2> QED
    BY <1>1, <1>2, <2>1, <2>5, <2>6
<1>7. Zeros(n) = y
  BY <1>2, <1>5, <1>6 DEF Zeros
<1> QED
  BY <1>2, <1>7 DEF n, y, r

Padding(s, n, zeros) ==
    s \o <<Cell("0x80")>> \o Repeat(Cell("0"), zeros) \o LengthCells(n)

LEMMA PaddingLaw ==
    ASSUME NEW s, IsString(s), NEW t, IsString(t), NEW n, NEW zeros \in Nat
    PROVE  /\ IsString(Padding(s, n, zeros))
           /\ Len(Padding(s, n, zeros)) = Len(s) + 1 + zeros + LenCells
           /\ t \o Padding(s, n, zeros) = Padding(t \o s, n, zeros)
<1> DEFINE a == <<Cell("0x80")>>
           z == Repeat(Cell("0"), zeros)
           l == LengthCells(n)
<1>1. Len(a) = 1 /\ Len(z) = zeros /\ Len(l) = LenCells /\ Len(s) \in Nat /\ LenCells \in Nat
  BY CellsString, SizesAssumption DEF LengthCells, IsString
<1>2. IsString(a)
  BY CellsString
<1>3. IsString(z)
  BY CellsString
<1>4. IsString(l)
  <2>1. LenCells \in Nat
    BY SizesAssumption
  <2> QED
    BY <2>1, CellsString DEF LengthCells
<1> HIDE DEF a, z, l
<1>5. IsString(s \o a)
  BY <1>2, Appended
<1>6. Len(s \o a) = Len(s) + Len(a)
  BY <1>2, Appended
<1> DEFINE b == s \o a
<1>7. t \o b = (t \o s) \o a
  BY <1>2, Associates, SMTT(20)
<1>8. IsString(b)
  BY <1>5
<1> HIDE DEF b
<1>9. IsString(b \o z)
  BY <1>3, <1>8, Appended
<1>10. Len(b \o z) = Len(b) + Len(z)
  BY <1>3, <1>8, Appended
<1>11. (t \o b) \o z = t \o (b \o z)
  BY <1>3, <1>8, Associates
<1> DEFINE c == b \o z
<1>12. IsString(c)
  BY <1>9
<1> HIDE DEF c
<1>13. IsString(c \o l)
  BY <1>4, <1>12, Appended
<1>14. Len(c \o l) = Len(c) + Len(l)
  BY <1>4, <1>12, Appended
<1>15. t \o (c \o l) = (t \o c) \o l
  BY <1>4, <1>12, Associates, SMTT(20)
<1>16. Padding(s, n, zeros) = c \o l
  BY DEF Padding, a, z, l, b, c
<1>17. Padding(t \o s, n, zeros) = (((t \o s) \o a) \o z) \o l
  BY DEF Padding, a, z, l
<1>18. Len(b) = Len(s) + 1 /\ Len(c) = Len(b) + zeros /\ Len(c \o l) = Len(c) + LenCells
  BY <1>1, <1>6, <1>10, <1>14 DEF b, c
<1>19. Len(c \o l) = Len(s) + 1 + zeros + LenCells
  BY <1>1, <1>18
<1> QED
  BY <1>7, <1>11, <1>13, <1>15, <1>16, <1>17, <1>19 DEF c

(* What sha256_inc_finalize returns is the SHA-256 of all that the state    *)
(* has absorbed and of the string it was given.                            *)
LEMMA FinalLaw ==
    ASSUME NEW st, NEW s, Absorbed(st, s), NEW in, IsString(in)
    PROVE  Digest(IncFinalize(st, in)) = Whole256(s \o in)
<1> DEFINE q == Len(in) \div Block
           whole == Take(in, q * Block)
           rest == Drop(in, q * Block)
           zeros == Padded(rest) - LenCells - 1 - Len(rest)
           n == Len(s) + Len(in)
           head == s \o whole
<1> USE SizesAssumption
<1>0. Block \in Nat \ {0} /\ Len(in) \in Nat
  BY DEF IsString
<1>1. /\ q \in Nat /\ Len(in) % Block \in 0..(Block - 1)
      /\ Len(in) = q * Block + (Len(in) % Block)
  BY <1>0, Divided
<1>2. Aligned(s) /\ st = State(s, Len(s)) /\ IsString(s)
  BY DEF Absorbed, Aligned
<1>3. PICK a \in Nat : Len(s) = a * Block
  BY <1>2 DEF Aligned
<1>4. q * Block \in 0..Len(in)
  <2> HIDE DEF q
  <2>1. q * Block \in Nat
    BY <1>0, <1>1
  <2> QED
    BY <1>0, <1>1, <2>1
<1>5. /\ IsString(whole) /\ Len(whole) = q * Block /\ IsString(rest)
      /\ Len(rest) = Len(in) - q * Block /\ whole \o rest = in
  BY <1>4, Cut
<1> HIDE DEF q, whole, rest
<1>6. Len(rest) \in 0..(Block - 1)
  <2> DEFINE x == q * Block
  <2>1. x \in Nat
    BY <1>0, <1>1
  <2> HIDE DEF x
  <2> QED
    BY <1>0, <1>1, <1>5, <2>1 DEF x
<1>7. Aligned(whole)
  BY <1>1, <1>5 DEF Aligned
<1>8. Aligned(head) /\ IsString(head) /\ Len(head) = Len(s) + Len(whole)
  BY <1>2, <1>7, AlignedJoined DEF Aligned
<1>9. head \o rest = s \o in
  <2>1. IsString(s)
    BY <1>2
  <2>2. IsString(whole)
    BY <1>5
  <2>3. IsString(rest)
    BY <1>5
  <2>4. (s \o whole) \o rest = s \o (whole \o rest)
    BY <2>1, <2>2, <2>3, Associates
  <2> QED
    BY <1>5, <2>4
<1>10. /\ IsString(s \o in) /\ Len(s \o in) = n
  BY <1>2, Appended
<1>11. n = (a + q) * Block + Len(rest) /\ a + q \in Nat
  <2> DEFINE x == a * Block
             y == q * Block
  <2>1. x \in Nat /\ y \in Nat /\ (a + q) * Block = x + y
    BY <1>0, <1>1
  <2>2. Len(s) = x /\ Len(rest) = Len(in) - y
    BY <1>3, <1>5
  <2> HIDE DEF x, y
  <2> QED
    BY <1>0, <1>1, <1>3, <2>1, <2>2
<1>12. zeros \in Nat /\ Zeros(n) = zeros
  <2> DEFINE e == a + q
  <2>1. e \in Nat /\ n = e * Block + Len(rest)
    BY <1>11
  <2> HIDE DEF e, n
  <2>2. /\ Padded(rest) - LenCells - 1 - Len(rest) \in Nat
        /\ Zeros(e * Block + Len(rest)) = Padded(rest) - LenCells - 1 - Len(rest)
    BY <1>5, <1>6, <2>1, ZerosLaw
  <2> QED
    BY <2>1, <2>2
<1> HIDE DEF zeros, n
<1> DEFINE last == Padding(rest, n, zeros)
           padded == Padding(s \o in, n, zeros)
<1>13. IsString(last) /\ head \o last = padded
  <2> HIDE DEF head
  <2>1. IsString(rest)
    BY <1>5
  <2>2. IsString(head)
    BY <1>8
  <2>3. IsString(Padding(rest, n, zeros))
    BY <1>12, <2>1, <2>2, PaddingLaw
  <2>4. head \o Padding(rest, n, zeros) = Padding(head \o rest, n, zeros)
    BY <1>12, <2>1, <2>2, PaddingLaw
  <2> QED
    BY <1>9, <2>3, <2>4
<1>14. HashBlocks(st, in) = State(head, Len(s))
  <2>1. HashBlocks(st, in) = State(s \o in, Len(s))
    BY <1>2, HashLaw
  <2>2. Pieces(head) \o Pieces(rest) = Pieces(s \o in)
    <3>1. PICK b \in Nat : Len(head) = b * Block
      BY <1>8 DEF Aligned
    <3> HIDE DEF head
    <3>2. Pieces(head) \o Pieces(rest) = Pieces(head \o rest)
      BY <1>5, <1>8, <3>1, Joined
    <3> QED
      BY <1>9, <3>2
  <2>3. Pieces(rest) = <<>>
    <3>1. Len(rest) \div Block = 0
      BY <1>0, <1>6
    <3> QED
      BY <3>1 DEF Pieces
  <2>4. IsString(Pieces(head))
    BY <1>8, PiecesString
  <2>5. Pieces(s \o in) = Pieces(head)
    BY <2>2, <2>3, <2>4, Empty
  <2> QED
    BY <2>1, <2>5 DEF State
<1>15. IncFinalize(st, in) = State(padded, Len(s))
  <2>1. st.bytes + Len(in) = n
    BY <1>2 DEF State, n
  <2>2. IncFinalize(st, in) = HashBlocks(HashBlocks(st, in), last)
    BY <2>1 DEF IncFinalize, Padding, q, rest, zeros
  <2> HIDE DEF head, last, padded
  <2>3. HashBlocks(State(head, Len(s)), last) = State(head \o last, Len(s))
    BY <1>8, <1>13, HashLaw
  <2> QED
    BY <1>13, <1>14, <2>2, <2>3
<1>16. Whole256(s \o in) = Cells(<<"sha256", Pieces(padded)>>, N)
  <2>1. Whole256(s \o in)
            = Cells(<<"sha256", Pieces(Padding(s \o in, Len(s \o in),
                                              Zeros(Len(s \o in))))>>, N)
    BY DEF Whole256, Zeros, Pieces, Piece, Padding
  <2> QED
    BY <1>10, <1>12, <2>1
<1> QED
  BY <1>15, <1>16 DEF Digest, State

LEMMA SimpleLaw ==
    ASSUME NEW in, IsString(in)
    PROVE  Sha256(in) = Whole256(in)
<1>1. Digest(IncFinalize(IncInit, in)) = Whole256(<<>> \o in)
  BY NothingAbsorbed, FinalLaw
<1>2. <<>> \o in = in
  BY Empty
<1> QED
  BY <1>1, <1>2 DEF Sha256

-------------------------------------------------------------------------------
(* The cut that hash_message and gen_message_random make.                  *)
LEMMA FillLaw ==
    ASSUME NEW st, NEW s, Absorbed(st, s), NEW blocks \in Nat,
           NEW head, IsString(head), Len(head) <= blocks * Block, NEW m, IsString(m)
    PROVE  FillAndFinalize(st, blocks, head, m) = Whole256(s \o (head \o m))
<1> DEFINE size == blocks * Block
           room == size - Len(head)
           t == Take(m, room)
           d == Drop(m, room)
           u == head \o t
<1>0. /\ Len(head) \in Nat /\ Len(m) \in Nat /\ size \in Nat
      /\ Len(head) <= size
  BY SizesAssumption DEF IsString
<1>1. IsString(s)
  BY DEF Absorbed, Aligned
<1>2. CASE Len(head) + Len(m) < size
  <2>1. IsString(head \o m)
    BY Appended
  <2>2. Digest(IncFinalize(st, head \o m)) = Whole256(s \o (head \o m))
    BY <2>1, FinalLaw
  <2> QED
    BY <1>2, <2>2 DEF FillAndFinalize
<1>3. CASE ~(Len(head) + Len(m) < size)
  <2>1. FillAndFinalize(st, blocks, head, m) = Digest(IncFinalize(IncBlocks(st, u), d))
    BY <1>3 DEF FillAndFinalize, Room
  <2> HIDE DEF size
  <2>2. room \in 0..Len(m)
    BY <1>0, <1>3
  <2>3. IsString(t)
    BY <2>2, Cut
  <2>4. IsString(d)
    BY <2>2, Cut
  <2>5. Len(t) = room /\ t \o d = m
    BY <2>2, Cut
  <2> HIDE DEF t, d
  <2>6. IsString(u)
    BY <2>3, Appended
  <2>7. Len(u) = Len(head) + Len(t)
    BY <2>3, Appended
  <2>8. (head \o t) \o d = head \o (t \o d)
    BY <2>3, <2>4, Associates
  <2>9. Len(u) = blocks * Block
    BY <1>0, <2>5, <2>7 DEF size
  <2>10. u \o d = head \o m
    BY <2>5, <2>8
  <2> HIDE DEF u
  <2>11. Aligned(u)
    BY <2>6, <2>9 DEF Aligned
  <2>12. Absorbed(IncBlocks(st, u), s \o u)
    BY <2>11, BlocksLaw
  <2>13. Digest(IncFinalize(IncBlocks(st, u), d)) = Whole256((s \o u) \o d)
    BY <2>4, <2>12, FinalLaw
  <2>14. (s \o u) \o d = s \o (u \o d)
    BY <1>1, <2>4, <2>6, Associates
  <2> QED
    BY <2>1, <2>10, <2>13, <2>14 DEF t, d, u
<1> QED
  BY <1>2, <1>3

LEMMA DigestString ==
    ASSUME NEW s
    PROVE  IsString(Whole256(s)) /\ Len(Whole256(s)) = N
<1>1. N \in Nat
  BY SizesAssumption
<1> QED
  BY <1>1, CellsString DEF Whole256

(* seed_state absorbs the padded seed, and thash goes on from there.        *)
BlockString(s) == IsString(s) /\ Len(s) = Block

LEMMA BlockAbsorbed ==
    ASSUME NEW s, BlockString(s)
    PROVE  Absorbed(IncBlocks(IncInit, s), s)
<1>1. Aligned(s)
  <2>1. Len(s) = 1 * Block
    BY SizesAssumption DEF BlockString
  <2> QED
    BY <2>1 DEF Aligned, BlockString
<1>2. Absorbed(IncBlocks(IncInit, s), <<>> \o s)
  BY <1>1, NothingAbsorbed, BlocksLaw
<1>3. <<>> \o s = s
  BY Empty DEF BlockString
<1> QED
  BY <1>2, <1>3

LEMMA PaddedKey ==
    ASSUME NEW x, NEW y
    PROVE  BlockString(Cells(x, N) \o Repeat(y, Block - N))
<1> DEFINE a == Cells(x, N)
           b == Repeat(y, Block - N)
<1>0. N \in Nat /\ Block - N \in Nat /\ N + (Block - N) = Block
  BY SizesAssumption
<1>1. IsString(a)
  BY <1>0, CellsString
<1>2. IsString(b)
  BY <1>0, CellsString
<1>3. Len(a) = N /\ Len(b) = Block - N
  BY <1>0, CellsString
<1> HIDE DEF a, b
<1>4. IsString(a \o b)
  BY <1>1, <1>2, Appended
<1>5. Len(a \o b) = Len(a) + Len(b)
  BY <1>1, <1>2, Appended
<1> QED
  BY <1>0, <1>3, <1>4, <1>5 DEF BlockString, a, b

LEMMA ThashLaw ==
    ASSUME NEW s, NEW inblocks \in Nat
    PROVE  Digest(IncFinalize(SeedState(s), ThashInput(inblocks)))
               = Whole256(SeedBlock(s) \o ThashInput(inblocks))
<1>1. BlockString(SeedBlock(s))
  BY PaddedKey DEF SeedBlock
<1>2. Absorbed(SeedState(s), SeedBlock(s))
  BY <1>1, BlockAbsorbed DEF SeedState
<1> DEFINE a == Cells(<<"addr">>, AddrCells)
           b == Cells(<<"in">>, inblocks * N)
<1>3. AddrCells \in Nat /\ inblocks * N \in Nat
  BY SizesAssumption
<1>4. IsString(a)
  BY <1>3, CellsString
<1>5. IsString(b)
  BY <1>3, CellsString
<1> HIDE DEF a, b
<1>6. IsString(a \o b)
  BY <1>4, <1>5, Appended
<1>7. IsString(ThashInput(inblocks))
  BY <1>6 DEF ThashInput, a, b
<1> QED
  BY <1>2, <1>7, FinalLaw

LEMMA MessageLaw ==
    ASSUME NEW m, IsString(m)
    PROVE  HashMessageSeed(m) = Whole256(R_Pk \o m)
<1> DEFINE a == Cells(<<"R">>, N)
           b == Cells(<<"pk">>, 2 * N)
<1>0. N \in Nat /\ 2 * N \in Nat /\ Block \in Nat \ {0}
  BY SizesAssumption
<1>1. IsString(a)
  BY <1>0, CellsString
<1>2. IsString(b)
  BY <1>0, CellsString
<1>3. Len(a) = N /\ Len(b) = 2 * N
  BY <1>0, CellsString
<1> HIDE DEF a, b
<1>4. IsString(a \o b)
  BY <1>1, <1>2, Appended
<1>5. Len(a \o b) = Len(a) + Len(b)
  BY <1>1, <1>2, Appended
<1>6. IsString(R_Pk)
  BY <1>4 DEF R_Pk, a, b
<1>7. Len(R_Pk) = 3 * N
  BY <1>0, <1>3, <1>5 DEF R_Pk, a, b
<1>8. InBlocks \in Nat /\ Len(R_Pk) <= InBlocks * Block
  <2> DEFINE x == 3 * N + Block - 1
             q == x \div Block
             r == x % Block
  <2>1. x \in Nat
    BY <1>0
  <2>2. q \in Nat /\ r \in 0..(Block - 1) /\ x = q * Block + r
    <3> HIDE DEF x
    <3> QED
      BY <1>0, <2>1, Divided
  <2>3. InBlocks = q
    BY DEF InBlocks
  <2> DEFINE y == q * Block
  <2> HIDE DEF q, r
  <2>4. y \in Nat /\ 3 * N + Block - 1 = y + r
    BY <1>0, <2>2
  <2> HIDE DEF y
  <2>5. 3 * N <= y
    BY <1>0, <2>2, <2>4
  <2> QED
    BY <1>7, <2>2, <2>3, <2>5 DEF y
<1>9. HashMessageSeed(m) = Whole256(<<>> \o (R_Pk \o m))
  <2>1. InBlocks \in Nat
    BY <1>8
  <2>2. Len(R_Pk) <= InBlocks * Block
    BY <1>8
  <2>3. PICK e : e = <<>>
    OBVIOUS
  <2>4. Absorbed(IncInit, e)
    BY <2>3, NothingAbsorbed
  <2>5. FillAndFinalize(IncInit, InBlocks, R_Pk, m) = Whole256(e \o (R_Pk \o m))
    BY <1>6, <2>1, <2>2, <2>4, FillLaw
  <2> QED
    BY <2>3, <2>5 DEF HashMessageSeed
<1>10. IsString(R_Pk \o m)
  BY <1>6, Appended
<1>11. <<>> \o (R_Pk \o m) = R_Pk \o m
  BY <1>10, Empty
<1> QED
  BY <1>9, <1>11

LEMMA HmacLaw ==
    ASSUME NEW m, IsString(m)
    PROVE  GenMessageRandom(m)
               = Whole256(KeyBlock("0x5c") \o Whole256(KeyBlock("0x36") \o Optrand \o m))
<1> DEFINE k == KeyBlock("0x36")
           o == KeyBlock("0x5c")
           inner == FillAndFinalize(IncBlocks(IncInit, k), 1, Optrand, m)
<1>1. BlockString(k) /\ BlockString(o)
  BY PaddedKey DEF KeyBlock
<1>2. N \in Nat /\ N <= 1 * Block
  BY SizesAssumption
<1>3. IsString(Optrand)
  BY <1>2, CellsString DEF Optrand
<1>4. Len(Optrand) <= 1 * Block
  BY <1>2, CellsString DEF Optrand
<1>5. GenMessageRandom(m) = Sha256(o \o inner)
  BY DEF GenMessageRandom
<1> HIDE DEF k, o
<1>6. Absorbed(IncBlocks(IncInit, k), k)
  BY <1>1, BlockAbsorbed
<1>7. inner = Whole256(k \o (Optrand \o m))
  BY <1>3, <1>4, <1>6, FillLaw
<1>8. IsString(inner)
  BY <1>7, DigestString
<1>9. IsString(k)
  BY <1>1 DEF BlockString
<1>10. IsString(o)
  BY <1>1 DEF BlockString
<1> HIDE DEF inner
<1>11. IsString(o \o inner)
  BY <1>8, <1>10, Appended
<1>12. Sha256(o \o inner) = Whole256(o \o inner)
  BY <1>11, SimpleLaw
<1>13. (k \o Optrand) \o m = k \o (Optrand \o m)
  BY <1>3, <1>9, Associates
<1> QED
  BY <1>5, <1>7, <1>12, <1>13 DEF k, o

-------------------------------------------------------------------------------
(* Cell k of the digests that mgf1 makes one after the other.              *)
StreamCell(in, k) == MgfDigest(in, (k - 1) \div N)[((k - 1) % N) + 1]
StreamStart(in, w, n) ==
    IsString(w) /\ Len(w) = n /\ \A k \in 1..n : w[k] = StreamCell(in, k)

Written(in, q) ==
    LET written[i \in 0..q] ==
            IF i = 0 THEN <<>> ELSE written[i - 1] \o MgfDigest(in, i - 1)
    IN  written

LEMMA WrittenExists ==
    ASSUME NEW in
    PROVE  \A m \in Nat : \E h : h = [i \in 0..m |->
               IF i = 0 THEN <<>> ELSE h[i - 1] \o MgfDigest(in, i - 1)]
<1> DEFINE E(w, i) == w \o MgfDigest(in, i)
           IsPart(h, m) == h = [i \in 0..m |-> IF i = 0 THEN <<>> ELSE E(h[i - 1], i - 1)]
           T == {m \in Nat : \E h : IsPart(h, m)}
<1> HIDE DEF E
<1>1. 0 \in T
  <2>1. IsPart([i \in 0..0 |-> <<>>], 0)
    OBVIOUS
  <2> HIDE DEF IsPart
  <2> QED
    BY <2>1
<1>2. ASSUME NEW m \in T PROVE m + 1 \in T
  <2>1. PICK h : IsPart(h, m)
    OBVIOUS
  <2> DEFINE g == [i \in 0..(m + 1) |-> IF i = m + 1 THEN E(h[m], m) ELSE h[i]]
  <2>2. \A i \in 0..(m + 1) : g[i] = IF i = 0 THEN <<>> ELSE E(g[i - 1], i - 1)
    <3> SUFFICES ASSUME NEW i \in 0..(m + 1)
                 PROVE  g[i] = IF i = 0 THEN <<>> ELSE E(g[i - 1], i - 1)
      OBVIOUS
    <3>1. m \in Nat
      OBVIOUS
    <3>2. CASE i = m + 1
      BY <3>1, <3>2
    <3>3. CASE i # m + 1
      <4>1. i \in 0..m /\ g[i] = h[i] /\ (i # 0 => g[i - 1] = h[i - 1])
        BY <3>1, <3>3
      <4>2. h[i] = IF i = 0 THEN <<>> ELSE E(h[i - 1], i - 1)
        BY <2>1, <4>1
      <4> QED
        BY <4>1, <4>2
    <3> QED
      BY <3>2, <3>3
  <2>3. IsPart(g, m + 1)
    <3>1. g = [i \in 0..(m + 1) |-> g[i]]
      OBVIOUS
    <3> HIDE DEF g
    <3> QED
      BY <2>2, <3>1
  <2>4. m + 1 \in Nat
    OBVIOUS
  <2> HIDE DEF IsPart
  <2> QED
    BY <2>3, <2>4
<1>3. T \subseteq Nat
  OBVIOUS
<1>4. T = Nat
  <2> HIDE DEF T
  <2> QED
    BY <1>1, <1>2, <1>3, NatInd
<1> QED
  BY <1>4 DEF E

LEMMA WrittenLaw ==
    ASSUME NEW in, NEW q \in Nat
    PROVE  /\ Written(in, q)[0] = <<>>
           /\ \A i \in 1..q : Written(in, q)[i] = Written(in, q)[i - 1] \o MgfDigest(in, i - 1)
<1> DEFINE IsAll(h) == h = [i \in 0..q |->
                               IF i = 0 THEN <<>> ELSE h[i - 1] \o MgfDigest(in, i - 1)]
           S == Written(in, q)
<1>1. \E h : IsAll(h)
  BY WrittenExists
<1>2. S = CHOOSE h : IsAll(h)
  BY DEF Written
<1>3. IsAll(S)
  <2> HIDE DEF IsAll, S
  <2> QED
    BY <1>1, <1>2
<1> HIDE DEF S
<1>4. S[0] = <<>>
  BY <1>3
<1>5. ASSUME NEW i \in 1..q PROVE S[i] = S[i - 1] \o MgfDigest(in, i - 1)
  <2>1. i \in 0..q /\ i # 0
    OBVIOUS
  <2> QED
    BY <1>3, <2>1
<1> QED
  BY <1>4, <1>5 DEF S

LEMMA MgfDigestString ==
    ASSUME NEW in, NEW i
    PROVE  IsString(MgfDigest(in, i)) /\ Len(MgfDigest(in, i)) = N
<1>1. N \in Nat
  BY SizesAssumption
<1> QED
  BY <1>1, CellsString DEF MgfDigest, Sha256, Digest

(* n cells of the next digest go on with the stream.                       *)
LEMMA StreamLaw ==
    ASSUME NEW in, NEW i \in Nat, NEW w, StreamStart(in, w, i * N), NEW n \in 0..N
    PROVE  StreamStart(in, w \o Take(MgfDigest(in, i), n), i * N + n)
<1> DEFINE d == MgfDigest(in, i)
           t == Take(d, n)
           x == i * N
           u == w \o t
<1>0. N \in Nat \ {0} /\ x \in Nat /\ n \in Nat /\ n <= N
  BY SizesAssumption
<1>1. IsString(d) /\ Len(d) = N
  BY MgfDigestString
<1> HIDE DEF d
<1>2. IsString(t)
  BY <1>1, Cut
<1>3. Len(t) = n /\ \A k \in 1..n : t[k] = d[k]
  BY <1>1, Cut
<1>4. IsString(w) /\ Len(w) = x /\ \A k \in 1..x : w[k] = StreamCell(in, k)
  BY DEF StreamStart
<1> HIDE DEF t
<1>5. IsString(w)
  BY <1>4
<1>6. /\ IsString(u) /\ Len(u) = Len(w) + Len(t)
      /\ \A k \in 1..Len(w) : u[k] = w[k]
      /\ \A k \in 1..Len(t) : u[Len(w) + k] = t[k]
  BY <1>2, <1>5, Appended
<1> HIDE DEF u
<1>7. ASSUME NEW k \in 1..(x + n) PROVE u[k] = StreamCell(in, k)
  <2>1. CASE k <= x
    BY <1>0, <1>4, <1>6, <2>1
  <2>2. CASE ~(k <= x)
    <3> DEFINE r == k - 1 - x
    <3>1. r \in 0..(N - 1) /\ r + 1 \in 1..n /\ x + (r + 1) = k /\ k - 1 = x + r
      BY <1>0, <2>2
    <3> HIDE DEF r
    <3>2. (i * N + r) \div N = i /\ (i * N + r) % N = r
      BY <1>0, <3>1, Division
    <3>3. StreamCell(in, k) = d[r + 1]
      BY <3>1, <3>2 DEF StreamCell, d, x
    <3> HIDE DEF x
    <3>4. u[x + (r + 1)] = t[r + 1]
      BY <1>3, <1>4, <1>6, <3>1
    <3>5. t[r + 1] = d[r + 1]
      BY <1>3, <3>1
    <3> QED
      BY <3>1, <3>3, <3>4, <3>5
  <2> QED
    BY <2>1, <2>2
<1> QED
  BY <1>3, <1>4, <1>6, <1>7 DEF StreamStart, t, d, u

LEMMA WholeLaw ==
    ASSUME NEW in, NEW q \in Nat
    PROVE  StreamStart(in, Written(in, q)[q], q * N)
<1> DEFINE W == Written(in, q)
           T == {i \in Nat : i <= q => StreamStart(in, W[i], i * N)}
<1>0. W[0] = <<>> /\ \A i \in 1..q : W[i] = W[i - 1] \o MgfDigest(in, i - 1)
  BY WrittenLaw
<1> HIDE DEF W
<1>1. 0 \in T
  <2>1. 0 * N = 0
    BY SizesAssumption
  <2>2. StreamStart(in, <<>>, 0)
    BY Empty DEF StreamStart
  <2> QED
    BY <1>0, <2>1, <2>2
<1>2. ASSUME NEW i \in T PROVE i + 1 \in T
  <2> SUFFICES ASSUME i + 1 <= q PROVE StreamStart(in, W[i + 1], (i + 1) * N)
    OBVIOUS
  <2>1. i \in Nat /\ i <= q /\ i + 1 \in 1..q /\ (i + 1) - 1 = i
    OBVIOUS
  <2>2. StreamStart(in, W[i], i * N)
    BY <2>1
  <2>3. W[i + 1] = W[i] \o MgfDigest(in, i)
    BY <1>0, <2>1
  <2> DEFINE d == MgfDigest(in, i)
  <2>4. IsString(d) /\ Len(d) = N
    BY MgfDigestString
  <2>5. N \in 0..N
    BY SizesAssumption
  <2>6. StreamStart(in, W[i] \o Take(MgfDigest(in, i), N), i * N + N)
    BY <2>1, <2>2, <2>5, StreamLaw
  <2> HIDE DEF d
  <2>7. Take(d, N) = d
    <3>1. IsString(Take(d, N))
      BY <2>4, <2>5, Cut
    <3>2. Len(Take(d, N)) = N /\ \A k \in 1..N : Take(d, N)[k] = d[k]
      BY <2>4, <2>5, Cut
    <3> QED
      BY <2>4, <3>1, <3>2, Same
  <2>8. (i + 1) * N = i * N + N
    BY <2>1, SizesAssumption
  <2> QED
    BY <2>3, <2>6, <2>7, <2>8 DEF d
<1>3. T \subseteq Nat
  OBVIOUS
<1>4. T = Nat
  <2> HIDE DEF T
  <2> QED
    BY <1>1, <1>2, <1>3, NatInd
<1> QED
  BY <1>4 DEF W

LEMMA MgfLaw ==
    ASSUME NEW in, NEW outlen \in Nat
    PROVE  StreamStart(in, Mgf1(in, outlen), outlen)
<1> DEFINE q == outlen \div N
           w == Written(in, q)[q]
           n == outlen - q * N
<1>0. N \in Nat \ {0}
  BY SizesAssumption
<1>1. q \in Nat /\ n \in 0..(N - 1) /\ outlen = q * N + n
  <2> DEFINE r == outlen % N
             x == q * N
  <2>1. q \in Nat /\ r \in 0..(N - 1) /\ outlen = x + r
    BY <1>0, Divided
  <2>2. x \in Nat
    <3> HIDE DEF q
    <3> QED
      BY <1>0, <2>1
  <2> HIDE DEF r, x
  <2>3. outlen - x \in 0..(N - 1) /\ outlen = x + (outlen - x)
    BY <1>0, <2>1, <2>2
  <2> QED
    BY <2>1, <2>3 DEF x
<1>2. Mgf1(in, outlen) = IF n > 0 THEN w \o Take(MgfDigest(in, q), n) ELSE w
  BY DEF Mgf1, Whole, Remaining, Written
<1> HIDE DEF q
<1>3. StreamStart(in, w, q * N)
  BY <1>1, WholeLaw
<1> HIDE DEF w, n
<1>4. CASE n > 0
  <2>1. n \in 0..N
    BY <1>0, <1>1
  <2>2. StreamStart(in, w \o Take(MgfDigest(in, q), n), q * N + n)
    BY <1>1, <1>3, <2>1, StreamLaw
  <2> QED
    BY <1>1, <1>2, <1>4, <2>2
<1>5. CASE ~(n > 0)
  <2>1. q * N \in Nat /\ n = 0
    BY <1>0, <1>1, <1>5
  <2>2. outlen = q * N
    BY <1>1, <2>1
  <2> QED
    BY <1>2, <1>3, <1>5, <2>2
<1> QED
  BY <1>4, <1>5

-------------------------------------------------------------------------------
(* state_seeded is the state of the seed that was set last.                *)
Seeded == seed # "none" => state_seeded = SeedState(seed)

HashesInv ==
    /\ Seeded
    /\ call[1] = "thash" => seed # "none"
    /\ ThashSeeded
    /\ MessageHashedWhole
    /\ RandomIsHmac
    /\ MaskIsStream

LEMMA ThashStep == HashesInv /\ CallThash => HashesInv'
<1> SUFFICES ASSUME HashesInv, CallThash PROVE HashesInv'
  OBVIOUS
<1>1. PICK inblocks \in 1..MaxBlocks :
          LET end == IncFinalize(state_seeded, ThashInput(inblocks))
          IN  out' = Digest(end) /\ state_seeded' = Kept(end) /\ call' = <<"thash", inblocks>>
  BY DEF CallThash
<1>2. state_seeded = SeedState(seed) /\ seed' = seed /\ seed # "none"
  BY DEF CallThash, HashesInv, Seeded
<1>3. state_seeded' = state_seeded /\ call'[1] = "thash" /\ call'[2] = inblocks
  BY <1>1 DEF Kept
<1>4. inblocks \in Nat
  BY <1>1, SizesAssumption
<1>5. out' = Whole256(SeedBlock(seed) \o ThashInput(inblocks))
  BY <1>1, <1>2, <1>4, ThashLaw
<1>6. ThashSeeded'
  BY <1>2, <1>3, <1>5 DEF ThashSeeded
<1> QED
  BY <1>2, <1>3, <1>6 DEF HashesInv, Seeded, MessageHashedWhole, RandomIsHmac, MaskIsStream

LEMMA HashMessageStep == HashesInv /\ CallHashMessage => HashesInv'
<1> SUFFICES ASSUME HashesInv, CallHashMessage PROVE HashesInv'
  OBVIOUS
<1>1. PICK mlen \in 0..MaxLen :
          call' = <<"hash_message", mlen>> /\ out' = HashMessageSeed(Cells(<<"m">>, mlen))
  BY DEF CallHashMessage
<1>2. UNCHANGED <<state_seeded, seed>>
  BY DEF CallHashMessage
<1>3. mlen \in Nat
  BY <1>1, SizesAssumption
<1>4. IsString(Cells(<<"m">>, mlen))
  BY <1>3, CellsString
<1>5. out' = Whole256(R_Pk \o Cells(<<"m">>, mlen))
  BY <1>1, <1>4, MessageLaw
<1>6. call'[1] = "hash_message" /\ call'[2] = mlen
  BY <1>1
<1>7. MessageHashedWhole'
  BY <1>5, <1>6 DEF MessageHashedWhole
<1> QED
  BY <1>2, <1>6, <1>7 DEF HashesInv, Seeded, ThashSeeded, RandomIsHmac, MaskIsStream

LEMMA GenMessageRandomStep == HashesInv /\ CallGenMessageRandom => HashesInv'
<1> SUFFICES ASSUME HashesInv, CallGenMessageRandom PROVE HashesInv'
  OBVIOUS
<1>1. PICK mlen \in 0..MaxLen :
          /\ call' = <<"gen_message_random", mlen>>
          /\ out' = GenMessageRandom(Cells(<<"m">>, mlen))
  BY DEF CallGenMessageRandom
<1>2. UNCHANGED <<state_seeded, seed>>
  BY DEF CallGenMessageRandom
<1>3. mlen \in Nat
  BY <1>1, SizesAssumption
<1>4. IsString(Cells(<<"m">>, mlen))
  BY <1>3, CellsString
<1>5. out' = Whole256(KeyBlock("0x5c") \o Whole256(KeyBlock("0x36") \o Optrand
                                                   \o Cells(<<"m">>, mlen)))
  BY <1>1, <1>4, HmacLaw
<1>6. call'[1] = "gen_message_random" /\ call'[2] = mlen
  BY <1>1
<1>7. RandomIsHmac'
  BY <1>5, <1>6 DEF RandomIsHmac
<1> QED
  BY <1>2, <1>6, <1>7 DEF HashesInv, Seeded, ThashSeeded, MessageHashedWhole, MaskIsStream

LEMMA Mgf1Step == HashesInv /\ CallMgf1 => HashesInv'
<1> SUFFICES ASSUME HashesInv, CallMgf1 PROVE HashesInv'
  OBVIOUS
<1> DEFINE in == Cells(<<"seed">>, N)
           ctr(i) == Cells(<<"counter", i>>, 1)
<1>1. PICK outlen \in 1..MaxLen : call' = <<"mgf1", outlen>> /\ out' = Mgf1(in, outlen)
  BY DEF CallMgf1
<1>2. UNCHANGED <<state_seeded, seed>>
  BY DEF CallMgf1
<1>3. outlen \in Nat /\ N \in Nat
  BY <1>1, SizesAssumption
<1>4. IsString(in)
  BY <1>3, CellsString
<1>5. call'[1] = "mgf1" /\ call'[2] = outlen
  BY <1>1
<1> HIDE DEF in
<1>6. StreamStart(in, out', outlen)
  BY <1>1, <1>3, MgfLaw
<1>7. Len(out') = outlen /\ \A k \in 1..outlen : out'[k] = StreamCell(in, k)
  BY <1>6 DEF StreamStart
<1>8. ASSUME NEW i PROVE MgfDigest(in, i) = Whole256(in \o ctr(i))
  <2>1. IsString(ctr(i))
    BY CellsString
  <2> HIDE DEF ctr
  <2>2. IsString(in \o ctr(i))
    BY <1>4, <2>1, Appended
  <2>3. Sha256(in \o ctr(i)) = Whole256(in \o ctr(i))
    BY <2>2, SimpleLaw
  <2> QED
    BY <2>3 DEF MgfDigest, ctr
<1>9. \A k \in 1..outlen : out'[k] = Whole256(in \o ctr((k - 1) \div N))[((k - 1) % N) + 1]
  BY <1>7, <1>8 DEF StreamCell
<1>10. MaskIsStream'
  BY <1>5, <1>7, <1>9 DEF MaskIsStream, in
<1> QED
  BY <1>2, <1>5, <1>10 DEF HashesInv, Seeded, ThashSeeded, MessageHashedWhole, RandomIsHmac

LEMMA SeedStep == HashesInv /\ InitializeHashFunction => HashesInv'
BY DEF HashesInv, InitializeHashFunction, Seeded, ThashSeeded, MessageHashedWhole,
       RandomIsHmac, MaskIsStream

LEMMA HashesInductive == Spec => []HashesInv
<1>1. Init => HashesInv
  BY DEF Init, HashesInv, Seeded, ThashSeeded, MessageHashedWhole, RandomIsHmac, MaskIsStream
<1>2. HashesInv /\ [Next]_vars => HashesInv'
  <2> SUFFICES ASSUME HashesInv, [Next]_vars PROVE HashesInv'
    OBVIOUS
  <2>1. CASE UNCHANGED vars
    BY <2>1 DEF vars, HashesInv, Seeded, ThashSeeded, MessageHashedWhole, RandomIsHmac,
                MaskIsStream
  <2> QED
    BY <2>1, SeedStep, ThashStep, HashMessageStep, GenMessageRandomStep, Mgf1Step DEF Next
<1> QED
  BY <1>1, <1>2, PTL DEF Spec

(* thash, of any number of blocks and as often as it is called, returns the *)
(* SHA-256 of the padded seed, the address and the input, though it starts  *)
(* from state_seeded, which holds the seed block absorbed and its length.   *)
THEOREM HashesSeeded == Spec => []ThashSeeded
<1>1. HashesInv => ThashSeeded
  BY DEF HashesInv
<1> QED
  BY <1>1, HashesInductive, PTL

(* hash_message hashes R, the public key and the message as one string, at  *)
(* every length of the message: neither cut, to fill the first blocks and   *)
(* to pad the last, shows.                                                 *)
THEOREM HashesWhole == Spec => []MessageHashedWhole
<1>1. HashesInv => MessageHashedWhole
  BY DEF HashesInv
<1> QED
  BY <1>1, HashesInductive, PTL

(* gen_message_random is HMAC-SHA256 of optrand and the message by sk_prf,  *)
(* at every length of the message.                                         *)
THEOREM RandomHmac == Spec => []RandomIsHmac
<1>1. HashesInv => RandomIsHmac
  BY DEF HashesInv
<1> QED
  BY <1>1, HashesInductive, PTL

(* mgf1 writes outlen bytes, those of the one stream of its seed, whatever  *)
(* outlen leaves over of the last digest.                                  *)
THEOREM Masks == Spec => []MaskIsStream
<1>1. HashesInv => MaskIsStream
  BY DEF HashesInv
<1> QED
  BY <1>1, HashesInductive, PTL
===============================================================================
