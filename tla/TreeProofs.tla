------------------------------- MODULE TreeProofs -------------------------------
(***************************************************************************)
(* The two walks over a Merkle tree of utils.c, for every tree height,     *)
(* number of trees, leaf, hash function and initial contents of memory.    *)
(* treehash returns the root and the authentication path, and implements   *)
(* its promise; compute_root gives that root for that path and, with a     *)
(* hash function without collisions, for no other one.                     *)
(***************************************************************************)
EXTENDS Treehash, ComputeRoot, TLAPS

-------------------------------------------------------------------------------
(* Facts about division, powers of two and the numbering of nodes across   *)
(* trees.                                                                  *)

(* A quotient is the number that satisfies its defining inequality. *)
LEMMA DivLemma ==
    ASSUME NEW x \in Nat, NEW d \in Nat \ {0}, NEW m \in Nat,
           m * d <= x, x < (m + 1) * d
    PROVE  x \div d = m
<1> DEFINE q == x \div d
<1>1. q \in Nat /\ q * d <= x /\ x < (q + 1) * d
  BY SMT
<1>2. ~(q < m)
  <2> SUFFICES ASSUME q < m PROVE FALSE
    OBVIOUS
  <2>1. q + 1 <= m
    BY <1>1
  <2>2. (q + 1) * d <= m * d
    BY <1>1, <2>1, SMT
  <2> QED
    BY <1>1, <2>2
<1>3. ~(m < q)
  <2> SUFFICES ASSUME m < q PROVE FALSE
    OBVIOUS
  <2>1. m + 1 <= q
    BY <1>1
  <2>2. (m + 1) * d <= q * d
    BY <1>1, <2>1, SMT
  <2> QED
    BY <1>1, <2>2
<1> QED
  BY <1>1, <1>2, <1>3

(* Comparing multiples of the same positive number. *)
LEMMA MultLemma ==
    ASSUME NEW a \in Nat, NEW b \in Nat, NEW d \in Nat \ {0}
    PROVE  /\ a * d \in Nat
           /\ a * d = b * d => a = b
           /\ a * d < b * d <=> a < b
           /\ a * d <= b * d <=> a <= b
<1>1. a * d \in Nat /\ b * d \in Nat
  OBVIOUS
<1>2. a < b => a * d < b * d
  OBVIOUS
<1>3. b < a => b * d < a * d
  OBVIOUS
<1> QED
  BY <1>1, <1>2, <1>3

-------------------------------------------------------------------------------
(* Powers of two. *)
LEMMA PowType == \A k \in 0..TreeHeight : Pow2[k] \in Nat \ {0}
BY Pow2Assumption

LEMMA PowSucc ==
    ASSUME NEW k \in 0..(TreeHeight - 1)
    PROVE  Pow2[k + 1] = 2 * Pow2[k]
<1>1. 1 \in 0..TreeHeight /\ k \in 0..TreeHeight /\ k + 1 <= TreeHeight
  BY TreeHeightAssumption
<1>2. Pow2[k + 1] = Pow2[k] * Pow2[1]
  BY <1>1, Pow2Assumption
<1> QED
  BY <1>1, <1>2, Pow2Assumption

(* A power of two is an even multiple of every smaller one. *)
LEMMA PowFactor ==
    ASSUME NEW a \in 0..TreeHeight, NEW b \in 0..TreeHeight, a < b
    PROVE  /\ Pow2[b - a - 1] \in Nat \ {0}
           /\ Pow2[b] = 2 * Pow2[b - a - 1] * Pow2[a]
<1> DEFINE c == b - a - 1
<1>1. c \in 0..(TreeHeight - 1) /\ c \in 0..TreeHeight /\ c + 1 \in 0..TreeHeight
      /\ (c + 1) + a = b
  BY TreeHeightAssumption
<1>2. Pow2[(c + 1) + a] = Pow2[c + 1] * Pow2[a]
  BY <1>1, Pow2Assumption
<1>3. Pow2[c + 1] = 2 * Pow2[c]
  BY <1>1, PowSucc
<1>4. Pow2[c] \in Nat \ {0}
  BY <1>1, PowType
<1> QED
  BY <1>1, <1>2, <1>3, <1>4

LEMMA PowLess ==
    ASSUME NEW a \in 0..TreeHeight, NEW b \in 0..TreeHeight
    PROVE  Pow2[a] < Pow2[b] <=> a < b
<1>1. \A i, j \in 0..TreeHeight : i < j => Pow2[i] < Pow2[j]
  <2> SUFFICES ASSUME NEW i \in 0..TreeHeight, NEW j \in 0..TreeHeight, i < j
               PROVE  Pow2[i] < Pow2[j]
    OBVIOUS
  <2> DEFINE c == Pow2[j - i - 1]
  <2>1. c \in Nat \ {0} /\ Pow2[j] = 2 * c * Pow2[i] /\ Pow2[i] \in Nat \ {0}
    BY PowFactor, PowType
  <2>2. 1 * Pow2[i] < (2 * c) * Pow2[i]
    BY <2>1, MultLemma
  <2> QED
    BY <2>1, <2>2
<1> QED
  BY <1>1, PowType

(* A multiple of 2^b that is also m * 2^a, with a < b, is an even m. *)
LEMMA EvenLemma ==
    ASSUME NEW a \in 0..TreeHeight, NEW b \in 0..TreeHeight, a < b,
           NEW m \in Nat, NEW n \in Nat,
           m * Pow2[a] = n * Pow2[b]
    PROVE  \E k \in Nat : m = 2 * k
<1> DEFINE c == Pow2[b - a - 1]
           p == Pow2[a]
<1>1. c \in Nat /\ p \in Nat \ {0} /\ Pow2[b] = 2 * c * p
  BY PowFactor, PowType
<1>2. m * p = (2 * (n * c)) * p
  <2>1. m * p = n * (2 * c * p)
    BY <1>1
  <2> HIDE DEF c, p
  <2> QED
    BY <1>1, <2>1
<1>3. 2 * (n * c) \in Nat /\ n * c \in Nat
  BY <1>1
<1>4. m = 2 * (n * c)
  BY <1>1, <1>2, <1>3, MultLemma
<1> QED
  BY <1>3, <1>4

-------------------------------------------------------------------------------
(* Numbering nodes across trees. *)

(* The tree of a first leaf, and its first node at each height. *)
LEMMA FirstLemma ==
    ASSUME NEW first \in FirstLeaves, NEW h \in 0..TreeHeight
    PROVE  /\ first \in Nat
           /\ first \div Pow2[TreeHeight] \in 0..(Trees - 1)
           /\ Shr(first, h) = (first \div Pow2[TreeHeight]) * Pow2[TreeHeight - h]
<1>1. PICK t \in 0..(Trees - 1) : first = t * Pow2[TreeHeight]
  BY DEF FirstLeaves
<1>2. TreeHeight \in 0..TreeHeight /\ TreeHeight - h \in 0..TreeHeight
  BY TreeHeightAssumption
<1> DEFINE P == Pow2[TreeHeight]
           Q == Pow2[TreeHeight - h]
           R == Pow2[h]
<1>3. P \in Nat \ {0} /\ Q \in Nat \ {0} /\ R \in Nat \ {0}
  BY <1>2, PowType
<1>4. P = Q * R
  BY <1>2, Pow2Assumption, TreeHeightAssumption
<1>5. t \in Nat
  BY TreesAssumption
<1> HIDE DEF P, Q, R
<1>6. first = t * P /\ first \in Nat
  BY <1>1, <1>3, <1>5 DEF P
<1>7. first \div P = t
  <2>1. t * P <= first /\ first < (t + 1) * P
    BY <1>3, <1>5, <1>6
  <2> QED
    BY <2>1, <1>3, <1>5, <1>6, DivLemma
<1>8. first \div R = t * Q
  <2>1. t * Q \in Nat /\ first = (t * Q) * R
    BY <1>3, <1>4, <1>5, <1>6
  <2>2. (t * Q) * R <= first /\ first < (t * Q + 1) * R
    BY <2>1, <1>3, <1>6
  <2> HIDE DEF Q
  <2>3. \A y \in Nat : y * R <= first /\ first < (y + 1) * R => first \div R = y
    BY <1>3, <1>6, DivLemma
  <2> QED
    BY <2>1, <2>2, <2>3
<1> QED
  BY <1>1, <1>5, <1>6, <1>7, <1>8, TreesAssumption DEF Shr, P, Q, R

(* The children of the node m of height h + 1 are 2 m and 2 m + 1. *)
LEMMA ChildLemma ==
    ASSUME NEW first \in FirstLeaves, NEW h \in 0..(TreeHeight - 1),
           NEW m \in IndexInTree(h + 1)
    PROVE  /\ InTree(first, h + 1, m) \in NodesAt(h + 1)
           /\ InTree(first, h + 1, m) = m + Shr(first, h + 1)
           /\ Node(h + 1, InTree(first, h + 1, m))
                 = Thash(h + 1, m + Shr(first, h + 1),
                         Node(h, InTree(first, h, 2 * m)),
                         Node(h, InTree(first, h, 2 * m + 1)))
<1> DEFINE t == first \div Pow2[TreeHeight]
           Q == Pow2[TreeHeight - (h + 1)]
<1>1. h + 1 \in 0..TreeHeight /\ TreeHeight - (h + 1) \in 0..(TreeHeight - 1)
      /\ TreeHeight - h = (TreeHeight - (h + 1)) + 1
  BY TreeHeightAssumption
<1>2. Q \in Nat \ {0} /\ Pow2[TreeHeight - h] = 2 * Q
  <2>1. TreeHeight - (h + 1) \in 0..TreeHeight
    BY <1>1, TreeHeightAssumption
  <2>2. Pow2[(TreeHeight - (h + 1)) + 1] = 2 * Q
    BY <1>1, PowSucc
  <2> QED
    BY <1>1, <2>1, <2>2, PowType
<1>3. t \in 0..(Trees - 1) /\ Shr(first, h + 1) = t * Q
  BY <1>1, FirstLemma
<1>4. m \in 0..(Q - 1)
  BY DEF IndexInTree
<1> HIDE DEF t, Q
<1>5. m + t * Q \in 0..(Trees * Q - 1)
  <2>1. t \in Nat /\ t + 1 <= Trees /\ t * Q \in Nat
    BY <1>2, <1>3, TreesAssumption
  <2>2. (t + 1) * Q <= Trees * Q
    BY <2>1, <1>2, TreesAssumption, MultLemma
  <2>3. (t + 1) * Q = t * Q + Q
    BY <2>1, <1>2
  <2> QED
    BY <1>2, <1>4, <2>1, <2>2, <2>3, TreesAssumption
<1>6. InTree(first, h + 1, m) = m + t * Q
  BY DEF InTree, t, Q
<1>7. InTree(first, h, 2 * m) = 2 * (m + t * Q)
  BY <1>2, <1>3, <1>4, TreesAssumption DEF InTree, t
<1>8. InTree(first, h, 2 * m + 1) = 2 * (m + t * Q) + 1
  BY <1>2, <1>3, <1>4, TreesAssumption DEF InTree, t
<1>9. m + t * Q \in NodesAt(h + 1)
  BY <1>5 DEF NodesAt, Q
<1> QED
  BY <1>3, <1>6, <1>7, <1>8, <1>9, NodeAssumption

(* Shifting once more by one bit. *)
LEMMA ShrSucc ==
    ASSUME NEW x \in Nat, NEW k \in 0..(TreeHeight - 1)
    PROVE  /\ Shr(x, k) \in Nat
           /\ Shr(x, k + 1) = Shr(x, k) \div 2
<1> DEFINE D == Pow2[k]
           y == x \div D
           z == y \div 2
<1>1. D \in Nat \ {0} /\ Pow2[k + 1] = 2 * D
  BY PowSucc, PowType, TreeHeightAssumption
<1> HIDE DEF D
<1>2. y \in Nat /\ y * D <= x /\ x < (y + 1) * D
  BY <1>1
<1> HIDE DEF y
<1>3. z \in Nat /\ 2 * z <= y /\ y + 1 <= 2 * (z + 1)
  BY <1>2
<1> HIDE DEF z
<1>4. (2 * z) * D <= y * D /\ (y + 1) * D <= (2 * (z + 1)) * D
  BY <1>1, <1>2, <1>3, MultLemma
<1>5. z * (2 * D) = (2 * z) * D /\ (z + 1) * (2 * D) = (2 * (z + 1)) * D
  BY <1>1, <1>3
<1>6. z * (2 * D) \in Nat /\ (z + 1) * (2 * D) \in Nat /\ y * D \in Nat
      /\ (y + 1) * D \in Nat
  BY <1>1, <1>2, <1>3
<1>7. z * (2 * D) <= x /\ x < (z + 1) * (2 * D)
  BY <1>2, <1>4, <1>5, <1>6
<1>8. 2 * D \in Nat \ {0}
  BY <1>1
<1>9. x \div (2 * D) = z
  BY <1>3, <1>7, <1>8, DivLemma
<1> QED
  BY <1>1, <1>2, <1>9 DEF Shr, D, y, z

(* The ancestors of a leaf of a tree are nodes of that tree. *)
LEMMA ShrInTree ==
    ASSUME NEW leaf \in LeafIndices, NEW h \in 0..TreeHeight
    PROVE  Shr(leaf, h) \in IndexInTree(h)
<1> DEFINE D == Pow2[h]
           Q == Pow2[TreeHeight - h]
           y == leaf \div D
<1>1. D \in Nat \ {0} /\ Q \in Nat \ {0} /\ Pow2[TreeHeight] = Q * D
  <2>1. /\ TreeHeight - h \in 0..TreeHeight /\ (TreeHeight - h) + h = TreeHeight
    BY TreeHeightAssumption
  <2>2. Pow2[(TreeHeight - h) + h] = Q * D
    BY <2>1, Pow2Assumption, TreeHeightAssumption
  <2> QED
    BY <2>1, <2>2, PowType
<1>2. leaf \in Nat /\ leaf < Q * D
  BY <1>1, PowType, TreeHeightAssumption DEF LeafIndices
<1> HIDE DEF D, Q
<1>3. y \in Nat /\ y * D <= leaf
  BY <1>1, <1>2
<1> HIDE DEF y
<1>4. y * D < Q * D
  <2>1. y * D \in Nat /\ Q * D \in Nat
    BY <1>1, <1>3
  <2> QED
    BY <1>2, <1>3, <2>1
<1>5. y < Q
  BY <1>1, <1>3, <1>4, MultLemma
<1> QED
  BY <1>1, <1>3, <1>5 DEF Shr, IndexInTree, D, Q, y

-------------------------------------------------------------------------------
-------------------------------------------------------------------------------
(* What the value of pc says about the loop counters.                       *)
Phases ==
    /\ pc = "start" => idx = 0 /\ offset = 0
    /\ pc = "merge" => idx < Pow2[TreeHeight] /\ offset >= 1

(* Heights decrease from the bottom of the stack to its top; only while     *)
(* the inner loop runs may the two top-most nodes be of equal height.       *)
HeightsDecrease ==
    \A i, j \in 0..(offset - 1) :
        i < j => \/ heights[i] > heights[j]
                 \/ /\ pc = "merge"
                    /\ i = offset - 2
                    /\ heights[i] = heights[j]

(* Each cell of the stack costs one height, except while the inner loop     *)
(* still has to merge the top-most node: this is what bounds the stack.     *)
HeightBound ==
    \A j \in 0..(offset - 1) :
        heights[j] + j <= heights[0]
                          + (IF pc = "merge" /\ j = offset - 1 THEN 1 ELSE 0)

(* The inductive invariant. *)
IInv ==
    /\ TypeOK
    /\ Phases
    /\ StackTilesLeaves
    /\ HeightsDecrease
    /\ HeightBound
    /\ AuthPathSoFar
    /\ AuthPathInBounds
    /\ ResultIsMerkleTree

(* A node on the stack that is higher than the one above it ends where an   *)
(* even node starts.                                                        *)
LEMMA EvenPosition ==
    ASSUME TypeOK, NEW pos \in Positions, Tiling(pos),
           NEW j \in 0..(offset - 1), j > 0 => heights[j - 1] > heights[j]
    PROVE  \E k \in Nat : pos[j] = 2 * k
<1>1. CASE j = 0
  <2>1. pos[j] = 2 * 0
    BY <1>1 DEF Tiling, TypeOK
  <2> QED
    BY <2>1
<1>2. CASE j > 0
  <2>1. j \in 0..TreeHeight /\ j - 1 \in 0..TreeHeight /\ j - 1 \in 0..(offset - 1)
    BY <1>2, TreeHeightAssumption DEF TypeOK
  <2>2. pos[j] \in Nat /\ pos[j - 1] + 1 \in Nat
    BY <2>1, PowType, TreeHeightAssumption DEF Positions
  <2>3. heights[j] \in 0..TreeHeight /\ heights[j - 1] \in 0..TreeHeight
    BY <2>1, TreeHeightAssumption DEF TypeOK, Tiling
  <2>4. j - 1 \in 0..(offset - 2) /\ (j - 1) + 1 = j
    BY <1>2 DEF TypeOK
  <2>5. (pos[j - 1] + 1) * Pow2[heights[j - 1]] = pos[j] * Pow2[heights[j]]
    BY <2>4 DEF Tiling
  <2> QED
    BY <1>2, <2>2, <2>3, <2>5, EvenLemma
<1> QED
  BY <1>1, <1>2

(* There is a free cell on the stack for each leaf. *)
LEMMA Room ==
    ASSUME IInv, pc = "leaf", idx < Pow2[TreeHeight]
    PROVE  offset \in 0..TreeHeight
<1> USE DEF IInv
<1>1. CASE offset = 0
  BY <1>1, TreeHeightAssumption
<1>2. CASE offset > 0
  <2>1. PICK pos \in Positions : Tiling(pos)
    BY DEF StackTilesLeaves
  <2>2. 0 \in 0..(offset - 1) /\ offset - 1 \in 0..(offset - 1)
    BY <1>2 DEF TypeOK
  <2>3. heights[0] \in 0..TreeHeight /\ pos[0] = 0
    BY <1>2, <2>1, <2>2, TreeHeightAssumption DEF Tiling, TypeOK
  <2>4. Pow2[heights[0]] <= idx
    BY <2>1, <2>2, <2>3, PowType DEF Tiling, Covered, TypeOK
  <2>5. Pow2[heights[0]] < Pow2[TreeHeight]
    BY <2>3, <2>4, PowType, TreeHeightAssumption DEF TypeOK
  <2>6. heights[0] < TreeHeight
    BY <2>3, <2>5, PowLess, TreeHeightAssumption
  <2>7. heights[offset - 1] + (offset - 1) <= heights[0]
    BY <2>2, <2>3, TreeHeightAssumption DEF HeightBound, TypeOK
  <2>8. heights[offset - 1] \in Nat
    BY <1>2, TreeHeightAssumption DEF TypeOK
  <2> QED
    BY <1>2, <2>3, <2>6, <2>7, <2>8, TreeHeightAssumption DEF TypeOK
<1> QED
  BY <1>1, <1>2 DEF TypeOK

(* What the inner loop merges: the two halves of the subtree that ends with *)
(* the current leaf.                                                        *)
LEMMA MergeNode ==
    ASSUME IInv, Merge, NEW pos \in Positions, Tiling(pos)
    PROVE  LET h == heights[offset - 1]
               m == Shr(idx, h + 1)
           IN  /\ offset \in 2..(TreeHeight + 1)
               /\ heights[offset - 2] = h
               /\ h \in 0..(TreeHeight - 1)
               /\ m \in IndexInTree(h + 1)
               /\ pos[offset - 2] = 2 * m
               /\ pos[offset - 1] = 2 * m + 1
               /\ (m + 1) * Pow2[h + 1] = idx + 1
               /\ Thash(h + 1, AddressIndex(h + 1, m),
                        stack[offset - 2], stack[offset - 1])
                     = Node(h + 1, InTree(idx_offset, h + 1, m))
               /\ AddressIndex(h + 1, m) \in NodesAt(h + 1)
<1> USE DEF IInv
<1> DEFINE h == heights[offset - 1]
           m == Shr(idx, h + 1)
           P == Pow2[h]
<1>1. /\ pc = "merge" /\ TopsEqual /\ idx \in 0..Pow2[TreeHeight]
      /\ idx < Pow2[TreeHeight]
  BY DEF Merge, Phases, TypeOK
<1>2. offset \in 2..(TreeHeight + 1) /\ heights[offset - 2] = h
  BY <1>1 DEF TopsEqual, TypeOK
<1>3. /\ offset - 1 \in 0..TreeHeight /\ offset - 2 \in 0..TreeHeight
      /\ offset - 1 \in 0..(offset - 1) /\ offset - 2 \in 0..(offset - 1)
      /\ offset - 2 \in 0..(offset - 2) /\ (offset - 2) + 1 = offset - 1
  BY <1>2, TreeHeightAssumption
<1>4. h \in 0..TreeHeight
  BY <1>3, TreeHeightAssumption DEF TypeOK, Tiling
<1>5. pos[offset - 1] \in Nat /\ pos[offset - 2] \in Nat
  BY <1>3, PowType, TreeHeightAssumption DEF Positions
<1>6. P \in Nat \ {0}
  BY <1>4, PowType
<1>7. /\ (pos[offset - 2] + 1) * P = pos[offset - 1] * P
      /\ (pos[offset - 1] + 1) * P = idx + 1
  BY <1>1, <1>2, <1>3 DEF Tiling, Covered
<1>8. pos[offset - 1] = pos[offset - 2] + 1
  <2>1. pos[offset - 2] + 1 \in Nat
    BY <1>5
  <2> HIDE DEF P
  <2> QED
    BY <1>5, <1>6, <1>7, <2>1, MultLemma
<1>9. PICK k \in Nat : pos[offset - 2] = 2 * k
  <2>1. offset - 2 > 0 => heights[(offset - 2) - 1] > heights[offset - 2]
    BY <1>2, <1>3 DEF HeightsDecrease, TypeOK
  <2> QED
    BY <1>3, <2>1, EvenPosition
<1>10. h < TreeHeight
  <2> SUFFICES ASSUME h = TreeHeight PROVE FALSE
    BY <1>4, TreeHeightAssumption
  <2>1. P = Pow2[TreeHeight] /\ idx + 1 <= P
    BY <1>1, <1>6
  <2>2. pos[offset - 1] + 1 >= 2
    BY <1>5, <1>8
  <2>3. 2 * P <= (pos[offset - 1] + 1) * P
    BY <2>2, <1>5, <1>6, MultLemma
  <2>4. idx + 1 \in Nat
    BY <1>1, PowType, TreeHeightAssumption
  <2> HIDE DEF P
  <2> QED
    BY <1>6, <1>7, <2>1, <2>3, <2>4
<1>11. h \in 0..(TreeHeight - 1) /\ h + 1 \in 0..TreeHeight
  BY <1>4, <1>10, TreeHeightAssumption
<1>12. Pow2[h + 1] = 2 * P /\ Pow2[h + 1] \in Nat \ {0}
  BY <1>6, <1>11, PowSucc
<1>13. (k + 1) * Pow2[h + 1] = idx + 1
  <2>1. (2 * k + 2) * P = idx + 1
    BY <1>5, <1>7, <1>8, <1>9
  <2> HIDE DEF P
  <2>2. (k + 1) * (2 * P) = (2 * k + 2) * P
    BY <1>6
  <2> QED
    BY <1>12, <2>1, <2>2
<1>14. m = k
  <2> DEFINE D == Pow2[h + 1]
  <2>1. D \in Nat \ {0} /\ (k + 1) * D = idx + 1 /\ idx \in Nat
    BY <1>1, <1>12, <1>13, PowType, TreeHeightAssumption
  <2> HIDE DEF D
  <2>2. k * D <= idx /\ idx < (k + 1) * D
    <3>1. (k + 1) * D = k * D + D
      BY <2>1
    <3> QED
      BY <2>1, <3>1
  <2>3. idx \div D = k
    BY <2>1, <2>2, DivLemma
  <2> QED
    BY <2>3 DEF D, Shr
<1>15. m \in IndexInTree(h + 1)
  <2> DEFINE D == Pow2[h + 1]
             Q == Pow2[TreeHeight - (h + 1)]
  <2>1. Pow2[TreeHeight] = Q * D
    <3>1. /\ TreeHeight - (h + 1) \in 0..TreeHeight
          /\ (TreeHeight - (h + 1)) + (h + 1) = TreeHeight
      BY <1>11, TreeHeightAssumption
    <3> HIDE DEF h
    <3>2. Pow2[(TreeHeight - (h + 1)) + (h + 1)] = Q * D
      BY <1>11, <3>1, Pow2Assumption, TreeHeightAssumption
    <3> QED
      BY <3>1, <3>2
  <2>2. Q \in Nat \ {0}
    BY <1>11, PowType, TreeHeightAssumption
  <2>3. idx + 1 <= Q * D /\ idx \in Nat
    BY <1>1, <2>1, PowType, TreeHeightAssumption
  <2>4. (k + 1) * D <= Q * D
    BY <1>13, <2>3
  <2>5. D \in Nat \ {0}
    BY <1>12
  <2> HIDE DEF D, Q
  <2>6. k + 1 <= Q
    BY <2>2, <2>4, <2>5, MultLemma
  <2> QED
    BY <1>14, <2>2, <2>6 DEF IndexInTree, Q
<1>16. /\ stack[offset - 2] = Node(h, InTree(idx_offset, h, 2 * m))
       /\ stack[offset - 1] = Node(h, InTree(idx_offset, h, 2 * m + 1))
  BY <1>2, <1>3, <1>8, <1>9, <1>14 DEF Tiling
<1>17. idx_offset \in FirstLeaves
  BY DEF TypeOK
<1> HIDE DEF h, m
<1>18. /\ InTree(idx_offset, h + 1, m) \in NodesAt(h + 1)
       /\ InTree(idx_offset, h + 1, m) = m + Shr(idx_offset, h + 1)
       /\ Node(h + 1, InTree(idx_offset, h + 1, m))
             = Thash(h + 1, m + Shr(idx_offset, h + 1),
                     Node(h, InTree(idx_offset, h, 2 * m)),
                     Node(h, InTree(idx_offset, h, 2 * m + 1)))
  BY <1>11, <1>15, <1>17, ChildLemma
<1> QED
  BY <1>2, <1>8, <1>9, <1>11, <1>13, <1>14, <1>15, <1>16, <1>18
     DEF AddressIndex, h, m

-------------------------------------------------------------------------------
(* The invariant holds initially and is preserved by each action. *)
LEMMA InitStep == Init => IInv
<1> SUFFICES ASSUME Init PROVE IInv
  OBVIOUS
<1> USE DEF Init
<1>1. TypeOK
  <2>1. 0 \in LeafIndices
    BY PowType, TreeHeightAssumption DEF LeafIndices
  <2>2. 0 \in FirstLeaves
    <3>1. 0 \in 0..(Trees - 1) /\ 0 = 0 * Pow2[TreeHeight]
      BY PowType, TreeHeightAssumption, TreesAssumption
    <3> QED
      BY <3>1 DEF FirstLeaves
  <2>3. 0 \in NodesAt(0)
    <3>1. Pow2[TreeHeight - 0] \in Nat \ {0}
      BY PowType, TreeHeightAssumption
    <3>2. Trees * Pow2[TreeHeight - 0] >= 1
      BY <3>1, TreesAssumption
    <3> QED
      BY <3>1, <3>2, TreesAssumption DEF NodesAt
  <2>4. 0 \in 0..Pow2[TreeHeight]
    BY PowType, TreeHeightAssumption
  <2> QED
    BY <2>1, <2>2, <2>3, <2>4, TreeHeightAssumption, JunkAssumption DEF TypeOK
<1>2. Phases /\ StackTilesLeaves /\ AuthPathSoFar /\ ResultIsMerkleTree
  BY DEF Phases, StackTilesLeaves, AuthPathSoFar, ResultIsMerkleTree
<1>3. HeightsDecrease /\ HeightBound
  BY DEF HeightsDecrease, HeightBound
<1>4. AuthPathInBounds
  BY TreeHeightAssumption DEF AuthPathInBounds
<1> QED
  BY <1>1, <1>2, <1>3, <1>4 DEF IInv

LEMMA CallStep == IInv /\ Call => IInv'
<1> SUFFICES ASSUME IInv, Call PROVE IInv'
  OBVIOUS
<1> USE DEF Call
<1>1. TypeOK'
  BY PowType, TreeHeightAssumption DEF IInv, TypeOK
<1>2. Phases' /\ HeightsDecrease' /\ HeightBound' /\ ResultIsMerkleTree'
  BY DEF Phases, HeightsDecrease, HeightBound, ResultIsMerkleTree
<1>3. StackTilesLeaves'
  <2> DEFINE pos == [j \in 0..TreeHeight |-> 0]
  <2>1. pos \in Positions
    BY PowType, TreeHeightAssumption DEF Positions
  <2>2. Tiling(pos)'
    BY DEF Tiling, Covered
  <2> QED
    BY <2>1, <2>2 DEF StackTilesLeaves, Positions
<1>4. AuthPathSoFar'
  <2> SUFFICES ASSUME NEW h \in 0..(TreeHeight - 1)
               PROVE  ~Complete(h, Sibling(Shr(leaf_idx, h)))'
    BY DEF AuthPathSoFar
  <2> DEFINE m == Sibling(Shr(leaf_idx', h))
  <2>1. h \in 0..TreeHeight
    BY TreeHeightAssumption
  <2>2. leaf_idx' \in Nat /\ Pow2[h] \in Nat \ {0}
    BY <2>1, PowType, TreeHeightAssumption DEF LeafIndices
  <2>3. Shr(leaf_idx', h) \in Nat
    BY <2>2 DEF Shr
  <2>4. m \in Nat
    BY <2>3 DEF Sibling
  <2> HIDE DEF m
  <2>5. (m + 1) * Pow2[h] > 0
    BY <2>2, <2>4
  <2>6. Covered' = 0
    BY DEF Covered
  <2> QED
    BY <2>2, <2>4, <2>5, <2>6 DEF Complete, m
<1>5. AuthPathInBounds'
  BY DEF IInv, AuthPathInBounds
<1> QED
  BY <1>1, <1>2, <1>3, <1>4, <1>5 DEF IInv

(* A node of the path is written at its own height only. *)
LEMMA SaveLemma ==
    ASSUME TypeOK, NEW h \in 0..TreeHeight, NEW m, NEW v,
           auth_path' = SaveIfNeeded(h, m, v)
    PROVE  /\ DOMAIN auth_path' = 0..TreeHeight
           /\ \A k \in 0..TreeHeight :
                 k # h \/ Sibling(Shr(leaf_idx, h)) # m
                     => auth_path'[k] = auth_path[k]
           /\ Sibling(Shr(leaf_idx, h)) = m => auth_path'[h] = v
BY DEF TypeOK, SaveIfNeeded

LEMMA SiblingType ==
    ASSUME TypeOK, NEW h \in 0..TreeHeight
    PROVE  Shr(leaf_idx, h) \in Nat /\ Sibling(Shr(leaf_idx, h)) \in Nat
<1>1. leaf_idx \in Nat /\ Pow2[h] \in Nat \ {0}
  BY PowType, TreeHeightAssumption DEF TypeOK, LeafIndices
<1>2. Shr(leaf_idx, h) \in Nat
  BY <1>1 DEF Shr
<1> QED
  BY <1>2 DEF Sibling

LEMMA GenLeafStep == IInv /\ GenLeaf => IInv'
<1> SUFFICES ASSUME IInv, GenLeaf PROVE IInv'
  OBVIOUS
<1> USE TreeHeightAssumption
<1> DEFINE leaf == Leaf(idx + idx_offset)
<1>1. /\ pc = "leaf" /\ pc' = "merge" /\ idx < Pow2[TreeHeight]
      /\ stack' = [stack EXCEPT ![offset] = leaf]
      /\ heights' = [heights EXCEPT ![offset] = 0]
      /\ offset' = offset + 1
      /\ auth_path' = SaveIfNeeded(0, idx, leaf)
      /\ UNCHANGED <<leaf_idx, idx_offset, idx, tree_addr, root>>
  BY DEF GenLeaf, NumLeaves
<1>2. TypeOK /\ offset \in 0..TreeHeight /\ 0 \in 0..TreeHeight
  BY <1>1, Room, TreeHeightAssumption DEF IInv
<1>3. /\ DOMAIN auth_path' = 0..TreeHeight
      /\ \A k \in 0..TreeHeight :
            k # 0 \/ Sibling(Shr(leaf_idx, 0)) # idx
                => auth_path'[k] = auth_path[k]
      /\ Sibling(Shr(leaf_idx, 0)) = idx => auth_path'[0] = leaf
  BY <1>1, <1>2, SaveLemma
<1>4. leaf = Node(0, InTree(idx_offset, 0, idx))
  <2>1. idx_offset \in FirstLeaves /\ idx \in Nat /\ Pow2[0] = 1
    BY <1>2, PowType, TreeHeightAssumption, Pow2Assumption DEF TypeOK
  <2>2. Shr(idx_offset, 0) = idx_offset
    BY <2>1, FirstLemma, <1>2 DEF Shr
  <2>3. InTree(idx_offset, 0, idx) = idx + idx_offset
    BY <2>1, <2>2, FirstLemma, <1>2 DEF InTree
  <2>4. idx + idx_offset \in NodesAt(0)
    <3> DEFINE t == idx_offset \div Pow2[TreeHeight]
               P == Pow2[TreeHeight]
    <3>1. t \in 0..(Trees - 1) /\ idx_offset = t * P
      <4>1. Shr(idx_offset, 0) = t * Pow2[TreeHeight - 0]
        BY <2>1, FirstLemma, <1>2
      <4> QED
        BY <2>1, <2>2, <4>1, FirstLemma, <1>2
    <3>2. P \in Nat \ {0} /\ idx < P
      BY <1>1, PowType, TreeHeightAssumption
    <3>3. NodesAt(0) = 0..(Trees * P - 1)
      BY TreeHeightAssumption DEF NodesAt
    <3> HIDE DEF t, P
    <3>4. (t + 1) * P <= Trees * P
      BY <3>1, <3>2, TreesAssumption, MultLemma
    <3>5. (t + 1) * P = t * P + P /\ t * P \in Nat
      BY <3>1, <3>2, TreesAssumption
    <3> QED
      BY <3>1, <3>2, <3>3, <3>4, <3>5, <2>1, TreesAssumption
  <2> QED
    BY <2>3, <2>4, NodeAssumption
<1> HIDE DEF leaf
<1>5. TypeOK'
  <2>1. heights' \in [0..TreeHeight -> Nat] /\ DOMAIN stack' = 0..TreeHeight
    BY <1>1, <1>2 DEF TypeOK
  <2>2. offset' \in 0..(TreeHeight + 1)
    BY <1>1, <1>2
  <2> QED
    BY <1>1, <1>2, <1>3, <2>1, <2>2 DEF TypeOK
<1>6. Phases'
  BY <1>1, <1>2 DEF Phases
<1>7. StackTilesLeaves'
  <2>1. PICK pos \in Positions : Tiling(pos)
    BY <1>1 DEF IInv, StackTilesLeaves
  <2>0. PICK new : new = [pos EXCEPT ![offset] = idx]
    OBVIOUS
  <2>2. idx \in 0..Pow2[TreeHeight]
    BY <1>2 DEF TypeOK
  <2>3. new \in Positions
    BY <2>0, <2>1, <2>2 DEF Positions
  <2>4. /\ new[offset] = idx
        /\ \A j \in 0..(offset - 1) : new[j] = pos[j]
        /\ heights'[offset] = 0 /\ stack'[offset] = leaf
        /\ \A j \in 0..(offset - 1) :
              heights'[j] = heights[j] /\ stack'[j] = stack[j]
    BY <1>1, <2>0, <1>2, <2>1 DEF TypeOK, Positions
  <2>5. Covered = idx /\ Covered' = idx + 1 /\ idx \in Nat
    BY <1>1, <2>2, PowType, TreeHeightAssumption DEF Covered
  <2>6. Tiling(new)'
    <3> SUFFICES /\ new[0] = 0
                 /\ \A j \in 0..(offset - 1) :
                       (new[j] + 1) * Pow2[heights'[j]]
                           = new[j + 1] * Pow2[heights'[j + 1]]
                 /\ (new[offset] + 1) * Pow2[heights'[offset]] = Covered'
                 /\ \A j \in 0..offset :
                       /\ heights'[j] <= TreeHeight
                       /\ (new[j] + 1) * Pow2[heights'[j]] <= Covered'
                       /\ stack'[j] = Node(heights'[j],
                                           InTree(idx_offset, heights'[j], new[j]))
      <4>1. /\ offset' > 0 /\ offset' - 2 = offset - 1 /\ offset' - 1 = offset
            /\ idx_offset' = idx_offset
        BY <1>1, <1>2
      <4> QED
        BY <4>1 DEF Tiling
    <3>1. new[0] = 0
      BY <1>2, <2>1, <2>4, <2>5 DEF Tiling
    <3>2. ASSUME NEW j \in 0..(offset - 1)
          PROVE  (new[j] + 1) * Pow2[heights'[j]]
                     = new[j + 1] * Pow2[heights'[j + 1]]
      <4>1. CASE j < offset - 1
        <5>1. j \in 0..(offset - 2) /\ j + 1 \in 0..(offset - 1)
          BY <1>2, <4>1
        <5> QED
          BY <2>1, <2>4, <5>1 DEF Tiling
      <4>2. CASE j = offset - 1
        <5>1. offset > 0 /\ j + 1 = offset
          BY <1>2, <4>2
        <5>2. (pos[j] + 1) * Pow2[heights[j]] = idx
          BY <2>1, <2>5, <4>2, <5>1 DEF Tiling
        <5>3. /\ new[j] = pos[j] /\ heights'[j] = heights[j]
              /\ new[j + 1] = idx /\ heights'[j + 1] = 0
          BY <2>4, <5>1
        <5> QED
          BY <2>5, <5>2, <5>3, Pow2Assumption
      <4> QED
        BY <1>2, <4>1, <4>2
    <3>3. (new[offset] + 1) * Pow2[heights'[offset]] = Covered'
      BY <2>4, <2>5, Pow2Assumption
    <3>4. ASSUME NEW j \in 0..offset
          PROVE  /\ heights'[j] <= TreeHeight
                 /\ (new[j] + 1) * Pow2[heights'[j]] <= Covered'
                 /\ stack'[j] = Node(heights'[j],
                                     InTree(idx_offset, heights'[j], new[j]))
      <4>1. CASE j = offset
        BY <1>2, <1>4, <2>4, <2>5, <3>3, <4>1
      <4>2. CASE j \in 0..(offset - 1)
        <5>1. /\ heights[j] <= TreeHeight
              /\ (pos[j] + 1) * Pow2[heights[j]] <= idx
              /\ stack[j] = Node(heights[j], InTree(idx_offset, heights[j], pos[j]))
          BY <2>1, <2>5, <4>2 DEF Tiling
        <5>2. (pos[j] + 1) * Pow2[heights[j]] \in Nat
          <6>1. j \in 0..TreeHeight
            BY <1>2, <4>2
          <6>2. heights[j] \in 0..TreeHeight /\ pos[j] \in Nat
            BY <1>2, <2>1, <5>1, <6>1, PowType, TreeHeightAssumption
               DEF TypeOK, Positions
          <6>3. Pow2[heights[j]] \in Nat
            BY <6>2, PowType
          <6> QED
            BY <6>2, <6>3
        <5> QED
          BY <2>4, <2>5, <4>2, <5>1, <5>2
      <4> QED
        BY <1>2, <4>1, <4>2
    <3> QED
      BY <3>1, <3>2, <3>3, <3>4
  <2> QED
    BY <2>3, <2>6 DEF StackTilesLeaves, Positions
<1>8. HeightsDecrease'
  <2> SUFFICES ASSUME NEW i \in 0..offset, NEW j \in 0..offset, i < j
               PROVE  \/ heights'[i] > heights'[j]
                      \/ i = offset - 1 /\ heights'[i] = heights'[j]
    BY <1>1, <1>2 DEF HeightsDecrease
  <2>1. /\ i \in 0..(offset - 1) /\ i \in 0..TreeHeight /\ j \in 0..TreeHeight
        /\ heights'[i] = heights[i] /\ heights[i] \in Nat
    BY <1>1, <1>2 DEF TypeOK
  <2>2. CASE j < offset
    BY <1>1, <1>2, <2>1, <2>2 DEF IInv, HeightsDecrease, TypeOK
  <2>3. CASE j = offset
    <3>1. heights'[j] = 0
      BY <1>1, <1>2, <2>3 DEF TypeOK
    <3>2. CASE i < offset - 1
      <4>1. offset - 1 \in 0..(offset - 1) /\ heights[offset - 1] \in Nat
        BY <1>2, <2>1 DEF TypeOK
      <4>2. heights[i] > heights[offset - 1]
        BY <1>1, <2>1, <3>2, <4>1 DEF IInv, HeightsDecrease
      <4> QED
        BY <2>1, <3>1, <4>1, <4>2
    <3>3. CASE i = offset - 1
      BY <2>1, <3>1, <3>3
    <3> QED
      BY <1>2, <2>1, <3>2, <3>3
  <2> QED
    BY <1>2, <2>2, <2>3
<1>9. HeightBound'
  <2> SUFFICES ASSUME NEW j \in 0..offset
               PROVE  heights'[j] + j
                        <= heights'[0] + (IF j = offset THEN 1 ELSE 0)
    BY <1>1, <1>2 DEF HeightBound
  <2>1. CASE j < offset
    <3>1. heights'[j] = heights[j] /\ heights'[0] = heights[0]
      BY <1>1, <1>2, <2>1 DEF TypeOK
    <3> QED
      BY <1>1, <1>2, <2>1, <3>1 DEF IInv, HeightBound
  <2>2. CASE j = offset /\ offset > 0
    <3>1. heights'[j] = 0 /\ heights'[0] = heights[0]
      BY <1>1, <1>2, <2>2 DEF TypeOK
    <3>2. heights[offset - 1] + (offset - 1) <= heights[0]
      <4>1. offset - 1 \in 0..(offset - 1) /\ pc # "merge"
        BY <1>1, <1>2, <2>2
      <4>2. heights[offset - 1] + (offset - 1) <= heights[0] + 0
        BY <4>1 DEF IInv, HeightBound
      <4>3. heights[0] \in Nat
        BY <1>2, <2>2 DEF TypeOK
      <4> QED
        BY <4>2, <4>3
    <3>3. heights[offset - 1] \in Nat /\ heights[0] \in Nat
      BY <1>2, <2>2 DEF TypeOK
    <3> QED
      BY <1>2, <2>2, <3>1, <3>2, <3>3
  <2>3. CASE j = offset /\ offset = 0
    <3>1. heights'[0] = 0
      BY <1>1, <1>2, <2>3 DEF TypeOK
    <3> QED
      BY <2>3, <3>1
  <2> QED
    BY <1>2, <2>1, <2>2, <2>3
<1>10. AuthPathSoFar'
  <2> SUFFICES ASSUME NEW h \in 0..(TreeHeight - 1),
                      Complete(h, Sibling(Shr(leaf_idx, h)))'
               PROVE  auth_path'[h] = AuthNode(idx_offset, leaf_idx, h)
    BY <1>1 DEF AuthPathSoFar
  <2> DEFINE m == Sibling(Shr(leaf_idx, h))
  <2>1. h \in 0..TreeHeight /\ m \in Nat /\ Pow2[h] \in Nat \ {0}
    BY <1>2, SiblingType, PowType, TreeHeightAssumption
  <2>2. idx \in Nat
    BY <1>2, PowType, TreeHeightAssumption DEF TypeOK
  <2>3. heights'[offset] = 0 /\ offset' - 1 = offset
    BY <1>1, <1>2 DEF TypeOK
  <2>4. \/ (m + 1) * Pow2[h] <= idx
        \/ (m + 1) * Pow2[h] = idx + 1 /\ h = 0
    <3>1. \/ (m + 1) * Pow2[h] < idx + 1
          \/ (m + 1) * Pow2[h] = idx + 1 /\ h <= 0
      BY <1>1, <2>3 DEF Complete, Covered
    <3>2. (m + 1) * Pow2[h] \in Nat
      BY <2>1
    <3> QED
      BY <2>1, <2>2, <3>1, <3>2
  <2>5. CASE (m + 1) * Pow2[h] <= idx
    <3>1. Complete(h, m)
      <4>1. (m + 1) * Pow2[h] \in Nat
        BY <2>1
      <4> QED
        BY <1>1, <2>2, <2>5, <4>1 DEF Complete, Covered
    <3>2. auth_path[h] = AuthNode(idx_offset, leaf_idx, h)
      BY <1>1, <3>1 DEF IInv, AuthPathSoFar
    <3>3. h # 0 \/ Sibling(Shr(leaf_idx, 0)) # idx
      <4> SUFFICES ASSUME h = 0, m = idx PROVE FALSE
        OBVIOUS
      <4>1. (m + 1) * 1 <= idx
        BY <2>5, Pow2Assumption
      <4> QED
        BY <4>1, <2>2
    <3> QED
      BY <1>3, <2>1, <3>2, <3>3
  <2>6. CASE (m + 1) * Pow2[h] = idx + 1 /\ h = 0
    <3>1. m = idx
      <4>1. (m + 1) * 1 = idx + 1
        BY <2>6, Pow2Assumption
      <4> QED
        BY <4>1, <2>1, <2>2
    <3>2. auth_path'[0] = Node(0, InTree(idx_offset, 0, m))
      BY <1>3, <1>4, <2>6, <3>1
    <3> QED
      BY <2>6, <3>2 DEF AuthNode, Shr
  <2> QED
    BY <2>4, <2>5, <2>6
<1>11. AuthPathInBounds'
  BY <1>2, <1>3, TreeHeightAssumption DEF IInv, AuthPathInBounds
<1>12. ResultIsMerkleTree'
  BY <1>1 DEF ResultIsMerkleTree
<1> QED
  BY <1>5, <1>6, <1>7, <1>8, <1>9, <1>10, <1>11, <1>12 DEF IInv

LEMMA MergeStep == IInv /\ Merge => IInv'
<1> SUFFICES ASSUME IInv, Merge PROVE IInv'
  OBVIOUS
<1> USE TreeHeightAssumption
<1>1. PICK pos \in Positions : Tiling(pos)
  BY DEF IInv, StackTilesLeaves, Merge
<1>2. PICK h, m, v :
        /\ h = heights[offset - 1] + 1
        /\ m = Shr(idx, h)
        /\ v = Thash(h, AddressIndex(h, m), stack[offset - 2], stack[offset - 1])
  OBVIOUS
<1>3. /\ pc = "merge" /\ pc' = "merge" /\ TopsEqual
      /\ tree_addr' = [height |-> h, index |-> AddressIndex(h, m)]
      /\ stack' = [stack EXCEPT ![offset - 2] = v]
      /\ heights' = [heights EXCEPT ![offset - 2] = h]
      /\ auth_path' = SaveIfNeeded(h, m, v)
      /\ offset' = offset - 1
      /\ UNCHANGED <<leaf_idx, idx_offset, idx, root>>
  BY <1>2 DEF Merge
<1>4. /\ offset \in 2..(TreeHeight + 1)
      /\ heights[offset - 1] = h - 1 /\ heights[offset - 2] = h - 1
      /\ h \in 1..TreeHeight
      /\ m \in IndexInTree(h)
      /\ pos[offset - 2] = 2 * m
      /\ pos[offset - 1] = 2 * m + 1
      /\ (m + 1) * Pow2[h] = idx + 1
      /\ v = Node(h, InTree(idx_offset, h, m))
      /\ AddressIndex(h, m) \in NodesAt(h)
  BY <1>1, <1>2, MergeNode
<1>5. /\ TypeOK /\ idx \in Nat /\ m \in Nat /\ Pow2[h] \in Nat \ {0}
      /\ idx < Pow2[TreeHeight]
  <2>1. idx \in Nat /\ idx < Pow2[TreeHeight]
    BY <1>3, PowType DEF IInv, TypeOK, Phases
  <2>2. Pow2[TreeHeight - h] \in Nat \ {0}
    BY <1>4, PowType
  <2>3. m \in Nat
    BY <1>4, <2>2 DEF IndexInTree
  <2> QED
    BY <1>4, <2>1, <2>3, PowType DEF IInv
<1>6. /\ DOMAIN auth_path' = 0..TreeHeight
      /\ \A k \in 0..TreeHeight :
            k # h \/ Sibling(Shr(leaf_idx, h)) # m
                => auth_path'[k] = auth_path[k]
      /\ Sibling(Shr(leaf_idx, h)) = m => auth_path'[h] = v
  <2>1. h \in 0..TreeHeight
    BY <1>4
  <2> QED
    BY <1>3, <1>5, <2>1, SaveLemma
<1>7. /\ heights'[offset - 2] = h /\ stack'[offset - 2] = v
      /\ \A j \in 0..(offset - 3) :
            /\ heights'[j] = heights[j] /\ stack'[j] = stack[j]
            /\ heights[j] \in Nat
  <2>1. offset - 2 \in 0..TreeHeight /\ heights \in [0..TreeHeight -> Nat]
        /\ DOMAIN stack = 0..TreeHeight
    <3>1. offset - 2 \in 0..TreeHeight
      BY <1>4
    <3> QED
      BY <1>5, <3>1 DEF TypeOK
  <2>2. \A j \in 0..(offset - 3) : j \in 0..TreeHeight /\ j # offset - 2
    BY <1>4
  <2> QED
    BY <1>3, <2>1, <2>2
<1>8. TypeOK'
  <2>0. h \in Nat
    BY <1>4
  <2>1. heights' \in [0..TreeHeight -> Nat] /\ DOMAIN stack' = 0..TreeHeight
    BY <1>3, <1>5, <2>0 DEF TypeOK
  <2>2. offset' \in 0..(TreeHeight + 1)
    BY <1>3, <1>4
  <2>3. tree_addr'.height \in 0..TreeHeight
        /\ tree_addr'.index \in NodesAt(tree_addr'.height)
    BY <1>3, <1>4
  <2> QED
    BY <1>3, <1>5, <1>6, <2>1, <2>2, <2>3 DEF TypeOK
<1>9. Phases'
  BY <1>3, <1>4, <1>5 DEF Phases
<1>10. StackTilesLeaves'
  <2>0. PICK new : new = [pos EXCEPT ![offset - 2] = m]
    OBVIOUS
  <2>1. m \in 0..Pow2[TreeHeight]
    <3>1. pos[offset - 2] \in 0..Pow2[TreeHeight]
      BY <1>1, <1>4 DEF Positions
    <3> QED
      BY <1>4, <1>5, <3>1, PowType
  <2>2. new \in Positions
    BY <2>0, <2>1, <1>1 DEF Positions
  <2>3. /\ new[offset - 2] = m
        /\ \A j \in 0..(offset - 3) : new[j] = pos[j]
    BY <1>1, <1>4, <2>0 DEF Positions
  <2>4. Covered = idx + 1 /\ Covered' = idx + 1
    BY <1>3 DEF Covered
  <2>5. Tiling(new)'
    <3> SUFFICES /\ new[0] = 0
                 /\ \A j \in 0..(offset - 3) :
                       (new[j] + 1) * Pow2[heights'[j]]
                           = new[j + 1] * Pow2[heights'[j + 1]]
                 /\ (new[offset - 2] + 1) * Pow2[heights'[offset - 2]] = Covered'
                 /\ \A j \in 0..(offset - 2) :
                       /\ heights'[j] <= TreeHeight
                       /\ (new[j] + 1) * Pow2[heights'[j]] <= Covered'
                       /\ stack'[j] = Node(heights'[j],
                                           InTree(idx_offset, heights'[j], new[j]))
      <4>1. /\ offset' > 0 /\ offset' - 2 = offset - 3 /\ offset' - 1 = offset - 2
            /\ idx_offset' = idx_offset
        BY <1>3, <1>4
      <4> QED
        BY <4>1 DEF Tiling
    <3>1. new[0] = 0
      <4>1. CASE offset = 2
        <5>1. pos[0] = 0 /\ pos[0] = 2 * m /\ new[0] = m
          BY <1>1, <1>4, <2>3, <4>1 DEF Tiling
        <5> QED
          BY <1>5, <5>1
      <4>2. CASE offset > 2
        BY <1>1, <1>4, <2>3, <4>2 DEF Tiling
      <4> QED
        BY <1>4, <4>1, <4>2
    <3>2. ASSUME NEW j \in 0..(offset - 3)
          PROVE  (new[j] + 1) * Pow2[heights'[j]]
                     = new[j + 1] * Pow2[heights'[j + 1]]
      <4>0. (pos[j] + 1) * Pow2[heights[j]] = pos[j + 1] * Pow2[heights[j + 1]]
        BY <1>1, <1>4 DEF Tiling
      <4>1. CASE j < offset - 3
        <5>1. j + 1 \in 0..(offset - 3)
          BY <1>4, <4>1
        <5> QED
          BY <1>7, <2>3, <4>0, <5>1
      <4>2. CASE j = offset - 3
        <5>1. j + 1 = offset - 2
          BY <1>4, <4>2
        <5>2. Pow2[h] = 2 * Pow2[h - 1] /\ Pow2[h - 1] \in Nat
          <6>1. h - 1 \in 0..(TreeHeight - 1) /\ (h - 1) + 1 = h
                /\ h - 1 \in 0..TreeHeight
            BY <1>4
          <6>2. Pow2[(h - 1) + 1] = 2 * Pow2[h - 1]
            BY <6>1, PowSucc
          <6> QED
            BY <6>1, <6>2, PowType
        <5>3. (2 * m) * Pow2[h - 1] = m * Pow2[h]
          BY <1>5, <5>2
        <5>4. (pos[j] + 1) * Pow2[heights[j]] = (2 * m) * Pow2[h - 1]
          BY <1>4, <4>0, <5>1
        <5> QED
          BY <1>7, <2>3, <5>1, <5>3, <5>4
      <4> QED
        BY <1>4, <4>1, <4>2
    <3>3. (new[offset - 2] + 1) * Pow2[heights'[offset - 2]] = Covered'
      BY <1>4, <1>7, <2>3, <2>4
    <3>4. ASSUME NEW j \in 0..(offset - 2)
          PROVE  /\ heights'[j] <= TreeHeight
                 /\ (new[j] + 1) * Pow2[heights'[j]] <= Covered'
                 /\ stack'[j] = Node(heights'[j],
                                     InTree(idx_offset, heights'[j], new[j]))
      <4>1. CASE j = offset - 2
        BY <1>4, <1>5, <1>7, <2>3, <2>4, <3>3, <4>1
      <4>2. CASE j \in 0..(offset - 3)
        <5>1. j \in 0..(offset - 1)
          BY <1>4, <4>2
        <5>2. /\ heights[j] <= TreeHeight
              /\ (pos[j] + 1) * Pow2[heights[j]] <= Covered
              /\ stack[j] = Node(heights[j], InTree(idx_offset, heights[j], pos[j]))
          BY <1>1, <5>1 DEF Tiling
        <5> QED
          BY <1>7, <2>3, <2>4, <4>2, <5>2
      <4> QED
        BY <1>4, <4>1, <4>2
    <3> QED
      BY <3>1, <3>2, <3>3, <3>4
  <2> QED
    BY <2>2, <2>5 DEF StackTilesLeaves, Positions
<1>11. HeightsDecrease'
  <2> SUFFICES ASSUME NEW i \in 0..(offset - 2), NEW j \in 0..(offset - 2), i < j
               PROVE  \/ heights'[i] > heights'[j]
                      \/ i = offset - 3 /\ heights'[i] = heights'[j]
    BY <1>3, <1>4 DEF HeightsDecrease
  <2>1. i \in 0..(offset - 3) /\ heights'[i] = heights[i] /\ heights[i] \in Nat
    BY <1>4, <1>7
  <2>2. CASE j \in 0..(offset - 3)
    <3>1. heights[i] > heights[j]
      BY <1>4, <2>1, <2>2 DEF IInv, HeightsDecrease
    <3> QED
      BY <1>7, <2>1, <2>2, <3>1
  <2>3. CASE j = offset - 2
    <3>1. heights[i] > h - 1
      BY <1>4, <2>1 DEF IInv, HeightsDecrease
    <3>2. CASE i = offset - 3
      BY <1>4, <1>7, <2>1, <2>3, <3>1, <3>2
    <3>3. CASE i < offset - 3
      <4>1. /\ offset - 3 \in 0..(offset - 3) /\ heights[offset - 3] \in Nat
            /\ offset - 3 \in 0..(offset - 1) /\ offset - 2 \in 0..(offset - 1)
            /\ i \in 0..(offset - 1)
        BY <1>4, <1>7, <2>1, <3>3
      <4>2. heights[i] > heights[offset - 3]
        BY <1>4, <2>1, <3>3, <4>1 DEF IInv, HeightsDecrease
      <4>3. heights[offset - 3] > h - 1
        BY <1>4, <2>1, <3>3, <4>1 DEF IInv, HeightsDecrease
      <4> QED
        BY <1>4, <1>7, <2>1, <2>3, <4>1, <4>2, <4>3
    <3> QED
      BY <1>4, <2>1, <3>2, <3>3
  <2> QED
    BY <1>4, <2>2, <2>3
<1>12. HeightBound'
  <2> SUFFICES ASSUME NEW j \in 0..(offset - 2)
               PROVE  heights'[j] + j
                        <= heights'[0] + (IF j = offset - 2 THEN 1 ELSE 0)
    BY <1>3, <1>4 DEF HeightBound
  <2>1. heights[j] + j <= heights[0] + 0
    <3>1. j \in 0..(offset - 1) /\ j # offset - 1
      BY <1>4
    <3> QED
      BY <3>1 DEF IInv, HeightBound
  <2>2. heights[0] \in Nat /\ heights[j] \in Nat
    <3>1. j \in 0..TreeHeight /\ 0 \in 0..TreeHeight
      BY <1>4
    <3> QED
      BY <1>5, <3>1 DEF TypeOK
  <2>3. CASE j \in 0..(offset - 3)
    <3>1. heights'[0] = heights[0] /\ heights'[j] = heights[j]
      BY <1>4, <1>7, <2>3
    <3> QED
      BY <1>4, <2>1, <2>2, <2>3, <3>1
  <2>4. CASE j = offset - 2 /\ offset = 2
    BY <1>4, <1>7, <2>4
  <2>5. CASE j = offset - 2 /\ offset > 2
    <3>1. heights'[0] = heights[0] /\ heights'[j] = heights[j] + 1
      BY <1>4, <1>7, <2>5
    <3> QED
      BY <1>4, <2>1, <2>2, <2>5, <3>1
  <2> QED
    BY <1>4, <2>3, <2>4, <2>5
<1>13. AuthPathSoFar'
  <2> SUFFICES ASSUME NEW k \in 0..(TreeHeight - 1),
                      Complete(k, Sibling(Shr(leaf_idx, k)))'
               PROVE  auth_path'[k] = AuthNode(idx_offset, leaf_idx, k)
    BY <1>3 DEF AuthPathSoFar
  <2> DEFINE s == Sibling(Shr(leaf_idx, k))
  <2>1. k \in 0..TreeHeight /\ s \in Nat /\ Pow2[k] \in Nat \ {0}
    BY <1>5, SiblingType, PowType
  <2>2. (s + 1) * Pow2[k] \in Nat
    BY <2>1
  <2>3. \/ (s + 1) * Pow2[k] < idx + 1
        \/ (s + 1) * Pow2[k] = idx + 1 /\ k <= h
    <3>1. offset' - 1 = offset - 2
      BY <1>3, <1>4
    <3> QED
      BY <1>3, <1>7, <3>1 DEF Complete, Covered
  <2>4. CASE k = h /\ (s + 1) * Pow2[k] = idx + 1
    <3>1. s + 1 = m + 1
      <4>1. (s + 1) * Pow2[h] = (m + 1) * Pow2[h] /\ s + 1 \in Nat /\ m + 1 \in Nat
        BY <1>4, <1>5, <2>1, <2>4
      <4> HIDE DEF s
      <4> QED
        BY <1>5, <4>1, MultLemma
    <3>2. s = m
      BY <1>5, <2>1, <3>1
    <3>3. auth_path'[h] = Node(h, InTree(idx_offset, h, s))
      BY <1>4, <1>6, <2>4, <3>2
    <3> QED
      BY <2>4, <3>3 DEF AuthNode, Shr
  <2>5. CASE ~(k = h /\ (s + 1) * Pow2[k] = idx + 1)
    <3>1. Complete(k, s)
      <4>1. heights[offset - 1] = h - 1 /\ Covered = idx + 1
        BY <1>3, <1>4 DEF Covered
      <4>2. \/ (s + 1) * Pow2[k] < idx + 1
            \/ (s + 1) * Pow2[k] = idx + 1 /\ k <= h - 1
        BY <1>4, <1>5, <2>1, <2>3, <2>5
      <4> QED
        BY <4>1, <4>2 DEF Complete
    <3>2. auth_path[k] = AuthNode(idx_offset, leaf_idx, k)
      BY <1>3, <3>1 DEF IInv, AuthPathSoFar
    <3>3. k # h \/ s # m
      BY <1>4, <2>5
    <3> QED
      BY <1>6, <2>1, <3>2, <3>3
  <2> QED
    BY <2>4, <2>5
<1>14. AuthPathInBounds'
  <2>1. h = TreeHeight => Sibling(Shr(leaf_idx, h)) # m
    <3> SUFFICES ASSUME h = TreeHeight PROVE Sibling(Shr(leaf_idx, h)) # m
      OBVIOUS
    <3>1. m = 0
      BY <1>4, Pow2Assumption DEF IndexInTree
    <3>2. leaf_idx \in Nat /\ leaf_idx < Pow2[h]
      BY <1>5, PowType DEF TypeOK, LeafIndices
    <3>3. Shr(leaf_idx, h) = 0
      <4>1. 0 * Pow2[h] <= leaf_idx /\ leaf_idx < (0 + 1) * Pow2[h]
        BY <1>5, <3>2
      <4> QED
        BY <1>5, <3>2, <4>1, DivLemma DEF Shr
    <3> QED
      BY <3>1, <3>3 DEF Sibling
  <2>2. auth_path'[TreeHeight] = auth_path[TreeHeight]
    BY <1>4, <1>6, <2>1
  <2> QED
    BY <2>2 DEF IInv, AuthPathInBounds
<1>15. ResultIsMerkleTree'
  BY <1>3 DEF ResultIsMerkleTree
<1> QED
  BY <1>8, <1>9, <1>10, <1>11, <1>12, <1>13, <1>14, <1>15 DEF IInv

(* When the inner loop has stopped, the node on top of the stack starts at  *)
(* an even position: it waits for its sibling.                              *)
LEMMA TopIsEven ==
    ASSUME IInv, pc = "merge" => ~TopsEqual, NEW pos \in Positions, Tiling(pos),
           offset > 0
    PROVE  \E k \in Nat : pos[offset - 1] = 2 * k
<1>1. offset - 1 \in 0..(offset - 1) /\ offset \in Nat
  BY TreeHeightAssumption DEF IInv, TypeOK
<1>2. offset - 1 > 0 => heights[(offset - 1) - 1] > heights[offset - 1]
  <2> SUFFICES ASSUME offset > 1
               PROVE  heights[offset - 2] > heights[offset - 1]
    BY <1>1
  <2>1. offset - 2 \in 0..(offset - 1) /\ offset - 2 < offset - 1
    BY <1>1
  <2>2. \/ heights[offset - 2] > heights[offset - 1]
        \/ pc = "merge" /\ heights[offset - 2] = heights[offset - 1]
    BY <1>1, <2>1 DEF IInv, HeightsDecrease
  <2> QED
    BY <1>1, <2>2 DEF TopsEqual
<1> QED
  BY <1>1, <1>2, EvenPosition DEF IInv

LEMMA NextLeafStep == IInv /\ NextLeaf => IInv'
<1> SUFFICES ASSUME IInv, NextLeaf PROVE IInv'
  OBVIOUS
<1> USE TreeHeightAssumption
<1>1. /\ pc = "merge" /\ pc' = "leaf" /\ ~TopsEqual /\ idx' = idx + 1
      /\ UNCHANGED <<leaf_idx, idx_offset, offset, stack, heights, tree_addr,
                     auth_path, root>>
  BY DEF NextLeaf
<1>2. /\ TypeOK /\ idx < Pow2[TreeHeight] /\ idx \in Nat
      /\ offset \in 1..(TreeHeight + 1) /\ Pow2[TreeHeight] \in Nat
  BY <1>1, PowType DEF IInv, Phases, TypeOK
<1>3. Covered' = Covered /\ Covered = idx + 1
  BY <1>1, <1>2 DEF Covered
<1>4. PICK pos \in Positions : Tiling(pos)
  BY <1>1 DEF IInv, StackTilesLeaves
<1>5. TypeOK'
  BY <1>1, <1>2 DEF TypeOK
<1>6. Phases'
  BY <1>1 DEF Phases
<1>7. StackTilesLeaves'
  <2>1. Tiling(pos)'
    BY <1>1, <1>3, <1>4 DEF Tiling
  <2> QED
    BY <2>1 DEF StackTilesLeaves, Positions
<1>8. \A i, j \in 0..(offset - 1) : i < j => heights[i] > heights[j]
  <2> SUFFICES ASSUME NEW i \in 0..(offset - 1), NEW j \in 0..(offset - 1), i < j
               PROVE  heights[i] > heights[j]
    OBVIOUS
  <2>1. \/ heights[i] > heights[j]
        \/ i = offset - 2 /\ heights[i] = heights[j]
    BY DEF IInv, HeightsDecrease
  <2> QED
    BY <1>1, <1>2, <2>1 DEF TopsEqual
<1>9. HeightsDecrease'
  BY <1>1, <1>8 DEF HeightsDecrease
<1>10. HeightBound'
  <2> SUFFICES ASSUME NEW j \in 0..(offset - 1)
               PROVE  heights[j] + j <= heights[0]
    BY <1>1, <1>2 DEF HeightBound, TypeOK
  <2>1. /\ j \in 0..TreeHeight /\ heights[j] \in Nat /\ heights[0] \in Nat
    BY <1>2 DEF TypeOK
  <2>2. CASE j < offset - 1
    BY <1>2, <2>1, <2>2 DEF IInv, HeightBound
  <2>3. CASE j = offset - 1 /\ j > 0
    <3>1. j - 1 \in 0..(offset - 1) /\ j - 1 \in 0..TreeHeight
          /\ j - 1 # offset - 1
      BY <1>2, <2>1, <2>3
    <3>2. heights[j - 1] + (j - 1) <= heights[0] + 0
      BY <3>1 DEF IInv, HeightBound
    <3>3. heights[j - 1] > heights[j] /\ heights[j - 1] \in Nat
      BY <1>2, <1>8, <2>1, <3>1 DEF TypeOK
    <3> QED
      BY <2>1, <3>2, <3>3
  <2>4. CASE j = 0
    BY <2>1, <2>4
  <2> QED
    BY <1>2, <2>2, <2>3, <2>4
<1>11. AuthPathSoFar'
  <2> SUFFICES ASSUME NEW h \in 0..(TreeHeight - 1),
                      Complete(h, Sibling(Shr(leaf_idx, h)))'
               PROVE  Complete(h, Sibling(Shr(leaf_idx, h)))
    BY <1>1 DEF IInv, AuthPathSoFar
  <2> DEFINE m == Sibling(Shr(leaf_idx, h))
             t == heights[offset - 1]
  <2>1. h \in 0..TreeHeight /\ m \in Nat /\ m + 1 \in Nat
    BY <1>2, SiblingType
  <2>2. \/ (m + 1) * Pow2[h] < Covered
        \/ (m + 1) * Pow2[h] = Covered
    BY <1>1, <1>3 DEF Complete
  <2>3. ASSUME (m + 1) * Pow2[h] = Covered, h > t PROVE FALSE
    <3>1. t \in 0..TreeHeight /\ pos[offset - 1] + 1 \in Nat
      <4>1. offset - 1 \in 0..TreeHeight /\ offset - 1 \in 0..(offset - 1)
        BY <1>2
      <4>2. t <= TreeHeight
        BY <1>4, <4>1 DEF Tiling
      <4>3. t \in Nat
        BY <1>2, <4>1 DEF TypeOK
      <4>4. pos[offset - 1] \in Nat
        BY <1>2, <1>4, <4>1 DEF Positions
      <4> QED
        BY <4>2, <4>3, <4>4
    <3>2. (pos[offset - 1] + 1) * Pow2[t] = (m + 1) * Pow2[h]
      BY <1>2, <1>4, <2>3 DEF Tiling
    <3>0. t < h
      BY <2>3
    <3> HIDE DEF m, t
    <3>3. \E k \in Nat : pos[offset - 1] + 1 = 2 * k
      BY <2>1, <3>0, <3>1, <3>2, EvenLemma
    <3>4. \E k \in Nat : pos[offset - 1] = 2 * k
      BY <1>1, <1>2, <1>4, TopIsEven
    <3> QED
      BY <3>3, <3>4
  <2>4. t \in Nat
    BY <1>2 DEF TypeOK
  <2> QED
    BY <2>1, <2>2, <2>3, <2>4 DEF Complete
<1>12. AuthPathInBounds' /\ ResultIsMerkleTree'
  BY <1>1 DEF IInv, AuthPathInBounds, ResultIsMerkleTree
<1> QED
  BY <1>5, <1>6, <1>7, <1>9, <1>10, <1>11, <1>12 DEF IInv

(* At the end of the outer loop one node is left, the root. *)
LEMMA RootOnStack ==
    ASSUME IInv, pc = "leaf", idx >= Pow2[TreeHeight]
    PROVE  stack[0] = RootOf(idx_offset)
<1> USE TreeHeightAssumption
<1> DEFINE t == heights[offset - 1]
<1>1. /\ TypeOK /\ idx = Pow2[TreeHeight] /\ Pow2[TreeHeight] \in Nat \ {0}
      /\ Covered = idx
  BY PowType DEF IInv, TypeOK, Covered
<1>2. PICK pos \in Positions : Tiling(pos)
  BY DEF IInv, StackTilesLeaves
<1>3. offset \in 1..(TreeHeight + 1)
  BY <1>1, <1>2 DEF Tiling, TypeOK
<1>4. /\ offset - 1 \in 0..TreeHeight /\ offset - 1 \in 0..(offset - 1)
      /\ t \in 0..TreeHeight /\ pos[offset - 1] \in Nat
  <2>1. offset - 1 \in 0..TreeHeight /\ offset - 1 \in 0..(offset - 1)
    BY <1>3
  <2> QED
    BY <1>1, <1>2, <2>1 DEF TypeOK, Tiling, Positions
<1>5. (pos[offset - 1] + 1) * Pow2[t] = 1 * Pow2[TreeHeight]
  BY <1>1, <1>2, <1>3 DEF Tiling
<1>6. ~(t < TreeHeight)
  <2> SUFFICES ASSUME t < TreeHeight PROVE FALSE
    OBVIOUS
  <2>1. pos[offset - 1] + 1 \in Nat /\ 1 \in Nat /\ TreeHeight \in 0..TreeHeight
    BY <1>4
  <2> HIDE DEF t
  <2>2. \E k \in Nat : pos[offset - 1] + 1 = 2 * k
    BY <1>4, <1>5, <2>1, EvenLemma
  <2>3. \E k \in Nat : pos[offset - 1] = 2 * k
    BY <1>2, <1>3, TopIsEven
  <2> QED
    BY <2>2, <2>3
<1>7. t = TreeHeight
  BY <1>4, <1>6
<1>8. offset = 1
  <2> SUFFICES ASSUME offset > 1 PROVE FALSE
    BY <1>3
  <2>1. 0 \in 0..(offset - 1) /\ 0 < offset - 1
    BY <1>3
  <2>2. heights[0] > t
    BY <1>4, <2>1 DEF IInv, HeightsDecrease
  <2>3. heights[0] <= TreeHeight /\ heights[0] \in Nat
    BY <1>1, <1>2, <2>1 DEF Tiling, TypeOK
  <2> QED
    BY <1>7, <2>2, <2>3
<1>9. /\ pos[0] = 0 /\ heights[0] = TreeHeight
      /\ stack[0] = Node(heights[0], InTree(idx_offset, heights[0], pos[0]))
  BY <1>2, <1>7, <1>8 DEF Tiling
<1> QED
  BY <1>9 DEF RootOf

(* ... and the whole authentication path is in place. *)
LEMMA PathComplete ==
    ASSUME IInv, pc = "leaf", idx >= Pow2[TreeHeight],
           NEW h \in 0..(TreeHeight - 1)
    PROVE  auth_path[h] = AuthNode(idx_offset, leaf_idx, h)
<1> USE TreeHeightAssumption
<1> DEFINE x == Shr(leaf_idx, h)
           D == Pow2[h]
           Q == Pow2[TreeHeight - h]
           R == Pow2[TreeHeight - h - 1]
<1>1. /\ TypeOK /\ idx = Pow2[TreeHeight] /\ Covered = idx
  BY PowType DEF IInv, TypeOK, Covered
<1>2. h \in 0..TreeHeight /\ TreeHeight - h \in 0..TreeHeight
      /\ TreeHeight - h - 1 \in 0..TreeHeight
      /\ TreeHeight - h - 1 \in 0..(TreeHeight - 1)
  OBVIOUS
<1>3. D \in Nat \ {0} /\ R \in Nat \ {0} /\ Q \in Nat \ {0}
  BY <1>2, PowType
<1>4. Q = 2 * R
  <2>1. Pow2[(TreeHeight - h - 1) + 1] = 2 * R
    BY <1>2, PowSucc
  <2>2. (TreeHeight - h - 1) + 1 = TreeHeight - h
    OBVIOUS
  <2> QED
    BY <2>1, <2>2
<1>5. Pow2[TreeHeight] = Q * D
  <2>1. (TreeHeight - h) + h = TreeHeight
    OBVIOUS
  <2>2. Pow2[(TreeHeight - h) + h] = Q * D
    BY <1>2, <2>1, Pow2Assumption
  <2> QED
    BY <2>1, <2>2
<1>6. leaf_idx \in Nat /\ leaf_idx < Q * D
  BY <1>1, <1>5, PowType DEF TypeOK, LeafIndices
<1> HIDE DEF D, Q, R
<1>7. x \in Nat /\ x < Q
  <2>1. x = leaf_idx \div D
    BY DEF Shr, D
  <2> DEFINE y == leaf_idx \div D
  <2>2. y \in Nat /\ y * D <= leaf_idx
    BY <1>3, <1>6
  <2> HIDE DEF y
  <2>3. y * D < Q * D
    BY <1>3, <1>6, <2>2
  <2>4. y < Q
    BY <1>3, <2>2, <2>3, MultLemma
  <2> QED
    BY <2>1, <2>2, <2>4 DEF y
<1> HIDE DEF x
<1>8. Sibling(x) \in Nat /\ Sibling(x) + 1 <= Q
  BY <1>3, <1>4, <1>7 DEF Sibling
<1>9. (Sibling(x) + 1) * D <= Q * D
  BY <1>3, <1>8, MultLemma
<1>10. Complete(h, Sibling(x))
  <2>1. (Sibling(x) + 1) * D \in Nat
    BY <1>3, <1>8
  <2>2. (Sibling(x) + 1) * D <= Covered /\ Covered \in Nat
    BY <1>1, <1>5, <1>9, PowType
  <2> QED
    BY <2>1, <2>2 DEF Complete, D
<1> QED
  BY <1>10 DEF IInv, AuthPathSoFar, x

LEMMA FinishStep == IInv /\ Finish => IInv'
<1> SUFFICES ASSUME IInv, Finish PROVE IInv'
  OBVIOUS
<1>1. /\ pc = "leaf" /\ pc' = "done" /\ idx >= Pow2[TreeHeight]
      /\ root' = stack[0]
      /\ UNCHANGED <<leaf_idx, idx_offset, idx, offset, stack, heights,
                     tree_addr, auth_path>>
  BY DEF Finish, NumLeaves
<1>2. TypeOK' /\ Phases'
  BY <1>1 DEF IInv, TypeOK, Phases
<1>3. Covered' = Covered
  BY <1>1 DEF Covered
<1>4. StackTilesLeaves'
  <2>1. PICK pos \in Positions : Tiling(pos)
    BY <1>1 DEF IInv, StackTilesLeaves
  <2>2. Tiling(pos)'
    BY <1>1, <1>3, <2>1 DEF Tiling
  <2> QED
    BY <2>2 DEF StackTilesLeaves, Positions
<1>5. HeightsDecrease' /\ HeightBound'
  BY <1>1 DEF IInv, HeightsDecrease, HeightBound
<1>6. \A h \in 0..(TreeHeight - 1) :
          auth_path'[h] = AuthNode(idx_offset', leaf_idx', h)
  BY <1>1, PathComplete
<1>7. AuthPathSoFar' /\ AuthPathInBounds'
  BY <1>1, <1>6 DEF IInv, AuthPathSoFar, AuthPathInBounds
<1>8. ResultIsMerkleTree'
  BY <1>1, <1>6, RootOnStack DEF ResultIsMerkleTree
<1> QED
  BY <1>2, <1>4, <1>5, <1>7, <1>8 DEF IInv

(* The invariant of every reachable state. *)
THEOREM Invariance == SafeSpec => []IInv
<1>1. IInv /\ UNCHANGED vars => IInv'
  <2> SUFFICES ASSUME IInv, UNCHANGED vars PROVE IInv'
    OBVIOUS
  <2>1. UNCHANGED <<leaf_idx, idx_offset, idx, offset, stack, heights,
                    tree_addr, auth_path, root, pc>>
    BY DEF vars
  <2>2. TypeOK' /\ Phases' /\ HeightsDecrease' /\ HeightBound'
        /\ AuthPathInBounds' /\ ResultIsMerkleTree'
    BY <2>1 DEF IInv, TypeOK, Phases, HeightsDecrease, HeightBound,
                AuthPathInBounds, ResultIsMerkleTree
  <2>3. StackTilesLeaves' /\ AuthPathSoFar'
    BY <2>1 DEF IInv, StackTilesLeaves, Positions, Tiling, AuthPathSoFar,
                Complete, Covered
  <2> QED
    BY <2>2, <2>3 DEF IInv
<1>2. IInv /\ [Next]_vars => IInv'
  BY <1>1, CallStep, GenLeafStep, MergeStep, NextLeafStep, FinishStep
     DEF Next, Run
<1> QED
  BY <1>2, InitStep, PTL DEF SafeSpec

(* Types and ranges: every index stays in the array or the tree it indexes. *)
THEOREM TypeCorrect == Spec => []TypeOK
<1>1. IInv => TypeOK
  BY DEF IInv
<1> QED
  BY <1>1, Invariance, PTL DEF Spec

(* A stack of tree_height + 1 cells is enough for 2 ^ tree_height leaves. *)
THEOREM StackSuffices == Spec => []StackHasRoom
<1>1. IInv => StackHasRoom
  BY Room, TreeHeightAssumption DEF StackHasRoom
<1> QED
  BY <1>1, Invariance, PTL DEF Spec

(* The authentication path is never written past its tree_height nodes. *)
THEOREM PathSuffices == Spec => []AuthPathInBounds
<1>1. IInv => AuthPathInBounds
  BY DEF IInv
<1> QED
  BY <1>1, Invariance, PTL DEF Spec

(* treehash returns the root and the authentication path of the Merkle tree. *)
THEOREM Correct == Spec => []ResultIsMerkleTree
<1>1. IInv => ResultIsMerkleTree
  BY DEF IInv
<1> QED
  BY <1>1, Invariance, PTL DEF Spec

(* Every behaviour of the loops is one of the two-step promise of           *)
(* MerkleTree: what callers see of treehash is an atomic computation.       *)
THEOREM Refinement == SafeSpec => Promise!SafeSpec
<1> USE DEF Promise!Init, Promise!Call, Promise!Return, Promise!Next, Promise!vars
<1>0. /\ Promise!LeafIndices = LeafIndices /\ Promise!FirstLeaves = FirstLeaves
      /\ \A first : Promise!RootOf(first) = RootOf(first)
      /\ \A first, leaf : Promise!AuthPathOf(first, leaf) = AuthPathOf(first, leaf)
  BY DEF LeafIndices, Promise!LeafIndices, FirstLeaves, Promise!FirstLeaves,
         RootOf, Promise!RootOf, AuthPathOf, Promise!AuthPathOf, AuthNode,
         Promise!AuthNode, InTree, Promise!InTree, Sibling, Promise!Sibling
<1>1. Init => Promise!Init
  BY DEF Init
<1>2. IInv /\ [Next]_vars => [Promise!Next]_(Promise!vars)
  <2> SUFFICES ASSUME IInv, [Next]_vars PROVE [Promise!Next]_(Promise!vars)
    OBVIOUS
  <2>1. CASE Call
    BY <1>0, <2>1 DEF Call
  <2>2. CASE GenLeaf
    BY <2>2 DEF GenLeaf
  <2>3. CASE Merge
    BY <2>3 DEF Merge
  <2>4. CASE NextLeaf
    BY <2>4 DEF NextLeaf
  <2>5. CASE Finish
    <3>1. root' = RootOf(idx_offset)
      BY <2>5, RootOnStack DEF Finish, NumLeaves
    <3>2. [h \in 0..(TreeHeight - 1) |-> auth_path'[h]]
            = AuthPathOf(idx_offset, leaf_idx)
      BY <2>5, PathComplete DEF Finish, NumLeaves, AuthPathOf
    <3>3. Promise!Return
      <4>1. pc = "leaf" /\ pc' = "done" /\ UNCHANGED <<leaf_idx, idx_offset>>
        BY <2>5 DEF Finish
      <4>2. (IF pc = "done"
             THEN [root      |-> root,
                   auth_path |-> [h \in 0..(TreeHeight - 1) |-> auth_path[h]]]
             ELSE NoResult)'
              = [root      |-> Promise!RootOf(idx_offset),
                 auth_path |-> Promise!AuthPathOf(idx_offset, leaf_idx)]
        BY <1>0, <3>1, <3>2, <4>1
      <4>3. (pc \in {"leaf", "merge"}) /\ (pc \in {"leaf", "merge"})' = FALSE
        BY <4>1
      <4> QED
        BY <4>1, <4>2, <4>3
    <3> QED
      BY <3>3
  <2>6. CASE UNCHANGED vars
    BY <2>6 DEF vars
  <2> QED
    BY <2>1, <2>2, <2>3, <2>4, <2>5, <2>6 DEF Next, Run
<1> QED
  BY <1>1, <1>2, Invariance, PTL DEF SafeSpec, Promise!SafeSpec

-------------------------------------------------------------------------------
(* The nodes that were hashed end where the leaves generated so far end, or *)
(* before; and if the node on top of the stack is a hash, it is the last.   *)
PostOrder ==
    /\ pc = "leaf" /\ idx > 1 => EndOf(tree_addr) <= idx + idx_offset
    /\ pc = "merge" /\ idx > 1 /\ heights[offset - 1] = 0 =>
           EndOf(tree_addr) <= idx + idx_offset
    /\ pc = "merge" /\ heights[offset - 1] > 0 =>
           /\ EndOf(tree_addr) = idx + 1 + idx_offset
           /\ tree_addr.height = heights[offset - 1]

LEMMA EndOfType ==
    ASSUME IInv
    PROVE  EndOf(tree_addr) \in Nat /\ idx_offset \in Nat /\ idx \in Nat
<1> USE TreeHeightAssumption
<1>1. /\ tree_addr.height \in 0..TreeHeight
      /\ tree_addr.index \in Nat
      /\ idx_offset \in FirstLeaves /\ idx \in 0..Pow2[TreeHeight]
  BY DEF IInv, TypeOK, NodesAt
<1>2. Pow2[tree_addr.height] \in Nat
  BY <1>1, PowType
<1>3. idx_offset \in Nat
  BY <1>1, FirstLemma
<1> QED
  BY <1>1, <1>2, <1>3 DEF EndOf

(* The node that Merge hashes ends with the leaf that was generated last.   *)
LEMMA MergeEnd ==
    ASSUME IInv, Merge
    PROVE  /\ EndOf(tree_addr') = idx + 1 + idx_offset
           /\ tree_addr'.height = heights[offset - 1] + 1
           /\ heights[offset - 1] \in Nat
           /\ offset' - 1 = offset - 2
           /\ heights'[offset' - 1] = heights[offset - 1] + 1
<1> USE TreeHeightAssumption
<1>1. PICK pos \in Positions : Tiling(pos)
  BY DEF IInv, StackTilesLeaves, Merge
<1>2. PICK h, m : h = heights[offset - 1] + 1 /\ m = Shr(idx, h)
  OBVIOUS
<1>3. /\ tree_addr' = [height |-> h, index |-> AddressIndex(h, m)]
      /\ heights' = [heights EXCEPT ![offset - 2] = h]
      /\ offset' = offset - 1
  BY <1>2 DEF Merge
<1>4. /\ offset \in 2..(TreeHeight + 1)
      /\ heights[offset - 1] \in 0..(TreeHeight - 1)
      /\ m \in IndexInTree(h)
      /\ (m + 1) * Pow2[h] = idx + 1
  BY <1>1, <1>2, MergeNode
<1>5. /\ h \in 1..TreeHeight /\ h \in 0..TreeHeight /\ TreeHeight - h \in 0..TreeHeight
      /\ (TreeHeight - h) + h = TreeHeight
  BY <1>2, <1>4
<1>6. idx_offset \in FirstLeaves /\ heights \in [0..TreeHeight -> Nat]
  BY DEF IInv, TypeOK
<1> DEFINE t == idx_offset \div Pow2[TreeHeight]
           P == Pow2[h]
           Q == Pow2[TreeHeight - h]
<1>7. /\ P \in Nat \ {0} /\ Q \in Nat \ {0} /\ Q * P = Pow2[TreeHeight]
  <2>1. Pow2[(TreeHeight - h) + h] = Pow2[TreeHeight - h] * Pow2[h]
    BY <1>5, Pow2Assumption
  <2> QED
    BY <1>5, <2>1, PowType
<1>8. /\ t \in Nat /\ idx_offset \in Nat /\ Shr(idx_offset, h) = t * Q
  BY <1>5, <1>6, FirstLemma, TreesAssumption
<1>9. idx_offset = t * (Q * P)
  <2>1. PICK n \in 0..(Trees - 1) : idx_offset = n * Pow2[TreeHeight]
    BY <1>6 DEF FirstLeaves
  <2>2. n \in Nat /\ Pow2[TreeHeight] \in Nat \ {0}
    BY PowType, TreesAssumption
  <2>3. n * Pow2[TreeHeight] < (n + 1) * Pow2[TreeHeight]
    BY <2>2
  <2>4. t = n
    BY <1>8, <2>1, <2>2, <2>3, DivLemma
  <2> QED
    BY <1>7, <2>1, <2>4
<1>10. m \in Nat
  BY <1>4, <1>7 DEF IndexInTree
<1> HIDE DEF t, P, Q
<1>11. EndOf(tree_addr') = ((m + t * Q) + 1) * P
  BY <1>3, <1>8 DEF EndOf, AddressIndex, P
<1>12. ((m + t * Q) + 1) * P = (m + 1) * P + t * (Q * P)
  BY <1>7, <1>8, <1>10
<1>13. EndOf(tree_addr') = idx + 1 + idx_offset
  BY <1>4, <1>9, <1>11, <1>12 DEF P
<1>14. offset - 2 \in 0..TreeHeight /\ offset' - 1 = offset - 2
  BY <1>3, <1>4
<1>15. heights'[offset' - 1] = h
  BY <1>3, <1>6, <1>14
<1> QED
  BY <1>2, <1>3, <1>4, <1>13, <1>14, <1>15

LEMMA PostOrderStep == IInv /\ PostOrder /\ [Next]_vars => PostOrder'
<1> SUFFICES ASSUME IInv, PostOrder, [Next]_vars PROVE PostOrder'
  OBVIOUS
<1> USE TreeHeightAssumption
<1>0. EndOf(tree_addr) \in Nat /\ idx_offset \in Nat /\ idx \in Nat
  BY EndOfType
<1>1. CASE Call
  BY <1>1 DEF Call, PostOrder
<1>2. CASE GenLeaf
  <2>1. /\ pc = "leaf" /\ pc' = "merge" /\ offset' = offset + 1
        /\ heights' = [heights EXCEPT ![offset] = 0]
        /\ UNCHANGED <<idx, idx_offset, tree_addr>>
    BY <1>2 DEF GenLeaf
  <2>2. offset \in 0..TreeHeight /\ heights \in [0..TreeHeight -> Nat]
    BY <1>2, Room DEF GenLeaf, NumLeaves, IInv, TypeOK
  <2>3. heights'[offset' - 1] = 0
    BY <2>1, <2>2
  <2> QED
    BY <2>1, <2>3 DEF PostOrder, EndOf
<1>3. CASE Merge
  <2>1. pc' = "merge" /\ idx' = idx /\ idx_offset' = idx_offset
    BY <1>3 DEF Merge
  <2>2. heights'[offset' - 1] > 0 /\ tree_addr'.height = heights'[offset' - 1]
    BY <1>3, MergeEnd
  <2>3. EndOf(tree_addr)' = idx' + 1 + idx_offset'
    BY <1>3, <2>1, MergeEnd DEF EndOf
  <2> QED
    BY <2>1, <2>2, <2>3 DEF PostOrder
<1>4. CASE NextLeaf
  <2>1. /\ pc = "merge" /\ pc' = "leaf" /\ ~TopsEqual /\ idx' = idx + 1
        /\ UNCHANGED <<idx_offset, tree_addr>>
    BY <1>4 DEF NextLeaf
  <2>2. heights[offset - 1] \in Nat
    BY <2>1 DEF IInv, TypeOK, Phases
  <2>3. CASE heights[offset - 1] > 0
    BY <1>0, <2>1, <2>3 DEF PostOrder, EndOf
  <2>4. CASE heights[offset - 1] = 0 /\ idx > 1
    BY <1>0, <2>1, <2>4 DEF PostOrder, EndOf
  <2>5. ASSUME heights[offset - 1] = 0, idx = 1 PROVE FALSE
    <3>1. PICK pos \in Positions : Tiling(pos)
      BY <2>1 DEF IInv, StackTilesLeaves
    <3>2. offset > 0
      BY <2>1 DEF IInv, Phases, TypeOK
    <3>3. PICK k \in Nat : pos[offset - 1] = 2 * k
      BY <2>1, <3>1, <3>2, TopIsEven
    <3>4. (pos[offset - 1] + 1) * Pow2[heights[offset - 1]] = Covered
      BY <3>1, <3>2 DEF Tiling
    <3>5. Covered = 2
      BY <2>1, <2>5 DEF Covered
    <3>6. (2 * k + 1) * 1 = 2
      BY <2>5, <3>3, <3>4, <3>5, Pow2Assumption
    <3> QED
      BY <3>3, <3>6
  <2> QED
    BY <1>0, <2>1, <2>2, <2>3, <2>4, <2>5 DEF PostOrder
<1>5. CASE Finish
  BY <1>5 DEF Finish, PostOrder
<1>6. CASE UNCHANGED vars
  BY <1>6 DEF vars, PostOrder, EndOf
<1> QED
  BY <1>1, <1>2, <1>3, <1>4, <1>5, <1>6 DEF Next, Run

(* No two hashes of a call have the same address, whatever the height of    *)
(* the tree and the leaf at which it starts.                                *)
THEOREM AddressesDiffer == Spec => NoAddressTwice
<1>1. Init => PostOrder
  BY DEF Init, PostOrder
<1>2. ASSUME IInv, PostOrder, Merge, idx > 1
      PROVE  \/ EndOf(tree_addr') > EndOf(tree_addr)
             \/ /\ EndOf(tree_addr') = EndOf(tree_addr)
                /\ tree_addr'.height > tree_addr.height
  <2>1. pc = "merge"
    BY <1>2 DEF Merge
  <2>2. CASE heights[offset - 1] = 0
    BY <1>2, <2>1, <2>2, MergeEnd, EndOfType DEF PostOrder
  <2>3. CASE heights[offset - 1] > 0
    BY <1>2, <2>1, <2>3, MergeEnd, EndOfType DEF PostOrder
  <2> QED
    BY <1>2, <2>2, <2>3, MergeEnd
<1>3. IInv /\ PostOrder =>
        [(Merge /\ idx > 1) =>
          \/ EndOf(tree_addr') > EndOf(tree_addr)
          \/ /\ EndOf(tree_addr') = EndOf(tree_addr)
             /\ tree_addr'.height > tree_addr.height]_vars
  BY <1>2
<1> QED
  BY <1>1, <1>3, Invariance, PostOrderStep, PTL DEF Spec, SafeSpec, NoAddressTwice

(* The stack holds a row of complete subtrees at every moment of a call.    *)
THEOREM Tiles == Spec => []StackTilesLeaves
<1>1. IInv => StackTilesLeaves
  BY DEF IInv
<1> QED
  BY <1>1, Invariance, PTL DEF Spec

-------------------------------------------------------------------------------
(* compute_root, on the same row of trees.                                  *)

(* A first leaf is a number. *)
LEMMA FirstNat == ASSUME NEW first \in FirstLeaves PROVE first \in Nat
<1>1. 0 \in 0..TreeHeight
  BY TreeHeightAssumption
<1> QED
  BY <1>1, FirstLemma

(* No two pairs of children have the same hash under the same address. *)
CollisionFree ==
    \A h, g, l1, r1, l2, r2 :
        Thash(h, g, l1, r1) = Thash(h, g, l2, r2) => l1 = l2 /\ r1 = r2

(* The node of height h above the leaf of the call, and the pair it makes   *)
(* with its neighbour.                                                      *)
PathNode(h) == Node(h, InTree(up_first, h, Shr(up_at, h)))
GenuinePair(h) == Pair(Shr(up_at, h), PathNode(h), AuthNode(up_first, up_at, h))

(* Where the loop stands: the indices are those of height i, and the pair   *)
(* in buffer is that of the tree if leaf and path are.                      *)
Climbing ==
    up_pc = "climb" =>
        /\ up_leaf_idx = Shr(up_at, up_i)
        /\ up_idx_offset = Shr(up_first, up_i)
        /\ up_buffer = <<up_buffer[1], up_buffer[2]>>
        /\ Genuine(up_i) => up_buffer = GenuinePair(up_i)

AscentInv == UpTypeOK /\ Climbing /\ GenuinePathGivesRoot

(* The converse, which needs the absence of collisions. *)
Binding == up_pc = "climb" => (up_buffer = GenuinePair(up_i) => Genuine(up_i))

-------------------------------------------------------------------------------
(* A shift by nothing. *)
LEMMA ShrZero == ASSUME NEW x \in Nat PROVE Shr(x, 0) = x
BY Pow2Assumption, DivLemma DEF Shr

(* The hash of a genuine pair is the next node of the path. *)
LEMMA GenuineParent ==
    ASSUME UpTypeOK, NEW h \in 0..(TreeHeight - 1)
    PROVE  PathNode(h + 1) = Thash(h + 1, Shr(up_at, h) \div 2 + Shr(up_first, h) \div 2,
                                   GenuinePair(h)[1], GenuinePair(h)[2])
<1> DEFINE x == Shr(up_at, h)
           m == Shr(up_at, h + 1)
<1>1. /\ up_at \in LeafIndices /\ up_at \in Nat /\ up_first \in FirstLeaves /\ up_first \in Nat
      /\ h + 1 \in 0..TreeHeight
  <2>1. Pow2[TreeHeight] \in Nat
    BY PowType, TreeHeightAssumption
  <2> QED
    BY <2>1, FirstNat, TreeHeightAssumption DEF UpTypeOK, LeafIndices
<1>2. /\ x \in Nat /\ m = x \div 2 /\ Shr(up_first, h + 1) = Shr(up_first, h) \div 2
  BY <1>1, ShrSucc
<1>3. m \in IndexInTree(h + 1)
  BY <1>1, ShrInTree
<1>4. Node(h + 1, InTree(up_first, h + 1, m))
        = Thash(h + 1, m + Shr(up_first, h + 1),
                Node(h, InTree(up_first, h, 2 * m)),
                Node(h, InTree(up_first, h, 2 * m + 1)))
  BY <1>1, <1>3, ChildLemma
<1>5. AuthNode(up_first, up_at, h) = Node(h, InTree(up_first, h, Sibling(x)))
  BY DEF AuthNode, Shr
<1> HIDE DEF x, m
<1>6. CASE x % 2 = 1
  <2>1. x = 2 * m + 1 /\ Sibling(x) = 2 * m
    BY <1>2, <1>6 DEF Sibling
  <2>2. GenuinePair(h) = <<Node(h, InTree(up_first, h, 2 * m)),
                           Node(h, InTree(up_first, h, 2 * m + 1))>>
    BY <1>5, <1>6, <2>1 DEF GenuinePair, Pair, PathNode, x
  <2> QED
    BY <1>2, <1>4, <2>2 DEF PathNode, m, x
<1>7. CASE x % 2 = 0
  <2>1. x = 2 * m /\ Sibling(x) = 2 * m + 1
    BY <1>2, <1>7 DEF Sibling
  <2>2. GenuinePair(h) = <<Node(h, InTree(up_first, h, 2 * m)),
                           Node(h, InTree(up_first, h, 2 * m + 1))>>
    BY <1>5, <1>7, <2>1 DEF GenuinePair, Pair, PathNode, x
  <2> QED
    BY <1>2, <1>4, <2>2 DEF PathNode, m, x
<1> QED
  BY <1>2, <1>6, <1>7

(* Above the last pair there is the root. *)
LEMMA PathEndsAtRoot == ASSUME UpTypeOK PROVE PathNode(TreeHeight) = RootOf(up_first)
<1>1. Shr(up_at, TreeHeight) \in IndexInTree(TreeHeight)
  BY ShrInTree, TreeHeightAssumption DEF UpTypeOK
<1>2. Shr(up_at, TreeHeight) = 0
  BY <1>1, TreeHeightAssumption, Pow2Assumption DEF IndexInTree
<1> QED
  BY <1>2 DEF PathNode, RootOf

(* Where the loop stands, the hash it computes is that of the next node of  *)
(* the path exactly if the pair in buffer hashes like the genuine one.      *)
LEMMA ParentLemma ==
    ASSUME AscentInv, up_pc = "climb"
    PROVE  /\ Parent(up_i + 1) = Thash(up_i + 1, Shr(up_at, up_i) \div 2 + Shr(up_first, up_i) \div 2,
                                    up_buffer[1], up_buffer[2])
           /\ Genuine(up_i) => Parent(up_i + 1) = PathNode(up_i + 1)
<1>1. Parent(up_i + 1) = Thash(up_i + 1, Shr(up_at, up_i) \div 2 + Shr(up_first, up_i) \div 2,
                            up_buffer[1], up_buffer[2])
  BY DEF AscentInv, Climbing, Parent
<1>2. ASSUME Genuine(up_i) PROVE Parent(up_i + 1) = PathNode(up_i + 1)
  <2>1. up_buffer = GenuinePair(up_i)
    BY <1>2 DEF AscentInv, Climbing
  <2>2. up_i \in 0..(TreeHeight - 1) /\ UpTypeOK
    BY DEF AscentInv, UpTypeOK
  <2> QED
    BY <1>1, <2>1, <2>2, GenuineParent
<1> QED
  BY <1>1, <1>2

LEMMA AscentTypeStep == UpTypeOK /\ [UpNext]_up_vars => UpTypeOK'
<1> SUFFICES ASSUME UpTypeOK, [UpNext]_up_vars PROVE UpTypeOK'
  OBVIOUS
<1> USE TreeHeightAssumption
<1>0. /\ Pow2[TreeHeight] \in Nat \ {0} /\ NodesAt(0) = 0..(Trees * Pow2[TreeHeight] - 1)
      /\ Trees * Pow2[TreeHeight] \in Nat
  <2>1. Pow2[TreeHeight] \in Nat \ {0}
    BY PowType
  <2> QED
    BY <2>1, TreesAssumption DEF NodesAt
<1>1. ASSUME NEW t \in FirstLeaves PROVE t \in NodesAt(0)
  <2>1. PICK n \in 0..(Trees - 1) : t = n * Pow2[TreeHeight]
    BY DEF FirstLeaves
  <2> DEFINE P == Pow2[TreeHeight]
  <2>2. n \in Nat /\ n < Trees /\ P \in Nat \ {0}
    BY <1>0, TreesAssumption
  <2> HIDE DEF P
  <2>3. n * P \in Nat /\ n * P < Trees * P
    BY <2>2, TreesAssumption, MultLemma
  <2> QED
    BY <1>0, <2>1, <2>3 DEF P
<1>2. CASE UpCall
  <2>1. PICK path : up_auth_path' = [h \in 0..TreeHeight |->
                                     IF h < TreeHeight THEN path[h] ELSE Junk]
    BY <1>2 DEF UpCall
  <2>2. DOMAIN up_buffer' = 1..2
    BY <1>2 DEF UpCall, Pair
  <2> QED
    BY <1>1, <1>2, <2>1, <2>2 DEF UpCall, UpTypeOK
<1>3. ASSUME Climb \/ Last
      PROVE  up_leaf_idx' \in LeafIndices /\ up_idx_offset' \in NodesAt(0)
  <2>1. up_leaf_idx' = up_leaf_idx \div 2 /\ up_idx_offset' = up_idx_offset \div 2
    BY <1>3 DEF Climb, Last
  <2>2. \A n \in Nat \ {0} : \A x \in 0..(n - 1) : x \div 2 \in 0..(n - 1)
    OBVIOUS
  <2>3. Trees * Pow2[TreeHeight] \in Nat \ {0}
    BY <1>0, TreesAssumption
  <2>4. up_leaf_idx \in 0..(Pow2[TreeHeight] - 1)
        /\ up_idx_offset \in 0..(Trees * Pow2[TreeHeight] - 1)
    BY <1>0 DEF UpTypeOK, LeafIndices
  <2>5. up_leaf_idx \div 2 \in 0..(Pow2[TreeHeight] - 1)
    BY <1>0, <2>2, <2>4
  <2>6. up_idx_offset \div 2 \in 0..(Trees * Pow2[TreeHeight] - 1)
    BY <2>2, <2>3, <2>4
  <2> QED
    BY <1>0, <2>1, <2>5, <2>6 DEF LeafIndices
<1>4. CASE Climb
  <2>1. DOMAIN up_buffer' = 1..2
    BY <1>4 DEF Climb, Pair
  <2> QED
    BY <1>3, <1>4, <2>1 DEF Climb, Levels, UpTypeOK
<1>5. CASE Last
  BY <1>3, <1>5 DEF Last, UpTypeOK
<1>6. CASE Return
  <2>1. 0 \in FirstLeaves
    <3>1. 0 \in 0..(Trees - 1) /\ 0 = 0 * Pow2[TreeHeight]
      BY <1>0, TreesAssumption
    <3> QED
      BY <3>1 DEF FirstLeaves
  <2>2. 0 \in LeafIndices /\ 0 \in NodesAt(0)
    BY <1>0, <1>1, <2>1 DEF LeafIndices
  <2> QED
    BY <1>6, <2>1, <2>2 DEF Return, UpTypeOK
<1>7. CASE UNCHANGED up_vars
  BY <1>7 DEF up_vars, UpTypeOK
<1> QED
  BY <1>2, <1>4, <1>5, <1>6, <1>7 DEF UpNext

LEMMA AscentStep == AscentInv /\ [UpNext]_up_vars => AscentInv'
<1> SUFFICES ASSUME AscentInv, [UpNext]_up_vars PROVE AscentInv'
  OBVIOUS
<1> USE TreeHeightAssumption
<1>1. UpTypeOK /\ UpTypeOK'
  BY AscentTypeStep DEF AscentInv
<1>2. up_at \in Nat /\ up_first \in Nat /\ up_at' \in Nat /\ up_first' \in Nat
  <2>1. Pow2[TreeHeight] \in Nat
    BY PowType
  <2>2. 0 \in 0..TreeHeight
    OBVIOUS
  <2> QED
    BY <1>1, <2>1, <2>2, FirstNat DEF UpTypeOK, LeafIndices
<1>3. CASE UpCall
  <2>1. /\ up_leaf_idx' = Shr(up_at', 0) /\ up_idx_offset' = Shr(up_first', 0) /\ up_i' = 0
        /\ up_buffer' = Pair(up_at', up_leaf', up_auth_path'[0]) /\ up_pc' = "climb"
    BY <1>2, <1>3, ShrZero DEF UpCall
  <2>2. up_buffer' = <<up_buffer'[1], up_buffer'[2]>>
    BY <2>1 DEF Pair
  <2>3. ASSUME Genuine(up_i)' PROVE (up_buffer = GenuinePair(up_i))'
    <3>1. up_leaf' = PathNode(0)' /\ up_auth_path'[0] = AuthNode(up_first', up_at', 0)
      BY <1>2, <2>1, <2>3, ShrZero DEF Genuine, PathNode
    <3> QED
      BY <1>2, <2>1, <3>1, ShrZero DEF GenuinePair
  <2> QED
    BY <1>1, <2>1, <2>2, <2>3 DEF AscentInv, Climbing, GenuinePathGivesRoot
<1>4. CASE Climb
  <2>1. /\ up_pc = "climb" /\ up_pc' = "climb" /\ up_i' = up_i + 1 /\ up_i \in 0..(TreeHeight - 1)
        /\ up_i + 1 \in 0..(TreeHeight - 1)
        /\ UNCHANGED <<up_leaf, up_auth_path, up_first, up_at>>
    BY <1>1, <1>4 DEF Climb, Levels, UpTypeOK
  <2>2. /\ up_leaf_idx' = Shr(up_at, up_i + 1) /\ up_idx_offset' = Shr(up_first, up_i + 1)
    BY <1>2, <1>4, <2>1, ShrSucc DEF Climb, AscentInv, Climbing
  <2>3. up_buffer' = Pair(Shr(up_at, up_i + 1), Parent(up_i + 1), up_auth_path[up_i + 1])
    BY <1>4, <2>2 DEF Climb
  <2>4. ASSUME Genuine(up_i + 1) PROVE up_buffer' = GenuinePair(up_i + 1)
    <3>1. Genuine(up_i) /\ up_auth_path[up_i + 1] = AuthNode(up_first, up_at, up_i + 1)
      BY <2>1, <2>4 DEF Genuine
    <3> QED
      BY <2>1, <2>3, <3>1, ParentLemma DEF GenuinePair
  <2>5. up_buffer' = <<up_buffer'[1], up_buffer'[2]>>
    BY <2>3 DEF Pair
  <2>6. Climbing'
    BY <2>1, <2>2, <2>4, <2>5
       DEF Climbing, Genuine, GenuinePair, PathNode
  <2> QED
    BY <1>1, <2>1, <2>6 DEF AscentInv, GenuinePathGivesRoot
<1>5. CASE Last
  <2>1. /\ up_pc = "climb" /\ up_pc' = "done" /\ up_i = TreeHeight - 1
        /\ up_i + 1 = TreeHeight
        /\ up_root' = Parent(TreeHeight)
        /\ UNCHANGED <<up_leaf, up_auth_path, up_first, up_at>>
    BY <1>1, <1>5 DEF Last, Levels, UpTypeOK
  <2>2. Genuine(TreeHeight - 1) => up_root' = RootOf(up_first)
    BY <1>1, <2>1, ParentLemma, PathEndsAtRoot
  <2>3. GenuinePathGivesRoot'
    BY <2>1, <2>2 DEF GenuinePathGivesRoot, Genuine
  <2> QED
    BY <1>1, <2>1, <2>3 DEF AscentInv, Climbing
<1>6. CASE Return
  BY <1>1, <1>6 DEF Return, AscentInv, Climbing, GenuinePathGivesRoot
<1>7. CASE UNCHANGED up_vars
  BY <1>1, <1>7 DEF up_vars, AscentInv, Climbing, GenuinePathGivesRoot, Genuine,
     GenuinePair, PathNode
<1> QED
  BY <1>3, <1>4, <1>5, <1>6, <1>7 DEF UpNext

LEMMA AscentInit == UpInit => AscentInv
<1> SUFFICES ASSUME UpInit PROVE AscentInv
  OBVIOUS
<1> USE TreeHeightAssumption
<1>1. Pow2[TreeHeight] \in Nat \ {0} /\ Trees * Pow2[TreeHeight] >= 1
  <2>1. Pow2[TreeHeight] \in Nat \ {0}
    BY PowType
  <2> QED
    BY <2>1, TreesAssumption
<1>2. 0 \in FirstLeaves
  <2>1. 0 \in 0..(Trees - 1) /\ 0 = 0 * Pow2[TreeHeight]
    BY <1>1, TreesAssumption
  <2> QED
    BY <2>1 DEF FirstLeaves
<1>3. 0 \in LeafIndices /\ 0 \in NodesAt(0)
  BY <1>1, TreesAssumption DEF LeafIndices, NodesAt
<1>4. UpTypeOK
  BY <1>2, <1>3 DEF UpInit, UpTypeOK
<1> QED
  BY <1>4 DEF UpInit, AscentInv, Climbing, GenuinePathGivesRoot

-------------------------------------------------------------------------------
(* Types and ranges: the path is never read past its tree_height nodes. *)
THEOREM AscentTypeCorrect == UpSpec => []UpTypeOK
<1>1. AscentInv => UpTypeOK
  BY DEF AscentInv
<1> QED
  BY <1>1, AscentInit, AscentStep, PTL DEF UpSpec

(* Whatever leaf and path it is given, compute_root returns the end of the  *)
(* way up from them.                                                        *)
EndsAscent ==
    up_pc = "done" =>
        \A f : IsAscent(f, up_leaf, up_at, up_first, up_auth_path) => up_root = f[TreeHeight]

Ascending ==
    up_pc = "climb" =>
        \A f : IsAscent(f, up_leaf, up_at, up_first, up_auth_path) =>
                   up_buffer = Pair(Shr(up_at, up_i), f[up_i], up_auth_path[up_i])

(* The hash of the pair in buffer is the next node on the way. *)
LEMMA NextOfAscent ==
    ASSUME AscentInv, Ascending, up_pc = "climb",
           NEW f, IsAscent(f, up_leaf, up_at, up_first, up_auth_path)
    PROVE  Parent(up_i + 1) = f[up_i + 1]
<1> DEFINE x == Shr(up_at, up_i)
           g == Shr(up_at, up_i + 1) + Shr(up_first, up_i + 1)
<1>1. /\ up_i \in 0..(TreeHeight - 1) /\ up_at \in Nat /\ up_first \in Nat
  <2>1. Pow2[TreeHeight] \in Nat /\ 0 \in 0..TreeHeight
    BY PowType, TreeHeightAssumption
  <2> QED
    BY <2>1, FirstNat DEF AscentInv, UpTypeOK, LeafIndices
<1>2. Parent(up_i + 1) = Thash(up_i + 1, g, up_buffer[1], up_buffer[2])
  BY <1>1, ParentLemma, ShrSucc
<1>3. f[up_i + 1] = IF x % 2 = 1 THEN Thash(up_i + 1, g, up_auth_path[up_i], f[up_i])
                    ELSE Thash(up_i + 1, g, f[up_i], up_auth_path[up_i])
  BY <1>1 DEF IsAscent
<1>4. up_buffer = Pair(x, f[up_i], up_auth_path[up_i])
  BY DEF Ascending
<1> HIDE DEF x, g
<1> QED
  BY <1>2, <1>3, <1>4 DEF Pair

THEOREM AscentFollows == UpSpec => []EndsAscent
<1>1. UpInit => Ascending /\ EndsAscent
  BY DEF UpInit, Ascending, EndsAscent
<1>2. AscentInv /\ Ascending /\ EndsAscent /\ [UpNext]_up_vars => Ascending' /\ EndsAscent'
  <2> SUFFICES ASSUME AscentInv, Ascending, EndsAscent, [UpNext]_up_vars
               PROVE  Ascending' /\ EndsAscent'
    OBVIOUS
  <2>1. UpTypeOK /\ UpTypeOK'
    BY AscentTypeStep DEF AscentInv
  <2>2. CASE UpCall
    <3>1. /\ up_pc' = "climb" /\ up_i' = 0
          /\ up_buffer' = Pair(up_at', up_leaf', up_auth_path'[0])
      BY <2>2 DEF UpCall
    <3>2. up_at' \in Nat /\ Shr(up_at', 0) = up_at'
      <4>1. Pow2[TreeHeight] \in Nat
        BY PowType, TreeHeightAssumption
      <4> QED
        BY <2>1, <4>1, ShrZero DEF UpTypeOK, LeafIndices
    <3> QED
      BY <3>1, <3>2 DEF Ascending, EndsAscent, IsAscent
  <2>3. CASE Climb
    <3>1. /\ up_pc = "climb" /\ up_pc' = "climb" /\ up_i' = up_i + 1
          /\ up_buffer' = Pair(up_leaf_idx', Parent(up_i + 1), up_auth_path[up_i + 1])
          /\ UNCHANGED <<up_leaf, up_auth_path, up_first, up_at>>
      BY <2>3 DEF Climb
    <3>2. up_leaf_idx' = Shr(up_at, up_i + 1)
      <4>1. AscentInv'
        BY AscentStep
      <4> QED
        BY <3>1, <4>1 DEF AscentInv, Climbing
    <3> QED
      BY <3>1, <3>2, NextOfAscent DEF Ascending, EndsAscent
  <2>4. CASE Last
    <3>1. /\ up_pc = "climb" /\ up_pc' = "done" /\ up_i + 1 = TreeHeight
          /\ up_root' = Parent(TreeHeight)
          /\ UNCHANGED <<up_leaf, up_auth_path, up_first, up_at>>
      BY <2>1, <2>4, TreeHeightAssumption DEF Last, Levels, UpTypeOK
    <3> QED
      BY <3>1, NextOfAscent DEF Ascending, EndsAscent
  <2>5. CASE Return
    BY <2>5 DEF Return, Ascending, EndsAscent
  <2>6. CASE UNCHANGED up_vars
    BY <2>6 DEF up_vars, Ascending, EndsAscent
  <2> QED
    BY <2>2, <2>3, <2>4, <2>5, <2>6 DEF UpNext
<1> QED
  BY <1>1, <1>2, AscentInit, AscentStep, PTL DEF UpSpec

(* The path treehash returns leads to the root treehash returns. *)
THEOREM AscentComplete == UpSpec => []GenuinePathGivesRoot
<1>1. AscentInv => GenuinePathGivesRoot
  BY DEF AscentInv
<1> QED
  BY <1>1, AscentInit, AscentStep, PTL DEF UpSpec

LEMMA BindingStep ==
    ASSUME CollisionFree
    PROVE  AscentInv /\ Binding /\ RootBindsPath /\ [UpNext]_up_vars
             => Binding' /\ RootBindsPath'
<1> SUFFICES ASSUME AscentInv, Binding, RootBindsPath, [UpNext]_up_vars
             PROVE  Binding' /\ RootBindsPath'
  OBVIOUS
<1> USE TreeHeightAssumption
<1>1. UpTypeOK
  BY DEF AscentInv
<1>2. ASSUME up_pc = "climb", Parent(up_i + 1) = PathNode(up_i + 1) PROVE Genuine(up_i)
  <2>1. up_i \in 0..(TreeHeight - 1) /\ up_buffer = <<up_buffer[1], up_buffer[2]>>
    BY <1>1, <1>2 DEF AscentInv, Climbing, UpTypeOK
  <2>2. Thash(up_i + 1, Shr(up_at, up_i) \div 2 + Shr(up_first, up_i) \div 2, up_buffer[1], up_buffer[2])
          = Thash(up_i + 1, Shr(up_at, up_i) \div 2 + Shr(up_first, up_i) \div 2,
                  GenuinePair(up_i)[1], GenuinePair(up_i)[2])
    BY <1>1, <1>2, <2>1, ParentLemma, GenuineParent
  <2>3. up_buffer[1] = GenuinePair(up_i)[1] /\ up_buffer[2] = GenuinePair(up_i)[2]
    BY <2>2 DEF CollisionFree
  <2>4. GenuinePair(up_i) = <<GenuinePair(up_i)[1], GenuinePair(up_i)[2]>>
    BY DEF GenuinePair, Pair
  <2>5. up_buffer = GenuinePair(up_i)
    BY <2>1, <2>3, <2>4
  <2> QED
    BY <1>2, <2>5 DEF Binding
<1>3. CASE UpCall
  <2>1. /\ up_i' = 0 /\ up_pc' = "climb" /\ up_at' \in LeafIndices /\ up_at' \in Nat
        /\ up_buffer' = Pair(up_at', up_leaf', up_auth_path'[0])
    <3>1. Pow2[TreeHeight] \in Nat
      BY PowType
    <3> QED
      BY <1>3, <3>1 DEF UpCall, LeafIndices
  <2>2. ASSUME (up_buffer = GenuinePair(up_i))' PROVE Genuine(up_i)'
    <3>1. Pair(up_at', up_leaf', up_auth_path'[0])
            = Pair(up_at', PathNode(0)', AuthNode(up_first', up_at', 0))
      BY <2>1, <2>2, ShrZero DEF GenuinePair
    <3>2. up_leaf' = PathNode(0)' /\ up_auth_path'[0] = AuthNode(up_first', up_at', 0)
      BY <3>1 DEF Pair
    <3> QED
      BY <2>1, <3>2, ShrZero DEF Genuine, PathNode
  <2> QED
    BY <2>1, <2>2 DEF Binding, RootBindsPath
<1>4. CASE Climb
  <2>1. /\ up_pc = "climb" /\ up_pc' = "climb" /\ up_i' = up_i + 1 /\ up_i \in 0..(TreeHeight - 1)
        /\ up_i + 1 \in 0..(TreeHeight - 1)
        /\ UNCHANGED <<up_leaf, up_auth_path, up_first, up_at>>
    BY <1>1, <1>4 DEF Climb, Levels, UpTypeOK
  <2>2. up_at \in Nat
    <3>1. Pow2[TreeHeight] \in Nat
      BY PowType
    <3> QED
      BY <1>1, <3>1 DEF UpTypeOK, LeafIndices
  <2>3. up_buffer' = Pair(Shr(up_at, up_i + 1), Parent(up_i + 1), up_auth_path[up_i + 1])
    BY <1>4, <2>1, <2>2, ShrSucc DEF Climb, AscentInv, Climbing
  <2>4. ASSUME up_buffer' = GenuinePair(up_i + 1) PROVE Genuine(up_i + 1)
    <3>1. /\ Parent(up_i + 1) = PathNode(up_i + 1)
          /\ up_auth_path[up_i + 1] = AuthNode(up_first, up_at, up_i + 1)
      BY <2>3, <2>4 DEF GenuinePair, Pair
    <3>2. Genuine(up_i)
      BY <1>2, <2>1, <3>1
    <3> QED
      BY <2>1, <3>1, <3>2 DEF Genuine
  <2> QED
    BY <2>1, <2>4 DEF Binding, RootBindsPath, GenuinePair, PathNode, Genuine
<1>5. CASE Last
  <2>1. /\ up_pc = "climb" /\ up_pc' = "done" /\ up_i = TreeHeight - 1
        /\ up_i + 1 = TreeHeight
        /\ up_root' = Parent(TreeHeight)
        /\ UNCHANGED <<up_leaf, up_auth_path, up_first, up_at>>
    BY <1>1, <1>5 DEF Last, Levels, UpTypeOK
  <2>2. up_root' = RootOf(up_first) => Genuine(TreeHeight - 1)
    BY <1>1, <1>2, <2>1, PathEndsAtRoot
  <2> QED
    BY <2>1, <2>2 DEF Binding, RootBindsPath, Genuine
<1>6. CASE Return
  BY <1>6 DEF Return, Binding, RootBindsPath
<1>7. CASE UNCHANGED up_vars
  BY <1>7 DEF up_vars, Binding, RootBindsPath, Genuine, GenuinePair, PathNode
<1> QED
  BY <1>3, <1>4, <1>5, <1>6, <1>7 DEF UpNext

(* No other leaf and no other path leads to the root of the tree. *)
THEOREM AscentSound == ASSUME CollisionFree PROVE UpSpec => []RootBindsPath
<1>1. UpInit => Binding /\ RootBindsPath
  BY DEF UpInit, Binding, RootBindsPath
<1>2. AscentInv /\ Binding /\ RootBindsPath /\ [UpNext]_up_vars => Binding' /\ RootBindsPath'
  BY BindingStep
<1> QED
  BY <1>1, <1>2, AscentInit, AscentStep, PTL DEF UpSpec
===============================================================================
