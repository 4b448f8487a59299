----------------------------- MODULE SphincsProofs -----------------------------
(***************************************************************************)
(* Proofs about the signature scheme, for every value of the constants of  *)
(* Sphincs: its types and the layout of a signature, that no WOTS key pair *)
(* signs twice, that its secrets and its hashes have addresses of their    *)
(* own, and that it implements SignatureScheme.                            *)
(*                                                                         *)
(* The plan.  A node of a tree, a point on a chain and a root are given    *)
(* here as functions of the key pair and of where they stand (RootOf,      *)
(* ForsCell, LayerCell, UnderAt).  The lemmas up to VerifyLayerLaw say     *)
(* that the functions of the code compute these, and that those which      *)
(* verify find them only if they are given what was signed.  The lemmas up *)
(* to Accepted say that the cells tell the digest, so that a signature     *)
(* with one cell exchanged cannot pass.  Inv says where a call stands in   *)
(* terms of them, and has a lemma for every action.  The last part says    *)
(* under which addresses a signature and its verification hash, that the   *)
(* addresses tell the cells apart, and that every action keeps its own.    *)
(* The end ties the calls of treehash and compute_root to their loops.     *)
(***************************************************************************)
EXTENDS Sphincs, WotsLemmas

-------------------------------------------------------------------------------
(* Trees.  The addresses of the nodes of a tree of q: only height and index *)
(* are their own.                                                           *)
TreeAddr(q, x, y, z) ==
    [layer |-> q.layer, tree |-> q.tree, type |-> q.type, kp1 |-> q.kp1,
     b17 |-> x, b18_20 |-> y, b21 |-> z]

OfTree(q, a) == \E x, y, z : a = TreeAddr(q, x, y, z)

NodeAt(q, h, g) == TreeAddr(q, Byte(h), g \div 256, Byte(g))

(* treehash and compute_root overwrite all of an address that a node has its *)
(* own.                                                                      *)
LEMMA NodeAddrLaw ==
    ASSUME NEW q, NEW a, OfTree(q, a)
    PROVE  \A h, g : NodeAddr(a, h, g) = NodeAt(q, h, g)
<1> TAKE h, g
<1>1. PICK x, y, z : a = TreeAddr(q, x, y, z)
  BY DEF OfTree
<1>2. SetTreeHeight(TreeAddr(q, x, y, z), h) = TreeAddr(q, Byte(h), y, z)
  BY DEF TreeAddr, SetTreeHeight
<1>3. SetTreeIndex(TreeAddr(q, Byte(h), y, z), g) = TreeAddr(q, Byte(h), g \div 256, Byte(g))
  <2> DEFINE u == g \div 256
             w == Byte(g)
             o == TreeAddr(q, Byte(h), y, z)
  <2>1. SetTreeIndex(o, g) = [[o EXCEPT !.b18_20 = u] EXCEPT !.b21 = w]
    <3> HIDE DEF o
    <3> QED
      BY DEF SetTreeIndex
  <2> HIDE DEF u, w
  <2>2. [o EXCEPT !.b18_20 = u] = TreeAddr(q, Byte(h), u, z)
    BY DEF TreeAddr
  <2>3. [TreeAddr(q, Byte(h), u, z) EXCEPT !.b21 = w] = TreeAddr(q, Byte(h), u, w)
    BY DEF TreeAddr
  <2> QED
    BY <2>1, <2>2, <2>3 DEF u, w
<1> QED
  BY <1>1, <1>2, <1>3 DEF NodeAddr, NodeAt

(* The nodes over the leaves of the function leaf, level by level. *)
IsTree(n, leaf, s, q, m) ==
    n = [h \in 0..m |->
            IF h = 0 THEN [g \in Nat |-> leaf[g]]
            ELSE [g \in Nat |-> Thash(s, NodeAt(q, h, g),
                                     <<n[h - 1][2 * g], n[h - 1][2 * g + 1]>>)]]

TreeOf(leaf, s, q, m) == CHOOSE n : IsTree(n, leaf, s, q, m)

(* The levels of a tree can be made one after the other. *)
LEMMA TreeExists ==
    ASSUME NEW m \in Nat, NEW leaf, NEW s, NEW q
    PROVE  \E n : IsTree(n, leaf, s, q, m)
<1> DEFINE Z == [g \in Nat |-> leaf[g]]
           E(v, h) == [g \in Nat |-> Thash(s, NodeAt(q, h, g), <<v[2 * g], v[2 * g + 1]>>)]
           Is(n, l) == n = [h \in 0..l |-> IF h = 0 THEN Z ELSE E(n[h - 1], h)]
           T == {l \in Nat : \E n : Is(n, l)}
<1> HIDE DEF E, Z
<1>1. 0 \in T
  <2>1. Is([h \in 0..0 |-> Z], 0)
    OBVIOUS
  <2> HIDE DEF Is
  <2> QED
    BY <2>1
<1>2. ASSUME NEW l \in T PROVE l + 1 \in T
  <2>1. PICK o : Is(o, l)
    OBVIOUS
  <2> DEFINE n == [h \in 0..(l + 1) |-> IF h = l + 1 THEN E(o[l], l + 1) ELSE o[h]]
  <2>2. \A h \in 0..(l + 1) : n[h] = IF h = 0 THEN Z ELSE E(n[h - 1], h)
    <3> SUFFICES ASSUME NEW h \in 0..(l + 1)
                 PROVE  n[h] = IF h = 0 THEN Z ELSE E(n[h - 1], h)
      OBVIOUS
    <3>1. l \in Nat
      OBVIOUS
    <3>2. CASE h = l + 1
      <4>1. n[h] = E(o[l], l + 1) /\ n[h - 1] = o[l] /\ h # 0
        BY <3>1, <3>2
      <4> QED
        BY <3>2, <4>1
    <3>3. CASE h # l + 1
      <4>1. h \in 0..l /\ n[h] = o[h] /\ (h # 0 => n[h - 1] = o[h - 1])
        BY <3>1, <3>3
      <4>2. o[h] = IF h = 0 THEN Z ELSE E(o[h - 1], h)
        BY <2>1, <4>1
      <4> QED
        BY <4>1, <4>2
    <3> QED
      BY <3>2, <3>3
  <2>3. n = [h \in 0..(l + 1) |-> n[h]]
    OBVIOUS
  <2> HIDE DEF n
  <2>4. Is(n, l + 1)
    BY <2>2, <2>3
  <2>5. l + 1 \in Nat
    OBVIOUS
  <2> HIDE DEF Is
  <2> QED
    BY <2>4, <2>5
<1>3. T = Nat
  <2>1. T \subseteq Nat
    OBVIOUS
  <2> HIDE DEF T
  <2> QED
    BY <1>1, <1>2, <2>1, NatInd
<1>4. \E n : Is(n, m)
  <2> HIDE DEF Is
  <2> QED
    BY <1>3
<1> QED
  BY <1>4 DEF IsTree, E, Z

(* A node is the hash of the two below it, and the lowest are the leaves. *)
LEMMA TreeLaw ==
    ASSUME NEW m \in Nat, NEW leaf, NEW s, NEW q
    PROVE  LET n == TreeOf(leaf, s, q, m)
           IN  /\ \A g \in Nat : n[0][g] = leaf[g]
               /\ \A h \in 1..m, g \in Nat :
                     n[h][g] = Thash(s, NodeAt(q, h, g),
                                     <<n[h - 1][2 * g], n[h - 1][2 * g + 1]>>)
<1> DEFINE n == TreeOf(leaf, s, q, m)
<1>1. IsTree(n, leaf, s, q, m)
  BY TreeExists DEF TreeOf
<1> HIDE DEF n
<1>2. \A h \in 0..m :
        n[h] = IF h = 0 THEN [g \in Nat |-> leaf[g]]
               ELSE [g \in Nat |-> Thash(s, NodeAt(q, h, g),
                                         <<n[h - 1][2 * g], n[h - 1][2 * g + 1]>>)]
  BY <1>1 DEF IsTree
<1>3. \A g \in Nat : n[0][g] = leaf[g]
  <2>1. 0 \in 0..m
    OBVIOUS
  <2>2. n[0] = [g \in Nat |-> leaf[g]]
    BY <1>2, <2>1
  <2> QED
    BY <2>2
<1>4. ASSUME NEW h \in 1..m, NEW g \in Nat
      PROVE  n[h][g] = Thash(s, NodeAt(q, h, g), <<n[h - 1][2 * g], n[h - 1][2 * g + 1]>>)
  <2>1. h \in 0..m /\ h # 0
    OBVIOUS
  <2>2. n[h] = [b \in Nat |-> Thash(s, NodeAt(q, h, b), <<n[h - 1][2 * b], n[h - 1][2 * b + 1]>>)]
    BY <1>2, <2>1
  <2> QED
    BY <2>2
<1> QED
  BY <1>3, <1>4 DEF n

(* The tree that treehash makes does not depend on what the address held for *)
(* the node before.                                                          *)
LEMMA NodesLaw ==
    ASSUME NEW m, NEW leaf, NEW s, NEW q, NEW a, OfTree(q, a)
    PROVE  Nodes(leaf, s, a, m) = TreeOf(leaf, s, q, m)
<1> DEFINE Is(n) == n = [h \in 0..m |->
                            IF h = 0 THEN [g \in Nat |-> leaf[g]]
                            ELSE [g \in Nat |-> Thash(s, NodeAddr(a, h, g),
                                                     <<n[h - 1][2 * g], n[h - 1][2 * g + 1]>>)]]
<1>1. Nodes(leaf, s, a, m) = CHOOSE n : Is(n)
  BY DEF Nodes
<1>2. ASSUME NEW n PROVE Is(n) <=> IsTree(n, leaf, s, q, m)
  BY NodeAddrLaw DEF IsTree
<1> HIDE DEF Is
<1> QED
  BY <1>1, <1>2 DEF TreeOf

(* What treehash returns. *)
RootOf(leaf, s, q, m, off) == TreeOf(leaf, s, q, m)[m][off \div TwoTo[m]]
AuthOf(leaf, s, q, m, off, li) ==
    [h \in 1..m |-> TreeOf(leaf, s, q, m)[h - 1][Neighbour(li \div TwoTo[h - 1])
                                                 + off \div TwoTo[h - 1]]]

(* What treehash returns: the root of the tree, and the way to it. *)
LEMMA TreehashLaw ==
    ASSUME NEW m \in Nat, NEW leaf, NEW s, NEW q, NEW a, OfTree(q, a), NEW li, NEW off \in Nat
    PROVE  LET r == TreehashResult(leaf, s, li, off, m, a)
           IN  /\ r.root = RootOf(leaf, s, q, m, off)
               /\ r.auth = AuthOf(leaf, s, q, m, off, li)
               /\ OfTree(q, r.addr)
<1> DEFINE r == TreehashResult(leaf, s, li, off, m, a)
           n == TreeOf(leaf, s, q, m)
<1>1. Nodes(leaf, s, a, m) = n
  BY NodesLaw
<1>2. 0 + off \div TwoTo[m] = off \div TwoTo[m]
  BY TwoToLaw
<1> HIDE DEF n
<1>3. r = [root |-> n[m][off \div TwoTo[m]],
           auth |-> [h \in 1..m |-> n[h - 1][Neighbour(li \div TwoTo[h - 1]) + off \div TwoTo[h - 1]]],
           addr |-> NodeAddr(a, m, off \div TwoTo[m])]
  BY <1>1, <1>2 DEF TreehashResult
<1>4. OfTree(q, NodeAddr(a, m, off \div TwoTo[m]))
  BY NodeAddrLaw DEF OfTree, NodeAt
<1> HIDE DEF r
<1> QED
  BY <1>3, <1>4 DEF n, r, RootOf, AuthOf

(* Halving the number of a leaf, a level at a time. *)
LEMMA Halves ==
    ASSUME NEW x \in Nat, NEW h \in Nat
    PROVE  x \div TwoTo[h + 1] = (x \div TwoTo[h]) \div 2
<1>1. TwoTo[h + 1] = TwoTo[h] * 2 /\ TwoTo[h] \in Nat \ {0}
  BY TwoToLaw
<1> QED
  BY <1>1, DivDiv

(* The loop of compute_root. *)
Path(li, off, h) == li \div TwoTo[h] + off \div TwoTo[h]

IsClimb(n, x, li, off, auth, m, s, q) ==
    n = [h \in 0..m |->
            IF h = 0 THEN x
            ELSE Thash(s, NodeAt(q, h, Path(li, off, h)),
                       IF (li \div TwoTo[h - 1]) % 2 = 1
                       THEN <<auth[h], n[h - 1]>>
                       ELSE <<n[h - 1], auth[h]>>)]

(* The nodes on the way up can be made one after the other. *)
LEMMA ClimbExists ==
    ASSUME NEW m \in Nat, NEW x, NEW li, NEW off, NEW auth, NEW s, NEW q
    PROVE  \E n : IsClimb(n, x, li, off, auth, m, s, q)
<1> DEFINE E(v, h) == Thash(s, NodeAt(q, h, Path(li, off, h)),
                            IF (li \div TwoTo[h - 1]) % 2 = 1
                            THEN <<auth[h], v>> ELSE <<v, auth[h]>>)
           Is(n, l) == n = [h \in 0..l |-> IF h = 0 THEN x ELSE E(n[h - 1], h)]
           T == {l \in Nat : \E n : Is(n, l)}
<1> HIDE DEF E
<1>1. 0 \in T
  <2>1. Is([h \in 0..0 |-> x], 0)
    OBVIOUS
  <2> HIDE DEF Is
  <2> QED
    BY <2>1
<1>2. ASSUME NEW l \in T PROVE l + 1 \in T
  <2>1. PICK o : Is(o, l)
    OBVIOUS
  <2> DEFINE n == [h \in 0..(l + 1) |-> IF h = l + 1 THEN E(o[l], l + 1) ELSE o[h]]
  <2>2. \A h \in 0..(l + 1) : n[h] = IF h = 0 THEN x ELSE E(n[h - 1], h)
    <3> SUFFICES ASSUME NEW h \in 0..(l + 1)
                 PROVE  n[h] = IF h = 0 THEN x ELSE E(n[h - 1], h)
      OBVIOUS
    <3>1. l \in Nat
      OBVIOUS
    <3>2. CASE h = l + 1
      <4>1. n[h] = E(o[l], l + 1) /\ n[h - 1] = o[l] /\ h # 0
        BY <3>1, <3>2
      <4> QED
        BY <3>2, <4>1
    <3>3. CASE h # l + 1
      <4>1. h \in 0..l /\ n[h] = o[h] /\ (h # 0 => n[h - 1] = o[h - 1])
        BY <3>1, <3>3
      <4>2. o[h] = IF h = 0 THEN x ELSE E(o[h - 1], h)
        BY <2>1, <4>1
      <4> QED
        BY <4>1, <4>2
    <3> QED
      BY <3>2, <3>3
  <2>3. n = [h \in 0..(l + 1) |-> n[h]]
    OBVIOUS
  <2> HIDE DEF n
  <2>4. Is(n, l + 1)
    BY <2>2, <2>3
  <2>5. l + 1 \in Nat
    OBVIOUS
  <2> HIDE DEF Is
  <2> QED
    BY <2>4, <2>5
<1>3. T = Nat
  <2>1. T \subseteq Nat
    OBVIOUS
  <2> HIDE DEF T
  <2> QED
    BY <1>1, <1>2, <2>1, NatInd
<1>4. \E n : Is(n, m)
  <2> HIDE DEF Is
  <2> QED
    BY <1>3
<1> QED
  BY <1>4 DEF IsClimb, E

(* One step up: the two children of the next node are the node and the member *)
(* of the path beside it.                                                     *)
LEMMA StepUp ==
    ASSUME NEW li \in Nat, NEW off \in Nat, NEW h \in Nat,
           off \div TwoTo[h] = 2 * (off \div TwoTo[h + 1])
    PROVE  LET c == li \div TwoTo[h]
               o == off \div TwoTo[h]
               p == Path(li, off, h + 1)
           IN  /\ p \in Nat /\ Path(li, off, h) \in Nat
               /\ c % 2 = 1 => Path(li, off, h) = 2 * p + 1 /\ Neighbour(c) + o = 2 * p
               /\ c % 2 # 1 => Path(li, off, h) = 2 * p /\ Neighbour(c) + o = 2 * p + 1
<1> DEFINE c == li \div TwoTo[h]
           b == off \div TwoTo[h]
           o == off \div TwoTo[h + 1]
           p == Path(li, off, h + 1)
           r == Path(li, off, h)
<1>1. c \in Nat /\ o \in Nat /\ b = 2 * o
  <2>1. TwoTo[h] \in Nat \ {0} /\ TwoTo[h + 1] \in Nat \ {0}
    BY TwoToLaw
  <2> QED
    BY <2>1, DivNat
<1>2. li \div TwoTo[h + 1] = c \div 2
  BY Halves
<1>3. p = c \div 2 + o /\ r = c + b
  BY <1>2 DEF Path
<1> HIDE DEF c, b, o, p, r
<1>4. c = 2 * (c \div 2) + (c % 2) /\ c \div 2 \in Nat /\ c % 2 \in 0..1
  BY <1>1
<1>5. p \in Nat /\ r \in Nat
  BY <1>1, <1>3, <1>4
<1>6. ASSUME c % 2 = 1 PROVE r = 2 * p + 1 /\ Neighbour(c) + b = 2 * p
  <2>1. Neighbour(c) = c - 1
    BY <1>6 DEF Neighbour
  <2> QED
    BY <1>1, <1>3, <1>4, <1>6, <2>1
<1>7. ASSUME c % 2 # 1 PROVE r = 2 * p /\ Neighbour(c) + b = 2 * p + 1
  <2>1. c % 2 = 0
    BY <1>4, <1>7
  <2>2. Neighbour(c) = c + 1
    BY <2>1 DEF Neighbour
  <2> QED
    BY <1>1, <1>3, <1>4, <2>1, <2>2
<1> QED
  BY <1>5, <1>6, <1>7 DEF c, b, p, r

(* Hashes of two are equal only if what was hashed is. *)
LEMMA PairInjective ==
    ASSUME NEW s, NEW a, NEW x, NEW y, NEW v, NEW w
    PROVE  Thash(s, a, <<x, y>>) = Thash(s, a, <<v, w>>) <=> x = v /\ y = w
BY DEF Thash

(* compute_root climbs to the node of the tree above the leaf exactly when it *)
(* is given the leaf and the nodes beside the way.                           *)
LEMMA ClimbLaw ==
    ASSUME NEW m \in Nat, NEW leaf, NEW s, NEW q, NEW li \in Nat, NEW off \in Nat,
           \A h \in 1..m : off \div TwoTo[h - 1] = 2 * (off \div TwoTo[h]),
           NEW x, NEW auth, NEW n, IsClimb(n, x, li, off, auth, m, s, q)
    PROVE  n[m] = TreeOf(leaf, s, q, m)[m][Path(li, off, m)]
              <=> /\ x = leaf[li + off]
                  /\ \A h \in 1..m : auth[h] = AuthOf(leaf, s, q, m, off, li)[h]
<1> DEFINE Ns == TreeOf(leaf, s, q, m)
           A == AuthOf(leaf, s, q, m, off, li)
           Good(h) == n[h] = Ns[h][Path(li, off, h)]
                         <=> x = leaf[li + off] /\ \A j \in 1..h : auth[j] = A[j]
           T == {h \in Nat : h <= m => Good(h)}
<1>1. /\ \A g \in Nat : Ns[0][g] = leaf[g]
      /\ \A h \in 1..m, g \in Nat :
            Ns[h][g] = Thash(s, NodeAt(q, h, g), <<Ns[h - 1][2 * g], Ns[h - 1][2 * g + 1]>>)
  BY TreeLaw
<1>2. \A h \in 1..m : A[h] = Ns[h - 1][Neighbour(li \div TwoTo[h - 1]) + off \div TwoTo[h - 1]]
  BY DEF AuthOf
<1> HIDE DEF Ns, A
<1>3. \A h \in 0..m :
        n[h] = IF h = 0 THEN x
               ELSE Thash(s, NodeAt(q, h, Path(li, off, h)),
                          IF (li \div TwoTo[h - 1]) % 2 = 1
                          THEN <<auth[h], n[h - 1]>> ELSE <<n[h - 1], auth[h]>>)
  BY DEF IsClimb
<1>4. 0 \in T
  <2>1. Path(li, off, 0) = li + off /\ li + off \in Nat
    <3>1. TwoTo[0] = 1 /\ li \div 1 = li /\ off \div 1 = off
      BY TwoToLaw
    <3> QED
      BY <3>1 DEF Path
  <2>2. n[0] = x
    <3>1. 0 \in 0..m
      OBVIOUS
    <3> QED
      BY <1>3, <3>1
  <2> QED
    BY <1>1, <2>1, <2>2
<1>5. ASSUME NEW h \in T PROVE h + 1 \in T
  <2> SUFFICES ASSUME h + 1 <= m PROVE Good(h + 1)
    OBVIOUS
  <2> DEFINE p == Path(li, off, h + 1)
             c == li \div TwoTo[h]
             a == NodeAt(q, h + 1, p)
  <2>1. h \in Nat /\ h + 1 \in 1..m /\ h + 1 \in 0..m /\ h + 1 # 0 /\ (h + 1) - 1 = h /\ Good(h)
    OBVIOUS
  <2>2. off \div TwoTo[h] = 2 * (off \div TwoTo[h + 1])
    BY <2>1
  <2>3. /\ p \in Nat
        /\ c % 2 = 1 => Path(li, off, h) = 2 * p + 1 /\ Neighbour(c) + off \div TwoTo[h] = 2 * p
        /\ c % 2 # 1 => Path(li, off, h) = 2 * p /\ Neighbour(c) + off \div TwoTo[h] = 2 * p + 1
    BY <2>1, <2>2, StepUp
  <2>4. Ns[h + 1][p] = Thash(s, a, <<Ns[h][2 * p], Ns[h][2 * p + 1]>>)
    BY <1>1, <2>1, <2>3
  <2>5. n[h + 1] = Thash(s, a, IF c % 2 = 1 THEN <<auth[h + 1], n[h]>> ELSE <<n[h], auth[h + 1]>>)
    BY <1>3, <2>1
  <2>6. A[h + 1] = Ns[h][Neighbour(c) + off \div TwoTo[h]]
    BY <1>2, <2>1
  <2>7. (\A j \in 1..(h + 1) : auth[j] = A[j])
           <=> (\A j \in 1..h : auth[j] = A[j]) /\ auth[h + 1] = A[h + 1]
    <3>1. \A j : j \in 1..(h + 1) <=> j \in 1..h \/ j = h + 1
      BY <2>1
    <3> QED
      BY <3>1
  <2> HIDE DEF p, c, a
  <2>8. n[h + 1] = Ns[h + 1][p] <=> n[h] = Ns[h][Path(li, off, h)] /\ auth[h + 1] = A[h + 1]
    <3>1. CASE c % 2 = 1
      <4>1. n[h + 1] = Thash(s, a, <<auth[h + 1], n[h]>>)
        BY <2>5, <3>1
      <4>2. n[h + 1] = Ns[h + 1][p] <=> auth[h + 1] = Ns[h][2 * p] /\ n[h] = Ns[h][2 * p + 1]
        BY <2>4, <4>1, PairInjective
      <4> QED
        BY <2>3, <2>6, <3>1, <4>2
    <3>2. CASE c % 2 # 1
      <4>1. n[h + 1] = Thash(s, a, <<n[h], auth[h + 1]>>)
        BY <2>5, <3>2
      <4>2. n[h + 1] = Ns[h + 1][p] <=> n[h] = Ns[h][2 * p] /\ auth[h + 1] = Ns[h][2 * p + 1]
        BY <2>4, <4>1, PairInjective
      <4> QED
        BY <2>3, <2>6, <3>2, <4>2
    <3> QED
      BY <3>1, <3>2
  <2> QED
    BY <2>1, <2>7, <2>8 DEF p
<1>6. T = Nat
  <2>1. T \subseteq Nat
    OBVIOUS
  <2> HIDE DEF T
  <2> QED
    BY <1>4, <1>5, <2>1, NatInd
<1>7. Good(m)
  <2> HIDE DEF Good
  <2> QED
    BY <1>6
<1> QED
  BY <1>7 DEF Ns, A

(* The first leaf of a tree lies below the first node of every height. *)
IsOffset(m, off) ==
    off \in Nat /\ \A h \in 1..m : off \div TwoTo[h - 1] = 2 * (off \div TwoTo[h])

IsAuth(auth, leaf, s, q, m, off, li) ==
    \A h \in 1..m : auth[h] = AuthOf(leaf, s, q, m, off, li)[h]

(* What compute_root returns: the root, if it is given the leaf and its way, and only then. *)
LEMMA ComputeRootLaw ==
    ASSUME NEW m \in Nat, NEW leaf, NEW s, NEW q, NEW a, OfTree(q, a),
           NEW li \in 0..(TwoTo[m] - 1), NEW off, IsOffset(m, off),
           NEW x, NEW auth
    PROVE  LET r == ComputeRootResult(x, li, off, auth, m, s, a)
           IN  /\ OfTree(q, r.addr)
               /\ r.root = RootOf(leaf, s, q, m, off)
                     <=> x = leaf[li + off] /\ IsAuth(auth, leaf, s, q, m, off, li)
<1> DEFINE r == ComputeRootResult(x, li, off, auth, m, s, a)
           Is(n) == n = [h \in 0..m |->
                            IF h = 0 THEN x
                            ELSE Thash(s, NodeAddr(a, h, li \div TwoTo[h] + off \div TwoTo[h]),
                                       IF (li \div TwoTo[h - 1]) % 2 = 1
                                       THEN <<auth[h], n[h - 1]>>
                                       ELSE <<n[h - 1], auth[h]>>)]
           n == CHOOSE o : Is(o)
<1>1. r = [root |-> n[m], addr |-> NodeAddr(a, m, li \div TwoTo[m] + off \div TwoTo[m])]
  BY DEF ComputeRootResult
<1>2. ASSUME NEW o PROVE Is(o) <=> IsClimb(o, x, li, off, auth, m, s, q)
  BY NodeAddrLaw DEF IsClimb, Path
<1> HIDE DEF Is, r
<1>3. IsClimb(n, x, li, off, auth, m, s, q)
  <2>1. \E o : Is(o)
    BY <1>2, ClimbExists
  <2> QED
    BY <1>2, <2>1
<1> HIDE DEF n
<1> USE DEF IsOffset
<1>4. li \in Nat /\ Path(li, off, m) = off \div TwoTo[m]
  <2>1. li \in Nat /\ TwoTo[m] \in Nat \ {0} /\ li < TwoTo[m]
    BY TwoToLaw
  <2>2. li \div TwoTo[m] = 0
    BY <2>1
  <2>3. off \div TwoTo[m] \in Nat
    BY <2>1
  <2> QED
    BY <2>1, <2>2, <2>3 DEF Path
<1>5. n[m] = RootOf(leaf, s, q, m, off)
         <=> /\ x = leaf[li + off]
             /\ \A h \in 1..m : auth[h] = AuthOf(leaf, s, q, m, off, li)[h]
  <2>1. n[m] = TreeOf(leaf, s, q, m)[m][Path(li, off, m)]
           <=> /\ x = leaf[li + off]
               /\ \A h \in 1..m : auth[h] = AuthOf(leaf, s, q, m, off, li)[h]
    BY <1>3, <1>4, ClimbLaw
  <2> QED
    BY <1>4, <2>1 DEF RootOf
<1>6. OfTree(q, NodeAddr(a, m, li \div TwoTo[m] + off \div TwoTo[m]))
  BY NodeAddrLaw DEF OfTree, NodeAt
<1> QED
  BY <1>1, <1>5, <1>6 DEF r, IsAuth

-------------------------------------------------------------------------------
(* Sequences, of whatever members. *)
IsSeq(x) == Len(x) \in Nat /\ x = [c \in 1..Len(x) |-> x[c]]

Members(x) == {x[c] : c \in 1..Len(x)}

(* A sequence is one of the built-in sets of sequences, *)
LEMMA SeqOf ==
    ASSUME NEW x, IsSeq(x), NEW S, Members(x) \subseteq S
    PROVE  x \in Seq(S)
<1>1. Len(x) \in Nat /\ x = [c \in 1..Len(x) |-> x[c]]
  BY DEF IsSeq
<1>2. \A c \in 1..Len(x) : x[c] \in S
  BY DEF Members
<1>3. x \in [1..Len(x) -> S]
  BY <1>1, <1>2
<1> QED
  BY <1>1, <1>3

(* and the other way round. *)
LEMMA OfSeq ==
    ASSUME NEW S, NEW x \in Seq(S)
    PROVE  IsSeq(x)
BY DEF IsSeq

(* Making a sequence, member by member. *)
LEMMA SeqMade ==
    ASSUME NEW n \in Nat, NEW v
    PROVE  LET x == [c \in 1..n |-> v[c]]
           IN  IsSeq(x) /\ Len(x) = n /\ \A c \in 1..n : x[c] = v[c]
<1> DEFINE x == [c \in 1..n |-> v[c]]
           S == {v[c] : c \in 1..n}
<1>1. x \in Seq(S) /\ Len(x) = n
  <2>1. x \in [1..n -> S]
    OBVIOUS
  <2> HIDE DEF x, S
  <2>2. x \in Seq(S)
    BY <2>1
  <2> QED
    BY <2>1, <2>2
<1>2. \A c \in 1..n : x[c] = v[c]
  OBVIOUS
<1> HIDE DEF x, S
<1> QED
  BY <1>1, <1>2, OfSeq

(* Putting one sequence after another. *)
LEMMA SeqConcat ==
    ASSUME NEW x, IsSeq(x), NEW y, IsSeq(y)
    PROVE  /\ IsSeq(x \o y) /\ Len(x \o y) = Len(x) + Len(y)
           /\ \A c \in 1..Len(x) : (x \o y)[c] = x[c]
           /\ \A c \in 1..Len(y) : (x \o y)[Len(x) + c] = y[c]
<1> DEFINE S == Members(x) \cup Members(y)
<1>1. x \in Seq(S) /\ y \in Seq(S)
  BY SeqOf
<1> HIDE DEF S
<1>2. x \o y \in Seq(S)
  BY <1>1
<1>3. IsSeq(x \o y)
  BY <1>2, OfSeq
<1> QED
  BY <1>1, <1>3

(* Adding a member at the end. *)
LEMMA SeqAppend ==
    ASSUME NEW x, IsSeq(x), NEW v
    PROVE  /\ IsSeq(Append(x, v)) /\ Len(Append(x, v)) = Len(x) + 1
           /\ \A c \in 1..Len(x) : Append(x, v)[c] = x[c]
           /\ Append(x, v)[Len(x) + 1] = v
<1> DEFINE S == Members(x) \cup {v}
<1>1. x \in Seq(S) /\ v \in S
  BY SeqOf
<1> HIDE DEF S
<1>2. Append(x, v) \in Seq(S)
  BY <1>1
<1>3. IsSeq(Append(x, v))
  BY <1>2, OfSeq
<1> QED
  BY <1>1, <1>3

(* Taking the n members that follow the first p. *)
LEMMA SeqPart ==
    ASSUME NEW x, IsSeq(x), NEW p \in Nat, NEW n \in Nat, p + n <= Len(x)
    PROVE  LET y == SubSeq(x, p + 1, p + n)
           IN  IsSeq(y) /\ Len(y) = n /\ \A c \in 1..n : y[c] = x[p + c]
<1> DEFINE S == Members(x)
           y == SubSeq(x, p + 1, p + n)
<1>1. x \in Seq(S)
  BY SeqOf
<1> HIDE DEF S
<1>2. y \in Seq(S) /\ Len(y) = n /\ \A c \in 1..n : y[c] = x[p + c]
  BY <1>1
<1>3. IsSeq(y)
  BY <1>2, OfSeq
<1> QED
  BY <1>2, <1>3

(* Dropping the first member. *)
LEMMA SeqTail ==
    ASSUME NEW x, IsSeq(x), NEW n \in Nat, Len(x) = n + 1
    PROVE  IsSeq(Tail(x)) /\ Len(Tail(x)) = n /\ \A c \in 1..n : Tail(x)[c] = x[c + 1]
<1> DEFINE S == Members(x)
<1>1. x \in Seq(S) /\ x # <<>>
  BY SeqOf
<1> HIDE DEF S
<1>2. Tail(x) \in Seq(S) /\ Len(Tail(x)) = n /\ \A c \in 1..n : Tail(x)[c] = x[c + 1]
  BY <1>1
<1>3. IsSeq(Tail(x))
  BY <1>2, OfSeq
<1> QED
  BY <1>2, <1>3

(* Replacing a member. *)
LEMMA SeqExcept ==
    ASSUME NEW x, IsSeq(x), NEW i0 \in 1..Len(x), NEW v
    PROVE  LET y == [x EXCEPT ![i0] = v]
           IN  IsSeq(y) /\ Len(y) = Len(x) /\ \A c \in 1..Len(x) : c # i0 => y[c] = x[c]
<1> DEFINE S == Members(x) \cup {v}
           y == [x EXCEPT ![i0] = v]
<1>1. x \in Seq(S) /\ v \in S
  BY SeqOf
<1> HIDE DEF S
<1>2. y \in Seq(S) /\ Len(y) = Len(x) /\ \A c \in 1..Len(x) : c # i0 => y[c] = x[c]
  BY <1>1
<1>3. IsSeq(y)
  BY <1>2, OfSeq
<1> QED
  BY <1>2, <1>3

(* The members tell the sequence. *)
LEMMA SeqEqual ==
    ASSUME NEW x, IsSeq(x), NEW y, IsSeq(y), Len(x) = Len(y),
           \A c \in 1..Len(x) : x[c] = y[c]
    PROVE  x = y
BY DEF IsSeq

(* A sequence of one. *)
LEMMA SeqOne ==
    ASSUME NEW v
    PROVE  IsSeq(<<v>>) /\ Len(<<v>>) = 1 /\ <<v>>[1] = v
BY DEF IsSeq

(* The empty sequence. *)
LEMMA SeqNone == IsSeq(<<>>) /\ Len(<<>>) = 0
BY DEF IsSeq

-------------------------------------------------------------------------------
(* The trees of FORS. *)
ForsQ(tr, l) == [layer |-> 0, tree |-> tr, type |-> FORSTREE, kp1 |-> Byte(l)]

ForsLeaf(k, q) == [g \in Nat |-> Thash(k, NodeAt(q, 0, g), <<Prf(k, NodeAt(q, 0, g))>>)]
ForsRoot(k, q, t) == RootOf(ForsLeaf(k, q), k, q, ForsHeight, IdxOffset(t))
ForsAuth(k, q, t, x) == AuthOf(ForsLeaf(k, q), k, q, ForsHeight, IdxOffset(t), x)
ForsCell(k, q, t, x, c) ==
    IF c = 1 THEN Prf(k, NodeAt(q, 0, x + IdxOffset(t))) ELSE ForsAuth(k, q, t, x)[c - 1]

IsForsQ(q) == \E tr, l : q = ForsQ(tr, l)

(* The first leaf of a tree is the first below its root, at every height. *)
LEMMA OffsetLaw ==
    ASSUME NEW m \in Nat, NEW t \in Nat
    PROVE  \A h \in 1..m : (t * TwoTo[m]) \div TwoTo[h - 1] = 2 * ((t * TwoTo[m]) \div TwoTo[h])
<1> TAKE h \in 1..m
<1> DEFINE a == TwoTo[m - h]
           b == TwoTo[h]
           c == TwoTo[h - 1]
<1>1. h - 1 \in Nat /\ h \in Nat /\ m - h \in Nat /\ (h - 1) + 1 = h /\ (m - h) + h = m
  OBVIOUS
<1>2. TwoTo[m] = a * b /\ b = 2 * c
  BY <1>1, TwoToAdd, TwoToLaw
<1>3. a \in Nat \ {0} /\ b \in Nat \ {0} /\ c \in Nat \ {0}
  BY <1>1, TwoToLaw
<1> HIDE DEF a, b, c
<1>4. (t * TwoTo[m]) \div b = t * a
  <2>1. t * TwoTo[m] = (t * a) * b
    BY <1>2, <1>3
  <2>2. t * a \in Nat
    BY <1>3
  <2> QED
    BY <1>3, <2>1, <2>2
<1>5. (t * TwoTo[m]) \div c = 2 * (t * a)
  <2>1. t * TwoTo[m] = (2 * (t * a)) * c
    BY <1>2, <1>3
  <2>2. 2 * (t * a) \in Nat
    BY <1>3
  <2> QED
    BY <1>3, <2>1, <2>2
<1> QED
  BY <1>4, <1>5 DEF b, c

(* Addresses, all fields written out. *)
AddrOf(a1, a2, a3, a4, a5, a6, a7) ==
    [layer |-> a1, tree |-> a2, type |-> a3, kp1 |-> a4, b17 |-> a5, b18_20 |-> a6, b21 |-> a7]

(* The address that is all zeros. *)
LEMMA ZeroFields == ZeroAddr = AddrOf(0, 0, 0, 0, 0, 0, 0)
BY DEF ZeroAddr, AddrOf

(* The types fit a byte. *)
LEMMA TypeBytes ==
    /\ Byte(WOTS) = WOTS /\ Byte(WOTSPK) = WOTSPK /\ Byte(HASHTREE) = HASHTREE
    /\ Byte(FORSTREE) = FORSTREE /\ Byte(FORSPK) = FORSPK /\ Byte(0) = 0
BY DEF Byte, WOTS, WOTSPK, HASHTREE, FORSTREE, FORSPK

(* The functions of address.c that set a field. *)
LEMMA SetterFields ==
    ASSUME NEW a1, NEW a2, NEW a3, NEW a4, NEW a5, NEW a6, NEW a7, NEW v
    PROVE  LET a == AddrOf(a1, a2, a3, a4, a5, a6, a7)
           IN  /\ SetLayer(a, v) = AddrOf(Byte(v), a2, a3, a4, a5, a6, a7)
               /\ SetTree(a, v) = AddrOf(a1, v, a3, a4, a5, a6, a7)
               /\ SetType(a, v) = AddrOf(a1, a2, Byte(v), a4, a5, a6, a7)
               /\ SetKeypair(a, v) = AddrOf(a1, a2, a3, Byte(v), a5, a6, a7)
<1> DEFINE a == AddrOf(a1, a2, a3, a4, a5, a6, a7)
           w == Byte(v)
<1>1. SetLayer(a, v) = [a EXCEPT !.layer = w] /\ SetTree(a, v) = [a EXCEPT !.tree = v]
      /\ SetType(a, v) = [a EXCEPT !.type = w] /\ SetKeypair(a, v) = [a EXCEPT !.kp1 = w]
  BY DEF SetLayer, SetTree, SetType, SetKeypair
<1> HIDE DEF w
<1>2. [a EXCEPT !.layer = w] = AddrOf(w, a2, a3, a4, a5, a6, a7)
  BY DEF AddrOf
<1>3. [a EXCEPT !.tree = v] = AddrOf(a1, v, a3, a4, a5, a6, a7)
  BY DEF AddrOf
<1>4. [a EXCEPT !.type = w] = AddrOf(a1, a2, w, a4, a5, a6, a7)
  BY DEF AddrOf
<1>5. [a EXCEPT !.kp1 = w] = AddrOf(a1, a2, a3, w, a5, a6, a7)
  BY DEF AddrOf
<1> QED
  BY <1>1, <1>2, <1>3, <1>4, <1>5 DEF w

(* And those that copy fields. *)
LEMMA CopyFields ==
    ASSUME NEW a1, NEW a2, NEW a3, NEW a4, NEW a5, NEW a6, NEW a7, NEW in,
           NEW b1, NEW b2, NEW b4, in.layer = b1, in.tree = b2, in.kp1 = b4
    PROVE  LET a == AddrOf(a1, a2, a3, a4, a5, a6, a7)
           IN  /\ CopySubtree(a, in) = AddrOf(b1, b2, a3, a4, a5, a6, a7)
               /\ CopyKeypair(a, in) = AddrOf(b1, b2, a3, b4, a5, a6, a7)
<1> DEFINE a == AddrOf(a1, a2, a3, a4, a5, a6, a7)
           b == [a EXCEPT !.layer = b1]
           c == [b EXCEPT !.tree = b2]
           d == [c EXCEPT !.kp1 = b4]
<1>1. b = AddrOf(b1, a2, a3, a4, a5, a6, a7)
  BY DEF AddrOf
<1> HIDE DEF b
<1>2. c = AddrOf(b1, b2, a3, a4, a5, a6, a7)
  BY <1>1 DEF AddrOf
<1> HIDE DEF c
<1>3. d = AddrOf(b1, b2, a3, b4, a5, a6, a7)
  BY <1>2 DEF AddrOf
<1>4. CopySubtree(a, in) = c
  <2> HIDE DEF a
  <2> QED
    BY DEF CopySubtree, b, c
<1>5. CopyKeypair(a, in) = d
  <2> HIDE DEF a, d
  <2> QED
    BY DEF CopyKeypair, b, c, d
<1> QED
  BY <1>2, <1>3, <1>4, <1>5

(* A leaf of FORS has the same address whichever way it is made. *)
LEMMA ForsLeafLaw ==
    ASSUME NEW k, NEW q, IsForsQ(q), NEW a, OfTree(q, a)
    PROVE  [g \in Nat |-> ForsGenLeaf(k, k, g, a)] = ForsLeaf(k, q)
<1>1. PICK tr, l : q = ForsQ(tr, l)
  BY DEF IsForsQ
<1>2. PICK x, y, z : a = TreeAddr(q, x, y, z)
  BY DEF OfTree
<1>3. SetType(CopyKeypair(ZeroAddr, a), FORSTREE) = TreeAddr(q, 0, 0, 0)
  <2>1. a.layer = 0 /\ a.tree = tr /\ a.kp1 = Byte(l)
    BY <1>1, <1>2 DEF TreeAddr, ForsQ
  <2>2. CopyKeypair(ZeroAddr, a) = AddrOf(0, tr, 0, Byte(l), 0, 0, 0)
    BY <2>1, ZeroFields, CopyFields
  <2>3. SetType(AddrOf(0, tr, 0, Byte(l), 0, 0, 0), FORSTREE) = AddrOf(0, tr, FORSTREE, Byte(l), 0, 0, 0)
    BY SetterFields, TypeBytes
  <2>4. TreeAddr(q, 0, 0, 0) = AddrOf(0, tr, FORSTREE, Byte(l), 0, 0, 0)
    BY <1>1 DEF TreeAddr, ForsQ, AddrOf
  <2> QED
    BY <2>2, <2>3, <2>4
<1>4. \A g : SetTreeIndex(TreeAddr(q, 0, 0, 0), g) = NodeAt(q, 0, g)
  <2> TAKE g
  <2> DEFINE u == g \div 256
             w == Byte(g)
             o == TreeAddr(q, 0, 0, 0)
  <2>1. SetTreeIndex(o, g) = [[o EXCEPT !.b18_20 = u] EXCEPT !.b21 = w]
    <3> HIDE DEF o
    <3> QED
      BY DEF SetTreeIndex
  <2>2. NodeAt(q, 0, g) = TreeAddr(q, 0, u, w)
    BY DEF NodeAt, Byte
  <2> HIDE DEF u, w
  <2>3. [o EXCEPT !.b18_20 = u] = TreeAddr(q, 0, u, 0)
    BY DEF TreeAddr
  <2>4. [TreeAddr(q, 0, u, 0) EXCEPT !.b21 = w] = TreeAddr(q, 0, u, w)
    BY DEF TreeAddr
  <2> QED
    BY <2>1, <2>2, <2>3, <2>4
<1>5. \A g \in Nat : ForsGenLeaf(k, k, g, a) = Thash(k, NodeAt(q, 0, g), <<Prf(k, NodeAt(q, 0, g))>>)
  BY <1>3, <1>4 DEF ForsGenLeaf, ForsSkToLeaf, ForsGenSk
<1> QED
  BY <1>5 DEF ForsLeaf

(* A leaf is one of the tree's: what sign_fors and verify_fors do to one. *)
LEMMA OffsetNat ==
    ASSUME NEW t \in Nat
    PROVE  IdxOffset(t) \in Nat /\ ForsHeight \in Nat \ {0}
<1>1. ForsHeight \in Nat \ {0}
  BY SchemeAssumption
<1>2. TwoTo[ForsHeight] \in Nat \ {0}
  BY <1>1, TwoToLaw
<1> QED
  BY <1>1, <1>2 DEF IdxOffset

(* The address of the leaf that is opened. *)
LEMMA OpenedLaw ==
    ASSUME NEW q, NEW a, OfTree(q, a), NEW t, NEW x
    PROVE  OpenedAddr(a, t, x) = NodeAt(q, 0, x + IdxOffset(t)) /\ OfTree(q, OpenedAddr(a, t, x))
<1>1. OpenedAddr(a, t, x) = NodeAddr(a, 0, x + IdxOffset(t))
  BY DEF OpenedAddr, NodeAddr
<1>2. NodeAddr(a, 0, x + IdxOffset(t)) = NodeAt(q, 0, x + IdxOffset(t))
  BY NodeAddrLaw
<1>3. OfTree(q, NodeAt(q, 0, x + IdxOffset(t)))
  BY DEF OfTree, NodeAt
<1> QED
  BY <1>1, <1>2, <1>3

IsForsCells(y, k, q, t, x) ==
    IsSeq(y) /\ Len(y) = 1 + ForsHeight /\ \A c \in 1..(1 + ForsHeight) : y[c] = ForsCell(k, q, t, x, c)

(* What fors_sign does for one tree. *)
LEMMA ForsSignLaw ==
    ASSUME NEW k, NEW q, IsForsQ(q), NEW a, OfTree(q, a), NEW t \in Nat, NEW x
    PROVE  LET r == ForsSignTree(t, x, k, k, a)
           IN  /\ IsForsCells(r.cells, k, q, t, x)
               /\ r.root = ForsRoot(k, q, t)
               /\ OfTree(q, r.addr)
<1> DEFINE o == OpenedAddr(a, t, x)
           lf == [g \in Nat |-> ForsGenLeaf(k, k, g, o)]
           h == TreehashResult(lf, k, x, IdxOffset(t), ForsHeight, o)
           r == ForsSignTree(t, x, k, k, a)
           A == ForsAuth(k, q, t, x)
           first == Prf(k, NodeAt(q, 0, x + IdxOffset(t)))
<1>1. o = NodeAt(q, 0, x + IdxOffset(t)) /\ OfTree(q, o)
  BY OpenedLaw
<1>2. lf = ForsLeaf(k, q)
  BY <1>1, ForsLeafLaw
<1>3. IdxOffset(t) \in Nat /\ ForsHeight \in Nat \ {0}
  BY OffsetNat
<1>4. ForsGenSk(k, o) = first
  BY <1>1 DEF ForsGenSk
<1>5. r = [cells |-> <<ForsGenSk(k, o)>> \o h.auth, root |-> h.root, addr |-> h.addr]
  BY DEF ForsSignTree
<1> HIDE DEF o, lf, r, first
<1>6. h.root = ForsRoot(k, q, t) /\ h.auth = A /\ OfTree(q, h.addr)
  BY <1>1, <1>2, <1>3, TreehashLaw DEF ForsRoot, ForsAuth
<1>7. IsForsCells(<<first>> \o A, k, q, t, x)
  <2>1. IsSeq(A) /\ Len(A) = ForsHeight
    BY <1>3, SeqMade DEF ForsAuth, AuthOf
  <2>2. IsSeq(<<first>>) /\ Len(<<first>>) = 1 /\ <<first>>[1] = first
    BY SeqOne
  <2> DEFINE y == <<first>> \o A
  <2>3. /\ IsSeq(y) /\ Len(y) = 1 + ForsHeight
        /\ \A c \in 1..1 : y[c] = <<first>>[c]
        /\ \A c \in 1..ForsHeight : y[1 + c] = A[c]
    BY <2>1, <2>2, SeqConcat
  <2> HIDE DEF y
  <2>4. ASSUME NEW c \in 1..(1 + ForsHeight) PROVE y[c] = ForsCell(k, q, t, x, c)
    <3>1. CASE c = 1
      BY <2>2, <2>3, <3>1 DEF ForsCell, first
    <3>2. CASE c # 1
      <4>1. c - 1 \in 1..ForsHeight /\ 1 + (c - 1) = c
        BY <1>3, <3>2
      <4>2. y[c] = A[c - 1]
        BY <2>3, <4>1
      <4> QED
        BY <3>2, <4>2 DEF ForsCell
    <3> QED
      BY <3>1, <3>2
  <2> QED
    BY <2>3, <2>4 DEF IsForsCells, y
<1> QED
  BY <1>4, <1>5, <1>6, <1>7 DEF r

(* What fors_pk_from_sig does for one tree: it finds the root if it is given *)
(* what fors_sign would have given it, and only then.                        *)
IsForsRoot(r, k, q, t, x, y) ==
    /\ OfTree(q, r.addr)
    /\ r.root = ForsRoot(k, q, t)
          <=> \A c \in 1..(1 + ForsHeight) : y[c] = ForsCell(k, q, t, x, c)

LEMMA ForsRootLaw ==
    ASSUME NEW k, NEW q, IsForsQ(q), NEW a, OfTree(q, a), NEW t \in Nat,
           NEW x \in 0..(TwoTo[ForsHeight] - 1), NEW y, IsSeq(y), Len(y) = 1 + ForsHeight
    PROVE  IsForsRoot(ForsRootFromSig(t, x, y, k, a), k, q, t, x, y)
<1> DEFINE o == OpenedAddr(a, t, x)
           off == IdxOffset(t)
           A == ForsAuth(k, q, t, x)
           lf == ForsLeaf(k, q)
           v == ForsSkToLeaf(y[1], k, o)
           r == ForsRootFromSig(t, x, y, k, a)
           b == NodeAt(q, 0, x + off)
<1>1. o = b /\ OfTree(q, o)
  BY OpenedLaw
<1>2. off \in Nat /\ ForsHeight \in Nat \ {0}
  BY OffsetNat
<1>3. IsOffset(ForsHeight, off)
  BY <1>2, OffsetLaw DEF IdxOffset, IsOffset
<1>4. r = ComputeRootResult(v, x, off, Tail(y), ForsHeight, k, o)
  BY DEF ForsRootFromSig
<1>5. IsSeq(Tail(y)) /\ Len(Tail(y)) = ForsHeight /\ \A c \in 1..ForsHeight : Tail(y)[c] = y[c + 1]
  <2>1. Len(y) = ForsHeight + 1
    BY <1>2
  <2> QED
    BY <1>2, <2>1, SeqTail
<1>6. x + off \in Nat
  <2>1. x \in Nat
    BY <1>2, TwoToLaw
  <2> QED
    BY <1>2, <2>1
<1>7. lf[x + off] = Thash(k, b, <<Prf(k, b)>>)
  BY <1>6 DEF ForsLeaf
<1>8. v = Thash(k, b, <<y[1]>>)
  BY <1>1 DEF ForsSkToLeaf
<1>9. v = lf[x + off] <=> y[1] = Prf(k, b)
  BY <1>7, <1>8, ThashInjective
<1> HIDE DEF o, off, lf, v, r, b
<1>10. /\ OfTree(q, r.addr)
       /\ r.root = RootOf(lf, k, q, ForsHeight, off)
             <=> v = lf[x + off] /\ IsAuth(Tail(y), lf, k, q, ForsHeight, off, x)
  BY <1>1, <1>2, <1>3, <1>4, ComputeRootLaw, SMTT(20)
<1>11. /\ RootOf(lf, k, q, ForsHeight, off) = ForsRoot(k, q, t)
       /\ IsAuth(Tail(y), lf, k, q, ForsHeight, off, x) <=> \A h \in 1..ForsHeight : Tail(y)[h] = A[h]
  BY DEF lf, off, ForsRoot, ForsAuth, IsAuth
<1> HIDE DEF A
<1>12. (\A c \in 1..(1 + ForsHeight) : y[c] = ForsCell(k, q, t, x, c))
          <=> y[1] = Prf(k, b) /\ \A h \in 1..ForsHeight : y[h + 1] = A[h]
  <2>1. ForsCell(k, q, t, x, 1) = Prf(k, b)
    BY DEF ForsCell, b, off
  <2>2. \A h \in 1..ForsHeight : ForsCell(k, q, t, x, h + 1) = A[h] /\ h + 1 \in 1..(1 + ForsHeight)
    BY <1>2 DEF ForsCell, A
  <2>3. \A c \in 1..(1 + ForsHeight) : c = 1 \/ (c - 1 \in 1..ForsHeight /\ (c - 1) + 1 = c)
    BY <1>2
  <2>4. 1 \in 1..(1 + ForsHeight)
    BY <1>2
  <2> QED
    BY <2>1, <2>2, <2>3, <2>4
<1>13. (\A h \in 1..ForsHeight : Tail(y)[h] = A[h]) <=> \A h \in 1..ForsHeight : y[h + 1] = A[h]
  BY <1>5
<1> QED
  BY <1>9, <1>10, <1>11, <1>12, <1>13 DEF r, IsForsRoot

(* Two addresses of a tree at height 0 are equal only for the same leaf. *)
LEMMA NodeIndex ==
    ASSUME NEW q, NEW p, NEW g \in Nat, NEW h \in Nat, NodeAt(q, 0, g) = NodeAt(p, 0, h)
    PROVE  g = h
<1>1. g \div 256 = h \div 256 /\ Byte(g) = Byte(h)
  BY DEF NodeAt, TreeAddr
<1> QED
  BY <1>1 DEF Byte

(* One cell of two that a FORS tree has in a signature tells which leaf it is *)
(* that is opened.                                                           *)
LEMMA ForsCellTells ==
    ASSUME NEW k, NEW q, NEW t \in Nat, NEW x \in Nat, NEW z \in Nat,
           NEW c \in 1..2, ForsCell(k, q, t, x, c) = ForsCell(k, q, t, z, c)
    PROVE  x = z
<1> DEFINE off == IdxOffset(t)
           lf == ForsLeaf(k, q)
           n == TreeOf(lf, k, q, ForsHeight)
<1>1. off \in Nat /\ ForsHeight \in Nat \ {0}
  BY OffsetNat
<1>2. CASE c = 1
  <2>1. Prf(k, NodeAt(q, 0, x + off)) = Prf(k, NodeAt(q, 0, z + off))
    BY <1>2 DEF ForsCell
  <2>2. NodeAt(q, 0, x + off) = NodeAt(q, 0, z + off)
    BY <2>1 DEF Prf
  <2>3. x + off \in Nat /\ z + off \in Nat
    BY <1>1
  <2> HIDE DEF off
  <2>4. x + off = z + off
    BY <2>2, <2>3, NodeIndex
  <2> QED
    BY <1>1, <2>4
<1>3. CASE c = 2
  <2>1. ForsAuth(k, q, t, x)[1] = ForsAuth(k, q, t, z)[1]
    BY <1>3 DEF ForsCell
  <2>2. TwoTo[0] = 1 /\ x \div 1 = x /\ z \div 1 = z /\ off \div 1 = off
    BY <1>1, TwoToLaw
  <2>3. 1 \in 1..ForsHeight /\ 1 - 1 = 0
    BY <1>1
  <2>4. /\ ForsAuth(k, q, t, x)[1] = n[0][Neighbour(x) + off]
        /\ ForsAuth(k, q, t, z)[1] = n[0][Neighbour(z) + off]
    BY <2>2, <2>3 DEF ForsAuth, AuthOf
  <2>5. \A g \in Nat : n[0][g] = lf[g]
    BY <1>1, TreeLaw
  <2> DEFINE u == Neighbour(x) + off
             w == Neighbour(z) + off
  <2>6. u \in Nat /\ w \in Nat
    <3>1. Neighbour(x) \in Nat /\ Neighbour(z) \in Nat
      BY DEF Neighbour
    <3> QED
      BY <1>1, <3>1
  <2> HIDE DEF u, w, n, off
  <2>7. lf[u] = lf[w]
    BY <2>1, <2>4, <2>5, <2>6 DEF u, w
  <2>8. Thash(k, NodeAt(q, 0, u), <<Prf(k, NodeAt(q, 0, u))>>) = Thash(k, NodeAt(q, 0, w), <<Prf(k, NodeAt(q, 0, w))>>)
    BY <2>6, <2>7 DEF ForsLeaf
  <2>9. u = w
    BY <2>6, <2>8, ThashInjective, NodeIndex
  <2>10. Neighbour(x) = Neighbour(z)
    <3>1. Neighbour(x) \in Nat /\ Neighbour(z) \in Nat
      BY DEF Neighbour
    <3> QED
      BY <1>1, <2>9, <3>1 DEF u, w
  <2> QED
    BY <2>10 DEF Neighbour
<1> QED
  BY <1>2, <1>3

-------------------------------------------------------------------------------
(* The trees of the layers. *)
LayerQ(l, t) == [layer |-> l, tree |-> t, type |-> HASHTREE, kp1 |-> 0]
KpOf(k, l, t, g) == [sk |-> k, seeded |-> k, layer |-> l, tree |-> t, kp1 |-> Byte(g)]
PkAddr(l, t, g) == AddrOf(l, t, WOTSPK, Byte(g), 0, 0, 0)

KeyOf(kp) == [c \in 1..WotsLen |-> Chain(kp, c)[W - 1]]

LayerLeaf(k, l, t) == [g \in Nat |-> Thash(k, PkAddr(l, t, g), KeyOf(KpOf(k, l, t, g)))]
LayerRoot(k, l, t) == RootOf(LayerLeaf(k, l, t), k, LayerQ(l, t), TreeHeight, 0)
LayerAuth(k, l, t, x) == AuthOf(LayerLeaf(k, l, t), k, LayerQ(l, t), TreeHeight, 0, x)

(* A cell of the signature of layer l, made by leaf x of tree t, of bytes b. *)
LayerCell(k, l, t, x, b, c) ==
    IF c <= WotsLen THEN Chain(KpOf(k, l, t, x), c)[ChainLengths(b)[c]]
    ELSE LayerAuth(k, l, t, x)[c - WotsLen]

(* The fields of a WOTS address, *)
LEMMA KpFields ==
    ASSUME NEW k, NEW l, NEW t, NEW g
    PROVE  /\ SkSeedOf(KpOf(k, l, t, g)) = k /\ SeededOf(KpOf(k, l, t, g)) = k
           /\ \A c, h : At(KpOf(k, l, t, g), c, h) = AddrOf(l, t, WOTS, Byte(g), c, 0, h)
BY DEF SkSeedOf, SeededOf, KpOf, At, AddrOf

(* of one in a tree, *)
LEMMA TreeFields ==
    ASSUME NEW l, NEW t
    PROVE  \A x, y, z : TreeAddr(LayerQ(l, t), x, y, z) = AddrOf(l, t, HASHTREE, 0, x, y, z)
BY DEF TreeAddr, LayerQ, AddrOf

(* and of one that is written out. *)
LEMMA FieldsOf ==
    ASSUME NEW a1, NEW a2, NEW a3, NEW a4, NEW a5, NEW a6, NEW a7
    PROVE  LET a == AddrOf(a1, a2, a3, a4, a5, a6, a7)
           IN  a.layer = a1 /\ a.tree = a2 /\ a.kp1 = a4
BY DEF AddrOf

(* wots_gen_leaf makes the leaves of the tree, whatever address it is given of it. *)
LEMMA LayerLeafLaw ==
    ASSUME NEW k, NEW l, NEW t, NEW a, OfTree(LayerQ(l, t), a)
    PROVE  [g \in Nat |-> WotsGenLeaf(k, k, g, a)] = LayerLeaf(k, l, t)
<1>1. PICK x, y, z : a = AddrOf(l, t, HASHTREE, 0, x, y, z)
  BY TreeFields DEF OfTree
<1>2. a.layer = l /\ a.tree = t
  BY <1>1, FieldsOf
<1>3. SetType(ZeroAddr, WOTS) = AddrOf(0, 0, WOTS, 0, 0, 0, 0)
      /\ SetType(ZeroAddr, WOTSPK) = AddrOf(0, 0, WOTSPK, 0, 0, 0, 0)
  BY ZeroFields, SetterFields, TypeBytes
<1>4. ASSUME NEW g \in Nat
      PROVE  WotsGenLeaf(k, k, g, a) = Thash(k, PkAddr(l, t, g), KeyOf(KpOf(k, l, t, g)))
  <2> DEFINE kq == SetKeypair(CopySubtree(SetType(ZeroAddr, WOTS), a), g)
             kp == KpOf(k, l, t, g)
             pk == CopyKeypair(SetType(ZeroAddr, WOTSPK), kq)
  <2>1. CopySubtree(SetType(ZeroAddr, WOTS), a) = AddrOf(l, t, WOTS, 0, 0, 0, 0)
    BY <1>2, <1>3, CopyFields
  <2>2. kq = AddrOf(l, t, WOTS, Byte(g), 0, 0, 0)
    BY <2>1, SetterFields
  <2>3. kq.layer = l /\ kq.tree = t /\ kq.kp1 = Byte(g)
    BY <2>2, FieldsOf
  <2>4. OfKey(kp, kq)
    <3>1. At(kp, 0, 0) = kq
      BY <2>2, KpFields
    <3> QED
      BY <3>1 DEF OfKey
  <2> HIDE DEF kq
  <2>5. pk = PkAddr(l, t, g)
    BY <1>3, <2>3, CopyFields DEF PkAddr
  <2> HIDE DEF kp, pk
  <2>6. SkSeedOf(kp) = k /\ SeededOf(kp) = k
    BY KpFields DEF kp
  <2>7. WotsGenPk(k, k, kq).out = KeyOf(kp)
    <3>1. IsKey(kp, WotsGenPk(SkSeedOf(kp), SeededOf(kp), kq).out)
      BY <2>4, GenPkOut
    <3> QED
      BY <2>6, <3>1 DEF IsKey, KeyOf
  <2>8. WotsGenLeaf(k, k, g, a) = Thash(k, pk, WotsGenPk(k, k, kq).out)
    BY DEF WotsGenLeaf, kq, pk
  <2> QED
    BY <2>5, <2>7, <2>8 DEF kp
<1> QED
  BY <1>4 DEF LayerLeaf

(* The cells of a layer. *)
LEMMA HeightNat == TreeHeight \in Nat \ {0} /\ WotsLen \in Nat /\ LayerCells = WotsLen + TreeHeight /\ LayerCells \in Nat
<1>1. TreeHeight \in Nat \ {0}
  BY SchemeAssumption
<1> QED
  BY <1>1, Sizes DEF LayerCells

(* The trees of the layers begin at leaf 0. *)
LEMMA NoOffset == IsOffset(TreeHeight, 0) /\ TreeHeight \in Nat
<1>1. TreeHeight \in Nat
  BY HeightNat
<1>2. ASSUME NEW h \in 1..TreeHeight PROVE 0 \div TwoTo[h - 1] = 2 * (0 \div TwoTo[h])
  <2>1. TwoTo[h] \in Nat \ {0} /\ TwoTo[h - 1] \in Nat \ {0}
    BY TwoToLaw
  <2>2. 0 \div TwoTo[h] = 0 /\ 0 \div TwoTo[h - 1] = 0
    BY <2>1
  <2> QED
    BY <2>2
<1> QED
  BY <1>1, <1>2 DEF IsOffset

(* treehash on the leaves of a layer. *)
IsLayerTree(r, k, l, t, x) ==
    /\ r.root = LayerRoot(k, l, t)
    /\ r.auth = LayerAuth(k, l, t, x)
    /\ OfTree(LayerQ(l, t), r.addr)

LEMMA LayerTreeLaw ==
    ASSUME NEW k, NEW l, NEW t, NEW a, OfTree(LayerQ(l, t), a), NEW x
    PROVE  IsLayerTree(LayerTree(k, k, x, a), k, l, t, x)
<1> DEFINE lf == LayerLeaf(k, l, t)
           r == LayerTree(k, k, x, a)
<1>1. [g \in Nat |-> WotsGenLeaf(k, k, g, a)] = lf
  BY LayerLeafLaw
<1> HIDE DEF lf
<1>2. r = TreehashResult(lf, k, x, 0, TreeHeight, a)
  BY <1>1 DEF LayerTree
<1> HIDE DEF r
<1>3. 0 \in Nat /\ TreeHeight \in Nat
  BY HeightNat
<1> QED
  BY <1>2, <1>3, TreehashLaw DEF LayerRoot, LayerAuth, lf, r, IsLayerTree

IsLayerCells(y, k, l, t, x, b) ==
    IsSeq(y) /\ Len(y) = LayerCells /\ \A c \in 1..LayerCells : y[c] = LayerCell(k, l, t, x, b, c)

(* What crypto_sign_signature does in one layer. *)
IsLayerMade(w, h, k, l, t, x, b) ==
    /\ IsSeq(w.out) /\ IsSeq(h.auth)
    /\ IsLayerCells(w.out \o h.auth, k, l, t, x, b)
    /\ h.root = LayerRoot(k, l, t)
    /\ OfTree(LayerQ(l, t), h.addr)
    /\ OfKey(KpOf(k, l, t, x), w.addr)

LEMMA SignLayerLaw ==
    ASSUME NEW k, NEW l, NEW t, NEW x, NEW b \in Hashes,
           NEW wa, OfKey(KpOf(k, l, t, x), wa), NEW ta, OfTree(LayerQ(l, t), ta)
    PROVE  IsLayerMade(WotsSign(b, k, k, wa), LayerTree(k, k, x, ta), k, l, t, x, b)
<1> DEFINE w == WotsSign(b, k, k, wa)
           kp == KpOf(k, l, t, x)
           g == w.out
           A == LayerAuth(k, l, t, x)
           y == g \o A
<1> HIDE DEF w, kp, g, A, y
<1> DEFINE u == LayerTree(k, k, x, ta)
<1>1. IsLayerTree(u, k, l, t, x)
  BY LayerTreeLaw
<1> HIDE DEF u
<1>2. u.auth = A /\ u.root = LayerRoot(k, l, t) /\ OfTree(LayerQ(l, t), u.addr)
  BY <1>1 DEF A, IsLayerTree
<1>3. IsSignature(kp, g, b) /\ OfKey(kp, w.addr)
  <2>1. SkSeedOf(kp) = k /\ SeededOf(kp) = k /\ OfKey(kp, wa)
    BY KpFields DEF kp
  <2>2. b \in [1..N -> 0..255]
    BY DEF Hashes
  <2> QED
    BY <2>1, <2>2, SignOut DEF w, g
<1>4. TreeHeight \in Nat \ {0} /\ WotsLen \in Nat /\ LayerCells = WotsLen + TreeHeight /\ LayerCells \in Nat
  BY HeightNat
<1>5. IsSeq(A) /\ Len(A) = TreeHeight
  BY <1>4, SeqMade DEF LayerAuth, AuthOf, A
<1>6. IsSeq(g) /\ Len(g) = WotsLen /\ \A c \in 1..WotsLen : g[c] = Chain(kp, c)[ChainLengths(b)[c]]
  <2>1. g = [c \in 1..WotsLen |-> Chain(kp, c)[ChainLengths(b)[c]]]
    BY <1>3 DEF IsSignature
  <2> DEFINE v == [c \in 1..WotsLen |-> Chain(kp, c)[ChainLengths(b)[c]]]
  <2>2. \A c \in 1..WotsLen : v[c] = Chain(kp, c)[ChainLengths(b)[c]]
    OBVIOUS
  <2>3. v = [c \in 1..WotsLen |-> v[c]]
    OBVIOUS
  <2> HIDE DEF v, g
  <2>4. IsSeq(v) /\ Len(v) = WotsLen
    BY <1>4, <2>3, SeqMade
  <2> QED
    BY <2>1, <2>2, <2>4 DEF v
<1>7. /\ IsSeq(y) /\ Len(y) = WotsLen + TreeHeight
      /\ \A c \in 1..WotsLen : y[c] = g[c]
      /\ \A c \in 1..TreeHeight : y[WotsLen + c] = A[c]
  <2>1. IsSeq(g) /\ Len(g) = WotsLen /\ IsSeq(A) /\ Len(A) = TreeHeight
    BY <1>5, <1>6
  <2>2. IsSeq(g \o A) /\ Len(g \o A) = Len(g) + Len(A)
    BY <2>1, SeqConcat
  <2>3. \A c \in 1..Len(g) : (g \o A)[c] = g[c]
    BY <2>1, SeqConcat
  <2>4. \A c \in 1..Len(A) : (g \o A)[Len(g) + c] = A[c]
    BY <2>1, SeqConcat
  <2> QED
    BY <2>1, <2>2, <2>3, <2>4 DEF y
<1>8. ASSUME NEW c \in 1..LayerCells PROVE y[c] = LayerCell(k, l, t, x, b, c)
  <2>1. CASE c <= WotsLen
    <3>1. c \in 1..WotsLen
      BY <1>4, <2>1
    <3>2. y[c] = Chain(kp, c)[ChainLengths(b)[c]]
      BY <1>6, <1>7, <3>1
    <3> QED
      BY <2>1, <3>2 DEF LayerCell, kp
  <2>2. CASE ~(c <= WotsLen)
    <3>1. c - WotsLen \in 1..TreeHeight /\ WotsLen + (c - WotsLen) = c
      BY <1>4, <2>2
    <3>2. y[c] = A[c - WotsLen]
      BY <1>7, <3>1
    <3> QED
      BY <2>2, <3>2 DEF LayerCell, A
  <2> QED
    BY <2>1, <2>2
<1>9. IsLayerCells(y, k, l, t, x, b)
  BY <1>4, <1>7, <1>8 DEF IsLayerCells
<1> QED
  <2>1. IsSeq(w.out) /\ IsSeq(u.auth) /\ IsLayerCells(w.out \o u.auth, k, l, t, x, b)
    BY <1>2, <1>5, <1>6, <1>9 DEF y, g
  <2>2. OfKey(KpOf(k, l, t, x), w.addr)
    BY <1>3 DEF kp
  <2>3. IsLayerMade(w, u, k, l, t, x, b)
    BY <1>2, <2>1, <2>2 DEF IsLayerMade
  <2> QED
    BY <2>3 DEF w, u

(* What crypto_sign_verify does in one layer: it finds the root of the tree  *)
(* if it is given what crypto_sign_signature would have made, and only then. *)
IsLayerRoot(r, w, k, l, t, x, b, y) ==
    /\ r.root = LayerRoot(k, l, t)
          <=> \A c \in 1..LayerCells : y[c] = LayerCell(k, l, t, x, b, c)
    /\ OfTree(LayerQ(l, t), r.addr)
    /\ OfKey(KpOf(k, l, t, x), w.addr)

LEMMA VerifyLayerLaw ==
    ASSUME NEW k, NEW l, NEW t, NEW x \in 0..(TwoTo[TreeHeight] - 1), NEW b \in Hashes,
           NEW wa, OfKey(KpOf(k, l, t, x), wa), NEW ta, OfTree(LayerQ(l, t), ta),
           NEW y, IsSeq(y), Len(y) = LayerCells
    PROVE  LET w    == WotsPkFromSig(y, b, k, wa)
               leaf == Thash(k, WotsPkAddr(wa), w.out)
               r    == ComputeRootResult(leaf, x, 0, SubSeq(y, WotsLen + 1, LayerCells),
                                         TreeHeight, k, ta)
           IN  IsLayerRoot(r, w, k, l, t, x, b, y)
<1> DEFINE w == WotsPkFromSig(y, b, k, wa)
           kp == KpOf(k, l, t, x)
           g == w.out
           v == Thash(k, WotsPkAddr(wa), g)
           z == SubSeq(y, WotsLen + 1, LayerCells)
           lf == LayerLeaf(k, l, t)
           A == LayerAuth(k, l, t, x)
           r == ComputeRootResult(v, x, 0, z, TreeHeight, k, ta)
           q == LayerQ(l, t)
<1>1. TreeHeight \in Nat \ {0} /\ WotsLen \in Nat /\ LayerCells = WotsLen + TreeHeight /\ LayerCells \in Nat
  BY HeightNat
<1>2. x \in Nat /\ x + 0 = x
  BY <1>1, TwoToLaw
<1>3. IsRecovered(kp, g, y, b) /\ OfKey(kp, w.addr)
  <2>1. SkSeedOf(kp) = k /\ SeededOf(kp) = k /\ OfKey(kp, wa)
    BY KpFields
  <2>2. b \in [1..N -> 0..255]
    BY DEF Hashes
  <2> HIDE DEF kp
  <2>3. IsRecovered(kp, WotsPkFromSig(y, b, SeededOf(kp), wa).out, y, b)
        /\ OfKey(kp, WotsPkFromSig(y, b, SeededOf(kp), wa).addr)
    BY <2>1, <2>2, RecoverOut
  <2> QED
    BY <2>1, <2>3
<1>4. WotsPkAddr(wa) = PkAddr(l, t, x)
  <2>1. PICK c, h : wa = AddrOf(l, t, WOTS, Byte(x), c, 0, h)
    BY KpFields DEF OfKey
  <2>2. wa.layer = l /\ wa.tree = t /\ wa.kp1 = Byte(x)
    BY <2>1, FieldsOf
  <2>3. SetType(ZeroAddr, WOTSPK) = AddrOf(0, 0, WOTSPK, 0, 0, 0, 0)
    BY ZeroFields, SetterFields, TypeBytes
  <2> QED
    BY <2>2, <2>3, CopyFields DEF WotsPkAddr, PkAddr
<1>5. lf[x] = Thash(k, PkAddr(l, t, x), KeyOf(kp))
  BY <1>2 DEF LayerLeaf
<1>6. v = lf[x] <=> g = KeyOf(kp)
  BY <1>4, <1>5 DEF Thash
<1>7. g = KeyOf(kp) <=> \A c \in 1..WotsLen : y[c] = Chain(kp, c)[ChainLengths(b)[c]]
  <2>1. W \in Nat /\ W > 0
    BY Sizes
  <2>2. g = [c \in 1..WotsLen |-> End(kp, Byte(c - 1), y[c], ChainLengths(b)[c], W - 1)]
    BY <1>3 DEF IsRecovered
  <2>3. g = KeyOf(kp) <=> \A c \in 1..WotsLen : End(kp, Byte(c - 1), y[c], ChainLengths(b)[c], W - 1) = Chain(kp, c)[W - 1]
    <3> DEFINE u == [c \in 1..WotsLen |-> End(kp, Byte(c - 1), y[c], ChainLengths(b)[c], W - 1)]
               s == KeyOf(kp)
    <3>1. \A c \in 1..WotsLen : s[c] = Chain(kp, c)[W - 1]
      BY DEF KeyOf
    <3>2. s = [c \in 1..WotsLen |-> s[c]]
      BY DEF KeyOf
    <3>3. \A c \in 1..WotsLen : u[c] = End(kp, Byte(c - 1), y[c], ChainLengths(b)[c], W - 1)
      OBVIOUS
    <3>4. u = [c \in 1..WotsLen |-> u[c]]
      OBVIOUS
    <3> HIDE DEF u, s
    <3>5. u = s <=> \A c \in 1..WotsLen : u[c] = s[c]
      BY <3>2, <3>4
    <3> QED
      BY <2>2, <3>1, <3>3, <3>5 DEF u, s
  <2>4. ASSUME NEW c \in 1..WotsLen
        PROVE  End(kp, Byte(c - 1), y[c], ChainLengths(b)[c], W - 1) = Chain(kp, c)[W - 1]
                  <=> y[c] = Chain(kp, c)[ChainLengths(b)[c]]
    <3> DEFINE e == Byte(c - 1)
               a == ChainLengths(b)[c]
    <3>1. a \in 0..(W - 1)
      BY LengthsInRange DEF Hashes
    <3>2. W - 1 \in a..(W - 1)
      BY <2>1, <3>1
    <3> HIDE DEF e, a, kp
    <3>3. y[c] = Whole(kp, e)[a] => End(kp, e, y[c], a, W - 1) = Whole(kp, e)[W - 1]
      BY <3>1, <3>2, EndOnChain
    <3>4. End(kp, e, y[c], a, W - 1) = Whole(kp, e)[W - 1] => y[c] = Whole(kp, e)[a]
      BY <3>1, OnlyChainEnds
    <3> QED
      BY <3>3, <3>4 DEF Chain, e, a
  <2> QED
    BY <2>3, <2>4
<1>8. IsSeq(z) /\ Len(z) = TreeHeight /\ \A c \in 1..TreeHeight : z[c] = y[WotsLen + c]
  <2> DEFINE s == SubSeq(y, WotsLen + 1, WotsLen + TreeHeight)
  <2>1. WotsLen + TreeHeight = LayerCells /\ WotsLen + TreeHeight <= Len(y) /\ WotsLen \in Nat /\ TreeHeight \in Nat
    BY <1>1
  <2>2. IsSeq(s) /\ Len(s) = TreeHeight
    BY <2>1, SeqPart
  <2>3. \A c \in 1..TreeHeight : s[c] = y[WotsLen + c]
    BY <2>1, SeqPart
  <2>4. z = s
    BY <2>1
  <2> HIDE DEF s, z
  <2> QED
    BY <2>2, <2>3, <2>4
<1> HIDE DEF v, z, lf, r, g, A
<1>9. OfTree(q, r.addr) /\ (r.root = RootOf(lf, k, q, TreeHeight, 0)
                               <=> v = lf[x + 0] /\ IsAuth(z, lf, k, q, TreeHeight, 0, x))
  <2> HIDE DEF q
  <2>1. IsOffset(TreeHeight, 0) /\ TreeHeight \in Nat /\ OfTree(q, ta)
    BY NoOffset DEF q
  <2> QED
    BY <2>1, ComputeRootLaw, ZenonT(40) DEF r
<1>10. RootOf(lf, k, q, TreeHeight, 0) = LayerRoot(k, l, t)
       /\ (IsAuth(z, lf, k, q, TreeHeight, 0, x) <=> \A c \in 1..TreeHeight : z[c] = A[c])
  BY DEF lf, LayerRoot, LayerAuth, IsAuth, A
<1>11. (\A c \in 1..LayerCells : y[c] = LayerCell(k, l, t, x, b, c))
          <=> /\ \A c \in 1..WotsLen : y[c] = Chain(kp, c)[ChainLengths(b)[c]]
              /\ \A c \in 1..TreeHeight : y[WotsLen + c] = A[c]
  <2>1. \A c \in 1..WotsLen : c <= WotsLen /\ c \in 1..LayerCells
    BY <1>1
  <2>2. \A c \in 1..TreeHeight : ~(WotsLen + c <= WotsLen) /\ WotsLen + c \in 1..LayerCells /\ (WotsLen + c) - WotsLen = c
    BY <1>1
  <2>3. \A c \in 1..WotsLen : LayerCell(k, l, t, x, b, c) = Chain(kp, c)[ChainLengths(b)[c]]
    BY <2>1 DEF LayerCell
  <2>4. \A c \in 1..TreeHeight : LayerCell(k, l, t, x, b, WotsLen + c) = A[c]
    BY <2>2 DEF LayerCell, A
  <2>5. \A c \in 1..LayerCells : c \in 1..WotsLen \/ (c - WotsLen \in 1..TreeHeight /\ WotsLen + (c - WotsLen) = c)
    BY <1>1
  <2> QED
    BY <2>1, <2>2, <2>3, <2>4, <2>5
<1>12. (\A c \in 1..TreeHeight : z[c] = A[c]) <=> \A c \in 1..TreeHeight : y[WotsLen + c] = A[c]
  BY <1>8
<1> QED
  BY <1>2, <1>3, <1>6, <1>7, <1>9, <1>10, <1>11, <1>12 DEF r, v, z, g, IsLayerRoot

-------------------------------------------------------------------------------
(* The indices of FORS. *)
MHashes == {h \in [1..ForsMsgBytes -> 0..255] : h[ForsMsgBytes] < TwoTo[LastBits]}
ForsBits == ForsTrees * ForsHeight

IsLow(n, m, t) ==
    n = [j \in 0..ForsHeight |->
            IF j = 0 THEN 0
            ELSE n[j - 1] + MessageBit(m, t * ForsHeight + j - 1) * TwoTo[j - 1]]

(* The inner loop of message_to_indices has a result. *)
LEMMA LowExists ==
    ASSUME NEW m, NEW t
    PROVE  \E n : IsLow(n, m, t)
<1> DEFINE E(v, j) == v + MessageBit(m, t * ForsHeight + j - 1) * TwoTo[j - 1]
           Is(n, l) == n = [j \in 0..l |-> IF j = 0 THEN 0 ELSE E(n[j - 1], j)]
           T == {l \in Nat : \E n : Is(n, l)}
<1> HIDE DEF E
<1>1. 0 \in T
  <2>1. Is([j \in 0..0 |-> 0], 0)
    OBVIOUS
  <2> HIDE DEF Is
  <2> QED
    BY <2>1
<1>2. ASSUME NEW l \in T PROVE l + 1 \in T
  <2>1. PICK o : Is(o, l)
    OBVIOUS
  <2> DEFINE n == [j \in 0..(l + 1) |-> IF j = l + 1 THEN E(o[l], l + 1) ELSE o[j]]
  <2>2. \A j \in 0..(l + 1) : n[j] = IF j = 0 THEN 0 ELSE E(n[j - 1], j)
    <3> SUFFICES ASSUME NEW j \in 0..(l + 1)
                 PROVE  n[j] = IF j = 0 THEN 0 ELSE E(n[j - 1], j)
      OBVIOUS
    <3>1. l \in Nat
      OBVIOUS
    <3>2. CASE j = l + 1
      <4>1. n[j] = E(o[l], l + 1) /\ n[j - 1] = o[l] /\ j # 0
        BY <3>1, <3>2
      <4> QED
        BY <3>2, <4>1
    <3>3. CASE j # l + 1
      <4>1. j \in 0..l /\ n[j] = o[j] /\ (j # 0 => n[j - 1] = o[j - 1])
        BY <3>1, <3>3
      <4>2. o[j] = IF j = 0 THEN 0 ELSE E(o[j - 1], j)
        BY <2>1, <4>1
      <4> QED
        BY <4>1, <4>2
    <3> QED
      BY <3>2, <3>3
  <2>3. n = [j \in 0..(l + 1) |-> n[j]]
    OBVIOUS
  <2> HIDE DEF n
  <2>4. Is(n, l + 1)
    BY <2>2, <2>3
  <2>5. l + 1 \in Nat
    OBVIOUS
  <2> HIDE DEF Is
  <2> QED
    BY <2>4, <2>5
<1>3. T = Nat
  <2>1. T \subseteq Nat
    OBVIOUS
  <2> HIDE DEF T
  <2> QED
    BY <1>1, <1>2, <2>1, NatInd
<1>4. ForsHeight \in Nat
  BY SchemeAssumption
<1>5. \E n : Is(n, ForsHeight)
  <2> HIDE DEF Is
  <2> QED
    BY <1>3, <1>4
<1> QED
  BY <1>5 DEF IsLow, E

(* The offset of a bit, and the byte it lies in. *)
LEMMA ForsSizes ==
    /\ ForsTrees \in Nat \ {0} /\ ForsHeight \in Nat \ {0} /\ ForsBits \in Nat \ {0}
    /\ ForsMsgBytes \in Nat \ {0} /\ LastBits \in 1..8
    /\ ForsBits = 8 * (ForsMsgBytes - 1) + LastBits
<1>1. ForsTrees \in Nat \ {0} /\ ForsHeight \in Nat \ {0}
  BY SchemeAssumption
<1>2. ForsBits \in Nat \ {0}
  BY <1>1 DEF ForsBits
<1>3. ForsMsgBytes = (ForsBits + 7) \div 8 /\ LastBits = ForsBits - 8 * (ForsMsgBytes - 1)
  BY DEF ForsMsgBytes, LastBits, ForsBits
<1> QED
  BY <1>1, <1>2, <1>3

(* Cutting n times h things into n pieces of h. *)
LEMMA CutIn ==
    ASSUME NEW n \in Nat, NEW h \in Nat \ {0}, NEW t \in 0..(n - 1), NEW j \in 1..h
    PROVE  t * h \in Nat /\ n * h \in Nat /\ t * h + j \in 1..(n * h)
<1>1. t * h \in Nat /\ n * h \in Nat /\ t * h + h <= n * h
  <2>1. n - 1 - t \in Nat
    OBVIOUS
  <2>2. (n - 1 - t) * h \in Nat
    BY <2>1
  <2>3. n * h = t * h + h + (n - 1 - t) * h
    OBVIOUS
  <2>4. t * h \in Nat /\ n * h \in Nat
    OBVIOUS
  <2> QED
    BY <2>2, <2>3, <2>4
<1> DEFINE a == t * h
           b == n * h
<1>2. a \in Nat /\ a + h <= b /\ b \in Nat
  BY <1>1
<1> HIDE DEF a, b
<1>3. a + j \in 1..b
  BY <1>2
<1> QED
  BY <1>2, <1>3 DEF a, b

(* Every one of them lies in a piece. *)
LEMMA CutOf ==
    ASSUME NEW n \in Nat, NEW h \in Nat \ {0}, NEW o \in 1..(n * h)
    PROVE  \E t \in 0..(n - 1), j \in 1..h : o = t * h + j
<1> DEFINE t == (o - 1) \div h
           r == (o - 1) % h
<1>1. o - 1 \in Nat /\ o <= n * h /\ n * h \in Nat
  OBVIOUS
<1>2. t \in Nat /\ r \in 0..(h - 1) /\ o - 1 = h * t + r
  BY <1>1
<1> HIDE DEF t, r
<1>3. h * t = t * h /\ t * h \in Nat
  BY <1>2
<1>4. t < n
  <2> SUFFICES ASSUME t >= n PROVE FALSE
    BY <1>2
  <2>1. (t - n) * h \in Nat /\ t * h = n * h + (t - n) * h
    BY <1>2
  <2> DEFINE a == n * h
             b == (t - n) * h
             c == t * h
  <2>2. b \in Nat /\ c = a + b /\ o <= a /\ o - 1 = c + r /\ a \in Nat
    BY <1>1, <1>2, <1>3, <2>1
  <2> HIDE DEF a, b, c
  <2> QED
    BY <1>2, <2>2
<1>5. t \in 0..(n - 1) /\ r + 1 \in 1..h /\ o = t * h + (r + 1)
  <2> DEFINE c == t * h
  <2>1. c \in Nat /\ o - 1 = c + r
    BY <1>2, <1>3
  <2> HIDE DEF c
  <2>2. o = c + (r + 1)
    BY <1>2, <2>1
  <2> QED
    BY <1>2, <1>4, <2>2 DEF c
<1> QED
  BY <1>5

(* The bits of the indices are bits of the message, *)
LEMMA BitOffset ==
    ASSUME NEW t \in 0..(ForsTrees - 1), NEW j \in 1..ForsHeight
    PROVE  t * ForsHeight + j - 1 \in 0..(ForsBits - 1)
<1> DEFINE a == t * ForsHeight
           b == ForsTrees * ForsHeight
<1>1. a \in Nat /\ b \in Nat /\ a + j \in 1..b
  BY ForsSizes, CutIn
<1> HIDE DEF a, b
<1>2. a + j - 1 \in 0..(b - 1)
  BY <1>1
<1> QED
  BY <1>2 DEF a, b, ForsBits

(* and all of them. *)
LEMMA OffsetOf ==
    ASSUME NEW o \in 0..(ForsBits - 1)
    PROVE  \E t \in 0..(ForsTrees - 1), j \in 1..ForsHeight : o = t * ForsHeight + j - 1
<1>1. o + 1 \in 1..(ForsTrees * ForsHeight)
  BY ForsSizes DEF ForsBits
<1>2. PICK t \in 0..(ForsTrees - 1), j \in 1..ForsHeight : o + 1 = t * ForsHeight + j
  BY <1>1, ForsSizes, CutOf, ZenonT(40)
<1>3. o = t * ForsHeight + j - 1
  <2> DEFINE a == t * ForsHeight
  <2>1. a \in Nat /\ o + 1 = a + j /\ o \in Nat
    BY <1>2, ForsSizes
  <2> HIDE DEF a
  <2>2. o = a + j - 1
    BY <2>1
  <2> QED
    BY <2>2 DEF a
<1> QED
  BY <1>3

(* A bit is 0 or 1. *)
LEMMA BitNat ==
    ASSUME NEW m \in MHashes, NEW o \in 0..(ForsBits - 1)
    PROVE  MessageBit(m, o) \in 0..1
<1>1. o \div 8 + 1 \in 1..ForsMsgBytes /\ o % 8 \in Nat
  BY ForsSizes
<1>2. m[o \div 8 + 1] \in Nat
  <2>1. m \in [1..ForsMsgBytes -> 0..255]
    BY DEF MHashes
  <2>2. m[o \div 8 + 1] \in 0..255
    BY <1>1, <2>1
  <2> QED
    BY <2>2
<1>3. m[o \div 8 + 1] \div TwoTo[o % 8] \in Nat
  <2>1. TwoTo[o % 8] \in Nat \ {0}
    BY <1>1, TwoToLaw
  <2> QED
    BY <1>2, <2>1, DivNat
<1> QED
  BY <1>3 DEF MessageBit

(* What an index is, bit by bit. *)
LEMMA LowLaw ==
    ASSUME NEW m \in MHashes, NEW t \in 0..(ForsTrees - 1), NEW n, IsLow(n, m, t)
    PROVE  /\ n[0] = 0
           /\ \A j \in 1..ForsHeight : n[j] = n[j - 1] + MessageBit(m, t * ForsHeight + j - 1) * TwoTo[j - 1]
           /\ \A j \in 0..ForsHeight : n[j] \in 0..(TwoTo[j] - 1)
<1> DEFINE B(j) == MessageBit(m, t * ForsHeight + j - 1)
           T == {j \in Nat : j <= ForsHeight => n[j] \in 0..(TwoTo[j] - 1)}
<1>1. ForsHeight \in Nat \ {0}
  BY ForsSizes
<1>2. \A j \in 1..ForsHeight : B(j) \in 0..1
  BY BitOffset, BitNat
<1> HIDE DEF B
<1>3. \A j \in 0..ForsHeight : n[j] = IF j = 0 THEN 0 ELSE n[j - 1] + B(j) * TwoTo[j - 1]
  BY DEF IsLow, B
<1>4. n[0] = 0
  BY <1>1, <1>3
<1>5. \A j \in 1..ForsHeight : n[j] = n[j - 1] + B(j) * TwoTo[j - 1]
  BY <1>3
<1>6. 0 \in T
  BY <1>4, TwoToLaw
<1>7. ASSUME NEW j \in T PROVE j + 1 \in T
  <2> SUFFICES ASSUME j + 1 <= ForsHeight PROVE n[j + 1] \in 0..(TwoTo[j + 1] - 1)
    OBVIOUS
  <2>1. j \in Nat /\ j + 1 \in 1..ForsHeight /\ (j + 1) - 1 = j /\ n[j] \in 0..(TwoTo[j] - 1)
    BY <1>1
  <2>2. n[j + 1] = n[j] + B(j + 1) * TwoTo[j] /\ B(j + 1) \in 0..1
    BY <1>2, <1>5, <2>1
  <2>3. TwoTo[j] \in Nat \ {0} /\ TwoTo[j + 1] = 2 * TwoTo[j]
    BY <2>1, TwoToLaw
  <2>4. B(j + 1) = 0 \/ B(j + 1) = 1
    BY <2>2
  <2> QED
    BY <2>1, <2>2, <2>3, <2>4
<1>8. T = Nat
  <2>1. T \subseteq Nat
    OBVIOUS
  <2> HIDE DEF T
  <2> QED
    BY <1>6, <1>7, <2>1, NatInd
<1>9. \A j \in 0..ForsHeight : n[j] \in 0..(TwoTo[j] - 1)
  BY <1>1, <1>8
<1> QED
  BY <1>4, <1>5, <1>9 DEF B

(* An index is the last of the numbers that the inner loop goes through. *)
LEMMA IndexOf ==
    ASSUME NEW m \in MHashes, NEW t \in 0..(ForsTrees - 1)
    PROVE  \E n : IsLow(n, m, t) /\ MessageToIndices(m)[t] = n[ForsHeight]
<1> DEFINE n == CHOOSE o : IsLow(o, m, t)
<1>1. MessageToIndices(m)[t] = n[ForsHeight]
  BY DEF MessageToIndices, IsLow
<1>2. IsLow(n, m, t)
  BY LowExists
<1> QED
  BY <1>1, <1>2

(* An index names a leaf of its tree. *)
LEMMA IndexRange ==
    ASSUME NEW m \in MHashes, NEW t \in 0..(ForsTrees - 1)
    PROVE  MessageToIndices(m)[t] \in 0..(TwoTo[ForsHeight] - 1)
<1>1. PICK n : IsLow(n, m, t) /\ MessageToIndices(m)[t] = n[ForsHeight]
  BY IndexOf
<1>2. ForsHeight \in 0..ForsHeight
  BY ForsSizes
<1> QED
  BY <1>1, <1>2, LowLaw

(* Equal indices have equal bits. *)
LEMMA IndexBits ==
    ASSUME NEW m \in MHashes, NEW o \in MHashes, NEW t \in 0..(ForsTrees - 1),
           MessageToIndices(m)[t] = MessageToIndices(o)[t]
    PROVE  \A j \in 1..ForsHeight :
              MessageBit(m, t * ForsHeight + j - 1) = MessageBit(o, t * ForsHeight + j - 1)
<1> DEFINE B(j) == MessageBit(m, t * ForsHeight + j - 1)
           C(j) == MessageBit(o, t * ForsHeight + j - 1)
<1>1. PICK n : IsLow(n, m, t) /\ MessageToIndices(m)[t] = n[ForsHeight]
  BY IndexOf
<1>2. PICK p : IsLow(p, o, t) /\ MessageToIndices(o)[t] = p[ForsHeight]
  BY IndexOf
<1>3. \A j \in 1..ForsHeight : B(j) \in 0..1 /\ C(j) \in 0..1
  BY BitOffset, BitNat
<1>4. /\ \A j \in 1..ForsHeight : n[j] = n[j - 1] + B(j) * TwoTo[j - 1]
      /\ \A j \in 0..ForsHeight : n[j] \in 0..(TwoTo[j] - 1)
  BY <1>1, LowLaw
<1>5. /\ \A j \in 1..ForsHeight : p[j] = p[j - 1] + C(j) * TwoTo[j - 1]
      /\ \A j \in 0..ForsHeight : p[j] \in 0..(TwoTo[j] - 1)
  BY <1>2, LowLaw
<1> HIDE DEF B, C
<1> DEFINE Same(j) == n[j] = p[j] => \A h \in 1..j : B(h) = C(h)
           T == {j \in Nat : j <= ForsHeight => Same(j)}
<1>6. 0 \in T
  OBVIOUS
<1>7. ASSUME NEW j \in T PROVE j + 1 \in T
  <2> SUFFICES ASSUME j + 1 <= ForsHeight, n[j + 1] = p[j + 1]
               PROVE  \A h \in 1..(j + 1) : B(h) = C(h)
    OBVIOUS
  <2>1. j \in Nat /\ j + 1 \in 1..ForsHeight /\ (j + 1) - 1 = j /\ j \in 0..ForsHeight /\ Same(j)
    BY ForsSizes
  <2>2. n[j + 1] = n[j] + B(j + 1) * TwoTo[j] /\ B(j + 1) \in 0..1 /\ n[j] \in 0..(TwoTo[j] - 1)
    BY <1>3, <1>4, <2>1
  <2>3. p[j + 1] = p[j] + C(j + 1) * TwoTo[j] /\ C(j + 1) \in 0..1 /\ p[j] \in 0..(TwoTo[j] - 1)
    BY <1>3, <1>5, <2>1
  <2>4. TwoTo[j] \in Nat \ {0}
    BY <2>1, TwoToLaw
  <2>5. B(j + 1) = C(j + 1) /\ n[j] = p[j]
    <3>1. (B(j + 1) = 0 \/ B(j + 1) = 1) /\ (C(j + 1) = 0 \/ C(j + 1) = 1)
      BY <2>2, <2>3
    <3> DEFINE P == TwoTo[j]
               b == B(j + 1)
               c == C(j + 1)
               e == n[j]
               f == p[j]
    <3>2. /\ b = 0 \/ b = 1
          /\ c = 0 \/ c = 1
          /\ e \in 0..(P - 1) /\ f \in 0..(P - 1) /\ P \in Nat \ {0}
          /\ e + b * P = f + c * P
      BY <2>2, <2>3, <2>4, <3>1
    <3> HIDE DEF P, b, c, e, f
    <3>3. (b = 0 => b * P = 0) /\ (b = 1 => b * P = P) /\ (c = 0 => c * P = 0) /\ (c = 1 => c * P = P)
      BY <3>2
    <3>4. b = c /\ e = f
      BY <3>2, <3>3
    <3> QED
      BY <3>4 DEF b, c, e, f
  <2>6. \A h \in 1..(j + 1) : h \in 1..j \/ h = j + 1
    BY <2>1
  <2> QED
    BY <2>1, <2>5, <2>6
<1>8. T = Nat
  <2>1. T \subseteq Nat
    OBVIOUS
  <2> HIDE DEF T
  <2> QED
    BY <1>6, <1>7, <2>1, NatInd
<1>9. Same(ForsHeight)
  <2>1. ForsHeight \in T /\ ForsHeight <= ForsHeight
    BY <1>8, ForsSizes
  <2> HIDE DEF Same
  <2> QED
    BY <2>1
<1> QED
  BY <1>1, <1>2, <1>9 DEF B, C

(* Numbers with the same bits are equal. *)
LEMMA BitsTell ==
    ASSUME NEW h \in Nat, NEW x \in Nat, NEW y \in Nat, x < TwoTo[h], y < TwoTo[h],
           \A r \in 0..(h - 1) : (x \div TwoTo[r]) % 2 = (y \div TwoTo[r]) % 2
    PROVE  x = y
<1> DEFINE Same(u, v, l) == \A r \in 0..(l - 1) : (u \div TwoTo[r]) % 2 = (v \div TwoTo[r]) % 2
           Good(l) == \A u, v \in Nat : u < TwoTo[l] /\ v < TwoTo[l] /\ Same(u, v, l) => u = v
           T == {l \in Nat : Good(l)}
<1>1. 0 \in T
  <2>1. TwoTo[0] = 1
    BY TwoToLaw
  <2> HIDE DEF Same
  <2>2. Good(0)
    BY <2>1
  <2> QED
    BY <2>2
<1>2. ASSUME NEW l \in T PROVE l + 1 \in T
  <2> SUFFICES ASSUME NEW u \in Nat, NEW v \in Nat, u < TwoTo[l + 1], v < TwoTo[l + 1],
                      Same(u, v, l + 1)
               PROVE  u = v
    OBVIOUS
  <2>1. l \in Nat /\ Good(l) /\ TwoTo[l + 1] = 2 * TwoTo[l] /\ TwoTo[l] \in Nat \ {0} /\ TwoTo[0] = 1
    BY TwoToLaw
  <2> DEFINE a == u \div 2
             b == v \div 2
  <2>2. a \in Nat /\ b \in Nat /\ a < TwoTo[l] /\ b < TwoTo[l]
    BY <2>1
  <2>3. ASSUME NEW r \in 0..(l - 1) PROVE (a \div TwoTo[r]) % 2 = (b \div TwoTo[r]) % 2
    <3>1. r \in Nat /\ r + 1 \in 0..((l + 1) - 1)
      BY <2>1
    <3>2. TwoTo[r + 1] = 2 * TwoTo[r] /\ TwoTo[r] \in Nat \ {0}
      BY <3>1, TwoToLaw
    <3>3. a \div TwoTo[r] = u \div TwoTo[r + 1] /\ b \div TwoTo[r] = v \div TwoTo[r + 1]
      <4> DEFINE P == TwoTo[r]
      <4>1. P \in Nat \ {0} /\ 2 \in Nat \ {0}
        BY <3>2
      <4> HIDE DEF P
      <4>2. a \div P = u \div (2 * P) /\ b \div P = v \div (2 * P)
        BY <4>1, DivDiv
      <4> QED
        BY <3>2, <4>2 DEF P
    <3>4. (u \div TwoTo[r + 1]) % 2 = (v \div TwoTo[r + 1]) % 2
      BY <3>1
    <3> QED
      BY <3>3, <3>4
  <2>4. u % 2 = v % 2
    <3>1. 0 \in 0..((l + 1) - 1)
      BY <2>1
    <3>2. (u \div TwoTo[0]) % 2 = (v \div TwoTo[0]) % 2
      BY <3>1
    <3>3. u \div 1 = u /\ v \div 1 = v
      OBVIOUS
    <3> QED
      BY <2>1, <3>2, <3>3
  <2>5. a = b
    <3>1. Same(a, b, l)
      BY <2>3
    <3> HIDE DEF Same, a, b
    <3> QED
      BY <2>1, <2>2, <3>1
  <2> QED
    BY <2>4, <2>5
<1>3. T = Nat
  <2>1. T \subseteq Nat
    OBVIOUS
  <2> HIDE DEF T
  <2> QED
    BY <1>1, <1>2, <2>1, NatInd
<1>4. Good(h)
  <2> HIDE DEF Good
  <2> QED
    BY <1>3
<1>5. Same(x, y, h)
  OBVIOUS
<1> HIDE DEF Same
<1> QED
  BY <1>4, <1>5

(* message_to_indices loses nothing of the digest. *)
LEMMA IndicesTell ==
    ASSUME NEW m \in MHashes, NEW o \in MHashes,
           \A t \in 0..(ForsTrees - 1) : MessageToIndices(m)[t] = MessageToIndices(o)[t]
    PROVE  m = o
<1>1. \A t \in 0..(ForsTrees - 1), j \in 1..ForsHeight :
         MessageBit(m, t * ForsHeight + j - 1) = MessageBit(o, t * ForsHeight + j - 1)
  BY IndexBits
<1>2. ASSUME NEW b \in 0..(ForsBits - 1) PROVE MessageBit(m, b) = MessageBit(o, b)
  BY <1>1, OffsetOf
<1>3. /\ ForsMsgBytes \in Nat \ {0} /\ LastBits \in 1..8
      /\ ForsBits = 8 * (ForsMsgBytes - 1) + LastBits
  BY ForsSizes
<1>4. ASSUME NEW p \in 1..ForsMsgBytes PROVE m[p] = o[p]
  <2> DEFINE h == IF p = ForsMsgBytes THEN LastBits ELSE 8
             x == m[p]
             y == o[p]
  <2>1. x \in 0..255 /\ y \in 0..255
    BY DEF MHashes
  <2>2. x < TwoTo[h] /\ y < TwoTo[h]
    <3>1. CASE p = ForsMsgBytes
      BY <3>1 DEF MHashes
    <3>2. CASE p # ForsMsgBytes
      BY <2>1, <3>2, SmallPowers
    <3> QED
      BY <3>1, <3>2
  <2>3. ASSUME NEW r \in 0..(h - 1) PROVE (x \div TwoTo[r]) % 2 = (y \div TwoTo[r]) % 2
    <3> DEFINE b == 8 * (p - 1) + r
    <3>1. b \in 0..(ForsBits - 1) /\ b \div 8 + 1 = p /\ b % 8 = r
      BY <1>3
    <3>2. MessageBit(m, b) = MessageBit(o, b)
      BY <1>2, <3>1
    <3> HIDE DEF b
    <3>3. MessageBit(m, b) = (x \div TwoTo[r]) % 2 /\ MessageBit(o, b) = (y \div TwoTo[r]) % 2
      BY <3>1 DEF MessageBit
    <3> QED
      BY <3>2, <3>3
  <2>4. h \in Nat /\ x \in Nat /\ y \in Nat
    BY <1>3, <2>1
  <2> HIDE DEF h, x, y
  <2>5. x = y
    BY <2>2, <2>3, <2>4, BitsTell
  <2> QED
    BY <2>5 DEF x, y
<1>5. m = [p \in 1..ForsMsgBytes |-> m[p]] /\ o = [p \in 1..ForsMsgBytes |-> o[p]]
  BY DEF MHashes
<1> QED
  BY <1>4, <1>5

-------------------------------------------------------------------------------
(* The way of a digest up the layers. *)
TreeAt(d, l) == d.tree \div TwoTo[TreeHeight * l]
LeafAt(d, l) == IF l = 0 THEN d.idx_leaf ELSE TreeAt(d, l - 1) % TwoTo[TreeHeight]

ForsPkOf(k, tr, x) ==
    Thash(k, AddrOf(0, tr, FORSPK, Byte(x), 0, 0, 0),
          [j \in 1..ForsTrees |-> ForsRoot(k, ForsQ(tr, x), j - 1)])

(* What a layer signs: the FORS public key, or the root of the tree below. *)
UnderAt(k, d, l) ==
    IF l = 0 THEN ForsPkOf(k, d.tree, d.idx_leaf) ELSE LayerRoot(k, l - 1, TreeAt(d, l - 1))

(* The fields of a digest. *)
LEMMA DigestFields ==
    ASSUME NEW d \in Digest
    PROVE  /\ d.mhash \in MHashes
           /\ d.tree \in 0..(TwoTo[TreeHeight * (D - 1)] - 1)
           /\ d.idx_leaf \in 0..(TwoTo[TreeHeight] - 1)
           /\ d = [mhash |-> d.mhash, tree |-> d.tree, idx_leaf |-> d.idx_leaf]
BY DEF Digest, MHashes

(* What follows for the sizes of params.h. *)
LEMMA SchemeSizes ==
    /\ D \in Nat \ {0} /\ D <= 256
    /\ TreeHeight \in 1..8 /\ TwoTo[TreeHeight] \in Nat \ {0} /\ TwoTo[TreeHeight] <= 256
    /\ WotsLen \in Nat /\ WotsLen >= 2 /\ WotsLen <= 256
<1>1. D \in Nat \ {0} /\ D <= 256 /\ TreeHeight \in 1..8 /\ WotsLen <= 256
  BY SchemeAssumption
<1>2. TwoTo[TreeHeight] \in Nat \ {0} /\ TwoTo[TreeHeight] <= 256
  <2>1. TreeHeight = 1 \/ TreeHeight = 2 \/ TreeHeight = 3 \/ TreeHeight = 4
        \/ TreeHeight = 5 \/ TreeHeight = 6 \/ TreeHeight = 7 \/ TreeHeight = 8
    BY <1>1
  <2> QED
    BY <2>1, SmallPowers
<1>3. WotsLen \in Nat /\ WotsLen >= 2
  <2>1. /\ PerByte \in Nat \ {0} /\ N \in Nat \ {0} /\ WotsLen2 \in Nat \ {0}
        /\ WotsLen1 \in Nat /\ WotsLen1 = PerByte * N /\ WotsLen = WotsLen1 + WotsLen2
    BY Sizes, SizesAssumption
  <2>2. WotsLen1 >= 1
    BY <2>1
  <2> QED
    BY <2>1, <2>2
<1> QED
  BY <1>1, <1>2, <1>3

(* "Update the indices for the next layer." *)
LEMMA WayUp ==
    ASSUME NEW d \in Digest
    PROVE  /\ TreeAt(d, 0) = d.tree /\ LeafAt(d, 0) = d.idx_leaf
           /\ \A l \in Nat : /\ TreeAt(d, l) \in Nat
                             /\ LeafAt(d, l) \in 0..(TwoTo[TreeHeight] - 1)
                             /\ TreeAt(d, l + 1) = TreeAt(d, l) \div TwoTo[TreeHeight]
                             /\ LeafAt(d, l + 1) = TreeAt(d, l) % TwoTo[TreeHeight]
<1>1. d.tree \in Nat /\ d.idx_leaf \in 0..(TwoTo[TreeHeight] - 1)
  <2>1. d.tree \in 0..(TwoTo[TreeHeight * (D - 1)] - 1)
    BY DigestFields
  <2> QED
    BY <2>1, DigestFields
<1>2. TreeHeight \in Nat /\ TwoTo[TreeHeight] \in Nat \ {0}
  BY SchemeSizes
<1>3. TreeAt(d, 0) = d.tree
  <2>1. TreeHeight * 0 = 0 /\ TwoTo[0] = 1 /\ d.tree \div 1 = d.tree
    BY <1>1, <1>2, TwoToLaw
  <2> QED
    BY <2>1 DEF TreeAt
<1>4. LeafAt(d, 0) = d.idx_leaf
  BY DEF LeafAt
<1>5. ASSUME NEW l \in Nat
      PROVE  /\ TreeAt(d, l) \in Nat
             /\ TreeAt(d, l + 1) = TreeAt(d, l) \div TwoTo[TreeHeight]
  <2>1. TreeHeight * l \in Nat /\ TreeHeight * (l + 1) = TreeHeight * l + TreeHeight
    BY <1>2
  <2>2. TwoTo[TreeHeight * (l + 1)] = TwoTo[TreeHeight * l] * TwoTo[TreeHeight]
    BY <1>2, <2>1, TwoToAdd
  <2>3. TwoTo[TreeHeight * l] \in Nat \ {0}
    BY <2>1, TwoToLaw
  <2> DEFINE p == TwoTo[TreeHeight * l]
             q == TwoTo[TreeHeight]
             x == d.tree
  <2> HIDE DEF p, q, x
  <2>4. x \in Nat /\ p \in Nat \ {0} /\ q \in Nat \ {0}
    BY <1>1, <1>2, <2>3 DEF p, q, x
  <2>5. x \div p \in Nat /\ x \div (p * q) = (x \div p) \div q
    BY <2>4, DivDiv, DivNat
  <2> QED
    BY <2>2, <2>5 DEF TreeAt, p, q, x
<1>6. ASSUME NEW l \in Nat
      PROVE  /\ LeafAt(d, l + 1) = TreeAt(d, l) % TwoTo[TreeHeight]
             /\ LeafAt(d, l) \in 0..(TwoTo[TreeHeight] - 1)
  <2>1. l + 1 # 0 /\ (l + 1) - 1 = l
    OBVIOUS
  <2>2. LeafAt(d, l + 1) = TreeAt(d, l) % TwoTo[TreeHeight]
    BY <2>1 DEF LeafAt
  <2>3. CASE l = 0
    BY <1>1, <1>4, <2>2, <2>3
  <2>4. CASE l # 0
    <3>1. l - 1 \in Nat
      BY <2>4
    <3>2. TreeAt(d, l - 1) \in Nat
      BY <1>5, <3>1
    <3>3. LeafAt(d, l) = TreeAt(d, l - 1) % TwoTo[TreeHeight]
      BY <2>4 DEF LeafAt
    <3> DEFINE a == TreeAt(d, l - 1)
               q == TwoTo[TreeHeight]
    <3> HIDE DEF a, q
    <3>4. a \in Nat /\ q \in Nat \ {0}
      BY <1>2, <3>2 DEF a, q
    <3>5. a % q \in 0..(q - 1)
      BY <3>4
    <3> QED
      BY <2>2, <3>3, <3>5 DEF a, q
  <2> QED
    BY <2>3, <2>4
<1> QED
  BY <1>3, <1>4, <1>5, <1>6

(* The layers use up the tree index. *)
LEMMA WayEnds ==
    ASSUME NEW d \in Digest
    PROVE  /\ \A l \in 0..(D - 1) : TreeAt(d, l) \in 0..(TwoTo[TreeHeight * (D - 1 - l)] - 1)
           /\ TreeAt(d, D - 1) = 0 /\ TreeAt(d, D) = 0
<1>1. D \in Nat \ {0} /\ TreeHeight \in Nat /\ TwoTo[TreeHeight] \in Nat \ {0}
  BY SchemeSizes
<1>2. ASSUME NEW l \in 0..(D - 1)
      PROVE  TreeAt(d, l) \in 0..(TwoTo[TreeHeight * (D - 1 - l)] - 1)
  <2> DEFINE p == TwoTo[TreeHeight * l]
             q == TwoTo[TreeHeight * (D - 1 - l)]
             x == d.tree
  <2>1. l \in Nat /\ D - 1 - l \in Nat
    BY <1>1
  <2>2. TreeHeight * l \in Nat /\ TreeHeight * (D - 1 - l) \in Nat
    BY <1>1, <2>1
  <2>3. TreeHeight * (D - 1) = TreeHeight * (D - 1 - l) + TreeHeight * l
    BY <1>1, <2>1
  <2>4. TwoTo[TreeHeight * (D - 1)] = q * p
    BY <2>2, <2>3, TwoToAdd
  <2>5. p \in Nat \ {0} /\ q \in Nat \ {0}
    BY <2>2, TwoToLaw
  <2>6. x \in Nat /\ x < q * p
    <3>1. x \in 0..(TwoTo[TreeHeight * (D - 1)] - 1)
      BY DigestFields
    <3>2. x \in 0..(q * p - 1)
      BY <2>4, <3>1
    <3> HIDE DEF x, q, p
    <3>3. q * p \in Nat
      BY <2>5
    <3> QED
      BY <3>2, <3>3
  <2> HIDE DEF p, q, x
  <2>7. x \div p \in 0..(q - 1)
    <3>1. x \div p \in Nat
      BY <2>5, <2>6
    <3>2. x \div p < q
      BY <2>5, <2>6
    <3> QED
      BY <2>5, <3>1, <3>2
  <2> QED
    BY <2>7 DEF TreeAt, p, q, x
<1>3. TreeAt(d, D - 1) = 0
  <2>1. D - 1 \in 0..(D - 1) /\ D - 1 - (D - 1) = 0 /\ TreeHeight * 0 = 0 /\ TwoTo[0] = 1
    BY <1>1, TwoToLaw
  <2>2. TreeAt(d, D - 1) \in 0..(TwoTo[TreeHeight * (D - 1 - (D - 1))] - 1)
    BY <1>2, <2>1
  <2> QED
    BY <2>1, <2>2
<1>4. TreeAt(d, D) = 0
  <2>1. D - 1 \in Nat /\ (D - 1) + 1 = D
    BY <1>1
  <2>2. TreeAt(d, D) = TreeAt(d, D - 1) \div TwoTo[TreeHeight]
    BY <2>1, WayUp
  <2> QED
    BY <1>1, <1>3, <2>2
<1> QED
  BY <1>2, <1>3, <1>4

(* The key pair that signs tells all that lies under it. *)
LEMMA UnderTells ==
    ASSUME NEW k, NEW d \in Digest, NEW e \in Digest, NEW l \in Nat,
           TreeAt(d, l) = TreeAt(e, l), LeafAt(d, l) = LeafAt(e, l)
    PROVE  UnderAt(k, d, l) = UnderAt(k, e, l)
<1>1. CASE l = 0
  <2>1. d.tree = e.tree /\ d.idx_leaf = e.idx_leaf
    BY <1>1, WayUp
  <2> QED
    BY <1>1, <2>1 DEF UnderAt
<1>2. CASE l # 0
  <2> DEFINE q == TwoTo[TreeHeight]
             a == TreeAt(d, l - 1)
             b == TreeAt(e, l - 1)
  <2>1. l - 1 \in Nat /\ (l - 1) + 1 = l
    BY <1>2
  <2>2. a \in Nat /\ TreeAt(d, l) = a \div q /\ LeafAt(d, l) = a % q
    BY <2>1, WayUp
  <2>3. b \in Nat /\ TreeAt(e, l) = b \div q /\ LeafAt(e, l) = b % q
    BY <2>1, WayUp
  <2>4. q \in Nat \ {0}
    BY SchemeSizes
  <2>5. a = b
    <3>1. a \in Nat /\ b \in Nat /\ a \div q = b \div q /\ a % q = b % q
      BY <2>2, <2>3
    <3> HIDE DEF a, b, q
    <3>2. a = q * (a \div q) + (a % q) /\ b = q * (b \div q) + (b % q)
      BY <2>4, <3>1
    <3> QED
      BY <3>1, <3>2
  <2> QED
    BY <1>2, <2>5 DEF UnderAt
<1> QED
  BY <1>1, <1>2

(* The layout of a signature. *)
LEMMA Layout ==
    /\ SpxCells \in Nat /\ ForsCells \in Nat /\ LayerCells \in Nat \ {0} /\ D * LayerCells \in Nat
    /\ SpxCells = 1 + ForsCells + D * LayerCells
    /\ ForsCells = ForsTrees * (1 + ForsHeight)
<1>1. ForsTrees \in Nat \ {0} /\ 1 + ForsHeight \in Nat \ {0}
  BY ForsSizes
<1>2. D \in Nat \ {0} /\ LayerCells \in Nat \ {0}
  BY SchemeSizes, HeightNat
<1>3. ForsCells \in Nat
  BY <1>1 DEF ForsCells
<1>4. D * LayerCells \in Nat
  BY <1>2
<1> QED
  BY <1>2, <1>3, <1>4 DEF SpxCells, ForsCells

ForsPlace(t, c) == 1 + t * (1 + ForsHeight) + c
LayerPlace(l, c) == 1 + ForsCells + l * LayerCells + c

(* The cells of FORS lie in the signature, *)
LEMMA ForsPlaceIn ==
    ASSUME NEW t \in 0..(ForsTrees - 1), NEW c \in 1..(1 + ForsHeight)
    PROVE  ForsPlace(t, c) \in 2..(1 + ForsCells) /\ ForsPlace(t, c) \in 1..SpxCells
<1> DEFINE a == t * (1 + ForsHeight)
<1>1. ForsTrees \in Nat /\ 1 + ForsHeight \in Nat \ {0}
  BY ForsSizes
<1>2. a \in Nat /\ a + c \in 1..ForsCells
  <2> DEFINE h == 1 + ForsHeight
  <2>1. ForsCells = ForsTrees * h /\ h \in Nat \ {0} /\ c \in 1..h
    BY <1>1 DEF ForsCells
  <2> HIDE DEF h
  <2>2. t * h \in Nat /\ t * h + c \in 1..(ForsTrees * h)
    BY <1>1, <2>1, CutIn
  <2> QED
    BY <2>1, <2>2 DEF h
<1>3. ForsPlace(t, c) = 1 + a + c
  BY DEF ForsPlace
<1> HIDE DEF a
<1>4. SpxCells \in Nat /\ ForsCells \in Nat /\ SpxCells >= 1 + ForsCells
  BY Layout
<1> QED
  BY <1>2, <1>3, <1>4

(* and so do those of the layers. *)
LEMMA LayerPlaceIn ==
    ASSUME NEW l \in 0..(D - 1), NEW c \in 1..LayerCells
    PROVE  LayerPlace(l, c) \in (2 + ForsCells)..SpxCells /\ LayerPlace(l, c) \in 1..SpxCells
<1> DEFINE a == l * LayerCells
           b == D * LayerCells
<1>1. D \in Nat /\ LayerCells \in Nat \ {0}
  BY SchemeSizes, Layout
<1>2. a \in Nat /\ a + c \in 1..b
  BY <1>1, CutIn
<1>3. LayerPlace(l, c) = 1 + ForsCells + a + c
  BY DEF LayerPlace
<1>4. SpxCells = 1 + ForsCells + b /\ ForsCells \in Nat /\ b \in Nat
  BY Layout
<1> HIDE DEF a, b
<1> QED
  BY <1>2, <1>3, <1>4

(* Nothing of a signature is left out. *)
LEMMA Places ==
    ASSUME NEW j \in 1..SpxCells
    PROVE  \/ j = 1
           \/ \E t \in 0..(ForsTrees - 1), c \in 1..(1 + ForsHeight) : j = ForsPlace(t, c)
           \/ \E l \in 0..(D - 1), c \in 1..LayerCells : j = LayerPlace(l, c)
<1> DEFINE b == D * LayerCells
           h == 1 + ForsHeight
<1>1. SpxCells = 1 + ForsCells + b /\ ForsCells \in Nat /\ b \in Nat /\ LayerCells \in Nat \ {0}
      /\ D \in Nat
  BY Layout, SchemeSizes
<1>2. ForsTrees \in Nat /\ h \in Nat \ {0} /\ ForsCells = ForsTrees * h
  BY ForsSizes, Layout
<1>3. CASE j \in 2..(1 + ForsCells)
  <2>1. j - 1 \in 1..ForsCells
    BY <1>1, <1>3
  <2> HIDE DEF h
  <2>2. PICK t \in 0..(ForsTrees - 1), c \in 1..h : j - 1 = t * h + c
    BY <1>2, <2>1, CutOf
  <2>3. j = 1 + t * h + c
    <3> DEFINE a == t * h
    <3>1. a \in Nat /\ j - 1 = a + c /\ j \in Nat /\ c \in Nat
      BY <1>1, <1>2, <1>3, <2>2
    <3> HIDE DEF a
    <3>2. j = 1 + a + c
      BY <3>1
    <3> QED
      BY <3>2 DEF a
  <2> QED
    BY <2>3 DEF ForsPlace, h
<1>4. CASE j \in (2 + ForsCells)..SpxCells
  <2>1. j - 1 - ForsCells \in 1..b
    <3> HIDE DEF b
    <3> QED
      BY <1>1, <1>4
  <2>2. PICK l \in 0..(D - 1), c \in 1..LayerCells : j - 1 - ForsCells = l * LayerCells + c
    BY <1>1, <2>1, CutOf
  <2>3. j = 1 + ForsCells + l * LayerCells + c
    <3> DEFINE a == l * LayerCells
    <3>1. a \in Nat /\ j - 1 - ForsCells = a + c /\ j \in Nat /\ c \in Nat /\ ForsCells \in Nat
      BY <1>1, <1>4, <2>2
    <3> HIDE DEF a
    <3>2. j = 1 + ForsCells + a + c
      BY <3>1
    <3> QED
      BY <3>2 DEF a
  <2> QED
    BY <2>3 DEF LayerPlace
<1>5. j = 1 \/ j \in 2..(1 + ForsCells) \/ j \in (2 + ForsCells)..SpxCells
  <2> HIDE DEF b
  <2> QED
    BY <1>1
<1> QED
  BY <1>3, <1>4, <1>5

-------------------------------------------------------------------------------
(* Genuine signatures. *)
ForsTreeGood(k, d, x, t) ==
    \A c \in 1..(1 + ForsHeight) :
        x[ForsPlace(t, c)] = ForsCell(k, ForsQ(d.tree, d.idx_leaf), t, MessageToIndices(d.mhash)[t], c)

LayerMade(b, k, d, x, l) ==
    \A c \in 1..LayerCells :
        x[LayerPlace(l, c)] = LayerCell(k, l, TreeAt(d, l), LeafAt(d, l), b, c)

LayerGood(bs, k, d, x, l) ==
    /\ UnderAt(k, d, l) \in DOMAIN bs
    /\ LayerMade(bs[UnderAt(k, d, l)], k, d, x, l)

ForsGood(k, d, x, n) == \A t \in 0..(n - 1) : ForsTreeGood(k, d, x, t)
LayersGood(bs, k, d, x, n) == \A l \in 0..(n - 1) : LayerGood(bs, k, d, x, l)

Genuine(ds, bs, k, m, x) ==
    /\ IsSeq(x) /\ Len(x) = SpxCells
    /\ DigestOf(x[1], k, m) \in DOMAIN ds
    /\ ForsGood(k, ds[DigestOf(x[1], k, m)], x, ForsTrees)
    /\ LayersGood(bs, k, ds[DigestOf(x[1], k, m)], x, D)

(* Signatures that differ in one cell at most. *)
Near(x, y) == \E e : \A c \in 1..SpxCells : c # e => x[c] = y[c]

IsOracle(f, S) ==
    /\ \A y \in DOMAIN f : f[y] \in S
    /\ \A y, z \in DOMAIN f : f[y] = f[z] => y = z

CellsAgree(e, l, k, t, x, b, p, u, z, v) ==
    \A c \in 1..LayerCells : c # e => LayerCell(k, l, t, x, b, c) = LayerCell(p, l, u, z, v, c)

(* What the cells of a layer tell, but for one of them: who made them, and  *)
(* of what.                                                                 *)
LEMMA LayerTells ==
    ASSUME NEW l, NEW k, NEW t, NEW x \in 0..(TwoTo[TreeHeight] - 1), NEW b \in Hashes,
           NEW p, NEW u, NEW z \in 0..(TwoTo[TreeHeight] - 1), NEW v \in Hashes,
           NEW e, CellsAgree(e, l, k, t, x, b, p, u, z, v)
    PROVE  k = p /\ t = u /\ x = z /\ b = v
<1> DEFINE kp == KpOf(k, l, t, x)
           kq == KpOf(p, l, u, z)
<1>1. WotsLen \in Nat /\ WotsLen >= 2 /\ WotsLen <= 256 /\ WotsLen <= LayerCells /\ LayerCells \in Nat
  BY SchemeSizes, HeightNat
<1>2. b \in [1..N -> 0..255] /\ v \in [1..N -> 0..255]
  BY DEF Hashes
<1>3. ASSUME NEW c \in 1..WotsLen, c # e
      PROVE  /\ kp.layer = kq.layer /\ kp.tree = kq.tree /\ kp.kp1 = kq.kp1
             /\ SkSeedOf(kp) = SkSeedOf(kq) \/ SeededOf(kp) = SeededOf(kq)
             /\ ChainLengths(b)[c] = ChainLengths(v)[c]
  <2>1. c \in 1..LayerCells /\ c <= WotsLen
    BY <1>1
  <2>2. Chain(kp, c)[ChainLengths(b)[c]] = Chain(kq, c)[ChainLengths(v)[c]]
    BY <1>3, <2>1 DEF LayerCell, CellsAgree
  <2>3. ChainLengths(b)[c] \in 0..(W - 1) /\ ChainLengths(v)[c] \in 0..(W - 1)
    BY <1>2, LengthsInRange
  <2> DEFINE f == ChainLengths(b)[c]
             g == ChainLengths(v)[c]
             n == Byte(c - 1)
  <2> HIDE DEF kp, kq, f, g, n
  <2>4. Whole(kp, n)[f] = Whole(kq, n)[g] /\ f \in 0..(W - 1) /\ g \in 0..(W - 1)
    BY <2>2, <2>3 DEF Chain, f, g, n
  <2>5. f = g
    BY <2>4, ChainValue
  <2>6. kp.layer = kq.layer /\ kp.tree = kq.tree /\ kp.kp1 = kq.kp1
    BY <2>4, ChainValue
  <2>7. SkSeedOf(kp) = SkSeedOf(kq) \/ SeededOf(kp) = SeededOf(kq)
    BY <2>4, ChainValue
  <2> QED
    BY <2>5, <2>6, <2>7 DEF f, g
<1>4. PICK c \in 1..WotsLen : c # e
  <2>1. 1 \in 1..WotsLen /\ 2 \in 1..WotsLen
    BY <1>1
  <2> QED
    BY <2>1
<1>5. k = p /\ t = u /\ x = z
  <2>1. /\ kp.layer = l /\ kp.tree = t /\ kp.kp1 = Byte(x)
        /\ kq.layer = l /\ kq.tree = u /\ kq.kp1 = Byte(z)
    BY DEF KpOf
  <2>2. SkSeedOf(kp) = k /\ SeededOf(kp) = k /\ SkSeedOf(kq) = p /\ SeededOf(kq) = p
    BY KpFields
  <2>3. Byte(x) = x /\ Byte(z) = z
    <3>1. x \in 0..255 /\ z \in 0..255
      BY SchemeSizes
    <3> QED
      BY <3>1, SmallByte
  <2>4. /\ kp.layer = kq.layer /\ kp.tree = kq.tree /\ kp.kp1 = kq.kp1
        /\ SkSeedOf(kp) = SkSeedOf(kq) \/ SeededOf(kp) = SeededOf(kq)
    BY <1>3, <1>4
  <2> HIDE DEF kp, kq
  <2> QED
    BY <2>1, <2>2, <2>3, <2>4
<1>6. b = v
  <2> SUFFICES ASSUME b # v PROVE FALSE
    OBVIOUS
  <2>1. PICK f \in 1..WotsLen : ChainLengths(v)[f] < ChainLengths(b)[f]
    BY <1>2, NoWayOn
  <2>2. PICK g \in 1..WotsLen : ChainLengths(b)[g] < ChainLengths(v)[g]
    BY <1>2, NoWayOn
  <2>3. /\ \A d \in 1..WotsLen : ChainLengths(b)[d] \in 0..(W - 1)
        /\ \A d \in 1..WotsLen : ChainLengths(v)[d] \in 0..(W - 1)
    BY <1>2, LengthsInRange
  <2>4. W \in Nat
    BY Sizes
  <2>5. f = e /\ g = e
    <3>1. ChainLengths(b)[f] # ChainLengths(v)[f] /\ ChainLengths(b)[g] # ChainLengths(v)[g]
      BY <2>1, <2>2, <2>3, <2>4
    <3> QED
      BY <1>3, <3>1
  <2> QED
    BY <2>1, <2>2, <2>3, <2>4, <2>5
<1> QED
  BY <1>5, <1>6

(* What the cells of FORS tell, but for one of them: the message. *)
LEMMA ForsTells ==
    ASSUME NEW k, NEW d \in Digest, NEW f \in Digest, d.tree = f.tree, d.idx_leaf = f.idx_leaf,
           NEW x, NEW y, ForsGood(k, d, x, ForsTrees), ForsGood(k, f, y, ForsTrees), Near(x, y)
    PROVE  d = f
<1> DEFINE q == ForsQ(d.tree, d.idx_leaf)
<1>1. PICK e : \A c \in 1..SpxCells : c # e => x[c] = y[c]
  BY DEF Near
<1>2. d.mhash \in MHashes /\ f.mhash \in MHashes
  BY DigestFields
<1>3. ForsHeight \in Nat \ {0}
  BY ForsSizes
<1>4. ASSUME NEW t \in 0..(ForsTrees - 1)
      PROVE  MessageToIndices(d.mhash)[t] = MessageToIndices(f.mhash)[t]
  <2> DEFINE a == MessageToIndices(d.mhash)[t]
             b == MessageToIndices(f.mhash)[t]
  <2>1. a \in 0..(TwoTo[ForsHeight] - 1) /\ b \in 0..(TwoTo[ForsHeight] - 1)
    BY <1>2, IndexRange
  <2>2. a \in Nat /\ b \in Nat /\ t \in Nat
    <3>1. TwoTo[ForsHeight] \in Nat
      BY <1>3, TwoToLaw
    <3> QED
      BY <2>1, <3>1, ForsSizes
  <2>3. PICK c \in 1..2 : ForsPlace(t, c) # e
    <3>1. 1 \in 1..2 /\ 2 \in 1..2
      OBVIOUS
    <3>2. ForsPlace(t, 1) # ForsPlace(t, 2)
      <4> DEFINE o == t * (1 + ForsHeight)
      <4>1. o \in Nat
        BY <1>3, <2>2
      <4> HIDE DEF o
      <4>2. 1 + o + 1 # 1 + o + 2
        BY <4>1
      <4> QED
        BY <4>2 DEF ForsPlace, o
    <3> QED
      BY <3>1, <3>2
  <2>4. c \in 1..(1 + ForsHeight)
    BY <1>3
  <2>5. ForsPlace(t, c) \in 1..SpxCells
    BY <2>4, ForsPlaceIn
  <2>6. x[ForsPlace(t, c)] = y[ForsPlace(t, c)]
    BY <1>1, <2>3, <2>5
  <2>7. x[ForsPlace(t, c)] = ForsCell(k, q, t, a, c)
    BY <2>4 DEF ForsGood, ForsTreeGood
  <2>8. y[ForsPlace(t, c)] = ForsCell(k, q, t, b, c)
    BY <2>4 DEF ForsGood, ForsTreeGood
  <2> HIDE DEF a, b, q
  <2> QED
    BY <2>2, <2>6, <2>7, <2>8, ForsCellTells, ZenonT(40) DEF a, b
<1>5. d.mhash = f.mhash
  BY <1>2, <1>4, IndicesTell
<1> QED
  BY <1>5, DigestFields

(* R, the key and the message tell the signature. *)
LEMMA GenuineTells ==
    ASSUME NEW ds, NEW bs, NEW k, NEW m, NEW x, NEW y, Genuine(ds, bs, k, m, x),
           Genuine(ds, bs, k, m, y), x[1] = y[1]
    PROVE  x = y
<1> DEFINE d == ds[DigestOf(x[1], k, m)]
<1>1. /\ IsSeq(x) /\ Len(x) = SpxCells /\ ForsGood(k, d, x, ForsTrees) /\ LayersGood(bs, k, d, x, D)
      /\ IsSeq(y) /\ Len(y) = SpxCells /\ ForsGood(k, d, y, ForsTrees) /\ LayersGood(bs, k, d, y, D)
  BY DEF Genuine
<1> HIDE DEF d
<1>2. ASSUME NEW j \in 1..SpxCells PROVE x[j] = y[j]
  <2>1. ASSUME NEW t \in 0..(ForsTrees - 1), NEW c \in 1..(1 + ForsHeight), j = ForsPlace(t, c)
        PROVE  x[j] = y[j]
    BY <1>1, <2>1 DEF ForsGood, ForsTreeGood
  <2>2. ASSUME NEW l \in 0..(D - 1), NEW c \in 1..LayerCells, j = LayerPlace(l, c)
        PROVE  x[j] = y[j]
    BY <1>1, <2>2 DEF LayersGood, LayerGood, LayerMade
  <2> QED
    BY <2>1, <2>2, Places
<1> QED
  BY <1>1, <1>2, SeqEqual

(* A layer that finds the root of its tree was given what the key pair has  *)
(* signed, if all but one cell come from one signature.                     *)
LEMMA LayerSound ==
    ASSUME NEW bs, IsOracle(bs, Hashes), NEW k, NEW d \in Digest, NEW x, NEW l \in 0..(D - 1),
           NEW r \in DOMAIN bs, LayerMade(bs[r], k, d, x, l),
           NEW p, NEW f \in Digest, NEW y, LayerGood(bs, p, f, y, l), Near(x, y)
    PROVE  /\ k = p /\ TreeAt(d, l) = TreeAt(f, l) /\ LeafAt(d, l) = LeafAt(f, l)
           /\ r = UnderAt(k, d, l)
<1> DEFINE u == UnderAt(p, f, l)
           n == TreeAt(d, l)
           g == LeafAt(d, l)
           o == TreeAt(f, l)
           h == LeafAt(f, l)
<1>1. PICK e : \A c \in 1..SpxCells : c # e => x[c] = y[c]
  BY DEF Near
<1>2. /\ u \in DOMAIN bs
      /\ \A c \in 1..LayerCells : y[LayerPlace(l, c)] = LayerCell(p, l, o, h, bs[u], c)
      /\ \A c \in 1..LayerCells : x[LayerPlace(l, c)] = LayerCell(k, l, n, g, bs[r], c)
  BY DEF LayerGood, LayerMade
<1>3. l \in Nat
  OBVIOUS
<1>4. g \in 0..(TwoTo[TreeHeight] - 1) /\ h \in 0..(TwoTo[TreeHeight] - 1)
  BY <1>3, WayUp
<1>5. bs[r] \in Hashes /\ bs[u] \in Hashes
  BY <1>2 DEF IsOracle
<1> DEFINE w == e - (1 + ForsCells + l * LayerCells)
<1>6. ASSUME NEW c \in 1..LayerCells, c # w
      PROVE  LayerCell(k, l, n, g, bs[r], c) = LayerCell(p, l, o, h, bs[u], c)
  <2>1. LayerPlace(l, c) \in 1..SpxCells
    BY LayerPlaceIn
  <2>2. LayerPlace(l, c) # e
    <3> SUFFICES ASSUME LayerPlace(l, c) = e PROVE FALSE
      OBVIOUS
    <3> DEFINE z == 1 + ForsCells + l * LayerCells
    <3>1. z \in Nat
      <4>1. ForsCells \in Nat /\ LayerCells \in Nat
        BY Layout
      <4>2. l * LayerCells \in Nat
        BY <4>1
      <4> QED
        BY <4>1, <4>2
    <3>2. e = z + c
      BY DEF LayerPlace
    <3> HIDE DEF z
    <3>3. e - z = c
      BY <3>1, <3>2
    <3> QED
      BY <1>6, <3>3 DEF z
  <2>3. x[LayerPlace(l, c)] = y[LayerPlace(l, c)]
    BY <1>1, <2>1, <2>2
  <2> QED
    BY <1>2, <2>3
<1> DEFINE br == bs[r]
           bu == bs[u]
<1> HIDE DEF w, n, g, o, h, br, bu
<1>7. k = p /\ n = o /\ g = h /\ br = bu
  <2>1. CellsAgree(w, l, k, n, g, br, p, o, h, bu)
    BY <1>6 DEF br, bu, CellsAgree
  <2>2. br \in Hashes /\ bu \in Hashes
    BY <1>5 DEF br, bu
  <2> HIDE DEF u
  <2> QED
    BY <1>4, <2>1, <2>2, LayerTells
<1>8. r = u
  BY <1>2, <1>7 DEF IsOracle, br, bu
<1>9. u = UnderAt(k, d, l)
  BY <1>3, <1>7, UnderTells DEF n, o, g, h
<1> QED
  BY <1>7, <1>8, <1>9 DEF n, o, g, h

(* A signature that is genuine, but for the R that it came with, is one that *)
(* was made.                                                                *)
LEMMA Accepted ==
    ASSUME NEW ds, IsOracle(ds, Digest), NEW bs, IsOracle(bs, Hashes),
           NEW k, NEW m, NEW x, IsSeq(x), Len(x) = SpxCells, DigestOf(x[1], k, m) \in DOMAIN ds,
           ForsGood(k, ds[DigestOf(x[1], k, m)], x, ForsTrees),
           LayersGood(bs, k, ds[DigestOf(x[1], k, m)], x, D),
           NEW p, NEW o, NEW y, Genuine(ds, bs, p, o, y), Near(x, y)
    PROVE  k = p /\ m = o /\ x = y
<1> DEFINE d == ds[DigestOf(x[1], k, m)]
           f == ds[DigestOf(y[1], p, o)]
<1>1. DigestOf(y[1], p, o) \in DOMAIN ds /\ ForsGood(p, f, y, ForsTrees) /\ LayersGood(bs, p, f, y, D)
  BY DEF Genuine
<1>2. d \in Digest /\ f \in Digest
  BY <1>1 DEF IsOracle
<1>3. 0 \in 0..(D - 1)
  BY SchemeSizes
<1>4. LayerGood(bs, k, d, x, 0) /\ LayerGood(bs, p, f, y, 0)
  BY <1>1, <1>3 DEF LayersGood
<1> HIDE DEF d, f
<1>5. k = p /\ TreeAt(d, 0) = TreeAt(f, 0) /\ LeafAt(d, 0) = LeafAt(f, 0)
  <2> DEFINE r == UnderAt(k, d, 0)
  <2>1. r \in DOMAIN bs /\ LayerMade(bs[r], k, d, x, 0)
    BY <1>4 DEF LayerGood
  <2> HIDE DEF r
  <2> QED
    BY <1>2, <1>3, <1>4, <2>1, LayerSound
<1>6. d.tree = f.tree /\ d.idx_leaf = f.idx_leaf
  BY <1>2, <1>5, WayUp
<1>7. d = f
  <2>1. ForsGood(k, d, x, ForsTrees) /\ ForsGood(k, f, y, ForsTrees)
    BY <1>1, <1>5 DEF d
  <2> QED
    BY <1>2, <1>6, <2>1, ForsTells
<1>8. DigestOf(x[1], k, m) = DigestOf(y[1], p, o)
  BY <1>1, <1>7 DEF IsOracle, d, f
<1>9. x[1] = y[1] /\ m = o
  BY <1>8 DEF DigestOf
<1>10. Genuine(ds, bs, k, m, x)
  BY DEF Genuine
<1>11. x = y
  BY <1>5, <1>9, <1>10, GenuineTells
<1> QED
  BY <1>5, <1>9, <1>11

-------------------------------------------------------------------------------
(* The inductive invariant. *)

(* The digest that the call works on. *)
Now == digests[DigestOf(sig[1], key, msg)]

(* Both oracles give values of their kind, distinct for distinct questions. *)
OraclesOK == IsOracle(digests, Digest) /\ IsOracle(bytes, Hashes)

(* The root in a public key is that of the one tree of the top layer. *)
KeysOK ==
    DOMAIN keys \subseteq Keys /\ \A k \in DOMAIN keys : keys[k] = <<k, LayerRoot(k, D - 1, 0)>>

(* What was signed is genuine. *)
IsSigned(ds, bs, ks, s) ==
    /\ s = <<s[1], s[2], s[3]>> /\ s[1] \in ks /\ s[2] \in Messages
    /\ Genuine(ds, bs, s[1], s[2], s[3])
SignedOK == \A s \in signed : IsSigned(digests, bytes, DOMAIN keys, s)

(* What a WOTS key pair signed is the root of what lies under it. *)
IsUse(u, k, d, l) ==
    d \in Digest /\ l \in 0..(D - 1) /\ u = <<k, l, TreeAt(d, l), LeafAt(d, l), UnderAt(k, d, l)>>
OtsOK == \A u \in ots : \E k, d, l : IsUse(u, k, d, l)

Control ==
    /\ pc \in {"idle", "sign_fors", "sign_layers", "verify_fors", "verify_layers", "verified"}
    /\ calls \in 0..MaxCalls
    /\ state_seeded \in Keys \cup {Nothing}
    /\ result \in {Nothing, 0, -1}
    /\ idx_leaf \in 0..(TwoTo[TreeHeight] - 1)

(* The addresses that an iteration leaves to the next. *)
IsLayerAddr(a) == \E l, t : OfTree(LayerQ(l, t), a)
IsWotsAddr(a) == \E kp : OfKey(kp, a)

(* What holds all through a call. *)
Call ==
    /\ key \in DOMAIN keys /\ msg \in Messages /\ state_seeded = key
    /\ DigestOf(sig[1], key, msg) \in DOMAIN digests /\ mhash = Now.mhash
    /\ IsSeq(sig) /\ IsLayerAddr(tree_addr) /\ IsWotsAddr(wots_addr)

(* In the loop over the trees of FORS, and in that over the layers. *)
InFors ==
    /\ i \in 0..ForsTrees /\ tree = Now.tree /\ idx_leaf = Now.idx_leaf
    /\ wots_addr = AddrOf(0, tree, WOTS, Byte(idx_leaf), 0, 0, 0)
    /\ OfTree(ForsQ(tree, idx_leaf), fors_addr)
    /\ IsSeq(fors_roots) /\ Len(fors_roots) = i

InLayers == i \in 0..D /\ tree = TreeAt(Now, i) /\ idx_leaf = LeafAt(Now, i)

(* The root found for tree t is the one that the key pair has. *)
RootIs(rs, k, d, t) == rs[t + 1] = ForsRoot(k, ForsQ(d.tree, d.idx_leaf), t)

(* Signing: all cells so far, and the root below, are what they should be. *)
SigningFors ==
    /\ Len(sig) = ForsPlace(i, 0)
    /\ \A t \in 0..(i - 1) : RootIs(fors_roots, key, Now, t)
    /\ ForsGood(key, Now, sig, i)

SigningLayers ==
    /\ Len(sig) = LayerPlace(i, 0)
    /\ root = UnderAt(key, Now, i)
    /\ ForsGood(key, Now, sig, ForsTrees)
    /\ LayersGood(bytes, key, Now, sig, i)

(* Verifying: a root is what it should be only if all cells so far are, and *)
(* it is if the signature was made.                                         *)
Verifying == Len(sig) = SpxCells /\ \E s \in signed : Near(sig, s[3])

VerifyingFors ==
    /\ at = ForsPlace(i, 0)
    /\ \A t \in 0..(i - 1) : RootIs(fors_roots, key, Now, t) <=> ForsTreeGood(key, Now, sig, t)

VerifyingLayers ==
    /\ at = LayerPlace(i, 0)
    /\ root = UnderAt(key, Now, i) =>
          ForsGood(key, Now, sig, ForsTrees) /\ LayersGood(bytes, key, Now, sig, i)
    /\ <<key, msg, sig>> \in signed => root = UnderAt(key, Now, i)

Calls ==
    /\ pc = "idle" => at = 0 /\ i = 0
    /\ pc = "sign_fors" => Call /\ InFors /\ SigningFors
    /\ pc = "sign_layers" => Call /\ InLayers /\ SigningLayers
    /\ pc = "verify_fors" => Call /\ InFors /\ Verifying /\ VerifyingFors
    /\ pc = "verify_layers" => Call /\ InLayers /\ Verifying /\ VerifyingLayers
    /\ pc = "verified" => i \in 0..D /\ at = IF Len(sig) = SpxCells THEN SpxCells ELSE 0

Inv == OraclesOK /\ KeysOK /\ SignedOK /\ OtsOK /\ Control /\ Calls

-------------------------------------------------------------------------------
(* Oracles only learn. *)
Knows(f, g) == \A y \in DOMAIN g : y \in DOMAIN f /\ f[y] = g[y]

LEMMA KnowsSelf == \A f : Knows(f, f)
BY DEF Knows

IsLearned(g, f, x, v) ==
    /\ DOMAIN g = DOMAIN f \cup {x}
    /\ g[x] = v
    /\ \A y \in DOMAIN f : y # x => g[y] = f[y]

(* Learning a value changes no other. *)
LEMMA LearnLaw ==
    ASSUME NEW f, NEW x, NEW v
    PROVE  IsLearned(Learn(f, x, v), f, x, v)
<1> DEFINE V == DOMAIN f \cup {x}
           g == [y \in V |-> IF y = x THEN v ELSE f[y]]
<1>1. Learn(f, x, v) = g
  BY DEF Learn
<1>2. DOMAIN g = V /\ \A y \in V : g[y] = IF y = x THEN v ELSE f[y]
  <2> HIDE DEF V
  <2> QED
    OBVIOUS
<1>3. x \in V /\ \A y \in DOMAIN f : y \in V
  OBVIOUS
<1> HIDE DEF g, V
<1>4. g[x] = v /\ \A y \in DOMAIN f : y # x => g[y] = f[y]
  BY <1>2, <1>3
<1> QED
  BY <1>1, <1>2, <1>4 DEF V, IsLearned

(* A value that may be drawn keeps the oracle one, and forgets nothing. *)
LEMMA OracleLaw ==
    ASSUME NEW f, NEW S, IsOracle(f, S), NEW x, NEW v \in Known(f, x, S)
    PROVE  /\ IsOracle(Learn(f, x, v), S)
           /\ Knows(Learn(f, x, v), f)
           /\ v \in S
<1> DEFINE g == Learn(f, x, v)
<1>1. DOMAIN g = DOMAIN f \cup {x} /\ g[x] = v /\ \A y \in DOMAIN f : y # x => g[y] = f[y]
  <2>1. IsLearned(g, f, x, v)
    BY LearnLaw
  <2> HIDE DEF g
  <2> QED
    BY <2>1 DEF IsLearned
<1> HIDE DEF g
<1>2. CASE x \in DOMAIN f
  <2>1. v = f[x]
    BY <1>2 DEF Known
  <2>2. DOMAIN g = DOMAIN f /\ \A y \in DOMAIN f : g[y] = f[y]
    BY <1>1, <1>2, <2>1
  <2> QED
    BY <1>2, <2>1, <2>2 DEF IsOracle, Knows, g
<1>3. CASE x \notin DOMAIN f
  <2>1. v \in S /\ v \notin {f[y] : y \in DOMAIN f}
    BY <1>3 DEF Known
  <2>2. \A y \in DOMAIN f : g[y] = f[y] /\ f[y] # v
    BY <1>1, <1>3, <2>1
  <2> QED
    BY <1>1, <1>3, <2>1, <2>2 DEF IsOracle, Knows, g
<1> QED
  BY <1>2, <1>3

(* What is good of the layers stays so when more hashes are read, *)
LEMMA LayersGrow ==
    ASSUME NEW bs, NEW cs, Knows(cs, bs), NEW k, NEW d, NEW x, NEW n, LayersGood(bs, k, d, x, n)
    PROVE  LayersGood(cs, k, d, x, n)
BY DEF LayersGood, LayerGood, Knows

(* and so does a genuine signature. *)
LEMMA GenuineGrows ==
    ASSUME NEW ds, NEW es, Knows(es, ds), NEW bs, NEW cs, Knows(cs, bs),
           NEW k, NEW m, NEW x, Genuine(ds, bs, k, m, x)
    PROVE  Genuine(es, cs, k, m, x) /\ es[DigestOf(x[1], k, m)] = ds[DigestOf(x[1], k, m)]
<1> DEFINE y == DigestOf(x[1], k, m)
<1>1. y \in DOMAIN ds
  BY DEF Genuine
<1>2. y \in DOMAIN es /\ es[y] = ds[y]
  BY <1>1 DEF Knows
<1>3. LayersGood(cs, k, ds[y], x, D)
  BY LayersGrow DEF Genuine
<1> QED
  BY <1>2, <1>3 DEF Genuine

(* What was signed stays genuine. *)
LEMMA SignedStays ==
    ASSUME SignedOK, signed' = signed, Knows(digests', digests), Knows(bytes', bytes),
           DOMAIN keys \subseteq DOMAIN keys'
    PROVE  SignedOK'
<1> SUFFICES ASSUME NEW s \in signed PROVE IsSigned(digests', bytes', DOMAIN keys', s)
  BY DEF SignedOK
<1>1. IsSigned(digests, bytes, DOMAIN keys, s)
  BY DEF SignedOK
<1>2. Genuine(digests', bytes', s[1], s[2], s[3])
  BY <1>1, GenuineGrows DEF IsSigned
<1> QED
  BY <1>1, <1>2 DEF IsSigned

(* What is presented differs from what was signed in one cell at most. *)
LEMMA PresentedLaw ==
    ASSUME SignedOK, NEW p \in Presented
    PROVE  /\ p[1] \in DOMAIN keys /\ p[2] \in Messages
           /\ Len(p[3]) = SpxCells => IsSeq(p[3]) /\ \E s \in signed : Near(p[3], s[3])
<1>1. PICK s \in signed :
         \/ p = s
         \/ \E c \in 1..SpxCells : p = <<s[1], s[2], [s[3] EXCEPT ![c] = Forged]>>
         \/ \E c \in 1..SpxCells, o \in signed : p = <<s[1], s[2], [s[3] EXCEPT ![c] = o[3][c]]>>
         \/ p = <<s[1], s[2], SubSeq(s[3], 1, SpxCells - 1)>>
         \/ \E n \in Messages : p = <<s[1], n, s[3]>>
         \/ \E q \in DOMAIN keys : p = <<q, s[2], s[3]>>
  BY DEF Presented
<1>2. s[1] \in DOMAIN keys /\ s[2] \in Messages /\ IsSeq(s[3]) /\ Len(s[3]) = SpxCells
  BY DEF SignedOK, IsSigned, Genuine
<1>3. Near(s[3], s[3])
  BY DEF Near
<1>4. CASE p = s
  BY <1>2, <1>3, <1>4
<1>5. ASSUME NEW c \in 1..SpxCells, NEW v, p = <<s[1], s[2], [s[3] EXCEPT ![c] = v]>>
      PROVE  p[1] = s[1] /\ p[2] = s[2] /\ IsSeq(p[3]) /\ Near(p[3], s[3])
  <2>1. c \in 1..Len(s[3])
    BY <1>2
  <2> DEFINE x == s[3]
             y == [x EXCEPT ![c] = v]
  <2>2. IsSeq(x) /\ Len(x) = SpxCells /\ c \in 1..Len(x)
    BY <1>2, <2>1
  <2> HIDE DEF x
  <2>3. IsSeq(y)
    BY <2>2, SeqExcept
  <2>4. \A e \in 1..Len(x) : e # c => y[e] = x[e]
    BY <2>2, SeqExcept
  <2>5. IsSeq(y) /\ \A e \in 1..SpxCells : e # c => y[e] = x[e]
    BY <2>2, <2>3, <2>4
  <2>6. p[1] = s[1] /\ p[2] = s[2] /\ p[3] = y
    BY <1>5 DEF x
  <2> QED
    BY <2>5, <2>6 DEF Near, x
<1>6. CASE p = <<s[1], s[2], SubSeq(s[3], 1, SpxCells - 1)>>
  <2>1. p[1] = s[1] /\ p[2] = s[2] /\ p[3] = SubSeq(s[3], 0 + 1, 0 + (SpxCells - 1))
    BY <1>6, Layout
  <2>2. SpxCells - 1 \in Nat /\ SpxCells \in Nat
    BY Layout
  <2>3. Len(p[3]) = SpxCells - 1
    BY <1>2, <2>1, <2>2, SeqPart
  <2> QED
    BY <1>2, <2>1, <2>2, <2>3
<1>7. CASE \E n \in Messages : p = <<s[1], n, s[3]>>
  BY <1>2, <1>3, <1>7
<1>8. CASE \E q \in DOMAIN keys : p = <<q, s[2], s[3]>>
  BY <1>2, <1>3, <1>8
<1> QED
  BY <1>1, <1>2, <1>4, <1>5, <1>6, <1>7, <1>8

-------------------------------------------------------------------------------
(* The cells that verification reads next. *)
LEMMA CellsLaw ==
    ASSUME IsSeq(sig), Len(sig) = SpxCells, at \in Nat, NEW n \in Nat, at + n <= SpxCells
    PROVE  IsSeq(Cells(n)) /\ Len(Cells(n)) = n /\ \A c \in 1..n : Cells(n)[c] = sig[at + c]
BY SeqPart DEF Cells

(* Cells that are put at the end. *)
LEMMA NowLater ==
    ASSUME DigestOf(sig[1], key, msg) \in DOMAIN digests, Knows(digests', digests),
           sig'[1] = sig[1], key' = key, msg' = msg
    PROVE  Now' = Now /\ DigestOf(sig'[1], key', msg') \in DOMAIN digests'
BY DEF Now, Knows

(* What is good of FORS stays so when cells are put at the end, *)
LEMMA ForsStays ==
    ASSUME NEW k, NEW d, NEW x, NEW y, NEW n \in 0..ForsTrees, ForsGood(k, d, x, n),
           \A c \in 1..Len(x) : y[c] = x[c], Len(x) \in Nat, Len(x) >= ForsPlace(n, 0)
    PROVE  ForsGood(k, d, y, n)
<1> SUFFICES ASSUME NEW t \in 0..(n - 1), NEW c \in 1..(1 + ForsHeight)
             PROVE  y[ForsPlace(t, c)] = x[ForsPlace(t, c)]
  BY DEF ForsGood, ForsTreeGood
<1> DEFINE h == 1 + ForsHeight
<1>1. ForsTrees \in Nat /\ h \in Nat \ {0} /\ n \in Nat
  BY ForsSizes
<1>2. t * h \in Nat /\ n * h \in Nat /\ t * h + c \in 1..(n * h)
  <2>1. c \in 1..h
    OBVIOUS
  <2> HIDE DEF h
  <2> QED
    BY <1>1, <2>1, CutIn
<1>3. ForsPlace(t, c) = 1 + t * h + c /\ ForsPlace(n, 0) = 1 + n * h
  BY <1>2 DEF ForsPlace
<1> DEFINE a == t * h
           b == n * h
<1> HIDE DEF a, b
<1>4. a \in Nat /\ b \in Nat /\ a + c \in 1..b /\ ForsPlace(t, c) = 1 + a + c /\ Len(x) >= 1 + b
  BY <1>2, <1>3 DEF a, b
<1>5. ForsPlace(t, c) \in 1..Len(x)
  BY <1>4
<1> QED
  BY <1>5

(* and so does what is good of the layers. *)
LEMMA LayersStay ==
    ASSUME NEW bs, NEW k, NEW d, NEW x, NEW y, NEW n \in 0..D, LayersGood(bs, k, d, x, n),
           \A c \in 1..Len(x) : y[c] = x[c], Len(x) \in Nat, Len(x) >= LayerPlace(n, 0)
    PROVE  LayersGood(bs, k, d, y, n)
<1> SUFFICES ASSUME NEW l \in 0..(n - 1), NEW c \in 1..LayerCells
             PROVE  y[LayerPlace(l, c)] = x[LayerPlace(l, c)]
  BY DEF LayersGood, LayerGood, LayerMade
<1>1. D \in Nat /\ LayerCells \in Nat \ {0} /\ n \in Nat /\ ForsCells \in Nat
  BY SchemeSizes, Layout
<1>2. l * LayerCells \in Nat /\ n * LayerCells \in Nat /\ l * LayerCells + c \in 1..(n * LayerCells)
  BY <1>1, CutIn
<1> DEFINE a == l * LayerCells
           b == n * LayerCells
<1>3. LayerPlace(l, c) = 1 + ForsCells + a + c /\ LayerPlace(n, 0) = 1 + ForsCells + b
  BY <1>1, <1>2 DEF LayerPlace
<1> HIDE DEF a, b
<1>4. a \in Nat /\ b \in Nat /\ a + c \in 1..b
  BY <1>2 DEF a, b
<1>5. LayerPlace(l, c) \in 1..Len(x)
  BY <1>1, <1>3, <1>4
<1> QED
  BY <1>5

-------------------------------------------------------------------------------
(* From one place of a signature to the next. *)
LEMMA ForsPlaces ==
    ASSUME NEW t \in 0..ForsTrees
    PROVE  /\ ForsPlace(t, 0) \in Nat \ {0}
           /\ \A c \in Nat : ForsPlace(t, c) = ForsPlace(t, 0) + c
           /\ ForsPlace(t + 1, 0) = ForsPlace(t, 0) + 1 + ForsHeight
           /\ t < ForsTrees => ForsPlace(t, 0) + 1 + ForsHeight <= SpxCells
<1> DEFINE a == t * (1 + ForsHeight)
<1>1. ForsHeight \in Nat /\ ForsTrees \in Nat /\ t \in Nat
  BY ForsSizes
<1>2. a \in Nat /\ (t + 1) * (1 + ForsHeight) = a + 1 + ForsHeight
  BY <1>1
<1>3. \A c : ForsPlace(t, c) = 1 + a + c
  BY DEF ForsPlace
<1>4. ForsPlace(t + 1, 0) = 1 + (a + 1 + ForsHeight) + 0
  BY <1>2 DEF ForsPlace
<1>5. ASSUME t < ForsTrees PROVE ForsPlace(t, 1 + ForsHeight) <= SpxCells
  <2>1. t \in 0..(ForsTrees - 1) /\ 1 + ForsHeight \in 1..(1 + ForsHeight)
    BY <1>1, <1>5
  <2>2. ForsPlace(t, 1 + ForsHeight) \in 1..SpxCells
    BY <2>1, ForsPlaceIn
  <2> QED
    BY <2>2, Layout
<1> HIDE DEF a
<1> QED
  BY <1>1, <1>2, <1>3, <1>4, <1>5

(* The same for the layers. *)
LEMMA LayerPlaces ==
    ASSUME NEW l \in 0..D
    PROVE  /\ LayerPlace(l, 0) \in Nat \ {0}
           /\ \A c \in Nat : LayerPlace(l, c) = LayerPlace(l, 0) + c
           /\ LayerPlace(l + 1, 0) = LayerPlace(l, 0) + LayerCells
           /\ l < D => LayerPlace(l, 0) + LayerCells <= SpxCells
<1> DEFINE a == l * LayerCells
<1>1. LayerCells \in Nat \ {0} /\ ForsCells \in Nat /\ D \in Nat /\ l \in Nat
  BY Layout, SchemeSizes
<1>2. a \in Nat /\ (l + 1) * LayerCells = a + LayerCells
  BY <1>1
<1>3. \A c : LayerPlace(l, c) = 1 + ForsCells + a + c
  BY DEF LayerPlace
<1>4. LayerPlace(l + 1, 0) = 1 + ForsCells + (a + LayerCells) + 0
  BY <1>2 DEF LayerPlace
<1>5. ASSUME l < D PROVE LayerPlace(l, LayerCells) <= SpxCells
  <2>1. l \in 0..(D - 1) /\ LayerCells \in 1..LayerCells
    BY <1>1, <1>5
  <2>2. LayerPlace(l, LayerCells) \in 1..SpxCells
    BY <2>1, LayerPlaceIn
  <2> QED
    BY <2>2, Layout
<1> HIDE DEF a
<1> QED
  BY <1>1, <1>2, <1>3, <1>4, <1>5

(* Where FORS ends the layers begin, and where they end so does the signature. *)
LEMMA PlacesMeet ==
    /\ ForsPlace(0, 0) = 1 /\ ForsPlace(ForsTrees, 0) = LayerPlace(0, 0)
    /\ LayerPlace(0, 0) = 1 + ForsCells /\ LayerPlace(D, 0) = SpxCells
<1>1. ForsHeight \in Nat /\ LayerCells \in Nat /\ ForsCells \in Nat /\ D * LayerCells \in Nat
      /\ SpxCells = 1 + ForsCells + D * LayerCells /\ ForsCells = ForsTrees * (1 + ForsHeight)
  BY ForsSizes, Layout
<1>2. 0 * (1 + ForsHeight) = 0 /\ 0 * LayerCells = 0
  BY <1>1
<1> DEFINE a == D * LayerCells
           b == ForsTrees * (1 + ForsHeight)
<1> HIDE DEF a, b
<1>3. /\ ForsPlace(0, 0) = 1 + 0 + 0 /\ ForsPlace(ForsTrees, 0) = 1 + b + 0
      /\ LayerPlace(0, 0) = 1 + ForsCells + 0 + 0 /\ LayerPlace(D, 0) = 1 + ForsCells + a + 0
  BY <1>2 DEF ForsPlace, LayerPlace, a, b
<1>4. a \in Nat /\ SpxCells = 1 + ForsCells + a /\ ForsCells = b /\ b \in Nat
  BY <1>1 DEF a, b
<1> QED
  BY <1>3, <1>4

(* Where the addresses of a call stand. *)
LEMMA TopAddr ==
    OfTree(LayerQ(D - 1, 0), SetType(SetLayer(ZeroAddr, D - 1), HASHTREE))
<1>1. Byte(D - 1) = D - 1
  <2>1. D - 1 \in 0..255
    BY SchemeSizes
  <2> QED
    BY <2>1, SmallByte
<1>2. SetLayer(ZeroAddr, D - 1) = AddrOf(D - 1, 0, 0, 0, 0, 0, 0)
  BY <1>1, ZeroFields, SetterFields
<1>3. SetType(SetLayer(ZeroAddr, D - 1), HASHTREE) = AddrOf(D - 1, 0, HASHTREE, 0, 0, 0, 0)
  BY <1>2, SetterFields, TypeBytes
<1>4. TreeAddr(LayerQ(D - 1, 0), 0, 0, 0) = AddrOf(D - 1, 0, HASHTREE, 0, 0, 0, 0)
  BY TreeFields
<1> QED
  BY <1>3, <1>4 DEF OfTree

(* The addresses that a call begins with, *)
LEMMA FirstAddrs ==
    ASSUME NEW t, NEW x
    PROVE  LET wa == SetKeypair(SetTree(SetType(ZeroAddr, WOTS), t), x)
           IN  /\ wa = AddrOf(0, t, WOTS, Byte(x), 0, 0, 0)
               /\ IsWotsAddr(wa)
               /\ OfTree(ForsQ(t, x), ForsTreeAddr(wa))
               /\ ForsPkAddr(wa) = AddrOf(0, t, FORSPK, Byte(x), 0, 0, 0)
               /\ IsLayerAddr(SetType(ZeroAddr, HASHTREE))
<1> DEFINE wa == SetKeypair(SetTree(SetType(ZeroAddr, WOTS), t), x)
           w == AddrOf(0, t, WOTS, Byte(x), 0, 0, 0)
<1>1. SetType(ZeroAddr, WOTS) = AddrOf(0, 0, WOTS, 0, 0, 0, 0)
  BY ZeroFields, SetterFields, TypeBytes
<1>2. SetTree(SetType(ZeroAddr, WOTS), t) = AddrOf(0, t, WOTS, 0, 0, 0, 0)
  BY <1>1, SetterFields
<1>3. wa = w
  BY <1>2, SetterFields
<1>4. IsWotsAddr(w)
  <2>1. At(KpOf(0, 0, t, x), 0, 0) = w
    BY KpFields
  <2> HIDE DEF w
  <2> QED
    BY <2>1 DEF IsWotsAddr, OfKey
<1>5. w.layer = 0 /\ w.tree = t /\ w.kp1 = Byte(x)
  BY FieldsOf
<1> HIDE DEF w, wa
<1>6. CopyKeypair(ZeroAddr, w) = AddrOf(0, t, 0, Byte(x), 0, 0, 0)
  BY <1>5, ZeroFields, CopyFields
<1>7. ForsTreeAddr(w) = AddrOf(0, t, FORSTREE, Byte(x), 0, 0, 0)
      /\ ForsPkAddr(w) = AddrOf(0, t, FORSPK, Byte(x), 0, 0, 0)
  BY <1>6, SetterFields, TypeBytes DEF ForsTreeAddr, ForsPkAddr
<1>8. OfTree(ForsQ(t, x), ForsTreeAddr(w))
  <2>1. TreeAddr(ForsQ(t, x), 0, 0, 0) = AddrOf(0, t, FORSTREE, Byte(x), 0, 0, 0)
    BY DEF TreeAddr, ForsQ, AddrOf
  <2> QED
    BY <1>7, <2>1 DEF OfTree
<1>9. IsLayerAddr(SetType(ZeroAddr, HASHTREE))
  <2>1. SetType(ZeroAddr, HASHTREE) = AddrOf(0, 0, HASHTREE, 0, 0, 0, 0)
    BY ZeroFields, SetterFields, TypeBytes
  <2>2. TreeAddr(LayerQ(0, 0), 0, 0, 0) = AddrOf(0, 0, HASHTREE, 0, 0, 0, 0)
    BY TreeFields
  <2> QED
    BY <2>1, <2>2 DEF IsLayerAddr, OfTree
<1> QED
  BY <1>3, <1>4, <1>7, <1>8, <1>9 DEF wa, w

AtLayer(ta, wa, k, l, t, x) ==
    /\ OfTree(LayerQ(l, t), ta)
    /\ OfKey(KpOf(k, l, t, x), wa)
    /\ wa.layer = l /\ wa.tree = t /\ wa.kp1 = x

LEMMA NextAddrs ==
    ASSUME NEW a, IsLayerAddr(a), NEW b, IsWotsAddr(b), NEW k, NEW l \in 0..(D - 1), NEW t, NEW x \in 0..255
    PROVE  LET ta == LayerTreeAddr(a, l, t)
               wa == LayerWotsAddr(b, ta, x)
           IN  AtLayer(ta, wa, k, l, t, x)
<1> DEFINE ta == LayerTreeAddr(a, l, t)
           wa == LayerWotsAddr(b, ta, x)
<1>1. Byte(l) = l /\ Byte(x) = x
  <2>1. l \in 0..255
    BY SchemeSizes
  <2> QED
    BY <2>1, SmallByte
<1>2. PICK m, u, c, v, w : a = TreeAddr(LayerQ(m, u), c, v, w)
  BY DEF IsLayerAddr, OfTree
<1>3. a = AddrOf(m, u, HASHTREE, 0, c, v, w)
  BY <1>2, TreeFields
<1>4. ta = AddrOf(l, t, HASHTREE, 0, c, v, w)
  <2>1. SetLayer(a, l) = AddrOf(l, u, HASHTREE, 0, c, v, w)
    BY <1>1, <1>3, SetterFields
  <2> QED
    BY <2>1, SetterFields DEF LayerTreeAddr
<1>5. OfTree(LayerQ(l, t), ta)
  <2>1. ta = TreeAddr(LayerQ(l, t), c, v, w)
    BY <1>4, TreeFields
  <2> HIDE DEF ta
  <2> QED
    BY <2>1 DEF OfTree
<1>6. ta.layer = l /\ ta.tree = t
  BY <1>4, FieldsOf
<1> HIDE DEF ta
<1>7. PICK kp, e, h : b = At(kp, e, h)
  BY DEF IsWotsAddr, OfKey
<1>8. b = AddrOf(kp.layer, kp.tree, WOTS, kp.kp1, e, 0, h)
  BY <1>7 DEF At, AddrOf
<1>9. wa = AddrOf(l, t, WOTS, x, e, 0, h)
  <2>1. CopySubtree(b, ta) = AddrOf(l, t, WOTS, kp.kp1, e, 0, h)
    BY <1>6, <1>8, CopyFields
  <2> QED
    BY <1>1, <2>1, SetterFields DEF LayerWotsAddr
<1>10. wa.layer = l /\ wa.tree = t /\ wa.kp1 = x
  BY <1>9, FieldsOf
<1>11. OfKey(KpOf(k, l, t, x), wa)
  <2>1. At(KpOf(k, l, t, x), e, h) = wa
    BY <1>1, <1>9, KpFields
  <2> HIDE DEF wa
  <2> QED
    BY <2>1 DEF OfKey
<1> QED
  BY <1>5, <1>10, <1>11 DEF ta, AtLayer

-------------------------------------------------------------------------------
(* An oracle that was not asked. *)
LEMMA NoOracle == \A S : IsOracle(<<>>, S)
<1>1. DOMAIN <<>> = {}
  OBVIOUS
<1> QED
  BY <1>1 DEF IsOracle

(* Init establishes Inv. *)
LEMMA InitInv == Init => Inv
<1> SUFFICES ASSUME Init PROVE Inv
  OBVIOUS
<1>1. OraclesOK
  BY NoOracle DEF Init, OraclesOK
<1>2. KeysOK
  <2>1. keys = <<>> /\ DOMAIN <<>> = {}
    BY DEF Init
  <2> QED
    BY <2>1 DEF KeysOK
<1>3. SignedOK /\ OtsOK
  BY DEF Init, SignedOK, OtsOK
<1>4. Control
  <2>1. 0 \in 0..(TwoTo[TreeHeight] - 1)
    BY SchemeSizes
  <2>2. 0 \in 0..MaxCalls
    BY SchemeAssumption
  <2> QED
    BY <2>1, <2>2 DEF Init, NoLocals, Control
<1>5. Calls
  BY DEF Init, NoLocals, Calls
<1> QED
  BY <1>1, <1>2, <1>3, <1>4, <1>5 DEF Inv

(* crypto_sign_seed_keypair: the root in the public key is that of the top tree. *)
LEMMA KeypairInv ==
    ASSUME Inv, NEW k \in Keys, Keypair(k)
    PROVE  Inv'
<1>1. /\ pc = "idle" /\ pc' = "idle" /\ calls < MaxCalls /\ calls' = calls + 1
      /\ state_seeded' = k /\ result' = Nothing /\ k \notin DOMAIN keys
      /\ UNCHANGED <<digests, bytes, signed, ots, at, i, idx_leaf>>
  BY DEF Keypair, NewCall, locals
<1> DEFINE top == SetType(SetLayer(ZeroAddr, D - 1), HASHTREE)
           r == LayerTree(k, k, 0, top)
<1>2. keys' = Learn(keys, k, <<k, r.root>>)
  BY <1>1 DEF Keypair
<1>3. r.root = LayerRoot(k, D - 1, 0)
  <2>1. OfTree(LayerQ(D - 1, 0), top)
    BY TopAddr
  <2> HIDE DEF top
  <2>2. IsLayerTree(r, k, D - 1, 0, 0)
    BY <2>1, LayerTreeLaw
  <2> HIDE DEF r
  <2> QED
    BY <2>2 DEF IsLayerTree
<1> HIDE DEF r, top
<1>4. IsLearned(keys', keys, k, <<k, LayerRoot(k, D - 1, 0)>>)
  BY <1>2, <1>3, LearnLaw
<1>5. KeysOK'
  BY <1>4 DEF Inv, KeysOK, IsLearned
<1>6. SignedOK'
  <2>1. Knows(digests', digests) /\ Knows(bytes', bytes)
    BY <1>1, KnowsSelf
  <2>2. DOMAIN keys \subseteq DOMAIN keys'
    BY <1>4 DEF IsLearned
  <2> QED
    BY <1>1, <2>1, <2>2, SignedStays DEF Inv
<1>7. OraclesOK' /\ OtsOK'
  BY <1>1 DEF Inv, OraclesOK, OtsOK
<1>8. Control'
  <2>1. calls' \in 0..MaxCalls
    BY <1>1, SchemeAssumption DEF Inv, Control
  <2> QED
    BY <1>1, <2>1 DEF Inv, Control
<1>9. Calls'
  BY <1>1 DEF Inv, Calls
<1> QED
  BY <1>5, <1>6, <1>7, <1>8, <1>9 DEF Inv

(* The set-up of a call. *)
LEMMA PrepareLaw ==
    ASSUME Inv, NEW k \in DOMAIN keys, NEW m \in Messages, NEW R, Prepare(k, m, R),
           IsSeq(sig'), sig'[1] = R, keys' = keys
    PROVE  /\ IsOracle(digests', Digest) /\ Knows(digests', digests)
           /\ Call' /\ InFors' /\ i' = 0
           /\ state_seeded' = k
           /\ idx_leaf' \in 0..(TwoTo[TreeHeight] - 1)
<1> DEFINE y == DigestOf(R, k, m)
<1>1. PICK d \in Known(digests, y, Digest) :
         /\ digests' = Learn(digests, y, d)
         /\ mhash' = d.mhash /\ tree' = d.tree /\ idx_leaf' = d.idx_leaf
  BY DEF Prepare, HashMessage
<1>2. IsOracle(digests, Digest)
  BY DEF Inv, OraclesOK
<1>3. IsOracle(digests', Digest) /\ Knows(digests', digests) /\ d \in Digest
  BY <1>1, <1>2, OracleLaw
<1>4. IsLearned(digests', digests, y, d)
  BY <1>1, LearnLaw
<1>5. y \in DOMAIN digests' /\ digests'[y] = d
  BY <1>4 DEF IsLearned
<1>6. key' = k /\ msg' = m /\ state_seeded' = k /\ i' = 0 /\ fors_roots' = <<>>
  BY DEF Prepare, Seeded
<1>7. DigestOf(sig'[1], key', msg') = y
  BY <1>6
<1> HIDE DEF y
<1>8. Now' = d
  BY <1>5, <1>7 DEF Now
<1>9. idx_leaf' \in 0..(TwoTo[TreeHeight] - 1)
  BY <1>1, <1>3, DigestFields
<1> DEFINE wa == SetKeypair(SetTree(SetType(ZeroAddr, WOTS), tree'), idx_leaf')
<1>10. wots_addr' = wa /\ tree_addr' = SetType(ZeroAddr, HASHTREE) /\ fors_addr' = ForsTreeAddr(wots_addr')
  BY DEF Prepare
<1>11. /\ wa = AddrOf(0, tree', WOTS, Byte(idx_leaf'), 0, 0, 0)
       /\ IsWotsAddr(wa)
       /\ OfTree(ForsQ(tree', idx_leaf'), ForsTreeAddr(wa))
       /\ IsLayerAddr(SetType(ZeroAddr, HASHTREE))
  BY FirstAddrs
<1> HIDE DEF wa
<1>12. Call'
  <2>1. DigestOf(sig'[1], key', msg') \in DOMAIN digests'
    BY <1>5, <1>7
  <2>2. mhash' = Now'.mhash
    BY <1>1, <1>8
  <2>3. IsLayerAddr(tree_addr') /\ IsWotsAddr(wots_addr')
    BY <1>10, <1>11
  <2> QED
    BY <1>6, <2>1, <2>2, <2>3 DEF Call
<1>13. InFors'
  <2>1. tree' = Now'.tree /\ idx_leaf' = Now'.idx_leaf
    BY <1>1, <1>8
  <2>2. IsSeq(fors_roots') /\ Len(fors_roots') = i'
    BY <1>6, SeqNone
  <2>3. i' \in 0..ForsTrees
    BY <1>6, ForsSizes
  <2>4. wots_addr' = AddrOf(0, tree', WOTS, Byte(idx_leaf'), 0, 0, 0)
    BY <1>10, <1>11
  <2>5. OfTree(ForsQ(tree', idx_leaf'), fors_addr')
    BY <1>10, <1>11
  <2> QED
    BY <2>1, <2>2, <2>3, <2>4, <2>5 DEF InFors
<1> QED
  BY <1>3, <1>6, <1>9, <1>12, <1>13

(* crypto_sign_signature begins. *)
LEMMA SignInv ==
    ASSUME Inv, NEW k \in Keys, NEW m \in Messages, Sign(k, m)
    PROVE  Inv'
<1>1. PICK R : Prepare(k, m, R) /\ sig' = <<R>>
  BY DEF Sign
<1>2. /\ pc = "idle" /\ pc' = "sign_fors" /\ calls < MaxCalls /\ calls' = calls + 1
      /\ k \in DOMAIN keys /\ result' = Nothing
      /\ UNCHANGED <<keys, bytes, signed, ots>>
  BY DEF Sign, NewCall
<1>3. IsSeq(sig') /\ Len(sig') = 1 /\ sig'[1] = R
  BY <1>1, SeqOne
<1>4. IsOracle(digests', Digest) /\ Knows(digests', digests) /\ Call' /\ InFors' /\ i' = 0
      /\ state_seeded' = k /\ idx_leaf' \in 0..(TwoTo[TreeHeight] - 1)
  BY <1>1, <1>2, <1>3, PrepareLaw
<1>5. KeysOK' /\ OtsOK' /\ OraclesOK'
  BY <1>2, <1>4 DEF Inv, KeysOK, OtsOK, OraclesOK
<1>6. SignedOK'
  BY <1>2, <1>4, KnowsSelf, SignedStays DEF Inv
<1>7. Control'
  <2>1. calls' \in 0..MaxCalls
    BY <1>2, SchemeAssumption DEF Inv, Control
  <2> QED
    BY <1>2, <1>4, <2>1 DEF Control
<1>8. SigningFors'
  <2>1. Len(sig') = ForsPlace(i', 0)
    BY <1>3, <1>4, PlacesMeet
  <2>2. 0..(i' - 1) = {}
    BY <1>4
  <2> QED
    BY <2>1, <2>2 DEF SigningFors, ForsGood
<1>9. Calls'
  BY <1>2, <1>4, <1>8 DEF Calls
<1> QED
  BY <1>5, <1>6, <1>7, <1>9 DEF Inv

(* crypto_sign_verify begins, or refuses the length. *)
LEMMA VerifyInv ==
    ASSUME Inv, NEW p \in Presented, Verify(p[1], p[2], p[3])
    PROVE  Inv'
<1> DEFINE k == p[1]
           m == p[2]
           x == p[3]
<1>1. /\ k \in DOMAIN keys /\ m \in Messages
      /\ Len(x) = SpxCells => IsSeq(x) /\ \E s \in signed : Near(x, s[3])
  BY PresentedLaw DEF Inv
<1> HIDE DEF k, m, x
<1>2. Verify(k, m, x)
  BY DEF k, m, x
<1>3. pc = "idle" /\ calls < MaxCalls /\ calls' = calls + 1 /\ UNCHANGED <<keys, bytes, signed, ots>>
  BY <1>2 DEF Verify, NewCall
<1>4. at = 0 /\ i = 0
  BY <1>3 DEF Inv, Calls
<1>5. calls' \in 0..MaxCalls
  BY <1>3, SchemeAssumption DEF Inv, Control
<1>6. CASE Len(x) # SpxCells
  <2>1. sig' = x /\ result' = -1 /\ pc' = "verified"
        /\ UNCHANGED <<state_seeded, at, i, idx_leaf, digests>>
    BY <1>2, <1>6 DEF Verify
  <2>2. KeysOK' /\ OtsOK' /\ OraclesOK' /\ SignedOK'
    <3>1. SignedOK'
      BY <1>3, <2>1, KnowsSelf, SignedStays DEF Inv
    <3> QED
      BY <1>3, <2>1, <3>1 DEF Inv, KeysOK, OtsOK, OraclesOK
  <2>3. Control'
    BY <1>5, <2>1 DEF Inv, Control
  <2>4. Calls'
    <3>1. i' \in 0..D /\ at' = 0
      BY <1>4, <2>1, SchemeSizes
    <3> QED
      BY <1>6, <2>1, <3>1 DEF Calls
  <2> QED
    BY <2>2, <2>3, <2>4 DEF Inv
<1>7. CASE Len(x) = SpxCells
  <2>1. Prepare(k, m, x[1]) /\ sig' = x /\ at' = 1 /\ result' = Nothing /\ pc' = "verify_fors"
    BY <1>2, <1>7 DEF Verify
  <2>2. IsSeq(sig') /\ sig'[1] = x[1]
    BY <1>1, <1>7, <2>1
  <2>3. IsOracle(digests', Digest) /\ Knows(digests', digests) /\ Call' /\ InFors' /\ i' = 0
        /\ state_seeded' = k /\ idx_leaf' \in 0..(TwoTo[TreeHeight] - 1)
    BY <1>1, <1>3, <2>1, <2>2, PrepareLaw
  <2>4. KeysOK' /\ OtsOK' /\ OraclesOK'
    BY <1>3, <2>3 DEF Inv, KeysOK, OtsOK, OraclesOK
  <2>5. SignedOK'
    BY <1>3, <2>3, KnowsSelf, SignedStays DEF Inv
  <2>6. Control'
    <3>1. k \in Keys
      BY <1>1 DEF Inv, KeysOK
    <3> QED
      BY <1>5, <2>1, <2>3, <3>1 DEF Control
  <2>7. Verifying' /\ VerifyingFors'
    <3>1. Verifying'
      BY <1>1, <1>3, <1>7, <2>1 DEF Verifying
    <3>2. at' = ForsPlace(i', 0) /\ 0..(i' - 1) = {}
      BY <2>1, <2>3, PlacesMeet
    <3> QED
      BY <3>1, <3>2 DEF VerifyingFors
  <2>8. Calls'
    BY <2>1, <2>3, <2>7 DEF Calls
  <2> QED
    BY <2>4, <2>5, <2>6, <2>8 DEF Inv
<1> QED
  BY <1>6, <1>7

-------------------------------------------------------------------------------
(* The loops over the trees of FORS. *)
NowQ == ForsQ(Now.tree, Now.idx_leaf)

(* What the two loops have in common. *)
LEMMA ForsStep ==
    ASSUME Call, InFors, i < ForsTrees, NEW v, fors_roots' = Append(fors_roots, v),
           OfTree(ForsQ(tree, idx_leaf), fors_addr'), i' = i + 1, IsSeq(sig'), sig'[1] = sig[1],
           UNCHANGED <<keys, state_seeded, key, msg, mhash, tree, idx_leaf, wots_addr, tree_addr, digests>>
    PROVE  /\ Now' = Now /\ Call' /\ InFors'
           /\ \A t \in 0..(i - 1) : RootIs(fors_roots', key', Now', t) <=> RootIs(fors_roots, key, Now, t)
           /\ \A t : t = i => (RootIs(fors_roots', key', Now', t) <=> v = ForsRoot(key, NowQ, t))
<1>1. Now' = Now /\ DigestOf(sig'[1], key', msg') \in DOMAIN digests'
  BY KnowsSelf, NowLater DEF Call
<1>2. Call'
  BY <1>1 DEF Call
<1>3. i \in 0..ForsTrees /\ ForsTrees \in Nat
  BY ForsSizes DEF InFors
<1>4. /\ IsSeq(fors_roots) /\ Len(fors_roots) = i
  BY DEF InFors
<1>5. /\ IsSeq(fors_roots') /\ Len(fors_roots') = i + 1
      /\ \A c \in 1..i : fors_roots'[c] = fors_roots[c]
      /\ fors_roots'[i + 1] = v
  BY <1>4, SeqAppend
<1>6. InFors'
  <2>1. i' \in 0..ForsTrees
    BY <1>3
  <2> QED
    BY <1>1, <1>5, <2>1 DEF InFors
<1>7. ASSUME NEW t \in 0..(i - 1) PROVE RootIs(fors_roots', key', Now', t) <=> RootIs(fors_roots, key, Now, t)
  <2>1. t + 1 \in 1..i
    BY <1>3
  <2> QED
    BY <1>1, <1>5, <2>1 DEF RootIs
<1>8. ASSUME NEW t, t = i PROVE RootIs(fors_roots', key', Now', t) <=> v = ForsRoot(key, NowQ, t)
  <2>1. fors_roots'[t + 1] = v
    BY <1>5, <1>8
  <2> QED
    BY <1>1, <2>1 DEF RootIs, NowQ
<1> QED
  BY <1>1, <1>2, <1>6, <1>7, <1>8

(* What a step of either loop leaves alone. *)
LEMMA Quiet ==
    ASSUME Inv, UNCHANGED <<keys, signed, ots, digests, calls, state_seeded, result, bytes, idx_leaf>>,
           pc' \in {"idle", "sign_fors", "sign_layers", "verify_fors", "verify_layers", "verified"}
    PROVE  OraclesOK' /\ KeysOK' /\ SignedOK' /\ OtsOK' /\ Control'
<1>1. SignedOK'
  BY KnowsSelf, SignedStays DEF Inv
<1> QED
  BY <1>1 DEF Inv, KeysOK, OtsOK, OraclesOK, Control

(* The numbers up to n. *)
LEMMA UpTo ==
    ASSUME NEW n \in Nat, NEW t
    PROVE  t \in 0..((n + 1) - 1) <=> t \in 0..(n - 1) \/ t = n
OBVIOUS

(* A tree of FORS is signed with. *)
LEMMA SignForsInv ==
    ASSUME Inv, SignFors
    PROVE  Inv' /\ sig'[1] = sig[1]
<1> DEFINE x == MessageToIndices(mhash)[i]
           r == ForsSignTree(i, x, key, key, fors_addr)
           q == ForsQ(tree, idx_leaf)
<1>1. Call /\ InFors /\ SigningFors /\ i < ForsTrees
  BY DEF SignFors, Inv, Calls
<1>2. sig' = sig \o r.cells /\ fors_roots' = Append(fors_roots, r.root) /\ fors_addr' = r.addr
  <2>1. state_seeded = key
    BY <1>1 DEF Call
  <2> QED
    BY <2>1 DEF SignFors
<1>3. /\ pc = "sign_fors" /\ i' = i + 1
      /\ UNCHANGED <<pc, calls, keys, state_seeded, key, msg, at, root, mhash, tree, idx_leaf,
                     wots_addr, tree_addr, result, digests, bytes, signed, ots>>
  BY DEF SignFors
<1>4. i \in 0..(ForsTrees - 1) /\ i \in Nat /\ ForsTrees \in Nat /\ ForsHeight \in Nat
  BY <1>1, ForsSizes DEF InFors
<1>5. IsForsQ(q) /\ OfTree(q, fors_addr) /\ q = NowQ
  BY <1>1 DEF InFors, IsForsQ, NowQ
<1> HIDE DEF q, x
<1>6. IsForsCells(r.cells, key, q, i, x) /\ r.root = ForsRoot(key, q, i) /\ OfTree(q, r.addr)
  BY <1>4, <1>5, ForsSignLaw
<1> HIDE DEF r
<1>7. IsSeq(sig) /\ Len(sig) = ForsPlace(i, 0) /\ Len(sig) \in Nat \ {0}
  <2>1. i \in 0..ForsTrees
    BY <1>1 DEF InFors
  <2> QED
    BY <1>1, <2>1, ForsPlaces DEF Call, SigningFors
<1>8. /\ IsSeq(r.cells) /\ Len(r.cells) = 1 + ForsHeight
      /\ \A c \in 1..(1 + ForsHeight) : r.cells[c] = ForsCell(key, q, i, x, c)
  BY <1>6 DEF IsForsCells
<1>9. /\ IsSeq(sig') /\ Len(sig') = Len(sig) + (1 + ForsHeight)
      /\ \A c \in 1..Len(sig) : sig'[c] = sig[c]
      /\ \A c \in 1..(1 + ForsHeight) : sig'[Len(sig) + c] = r.cells[c]
  <2> DEFINE y == r.cells
             z == sig \o y
  <2>1. IsSeq(y) /\ Len(y) = 1 + ForsHeight
    BY <1>8
  <2> HIDE DEF y
  <2>2. IsSeq(z) /\ Len(z) = Len(sig) + Len(y)
    BY <1>7, <2>1, SeqConcat
  <2>3. \A c \in 1..Len(sig) : z[c] = sig[c]
    BY <1>7, <2>1, SeqConcat
  <2>4. \A c \in 1..Len(y) : z[Len(sig) + c] = y[c]
    BY <1>7, <2>1, SeqConcat
  <2> QED
    BY <1>2, <2>1, <2>2, <2>3, <2>4 DEF y
<1>10. sig'[1] = sig[1]
  <2>1. 1 \in 1..Len(sig)
    BY <1>7
  <2> QED
    BY <1>9, <2>1
<1>11. /\ Now' = Now /\ Call' /\ InFors'
       /\ \A t \in 0..(i - 1) : RootIs(fors_roots', key', Now', t) <=> RootIs(fors_roots, key, Now, t)
       /\ \A t : t = i => (RootIs(fors_roots', key', Now', t) <=> r.root = ForsRoot(key, NowQ, t))
  <2>1. OfTree(ForsQ(tree, idx_leaf), fors_addr')
    BY <1>2, <1>6 DEF q
  <2> QED
    BY <1>1, <1>2, <1>3, <1>9, <1>10, <2>1, ForsStep
<1>12. \A t \in 0..(i' - 1) : RootIs(fors_roots', key', Now', t)
  <2> SUFFICES ASSUME NEW t \in 0..(i' - 1) PROVE RootIs(fors_roots', key', Now', t)
    OBVIOUS
  <2>1. t \in 0..(i - 1) \/ t = i
    BY <1>3, <1>4, UpTo
  <2>2. t = i => r.root = ForsRoot(key, NowQ, t)
    BY <1>5, <1>6
  <2> QED
    BY <1>1, <1>11, <2>1, <2>2 DEF SigningFors
<1>13. ForsGood(key', Now', sig', i')
  <2>1. ForsGood(key, Now, sig', i)
    <3>1. ForsGood(key, Now, sig, i) /\ i \in 0..ForsTrees
      BY <1>1 DEF SigningFors, InFors
    <3>2. Len(sig) \in Nat /\ Len(sig) >= ForsPlace(i, 0)
      BY <1>7
    <3> QED
      BY <1>9, <3>1, <3>2, ForsStays
  <2>2. ForsTreeGood(key, Now, sig', i)
    <3> SUFFICES ASSUME NEW c \in 1..(1 + ForsHeight)
                 PROVE  sig'[ForsPlace(i, c)] = ForsCell(key, NowQ, i, MessageToIndices(Now.mhash)[i], c)
      BY DEF ForsTreeGood, NowQ
    <3>1. ForsPlace(i, c) = Len(sig) + c
      <4>1. c \in Nat /\ i \in 0..ForsTrees
        BY <1>1 DEF InFors
      <4> QED
        BY <1>7, <4>1, ForsPlaces
    <3>2. MessageToIndices(Now.mhash)[i] = x
      BY <1>1 DEF Call, x
    <3> QED
      BY <1>5, <1>8, <1>9, <3>1, <3>2
  <2>3. \A t : t \in 0..(i' - 1) => t \in 0..(i - 1) \/ t = i
    BY <1>3, <1>4, UpTo
  <2>4. \A t \in 0..(i' - 1) : ForsTreeGood(key, Now, sig', t)
    BY <2>1, <2>2, <2>3 DEF ForsGood
  <2> QED
    BY <1>3, <1>11, <2>4 DEF ForsGood
<1>14. Len(sig') = ForsPlace(i', 0)
  <2>1. i \in 0..ForsTrees
    BY <1>1 DEF InFors
  <2>2. ForsPlace(i + 1, 0) = ForsPlace(i, 0) + 1 + ForsHeight
    BY <2>1, ForsPlaces
  <2> QED
    BY <1>3, <1>4, <1>7, <1>9, <2>2
<1>15. Calls'
  BY <1>3, <1>11, <1>12, <1>13, <1>14 DEF Calls, SigningFors
<1> QED
  BY <1>3, <1>10, <1>15, Quiet DEF Inv

(* A tree of FORS is verified: its root is right if its cells are. *)
LEMMA VerifyForsInv ==
    ASSUME Inv, VerifyFors
    PROVE  Inv'
<1> DEFINE x == MessageToIndices(mhash)[i]
           y == Cells(1 + ForsHeight)
           r == ForsRootFromSig(i, x, y, key, fors_addr)
           q == ForsQ(tree, idx_leaf)
<1>1. Call /\ InFors /\ Verifying /\ VerifyingFors /\ i < ForsTrees
  BY DEF VerifyFors, Inv, Calls
<1>2. fors_roots' = Append(fors_roots, r.root) /\ fors_addr' = r.addr
  <2>1. state_seeded = key
    BY <1>1 DEF Call
  <2> QED
    BY <2>1 DEF VerifyFors
<1>3. /\ pc = "verify_fors" /\ i' = i + 1 /\ at' = at + 1 + ForsHeight
      /\ UNCHANGED <<pc, calls, keys, state_seeded, key, msg, sig, root, mhash, tree, idx_leaf,
                     wots_addr, tree_addr, result, digests, bytes, signed, ots>>
  BY DEF VerifyFors
<1>4. i \in 0..(ForsTrees - 1) /\ i \in 0..ForsTrees /\ i \in Nat /\ ForsTrees \in Nat /\ ForsHeight \in Nat
  BY <1>1, ForsSizes DEF InFors
<1>5. IsForsQ(q) /\ OfTree(q, fors_addr) /\ q = NowQ
  BY <1>1 DEF InFors, IsForsQ, NowQ
<1>6. IsSeq(y) /\ Len(y) = 1 + ForsHeight /\ \A c \in 1..(1 + ForsHeight) : y[c] = sig[at + c]
  <2>1. at = ForsPlace(i, 0) /\ at \in Nat /\ at + (1 + ForsHeight) <= SpxCells
    BY <1>1, <1>4, ForsPlaces, Layout DEF VerifyingFors
  <2>2. IsSeq(sig) /\ Len(sig) = SpxCells
    BY <1>1 DEF Call, Verifying
  <2>3. 1 + ForsHeight \in Nat
    BY <1>4
  <2> QED
    BY <2>1, <2>2, <2>3, CellsLaw
<1>7. x \in 0..(TwoTo[ForsHeight] - 1)
  <2>1. mhash \in MHashes
    <3>1. Now \in Digest /\ mhash = Now.mhash
      BY <1>1 DEF Inv, OraclesOK, IsOracle, Call, Now
    <3> QED
      BY <3>1, DigestFields
  <2> QED
    BY <1>4, <2>1, IndexRange
<1> HIDE DEF q, x, y
<1>8. IsForsRoot(r, key, q, i, x, y)
  BY <1>4, <1>5, <1>6, <1>7, ForsRootLaw
<1> HIDE DEF r
<1>9. /\ OfTree(q, r.addr)
      /\ r.root = ForsRoot(key, q, i) <=> \A c \in 1..(1 + ForsHeight) : y[c] = ForsCell(key, q, i, x, c)
  BY <1>8 DEF IsForsRoot
<1>10. /\ Now' = Now /\ Call' /\ InFors'
       /\ \A t \in 0..(i - 1) : RootIs(fors_roots', key', Now', t) <=> RootIs(fors_roots, key, Now, t)
       /\ \A t : t = i => (RootIs(fors_roots', key', Now', t) <=> r.root = ForsRoot(key, NowQ, t))
  <2>1. OfTree(ForsQ(tree, idx_leaf), fors_addr')
    BY <1>2, <1>9 DEF q
  <2>2. IsSeq(sig') /\ sig'[1] = sig[1]
    BY <1>1, <1>3 DEF Call
  <2> QED
    BY <1>1, <1>2, <1>3, <2>1, <2>2, ForsStep
<1>11. \A t \in 0..(i - 1) : RootIs(fors_roots', key', Now', t) <=> RootIs(fors_roots, key, Now, t)
  BY <1>10
<1>12. \A t : t = i => (RootIs(fors_roots', key', Now', t) <=> r.root = ForsRoot(key, NowQ, t))
  BY <1>10
<1>13. r.root = ForsRoot(key, NowQ, i) <=> ForsTreeGood(key, Now, sig, i)
  <2>1. MessageToIndices(Now.mhash)[i] = x
    BY <1>1 DEF Call, x
  <2>2. \A c \in 1..(1 + ForsHeight) : ForsPlace(i, c) = at + c
    <3>1. at = ForsPlace(i, 0)
      BY <1>1 DEF VerifyingFors
    <3> QED
      BY <1>4, <3>1, ForsPlaces
  <2>3. ForsTreeGood(key, Now, sig, i) <=>
           \A c \in 1..(1 + ForsHeight) : sig[ForsPlace(i, c)] = ForsCell(key, NowQ, i, x, c)
    BY <2>1 DEF ForsTreeGood, NowQ
  <2>4. \A c \in 1..(1 + ForsHeight) : y[c] = sig[ForsPlace(i, c)]
    BY <1>6, <2>2
  <2>5. r.root = ForsRoot(key, NowQ, i) <=> \A c \in 1..(1 + ForsHeight) : y[c] = ForsCell(key, NowQ, i, x, c)
    BY <1>5, <1>9
  <2> DEFINE P(c) == y[c] = ForsCell(key, NowQ, i, x, c)
             Q(c) == sig[ForsPlace(i, c)] = ForsCell(key, NowQ, i, x, c)
  <2>6. \A c \in 1..(1 + ForsHeight) : P(c) <=> Q(c)
    BY <2>4
  <2>7. ForsTreeGood(key, Now, sig, i) <=> \A c \in 1..(1 + ForsHeight) : Q(c)
    BY <2>3
  <2>8. r.root = ForsRoot(key, NowQ, i) <=> \A c \in 1..(1 + ForsHeight) : P(c)
    BY <2>5
  <2> HIDE DEF P, Q
  <2> QED
    BY <2>6, <2>7, <2>8
<1>14. \A t \in 0..(i' - 1) : RootIs(fors_roots', key', Now', t) <=> ForsTreeGood(key', Now', sig', t)
  <2> SUFFICES ASSUME NEW t \in 0..(i' - 1)
               PROVE  RootIs(fors_roots', key', Now', t) <=> ForsTreeGood(key, Now, sig, t)
    BY <1>3, <1>10
  <2>1. t \in 0..(i - 1) \/ t = i
    BY <1>3, <1>4, UpTo
  <2>2. t \in 0..(i - 1) => (RootIs(fors_roots, key, Now, t) <=> ForsTreeGood(key, Now, sig, t))
    BY <1>1 DEF VerifyingFors
  <2>3. CASE t \in 0..(i - 1)
    <3>1. RootIs(fors_roots', key', Now', t) <=> RootIs(fors_roots, key, Now, t)
      BY <1>11, <2>3
    <3> QED
      BY <2>2, <2>3, <3>1
  <2>4. CASE t = i
    <3>1. RootIs(fors_roots', key', Now', t) <=> r.root = ForsRoot(key, NowQ, t)
      BY <1>12, <2>4
    <3>2. r.root = ForsRoot(key, NowQ, t) <=> ForsTreeGood(key, Now, sig, t)
      BY <1>13, <2>4
    <3> QED
      BY <3>1, <3>2
  <2> QED
    BY <2>1, <2>3, <2>4
<1>15. Verifying' /\ VerifyingFors'
  <2>1. at' = ForsPlace(i', 0)
    <3>1. ForsPlace(i + 1, 0) = ForsPlace(i, 0) + 1 + ForsHeight
      BY <1>4, ForsPlaces
    <3> QED
      BY <1>1, <1>3, <3>1 DEF VerifyingFors
  <2> QED
    BY <1>1, <1>3, <1>14, <2>1 DEF Verifying, VerifyingFors
<1>16. Calls'
  BY <1>3, <1>10, <1>15 DEF Calls
<1> QED
  BY <1>3, <1>16, Quiet DEF Inv

-------------------------------------------------------------------------------
(* From FORS to the layers. *)

(* The hash of the roots is the FORS public key if every root is its tree's, *)
(* and only then.                                                            *)
LEMMA ForsPkLaw ==
    ASSUME Call, InFors, i = ForsTrees
    PROVE  Thash(state_seeded, ForsPkAddr(wots_addr), fors_roots) = UnderAt(key, Now, 0)
              <=> \A t \in 0..(ForsTrees - 1) : RootIs(fors_roots, key, Now, t)
<1> DEFINE x == fors_roots
           y == [j \in 1..ForsTrees |-> ForsRoot(key, NowQ, j - 1)]
<1>1. ForsTrees \in Nat
  BY ForsSizes
<1>2. IsSeq(x) /\ Len(x) = ForsTrees
  BY DEF InFors
<1>3. IsSeq(y) /\ Len(y) = ForsTrees /\ \A j \in 1..ForsTrees : y[j] = ForsRoot(key, NowQ, j - 1)
  <2> DEFINE v == [j \in 1..ForsTrees |-> ForsRoot(key, NowQ, j - 1)]
  <2>1. v = [j \in 1..ForsTrees |-> v[j]] /\ \A j \in 1..ForsTrees : v[j] = ForsRoot(key, NowQ, j - 1)
    OBVIOUS
  <2> HIDE DEF v
  <2>2. IsSeq(v) /\ Len(v) = ForsTrees
    BY <1>1, <2>1, SeqMade
  <2> QED
    BY <2>1, <2>2 DEF v
<1>4. ForsPkAddr(wots_addr) = AddrOf(0, Now.tree, FORSPK, Byte(Now.idx_leaf), 0, 0, 0)
  <2>1. wots_addr = SetKeypair(SetTree(SetType(ZeroAddr, WOTS), tree), idx_leaf)
    BY FirstAddrs DEF InFors
  <2>2. ForsPkAddr(wots_addr) = AddrOf(0, tree, FORSPK, Byte(idx_leaf), 0, 0, 0)
    BY <2>1, FirstAddrs
  <2> QED
    BY <2>2 DEF InFors
<1>5. UnderAt(key, Now, 0) = Thash(key, AddrOf(0, Now.tree, FORSPK, Byte(Now.idx_leaf), 0, 0, 0), y)
  BY DEF UnderAt, ForsPkOf, NowQ
<1> HIDE DEF x, y
<1>6. Thash(state_seeded, ForsPkAddr(wots_addr), x) = UnderAt(key, Now, 0) <=> x = y
  <2>1. state_seeded = key
    BY DEF Call
  <2> QED
    BY <1>4, <1>5, <2>1 DEF Thash
<1>7. x = y <=> \A j \in 1..ForsTrees : x[j] = y[j]
  BY <1>2, <1>3, SeqEqual
<1>8. \A t : RootIs(fors_roots, key, Now, t) <=> x[t + 1] = ForsRoot(key, NowQ, t)
  BY DEF RootIs, x, NowQ
<1>9. ASSUME \A j \in 1..ForsTrees : x[j] = y[j], NEW t \in 0..(ForsTrees - 1)
      PROVE  RootIs(fors_roots, key, Now, t)
  <2>1. t + 1 \in 1..ForsTrees /\ (t + 1) - 1 = t
    BY <1>1
  <2> QED
    BY <1>3, <1>8, <1>9, <2>1
<1>10. ASSUME \A t \in 0..(ForsTrees - 1) : RootIs(fors_roots, key, Now, t), NEW j \in 1..ForsTrees
       PROVE  x[j] = y[j]
  <2>1. j - 1 \in 0..(ForsTrees - 1) /\ (j - 1) + 1 = j
    BY <1>1
  <2> QED
    BY <1>3, <1>8, <1>10, <2>1
<1> QED
  BY <1>6, <1>7, <1>9, <1>10 DEF x

(* The digest of the call is one. *)
LEMMA NowDigest ==
    ASSUME Inv, Call
    PROVE  Now \in Digest
BY DEF Inv, OraclesOK, IsOracle, Call, Now

(* What the two ways have in common. *)
LEMMA ForsPkStep ==
    ASSUME Inv, Call, InFors, ForsPk
    PROVE  /\ Now' = Now /\ Call' /\ InLayers'
           /\ i = ForsTrees /\ i' = 0
           /\ root' = UnderAt(key, Now, 0) <=> \A t \in 0..(ForsTrees - 1) : RootIs(fors_roots, key, Now, t)
<1>1. /\ i = ForsTrees /\ i' = 0
      /\ root' = Thash(state_seeded, ForsPkAddr(wots_addr), fors_roots)
      /\ UNCHANGED <<keys, state_seeded, key, msg, sig, mhash, tree, idx_leaf, wots_addr, tree_addr, digests>>
  BY DEF ForsPk
<1>2. Now' = Now
  BY <1>1 DEF Now
<1>3. Call'
  BY <1>1, <1>2 DEF Call
<1>4. InLayers'
  <2>1. i' \in 0..D
    BY <1>1, SchemeSizes
  <2>2. tree = Now.tree /\ idx_leaf = Now.idx_leaf
    BY DEF InFors
  <2>3. tree = TreeAt(Now, 0) /\ idx_leaf = LeafAt(Now, 0)
    BY <2>2, NowDigest, WayUp
  <2> QED
    BY <1>1, <1>2, <2>1, <2>3 DEF InLayers
<1>5. root' = UnderAt(key, Now, 0) <=> \A t \in 0..(ForsTrees - 1) : RootIs(fors_roots, key, Now, t)
  BY <1>1, ForsPkLaw
<1> QED
  BY <1>1, <1>2, <1>3, <1>4, <1>5

(* What the step leaves alone. *)
LEMMA ForsPkQuiet ==
    ASSUME Inv, Call, InFors, ForsPk, pc' \in {"sign_layers", "verify_layers"}
    PROVE  OraclesOK' /\ KeysOK' /\ SignedOK' /\ OtsOK' /\ Control'
BY Quiet DEF ForsPk

(* crypto_sign_signature comes to the layers. *)
LEMMA SignForsPkInv ==
    ASSUME Inv, SignForsPk
    PROVE  Inv'
<1>1. /\ pc = "sign_fors" /\ pc' = "sign_layers" /\ ForsPk
      /\ sig' = sig /\ key' = key
  BY DEF SignForsPk, ForsPk
<1>2. Call /\ InFors /\ SigningFors
  BY <1>1 DEF Inv, Calls
<1>3. /\ Now' = Now /\ Call' /\ InLayers' /\ i = ForsTrees /\ i' = 0
      /\ root' = UnderAt(key, Now, 0) <=> \A t \in 0..(ForsTrees - 1) : RootIs(fors_roots, key, Now, t)
  BY <1>1, <1>2, ForsPkStep
<1>4. SigningLayers'
  <2>1. Len(sig') = LayerPlace(i', 0)
    BY <1>1, <1>2, <1>3, PlacesMeet DEF SigningFors
  <2>2. root' = UnderAt(key', Now', i')
    BY <1>1, <1>2, <1>3 DEF SigningFors
  <2>3. ForsGood(key', Now', sig', ForsTrees)
    BY <1>1, <1>2, <1>3 DEF SigningFors
  <2>4. LayersGood(bytes', key', Now', sig', i')
    <3>1. 0..(i' - 1) = {}
      BY <1>3
    <3> QED
      BY <3>1 DEF LayersGood
  <2> QED
    BY <2>1, <2>2, <2>3, <2>4 DEF SigningLayers
<1>5. Calls'
  BY <1>1, <1>3, <1>4 DEF Calls
<1> QED
  BY <1>1, <1>2, <1>5, ForsPkQuiet DEF Inv

(* crypto_sign_verify comes to the layers. *)
LEMMA VerifyForsPkInv ==
    ASSUME Inv, VerifyForsPk
    PROVE  Inv'
<1>1. /\ pc = "verify_fors" /\ pc' = "verify_layers" /\ ForsPk
      /\ sig' = sig /\ key' = key /\ msg' = msg /\ at' = at /\ signed' = signed
  BY DEF VerifyForsPk, ForsPk
<1>2. Call /\ InFors /\ Verifying /\ VerifyingFors
  BY <1>1 DEF Inv, Calls
<1>3. /\ Now' = Now /\ Call' /\ InLayers' /\ i = ForsTrees /\ i' = 0
      /\ root' = UnderAt(key, Now, 0) <=> \A t \in 0..(ForsTrees - 1) : RootIs(fors_roots, key, Now, t)
  BY <1>1, <1>2, ForsPkStep
<1>4. root' = UnderAt(key, Now, 0) <=> ForsGood(key, Now, sig, ForsTrees)
  BY <1>2, <1>3 DEF VerifyingFors, ForsGood
<1>5. LayersGood(bytes', key', Now', sig', i')
  <2>1. 0..(i' - 1) = {}
    BY <1>3
  <2> QED
    BY <2>1 DEF LayersGood
<1>6. ASSUME <<key, msg, sig>> \in signed
      PROVE  root' = UnderAt(key, Now, 0)
  <2>1. IsSigned(digests, bytes, DOMAIN keys, <<key, msg, sig>>)
    BY <1>6 DEF Inv, SignedOK
  <2>2. Genuine(digests, bytes, key, msg, sig)
    BY <2>1 DEF IsSigned
  <2> QED
    BY <1>4, <2>2 DEF Genuine, Now
<1>7. Verifying' /\ VerifyingLayers'
  <2>1. at' = LayerPlace(i', 0)
    BY <1>1, <1>2, <1>3, PlacesMeet DEF VerifyingFors
  <2> QED
    BY <1>1, <1>2, <1>3, <1>4, <1>5, <1>6, <2>1 DEF Verifying, VerifyingLayers
<1>8. Calls'
  BY <1>1, <1>3, <1>7 DEF Calls
<1> QED
  BY <1>1, <1>2, <1>8, ForsPkQuiet DEF Inv

(* Three sequences, one after another. *)
LEMMA SeqAssoc ==
    ASSUME NEW x, IsSeq(x), NEW y, IsSeq(y), NEW z, IsSeq(z)
    PROVE  (x \o y) \o z = x \o (y \o z)
<1> DEFINE u == x \o y
           v == y \o z
           e == u \o z
           f == x \o v
<1>1. Len(x) \in Nat /\ Len(y) \in Nat /\ Len(z) \in Nat
  BY DEF IsSeq
<1>2. IsSeq(u) /\ Len(u) = Len(x) + Len(y) /\ IsSeq(v) /\ Len(v) = Len(y) + Len(z)
  BY SeqConcat
<1>3. \A c \in 1..Len(x) : u[c] = x[c]
  BY SeqConcat
<1>4. \A c \in 1..Len(y) : u[Len(x) + c] = y[c]
  BY SeqConcat
<1>5. \A c \in 1..Len(y) : v[c] = y[c]
  BY SeqConcat
<1>6. \A c \in 1..Len(z) : v[Len(y) + c] = z[c]
  BY SeqConcat
<1> HIDE DEF u, v
<1>7. IsSeq(e) /\ Len(e) = Len(x) + Len(y) + Len(z) /\ IsSeq(f) /\ Len(f) = Len(x) + Len(y) + Len(z)
  <2>1. IsSeq(u) /\ IsSeq(v)
    BY <1>2
  <2> HIDE DEF e, f
  <2>2. IsSeq(u \o z) /\ Len(u \o z) = Len(u) + Len(z)
    BY <2>1, SeqConcat
  <2>3. IsSeq(x \o v) /\ Len(x \o v) = Len(x) + Len(v)
    BY <2>1, SeqConcat
  <2>4. IsSeq(e) /\ Len(e) = Len(u) + Len(z)
    BY <2>2 DEF e
  <2>5. IsSeq(f) /\ Len(f) = Len(x) + Len(v)
    BY <2>3 DEF f
  <2> QED
    BY <1>1, <1>2, <2>4, <2>5
<1>8. \A c \in 1..Len(u) : e[c] = u[c]
  <2>1. IsSeq(u)
    BY <1>2
  <2> HIDE DEF e
  <2>2. \A c \in 1..Len(u) : (u \o z)[c] = u[c]
    BY <2>1, SeqConcat
  <2> QED
    BY <2>2 DEF e
<1>9. \A c \in 1..Len(z) : e[Len(u) + c] = z[c]
  <2>1. IsSeq(u)
    BY <1>2
  <2> HIDE DEF e
  <2>2. \A c \in 1..Len(z) : (u \o z)[Len(u) + c] = z[c]
    BY <2>1, SeqConcat
  <2> QED
    BY <2>2 DEF e
<1>10. \A c \in 1..Len(x) : f[c] = x[c]
  <2>1. IsSeq(v)
    BY <1>2
  <2> HIDE DEF f
  <2>2. \A c \in 1..Len(x) : (x \o v)[c] = x[c]
    BY <2>1, SeqConcat
  <2> QED
    BY <2>2 DEF f
<1>11. \A c \in 1..Len(v) : f[Len(x) + c] = v[c]
  <2>1. IsSeq(v)
    BY <1>2
  <2> HIDE DEF f
  <2>2. \A c \in 1..Len(v) : (x \o v)[Len(x) + c] = v[c]
    BY <2>1, SeqConcat
  <2> QED
    BY <2>2 DEF f
<1> HIDE DEF e, f
<1>12. ASSUME NEW c \in 1..Len(e) PROVE e[c] = f[c]
  <2>1. CASE c <= Len(x)
    <3>1. c \in 1..Len(x) /\ c \in 1..Len(u)
      BY <1>1, <1>2, <2>1
    <3> QED
      BY <1>3, <1>8, <1>10, <3>1
  <2>2. CASE c > Len(x) /\ c <= Len(x) + Len(y)
    <3> DEFINE g == c - Len(x)
    <3>1. c = Len(x) + g /\ g \in 1..Len(y) /\ c \in 1..Len(u) /\ g \in 1..Len(v)
      BY <1>1, <1>2, <2>2
    <3> QED
      BY <1>4, <1>5, <1>8, <1>11, <3>1
  <2>3. CASE c > Len(x) + Len(y)
    <3> DEFINE g == c - (Len(x) + Len(y))
    <3>1. /\ c = Len(u) + g /\ g \in 1..Len(z)
          /\ c = Len(x) + (Len(y) + g) /\ Len(y) + g \in 1..Len(v)
      BY <1>1, <1>2, <1>7, <2>3
    <3> HIDE DEF g
    <3> QED
      BY <1>6, <1>9, <1>11, <3>1
  <2> QED
    BY <1>1, <1>7, <2>1, <2>2, <2>3
<1> QED
  BY <1>7, <1>12, SeqEqual DEF e, f, u, v

-------------------------------------------------------------------------------
(* The loops over the layers. *)
NowTree == LayerQ(i, TreeAt(Now, i))
NowKey  == KpOf(key, i, TreeAt(Now, i), LeafAt(Now, i))

(* Where an iteration begins. *)
LEMMA LayerHere ==
    ASSUME Inv, Call, InLayers, i < D
    PROVE  LET ta == LayerTreeAddr(tree_addr, i, tree)
               wa == LayerWotsAddr(wots_addr, ta, idx_leaf)
           IN  /\ i \in 0..(D - 1) /\ i \in Nat /\ Now \in Digest
               /\ idx_leaf \in 0..(TwoTo[TreeHeight] - 1)
               /\ OfTree(NowTree, ta) /\ OfKey(NowKey, wa)
               /\ wa.layer = i /\ wa.tree = tree /\ wa.kp1 = idx_leaf
<1> DEFINE ta == LayerTreeAddr(tree_addr, i, tree)
           wa == LayerWotsAddr(wots_addr, ta, idx_leaf)
<1>1. i \in 0..(D - 1) /\ i \in Nat /\ Now \in Digest
  BY NowDigest, SchemeSizes DEF InLayers
<1>2. tree = TreeAt(Now, i) /\ idx_leaf = LeafAt(Now, i)
  BY DEF InLayers
<1>3. idx_leaf \in 0..(TwoTo[TreeHeight] - 1)
  BY <1>1, <1>2, WayUp
<1>4. idx_leaf \in 0..255
  BY <1>3, SchemeSizes
<1>5. IsLayerAddr(tree_addr) /\ IsWotsAddr(wots_addr)
  BY DEF Call
<1>6. AtLayer(ta, wa, key, i, tree, idx_leaf)
  BY <1>1, <1>4, <1>5, NextAddrs
<1> HIDE DEF ta, wa
<1> QED
  BY <1>1, <1>2, <1>3, <1>6 DEF ta, wa, NowTree, NowKey, AtLayer

(* Where it ends. *)
LEMMA LayerStep ==
    ASSUME Inv, Call, InLayers, i < D, i' = i + 1, idx_leaf' = NextLeaf(tree, idx_leaf),
           tree' = NextTree(tree), OfTree(NowTree, tree_addr'), OfKey(NowKey, wots_addr'),
           IsSeq(sig'), sig'[1] = sig[1],
           UNCHANGED <<keys, state_seeded, key, msg, mhash, digests>>
    PROVE  /\ Now' = Now /\ Call' /\ InLayers'
           /\ idx_leaf' \in 0..(TwoTo[TreeHeight] - 1)
<1>1. Now' = Now /\ DigestOf(sig'[1], key', msg') \in DOMAIN digests'
  BY KnowsSelf, NowLater DEF Call
<1>2. IsLayerAddr(tree_addr') /\ IsWotsAddr(wots_addr')
  BY DEF IsLayerAddr, IsWotsAddr, NowTree, NowKey
<1>3. Call'
  BY <1>1, <1>2 DEF Call
<1>4. i \in Nat /\ D \in Nat /\ Now \in Digest /\ i' \in 0..D /\ i' \in Nat
  BY NowDigest, SchemeSizes DEF InLayers
<1>5. tree' = TreeAt(Now, i') /\ idx_leaf' = LeafAt(Now, i')
  <2>1. tree = TreeAt(Now, i)
    BY DEF InLayers
  <2> QED
    BY <1>4, <2>1, WayUp DEF NextLeaf, NextTree
<1>6. idx_leaf' \in 0..(TwoTo[TreeHeight] - 1)
  BY <1>4, <1>5, WayUp
<1> QED
  BY <1>1, <1>3, <1>4, <1>5, <1>6 DEF InLayers

(* Reading a hash as bytes. *)
LEMMA BytesLaw ==
    ASSUME Inv, NEW b \in Known(bytes, root, Hashes), bytes' = Learn(bytes, root, b)
    PROVE  /\ IsOracle(bytes', Hashes) /\ Knows(bytes', bytes) /\ b \in Hashes
           /\ root \in DOMAIN bytes' /\ bytes'[root] = b
<1>1. IsOracle(bytes, Hashes)
  BY DEF Inv, OraclesOK
<1>2. IsOracle(bytes', Hashes) /\ Knows(bytes', bytes) /\ b \in Hashes
  BY <1>1, OracleLaw
<1>3. IsLearned(bytes', bytes, root, b)
  BY LearnLaw
<1> QED
  BY <1>2, <1>3 DEF IsLearned

(* The root of a tree is what the layer above signs. *)
LEMMA RootIsUnder ==
    ASSUME NEW k, NEW d, NEW l \in Nat
    PROVE  UnderAt(k, d, l + 1) = LayerRoot(k, l, TreeAt(d, l))
<1>1. l + 1 # 0 /\ (l + 1) - 1 = l
  OBVIOUS
<1> QED
  BY <1>1 DEF UnderAt

(* A layer signs the root of the one below. *)
LEMMA SignLayerInv ==
    ASSUME Inv, SignLayer
    PROVE  Inv' /\ sig'[1] = sig[1]
<1> DEFINE ta == LayerTreeAddr(tree_addr, i, tree)
           wa == LayerWotsAddr(wots_addr, ta, idx_leaf)
           t  == LayerTree(key, key, idx_leaf, ta)
<1>1. Call /\ InLayers /\ SigningLayers /\ i < D
  BY DEF SignLayer, Inv, Calls
<1>2. PICK b \in Known(bytes, root, Hashes) :
         LET w == WotsSign(b, key, key, wa)
         IN  /\ sig' = sig \o w.out \o t.auth
             /\ root' = t.root
             /\ tree_addr' = t.addr
             /\ wots_addr' = w.addr
             /\ bytes' = Learn(bytes, root, b)
             /\ ots' = ots \cup {<<key, wa.layer, wa.tree, wa.kp1, root>>}
  <2>1. state_seeded = key
    BY <1>1 DEF Call
  <2> QED
    BY <2>1 DEF SignLayer
<1> DEFINE w == WotsSign(b, key, key, wa)
<1>3. /\ pc = "sign_layers" /\ idx_leaf' = NextLeaf(tree, idx_leaf) /\ tree' = NextTree(tree) /\ i' = i + 1
      /\ UNCHANGED <<pc, calls, keys, state_seeded, key, msg, at, mhash, fors_addr, fors_roots,
                     result, digests, signed>>
  BY DEF SignLayer
<1>4. /\ i \in 0..(D - 1) /\ i \in Nat /\ Now \in Digest
      /\ OfTree(NowTree, ta) /\ OfKey(NowKey, wa)
      /\ wa.layer = i /\ wa.tree = tree /\ wa.kp1 = idx_leaf
  BY <1>1, LayerHere
<1>5. IsOracle(bytes', Hashes) /\ Knows(bytes', bytes) /\ b \in Hashes
      /\ root \in DOMAIN bytes' /\ bytes'[root] = b
  BY <1>2, BytesLaw
<1>6. tree = TreeAt(Now, i) /\ idx_leaf = LeafAt(Now, i)
  BY <1>1 DEF InLayers
<1> DEFINE n == TreeAt(Now, i)
           g == LeafAt(Now, i)
<1>7. IsLayerMade(w, t, key, i, n, g, b)
  <2> HIDE DEF ta, wa
  <2>1. IsLayerMade(w, t, key, i, tree, idx_leaf, b)
    BY <1>4, <1>5, <1>6, SignLayerLaw DEF NowTree, NowKey
  <2> QED
    BY <1>6, <2>1
<1>8. sig' = (sig \o w.out) \o t.auth /\ root' = t.root /\ tree_addr' = t.addr /\ wots_addr' = w.addr
  BY <1>2
<1>9. ots' = ots \cup {<<key, i, n, g, root>>}
  BY <1>2, <1>4, <1>6
<1> HIDE DEF w, t, ta, wa
<1> DEFINE u == w.out
           v == t.auth
           y == u \o v
<1>10. /\ IsSeq(u) /\ IsSeq(v) /\ IsLayerCells(y, key, i, n, g, b)
       /\ t.root = LayerRoot(key, i, n) /\ OfTree(NowTree, t.addr) /\ OfKey(NowKey, w.addr)
  BY <1>7 DEF IsLayerMade, NowTree, NowKey
<1> HIDE DEF n, g
<1>11. IsSeq(y) /\ Len(y) = LayerCells /\ \A c \in 1..LayerCells : y[c] = LayerCell(key, i, n, g, b, c)
  BY <1>10 DEF IsLayerCells
<1>12. IsSeq(sig) /\ Len(sig) = LayerPlace(i, 0) /\ Len(sig) \in Nat \ {0}
  <2>1. i \in 0..D
    BY <1>1 DEF InLayers
  <2> QED
    BY <1>1, <2>1, LayerPlaces DEF Call, SigningLayers
<1>13. sig' = sig \o y
  <2> HIDE DEF u, v
  <2>1. sig' = (sig \o u) \o v
    BY <1>8 DEF u, v
  <2>2. IsSeq(sig) /\ IsSeq(u) /\ IsSeq(v)
    BY <1>10, <1>12 DEF u, v
  <2> HIDE DEF y
  <2>3. (sig \o u) \o v = sig \o (u \o v)
    BY <2>2, SeqAssoc
  <2> QED
    BY <2>1, <2>3 DEF y
<1> HIDE DEF y, u, v
<1>14. IsSeq(sig') /\ Len(sig') = Len(sig) + LayerCells
  BY <1>11, <1>12, <1>13, SeqConcat
<1>15. \A c \in 1..Len(sig) : sig'[c] = sig[c]
  BY <1>11, <1>12, <1>13, SeqConcat
<1>16. \A c \in 1..Len(y) : sig'[Len(sig) + c] = y[c]
  BY <1>11, <1>12, <1>13, SeqConcat
<1>17. sig'[1] = sig[1]
  <2>1. 1 \in 1..Len(sig)
    BY <1>12
  <2> QED
    BY <1>15, <2>1
<1>18. Now' = Now /\ Call' /\ InLayers' /\ idx_leaf' \in 0..(TwoTo[TreeHeight] - 1)
  <2>1. OfTree(NowTree, tree_addr') /\ OfKey(NowKey, wots_addr')
    BY <1>8, <1>10
  <2> QED
    BY <1>1, <1>3, <1>14, <1>17, <2>1, LayerStep
<1>19. Len(sig') = LayerPlace(i', 0)
  <2>1. i \in 0..D
    BY <1>1 DEF InLayers
  <2> QED
    BY <1>3, <1>12, <1>14, <2>1, LayerPlaces
<1>20. root' = UnderAt(key', Now', i')
  BY <1>3, <1>4, <1>8, <1>10, <1>18, RootIsUnder DEF n
<1>21. ForsGood(key', Now', sig', ForsTrees)
  <2>1. ForsGood(key, Now, sig, ForsTrees) /\ ForsTrees \in 0..ForsTrees
    BY <1>1, ForsSizes DEF SigningLayers
  <2>2. Len(sig) \in Nat /\ Len(sig) >= ForsPlace(ForsTrees, 0)
    <3>1. LayerPlace(0, 0) <= LayerPlace(i, 0)
      <4>1. LayerCells \in Nat /\ ForsCells \in Nat /\ i * LayerCells \in Nat /\ 0 * LayerCells = 0
        BY <1>4, Layout
      <4> QED
        BY <4>1 DEF LayerPlace
    <3> QED
      BY <1>12, <3>1, PlacesMeet
  <2>3. ForsGood(key, Now, sig', ForsTrees)
    BY <1>15, <2>1, <2>2, ForsStays
  <2> QED
    BY <1>3, <1>18, <2>3
<1>22. LayersGood(bytes', key', Now', sig', i')
  <2>1. LayersGood(bytes', key, Now, sig', i)
    <3>1. LayersGood(bytes', key, Now, sig, i)
      BY <1>1, <1>5, LayersGrow DEF SigningLayers
    <3>2. i \in 0..D /\ Len(sig) \in Nat /\ Len(sig) >= LayerPlace(i, 0)
      BY <1>1, <1>12 DEF InLayers
    <3> QED
      BY <1>15, <3>1, <3>2, LayersStay
  <2>2. LayerGood(bytes', key, Now, sig', i)
    <3>1. root = UnderAt(key, Now, i)
      BY <1>1 DEF SigningLayers
    <3>2. ASSUME NEW c \in 1..LayerCells
          PROVE  sig'[LayerPlace(i, c)] = LayerCell(key, i, n, g, b, c)
      <4>1. LayerPlace(i, c) = Len(sig) + c
        <5>1. i \in 0..D /\ c \in Nat
          BY <1>1 DEF InLayers
        <5> QED
          BY <1>12, <5>1, LayerPlaces
      <4> QED
        BY <1>11, <1>16, <4>1
    <3>3. LayerMade(b, key, Now, sig', i)
      BY <3>2 DEF LayerMade, n, g
    <3> QED
      BY <1>5, <3>1, <3>3 DEF LayerGood
  <2>3. \A l : l \in 0..(i' - 1) => l \in 0..(i - 1) \/ l = i
    BY <1>3, <1>4, UpTo
  <2>4. \A l \in 0..(i' - 1) : LayerGood(bytes', key, Now, sig', l)
    BY <2>1, <2>2, <2>3 DEF LayersGood
  <2> QED
    BY <1>3, <1>18, <2>4 DEF LayersGood
<1>23. Calls'
  BY <1>3, <1>18, <1>19, <1>20, <1>21, <1>22 DEF Calls, SigningLayers
<1>24. OraclesOK' /\ KeysOK'
  BY <1>3, <1>5 DEF Inv, OraclesOK, KeysOK
<1>25. SignedOK'
  BY <1>3, <1>5, KnowsSelf, SignedStays DEF Inv
<1>26. OtsOK'
  <2> SUFFICES ASSUME NEW e \in ots' PROVE \E k, d, l : IsUse(e, k, d, l)
    BY DEF OtsOK
  <2>1. CASE e \in ots
    BY <2>1 DEF Inv, OtsOK
  <2>2. CASE e = <<key, i, n, g, root>>
    <3>1. IsUse(e, key, Now, i)
      BY <1>1, <1>4, <2>2 DEF IsUse, SigningLayers, n, g
    <3> QED
      BY <3>1
  <2> QED
    BY <1>9, <2>1, <2>2
<1>27. Control'
  BY <1>3, <1>18 DEF Inv, Control
<1> QED
  BY <1>17, <1>23, <1>24, <1>25, <1>26, <1>27 DEF Inv

(* crypto_sign_signature returns a genuine signature. *)
LEMMA SignReturnInv ==
    ASSUME Inv, SignReturn
    PROVE  Inv'
<1>1. /\ pc = "sign_layers" /\ i = D /\ pc' = "idle" /\ signed' = signed \cup {<<key, msg, sig>>}
      /\ at' = 0 /\ i' = 0 /\ idx_leaf' = 0
      /\ UNCHANGED <<calls, keys, state_seeded, result, digests, bytes, ots>>
  BY DEF SignReturn, ForgetLocals
<1>2. Call /\ SigningLayers
  BY <1>1 DEF Inv, Calls
<1>3. IsSigned(digests, bytes, DOMAIN keys, <<key, msg, sig>>)
  <2>1. IsSeq(sig) /\ Len(sig) = SpxCells
    BY <1>1, <1>2, PlacesMeet DEF Call, SigningLayers
  <2>2. Genuine(digests, bytes, key, msg, sig)
    BY <1>1, <1>2, <2>1 DEF Genuine, Call, SigningLayers, Now
  <2>3. key \in DOMAIN keys /\ msg \in Messages
    BY <1>2 DEF Call
  <2> QED
    BY <2>2, <2>3 DEF IsSigned
<1>4. SignedOK'
  BY <1>1, <1>3 DEF Inv, SignedOK
<1>5. OraclesOK' /\ KeysOK' /\ OtsOK'
  BY <1>1 DEF Inv, OraclesOK, KeysOK, OtsOK
<1>6. Control'
  <2>1. 0 \in 0..(TwoTo[TreeHeight] - 1)
    BY SchemeSizes
  <2> QED
    BY <1>1, <2>1 DEF Inv, Control
<1>7. Calls'
  BY <1>1 DEF Calls
<1> QED
  BY <1>4, <1>5, <1>6, <1>7 DEF Inv

(* A layer is verified: its root is right only if the one below was. *)
LEMMA VerifyLayerInv ==
    ASSUME Inv, VerifyLayer
    PROVE  Inv'
<1> DEFINE ta == LayerTreeAddr(tree_addr, i, tree)
           wa == LayerWotsAddr(wots_addr, ta, idx_leaf)
           y  == Cells(LayerCells)
<1>1. Call /\ InLayers /\ Verifying /\ VerifyingLayers /\ i < D
  BY DEF VerifyLayer, Inv, Calls
<1>2. PICK b \in Known(bytes, root, Hashes) :
         LET w    == WotsPkFromSig(y, b, key, wa)
             leaf == Thash(key, WotsPkAddr(wa), w.out)
             c    == ComputeRootResult(leaf, idx_leaf, 0, SubSeq(y, WotsLen + 1, LayerCells),
                                       TreeHeight, key, ta)
         IN  /\ root' = c.root
             /\ tree_addr' = c.addr
             /\ wots_addr' = w.addr
             /\ bytes' = Learn(bytes, root, b)
  <2>1. state_seeded = key
    BY <1>1 DEF Call
  <2> QED
    BY <2>1 DEF VerifyLayer
<1> DEFINE w == WotsPkFromSig(y, b, key, wa)
           r == ComputeRootResult(Thash(key, WotsPkAddr(wa), w.out), idx_leaf, 0,
                                  SubSeq(y, WotsLen + 1, LayerCells), TreeHeight, key, ta)
<1>3. /\ pc = "verify_layers" /\ idx_leaf' = NextLeaf(tree, idx_leaf) /\ tree' = NextTree(tree) /\ i' = i + 1
      /\ at' = at + LayerCells
      /\ UNCHANGED <<pc, calls, keys, state_seeded, key, msg, sig, mhash, fors_addr, fors_roots,
                     result, digests, signed, ots>>
  BY DEF VerifyLayer
<1>4. /\ i \in 0..(D - 1) /\ i \in Nat /\ Now \in Digest /\ i \in 0..D
      /\ idx_leaf \in 0..(TwoTo[TreeHeight] - 1)
      /\ OfTree(NowTree, ta) /\ OfKey(NowKey, wa)
  BY <1>1, LayerHere DEF InLayers
<1>5. IsOracle(bytes', Hashes) /\ Knows(bytes', bytes) /\ b \in Hashes
      /\ root \in DOMAIN bytes' /\ bytes'[root] = b
  BY <1>2, BytesLaw
<1>6. tree = TreeAt(Now, i) /\ idx_leaf = LeafAt(Now, i)
  BY <1>1 DEF InLayers
<1>7. at = LayerPlace(i, 0) /\ at \in Nat /\ LayerCells \in Nat /\ at + LayerCells <= SpxCells
      /\ LayerPlace(i + 1, 0) = at + LayerCells
      /\ \A c \in 1..LayerCells : LayerPlace(i, c) = at + c
  BY <1>1, <1>4, LayerPlaces, Layout DEF VerifyingLayers
<1>8. IsSeq(sig) /\ Len(sig) = SpxCells
  BY <1>1 DEF Call, Verifying
<1>9. IsSeq(y) /\ Len(y) = LayerCells /\ \A c \in 1..LayerCells : y[c] = sig[at + c]
  BY <1>7, <1>8, CellsLaw
<1> DEFINE n == TreeAt(Now, i)
           g == LeafAt(Now, i)
<1>10. IsLayerRoot(r, w, key, i, n, g, b, y)
  <2> HIDE DEF ta, wa, y
  <2>1. IsLayerRoot(r, w, key, i, tree, idx_leaf, b, y)
    BY <1>4, <1>5, <1>6, <1>9, VerifyLayerLaw DEF NowTree, NowKey
  <2> QED
    BY <1>6, <2>1
<1>11. root' = r.root /\ tree_addr' = r.addr /\ wots_addr' = w.addr
  BY <1>2
<1> HIDE DEF w, r, ta, wa, y
<1>12. /\ root' = LayerRoot(key, i, n) <=> \A c \in 1..LayerCells : y[c] = LayerCell(key, i, n, g, b, c)
       /\ OfTree(NowTree, tree_addr') /\ OfKey(NowKey, wots_addr')
  BY <1>10, <1>11 DEF IsLayerRoot, NowTree, NowKey
<1>13. root' = LayerRoot(key, i, n) <=> LayerMade(b, key, Now, sig, i)
  BY <1>7, <1>9, <1>12 DEF LayerMade
<1>14. Now' = Now /\ Call' /\ InLayers' /\ idx_leaf' \in 0..(TwoTo[TreeHeight] - 1)
  BY <1>1, <1>3, <1>8, <1>12, LayerStep
<1>15. UnderAt(key', Now', i') = LayerRoot(key, i, n)
  BY <1>3, <1>4, <1>14, RootIsUnder
<1> HIDE DEF n, g
<1>16. ASSUME LayerMade(b, key, Now, sig, i)
       PROVE  root = UnderAt(key, Now, i)
  <2>1. PICK s \in signed : Near(sig, s[3])
    BY <1>1 DEF Verifying
  <2>2. IsSigned(digests, bytes, DOMAIN keys, s)
    BY DEF Inv, SignedOK
  <2> DEFINE p == s[1]
             x == s[3]
             f == digests[DigestOf(x[1], p, s[2])]
  <2>3. f \in Digest /\ LayersGood(bytes, p, f, x, D)
    BY <2>2 DEF IsSigned, Genuine, Inv, OraclesOK, IsOracle
  <2>4. Near(sig, x)
    BY <2>1
  <2> HIDE DEF p, x, f
  <2>5. LayersGood(bytes', p, f, x, D)
    BY <1>5, <2>3, LayersGrow
  <2>6. LayerGood(bytes', p, f, x, i)
    BY <1>4, <2>5 DEF LayersGood
  <2>7. LayerMade(bytes'[root], key, Now, sig, i)
    BY <1>5, <1>16
  <2> QED
    BY <1>4, <1>5, <2>3, <2>4, <2>6, <2>7, LayerSound
<1>17. ASSUME root' = UnderAt(key', Now', i')
       PROVE  ForsGood(key', Now', sig', ForsTrees) /\ LayersGood(bytes', key', Now', sig', i')
  <2>1. LayerMade(b, key, Now, sig, i)
    BY <1>13, <1>15, <1>17
  <2>2. root = UnderAt(key, Now, i)
    BY <1>16, <2>1
  <2>3. ForsGood(key, Now, sig, ForsTrees) /\ LayersGood(bytes, key, Now, sig, i)
    BY <1>1, <2>2 DEF VerifyingLayers
  <2>4. LayersGood(bytes', key, Now, sig, i)
    BY <1>5, <2>3, LayersGrow
  <2>5. LayerGood(bytes', key, Now, sig, i)
    BY <1>5, <2>1, <2>2 DEF LayerGood
  <2>6. \A l : l \in 0..(i' - 1) => l \in 0..(i - 1) \/ l = i
    BY <1>3, <1>4, UpTo
  <2>7. \A l \in 0..(i' - 1) : LayerGood(bytes', key, Now, sig, l)
    BY <2>4, <2>5, <2>6 DEF LayersGood
  <2> QED
    BY <1>3, <1>14, <2>3, <2>7 DEF LayersGood
<1>18. ASSUME <<key', msg', sig'>> \in signed'
       PROVE  root' = UnderAt(key', Now', i')
  <2>1. <<key, msg, sig>> \in signed
    BY <1>3, <1>18
  <2>2. root = UnderAt(key, Now, i)
    BY <1>1, <2>1 DEF VerifyingLayers
  <2>3. IsSigned(digests, bytes, DOMAIN keys, <<key, msg, sig>>)
    BY <2>1 DEF Inv, SignedOK
  <2>4. Genuine(digests, bytes, key, msg, sig)
    BY <2>3 DEF IsSigned
  <2>5. LayerGood(bytes, key, Now, sig, i)
    BY <1>4, <2>4 DEF Genuine, LayersGood, Now
  <2>6. root \in DOMAIN bytes /\ LayerMade(bytes[root], key, Now, sig, i)
    BY <2>2, <2>5 DEF LayerGood
  <2>7. bytes[root] = b
    BY <1>5, <2>6 DEF Knows
  <2> QED
    BY <1>13, <1>15, <2>6, <2>7
<1>19. Verifying' /\ VerifyingLayers'
  <2>1. Verifying'
    BY <1>1, <1>3 DEF Verifying
  <2>2. at' = LayerPlace(i', 0)
    BY <1>3, <1>7
  <2> QED
    BY <1>17, <1>18, <2>1, <2>2 DEF VerifyingLayers
<1>20. Calls'
  BY <1>3, <1>14, <1>19 DEF Calls
<1>21. OraclesOK' /\ KeysOK' /\ OtsOK'
  BY <1>3, <1>5 DEF Inv, OraclesOK, KeysOK, OtsOK
<1>22. SignedOK'
  BY <1>3, <1>5, KnowsSelf, SignedStays DEF Inv
<1>23. Control'
  BY <1>3, <1>14 DEF Inv, Control
<1> QED
  BY <1>20, <1>21, <1>22, <1>23 DEF Inv

(* crypto_sign_verify answers. *)
LEMMA VerifyReturnInv ==
    ASSUME Inv, VerifyReturn
    PROVE  Inv'
<1>1. /\ pc = "verify_layers" /\ i = D /\ pc' = "verified" /\ result' \in {0, -1}
      /\ UNCHANGED <<calls, keys, state_seeded, sig, at, i, idx_leaf, digests, bytes, signed, ots>>
  BY DEF VerifyReturn, locals
<1>2. Verifying /\ VerifyingLayers
  BY <1>1 DEF Inv, Calls
<1>3. i' \in 0..D /\ at' = SpxCells /\ Len(sig') = SpxCells
  BY <1>1, <1>2, PlacesMeet, SchemeSizes DEF Verifying, VerifyingLayers
<1>4. Calls'
  BY <1>1, <1>3 DEF Calls
<1>5. SignedOK'
  BY <1>1, KnowsSelf, SignedStays DEF Inv
<1>6. OraclesOK' /\ KeysOK' /\ OtsOK' /\ Control'
  BY <1>1 DEF Inv, OraclesOK, KeysOK, OtsOK, Control
<1> QED
  BY <1>4, <1>5, <1>6 DEF Inv

(* The caller has seen the answer. *)
LEMMA ResumeInv ==
    ASSUME Inv, Resume
    PROVE  Inv'
<1>1. /\ pc' = "idle" /\ at' = 0 /\ i' = 0 /\ idx_leaf' = 0
      /\ UNCHANGED <<calls, keys, state_seeded, result, digests, bytes, signed, ots>>
  BY DEF Resume, ForgetLocals
<1>2. Calls'
  BY <1>1 DEF Calls
<1>3. SignedOK'
  BY <1>1, KnowsSelf, SignedStays DEF Inv
<1>4. Control'
  <2>1. 0 \in 0..(TwoTo[TreeHeight] - 1)
    BY SchemeSizes
  <2> QED
    BY <1>1, <2>1 DEF Inv, Control
<1>5. OraclesOK' /\ KeysOK' /\ OtsOK'
  BY <1>1 DEF Inv, OraclesOK, KeysOK, OtsOK
<1> QED
  BY <1>2, <1>3, <1>4, <1>5 DEF Inv

-------------------------------------------------------------------------------
(* Nothing happens. *)
LEMMA StutterInv ==
    ASSUME Inv, UNCHANGED vars
    PROVE  Inv'
<1>1. UNCHANGED <<pc, calls, keys, state_seeded, key, msg, sig, at, root, i, mhash, tree, idx_leaf,
                  wots_addr, tree_addr, fors_addr, fors_roots, result, digests, bytes, signed, ots>>
  BY DEF vars, locals
<1>2. OraclesOK' /\ KeysOK' /\ SignedOK' /\ OtsOK' /\ Control'
  BY <1>1 DEF Inv, OraclesOK, KeysOK, SignedOK, OtsOK, Control
<1>3. Now' = Now
  BY <1>1 DEF Now
<1>4. (Call <=> Call') /\ (InFors <=> InFors') /\ (InLayers <=> InLayers')
  BY <1>1, <1>3 DEF Call, InFors, InLayers
<1>5. SigningFors => SigningFors'
  <2>1. \A t : RootIs(fors_roots', key', Now', t) <=> RootIs(fors_roots, key, Now, t)
    BY <1>1, <1>3 DEF RootIs
  <2> QED
    BY <1>1, <1>3, <2>1 DEF SigningFors
<1>6. VerifyingFors => VerifyingFors'
  <2>1. \A t : RootIs(fors_roots', key', Now', t) <=> RootIs(fors_roots, key, Now, t)
    BY <1>1, <1>3 DEF RootIs
  <2> QED
    BY <1>1, <1>3, <2>1 DEF VerifyingFors
<1>7. (SigningLayers => SigningLayers') /\ (VerifyingLayers => VerifyingLayers') /\ (Verifying => Verifying')
  BY <1>1, <1>3 DEF SigningLayers, VerifyingLayers, Verifying
<1>8. Calls'
  BY <1>1, <1>4, <1>5, <1>6, <1>7 DEF Inv, Calls
<1> QED
  BY <1>2, <1>8 DEF Inv

(* Every step preserves Inv. *)
LEMMA InvNext ==
    ASSUME Inv, [Next]_vars
    PROVE  Inv'
<1>1. ASSUME NEW k \in Keys, Keypair(k) PROVE Inv'
  BY <1>1, KeypairInv
<1>2. ASSUME NEW k \in Keys, NEW m \in Messages, Sign(k, m) PROVE Inv'
  BY <1>2, SignInv
<1>3. ASSUME NEW p \in Presented, Verify(p[1], p[2], p[3]) PROVE Inv'
  BY <1>3, VerifyInv
<1>4. CASE SignFors
  BY <1>4, SignForsInv
<1>5. CASE SignForsPk
  BY <1>5, SignForsPkInv
<1>6. CASE SignLayer
  BY <1>6, SignLayerInv
<1>7. CASE SignReturn
  BY <1>7, SignReturnInv
<1>8. CASE VerifyFors
  BY <1>8, VerifyForsInv
<1>9. CASE VerifyForsPk
  BY <1>9, VerifyForsPkInv
<1>10. CASE VerifyLayer
  BY <1>10, VerifyLayerInv
<1>11. CASE VerifyReturn
  BY <1>11, VerifyReturnInv
<1>12. CASE Resume
  BY <1>12, ResumeInv
<1>13. CASE UNCHANGED vars
  BY <1>13, StutterInv
<1> QED
  BY <1>1, <1>2, <1>3, <1>4, <1>5, <1>6, <1>7, <1>8, <1>9, <1>10, <1>11, <1>12, <1>13 DEF Next

(* Whatever was called in between, every call of crypto_sign_signature and  *)
(* crypto_sign_verify stands where Inv says.                                *)
THEOREM InvHolds == Spec => []Inv
<1>1. Inv /\ [Next]_vars => Inv'
  BY InvNext
<1> QED
  BY InitInv, <1>1, PTL DEF Spec

-------------------------------------------------------------------------------
(* The first four members of five. *)
LEMMA UseSeq ==
    ASSUME NEW a1, NEW a2, NEW a3, NEW a4, NEW a5, NEW u, u = <<a1, a2, a3, a4, a5>>
    PROVE  LET v == SubSeq(u, 1, 4)
           IN  v[1] = a1 /\ v[2] = a2 /\ v[3] = a3 /\ v[4] = a4
<1>1. IsSeq(u) /\ Len(u) = 5
  <2>1. Len(u) = 5
    OBVIOUS
  <2>2. u \in Seq({a1, a2, a3, a4, a5})
    OBVIOUS
  <2> QED
    BY <2>1, <2>2, OfSeq
<1>2. /\ u[1] = a1 /\ u[2] = a2 /\ u[3] = a3 /\ u[4] = a4
  OBVIOUS
<1> DEFINE v == SubSeq(u, 0 + 1, 0 + 4)
<1> HIDE DEF v
<1>3. \A c \in 1..4 : v[c] = u[0 + c]
  <2>1. 0 \in Nat /\ 4 \in Nat /\ 0 + 4 <= Len(u)
    BY <1>1
  <2> QED
    BY <1>1, <2>1, SeqPart DEF v
<1>4. v[1] = a1 /\ v[2] = a2 /\ v[3] = a3 /\ v[4] = a4
  BY <1>2, <1>3
<1>5. SubSeq(u, 1, 4) = v
  BY DEF v
<1> QED
  BY <1>4, <1>5

(* What a key pair signs follows from where it stands. *)
LEMMA InvOneTimeKeys == Inv => OneTimeKeys
<1> SUFFICES ASSUME Inv, NEW u \in ots, NEW v \in ots, SubSeq(u, 1, 4) = SubSeq(v, 1, 4)
             PROVE  u = v
  BY DEF OneTimeKeys
<1>1. PICK k, d, l : IsUse(u, k, d, l)
  BY DEF Inv, OtsOK
<1>2. PICK p, f, n : IsUse(v, p, f, n)
  BY DEF Inv, OtsOK
<1> DEFINE a3 == TreeAt(d, l)
           a4 == LeafAt(d, l)
           a5 == UnderAt(k, d, l)
           b3 == TreeAt(f, n)
           b4 == LeafAt(f, n)
           b5 == UnderAt(p, f, n)
<1>3. d \in Digest /\ l \in 0..(D - 1) /\ u = <<k, l, a3, a4, a5>>
  BY <1>1 DEF IsUse
<1>4. f \in Digest /\ n \in 0..(D - 1) /\ v = <<p, n, b3, b4, b5>>
  BY <1>2 DEF IsUse
<1> HIDE DEF a3, a4, a5, b3, b4, b5
<1> DEFINE y == SubSeq(u, 1, 4)
           z == SubSeq(v, 1, 4)
<1>5. y[1] = k /\ y[2] = l /\ y[3] = a3 /\ y[4] = a4
  BY <1>3, UseSeq
<1>6. z[1] = p /\ z[2] = n /\ z[3] = b3 /\ z[4] = b4
  BY <1>4, UseSeq
<1>7. y = z
  OBVIOUS
<1> HIDE DEF y, z
<1>8. k = p /\ l = n /\ a3 = b3 /\ a4 = b4
  BY <1>5, <1>6, <1>7
<1>9. a5 = b5
  <2>1. UnderAt(k, d, l) = UnderAt(k, f, l)
    BY <1>3, <1>4, <1>8, UnderTells DEF a3, a4, b3, b4
  <2> QED
    BY <1>8, <2>1 DEF a5, b5
<1> QED
  BY <1>3, <1>4, <1>8, <1>9

(* No WOTS key pair ever signs two values: two signatures whose ways meet in *)
(* a tree go on over the same roots (sign.c, the loop over SPX_D layers).    *)
THEOREM KeysOnce == Spec => []OneTimeKeys
BY InvHolds, InvOneTimeKeys, PTL

(* Inv has the sizes and the layout. *)
LEMMA InvTypeOK == Inv => TypeOK
<1> SUFFICES ASSUME Inv PROVE TypeOK
  OBVIOUS
<1>1. D \in Nat /\ ForsTrees \in Nat
  BY SchemeSizes, ForsSizes
<1>2. /\ pc \in {"idle", "sign_fors", "sign_layers", "verify_fors", "verify_layers", "verified"}
      /\ calls \in 0..MaxCalls
      /\ state_seeded \in Keys \cup {Nothing}
      /\ result \in {Nothing, 0, -1}
      /\ idx_leaf \in 0..(TwoTo[TreeHeight] - 1)
  BY DEF Inv, Control
<1>3. i \in 0..IF pc \in {"sign_fors", "verify_fors"} THEN ForsTrees ELSE D
  BY <1>1, <1>2 DEF Inv, Calls, InFors, InLayers
<1>4. /\ pc = "sign_fors" => Len(sig) = 1 + i * (1 + ForsHeight)
      /\ pc = "verify_fors" => at = 1 + i * (1 + ForsHeight)
  <2>1. ASSUME i \in 0..ForsTrees PROVE ForsPlace(i, 0) = 1 + i * (1 + ForsHeight)
    <3>1. i * (1 + ForsHeight) \in Nat
      BY <2>1, ForsSizes
    <3> QED
      BY <3>1 DEF ForsPlace
  <2>2. pc = "sign_fors" => i \in 0..ForsTrees /\ Len(sig) = ForsPlace(i, 0)
    BY DEF Inv, Calls, InFors, SigningFors
  <2>3. pc = "verify_fors" => i \in 0..ForsTrees /\ at = ForsPlace(i, 0)
    BY DEF Inv, Calls, InFors, VerifyingFors
  <2> QED
    BY <2>1, <2>2, <2>3
<1>5. /\ pc = "sign_layers" => Len(sig) = 1 + ForsCells + i * LayerCells
      /\ pc = "verify_layers" => at = 1 + ForsCells + i * LayerCells
  <2>1. ASSUME i \in 0..D PROVE LayerPlace(i, 0) = 1 + ForsCells + i * LayerCells
    <3>1. i * LayerCells \in Nat /\ ForsCells \in Nat
      BY <1>1, <2>1, Layout
    <3> DEFINE a == i * LayerCells
    <3> HIDE DEF a
    <3>2. a \in Nat /\ LayerPlace(i, 0) = 1 + ForsCells + a + 0
      BY <3>1 DEF LayerPlace, a
    <3>3. LayerPlace(i, 0) = 1 + ForsCells + a
      BY <3>1, <3>2
    <3> QED
      BY <3>3 DEF a
  <2>2. pc = "sign_layers" => i \in 0..D /\ Len(sig) = LayerPlace(i, 0)
    BY DEF Inv, Calls, InLayers, SigningLayers
  <2>3. pc = "verify_layers" => i \in 0..D /\ at = LayerPlace(i, 0)
    BY DEF Inv, Calls, InLayers, VerifyingLayers
  <2> QED
    BY <2>1, <2>2, <2>3
<1>6. pc = "verified" => at = IF Len(sig) = SpxCells THEN SpxCells ELSE 0
  BY DEF Inv, Calls
<1>7. ASSUME pc \in {"sign_layers", "verify_layers"}
      PROVE  tree \in 0..(TwoTo[TreeHeight * (IF i < D THEN D - 1 - i ELSE 0)] - 1)
  <2>1. Call /\ i \in 0..D /\ tree = TreeAt(Now, i)
    BY <1>7 DEF Inv, Calls, InLayers
  <2>2. Now \in Digest
    BY <2>1, NowDigest
  <2>3. CASE i < D
    <3>1. i \in 0..(D - 1)
      BY <1>1, <2>1, <2>3
    <3> QED
      BY <2>1, <2>2, <2>3, <3>1, WayEnds
  <2>4. CASE ~(i < D)
    <3>1. i = D
      BY <1>1, <2>1, <2>4
    <3>2. tree = 0
      BY <2>1, <2>2, <3>1, WayEnds
    <3>3. TreeHeight * 0 = 0 /\ TwoTo[0] = 1
      BY SchemeSizes, TwoToLaw
    <3>4. 0 \in 0..(TwoTo[TreeHeight * 0] - 1)
      BY <3>3
    <3> QED
      BY <2>4, <3>2, <3>4
  <2> QED
    BY <2>3, <2>4
<1> QED
  BY <1>2, <1>3, <1>4, <1>5, <1>6, <1>7 DEF TypeOK

(* The variables have their types; signing writes and verifying reads the    *)
(* cells of a signature where SPX_BYTES has them, none left over; and the    *)
(* layers use up the tree index (sign.c, params.h).                          *)
THEOREM TypesHold == Spec => []TypeOK
BY InvHolds, InvTypeOK, PTL

-------------------------------------------------------------------------------
(* The refinement. *)
(* The initial state is one of the scheme's. *)
LEMMA SchemeInit == Init => Scheme!Init
<1>1. DOMAIN <<>> = {}
  OBVIOUS
<1> QED
  BY <1>1 DEF Init, Scheme!Init

(* What verification finds at the top. *)
LEMMA TopIsUnder ==
    ASSUME Inv, Call
    PROVE  keys[key][2] = UnderAt(key, Now, D)
<1>1. keys[key] = <<key, LayerRoot(key, D - 1, 0)>>
  BY DEF Inv, KeysOK, Call
<1>2. D - 1 \in Nat /\ (D - 1) + 1 = D /\ TreeAt(Now, D - 1) = 0
  BY NowDigest, WayEnds, SchemeSizes
<1>3. UnderAt(key, Now, (D - 1) + 1) = LayerRoot(key, D - 1, TreeAt(Now, D - 1))
  BY <1>2, RootIsUnder
<1> QED
  BY <1>1, <1>2, <1>3

(* What was signed has the length of a signature. *)
LEMMA SignedLength ==
    ASSUME Inv, NEW s \in signed
    PROVE  Len(s[3]) = SpxCells
BY DEF Inv, SignedOK, IsSigned, Genuine

(* What verification answers is what the scheme promises. *)
LEMMA AnswerLaw ==
    ASSUME Inv, Call, Verifying, VerifyingLayers, i = D
    PROVE  root = keys[key][2] <=> <<key, msg, sig>> \in signed
<1>1. keys[key][2] = UnderAt(key, Now, D)
  BY TopIsUnder
<1>2. <<key, msg, sig>> \in signed => root = UnderAt(key, Now, D)
  BY DEF VerifyingLayers
<1>3. ASSUME root = UnderAt(key, Now, D)
      PROVE  <<key, msg, sig>> \in signed
  <2>1. PICK s \in signed : Near(sig, s[3])
    BY DEF Verifying
  <2>2. s = <<s[1], s[2], s[3]>> /\ Genuine(digests, bytes, s[1], s[2], s[3])
    BY DEF Inv, SignedOK, IsSigned
  <2>3. ForsGood(key, Now, sig, ForsTrees) /\ LayersGood(bytes, key, Now, sig, D)
    BY <1>3 DEF VerifyingLayers
  <2>4. IsOracle(digests, Digest) /\ IsOracle(bytes, Hashes)
    BY DEF Inv, OraclesOK
  <2>5. IsSeq(sig) /\ Len(sig) = SpxCells /\ DigestOf(sig[1], key, msg) \in DOMAIN digests
    BY DEF Call, Verifying
  <2> DEFINE p == s[1]
             o == s[2]
             y == s[3]
  <2>6. Genuine(digests, bytes, p, o, y) /\ Near(sig, y) /\ s = <<p, o, y>>
    BY <2>1, <2>2
  <2> HIDE DEF p, o, y
  <2>7. key = p /\ msg = o /\ sig = y
    BY <2>3, <2>4, <2>5, <2>6, Accepted DEF Now
  <2> QED
    BY <2>6, <2>7
<1> QED
  BY <1>1, <1>2, <1>3

(* Every step is one of the scheme's, or none. *)
LEMMA SchemeNext ==
    ASSUME Inv, [Next]_vars
    PROVE  [Scheme!Next]_(Scheme!vars)
<1>1. ASSUME NEW k \in Keys, Keypair(k) PROVE Scheme!Keypair(k)
  <2>1. /\ pc = "idle" /\ pc' = "idle" /\ result' = Nothing /\ signed' = signed
        /\ UNCHANGED <<key, msg, sig>>
    BY <1>1 DEF Keypair, NewCall, locals
  <2>2. DOMAIN keys' = DOMAIN keys \cup {k}
    BY <1>1 DEF Keypair, Learn
  <2> QED
    BY <2>1, <2>2 DEF Scheme!Keypair
<1>2. ASSUME NEW k \in Keys, NEW m \in Messages, Sign(k, m) PROVE Scheme!Begin
  BY <1>2 DEF Sign, NewCall, Scheme!Begin
<1>3. ASSUME NEW p \in Presented, Verify(p[1], p[2], p[3])
      PROVE  Scheme!Begin \/ Scheme!Verify
  <2>1. p[1] \in DOMAIN keys
    BY PresentedLaw DEF Inv
  <2> DEFINE k == p[1]
             m == p[2]
             x == p[3]
  <2> HIDE DEF k, m, x
  <2>2. Verify(k, m, x) /\ k \in DOMAIN keys
    BY <1>3, <2>1 DEF k, m, x
  <2>3. CASE Len(x) # SpxCells
    <3>1. /\ pc = "idle" /\ pc' = "verified" /\ result' = -1 /\ UNCHANGED <<keys, signed>>
          /\ key' = k /\ msg' = m /\ sig' = x
      BY <2>2, <2>3 DEF Verify, NewCall
    <3>2. <<k, m, x>> \notin signed
      <4> SUFFICES ASSUME <<k, m, x>> \in signed PROVE FALSE
        OBVIOUS
      <4>1. Len(<<k, m, x>>[3]) = SpxCells
        BY SignedLength
      <4> QED
        BY <2>3, <4>1
    <3> QED
      BY <2>2, <3>1, <3>2 DEF Scheme!Verify, Scheme!IsSingleton
  <2>4. CASE Len(x) = SpxCells
    BY <2>2, <2>4 DEF Verify, NewCall, Scheme!Begin
  <2> QED
    BY <2>3, <2>4
<1>4. ASSUME SignReturn PROVE \E k \in Keys, m \in Messages : Scheme!Sign(k, m)
  <2>1. /\ pc = "sign_layers" /\ pc' = "idle" /\ signed' = signed \cup {<<key, msg, sig>>}
        /\ UNCHANGED <<keys, result>>
    BY <1>4 DEF SignReturn
  <2>2. key \in DOMAIN keys /\ key \in Keys /\ msg \in Messages
    BY <2>1 DEF Inv, KeysOK, Calls, Call
  <2>3. sig \in {t[3] : t \in signed'}
    <3>1. <<key, msg, sig>> \in signed' /\ <<key, msg, sig>>[3] = sig
      BY <2>1
    <3> QED
      BY <3>1
  <2>4. Scheme!Sign(key, msg)
    BY <2>1, <2>2, <2>3 DEF Scheme!Sign
  <2> QED
    BY <2>2, <2>4
<1>5. ASSUME VerifyReturn PROVE Scheme!Verify
  <2>1. /\ pc = "verify_layers" /\ pc' = "verified" /\ i = D
        /\ result' = IF root = keys[key][2] THEN 0 ELSE -1
        /\ UNCHANGED <<keys, key, msg, sig, signed>>
    BY <1>5 DEF VerifyReturn, locals
  <2>2. Call /\ Verifying /\ VerifyingLayers
    BY <2>1 DEF Inv, Calls
  <2>3. root = keys[key][2] <=> <<key, msg, sig>> \in signed
    BY <2>1, <2>2, AnswerLaw
  <2>4. key \in DOMAIN keys
    BY <2>2 DEF Call
  <2> QED
    BY <2>1, <2>3, <2>4 DEF Scheme!Verify, Scheme!IsSingleton
<1>6. ASSUME Resume PROVE Scheme!Resume
  BY <1>6 DEF Resume, Scheme!Resume
<1>7. ASSUME \/ SignFors \/ SignForsPk \/ SignLayer \/ VerifyFors \/ VerifyForsPk \/ VerifyLayer
      PROVE  UNCHANGED Scheme!vars
  <2>1. pc # "verified" /\ pc' # "verified" /\ UNCHANGED <<keys, signed, result>>
    BY <1>7 DEF SignFors, SignForsPk, SignLayer, VerifyFors, VerifyForsPk, VerifyLayer, ForsPk
  <2> QED
    BY <2>1 DEF Scheme!vars
<1>8. ASSUME UNCHANGED vars PROVE UNCHANGED Scheme!vars
  BY <1>8 DEF vars, locals, Scheme!vars
<1> QED
  BY <1>1, <1>2, <1>3, <1>4, <1>5, <1>6, <1>7, <1>8 DEF Next, Scheme!Next

(* crypto_sign_verify accepts what crypto_sign_signature returned for the    *)
(* message and the key, and nothing else of what is presented: a cell of it  *)
(* exchanged or rubbish, cut short, for another message, under another key.  *)
THEOREM Implements == Spec => ImplementsScheme
<1>1. Inv /\ [Next]_vars => [Scheme!Next]_(Scheme!vars)
  BY SchemeNext
<1>2. Spec => [][Scheme!Next]_(Scheme!vars)
  BY InvHolds, <1>1, PTL DEF Spec
<1> QED
  BY SchemeInit, <1>2, PTL DEF ImplementsScheme, Scheme!Spec, Spec

-------------------------------------------------------------------------------
(* Separate addresses.  The values that the signatures of a key pair are    *)
(* made of, with the address under which each is hashed: steps of chains,   *)
(* the nodes of the trees of layers and of FORS, and FORS public keys.      *)
LinkAddr(l, t, x, c, j) == AddrOf(l, t, WOTS, Byte(x), Byte(c - 1), 0, j - 1)
Link(k, l, t, x, c, j) == Chain(KpOf(k, l, t, x), c)[j]

LayerNodeAddr(l, t, h, g) == IF h = 0 THEN PkAddr(l, t, g) ELSE NodeAt(LayerQ(l, t), h, g)
LayerNode(k, l, t, h, g) == TreeOf(LayerLeaf(k, l, t), k, LayerQ(l, t), TreeHeight)[h][g]

ForsNode(k, q, h, g) == TreeOf(ForsLeaf(k, q), k, q, ForsHeight)[h][g]

ForsPkAddrOf(tr, x) == AddrOf(0, tr, FORSPK, Byte(x), 0, 0, 0)

IsLink(k, a, v) == \E l, t, x, c : \E j \in 1..(W - 1) :
    a = LinkAddr(l, t, x, c, j) /\ v = Link(k, l, t, x, c, j)
IsLayerNode(k, a, v) == \E l, t : \E h \in 0..TreeHeight, g \in Nat :
    a = LayerNodeAddr(l, t, h, g) /\ v = LayerNode(k, l, t, h, g)
IsForsNode(k, a, v) == \E tr, x : \E h \in 0..ForsHeight, g \in Nat :
    a = NodeAt(ForsQ(tr, x), h, g) /\ v = ForsNode(k, ForsQ(tr, x), h, g)
IsForsPk(k, a, v) == \E tr, x :
    a = ForsPkAddrOf(tr, x) /\ v = ForsPkOf(k, tr, x)

Hashed(k, a, v) ==
    IsLink(k, a, v) \/ IsLayerNode(k, a, v) \/ IsForsNode(k, a, v) \/ IsForsPk(k, a, v)
(* A secret, or a hash of such values. *)
Made(k, v) == \/ \E a : v = Prf(k, a)
              \/ \E a : Hashed(k, a, v)

AllMade(k, in) == \A c \in DOMAIN in : Made(k, in[c])
(* A hash of made values under the address a. *)
MadeOf(k, a, v) == \E in : v = Thash(k, a, in) /\ AllMade(k, in)

(* A link of a chain is the hash of the one before it. *)
LEMMA LinkIs ==
    ASSUME NEW k, NEW l, NEW t, NEW x, NEW c, NEW j \in 1..(W - 1)
    PROVE  Link(k, l, t, x, c, j) = Thash(k, LinkAddr(l, t, x, c, j), <<Link(k, l, t, x, c, j - 1)>>)
<1> DEFINE kp == KpOf(k, l, t, x)
           n == Byte(c - 1)
           o == Whole(kp, n)
<1>1. Steps(kp, o, n, 0, W - 1)
  BY WholeLaw
<1>2. j - 1 \in 0..((W - 1) - 1) /\ (j - 1) + 1 = j
  BY Sizes
<1>3. SeededOf(kp) = k /\ At(kp, n, j - 1) = LinkAddr(l, t, x, c, j)
  BY KpFields DEF LinkAddr
<1> HIDE DEF kp, n
<1>4. o[j] = Thash(SeededOf(kp), At(kp, n, j - 1), <<o[j - 1]>>)
  <2> HIDE DEF o
  <2>1. o[(j - 1) + 1] = Thash(SeededOf(kp), At(kp, n, j - 1), <<o[j - 1]>>)
    BY <1>1, <1>2 DEF Steps
  <2> QED
    BY <1>2, <2>1
<1> QED
  BY <1>3, <1>4 DEF Link, Chain, kp, n

(* and the first of them is a secret. *)
LEMMA FirstLink ==
    ASSUME NEW k, NEW l, NEW t, NEW x, NEW c
    PROVE  Link(k, l, t, x, c, 0) = Prf(k, LinkAddr(l, t, x, c, 1))
<1> DEFINE kp == KpOf(k, l, t, x)
           n == Byte(c - 1)
<1>1. Whole(kp, n)[0] = Secret(kp, n)
  BY WholeLaw
<1>2. SkSeedOf(kp) = k /\ At(kp, n, 0) = LinkAddr(l, t, x, c, 1)
  <2>1. 1 - 1 = 0
    OBVIOUS
  <2> QED
    BY <2>1, KpFields DEF LinkAddr
<1> QED
  BY <1>1, <1>2 DEF Link, Chain, Secret

(* So every link is made. *)
LEMMA LinkMade ==
    ASSUME NEW k, NEW l, NEW t, NEW x, NEW c, NEW j \in 0..(W - 1)
    PROVE  Made(k, Link(k, l, t, x, c, j))
<1>1. CASE j = 0
  BY <1>1, FirstLink DEF Made
<1>2. CASE j # 0
  <2>1. j \in 1..(W - 1)
    BY <1>2, Sizes
  <2> QED
    BY <2>1 DEF Made, Hashed, IsLink
<1> QED
  BY <1>1, <1>2

(* Values in a sequence of one or two. *)
LEMMA OneMade ==
    ASSUME NEW k, NEW v, Made(k, v)
    PROVE  AllMade(k, <<v>>)
BY DEF AllMade

LEMMA TwoMade ==
    ASSUME NEW k, NEW v, NEW w, Made(k, v), Made(k, w)
    PROVE  AllMade(k, <<v, w>>)
BY DEF AllMade

(* A link is the hash of the one before. *)
LEMMA LinkOf ==
    ASSUME NEW k, NEW a, NEW v, IsLink(k, a, v)
    PROVE  MadeOf(k, a, v)
<1>1. PICK l, t, x, c : \E j \in 1..(W - 1) :
         a = LinkAddr(l, t, x, c, j) /\ v = Link(k, l, t, x, c, j)
  BY DEF IsLink
<1>2. PICK j \in 1..(W - 1) : a = LinkAddr(l, t, x, c, j) /\ v = Link(k, l, t, x, c, j)
  BY <1>1
<1> DEFINE p == Link(k, l, t, x, c, j - 1)
<1>3. v = Thash(k, a, <<p>>)
  BY <1>2, LinkIs
<1>4. j - 1 \in 0..(W - 1)
  BY Sizes
<1>5. Made(k, p)
  BY <1>4, LinkMade
<1> HIDE DEF p
<1> QED
  BY <1>3, <1>5, OneMade DEF MadeOf

(* A node of a layer is the hash of the chains under it or of two nodes. *)
LEMMA LayerNodeOf ==
    ASSUME NEW k, NEW a, NEW v, IsLayerNode(k, a, v)
    PROVE  MadeOf(k, a, v)
<1>1. PICK l, t : \E h \in 0..TreeHeight, g \in Nat :
         a = LayerNodeAddr(l, t, h, g) /\ v = LayerNode(k, l, t, h, g)
  BY DEF IsLayerNode
<1>2. PICK h \in 0..TreeHeight, g \in Nat :
         a = LayerNodeAddr(l, t, h, g) /\ v = LayerNode(k, l, t, h, g)
  BY <1>1
<1> DEFINE lf == LayerLeaf(k, l, t)
           q == LayerQ(l, t)
           n == TreeOf(lf, k, q, TreeHeight)
<1>3. TreeHeight \in Nat
  BY HeightNat
<1>4. /\ \A f \in Nat : n[0][f] = lf[f]
      /\ \A f \in 1..TreeHeight, e \in Nat :
            n[f][e] = Thash(k, NodeAt(q, f, e), <<n[f - 1][2 * e], n[f - 1][2 * e + 1]>>)
  BY <1>3, TreeLaw
<1>5. CASE h = 0
  <2> DEFINE key1 == KeyOf(KpOf(k, l, t, g))
  <2>1. v = lf[g] /\ a = PkAddr(l, t, g)
    BY <1>2, <1>4, <1>5 DEF LayerNode, LayerNodeAddr
  <2>2. v = Thash(k, a, key1)
    BY <2>1 DEF LayerLeaf
  <2>3. AllMade(k, key1)
    <3>1. ASSUME NEW c \in DOMAIN key1 PROVE Made(k, key1[c])
      <4>1. c \in 1..WotsLen /\ key1[c] = Link(k, l, t, g, c, W - 1)
        BY DEF KeyOf, Link
      <4>2. W - 1 \in 0..(W - 1)
        BY Sizes
      <4> QED
        BY <4>1, <4>2, LinkMade
    <3> QED
      BY <3>1 DEF AllMade
  <2> QED
    BY <2>2, <2>3 DEF MadeOf
<1>6. CASE h # 0
  <2> DEFINE u == LayerNode(k, l, t, h - 1, 2 * g)
             w == LayerNode(k, l, t, h - 1, 2 * g + 1)
  <2>1. h \in 1..TreeHeight /\ h - 1 \in 0..TreeHeight /\ 2 * g \in Nat /\ 2 * g + 1 \in Nat
    BY <1>3, <1>6
  <2>2. v = Thash(k, a, <<u, w>>)
    <3>1. n[h][g] = Thash(k, NodeAt(q, h, g), <<n[h - 1][2 * g], n[h - 1][2 * g + 1]>>)
      BY <1>4, <2>1
    <3> QED
      BY <1>2, <1>6, <3>1 DEF LayerNode, LayerNodeAddr
  <2>3. Made(k, u) /\ Made(k, w)
    BY <2>1 DEF Made, Hashed, IsLayerNode
  <2> HIDE DEF u, w
  <2> QED
    BY <2>2, <2>3, TwoMade DEF MadeOf
<1> QED
  BY <1>5, <1>6

(* So is a node of FORS, or it is that of a secret, *)
LEMMA ForsNodeOf ==
    ASSUME NEW k, NEW a, NEW v, IsForsNode(k, a, v)
    PROVE  MadeOf(k, a, v)
<1>1. PICK tr, x : \E h \in 0..ForsHeight, g \in Nat :
         a = NodeAt(ForsQ(tr, x), h, g) /\ v = ForsNode(k, ForsQ(tr, x), h, g)
  BY DEF IsForsNode
<1> DEFINE q == ForsQ(tr, x)
<1>2. PICK h \in 0..ForsHeight, g \in Nat : a = NodeAt(q, h, g) /\ v = ForsNode(k, q, h, g)
  BY <1>1
<1> DEFINE lf == ForsLeaf(k, q)
           n == TreeOf(lf, k, q, ForsHeight)
<1>3. ForsHeight \in Nat
  BY OffsetNat, SchemeAssumption
<1>4. /\ \A f \in Nat : n[0][f] = lf[f]
      /\ \A f \in 1..ForsHeight, e \in Nat :
            n[f][e] = Thash(k, NodeAt(q, f, e), <<n[f - 1][2 * e], n[f - 1][2 * e + 1]>>)
  BY <1>3, TreeLaw
<1>5. CASE h = 0
  <2> DEFINE sk == Prf(k, NodeAt(q, 0, g))
  <2>1. v = Thash(k, a, <<sk>>)
    BY <1>2, <1>4, <1>5 DEF ForsNode, ForsLeaf
  <2>2. Made(k, sk)
    BY DEF Made
  <2> HIDE DEF sk
  <2> QED
    BY <2>1, <2>2, OneMade DEF MadeOf
<1>6. CASE h # 0
  <2> DEFINE u == ForsNode(k, q, h - 1, 2 * g)
             w == ForsNode(k, q, h - 1, 2 * g + 1)
  <2>1. h \in 1..ForsHeight /\ h - 1 \in 0..ForsHeight /\ 2 * g \in Nat /\ 2 * g + 1 \in Nat
    BY <1>3, <1>6
  <2>2. v = Thash(k, a, <<u, w>>)
    BY <1>2, <1>4, <2>1 DEF ForsNode
  <2>3. Made(k, u) /\ Made(k, w)
    BY <2>1 DEF Made, Hashed, IsForsNode
  <2> HIDE DEF u, w
  <2> QED
    BY <2>2, <2>3, TwoMade DEF MadeOf
<1> QED
  BY <1>5, <1>6

(* and a FORS public key is the hash of roots. *)
LEMMA ForsRootMade ==
    ASSUME NEW k, NEW tr, NEW x, NEW t \in Nat
    PROVE  Made(k, ForsRoot(k, ForsQ(tr, x), t))
<1> DEFINE g == IdxOffset(t) \div TwoTo[ForsHeight]
<1>1. ForsHeight \in Nat /\ IdxOffset(t) \in Nat /\ TwoTo[ForsHeight] \in Nat \ {0}
  BY OffsetNat, SchemeAssumption, TwoToLaw
<1>2. g \in Nat /\ ForsHeight \in 0..ForsHeight
  BY <1>1
<1>3. ForsRoot(k, ForsQ(tr, x), t) = ForsNode(k, ForsQ(tr, x), ForsHeight, g)
  BY DEF ForsRoot, ForsNode, RootOf
<1> HIDE DEF g
<1> QED
  BY <1>2, <1>3 DEF Made, Hashed, IsForsNode

LEMMA ForsPkIs ==
    ASSUME NEW k, NEW a, NEW v, IsForsPk(k, a, v)
    PROVE  MadeOf(k, a, v)
<1>1. PICK tr, x : a = ForsPkAddrOf(tr, x) /\ v = ForsPkOf(k, tr, x)
  BY DEF IsForsPk
<1> DEFINE in == [j \in 1..ForsTrees |-> ForsRoot(k, ForsQ(tr, x), j - 1)]
<1>2. v = Thash(k, a, in)
  BY <1>1 DEF ForsPkOf, ForsPkAddrOf
<1>3. ASSUME NEW c \in DOMAIN in PROVE Made(k, in[c])
  <2>1. c \in 1..ForsTrees /\ c - 1 \in Nat /\ in[c] = ForsRoot(k, ForsQ(tr, x), c - 1)
    BY SchemeAssumption
  <2> HIDE DEF in
  <2> QED
    BY <2>1, ForsRootMade
<1> HIDE DEF in
<1> QED
  BY <1>2, <1>3 DEF MadeOf, AllMade

(* Whatever is hashed is the hash of made values. *)
LEMMA HashedOf ==
    ASSUME NEW k, NEW a, NEW v, Hashed(k, a, v)
    PROVE  MadeOf(k, a, v)
BY LinkOf, LayerNodeOf, ForsNodeOf, ForsPkIs DEF Hashed

(* Written-out addresses are equal only if all fields are. *)
LEMMA AddrTells ==
    ASSUME NEW a1, NEW a2, NEW a3, NEW a4, NEW a5, NEW a6, NEW a7,
           NEW b1, NEW b2, NEW b3, NEW b4, NEW b5, NEW b6, NEW b7,
           AddrOf(a1, a2, a3, a4, a5, a6, a7) = AddrOf(b1, b2, b3, b4, b5, b6, b7)
    PROVE  a1 = b1 /\ a2 = b2 /\ a3 = b3 /\ a4 = b4 /\ a5 = b5 /\ a6 = b6 /\ a7 = b7
BY DEF AddrOf

(* Those of the nodes of a tree. *)
LEMMA NodeFields ==
    /\ \A l, t, h, g : NodeAt(LayerQ(l, t), h, g) = AddrOf(l, t, HASHTREE, 0, Byte(h), g \div 256, Byte(g))
    /\ \A t, x, h, g : NodeAt(ForsQ(t, x), h, g) = AddrOf(0, t, FORSTREE, Byte(x), Byte(h), g \div 256, Byte(g))
BY DEF NodeAt, TreeAddr, LayerQ, ForsQ, AddrOf

(* What two bytes of a number tell. *)
LEMMA IndexTells ==
    ASSUME NEW g \in Nat, NEW f \in Nat, g \div 256 = f \div 256, Byte(g) = Byte(f)
    PROVE  g = f
BY DEF Byte

(* A link of a chain is told by its address, *)
LEMMA LinkTold ==
    ASSUME NEW k, NEW a, NEW v, NEW w, IsLink(k, a, v), IsLink(k, a, w)
    PROVE  v = w
<1>1. PICK l, t, x, c : \E j \in 1..(W - 1) :
         a = LinkAddr(l, t, x, c, j) /\ v = Link(k, l, t, x, c, j)
  BY DEF IsLink
<1>2. PICK j \in 1..(W - 1) : a = LinkAddr(l, t, x, c, j) /\ v = Link(k, l, t, x, c, j)
  BY <1>1
<1>3. PICK m, u, y, d : \E i0 \in 1..(W - 1) :
         a = LinkAddr(m, u, y, d, i0) /\ w = Link(k, m, u, y, d, i0)
  BY DEF IsLink
<1>4. PICK i0 \in 1..(W - 1) : a = LinkAddr(m, u, y, d, i0) /\ w = Link(k, m, u, y, d, i0)
  BY <1>3
<1> DEFINE bx == Byte(x)
           by == Byte(y)
           bc == Byte(c - 1)
           bd == Byte(d - 1)
<1>5. AddrOf(l, t, WOTS, bx, bc, 0, j - 1) = AddrOf(m, u, WOTS, by, bd, 0, i0 - 1)
  BY <1>2, <1>4 DEF LinkAddr
<1>6. v = Whole([sk |-> k, seeded |-> k, layer |-> l, tree |-> t, kp1 |-> bx], bc)[j]
  BY <1>2 DEF Link, Chain, KpOf
<1>7. w = Whole([sk |-> k, seeded |-> k, layer |-> m, tree |-> u, kp1 |-> by], bd)[i0]
  BY <1>4 DEF Link, Chain, KpOf
<1> HIDE DEF bx, by, bc, bd
<1>8. l = m /\ t = u /\ bx = by /\ bc = bd /\ j - 1 = i0 - 1
  BY <1>5, AddrTells
<1>9. j = i0
  BY <1>8, Sizes
<1> QED
  BY <1>6, <1>7, <1>8, <1>9

(* and so is a node of a layer, *)
LEMMA LayerNodeTold ==
    ASSUME NEW k, NEW a, NEW v, NEW w, IsLayerNode(k, a, v), IsLayerNode(k, a, w)
    PROVE  v = w
<1>1. PICK l, t : \E h \in 0..TreeHeight, g \in Nat :
         a = LayerNodeAddr(l, t, h, g) /\ v = LayerNode(k, l, t, h, g)
  BY DEF IsLayerNode
<1>2. PICK h \in 0..TreeHeight, g \in Nat :
         a = LayerNodeAddr(l, t, h, g) /\ v = LayerNode(k, l, t, h, g)
  BY <1>1
<1>3. PICK m, u : \E f \in 0..TreeHeight, e \in Nat :
         a = LayerNodeAddr(m, u, f, e) /\ w = LayerNode(k, m, u, f, e)
  BY DEF IsLayerNode
<1>4. PICK f \in 0..TreeHeight, e \in Nat :
         a = LayerNodeAddr(m, u, f, e) /\ w = LayerNode(k, m, u, f, e)
  BY <1>3
<1>5. TreeHeight \in 1..8
  BY SchemeSizes
<1>6. a.type = IF h = 0 THEN WOTSPK ELSE HASHTREE
  BY <1>2, NodeFields DEF LayerNodeAddr, PkAddr, AddrOf
<1>7. a.type = IF f = 0 THEN WOTSPK ELSE HASHTREE
  BY <1>4, NodeFields DEF LayerNodeAddr, PkAddr, AddrOf
<1>8. (h = 0) <=> (f = 0)
  BY <1>6, <1>7 DEF WOTSPK, HASHTREE
<1>9. CASE h = 0
  <2> DEFINE bg == Byte(g)
             be == Byte(e)
  <2>1. AddrOf(l, t, WOTSPK, bg, 0, 0, 0) = AddrOf(m, u, WOTSPK, be, 0, 0, 0)
    BY <1>2, <1>4, <1>8, <1>9 DEF LayerNodeAddr, PkAddr
  <2>2. ASSUME NEW l0, NEW t0, NEW g0 \in Nat
        PROVE  LayerNode(k, l0, t0, 0, g0)
                 = Thash(k, AddrOf(l0, t0, WOTSPK, Byte(g0), 0, 0, 0),
                         KeyOf([sk |-> k, seeded |-> k, layer |-> l0, tree |-> t0, kp1 |-> Byte(g0)]))
    <3> DEFINE lf == LayerLeaf(k, l0, t0)
               n == TreeOf(lf, k, LayerQ(l0, t0), TreeHeight)
    <3>0. TreeHeight \in Nat
      BY HeightNat
    <3>1. /\ \A b \in Nat : n[0][b] = lf[b]
          /\ \A b \in 1..TreeHeight, d \in Nat :
                n[b][d] = Thash(k, NodeAt(LayerQ(l0, t0), b, d), <<n[b - 1][2 * d], n[b - 1][2 * d + 1]>>)
      BY <3>0, TreeLaw
    <3>2. LayerNode(k, l0, t0, 0, g0) = n[0][g0]
      BY DEF LayerNode
    <3>3. lf[g0] = Thash(k, PkAddr(l0, t0, g0), KeyOf(KpOf(k, l0, t0, g0)))
      BY DEF LayerLeaf
    <3> HIDE DEF n, lf
    <3> QED
      BY <3>1, <3>2, <3>3 DEF PkAddr, KpOf
  <2>3. v = Thash(k, AddrOf(l, t, WOTSPK, bg, 0, 0, 0), KeyOf([sk |-> k, seeded |-> k, layer |-> l, tree |-> t, kp1 |-> bg]))
    BY <1>2, <1>9, <2>2
  <2>4. w = Thash(k, AddrOf(m, u, WOTSPK, be, 0, 0, 0), KeyOf([sk |-> k, seeded |-> k, layer |-> m, tree |-> u, kp1 |-> be]))
    BY <1>4, <1>8, <1>9, <2>2
  <2> HIDE DEF bg, be
  <2>5. l = m /\ t = u /\ bg = be
    BY <2>1, AddrTells
  <2> QED
    BY <2>3, <2>4, <2>5
<1>10. CASE h # 0
  <2> DEFINE bh == Byte(h)
             bf == Byte(f)
             bg == Byte(g)
             be == Byte(e)
             qg == g \div 256
             qe == e \div 256
  <2>1. AddrOf(l, t, HASHTREE, 0, bh, qg, bg) = AddrOf(m, u, HASHTREE, 0, bf, qe, be)
    BY <1>2, <1>4, <1>8, <1>10, NodeFields DEF LayerNodeAddr
  <2>2. h \in 0..255 /\ f \in 0..255
    BY <1>5
  <2>3. bh = h /\ bf = f
    BY <2>2, SmallByte
  <2> HIDE DEF bh, bf, bg, be, qg, qe
  <2>4. l = m /\ t = u /\ bh = bf /\ qg = qe /\ bg = be
    BY <2>1, AddrTells
  <2>5. g = e
    BY <2>4, IndexTells DEF bg, be, qg, qe
  <2> QED
    BY <1>2, <1>4, <2>3, <2>4, <2>5
<1> QED
  BY <1>9, <1>10

(* one of FORS, if its height fits the byte that set_tree_height writes, *)
LEMMA ForsNodeTold ==
    ASSUME ForsHeight <= 255,
           NEW k, NEW a, NEW v, NEW w, IsForsNode(k, a, v), IsForsNode(k, a, w)
    PROVE  v = w
<1>1. PICK t, x : \E h \in 0..ForsHeight, g \in Nat :
         a = NodeAt(ForsQ(t, x), h, g) /\ v = ForsNode(k, ForsQ(t, x), h, g)
  BY DEF IsForsNode
<1>2. PICK h \in 0..ForsHeight, g \in Nat :
         a = NodeAt(ForsQ(t, x), h, g) /\ v = ForsNode(k, ForsQ(t, x), h, g)
  BY <1>1
<1>3. PICK u, y : \E f \in 0..ForsHeight, e \in Nat :
         a = NodeAt(ForsQ(u, y), f, e) /\ w = ForsNode(k, ForsQ(u, y), f, e)
  BY DEF IsForsNode
<1>4. PICK f \in 0..ForsHeight, e \in Nat :
         a = NodeAt(ForsQ(u, y), f, e) /\ w = ForsNode(k, ForsQ(u, y), f, e)
  BY <1>3
<1> DEFINE bx == Byte(x)
           by == Byte(y)
           bh == Byte(h)
           bf == Byte(f)
           bg == Byte(g)
           be == Byte(e)
           qg == g \div 256
           qe == e \div 256
<1>5. AddrOf(0, t, FORSTREE, bx, bh, qg, bg) = AddrOf(0, u, FORSTREE, by, bf, qe, be)
  <2>1. NodeAt(ForsQ(t, x), h, g) = AddrOf(0, t, FORSTREE, bx, bh, qg, bg)
    BY NodeFields
  <2>2. NodeAt(ForsQ(u, y), f, e) = AddrOf(0, u, FORSTREE, by, bf, qe, be)
    BY NodeFields
  <2> QED
    BY <1>2, <1>4, <2>1, <2>2
<1>6. ForsQ(t, x) = [layer |-> 0, tree |-> t, type |-> FORSTREE, kp1 |-> bx]
      /\ ForsQ(u, y) = [layer |-> 0, tree |-> u, type |-> FORSTREE, kp1 |-> by]
  BY DEF ForsQ
<1>7. h \in 0..255 /\ f \in 0..255
  BY ForsSizes
<1>8. bh = h /\ bf = f
  BY <1>7, SmallByte
<1> HIDE DEF bx, by, bh, bf, bg, be, qg, qe
<1>9. t = u /\ bx = by /\ bh = bf /\ qg = qe /\ bg = be
  BY <1>5, AddrTells
<1>10. g = e
  BY <1>9, IndexTells DEF bg, be, qg, qe
<1>11. ForsQ(t, x) = ForsQ(u, y)
  BY <1>6, <1>9
<1> QED
  BY <1>2, <1>4, <1>8, <1>9, <1>10, <1>11

(* and a FORS public key. *)
LEMMA ForsPkTold ==
    ASSUME NEW k, NEW a, NEW v, NEW w, IsForsPk(k, a, v), IsForsPk(k, a, w)
    PROVE  v = w
<1>1. PICK t, x : a = ForsPkAddrOf(t, x) /\ v = ForsPkOf(k, t, x)
  BY DEF IsForsPk
<1>2. PICK u, y : a = ForsPkAddrOf(u, y) /\ w = ForsPkOf(k, u, y)
  BY DEF IsForsPk
<1> DEFINE bx == Byte(x)
           by == Byte(y)
<1>3. AddrOf(0, t, FORSPK, bx, 0, 0, 0) = AddrOf(0, u, FORSPK, by, 0, 0, 0)
  BY <1>1, <1>2 DEF ForsPkAddrOf
<1>4. v = Thash(k, AddrOf(0, t, FORSPK, bx, 0, 0, 0),
                [j \in 1..ForsTrees |-> ForsRoot(k, [layer |-> 0, tree |-> t, type |-> FORSTREE, kp1 |-> bx], j - 1)])
  BY <1>1 DEF ForsPkOf, ForsQ
<1>5. w = Thash(k, AddrOf(0, u, FORSPK, by, 0, 0, 0),
                [j \in 1..ForsTrees |-> ForsRoot(k, [layer |-> 0, tree |-> u, type |-> FORSTREE, kp1 |-> by], j - 1)])
  BY <1>2 DEF ForsPkOf, ForsQ
<1> HIDE DEF bx, by
<1>6. t = u /\ bx = by
  BY <1>3, AddrTells
<1> QED
  BY <1>4, <1>5, <1>6

(* The type tells which of the four it is. *)
LEMMA TypesTell ==
    ASSUME NEW k, NEW a, NEW v
    PROVE  /\ IsLink(k, a, v) => a.type = WOTS
           /\ IsLayerNode(k, a, v) => a.type \in {WOTSPK, HASHTREE}
           /\ IsForsNode(k, a, v) => a.type = FORSTREE
           /\ IsForsPk(k, a, v) => a.type = FORSPK
<1>1. ASSUME NEW a1, NEW a2, NEW a3, NEW a4, NEW a5, NEW a6, NEW a7
      PROVE  AddrOf(a1, a2, a3, a4, a5, a6, a7).type = a3
  BY DEF AddrOf
<1>2. IsLink(k, a, v) => a.type = WOTS
  BY <1>1 DEF IsLink, LinkAddr
<1>3. IsLayerNode(k, a, v) => a.type \in {WOTSPK, HASHTREE}
  BY <1>1, NodeFields DEF IsLayerNode, LayerNodeAddr, PkAddr
<1>4. IsForsNode(k, a, v) => a.type = FORSTREE
  BY <1>1, NodeFields DEF IsForsNode
<1>5. IsForsPk(k, a, v) => a.type = FORSPK
  BY <1>1 DEF IsForsPk, ForsPkAddrOf
<1> QED
  BY <1>2, <1>3, <1>4, <1>5

(* Two values are never hashed under one address. *)
LEMMA HashedTold ==
    ASSUME ForsHeight <= 255, NEW k, NEW a, NEW v, NEW w, Hashed(k, a, v), Hashed(k, a, w)
    PROVE  v = w
<1>1. CASE a.type = WOTS
  <2>1. IsLink(k, a, v) /\ IsLink(k, a, w)
    BY <1>1, TypesTell DEF Hashed, WOTS, WOTSPK, HASHTREE, FORSTREE, FORSPK
  <2> QED
    BY <2>1, LinkTold
<1>2. CASE a.type \in {WOTSPK, HASHTREE}
  <2>1. IsLayerNode(k, a, v) /\ IsLayerNode(k, a, w)
    BY <1>2, TypesTell DEF Hashed, WOTS, WOTSPK, HASHTREE, FORSTREE, FORSPK
  <2> QED
    BY <2>1, LayerNodeTold
<1>3. CASE a.type = FORSTREE
  <2>1. IsForsNode(k, a, v) /\ IsForsNode(k, a, w)
    BY <1>3, TypesTell DEF Hashed, WOTS, WOTSPK, HASHTREE, FORSTREE, FORSPK
  <2> QED
    BY <2>1, ForsNodeTold
<1>4. CASE a.type = FORSPK
  <2>1. IsForsPk(k, a, v) /\ IsForsPk(k, a, w)
    BY <1>4, TypesTell DEF Hashed, WOTS, WOTSPK, HASHTREE, FORSTREE, FORSPK
  <2> QED
    BY <2>1, ForsPkTold
<1>5. a.type \in {WOTS, WOTSPK, HASHTREE, FORSTREE, FORSPK}
  BY TypesTell DEF Hashed
<1> QED
  BY <1>1, <1>2, <1>3, <1>4, <1>5

(* The levels of HashesIn. *)
IsLevel(n, xs, m) == n = [h \in 0..m |-> IF h = 0 THEN xs ELSE Taken(n[h - 1])]

(* The levels can be made one after the other, *)
LEMMA LevelExists ==
    ASSUME NEW m \in Nat, NEW xs
    PROVE  \E n : IsLevel(n, xs, m)
<1> DEFINE T == {l \in Nat : \E n : IsLevel(n, xs, l)}
<1>1. 0 \in T
  <2>1. IsLevel([h \in 0..0 |-> xs], xs, 0)
    BY DEF IsLevel
  <2> QED
    BY <2>1
<1>2. ASSUME NEW l \in T PROVE l + 1 \in T
  <2>1. PICK o : IsLevel(o, xs, l)
    OBVIOUS
  <2> DEFINE n == [h \in 0..(l + 1) |-> IF h = l + 1 THEN Taken(o[l]) ELSE o[h]]
  <2>2. ASSUME NEW h \in 0..(l + 1)
        PROVE  n[h] = IF h = 0 THEN xs ELSE Taken(n[h - 1])
    <3>1. l \in Nat
      OBVIOUS
    <3>2. CASE h = l + 1
      <4>1. n[h] = Taken(o[l]) /\ n[h - 1] = o[l] /\ h # 0
        BY <3>1, <3>2
      <4> QED
        BY <3>2, <4>1
    <3>3. CASE h # l + 1
      <4>1. h \in 0..l /\ n[h] = o[h] /\ (h # 0 => n[h - 1] = o[h - 1])
        BY <3>1, <3>3
      <4>2. o[h] = IF h = 0 THEN xs ELSE Taken(o[h - 1])
        BY <2>1, <4>1 DEF IsLevel
      <4> QED
        BY <4>1, <4>2
    <3> QED
      BY <3>2, <3>3
  <2>3. n = [h \in 0..(l + 1) |-> n[h]]
    OBVIOUS
  <2> HIDE DEF n
  <2>4. IsLevel(n, xs, l + 1)
    BY <2>2, <2>3 DEF IsLevel
  <2>5. l + 1 \in Nat
    OBVIOUS
  <2> QED
    BY <2>4, <2>5
<1>3. T = Nat
  <2>1. T \subseteq Nat
    OBVIOUS
  <2> HIDE DEF T
  <2> QED
    BY <1>1, <1>2, <2>1, NatInd
<1> QED
  BY <1>3

(* and each is what the one before takes. *)
LEMMA LevelAt ==
    ASSUME NEW m, NEW xs, NEW n, IsLevel(n, xs, m)
    PROVE  \A h \in 0..m : n[h] = IF h = 0 THEN xs ELSE Taken(n[h - 1])
BY DEF IsLevel

(* There are so many of them. *)
LEMMA DeepestNat == Deepest \in Nat
<1>1. ForsHeight \in Nat /\ D \in Nat /\ TreeHeight \in Nat /\ W \in Nat
  BY ForsSizes, SchemeSizes, HeightNat, Sizes
<1>2. D * (W + TreeHeight) \in Nat
  BY <1>1
<1> QED
  BY <1>1, <1>2 DEF Deepest

(* What a made hash takes is made. *)
LEMMA TakenMade ==
    ASSUME NEW k, NEW xs, \A x \in xs : Made(k, x)
    PROVE  \A x \in Taken(xs) : Made(k, x)
<1> SUFFICES ASSUME NEW x \in Taken(xs) PROVE Made(k, x)
  OBVIOUS
<1>1. PICK y \in xs : IsThash(y) /\ x \in {y[4][c] : c \in DOMAIN y[4]}
  BY DEF Taken
<1>2. PICK c \in DOMAIN y[4] : x = y[4][c]
  BY <1>1
<1>3. PICK a : Hashed(k, a, y)
  <2>1. \A a : y # Prf(k, a)
    BY <1>1 DEF IsThash, Prf
  <2> QED
    BY <2>1 DEF Made
<1>4. PICK in : y = Thash(k, a, in) /\ AllMade(k, in)
  BY <1>3, HashedOf DEF MadeOf
<1>5. y[4] = in
  BY <1>4 DEF Thash
<1> QED
  BY <1>2, <1>4, <1>5 DEF AllMade

(* Of made values, all hashes that were computed to get them are made. *)
LEMMA HashesMade ==
    ASSUME NEW k, NEW xs, \A x \in xs : Made(k, x)
    PROVE  \A x \in HashesIn(xs) : IsThash(x) /\ Made(k, x)
<1> DEFINE Is(n) == n = [h \in 0..Deepest |-> IF h = 0 THEN xs ELSE Taken(n[h - 1])]
           level == CHOOSE n : Is(n)
<1>1. HashesIn(xs) = {x \in UNION {level[n] : n \in 0..Deepest} : IsThash(x)}
  BY DEF HashesIn
<1>2. \E n : Is(n)
  <2>1. PICK o : IsLevel(o, xs, Deepest)
    BY DeepestNat, LevelExists
  <2>2. Is(o)
    BY <2>1 DEF IsLevel
  <2> HIDE DEF Is
  <2> QED
    BY <2>2
<1>3. Is(level)
  <2> HIDE DEF Is
  <2> QED
    BY <1>2
<1> HIDE DEF level
<1> HIDE DEF Is
<1>4. \A h \in 0..Deepest : level[h] = IF h = 0 THEN xs ELSE Taken(level[h - 1])
  <2>1. IsLevel(level, xs, Deepest)
    BY <1>3 DEF Is, IsLevel
  <2> QED
    BY <2>1, LevelAt
<1> DEFINE P(h) == \A x \in level[h] : Made(k, x)
           T == {h \in Nat : h <= Deepest => P(h)}
<1>5. 0 \in T
  <2>1. level[0] = xs
    BY <1>4, DeepestNat
  <2> QED
    BY <2>1
<1>6. ASSUME NEW h \in T PROVE h + 1 \in T
  <2>1. h \in Nat /\ (h <= Deepest => P(h))
    OBVIOUS
  <2> SUFFICES ASSUME h + 1 <= Deepest PROVE P(h + 1)
    BY <2>1
  <2>2. h <= Deepest /\ h + 1 \in 0..Deepest /\ h + 1 # 0 /\ (h + 1) - 1 = h
    BY <2>1, DeepestNat
  <2>3. level[h + 1] = Taken(level[h])
    BY <1>4, <2>2
  <2>4. \A x \in level[h] : Made(k, x)
    BY <2>1, <2>2
  <2> QED
    BY <2>3, <2>4, TakenMade
<1>7. T = Nat
  <2>1. T \subseteq Nat
    OBVIOUS
  <2> HIDE DEF T
  <2> QED
    BY <1>5, <1>6, <2>1, NatInd
<1>8. ASSUME NEW n \in 0..Deepest PROVE P(n)
  <2>1. n \in Nat /\ n <= Deepest
    BY DeepestNat
  <2>2. n \in T
    BY <1>7, <2>1
  <2> QED
    BY <2>1, <2>2
<1> HIDE DEF T
<1> QED
  BY <1>1, <1>8

(* So no two of them are different under one address. *)
LEMMA MadeApart ==
    ASSUME ForsHeight <= 255, NEW k, NEW x, NEW y, IsThash(x), IsThash(y),
           Made(k, x), Made(k, y), x[3] = y[3]
    PROVE  x = y
<1>1. ASSUME NEW v, IsThash(v), Made(k, v) PROVE Hashed(k, v[3], v)
  <2>1. PICK a : Hashed(k, a, v)
    <3>1. \A a : v # Prf(k, a)
      BY <1>1 DEF IsThash, Prf
    <3> QED
      BY <1>1, <3>1 DEF Made
  <2>2. PICK in : v = Thash(k, a, in)
    BY <2>1, HashedOf DEF MadeOf
  <2>3. v[3] = a
    BY <2>2 DEF Thash
  <2> QED
    BY <2>1, <2>3
<1>2. Hashed(k, x[3], x) /\ Hashed(k, x[3], y)
  BY <1>1
<1> QED
  BY <1>2, HashedTold

-------------------------------------------------------------------------------
(* What signatures are made of. *)
LEMMA UnderMade ==
    ASSUME NEW k, NEW d \in Digest, NEW l \in Nat
    PROVE  Made(k, UnderAt(k, d, l))
<1>1. CASE l = 0
  <2>1. UnderAt(k, d, l) = ForsPkOf(k, d.tree, d.idx_leaf)
    BY <1>1 DEF UnderAt
  <2> QED
    BY <2>1 DEF Made, Hashed, IsForsPk
<1>2. CASE l # 0
  <2> DEFINE t == TreeAt(d, l - 1)
             v == UnderAt(k, d, l)
             g == 0 \div TwoTo[TreeHeight]
  <2>1. v = LayerNode(k, l - 1, t, TreeHeight, g)
    BY <1>2 DEF UnderAt, LayerRoot, RootOf, LayerNode
  <2>2. TreeHeight \in 0..TreeHeight /\ g \in Nat
    <3>1. TwoTo[TreeHeight] \in Nat \ {0} /\ TreeHeight \in Nat
      BY SchemeSizes, HeightNat
    <3> QED
      BY <3>1
  <2>3. IsLayerNode(k, LayerNodeAddr(l - 1, t, TreeHeight, g), v)
    <3> HIDE DEF t, v, g
    <3> QED
      BY <2>1, <2>2 DEF IsLayerNode
  <2> HIDE DEF v, t
  <2> QED
    BY <2>3 DEF Made, Hashed, v
<1> QED
  BY <1>1, <1>2

(* The address that a made value was made under. *)
IsAt(k, a, v) == v = Prf(k, a) \/ Hashed(k, a, v)

(* It is one of the fields, and another one tells secrets from hashes. *)
LEMMA IsAtMade ==
    ASSUME NEW k, NEW a, NEW v, IsAt(k, a, v)
    PROVE  Made(k, v) /\ v[3] = a /\ v[1] \in {"prf", "thash"}
<1>1. Made(k, v)
  BY DEF IsAt, Made
<1>2. CASE v = Prf(k, a)
  BY <1>1, <1>2 DEF Prf
<1>3. CASE Hashed(k, a, v)
  <2>1. PICK in : v = Thash(k, a, in)
    BY <1>3, HashedOf DEF MadeOf
  <2> QED
    BY <1>1, <2>1 DEF Thash
<1> QED
  BY <1>2, <1>3 DEF IsAt

(* The cells of a FORS tree. *)
ForsCellIndex(t, x, c) ==
    IF c = 1 THEN x + IdxOffset(t)
    ELSE Neighbour(x \div TwoTo[c - 2]) + IdxOffset(t) \div TwoTo[c - 2]
ForsCellHeight(c) == IF c = 1 THEN 0 ELSE c - 2

(* Where a cell of FORS stands. *)
LEMMA ForsCellAt ==
    ASSUME NEW k, NEW tr, NEW y, NEW t \in Nat, NEW x \in Nat, NEW c \in 1..(1 + ForsHeight)
    PROVE  LET v == ForsCell(k, ForsQ(tr, y), t, x, c)
           IN  /\ IsAt(k, NodeAt(ForsQ(tr, y), ForsCellHeight(c), ForsCellIndex(t, x, c)), v)
               /\ v[1] = "prf" <=> c = 1
<1> DEFINE q == ForsQ(tr, y)
           v == ForsCell(k, q, t, x, c)
<1>1. CASE c = 1
  <2>1. v = Prf(k, NodeAt(q, 0, x + IdxOffset(t)))
    BY <1>1 DEF ForsCell
  <2>2. v[1] = "prf"
    BY <2>1 DEF Prf
  <2> HIDE DEF v
  <2> QED
    BY <1>1, <2>1, <2>2 DEF IsAt, ForsCellHeight, ForsCellIndex, v
<1>2. CASE c # 1
  <2> DEFINE h == c - 2
             g == ForsCellIndex(t, x, c)
  <2>1. ForsHeight \in Nat \ {0} /\ IdxOffset(t) \in Nat
    BY OffsetNat
  <2>2. c - 1 \in 1..ForsHeight /\ (c - 1) - 1 = h /\ h \in 0..ForsHeight
    BY <1>2, <2>1
  <2>3. g \in Nat
    <3>1. TwoTo[h] \in Nat \ {0}
      BY <2>2, TwoToLaw
    <3>2. x \div TwoTo[h] \in Nat /\ IdxOffset(t) \div TwoTo[h] \in Nat
      BY <2>1, <3>1
    <3>3. Neighbour(x \div TwoTo[h]) \in Nat
      BY <3>2 DEF Neighbour
    <3> QED
      BY <1>2, <3>2, <3>3 DEF ForsCellIndex
  <2>4. v = ForsNode(k, q, h, g)
    <3>1. v = ForsAuth(k, q, t, x)[c - 1]
      BY <1>2 DEF ForsCell
    <3>2. ForsAuth(k, q, t, x)[c - 1] = TreeOf(ForsLeaf(k, q), k, q, ForsHeight)[h][Neighbour(x \div TwoTo[h]) + IdxOffset(t) \div TwoTo[h]]
      <4> HIDE DEF h, q
      <4> QED
        BY <2>2 DEF ForsAuth, AuthOf
    <3>3. g = Neighbour(x \div TwoTo[h]) + IdxOffset(t) \div TwoTo[h]
      BY <1>2 DEF ForsCellIndex
    <3> HIDE DEF h, g, v, q
    <3> QED
      BY <3>1, <3>2, <3>3 DEF ForsNode
  <2>5. Hashed(k, NodeAt(q, h, g), v)
    <3> HIDE DEF h, g, v
    <3> QED
      BY <2>2, <2>3, <2>4 DEF Hashed, IsForsNode
  <2>6. PICK in : v = Thash(k, NodeAt(q, h, g), in)
    <3> HIDE DEF h, g, v, q
    <3> QED
      BY <2>5, HashedOf DEF MadeOf
  <2>7. v[1] # "prf"
    <3> HIDE DEF v
    <3> QED
      BY <2>6 DEF Thash
  <2> HIDE DEF v
  <2> QED
    BY <1>2, <2>5, <2>7 DEF IsAt, ForsCellHeight, v
<1> QED
  BY <1>1, <1>2

(* The tree is told by the index of a cell. *)
LEMMA ForsIndexTells ==
    ASSUME NEW t \in Nat, NEW x \in 0..(TwoTo[ForsHeight] - 1), NEW c \in 2..(1 + ForsHeight)
    PROVE  ForsCellIndex(t, x, c) \in Nat /\ ForsCellIndex(t, x, c) \div TwoTo[ForsHeight - (c - 2)] = t
<1> DEFINE h == c - 2
           e == ForsHeight - h - 1
           p == TwoTo[h]
           r == TwoTo[e]
           a == TwoTo[ForsHeight - h]
           z == x \div p
<1>1. ForsHeight \in Nat \ {0} /\ h \in Nat /\ e \in Nat /\ e + 1 = ForsHeight - h /\ ForsHeight - h \in Nat
      /\ (ForsHeight - h) + h = ForsHeight /\ c # 1
  BY ForsSizes
<1>2. a = 2 * r /\ TwoTo[ForsHeight] = a * p /\ a \in Nat \ {0} /\ r \in Nat \ {0} /\ p \in Nat \ {0}
  <2>1. a = 2 * r /\ a \in Nat \ {0} /\ r \in Nat \ {0} /\ p \in Nat \ {0}
    BY <1>1, TwoToLaw
  <2> DEFINE f == ForsHeight - h
  <2>2. f \in Nat /\ h \in Nat /\ f + h = ForsHeight
    BY <1>1
  <2> HIDE DEF f, h
  <2>3. TwoTo[f + h] = TwoTo[f] * TwoTo[h]
    BY <2>2, TwoToAdd
  <2> QED
    BY <2>1, <2>2, <2>3 DEF f
<1>3. IdxOffset(t) = t * (a * p)
  BY <1>2 DEF IdxOffset
<1>4. ForsCellIndex(t, x, c) = Neighbour(z) + (t * (a * p)) \div p
  BY <1>1, <1>3 DEF ForsCellIndex
<1>5. x \in Nat /\ x < a * p
  <2>1. a * p \in Nat
    BY <1>2
  <2> HIDE DEF a, p
  <2> QED
    BY <1>2, <2>1
<1> HIDE DEF h, e, p, r, a, z
<1>6. z \in Nat /\ z < a
  BY <1>2, <1>5 DEF z
<1>7. Neighbour(z) \in 0..(a - 1)
  BY <1>2, <1>6 DEF Neighbour
<1>8. (t * (a * p)) \div p = t * a /\ t * a \in Nat
  <2>1. t * (a * p) = (t * a) * p /\ t * a \in Nat
    BY <1>2
  <2> QED
    BY <1>2, <2>1
<1>9. (Neighbour(z) + t * a) \div a = t
  <2> DEFINE nb == Neighbour(z)
  <2>1. nb \in 0..(a - 1)
    BY <1>7
  <2> HIDE DEF nb
  <2> QED
    BY <1>2, <2>1 DEF nb
<1>10. Neighbour(z) + t * a \in Nat
  BY <1>2, <1>7, <1>8
<1> QED
  BY <1>4, <1>8, <1>9, <1>10 DEF a, h

(* No two cells of FORS are the same. *)
LEMMA ForsCellsApart ==
    ASSUME ForsHeight <= 255, NEW k, NEW tr, NEW y,
           NEW t \in Nat, NEW x \in 0..(TwoTo[ForsHeight] - 1), NEW c \in 1..(1 + ForsHeight),
           NEW s \in Nat, NEW z \in 0..(TwoTo[ForsHeight] - 1), NEW e \in 1..(1 + ForsHeight),
           ForsCell(k, ForsQ(tr, y), t, x, c) = ForsCell(k, ForsQ(tr, y), s, z, e)
    PROVE  t = s /\ c = e
<1> DEFINE q == ForsQ(tr, y)
           v == ForsCell(k, q, t, x, c)
           g == ForsCellIndex(t, x, c)
           f == ForsCellIndex(s, z, e)
           hc == ForsCellHeight(c)
           he == ForsCellHeight(e)
<1>1. ForsHeight \in Nat \ {0} /\ TwoTo[ForsHeight] \in Nat \ {0} /\ x \in Nat /\ z \in Nat
  <2>1. ForsHeight \in Nat \ {0}
    BY ForsSizes
  <2>2. TwoTo[ForsHeight] \in Nat \ {0}
    BY <2>1, TwoToLaw
  <2> QED
    BY <2>1, <2>2
<1>2. IsAt(k, NodeAt(q, hc, g), v) /\ (v[1] = "prf" <=> c = 1)
  BY <1>1, ForsCellAt
<1>3. IsAt(k, NodeAt(q, he, f), v) /\ (v[1] = "prf" <=> e = 1)
  BY <1>1, ForsCellAt
<1>4. NodeAt(q, hc, g) = NodeAt(q, he, f)
  <2> HIDE DEF hc, he, g, f, v
  <2> QED
    BY <1>2, <1>3, IsAtMade
<1>5. (c = 1) <=> (e = 1)
  BY <1>2, <1>3
<1> DEFINE bh == Byte(hc)
           bf == Byte(he)
           bg == Byte(g)
           be == Byte(f)
           qg == g \div 256
           qe == f \div 256
           by == Byte(y)
<1>6. AddrOf(0, tr, FORSTREE, by, bh, qg, bg) = AddrOf(0, tr, FORSTREE, by, bf, qe, be)
  <2>1. NodeAt(q, hc, g) = AddrOf(0, tr, FORSTREE, by, bh, qg, bg)
    <3> HIDE DEF hc, g
    <3> QED
      BY NodeFields
  <2>2. NodeAt(q, he, f) = AddrOf(0, tr, FORSTREE, by, bf, qe, be)
    <3> HIDE DEF he, f
    <3> QED
      BY NodeFields
  <2> QED
    BY <1>4, <2>1, <2>2
<1>7. bh = hc /\ bf = he
  <2>1. hc \in 0..255 /\ he \in 0..255
    BY <1>1 DEF ForsCellHeight
  <2> HIDE DEF hc, he
  <2> QED
    BY <2>1, SmallByte
<1>8. bh = bf /\ qg = qe /\ bg = be
  <2> HIDE DEF bh, bf, qg, qe, bg, be, by
  <2> QED
    BY <1>6, AddrTells
<1>9. c = e
  BY <1>1, <1>5, <1>7, <1>8 DEF ForsCellHeight
<1>10. g \in Nat /\ f \in Nat
  <2>1. CASE c = 1
    BY <1>1, <1>9, <2>1, OffsetNat DEF ForsCellIndex
  <2>2. CASE c # 1
    <3>1. c \in 2..(1 + ForsHeight) /\ e \in 2..(1 + ForsHeight)
      BY <1>1, <1>9, <2>2
    <3> QED
      BY <3>1, ForsIndexTells
  <2> QED
    BY <2>1, <2>2
<1>11. g = f
  <2> HIDE DEF g, f
  <2> QED
    BY <1>8, <1>10, IndexTells
<1>12. t = s
  <2>1. CASE c = 1
    <3> DEFINE m == TwoTo[ForsHeight]
    <3>1. x + t * m = z + s * m
      BY <1>9, <1>11, <2>1 DEF ForsCellIndex, IdxOffset
    <3>2. m \in Nat \ {0} /\ x \in 0..(m - 1) /\ z \in 0..(m - 1)
      BY <1>1
    <3> HIDE DEF m
    <3>3. (x + t * m) \div m = t /\ (z + s * m) \div m = s
      BY <3>2
    <3> QED
      BY <3>1, <3>3
  <2>2. CASE c # 1
    <3>1. c \in 2..(1 + ForsHeight) /\ e = c
      BY <1>1, <1>9, <2>2
    <3>2. ForsCellIndex(t, x, c) \div TwoTo[ForsHeight - (c - 2)] = t
      BY <3>1, ForsIndexTells
    <3>3. ForsCellIndex(s, z, c) \div TwoTo[ForsHeight - (c - 2)] = s
      BY <3>1, ForsIndexTells
    <3> QED
      BY <1>11, <3>1, <3>2, <3>3
  <2> QED
    BY <2>1, <2>2
<1> QED
  BY <1>9, <1>12

(* The cells of a layer: where the address of each says it stands. *)
LayerTag(c) ==
    IF c <= WotsLen THEN <<WOTS, c - 1>>
    ELSE IF c = WotsLen + 1 THEN <<WOTSPK, 0>>
    ELSE <<HASHTREE, c - WotsLen - 1>>

IsTagged(k, l, c, v) == \E a : IsAt(k, a, v) /\ a.layer = l /\ <<a.type, a.b17>> = LayerTag(c)

(* The cells of a chain, *)
LEMMA LinkCellAt ==
    ASSUME NEW k, NEW l, NEW t, NEW x, NEW b \in Hashes, NEW c \in 1..WotsLen
    PROVE  IsTagged(k, l, c, LayerCell(k, l, t, x, b, c))
<1> DEFINE f == ChainLengths(b)[c]
           v == LayerCell(k, l, t, x, b, c)
<1>1. WotsLen \in Nat /\ WotsLen <= 256
  BY SchemeSizes
<1>2. f \in 0..(W - 1)
  <2>1. b \in [1..N -> 0..255]
    BY DEF Hashes
  <2> QED
    BY <2>1, LengthsInRange
<1>3. v = Link(k, l, t, x, c, f)
  BY <1>1 DEF LayerCell, Link
<1>4. \A j : LinkAddr(l, t, x, c, j).layer = l /\ LinkAddr(l, t, x, c, j).type = WOTS
             /\ LinkAddr(l, t, x, c, j).b17 = Byte(c - 1)
  BY DEF LinkAddr, AddrOf
<1>5. Byte(c - 1) = c - 1
  <2>1. c - 1 \in 0..255
    BY <1>1
  <2> QED
    BY <2>1, SmallByte, ZenonT(40)
<1>6. LayerTag(c) = <<WOTS, c - 1>>
  BY <1>1 DEF LayerTag
<1>7. ASSUME NEW j, IsAt(k, LinkAddr(l, t, x, c, j), v) PROVE IsTagged(k, l, c, v)
  <2> DEFINE a == LinkAddr(l, t, x, c, j)
  <2>1. a.layer = l /\ <<a.type, a.b17>> = LayerTag(c)
    BY <1>4, <1>5, <1>6
  <2> HIDE DEF a, v
  <2>2. IsAt(k, a, v)
    BY <1>7 DEF a
  <2> QED
    BY <2>1, <2>2 DEF IsTagged
<1>8. CASE f = 0
  <2>1. v = Prf(k, LinkAddr(l, t, x, c, 1))
    BY <1>3, <1>8, FirstLink
  <2> HIDE DEF v
  <2>2. IsAt(k, LinkAddr(l, t, x, c, 1), v)
    BY <2>1 DEF IsAt
  <2> QED
    BY <1>7, <2>2 DEF v
<1>9. CASE f # 0
  <2>1. f \in 1..(W - 1)
    BY <1>2, <1>9, Sizes
  <2> HIDE DEF v, f
  <2>2. IsLink(k, LinkAddr(l, t, x, c, f), v)
    BY <1>3, <2>1 DEF IsLink
  <2>3. IsAt(k, LinkAddr(l, t, x, c, f), v)
    BY <2>2 DEF IsAt, Hashed
  <2> QED
    BY <1>7, <2>3 DEF v
<1> QED
  BY <1>8, <1>9

(* and the nodes on the way to the root. *)
LEMMA AuthCellAt ==
    ASSUME NEW k, NEW l, NEW t, NEW x \in Nat, NEW b, NEW c \in (WotsLen + 1)..LayerCells
    PROVE  IsTagged(k, l, c, LayerCell(k, l, t, x, b, c))
<1> DEFINE h == c - WotsLen - 1
           p == TwoTo[h]
           o == 0 \div p
           g == Neighbour(x \div p) + o
           v == LayerCell(k, l, t, x, b, c)
           a == LayerNodeAddr(l, t, h, g)
<1>1. /\ TreeHeight \in 1..8 /\ WotsLen \in Nat /\ LayerCells = WotsLen + TreeHeight
      /\ c \in Nat /\ ~(c <= WotsLen)
  BY SchemeSizes, HeightNat
<1>2. h \in 0..TreeHeight /\ h \in Nat /\ c - WotsLen \in 1..TreeHeight /\ (c - WotsLen) - 1 = h
      /\ h \in 0..255
  BY <1>1
<1>3. g \in Nat
  <2>1. p \in Nat \ {0}
    BY <1>2, TwoToLaw
  <2> HIDE DEF p
  <2>2. x \div p \in Nat /\ 0 \div p \in Nat
    BY <2>1
  <2>3. Neighbour(x \div p) \in Nat
    BY <2>2 DEF Neighbour
  <2> QED
    BY <2>2, <2>3
<1>4. v = LayerNode(k, l, t, h, g)
  <2>1. v = LayerAuth(k, l, t, x)[c - WotsLen]
    BY <1>1 DEF LayerCell
  <2>2. LayerAuth(k, l, t, x)[c - WotsLen] = TreeOf(LayerLeaf(k, l, t), k, LayerQ(l, t), TreeHeight)[h][g]
    <3> HIDE DEF h
    <3> QED
      BY <1>2 DEF LayerAuth, AuthOf, g, o, p
  <2> HIDE DEF v, h, g
  <2> QED
    BY <2>1, <2>2 DEF LayerNode
<1> HIDE DEF v, g
<1>5. IsAt(k, a, v)
  <2> HIDE DEF h
  <2>1. IsLayerNode(k, a, v)
    BY <1>2, <1>3, <1>4 DEF IsLayerNode
  <2> QED
    BY <2>1 DEF IsAt, Hashed
<1>6. a.layer = l /\ <<a.type, a.b17>> = LayerTag(c)
  <2>1. CASE h = 0
    <3>1. a = AddrOf(l, t, WOTSPK, Byte(g), 0, 0, 0)
      BY <2>1 DEF LayerNodeAddr, PkAddr
    <3>2. LayerTag(c) = <<WOTSPK, 0>>
      BY <1>1, <2>1 DEF LayerTag
    <3> HIDE DEF a
    <3> QED
      BY <3>1, <3>2 DEF AddrOf
  <2>2. CASE h # 0
    <3> DEFINE bh == Byte(h)
               qg == g \div 256
               bg == Byte(g)
    <3>1. a = AddrOf(l, t, HASHTREE, 0, bh, qg, bg)
      <4> HIDE DEF h
      <4> QED
        BY <2>2, NodeFields DEF LayerNodeAddr
    <3>2. LayerTag(c) = <<HASHTREE, h>>
      BY <1>1, <2>2 DEF LayerTag
    <3>3. bh = h
      <4> HIDE DEF h
      <4> QED
        BY <1>2, SmallByte
    <3> HIDE DEF a, bh, qg, bg, h
    <3> QED
      BY <3>1, <3>2, <3>3 DEF AddrOf
  <2> QED
    BY <2>1, <2>2
<1> HIDE DEF a
<1> QED
  BY <1>5, <1>6 DEF IsTagged, v

(* Both. *)
LEMMA LayerCellAt ==
    ASSUME NEW k, NEW l, NEW t, NEW x \in Nat, NEW b \in Hashes, NEW c \in 1..LayerCells
    PROVE  IsTagged(k, l, c, LayerCell(k, l, t, x, b, c))
<1>1. WotsLen \in Nat /\ LayerCells \in Nat
  BY HeightNat
<1>2. c \in 1..WotsLen \/ c \in (WotsLen + 1)..LayerCells
  BY <1>1
<1> QED
  BY <1>2, LinkCellAt, AuthCellAt

(* The tag tells the cell. *)
LEMMA TagTells ==
    ASSUME NEW c \in 1..LayerCells, NEW e \in 1..LayerCells, LayerTag(c) = LayerTag(e)
    PROVE  c = e
<1>1. WotsLen \in Nat /\ LayerCells \in Nat
  BY HeightNat
<1>2. CASE c <= WotsLen
  <2>1. LayerTag(c) = <<WOTS, c - 1>>
    BY <1>2 DEF LayerTag
  <2>2. e <= WotsLen
    BY <2>1 DEF LayerTag, WOTS, WOTSPK, HASHTREE
  <2> QED
    BY <1>1, <2>1, <2>2 DEF LayerTag
<1>3. CASE c = WotsLen + 1
  <2>1. LayerTag(c) = <<WOTSPK, 0>>
    BY <1>1, <1>3 DEF LayerTag
  <2> QED
    BY <1>1, <1>3, <2>1 DEF LayerTag, WOTS, WOTSPK, HASHTREE
<1>4. CASE ~(c <= WotsLen) /\ c # WotsLen + 1
  <2>1. LayerTag(c) = <<HASHTREE, c - WotsLen - 1>>
    BY <1>4 DEF LayerTag
  <2>2. LayerTag(e) = <<HASHTREE, e - WotsLen - 1>>
    BY <2>1 DEF LayerTag, WOTS, WOTSPK, HASHTREE
  <2>3. c - WotsLen - 1 = e - WotsLen - 1
    <3> DEFINE p == c - WotsLen - 1
               q == e - WotsLen - 1
    <3>1. <<HASHTREE, p>> = <<HASHTREE, q>>
      BY <2>1, <2>2
    <3> HIDE DEF p, q
    <3>2. p = q
      BY <3>1
    <3> QED
      BY <3>2 DEF p, q
  <2> QED
    BY <1>1, <2>3
<1> QED
  BY <1>2, <1>3, <1>4

(* No two cells of layers are the same. *)
LEMMA TaggedApart ==
    ASSUME NEW k, NEW v, NEW l, NEW m, NEW c \in 1..LayerCells, NEW e \in 1..LayerCells,
           IsTagged(k, l, c, v), IsTagged(k, m, e, v)
    PROVE  l = m /\ c = e
<1>1. PICK a : IsAt(k, a, v) /\ a.layer = l /\ <<a.type, a.b17>> = LayerTag(c)
  BY DEF IsTagged
<1>2. PICK b : IsAt(k, b, v) /\ b.layer = m /\ <<b.type, b.b17>> = LayerTag(e)
  BY DEF IsTagged
<1>3. a = b
  BY <1>1, <1>2, IsAtMade
<1>4. LayerTag(c) = LayerTag(e)
  BY <1>1, <1>2, <1>3
<1> QED
  BY <1>1, <1>2, <1>3, <1>4, TagTells

(* Nor is one of FORS one of a layer. *)
LEMMA ForsNotTagged ==
    ASSUME NEW k, NEW tr, NEW y, NEW t \in Nat, NEW x \in Nat, NEW c \in 1..(1 + ForsHeight),
           NEW l, NEW e
    PROVE  ~IsTagged(k, l, e, ForsCell(k, ForsQ(tr, y), t, x, c))
<1> DEFINE v == ForsCell(k, ForsQ(tr, y), t, x, c)
           h == ForsCellHeight(c)
           g == ForsCellIndex(t, x, c)
           a == NodeAt(ForsQ(tr, y), h, g)
<1>1. IsAt(k, a, v)
  BY ForsCellAt
<1>2. a.type = FORSTREE
  <2> HIDE DEF h, g
  <2> QED
    BY NodeFields DEF AddrOf
<1> HIDE DEF a, v
<1> SUFFICES ASSUME IsTagged(k, l, e, v) PROVE FALSE
  BY DEF v
<1>3. PICK b : IsAt(k, b, v) /\ <<b.type, b.b17>> = LayerTag(e)
  BY DEF IsTagged
<1>4. a = b
  BY <1>1, <1>3, IsAtMade
<1>5. LayerTag(e)[1] # FORSTREE
  BY DEF LayerTag, WOTS, WOTSPK, HASHTREE, FORSTREE
<1> QED
  BY <1>2, <1>3, <1>4, <1>5

(* A tagged cell is made. *)
LEMMA TaggedMade ==
    ASSUME NEW k, NEW l, NEW c, NEW v, IsTagged(k, l, c, v)
    PROVE  Made(k, v) /\ v[1] \in {"prf", "thash"}
BY IsAtMade DEF IsTagged

(* While a signature is made, it begins with what gen_message_random gave. *)
RandomFirst == pc \in {"sign_fors", "sign_layers"} => sig[1][1] = "random"

(* It stays the first cell. *)
LEMMA RandomNext ==
    ASSUME Inv, RandomFirst, [Next]_vars
    PROVE  RandomFirst'
<1>1. CASE UNCHANGED vars
  BY <1>1 DEF vars, locals, RandomFirst
<1>2. ASSUME NEW k \in Keys, Keypair(k) PROVE RandomFirst'
  <2>1. pc = "idle" /\ pc' = pc
    BY <1>2 DEF Keypair, NewCall
  <2> QED
    BY <2>1 DEF RandomFirst
<1>3. ASSUME NEW k \in Keys, NEW m \in Messages, Sign(k, m) PROVE RandomFirst'
  <2>1. PICK o : sig' = <<GenMessageRandom(k, o, m)>>
    BY <1>3 DEF Sign
  <2> QED
    BY <2>1 DEF GenMessageRandom, RandomFirst
<1>4. CASE SignFors
  BY <1>4, SignForsInv DEF SignFors, RandomFirst
<1>5. CASE SignForsPk
  BY <1>5 DEF SignForsPk, ForsPk, RandomFirst
<1>6. CASE SignLayer
  BY <1>6, SignLayerInv DEF SignLayer, RandomFirst
<1>7. CASE SignReturn
  BY <1>7 DEF SignReturn, RandomFirst
<1>8. ASSUME NEW p \in Presented, Verify(p[1], p[2], p[3]) PROVE RandomFirst'
  <2>1. pc' \in {"verified", "verify_fors"}
    BY <1>8 DEF Verify
  <2> QED
    BY <2>1 DEF RandomFirst
<1>9. CASE VerifyFors
  BY <1>9 DEF VerifyFors, RandomFirst
<1>10. CASE VerifyForsPk
  BY <1>10 DEF VerifyForsPk, RandomFirst
<1>11. CASE VerifyLayer
  BY <1>11 DEF VerifyLayer, RandomFirst
<1>12. CASE VerifyReturn
  BY <1>12 DEF VerifyReturn, RandomFirst
<1>13. CASE Resume
  BY <1>13 DEF Resume, RandomFirst
<1> QED
  BY <1>1, <1>2, <1>3, <1>4, <1>5, <1>6, <1>7, <1>8, <1>9, <1>10, <1>11, <1>12, <1>13 DEF Next

(* The cells of a signature that is being finished. *)
Finishing == Inv /\ RandomFirst /\ pc = "sign_layers" /\ i = D

NowLeaf(t) == MessageToIndices(Now.mhash)[t]
IsForsPart(j) == \E t \in 0..(ForsTrees - 1), c \in 1..(1 + ForsHeight) :
    j = ForsPlace(t, c) /\ sig[j] = ForsCell(key, NowQ, t, NowLeaf(t), c)
IsLayerPart(j) == \E l \in 0..(D - 1), c \in 1..LayerCells :
    j = LayerPlace(l, c) /\ IsTagged(key, l, c, sig[j])

(* The leaf that a tree of FORS opens. *)
LEMMA LeafNat ==
    ASSUME Finishing, NEW t \in 0..(ForsTrees - 1)
    PROVE  NowLeaf(t) \in 0..(TwoTo[ForsHeight] - 1) /\ NowLeaf(t) \in Nat /\ t \in Nat
<1>1. Call
  BY DEF Finishing, Inv, Calls
<1>2. Now.mhash \in MHashes
  BY <1>1, NowDigest, DigestFields DEF Finishing
<1>3. NowLeaf(t) \in 0..(TwoTo[ForsHeight] - 1)
  BY <1>2, IndexRange DEF NowLeaf
<1>4. TwoTo[ForsHeight] \in Nat
  BY ForsSizes, TwoToLaw
<1> QED
  BY <1>3, <1>4, ForsSizes

(* Every cell but the first is of a FORS tree or of a layer. *)
LEMMA PartsAre ==
    ASSUME Finishing
    PROVE  /\ DOMAIN sig = 1..Len(sig) /\ Len(sig) = SpxCells /\ Len(sig) \in Nat
           /\ \A j \in 1..Len(sig) : j = 1 \/ IsForsPart(j) \/ IsLayerPart(j)
<1>1. Call /\ InLayers /\ SigningLayers /\ i = D /\ OraclesOK
  BY DEF Finishing, Inv, Calls
<1>2. IsSeq(sig) /\ Len(sig) = SpxCells /\ SpxCells \in Nat
  BY <1>1, PlacesMeet, Layout DEF Call, SigningLayers
<1>3. DOMAIN sig = 1..Len(sig)
  BY <1>2 DEF IsSeq
<1>4. Now \in Digest
  BY <1>1, NowDigest DEF Finishing
<1>5. ASSUME NEW j \in 1..SpxCells PROVE j = 1 \/ IsForsPart(j) \/ IsLayerPart(j)
  <2>1. ASSUME NEW t \in 0..(ForsTrees - 1), NEW c \in 1..(1 + ForsHeight), j = ForsPlace(t, c)
        PROVE  IsForsPart(j)
    <3>1. ForsTreeGood(key, Now, sig, t)
      BY <1>1 DEF SigningLayers, ForsGood
    <3>2. sig[j] = ForsCell(key, NowQ, t, NowLeaf(t), c)
      BY <2>1, <3>1 DEF ForsTreeGood, NowQ, NowLeaf
    <3> QED
      BY <2>1, <3>2 DEF IsForsPart
  <2>2. ASSUME NEW l \in 0..(D - 1), NEW c \in 1..LayerCells, j = LayerPlace(l, c)
        PROVE  IsLayerPart(j)
    <3> DEFINE n == TreeAt(Now, l)
               g == LeafAt(Now, l)
               b == bytes[UnderAt(key, Now, l)]
    <3>1. LayerGood(bytes, key, Now, sig, l)
      BY <1>1 DEF SigningLayers, LayersGood
    <3>2. b \in Hashes
      BY <1>1, <3>1 DEF LayerGood, OraclesOK, IsOracle
    <3>3. g \in Nat
      <4>1. l \in Nat /\ TwoTo[TreeHeight] \in Nat
        BY SchemeSizes
      <4>2. g \in 0..(TwoTo[TreeHeight] - 1)
        BY <1>4, <4>1, WayUp
      <4> QED
        BY <4>1, <4>2
    <3>4. sig[j] = LayerCell(key, l, n, g, b, c)
      BY <2>2, <3>1 DEF LayerGood, LayerMade
    <3> HIDE DEF n, g, b
    <3>5. IsTagged(key, l, c, sig[j])
      BY <3>2, <3>3, <3>4, LayerCellAt
    <3> QED
      BY <2>2, <3>5 DEF IsLayerPart
  <2> QED
    BY <2>1, <2>2, Places
<1> QED
  BY <1>2, <1>3, <1>5

(* No two cells are the same. *)
LEMMA CellsApart ==
    ASSUME ForsHeight <= 255, Finishing
    PROVE  IsInjective(sig)
<1> SUFFICES ASSUME NEW a \in 1..Len(sig), NEW b \in 1..Len(sig), sig[a] = sig[b]
             PROVE  a = b
  BY PartsAre DEF IsInjective
<1>1. ASSUME NEW j, IsForsPart(j) PROVE sig[j][1] # "random" /\ \A l, e : ~IsTagged(key, l, e, sig[j])
  <2>1. PICK t \in 0..(ForsTrees - 1), c \in 1..(1 + ForsHeight) :
            sig[j] = ForsCell(key, NowQ, t, NowLeaf(t), c)
    BY <1>1 DEF IsForsPart
  <2>2. NowLeaf(t) \in Nat /\ t \in Nat
    BY LeafNat
  <2>3. IsAt(key, NodeAt(NowQ, ForsCellHeight(c), ForsCellIndex(t, NowLeaf(t), c)), sig[j])
    BY <2>1, <2>2, ForsCellAt DEF NowQ
  <2>4. sig[j][1] # "random"
    BY <2>3, IsAtMade
  <2>5. \A l, e : ~IsTagged(key, l, e, sig[j])
    BY <2>1, <2>2, ForsNotTagged DEF NowQ
  <2> QED
    BY <2>4, <2>5
<1>2. ASSUME NEW j, IsLayerPart(j) PROVE sig[j][1] # "random" /\ \E l, e : IsTagged(key, l, e, sig[j])
  BY <1>2, TaggedMade DEF IsLayerPart
<1>3. sig[1][1] = "random"
  BY DEF Finishing, RandomFirst
<1>4. CASE a = 1 \/ b = 1
  BY <1>1, <1>2, <1>3, <1>4, PartsAre
<1>5. CASE IsForsPart(a) /\ IsForsPart(b)
  <2>1. PICK t \in 0..(ForsTrees - 1), c \in 1..(1 + ForsHeight) :
            a = ForsPlace(t, c) /\ sig[a] = ForsCell(key, NowQ, t, NowLeaf(t), c)
    BY <1>5 DEF IsForsPart
  <2>2. PICK s \in 0..(ForsTrees - 1), e \in 1..(1 + ForsHeight) :
            b = ForsPlace(s, e) /\ sig[b] = ForsCell(key, NowQ, s, NowLeaf(s), e)
    BY <1>5 DEF IsForsPart
  <2>3. ForsCell(key, NowQ, t, NowLeaf(t), c) = ForsCell(key, NowQ, s, NowLeaf(s), e)
    BY <2>1, <2>2
  <2>4. t = s /\ c = e
    <3>1. NowLeaf(t) \in 0..(TwoTo[ForsHeight] - 1) /\ NowLeaf(s) \in 0..(TwoTo[ForsHeight] - 1)
          /\ t \in Nat /\ s \in Nat
      BY LeafNat
    <3> QED
      BY <2>3, <3>1, ForsCellsApart DEF NowQ
  <2> QED
    BY <2>1, <2>2, <2>4
<1>6. CASE IsLayerPart(a) /\ IsLayerPart(b)
  <2>1. PICK l \in 0..(D - 1), c \in 1..LayerCells : a = LayerPlace(l, c) /\ IsTagged(key, l, c, sig[a])
    BY <1>6 DEF IsLayerPart
  <2>2. PICK m \in 0..(D - 1), e \in 1..LayerCells : b = LayerPlace(m, e) /\ IsTagged(key, m, e, sig[b])
    BY <1>6 DEF IsLayerPart
  <2>3. l = m /\ c = e
    BY <2>1, <2>2, TaggedApart
  <2> QED
    BY <2>1, <2>2, <2>3
<1>7. IsForsPart(a) => ~IsLayerPart(b)
  BY <1>1, <1>2
<1>8. IsForsPart(b) => ~IsLayerPart(a)
  BY <1>1, <1>2
<1> QED
  BY <1>4, <1>5, <1>6, <1>7, <1>8, PartsAre

(* All that SeparateAddresses looks at is made. *)
LEMMA SignatureMade ==
    ASSUME Finishing
    PROVE  \A x \in {root} \cup {u[5] : u \in {v \in ots : v[1] = key}} \cup {sig[c] : c \in 2..Len(sig)} :
              Made(key, x)
<1>1. Call /\ InLayers /\ SigningLayers /\ i = D /\ OtsOK
  BY DEF Finishing, Inv, Calls
<1>2. Made(key, root)
  <2>1. Now \in Digest /\ i \in Nat
    BY <1>1, NowDigest, SchemeSizes DEF Finishing
  <2> QED
    BY <1>1, <2>1, UnderMade DEF SigningLayers
<1>3. ASSUME NEW u \in ots, u[1] = key PROVE Made(key, u[5])
  <2>1. PICK k, d, l : IsUse(u, k, d, l)
    BY <1>1 DEF OtsOK
  <2> DEFINE n == TreeAt(d, l)
             g == LeafAt(d, l)
             v == UnderAt(k, d, l)
  <2>2. d \in Digest /\ l \in 0..(D - 1) /\ u = <<k, l, n, g, v>>
    BY <2>1 DEF IsUse
  <2>3. l \in Nat
    BY <2>2, SchemeSizes
  <2>4. Made(k, v)
    BY <2>2, <2>3, UnderMade
  <2> HIDE DEF n, g, v
  <2>5. u[1] = k /\ u[5] = v
    BY <2>2
  <2> QED
    BY <1>3, <2>4, <2>5
<1>4. ASSUME NEW c \in 2..Len(sig) PROVE Made(key, sig[c])
  <2>1. c \in 1..Len(sig) /\ c # 1
    BY PartsAre
  <2>2. CASE IsForsPart(c)
    <3>1. PICK t \in 0..(ForsTrees - 1), e \in 1..(1 + ForsHeight) :
              sig[c] = ForsCell(key, NowQ, t, NowLeaf(t), e)
      BY <2>2 DEF IsForsPart
    <3>2. NowLeaf(t) \in Nat /\ t \in Nat
      BY LeafNat
    <3>3. IsAt(key, NodeAt(NowQ, ForsCellHeight(e), ForsCellIndex(t, NowLeaf(t), e)), sig[c])
      BY <3>1, <3>2, ForsCellAt DEF NowQ
    <3> QED
      BY <3>3, IsAtMade
  <2>3. CASE IsLayerPart(c)
    BY <2>3, TaggedMade DEF IsLayerPart
  <2> QED
    BY <2>1, <2>2, <2>3, PartsAre
<1> QED
  BY <1>2, <1>3, <1>4

(* What is made is apart. *)
LEMMA Separate ==
    ASSUME ForsHeight <= 255, Inv, RandomFirst
    PROVE  SeparateAddresses
<1> SUFFICES ASSUME Finishing PROVE LET made == HashesIn({root} \cup {u[5] : u \in {v \in ots : v[1] = key}}
                                                        \cup {sig[c] : c \in 2..Len(sig)})
                                    IN  /\ \A x, y \in made : x[3] = y[3] => x = y
                                        /\ IsInjective(sig)
  BY DEF Finishing, SeparateAddresses
<1> DEFINE xs == {root} \cup {u[5] : u \in {v \in ots : v[1] = key}} \cup {sig[c] : c \in 2..Len(sig)}
           made == HashesIn(xs)
<1>1. \A x \in xs : Made(key, x)
  BY SignatureMade
<1>2. \A x \in made : IsThash(x) /\ Made(key, x)
  <2> HIDE DEF xs
  <2> QED
    BY <1>1, HashesMade
<1>3. \A x, y \in made : x[3] = y[3] => x = y
  <2> HIDE DEF made
  <2> QED
    BY <1>2, MadeApart
<1>4. IsInjective(sig)
  BY CellsApart
<1> QED
  BY <1>3, <1>4

(* Of all that a signature is made of, no two different values are hashed   *)
(* under one address and no secret is used in two places, as long as the    *)
(* height of FORS fits the byte that set_tree_height writes.                *)
THEOREM AddressesApart ==
    ASSUME ForsHeight <= 255
    PROVE  Spec => []SeparateAddresses
<1>1. Init => RandomFirst
  BY DEF Init, RandomFirst
<1>2. Inv /\ RandomFirst /\ [Next]_vars => RandomFirst'
  BY RandomNext
<1>3. Inv /\ RandomFirst => SeparateAddresses
  BY Separate
<1> QED
  BY <1>1, <1>2, <1>3, InvHolds, PTL DEF Spec

-------------------------------------------------------------------------------
(* The calls of treehash.  Sphincs takes what treehash returns from its      *)
(* definition (TreehashResult); the loop of treehash is proved to return the *)
(* root and the path of a row of trees (Forest).  The row of a call: the     *)
(* nodes are hashed under the address that it was given.                     *)
Row(leaf, s, a, m, trees) == INSTANCE Forest WITH
    TreeHeight <- m,
    Trees <- trees,
    Pow2 <- [k \in 0..m |-> TwoTo[k]],
    Leaf <- LAMBDA g : leaf[g],
    Thash <- LAMBDA h, g, l, r : Thash(s, NodeAddr(a, h, g), <<l, r>>),
    Node <- LAMBDA h, g : Nodes(leaf, s, a, m)[h][g],
    Junk <- 0

(* The first leaf of tree t, at the levels of its tree. *)
LEMMA RowOffsets ==
    ASSUME NEW m \in Nat, NEW t \in Nat, NEW h \in 0..m
    PROVE  /\ (t * TwoTo[m]) \div TwoTo[m] = t
           /\ (t * TwoTo[m]) \div TwoTo[h] = t * TwoTo[m - h]
           /\ TwoTo[h] \in Nat \ {0} /\ TwoTo[m - h] \in Nat \ {0}
<1> DEFINE p == TwoTo[h]
           r == TwoTo[m - h]
           w == TwoTo[m]
<1>1. p \in Nat \ {0} /\ r \in Nat \ {0} /\ w \in Nat \ {0}
  BY TwoToLaw
<1>2. w = p * r
  <2>1. h \in Nat /\ m - h \in Nat /\ h + (m - h) = m
    OBVIOUS
  <2>2. TwoTo[h + (m - h)] = TwoTo[h] * TwoTo[m - h]
    BY <2>1, TwoToAdd
  <2> QED
    BY <2>1, <2>2
<1> HIDE DEF p, r, w
<1>3. t * w = p * (t * r) /\ t * r \in Nat
  BY <1>1, <1>2
<1>4. ASSUME NEW x \in Nat, NEW d \in Nat \ {0} PROVE (d * x) \div d = x
  OBVIOUS
<1>5. (p * (t * r)) \div p = t * r
  BY <1>1, <1>3, <1>4
<1>6. (w * t) \div w = t /\ w * t = t * w
  BY <1>1, <1>4
<1> QED
  BY <1>1, <1>3, <1>5, <1>6 DEF p, r, w

(* Every call of treehash that the scheme makes is one of those of which     *)
(* Correct is proved, and gets what is proved there: the row of trees over   *)
(* its leaves, with any address, satisfies all that is assumed of a row, and *)
(* root and path that the scheme works with are those of tree t of the row.  *)
THEOREM CallsAreTreehash ==
    ASSUME NEW leaf, NEW s, NEW q, NEW a, OfTree(q, a),
           NEW m \in Nat \ {0}, NEW trees \in Nat \ {0},
           NEW t \in 0..(trees - 1), NEW leaf_idx \in 0..(TwoTo[m] - 1)
    PROVE  /\ Row(leaf, s, a, m, trees)!TreeHeightAssumption
           /\ Row(leaf, s, a, m, trees)!TreesAssumption
           /\ Row(leaf, s, a, m, trees)!Pow2Assumption
           /\ Row(leaf, s, a, m, trees)!NodeAssumption
           /\ t * TwoTo[m] \in Row(leaf, s, a, m, trees)!FirstLeaves
           /\ leaf_idx \in Row(leaf, s, a, m, trees)!LeafIndices
           /\ LET r == TreehashResult(leaf, s, leaf_idx, t * TwoTo[m], m, a)
              IN  /\ r.root = Row(leaf, s, a, m, trees)!RootOf(t * TwoTo[m])
                  /\ DOMAIN r.auth = 1..m
                  /\ \A h \in 1..m :
                        r.auth[h] = Row(leaf, s, a, m, trees)!AuthPathOf(t * TwoTo[m], leaf_idx)[h - 1]
<1> DEFINE P == [k \in 0..m |-> TwoTo[k]]
           n == Nodes(leaf, s, a, m)
           first == t * TwoTo[m]
           r == TreehashResult(leaf, s, leaf_idx, first, m, a)
<1>1. Row(leaf, s, a, m, trees)!TreeHeightAssumption /\ Row(leaf, s, a, m, trees)!TreesAssumption
  BY DEF Row!TreeHeightAssumption, Row!TreesAssumption
<1>2. /\ P \in [0..m -> Nat \ {0}] /\ P[0] = 1 /\ P[1] = 2 /\ P[m] = TwoTo[m]
      /\ \A k \in 0..m : P[k] = TwoTo[k] /\ P[m - k] = TwoTo[m - k]
  <2>1. TwoTo[0] = 1 /\ TwoTo[1] = 2 /\ \A k \in Nat : TwoTo[k] \in Nat \ {0}
    <3>1. TwoTo[0 + 1] = 2 * TwoTo[0]
      BY TwoToLaw
    <3> QED
      BY <3>1, TwoToLaw
  <2>2. \A k \in 0..m : k \in Nat /\ m - k \in 0..m
    OBVIOUS
  <2> QED
    BY <2>1, <2>2
<1>3. ASSUME NEW b \in 0..m, NEW c \in 0..m, b + c <= m PROVE P[b + c] = P[b] * P[c]
  <2>1. b \in Nat /\ c \in Nat /\ b + c \in 0..m
    BY <1>3
  <2>2. TwoTo[b + c] = TwoTo[b] * TwoTo[c]
    BY <2>1, TwoToAdd
  <2> QED
    BY <2>1, <2>2
<1>4. Row(leaf, s, a, m, trees)!Pow2Assumption
  <2> HIDE DEF P
  <2>1. /\ P \in [0..m -> Nat \ {0}] /\ P[0] = 1 /\ P[1] = 2
        /\ \A b, c \in 0..m : b + c <= m => P[b + c] = P[b] * P[c]
    BY <1>2, <1>3
  <2> QED
    BY <2>1 DEF Row!Pow2Assumption, P
<1>5. /\ \A g \in Nat : n[0][g] = leaf[g]
      /\ \A h \in 1..m, g \in Nat :
            n[h][g] = Thash(s, NodeAddr(a, h, g), <<n[h - 1][2 * g], n[h - 1][2 * g + 1]>>)
  <2>1. n = TreeOf(leaf, s, q, m)
    BY NodesLaw
  <2>2. \A h, g : NodeAddr(a, h, g) = NodeAt(q, h, g)
    BY NodeAddrLaw
  <2> HIDE DEF n
  <2> QED
    BY <2>1, <2>2, TreeLaw
<1>6. Row(leaf, s, a, m, trees)!NodeAssumption
  <2>1. \A h \in 0..m : Row(leaf, s, a, m, trees)!NodesAt(h) \subseteq Nat
    BY DEF Row!NodesAt
  <2>2. ASSUME NEW h \in 0..(m - 1), NEW g \in Nat
        PROVE  n[h + 1][g] = Thash(s, NodeAddr(a, h + 1, g), <<n[h][2 * g], n[h][2 * g + 1]>>)
    <3>1. h + 1 \in 1..m /\ (h + 1) - 1 = h
      OBVIOUS
    <3> HIDE DEF n
    <3> QED
      BY <1>5, <3>1
  <2>3. 0 \in 0..m /\ \A h \in 0..(m - 1) : h + 1 \in 0..m
    OBVIOUS
  <2> HIDE DEF n
  <2>4. /\ \A g \in Row(leaf, s, a, m, trees)!NodesAt(0) : n[0][g] = leaf[g]
        /\ \A h \in 0..(m - 1) : \A g \in Row(leaf, s, a, m, trees)!NodesAt(h + 1) :
              n[h + 1][g] = Thash(s, NodeAddr(a, h + 1, g), <<n[h][2 * g], n[h][2 * g + 1]>>)
    BY <1>5, <2>1, <2>2, <2>3
  <2> QED
    BY <2>4 DEF Row!NodeAssumption, n
<1>7. first \in Row(leaf, s, a, m, trees)!FirstLeaves /\ leaf_idx \in Row(leaf, s, a, m, trees)!LeafIndices
  BY <1>2 DEF Row!FirstLeaves, Row!LeafIndices
<1>8. \A h \in 0..m : /\ first \div TwoTo[m] = t
                      /\ first \div TwoTo[h] = t * TwoTo[m - h]
                      /\ TwoTo[h] \in Nat \ {0} /\ TwoTo[m - h] \in Nat \ {0}
  <2>1. m \in Nat /\ t \in Nat
    OBVIOUS
  <2> QED
    BY <2>1, RowOffsets
<1>9. r = [root |-> n[m][0 + first \div TwoTo[m]],
           auth |-> [h \in 1..m |-> n[h - 1][Neighbour(leaf_idx \div TwoTo[h - 1])
                                              + first \div TwoTo[h - 1]]],
           addr |-> NodeAddr(a, m, first \div TwoTo[m])]
  BY DEF TreehashResult
<1>10. \A h \in 0..m : Row(leaf, s, a, m, trees)!InTree(first, h, 0) = t * TwoTo[m - h]
                     /\ \A x \in Int : Row(leaf, s, a, m, trees)!InTree(first, h, x) = x + t * TwoTo[m - h]
  <2> HIDE DEF P, first
  <2>1. ASSUME NEW h \in 0..m, NEW x \in Int
        PROVE  Row(leaf, s, a, m, trees)!InTree(first, h, x) = x + t * TwoTo[m - h]
    <3>1. Row(leaf, s, a, m, trees)!InTree(first, h, x) = x + (first \div P[m]) * P[m - h]
      BY DEF Row!InTree, P
    <3> QED
      BY <1>2, <1>8, <3>1
  <2>2. \A h \in 0..m : 0 + t * TwoTo[m - h] = t * TwoTo[m - h]
    BY <1>8
  <2> QED
    BY <2>1, <2>2
<1>11. r.root = Row(leaf, s, a, m, trees)!RootOf(first)
  <2>1. Row(leaf, s, a, m, trees)!RootOf(first) = n[m][Row(leaf, s, a, m, trees)!InTree(first, m, 0)]
    BY DEF Row!RootOf
  <2>2. m \in 0..m /\ m - m = 0 /\ TwoTo[0] = 1
    BY TwoToLaw
  <2> HIDE DEF n, first, r
  <2>3. first \div TwoTo[m] = t /\ t * TwoTo[m - m] = t /\ 0 + t = t
    BY <1>8, <2>2
  <2> QED
    BY <1>9, <1>10, <2>1, <2>2, <2>3
<1>12. ASSUME NEW h \in 1..m
       PROVE  r.auth[h] = Row(leaf, s, a, m, trees)!AuthPathOf(first, leaf_idx)[h - 1]
  <2> DEFINE x == Neighbour(leaf_idx \div TwoTo[h - 1])
  <2>1. h - 1 \in 0..(m - 1) /\ h - 1 \in 0..m
    OBVIOUS
  <2>2. x \in Int
    BY <1>8, <2>1 DEF Neighbour
  <2>3. Row(leaf, s, a, m, trees)!Sibling(leaf_idx \div P[h - 1]) = x
    BY <1>2, <2>1 DEF Row!Sibling, Neighbour
  <2>4. Row(leaf, s, a, m, trees)!AuthPathOf(first, leaf_idx)[h - 1]
          = n[h - 1][Row(leaf, s, a, m, trees)!InTree(first, h - 1,
                         Row(leaf, s, a, m, trees)!Sibling(leaf_idx \div P[h - 1]))]
    BY <2>1 DEF Row!AuthPathOf, Row!AuthNode
  <2> HIDE DEF n, first, r, x, P
  <2>5. Row(leaf, s, a, m, trees)!InTree(first, h - 1, x) = x + first \div TwoTo[h - 1]
    BY <1>8, <1>10, <2>1, <2>2
  <2>6. r.auth[h] = n[h - 1][x + first \div TwoTo[h - 1]]
    BY <1>9 DEF x
  <2> QED
    BY <2>3, <2>4, <2>5, <2>6
<1>13. DOMAIN r.auth = 1..m
  BY <1>9
<1> HIDE DEF n, P
<1> QED
  BY <1>1, <1>4, <1>6, <1>7, <1>11, <1>12, <1>13

(* So is every call of compute_root: what the scheme takes for its result is *)
(* the end of the way up, as AscentFollows proves of the loop, from any leaf *)
(* and along any path, hashed under the address that was given.              *)
THEOREM CallsAreComputeRoot ==
    ASSUME NEW x, NEW auth, NEW leaf, NEW s, NEW q, NEW a, OfTree(q, a),
           NEW m \in Nat \ {0}, NEW trees \in Nat \ {0},
           NEW t \in 0..(trees - 1), NEW leaf_idx \in 0..(TwoTo[m] - 1)
    PROVE  \E f : /\ Row(leaf, s, a, m, trees)!IsAscent(f, x, leaf_idx, t * TwoTo[m],
                                                       [h \in 0..(m - 1) |-> auth[h + 1]])
                 /\ ComputeRootResult(x, leaf_idx, t * TwoTo[m], auth, m, s, a).root = f[m]
<1> DEFINE P == [k \in 0..m |-> TwoTo[k]]
           first == t * TwoTo[m]
           path == [h \in 0..(m - 1) |-> auth[h + 1]]
           r == ComputeRootResult(x, leaf_idx, first, auth, m, s, a)
           Is(n) == n = [h \in 0..m |->
                            IF h = 0 THEN x
                            ELSE Thash(s, NodeAddr(a, h, leaf_idx \div TwoTo[h] + first \div TwoTo[h]),
                                       IF (leaf_idx \div TwoTo[h - 1]) % 2 = 1
                                       THEN <<auth[h], n[h - 1]>>
                                       ELSE <<n[h - 1], auth[h]>>)]
           n == CHOOSE o : Is(o)
<1>1. r.root = n[m]
  <2>1. r = [root |-> n[m], addr |-> NodeAddr(a, m, leaf_idx \div TwoTo[m] + first \div TwoTo[m])]
    BY DEF ComputeRootResult
  <2> HIDE DEF r, n
  <2> QED
    BY <2>1
<1>2. Is(n)
  <2>1. ASSUME NEW o PROVE Is(o) <=> IsClimb(o, x, leaf_idx, first, auth, m, s, q)
    BY NodeAddrLaw DEF IsClimb, Path
  <2> HIDE DEF Is
  <2>2. \E o : Is(o)
    <3>1. m \in Nat
      OBVIOUS
    <3> QED
      BY <2>1, <3>1, ClimbExists
  <2> QED
    BY <2>2
<1>3. /\ n[0] = x
      /\ \A h \in 0..m : h # 0 =>
            n[h] = Thash(s, NodeAddr(a, h, leaf_idx \div TwoTo[h] + first \div TwoTo[h]),
                         IF (leaf_idx \div TwoTo[h - 1]) % 2 = 1
                         THEN <<auth[h], n[h - 1]>> ELSE <<n[h - 1], auth[h]>>)
  <2> DEFINE y == n
  <2>1. Is(y)
    BY <1>2
  <2> HIDE DEF y
  <2>2. 0 \in 0..m
    OBVIOUS
  <2>3. /\ y[0] = x
        /\ \A h \in 0..m : h # 0 =>
            y[h] = Thash(s, NodeAddr(a, h, leaf_idx \div TwoTo[h] + first \div TwoTo[h]),
                         IF (leaf_idx \div TwoTo[h - 1]) % 2 = 1
                         THEN <<auth[h], y[h - 1]>> ELSE <<y[h - 1], auth[h]>>)
    BY <2>1, <2>2
  <2> QED
    BY <2>3 DEF y
<1> HIDE DEF n, first, r, Is
<1>4. ASSUME NEW h \in 0..(m - 1)
      PROVE  LET g == Row(leaf, s, a, m, trees)!Shr(leaf_idx, h + 1)
                        + Row(leaf, s, a, m, trees)!Shr(first, h + 1)
             IN  n[h + 1] = IF Row(leaf, s, a, m, trees)!Shr(leaf_idx, h) % 2 = 1
                            THEN Thash(s, NodeAddr(a, h + 1, g), <<path[h], n[h]>>)
                            ELSE Thash(s, NodeAddr(a, h + 1, g), <<n[h], path[h]>>)
  <2>1. h + 1 \in 0..m /\ h + 1 # 0 /\ (h + 1) - 1 = h /\ path[h] = auth[h + 1] /\ h \in 0..m
    OBVIOUS
  <2>2. P[h] = TwoTo[h] /\ P[h + 1] = TwoTo[h + 1]
    BY <2>1
  <2> HIDE DEF P, path
  <2>3. \A z : /\ Row(leaf, s, a, m, trees)!Shr(z, h) = z \div P[h]
              /\ Row(leaf, s, a, m, trees)!Shr(z, h + 1) = z \div P[h + 1]
    BY DEF Row!Shr, P
  <2>4. n[h + 1] = Thash(s, NodeAddr(a, h + 1, leaf_idx \div TwoTo[h + 1] + first \div TwoTo[h + 1]),
                         IF (leaf_idx \div TwoTo[h]) % 2 = 1
                         THEN <<auth[h + 1], n[h]>> ELSE <<n[h], auth[h + 1]>>)
    BY <1>3, <2>1
  <2> QED
    BY <2>1, <2>2, <2>3, <2>4
<1>5. Row(leaf, s, a, m, trees)!IsAscent(n, x, leaf_idx, first, path)
  <2> HIDE DEF path
  <2> QED
    BY <1>3, <1>4 DEF Row!IsAscent
<1> QED
  BY <1>1, <1>5 DEF first, r
===============================================================================
