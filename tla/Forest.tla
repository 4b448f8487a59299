-------------------------------- MODULE Forest --------------------------------
(***************************************************************************)
(* The row of Merkle trees that utils.c computes: Trees consecutive binary *)
(* trees of the same height, whose nodes are numbered from the left across *)
(* all of them ("so that it is possible to continue counting indices       *)
(* across trees").  FORS uses a row of SPX_FORS_TREES trees, a layer of    *)
(* the hypertree a row of one.                                             *)
(*                                                                         *)
(* The hash function is left uninterpreted: Thash(h, g, l, r) is the hash  *)
(* of the children l and r under an address whose tree_height is h and     *)
(* whose tree_index is g.  Node(h, g) is the value the definition of a     *)
(* Merkle tree gives to the node g of height h; it is the reference the    *)
(* algorithms are compared with, never an input of theirs.                 *)
(***************************************************************************)
EXTENDS Integers

CONSTANTS
    TreeHeight,       \* tree_height, an argument of every function here
    Trees,            \* number of trees in the row
    Pow2,             \* Pow2[k] is the C expression 1 << k
    Leaf(_),          \* what the gen_leaf callback writes for an index
    Thash(_, _, _, _),
    Node(_, _),
    Junk              \* contents of memory nobody has written

ASSUME TreeHeightAssumption == TreeHeight \in Nat \ {0}

ASSUME TreesAssumption == Trees \in Nat \ {0}

(* The powers of two, characterised by the law of exponents. *)
ASSUME Pow2Assumption ==
    /\ Pow2 \in [0..TreeHeight -> Nat \ {0}]
    /\ Pow2[0] = 1
    /\ Pow2[1] = 2
    /\ \A a, b \in 0..TreeHeight :
          a + b <= TreeHeight => Pow2[a + b] = Pow2[a] * Pow2[b]

(* Indices of the nodes of height h in the whole row, and in one tree. *)
NodesAt(h) == 0..(Trees * Pow2[TreeHeight - h] - 1)
IndexInTree(h) == 0..(Pow2[TreeHeight - h] - 1)

(* Node is the Merkle tree over the leaves, by definition. *)
ASSUME NodeAssumption ==
    /\ \A g \in NodesAt(0) : Node(0, g) = Leaf(g)
    /\ \A h \in 0..(TreeHeight - 1) : \A g \in NodesAt(h + 1) :
          Node(h + 1, g) = Thash(h + 1, g, Node(h, 2 * g), Node(h, 2 * g + 1))

-------------------------------------------------------------------------------
(* x >> k and x ^ 1 on unsigned integers. *)
Shr(x, k) == x \div Pow2[k]
Sibling_Self(x) == x
Sibling(x) == IF x % 2 = 0 THEN x + 1 ELSE x - 1

(* The node m of height h of the tree whose first leaf is number first. *)
InTree(first, h, m) == m + (first \div Pow2[TreeHeight]) * Pow2[TreeHeight - h]

(* What a caller may rely on: the root and the authentication path of a leaf *)
(* of the tree that starts at leaf number first.                             *)
RootOf(first) == Node(TreeHeight, InTree(first, TreeHeight, 0))
AuthNode(first, leaf, h) ==
    Node(h, InTree(first, h, Sibling(leaf \div Pow2[h])))
AuthPathOf(first, leaf) ==
    [h \in 0..(TreeHeight - 1) |-> AuthNode(first, leaf, h)]

(* The way up from leaf number at, along any path: each node is the hash of *)
(* the node below it and its neighbour on the path.                         *)
IsAscent(f, leaf, at, first, path) ==
    /\ f[0] = leaf
    /\ \A h \in 0..(TreeHeight - 1) :
          LET g == Shr(at, h + 1) + Shr(first, h + 1)
          IN  f[h + 1] = IF Shr(at, h) % 2 = 1
                         THEN Thash(h + 1, g, path[h], f[h])
                         ELSE Thash(h + 1, g, f[h], path[h])

(* The arguments the callers pass: fors.c offsets tree t by t * 2^height. *)
LeafIndices == 0..(Pow2[TreeHeight] - 1)
FirstLeaves == {t * Pow2[TreeHeight] : t \in 0..(Trees - 1)}
===============================================================================
