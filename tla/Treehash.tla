------------------------------- MODULE Treehash -------------------------------
(***************************************************************************)
(* treehash (utils.c): Merkle's TreeHash algorithm, as fors_sign and       *)
(* crypto_sign_seed_keypair and crypto_sign_signature call it, one call    *)
(* after the other.  One action per iteration of its two loops.            *)
(*                                                                         *)
(* stack and heights are variable-length arrays of tree_height + 1 cells,  *)
(* uninitialised when the function is entered: here they keep what the     *)
(* previous call left in them.  auth_path is the caller's buffer of        *)
(* tree_height nodes; cell TreeHeight is the memory just after it.         *)
(***************************************************************************)
EXTENDS Forest

CONSTANTS JunkHeight, \* Junk, in an array of unsigned integers
          NoResult

ASSUME JunkAssumption == JunkHeight \in Nat

VARIABLES leaf_idx, idx_offset,          \* arguments of the call
          idx, offset, stack, heights,   \* local variables
          tree_addr,                     \* tree height and index in the address
          auth_path, root,               \* results, in the caller's memory
          pc

vars == <<leaf_idx, idx_offset, idx, offset, stack, heights, tree_addr,
          auth_path, root, pc>>

Init ==
    /\ leaf_idx = 0
    /\ idx_offset = 0
    /\ idx = 0
    /\ offset = 0
    /\ stack = [j \in 0..TreeHeight |-> Junk]
    /\ heights = [j \in 0..TreeHeight |-> JunkHeight]
    /\ tree_addr = [height |-> 0, index |-> 0]
    /\ auth_path = [h \in 0..TreeHeight |-> Junk]
    /\ root = Junk
    /\ pc = "start"

-------------------------------------------------------------------------------
(* A caller asks for the root of a tree and the path of one of its leaves. *)
Call ==
    /\ pc \in {"start", "done"}
    /\ leaf_idx' \in LeafIndices
    /\ idx_offset' \in FirstLeaves
    /\ idx' = 0
    /\ offset' = 0
    /\ pc' = "leaf"
    /\ UNCHANGED <<stack, heights, tree_addr, auth_path, root>>

(* The bound of the outer loop, 1 << tree_height. *)
NumLeaves_Half == Pow2[TreeHeight - 1]
NumLeaves == Pow2[TreeHeight]

(* auth_path with value v stored at height h if the node m of that height *)
(* is "a node we need for the auth path".                                 *)
SaveIfNeeded(h, m, v) ==
    IF Sibling(Shr(leaf_idx, h)) = m
    THEN [auth_path EXCEPT ![h] = v]
    ELSE auth_path

(* "Add the next leaf node to the stack." *)
GenLeaf ==
    /\ pc = "leaf"
    /\ idx < NumLeaves
    /\ LET leaf == Leaf(idx + idx_offset)
       IN  /\ stack' = [stack EXCEPT ![offset] = leaf]
           /\ auth_path' = SaveIfNeeded(0, idx, leaf)
    /\ heights' = [heights EXCEPT ![offset] = 0]
    /\ offset' = offset + 1
    /\ pc' = "merge"
    /\ UNCHANGED <<leaf_idx, idx_offset, idx, tree_addr, root>>

(* "While the top-most nodes are of equal height.." *)
TopsEqual_Bottom == offset >= 2 /\ heights[offset - 1] = heights[0]
TopsEqual_Any == offset >= 2
TopsEqual == offset >= 2 /\ heights[offset - 1] = heights[offset - 2]

(* The tree_index put in the address for the node tree_idx of height h. *)
AddressIndex_Unshifted(h, tree_idx) == tree_idx + idx_offset
AddressIndex_OneTree(h, tree_idx) == tree_idx
AddressIndex_TreeOnly(h, tree_idx) == Shr(idx_offset, h)
AddressIndex(h, tree_idx) == tree_idx + Shr(idx_offset, h)

(* "Hash the top-most nodes from the stack together." *)
Merge ==
    /\ pc = "merge"
    /\ TopsEqual
    /\ LET h        == heights[offset - 1] + 1
           tree_idx == Shr(idx, h)
           g        == AddressIndex(h, tree_idx)
           node     == Thash(h, g, stack[offset - 2], stack[offset - 1])
       IN  /\ tree_addr' = [height |-> h, index |-> g]
           /\ stack' = [stack EXCEPT ![offset - 2] = node]
           /\ heights' = [heights EXCEPT ![offset - 2] = h]
           /\ auth_path' = SaveIfNeeded(h, tree_idx, node)
    /\ offset' = offset - 1
    /\ UNCHANGED <<leaf_idx, idx_offset, idx, root, pc>>

(* The inner loop ends and the outer one moves to the next leaf. *)
NextLeaf ==
    /\ pc = "merge"
    /\ ~TopsEqual
    /\ idx' = idx + 1
    /\ pc' = "leaf"
    /\ UNCHANGED <<leaf_idx, idx_offset, offset, stack, heights, tree_addr,
                   auth_path, root>>

Finish ==
    /\ pc = "leaf"
    /\ idx >= NumLeaves
    /\ root' = stack[0]
    /\ pc' = "done"
    /\ UNCHANGED <<leaf_idx, idx_offset, idx, offset, stack, heights,
                   tree_addr, auth_path>>

Run == GenLeaf \/ Merge \/ NextLeaf \/ Finish

Next == Call \/ Run

SafeSpec == Init /\ [][Next]_vars

(* A single-threaded program that is never preempted: a step of a running *)
(* call is always taken.  Nothing obliges a caller to call again.         *)
Spec == SafeSpec /\ WF_vars(Run)

-------------------------------------------------------------------------------
(* Types, with the exact range of every index. *)
TypeOK ==
    /\ leaf_idx \in LeafIndices
    /\ idx_offset \in FirstLeaves
    /\ idx \in 0..Pow2[TreeHeight]
    /\ offset \in 0..(TreeHeight + 1)
    /\ DOMAIN stack = 0..TreeHeight
    /\ heights \in [0..TreeHeight -> Nat]
    /\ tree_addr.height \in 0..TreeHeight
    /\ tree_addr.index \in NodesAt(tree_addr.height)
    /\ DOMAIN auth_path = 0..TreeHeight
    /\ pc \in {"start", "leaf", "merge", "done"}

(* Leaves that are under the nodes on the stack. *)
Covered == idx + (IF pc = "merge" THEN 1 ELSE 0)

(* The stack never outgrows its tree_height + 1 cells (utils.c:115): there  *)
(* is a free cell whenever a leaf is about to be written, although the      *)
(* number of leaves is exponential in the number of cells.                  *)
StackHasRoom == pc = "leaf" /\ idx < Pow2[TreeHeight] => offset <= TreeHeight

(* The test "a node we need for the auth path" is never true of the root,   *)
(* so that memcpy stays in the tree_height nodes of the caller's buffer,    *)
(* behind which the next part of the signature starts (utils.c:150-153).    *)
AuthPathInBounds == auth_path[TreeHeight] = Junk

(* At each moment the stack holds a row of complete subtrees which follow   *)
(* each other from the first leaf to the last one generated: entry j is the *)
(* node pos[j] of its height, and starts where entry j-1 ends.              *)
Tiling(pos) ==
    /\ offset > 0 => pos[0] = 0
    /\ \A j \in 0..(offset - 2) :
          (pos[j] + 1) * Pow2[heights[j]] = pos[j + 1] * Pow2[heights[j + 1]]
    /\ offset > 0 =>
          (pos[offset - 1] + 1) * Pow2[heights[offset - 1]] = Covered
    /\ offset = 0 => Covered = 0
    /\ \A j \in 0..(offset - 1) :
          /\ heights[j] <= TreeHeight
          /\ (pos[j] + 1) * Pow2[heights[j]] <= Covered
          /\ stack[j] = Node(heights[j],
                             InTree(idx_offset, heights[j], pos[j]))

Positions == [0..TreeHeight -> 0..Pow2[TreeHeight]]

StackTilesLeaves == pc # "start" => \E pos \in Positions : Tiling(pos)

(* A node of the authentication path is in place from the moment its        *)
(* subtree is complete.                                                     *)
Complete(h, m) ==
    \/ (m + 1) * Pow2[h] < Covered
    \/ /\ (m + 1) * Pow2[h] = Covered
       /\ pc = "merge" => h <= heights[offset - 1]

AuthPathSoFar ==
    pc # "start" =>
        \A h \in 0..(TreeHeight - 1) :
            Complete(h, Sibling(Shr(leaf_idx, h)))
                => auth_path[h] = AuthNode(idx_offset, leaf_idx, h)

(* When treehash returns, the root and the whole authentication path are    *)
(* those of the Merkle tree, counted across trees, for every leaf and tree. *)
ResultIsMerkleTree ==
    pc = "done" =>
        /\ root = RootOf(idx_offset)
        /\ \A h \in 0..(TreeHeight - 1) :
              auth_path[h] = AuthNode(idx_offset, leaf_idx, h)

-------------------------------------------------------------------------------
(* Leaves that precede the end of the subtree of a node. *)
EndOf(a) == (a.index + 1) * Pow2[a.height]

(* No address is hashed twice in a call: from one hash to the next the      *)
(* nodes are visited in post-order, across the offset of the tree.  A tweak *)
(* that is repeated would void the domain separation of the hash function.  *)
NoAddressTwice ==
    [][(Merge /\ idx > 1) =>
          \/ EndOf(tree_addr') > EndOf(tree_addr)
          \/ /\ EndOf(tree_addr') = EndOf(tree_addr)
             /\ tree_addr'.height > tree_addr.height]_vars

(* treehash implements the two-step promise. *)
Promise == INSTANCE MerkleTree WITH
    busy   <- pc \in {"leaf", "merge"},
    result <- IF pc = "done"
              THEN [root      |-> root,
                    auth_path |-> [h \in 0..(TreeHeight - 1) |-> auth_path[h]]]
              ELSE NoResult

ImplementsPromise == Promise!Spec
===============================================================================
