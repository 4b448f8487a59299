------------------------------ MODULE ComputeRoot ------------------------------
(***************************************************************************)
(* compute_root (utils.c): climbs from a leaf and an authentication path   *)
(* to a root, as crypto_sign_verify and fors_pk_from_sig call it.  The     *)
(* leaf and the path come from a signature: nothing says that they are     *)
(* those of the tree, so each is any member of Values.  Cell TreeHeight of *)
(* auth_path is what follows the path in the signature.                    *)
(***************************************************************************)
EXTENDS Forest

CONSTANT Values   \* what a signature may hold in the place of a node

VARIABLES
    up_leaf, up_auth_path,      \* arguments,
    up_first, up_at,            \* initial idx_offset and leaf_idx,
    up_leaf_idx, up_idx_offset, up_i, up_buffer,
    up_root, up_pc

up_vars == <<up_leaf, up_auth_path, up_first, up_at, up_leaf_idx, up_idx_offset,
             up_i, up_buffer, up_root, up_pc>>

UpInit ==
    /\ up_leaf = Junk
    /\ up_auth_path = [h \in 0..TreeHeight |-> Junk]
    /\ up_first = 0
    /\ up_at = 0
    /\ up_leaf_idx = 0
    /\ up_idx_offset = 0
    /\ up_i = 0
    /\ up_buffer = <<Junk, Junk>>
    /\ up_root = Junk
    /\ up_pc = "idle"

-------------------------------------------------------------------------------
(* The two halves of buffer, for a node and its neighbour: "If leaf_idx is *)
(* odd, current path element is a right child and auth_path has to go left". *)
Pair_Unordered(idx, node, neighbour) == <<node, neighbour>>
Pair(idx, node, neighbour) ==
    IF idx % 2 = 1 THEN <<neighbour, node>> ELSE <<node, neighbour>>

UpCall ==
    /\ up_pc = "idle"
    /\ up_leaf' \in Values
    /\ \E path \in [0..(TreeHeight - 1) -> Values] :
          up_auth_path' = [h \in 0..TreeHeight |->
                           IF h < TreeHeight THEN path[h] ELSE Junk]
    /\ up_first' \in FirstLeaves
    /\ up_at' \in LeafIndices
    /\ up_leaf_idx' = up_at'
    /\ up_idx_offset' = up_first'
    /\ up_buffer' = Pair(up_at', up_leaf', up_auth_path'[0])
    /\ up_i' = 0
    /\ up_pc' = "climb"
    /\ UNCHANGED up_root

(* Hash the pair in buffer under the address of its parent. *)
Parent_SameIndex(h) ==
    Thash(h, up_leaf_idx + up_idx_offset, up_buffer[1], up_buffer[2])
Parent(h) ==
    Thash(h, up_leaf_idx \div 2 + up_idx_offset \div 2, up_buffer[1], up_buffer[2])

(* Nodes of the path that the loop copies after the first one. *)
Levels_All == TreeHeight
Levels == TreeHeight - 1

Climb ==
    /\ up_pc = "climb"
    /\ up_i < Levels
    /\ up_leaf_idx' = up_leaf_idx \div 2
    /\ up_idx_offset' = up_idx_offset \div 2
    /\ up_buffer' = Pair(up_leaf_idx', Parent(up_i + 1), up_auth_path[up_i + 1])
    /\ up_i' = up_i + 1
    /\ UNCHANGED <<up_leaf, up_auth_path, up_first, up_at, up_root, up_pc>>

(* "The last iteration is exceptional; we do not copy an auth_path node." *)
Last ==
    /\ up_pc = "climb"
    /\ up_i >= Levels
    /\ up_leaf_idx' = up_leaf_idx \div 2
    /\ up_idx_offset' = up_idx_offset \div 2
    /\ up_root' = Parent(TreeHeight)
    /\ up_pc' = "done"
    /\ UNCHANGED <<up_leaf, up_auth_path, up_first, up_at, up_i, up_buffer>>

(* The caller has used the root, and will call again. *)
Return ==
    /\ up_pc = "done"
    /\ up_leaf' = Junk
    /\ up_auth_path' = [h \in 0..TreeHeight |-> Junk]
    /\ up_first' = 0
    /\ up_at' = 0
    /\ up_leaf_idx' = 0
    /\ up_idx_offset' = 0
    /\ up_i' = 0
    /\ up_buffer' = <<Junk, Junk>>
    /\ up_root' = Junk
    /\ up_pc' = "idle"

UpNext == UpCall \/ Climb \/ Last \/ Return

UpSpec == UpInit /\ [][UpNext]_up_vars

-------------------------------------------------------------------------------
(* Types and ranges; the path is never read past its tree_height nodes. *)
UpTypeOK ==
    /\ DOMAIN up_auth_path = 0..TreeHeight
    /\ up_first \in FirstLeaves
    /\ up_at \in LeafIndices
    /\ up_leaf_idx \in LeafIndices
    /\ up_idx_offset \in NodesAt(0)
    /\ up_i \in 0..(TreeHeight - 1)
    /\ DOMAIN up_buffer = 1..2
    /\ up_pc \in {"idle", "climb", "done"}

(* Leaf and path, up to height h, are those of leaf number at of the tree. *)
Genuine(h) ==
    /\ up_leaf = Node(0, InTree(up_first, 0, up_at))
    /\ \A k \in 0..h : up_auth_path[k] = AuthNode(up_first, up_at, k)

(* From a leaf of the tree and the path that treehash returns for it,      *)
(* compute_root gets the root that treehash returned: verification accepts. *)
GenuinePathGivesRoot ==
    up_pc = "done" /\ Genuine(TreeHeight - 1) => up_root = RootOf(up_first)

(* With a hash function without collisions, no other leaf and no other      *)
(* path, be they nodes of the same or of another tree, in the right or in   *)
(* the wrong place, lead to that root.                                      *)
RootBindsPath ==
    up_pc = "done" /\ up_root = RootOf(up_first) => Genuine(TreeHeight - 1)
===============================================================================
