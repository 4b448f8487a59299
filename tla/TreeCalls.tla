------------------------------- MODULE TreeCalls -------------------------------
(***************************************************************************)
(* What treehash and compute_root return and what they leave in the        *)
(* address they are given, for the functions that call them.  Modules      *)
(* Treehash and ComputeRoot have the loops themselves, and show that they  *)
(* compute the trees that are written here by definition.                  *)
(***************************************************************************)
EXTENDS Hash, Bits, Integers, Sequences

(* set_tree_height and set_tree_index, as both functions call them. *)
NodeAddr(addr, h, index) == SetTreeIndex(SetTreeHeight(addr, h), index)

(* The nodes of height h over the leaves 0, 1, ..., numbered from the left; *)
(* the callback that makes the leaves is the function leaf.                *)
Nodes(leaf, seeded, addr, height) ==
    LET nodes[h \in 0..height] ==
            IF h = 0 THEN [g \in Nat |-> leaf[g]]
            ELSE [g \in Nat |-> Thash(seeded, NodeAddr(addr, h, g),
                                     <<nodes[h - 1][2 * g], nodes[h - 1][2 * g + 1]>>)]
    IN  nodes

Neighbour(m) == IF m % 2 = 0 THEN m + 1 ELSE m - 1

TreehashResult(leaf, seeded, leaf_idx, idx_offset, height, addr) ==
    LET nodes == Nodes(leaf, seeded, addr, height)
        Node(h, m) == nodes[h][m + idx_offset \div TwoTo[h]]
    IN  [root |-> Node(height, 0),
         auth |-> [h \in 1..height |->
                      Node(h - 1, Neighbour(leaf_idx \div TwoTo[h - 1]))],
         addr |-> NodeAddr(addr, height, idx_offset \div TwoTo[height])]

ComputeRootResult(leaf, leaf_idx, idx_offset, auth, height, seeded, addr) ==
    LET At(h) == NodeAddr(addr, h, leaf_idx \div TwoTo[h] + idx_offset \div TwoTo[h])
        node[h \in 0..height] ==
            IF h = 0 THEN leaf
            ELSE Thash(seeded, At(h),
                       IF (leaf_idx \div TwoTo[h - 1]) % 2 = 1
                       THEN <<auth[h], node[h - 1]>>
                       ELSE <<node[h - 1], auth[h]>>)
    IN  [root |-> node[height], addr |-> At(height)]
===============================================================================
