---------------------------------- MODULE Fors ----------------------------------
(***************************************************************************)
(* FORS (fors.c): signs a message by opening one leaf in each of           *)
(* SPX_FORS_TREES trees.  The functions here are the bodies of the loops   *)
(* of fors_sign and fors_pk_from_sig; trees are numbered from 0 and their  *)
(* leaves are counted across them.                                         *)
(***************************************************************************)
EXTENDS TreeCalls

CONSTANTS ForsTrees,  \* SPX_FORS_TREES
          ForsHeight  \* SPX_FORS_HEIGHT

(* message_to_indices: the bits of m, the low bit of a byte first, cut into *)
(* ForsTrees numbers.  m is a sequence of bytes, indices are 0-based.       *)
MessageBit(m, offset) == (m[offset \div 8 + 1] \div TwoTo[offset % 8]) % 2

MessageToIndices(m) ==
    [t \in 0..(ForsTrees - 1) |->
        LET low[j \in 0..ForsHeight] ==
                IF j = 0 THEN 0
                ELSE low[j - 1]
                     + MessageBit(m, t * ForsHeight + j - 1) * TwoTo[j - 1]
        IN  low[ForsHeight]]

-------------------------------------------------------------------------------
(* The local addresses of fors_sign and fors_pk_from_sig. *)
ForsTreeAddr(fors_addr) == SetType(CopyKeypair(ZeroAddr, fors_addr), FORSTREE)
ForsPkAddr_TreeType(fors_addr) == ForsTreeAddr(fors_addr)
ForsPkAddr(fors_addr) == SetType(CopyKeypair(ZeroAddr, fors_addr), FORSPK)

IdxOffset(t) == t * TwoTo[ForsHeight]

(* The address of the leaf that tree t opens. *)
OpenedAddr(fors_tree_addr, t, index) ==
    SetTreeIndex(SetTreeHeight(fors_tree_addr, 0), index + IdxOffset(t))

ForsGenSk(sk_seed, addr) == Prf(sk_seed, addr)
ForsSkToLeaf(sk, seeded, addr) == Thash(seeded, addr, <<sk>>)

ForsGenLeaf(sk_seed, seeded, addr_idx, fors_tree_addr) ==
    LET leaf_addr ==
            SetTreeIndex(SetType(CopyKeypair(ZeroAddr, fors_tree_addr),
                                 FORSTREE), addr_idx)
    IN  ForsSkToLeaf(ForsGenSk(sk_seed, leaf_addr), seeded, leaf_addr)

(* What fors_sign appends to the signature for tree t, and its root. *)
ForsSignTree(t, index, sk_seed, seeded, fors_tree_addr) ==
    LET a == OpenedAddr(fors_tree_addr, t, index)
        leaf == [g \in Nat |-> ForsGenLeaf(sk_seed, seeded, g, a)]
        tree == TreehashResult(leaf, seeded, index, IdxOffset(t), ForsHeight, a)
    IN  [cells |-> <<ForsGenSk(sk_seed, a)>> \o tree.auth,
         root  |-> tree.root,
         addr  |-> tree.addr]

(* The root that fors_pk_from_sig derives from the cells of tree t. *)
ForsRootFromSig(t, index, cells, seeded, fors_tree_addr) ==
    LET a == OpenedAddr(fors_tree_addr, t, index)
    IN  ComputeRootResult(ForsSkToLeaf(cells[1], seeded, a), index,
                          IdxOffset(t), Tail(cells), ForsHeight, seeded, a)
===============================================================================
