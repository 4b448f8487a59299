------------------------------ MODULE MerkleTree ------------------------------
(***************************************************************************)
(* What treehash promises its callers, in two steps: a call, and a return  *)
(* at which the root and the authentication path of the requested leaf are *)
(* there, all at once.                                                     *)
(***************************************************************************)
EXTENDS Forest

CONSTANT NoResult

VARIABLES leaf_idx, idx_offset, busy, result

vars == <<leaf_idx, idx_offset, busy, result>>

Init ==
    /\ leaf_idx = 0
    /\ idx_offset = 0
    /\ busy = FALSE
    /\ result = NoResult

Call ==
    /\ ~busy
    /\ leaf_idx' \in LeafIndices
    /\ idx_offset' \in FirstLeaves
    /\ busy' = TRUE
    /\ result' = NoResult

Return ==
    /\ busy
    /\ busy' = FALSE
    /\ result' = [root      |-> RootOf(idx_offset),
                  auth_path |-> AuthPathOf(idx_offset, leaf_idx)]
    /\ UNCHANGED <<leaf_idx, idx_offset>>

Next == Call \/ Return

SafeSpec == Init /\ [][Next]_vars

(* A call returns. *)
Spec == SafeSpec /\ WF_vars(Return)
===============================================================================
