------------------------------ MODULE MCTreehash ------------------------------
(* A free hash function: a node is the term of the calls that computed it. *)
EXTENDS Treehash

MCPow2 == [k \in 0..TreeHeight |-> 2 ^ k]
MCLeaf(i) == <<"leaf", i>>
MCThash(h, g, l, r) == <<"node", h, g, l, r>>

RECURSIVE MCNode(_, _)
MCNode(h, g) ==
    IF h = 0 THEN MCLeaf(g)
    ELSE MCThash(h, g, MCNode(h - 1, 2 * g), MCNode(h - 1, 2 * g + 1))
===============================================================================
