----------------------------- MODULE MCComputeRoot -----------------------------
(* A free hash function; a signature may hold any node of any tree of the *)
(* row, or a value that is no node at all.                                *)
EXTENDS ComputeRoot

CONSTANT Forged

MCPow2 == [k \in 0..TreeHeight |-> 2 ^ k]
MCLeaf(n) == <<"leaf", n>>
MCThash(h, g, l, r) == <<"node", h, g, l, r>>

RECURSIVE MCNode(_, _)
MCNode(h, g) ==
    IF h = 0 THEN MCLeaf(g)
    ELSE MCThash(h, g, MCNode(h - 1, 2 * g), MCNode(h - 1, 2 * g + 1))

MCValues ==
    {Forged} \cup UNION {{MCNode(h, g) : g \in NodesAt(h)} : h \in 0..TreeHeight}
===============================================================================
