----------------------------- MODULE MCSignedMessage -----------------------------
(* Messages shorter than a signature, as long, and longer: the source and the *)
(* destination of an open in place overlap, or do not.                       *)
EXTENDS SignedMessage

CONSTANT MaxFlips

SomeMessages ==
    {<<>>, <<Byte(1)>>, <<Byte(0), Byte(1)>>, <<Byte(0), Byte(1), Byte(1)>>}

(* Bounds the cells of the signature that are flipped at a time. *)
FewFlipped ==
    Len(SelectSeq(sm, LAMBDA c : Len(c) = 2)) <= MaxFlips
===============================================================================
