------------------------------- MODULE MCSphincs -------------------------------
(* SPHINCS+ at small sizes.  A hash that WOTS signs gets the first unused of *)
(* a few byte strings (module OneTime has all of them); a digest is any      *)
(* unused one, of all the digests or of three whose leaves are odd in some   *)
(* layers and even in others.                                                *)
EXTENDS Sphincs, TLC

Few ==
    {[n \in 1..N |-> b] :
        b \in {0, 27, 30, 57, 78, 99, 147, 180, 201, 225, 228, 255}}
FirstUnused(used) == CHOOSE b \in Few \ used : TRUE
AllDigests ==
    [mhash : {<<b>> : b \in 0..(TwoTo[LastBits] - 1)},
     tree : 0..(TwoTo[TreeHeight * (D - 1)] - 1), idx_leaf : 0..(TwoTo[TreeHeight] - 1)]

DrawAll(all, used) ==
    IF all = Hashes THEN {FirstUnused(used)} ELSE AllDigests

DrawOdd(all, used) ==
    IF all = Hashes THEN {FirstUnused(used)}
    ELSE {d \in AllDigests : d.mhash \in {<<1>>, <<2>>} /\ d.idx_leaf = 1
                              /\ d.tree \in d.mhash[1]..2}

(* An optrand of the call's own, or one that every call may draw. *)
OwnOrSame(n) == {0, n}
Own(n) == {n}

(* Keys and messages are but names. *)
Symmetry == Permutations(Keys) \cup Permutations(Messages)
===============================================================================
