---------------------------------- MODULE MCRng ----------------------------------
(* Blocks of three bytes, and a counter that carries and wraps within a run. *)
EXTENDS Rng

(* The two generators share no state: each is run while the other is unused. *)
OneInUse ==
    \/ calls = 0
    \/ out = <<>> /\ ctx = Expander!Fresh("s1", "d1", 1) /\ expanding = "ready"
===============================================================================
