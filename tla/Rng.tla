----------------------------------- MODULE Rng -----------------------------------
(***************************************************************************)
(* rng.c: its two generators, each with a state of its own, called by one  *)
(* thread.                                                                 *)
(***************************************************************************)
EXTENDS Integers, Sequences

CONSTANTS
    BlockBytes, CtrBytes, ByteValues, Seeds, Diversifiers, MaxLens,
    Entropy, Personalizations, NULL, Contents, Requests, MaxCalls

ASSUME SizesAssumption ==
    BlockBytes \in Nat \ {0} /\ Requests \subseteq Nat /\ MaxLens \subseteq Nat

ASSUME CtrAssumption == CtrBytes \in Nat /\ ByteValues \in Nat \ {0}

VARIABLES
    ctx, maxlen, wanted, out, expanding,
    DRBG_ctx, block, asked, xlen, x, given, calls, filling

Expander == INSTANCE SeedExpander WITH xlen <- wanted, pc <- expanding
Generator == INSTANCE Drbg WITH pc <- filling

expander_vars == <<ctx, maxlen, wanted, out, expanding>>
generator_vars == <<DRBG_ctx, block, asked, xlen, x, given, calls, filling>>
vars == <<expander_vars, generator_vars>>

Init == Expander!Init /\ Generator!Init

Next ==
    \/ filling = "ready" /\ Expander!Next /\ UNCHANGED generator_vars
    \/ expanding = "ready" /\ Generator!Next /\ UNCHANGED expander_vars

Spec == Init /\ [][Next]_vars

-------------------------------------------------------------------------------
(* However the requests cut it up, the caller of seedexpander gets one      *)
(* stream: no byte is left out, repeated or out of turn.                    *)
OneStream == Expander!OneStream

(* maxlen is never exceeded, and length_remaining is what is left of it.    *)
MaxLenHolds == Expander!MaxLenHolds

(* The low bytes of ctr count the blocks, across the carries of its bytes.  *)
CtrCounts == Expander!CtrCounts

(* randombytes writes exactly what was asked for.                           *)
WritesRequested == Generator!WritesRequested

(* randombytes puts out no block twice under one seed, whatever it finds on *)
(* the stack.                                                               *)
NothingRepeats == Generator!NothingRepeats
===============================================================================
