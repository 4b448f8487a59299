---------------------------------- MODULE Hash ----------------------------------
(***************************************************************************)
(* The hash functions of thash_sha256_simple.c and hash_sha256.c as free    *)
(* constructors: two hashes are equal when the function and all the inputs *)
(* are, which is what the scheme assumes of SHA-256.                       *)
(*                                                                         *)
(* thash ignores its argument pub_seed; it continues from the global       *)
(* state_seeded, which is the argument seeded here.                        *)
(***************************************************************************)
EXTENDS Address

Thash(seeded, addr, in) == <<"thash", seeded, addr, in>>
Prf(sk_seed, addr) == <<"prf", sk_seed, addr>>

IsThash(x) == DOMAIN x = 1..4 /\ x[1] = "thash"
===============================================================================
