-------------------------------- MODULE Address --------------------------------
(***************************************************************************)
(* The hash address of address.c with the byte offsets of sha256_offsets.h. *)
(* An address is the 22 bytes that are hashed (SPX_SHA256_ADDR_BYTES), by   *)
(* the fields that are ever written: byte 17 is the chain of a WOTS address *)
(* and the height of a tree address; byte 21 is the hash position of a WOTS *)
(* address and the low byte of a tree index, whose other bytes are 18..20.  *)
(* Setting the type clears nothing: what a field held before stays there.   *)
(***************************************************************************)
EXTENDS Naturals

Byte(n) == n % 256

(* The hash types that are passed to set_type. *)
WOTS     == 0
WOTSPK   == 1
HASHTREE == 2
FORSTREE == 3
FORSPK   == 4

ZeroAddr ==
    [layer |-> 0, tree |-> 0, type |-> 0, kp1 |-> 0,
     b17 |-> 0, b18_20 |-> 0, b21 |-> 0]

SetLayer(a, layer)     == [a EXCEPT !.layer = Byte(layer)]
SetTree(a, tree)       == [a EXCEPT !.tree = tree]
SetType(a, type)       == [a EXCEPT !.type = Byte(type)]
SetKeypair(a, keypair) == [a EXCEPT !.kp1 = Byte(keypair)]
SetChain(a, chain)     == [a EXCEPT !.b17 = Byte(chain)]
SetHash(a, hash)       == [a EXCEPT !.b21 = Byte(hash)]
SetTreeHeight(a, h)    == [a EXCEPT !.b17 = Byte(h)]
SetTreeIndex(a, index) ==
    [a EXCEPT !.b18_20 = index \div 256, !.b21 = Byte(index)]

(* Copies of the leading bytes of in over those of out. *)
CopySubtree(out, in) == [out EXCEPT !.layer = in.layer, !.tree = in.tree]
CopyKeypair(out, in) ==
    [out EXCEPT !.layer = in.layer, !.tree = in.tree, !.kp1 = in.kp1]
===============================================================================
