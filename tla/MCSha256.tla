-------------------------------- MODULE MCSha256 --------------------------------
(* A cell is eight bytes, and the address is rounded up to three of them. *)
EXTENDS Sha256
===============================================================================
