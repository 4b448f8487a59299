--------------------------------- MODULE MCCrt0 ---------------------------------
(* bss empty, of whole words and with a last word that it shares; traps three *)
(* deep.                                                                      *)
EXTENDS Crt0
===============================================================================
