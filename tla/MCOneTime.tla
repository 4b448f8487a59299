------------------------------- MODULE MCOneTime -------------------------------
EXTENDS OneTime

(* All messages of N bytes. *)
AllMessages == [1..N -> 0..255]
===============================================================================
