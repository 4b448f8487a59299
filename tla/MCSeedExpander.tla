----------------------------- MODULE MCSeedExpander -----------------------------
(* Blocks of three bytes, and a counter that carries and wraps within a run. *)
EXTENDS SeedExpander
===============================================================================
