---------------------------------- MODULE Bits ----------------------------------
(***************************************************************************)
(* Shifts: x << n is x * TwoTo[n], and x >> n is x \div TwoTo[n]; and the   *)
(* number that digits stand for.                                           *)
(***************************************************************************)
EXTENDS Naturals, Sequences

TwoTo[n \in Nat] == IF n = 0 THEN 1 ELSE 2 * TwoTo[n - 1]

(* The number that a string of digits spells, the first digit the highest. *)
Spelled(base, digits) ==
    LET s[i \in 0..Len(digits)] == IF i = 0 THEN 0 ELSE s[i - 1] * base + digits[i]
    IN  s[Len(digits)]
===============================================================================
