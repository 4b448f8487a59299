-------------------------------- MODULE MCMeasure --------------------------------
(* A cycle counter with the real factor, started a few ticks before it wraps, *)
(* and an instruction counter of which both halves are about to wrap, with    *)
(* four functions, of which two can be entered first by the report.           *)
EXTENDS Measure

MCCallees == [f \in Funcs |->
    CASE f = Benchmark -> {Printf, "memcpy"}
      [] f = Printf -> {"memcpy"}
      [] OTHER -> {}]

MCInit ==
    /\ high = 0 /\ low \in (LowMax - 2)..LowMax
    /\ counter \in (Size - LowSize)..(Size - 1)
    /\ MeasureInit
MCSpec == MCInit /\ [][MeasureNext]_<<vars, clock_vars>>

(* Clock and profiler share no state: each is run while the other is unused. *)
OneInUse ==
    \/ phase = "reset" /\ counter = Size - 1
    \/ ticks = 0 /\ runs = 0 /\ low = LowMax
===============================================================================
