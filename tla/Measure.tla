--------------------------------- MODULE Measure ---------------------------------
(***************************************************************************)
(* What the firmware measures itself with: the profiler of main.c on the   *)
(* instruction counter and, for benchmark, the clock of myTime.c on the    *)
(* cycle counter.  Each reads a 64-bit counter in two halves, and they     *)
(* share nothing.                                                          *)
(***************************************************************************)
EXTENDS Profiler

CONSTANTS LowMax, MaxTicks, Runs

VARIABLES
    high, low, ticks, runs, S_uiArrTimeStampArray, S_uiCounter, taken, got, bench_pc

Clock == INSTANCE MyTime

clock_vars == <<high, low, ticks, runs, S_uiArrTimeStampArray, S_uiCounter,
                taken, got, bench_pc>>

MeasureInit == Clock!Init /\ Init

MeasureNext ==
    \/ Clock!Next /\ UNCHANGED vars
    \/ Next /\ UNCHANGED clock_vars

MeasureSpec == MeasureInit /\ [][MeasureNext]_<<vars, clock_vars>>

-------------------------------------------------------------------------------
(* benchmark keeps its time stamps within their array, run after run, and   *)
(* takes the differences of its own.                                        *)
StampsServe == Clock!StampsServe
===============================================================================
