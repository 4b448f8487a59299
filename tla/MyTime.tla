--------------------------------- MODULE MyTime ---------------------------------
(***************************************************************************)
(* The clock of myTime.c and its one user, benchmark() of test/benchmark.c. *)
(* The time in ms is put together from the two halves of the cycle         *)
(* counter, read one after the other while it counts.  Only the value of   *)
(* getCpuCycleLow() / 50000 is kept of the low half: it counts from 0 to   *)
(* LowMax, which is (2^32 - 1) / 50000, and then the high half counts.     *)
(***************************************************************************)
EXTENDS Integers, Sequences

CONSTANTS
    LowMax,    \* (2^32 - 1) / 50000
    MaxTicks,  \* bound on the times the clock advances
    Runs       \* bound on the calls of benchmark

ArraySize == 10     \* of S_uiArrTimeStampArray
Factor    == 85898  \* POWER_2_32_DIVIDED_BY_50000

(* benchmark takes a stamp at its start and after each of seven operations, *)
(* and then asks for these differences, (last, first).                      *)
StampsTaken == 8
DiffsAsked == {<<7, 0>>} \cup {<<n + 1, n>> : n \in 0..6}

VARIABLES
    high, low,             \* the cycle counter
    ticks, runs,
    S_uiArrTimeStampArray, \* by index; what is stored past the end is here too
    S_uiCounter,
    taken,                 \* stamps that this run of benchmark has taken
    got,                   \* what the functions read so far have returned
    bench_pc

vars == <<high, low, ticks, runs, S_uiArrTimeStampArray, S_uiCounter,
          taken, got, bench_pc>>

NotRead == [high |-> -1, low |-> -1]

Init ==
    /\ high = 0
    /\ low \in 0..LowMax
    /\ ticks = 0
    /\ runs = 0
    /\ S_uiArrTimeStampArray = [n \in {} |-> 0]
    /\ S_uiCounter = 0
    /\ taken = 0
    /\ got = NotRead
    /\ bench_pc = "idle"

(* 50000 cycles go by, between any two instructions. *)
Tick ==
    /\ ticks < MaxTicks
    /\ ticks' = ticks + 1
    /\ low' = IF low = LowMax THEN 0 ELSE low + 1
    /\ high' = IF low = LowMax THEN high + 1 ELSE high
    /\ UNCHANGED <<runs, S_uiArrTimeStampArray, S_uiCounter, taken, got, bench_pc>>

(* resetTimeStamp, the first thing benchmark does with the clock. *)
CounterAfterReset_Kept == S_uiCounter
CounterAfterReset == 0

Reset ==
    /\ bench_pc = "idle"
    /\ runs < Runs
    /\ runs' = runs + 1
    /\ S_uiCounter' = CounterAfterReset
    /\ taken' = 0
    /\ bench_pc' = "stamping"
    /\ UNCHANGED <<high, low, ticks, S_uiArrTimeStampArray, got>>

(* C leaves open which of the two calls in getTime_ms comes first. *)
GetCpuCycleHigh ==
    /\ bench_pc = "stamping"
    /\ got.high = -1
    /\ got' = [got EXCEPT !.high = high]
    /\ UNCHANGED <<high, low, ticks, runs, S_uiArrTimeStampArray, S_uiCounter,
                   taken, bench_pc>>

GetCpuCycleLow ==
    /\ bench_pc = "stamping"
    /\ got.low = -1
    /\ got' = [got EXCEPT !.low = low]
    /\ UNCHANGED <<high, low, ticks, runs, S_uiArrTimeStampArray, S_uiCounter,
                   taken, bench_pc>>

GetTime_ms == got.high * Factor + got.low

(* The rest of getTimeStamp. *)
StoreTimeStamp ==
    /\ got.high # -1 /\ got.low # -1
    /\ S_uiArrTimeStampArray' =
          [n \in DOMAIN S_uiArrTimeStampArray \cup {S_uiCounter} |->
              IF n = S_uiCounter THEN GetTime_ms ELSE S_uiArrTimeStampArray[n]]
    /\ S_uiCounter' = S_uiCounter + 1
    /\ got' = NotRead
    /\ taken' = taken + 1
    /\ bench_pc' = IF taken' = StampsTaken THEN "idle" ELSE "stamping"
    /\ UNCHANGED <<high, low, ticks, runs>>

Next == Tick \/ Reset \/ GetCpuCycleHigh \/ GetCpuCycleLow \/ StoreTimeStamp

Spec == Init /\ [][Next]_vars

(* getTimeDiff_ms, before the subtraction wraps. *)
GetTimeDiff_ms(last, first) ==
    IF first < S_uiCounter /\ last < S_uiCounter /\ last >= first
    THEN S_uiArrTimeStampArray[last] - S_uiArrTimeStampArray[first]
    ELSE 0

-------------------------------------------------------------------------------
(* getTimeStamp checks no bound: it is benchmark, which resets the counter *)
(* and takes eight stamps, that keeps it within the array, run after run.  *)
(* When it asks for the differences, each is that of two stamps of this    *)
(* run, and none is the 0 that stands for an index out of range.           *)
StampsServe ==
    /\ DOMAIN S_uiArrTimeStampArray \subseteq 0..(ArraySize - 1)
    /\ bench_pc = "idle" /\ runs > 0 =>
          /\ S_uiCounter = taken
          /\ \A d \in DiffsAsked :
                GetTimeDiff_ms(d[1], d[2]) =
                    S_uiArrTimeStampArray[d[1]] - S_uiArrTimeStampArray[d[2]]
===============================================================================
