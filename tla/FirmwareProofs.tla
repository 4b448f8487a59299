----------------------------- MODULE FirmwareProofs -----------------------------
(***************************************************************************)
(* The firmware around the signatures: the time stamps of benchmark stay   *)
(* in their array, for any number of runs; the profiler counts every call, *)
(* finds its entries and reports them all, whatever is called and however  *)
(* qsort orders them; what crt0.S interrupts is resumed as it was, however *)
(* deep traps nest; main always begins with a bss of zeros, whatever its   *)
(* size; and what is printed comes out of the line byte for byte, every    *)
(* number spelled as it is.                                                *)
(***************************************************************************)
EXTENDS Measure, Crt0, Console, FiniteSetTheorems, SequenceTheorems,
        WellFoundedInduction, TLAPS

-------------------------------------------------------------------------------
(* The counter is the number of stamps of this run, and the array holds them *)
(* and what is left of the run before.                                     *)
Counting ==
    /\ S_uiCounter = taken
    /\ taken \in 0..Clock!StampsTaken
    /\ DOMAIN S_uiArrTimeStampArray \subseteq 0..(Clock!StampsTaken - 1)
    /\ runs \in Nat
    /\ bench_pc \in {"idle", "stamping"}
    /\ bench_pc = "stamping" => taken < Clock!StampsTaken /\ runs > 0
    /\ bench_pc = "idle" => taken = IF runs = 0 THEN 0 ELSE Clock!StampsTaken
    /\ bench_pc = "idle" => got = Clock!NotRead

LEMMA ClockStep == Counting /\ Clock!Next => Counting'
<1> SUFFICES ASSUME Counting, Clock!Next PROVE Counting'
  OBVIOUS
<1>0. Clock!StampsTaken = 8
  BY DEF Clock!StampsTaken
<1>1. CASE Clock!Tick
  BY <1>1 DEF Clock!Tick, Counting
<1>2. CASE Clock!Reset
  BY <1>0, <1>2 DEF Clock!Reset, Clock!CounterAfterReset, Counting
<1>3. CASE Clock!GetCpuCycleHigh
  BY <1>3 DEF Clock!GetCpuCycleHigh, Counting
<1>4. CASE Clock!GetCpuCycleLow
  BY <1>4 DEF Clock!GetCpuCycleLow, Counting
<1>5. CASE Clock!StoreTimeStamp
  <2>1. bench_pc = "stamping"
    BY <1>5 DEF Clock!StoreTimeStamp, Counting, Clock!NotRead
  <2>2. DOMAIN S_uiArrTimeStampArray' = DOMAIN S_uiArrTimeStampArray \cup {taken}
    BY <1>5 DEF Clock!StoreTimeStamp, Counting
  <2> QED
    BY <1>0, <1>5, <2>1, <2>2 DEF Clock!StoreTimeStamp, Counting
<1> QED
  BY <1>1, <1>2, <1>3, <1>4, <1>5 DEF Clock!Next

(* S_uiArrTimeStampArray is never written past its end, although            *)
(* getTimeStamp does not look, and no difference that benchmark prints is   *)
(* the 0 of an index out of range.                                          *)
THEOREM StampsInArray == MeasureSpec => []StampsServe
<1>1. MeasureInit => Counting
  BY DEF MeasureInit, Clock!Init, Clock!StampsTaken, Counting
<1>2. Counting /\ [MeasureNext]_<<vars, clock_vars>> => Counting'
  <2> SUFFICES ASSUME Counting, [MeasureNext]_<<vars, clock_vars>> PROVE Counting'
    OBVIOUS
  <2>1. CASE UNCHANGED clock_vars
    BY <2>1 DEF clock_vars, Counting
  <2> QED
    BY <2>1, ClockStep DEF MeasureNext
<1>3. Counting => StampsServe
  <2> SUFFICES ASSUME Counting PROVE StampsServe
    OBVIOUS
  <2>1. DOMAIN S_uiArrTimeStampArray \subseteq 0..(Clock!ArraySize - 1)
    BY DEF Counting, Clock!StampsTaken, Clock!ArraySize
  <2>2. ASSUME bench_pc = "idle", runs > 0, NEW d \in Clock!DiffsAsked
        PROVE  Clock!GetTimeDiff_ms(d[1], d[2]) =
                   S_uiArrTimeStampArray[d[1]] - S_uiArrTimeStampArray[d[2]]
    <3>1. S_uiCounter = 8
      BY <2>2 DEF Counting, Clock!StampsTaken
    <3>2. d[1] \in 0..7 /\ d[2] \in 0..7 /\ d[1] >= d[2]
      BY <2>2 DEF Clock!DiffsAsked
    <3> QED
      BY <3>1, <3>2 DEF Clock!GetTimeDiff_ms
  <2> QED
    BY <2>1, <2>2 DEF StampsServe, Clock!StampsServe, Counting
<1> QED
  BY <1>1, <1>2, <1>3, PTL DEF MeasureSpec

-------------------------------------------------------------------------------
(* The profiler.  The clock is read in two halves, and what wraps is compared *)
(* by its low half: it is the same where the numbers are.                     *)

(* Quotient and remainder. *)
LEMMA DivisionUnique ==
    ASSUME NEW L \in Nat \ {0}, NEW q \in Int, NEW r \in 0..(L - 1)
    PROVE  (q * L + r) \div L = q /\ (q * L + r) % L = r
<1> DEFINE m == q * L + r
           d == m \div L
           e == m % L
<1>1. q * L \in Int /\ m \in Int
  OBVIOUS
<1>2. d \in Int /\ e \in 0..(L - 1) /\ m = L * d + e
  BY <1>1
<1>3. m = q * L + r
  OBVIOUS
<1> HIDE DEF d, e, m
<1>4. L * (d - q) = r - e
  <2>1. L * (d - q) = L * d - q * L
    BY <1>2
  <2> QED
    BY <1>1, <1>2, <1>3, <2>1
<1>5. d - q = 0
  <2> DEFINE g == d - q
  <2>1. g \in Int /\ L * g = r - e
    BY <1>2, <1>4
  <2> SUFFICES g = 0
    OBVIOUS
  <2> HIDE DEF g
  <2>2. CASE g >= 1
    <3>1. L * g >= L
      BY <2>1, <2>2
    <3> QED
      BY <1>2, <2>1, <3>1
  <2>3. CASE g <= -1
    <3>1. L * g <= -L
      BY <2>1, <2>3
    <3> QED
      BY <1>2, <2>1, <3>1
  <2> QED
    BY <2>1, <2>2, <2>3
<1>6. d = q /\ e = r
  BY <1>2, <1>4, <1>5
<1> QED
  BY <1>6 DEF d, e, m
(* The same low half. *)
Same(a, b) == (a - b) % LowSize = 0
(* Two numbers with the same low half differ by a multiple of LowSize. *)
LEMMA SameBy ==
    ASSUME NEW a \in Int, NEW b \in Int
    PROVE  Same(a, b) <=> \E k \in Int : a - b = k * LowSize
<1>1. LowSize \in Nat \ {0}
  BY CounterAssumption
<1>2. ASSUME Same(a, b) PROVE \E k \in Int : a - b = k * LowSize
  <2>1. a - b \in Int /\ (a - b) \div LowSize \in Int
        /\ a - b = LowSize * ((a - b) \div LowSize) + ((a - b) % LowSize)
    BY <1>1
  <2> DEFINE k == (a - b) \div LowSize
  <2>2. k \in Int /\ a - b = LowSize * k + 0
    BY <1>2, <2>1 DEF Same
  <2> HIDE DEF k
  <2> QED
    BY <1>1, <2>2
<1>3. ASSUME NEW k \in Int, a - b = k * LowSize PROVE Same(a, b)
  <2>1. (k * LowSize + 0) % LowSize = 0
    BY <1>1, DivisionUnique
  <2> DEFINE P == k * LowSize
  <2>2. P \in Int /\ (P + 0) % LowSize = 0 /\ a - b = P
    BY <1>1, <1>3, <2>1
  <2> HIDE DEF P
  <2>3. a - b = P + 0
    BY <2>2
  <2> QED
    BY <2>2, <2>3 DEF Same
<1> QED
  BY <1>2, <1>3
(* Sums and differences keep the low half. *)
LEMMA SameSum ==
    ASSUME NEW a \in Int, NEW b \in Int, NEW x \in Int, NEW y \in Int,
           Same(a, b), Same(x, y)
    PROVE  Same(a + x, b + y) /\ Same(a - x, b - y)
<1>1. PICK k \in Int : a - b = k * LowSize
  BY SameBy
<1>2. PICK l \in Int : x - y = l * LowSize
  BY SameBy
<1>3. LowSize \in Int
  BY CounterAssumption
<1>4. k + l \in Int /\ k - l \in Int
      /\ (k + l) * LowSize = k * LowSize + l * LowSize
      /\ (k - l) * LowSize = k * LowSize - l * LowSize
  BY <1>3
<1>5. (a + x) - (b + y) = (k + l) * LowSize /\ (a - x) - (b - y) = (k - l) * LowSize
  <2> DEFINE K == k * LowSize
             M == l * LowSize
  <2>1. K \in Int /\ M \in Int /\ a - b = K /\ x - y = M
    BY <1>1, <1>2, <1>3
  <2> HIDE DEF K, M
  <2>2. (a + x) - (b + y) = K + M /\ (a - x) - (b - y) = K - M
    BY <2>1
  <2> QED
    BY <1>4, <2>2 DEF K, M
<1> QED
  BY <1>4, <1>5, SameBy
(* To have the same low half is an equivalence. *)
LEMMA SameOrder ==
    ASSUME NEW a \in Int, NEW b \in Int, NEW x \in Int
    PROVE  /\ Same(a, a)
           /\ Same(a, b) => Same(b, a)
           /\ Same(a, b) /\ Same(b, x) => Same(a, x)
<1>1. Same(a, a)
  <2>1. 0 \in Int /\ a - a = 0 * LowSize
    BY CounterAssumption
  <2> QED
    BY <2>1, SameBy
<1>2. ASSUME Same(a, b) PROVE Same(b, a)
  <2>1. PICK k \in Int : a - b = k * LowSize
    BY <1>2, SameBy
  <2>2. -k \in Int /\ b - a = (-k) * LowSize
    BY <2>1, CounterAssumption
  <2> QED
    BY <2>2, SameBy
<1>3. ASSUME Same(a, b), Same(b, x) PROVE Same(a, x)
  <2>1. Same(a + b, b + x)
    BY <1>3, SameSum
  <2>2. Same((a + b) - b, (b + x) - b)
    <3>1. Same(b, b)
      <4>1. 0 \in Int /\ b - b = 0 * LowSize
        BY CounterAssumption
      <4> QED
        BY <4>1, SameBy
    <3>2. a + b \in Int /\ b + x \in Int
      OBVIOUS
    <3> QED
      BY <2>1, <3>1, <3>2, SameSum
  <2>3. (a + b) - b = a /\ (b + x) - b = x
    OBVIOUS
  <2> QED
    BY <2>2, <2>3
<1> QED
  BY <1>1, <1>2, <1>3
(* What wraps, and what is put together of two halves, keeps its low half. *)
LEMMA SameLaws ==
    /\ \A x \in Int : Same(x % LowSize, x) /\ Same(x % Size, x) /\ Same(x + Size, x)
    /\ \A l, h \in Int : Same(Now(l, h), l)
    /\ \A x, y \in Nat : Same(x, y) => x % LowSize = y % LowSize
<1>1. LowSize \in Nat \ {0} /\ HighSize \in Nat \ {0} /\ Size = HighSize * LowSize /\ Size \in Nat \ {0}
  BY CounterAssumption DEF Size
<1>2. ASSUME NEW x \in Int, NEW L \in Nat \ {0}
      PROVE  x % L \in Int /\ \E k \in Int : (x % L) - x = k * L
  <2> DEFINE q == x \div L
             e == x % L
  <2>1. q \in Int /\ e \in Int /\ x = L * q + e
    BY <1>2
  <2> HIDE DEF q, e
  <2>2. -q \in Int /\ e - x = (-q) * L
    <3>1. (-q) * L = -(L * q) /\ L * q \in Int
      BY <1>2, <2>1
    <3> QED
      BY <2>1, <3>1
  <2> QED
    BY <2>1, <2>2 DEF e
<1>3. \A x \in Int : Same(x % LowSize, x)
  <2> SUFFICES ASSUME NEW x \in Int PROVE Same(x % LowSize, x)
    OBVIOUS
  <2>1. x % LowSize \in Int /\ \E k \in Int : (x % LowSize) - x = k * LowSize
    BY <1>1, <1>2
  <2> QED
    BY <2>1, SameBy
<1>4. \A x \in Int : Same(x % Size, x)
  <2> SUFFICES ASSUME NEW x \in Int PROVE Same(x % Size, x)
    OBVIOUS
  <2>1. PICK k \in Int : (x % Size) - x = k * Size
    BY <1>1, <1>2
  <2>2. x % Size \in Int
    BY <1>1, <1>2
  <2>3. k * HighSize \in Int /\ k * Size = (k * HighSize) * LowSize
    BY <1>1
  <2> QED
    BY <2>1, <2>2, <2>3, SameBy
<1>5. \A x \in Int : Same(x + Size, x)
  <2> SUFFICES ASSUME NEW x \in Int PROVE Same(x + Size, x)
    OBVIOUS
  <2>1. (x + Size) - x = HighSize * LowSize /\ x + Size \in Int /\ HighSize \in Int
    <3>1. Size \in Int /\ (x + Size) - x = Size
      BY <1>1
    <3> QED
      BY <1>1, <3>1
  <2> QED
    BY <2>1, SameBy
<1>6. \A l, h \in Int : Same(Now(l, h), l)
  <2> SUFFICES ASSUME NEW l \in Int, NEW h \in Int PROVE Same(Now(l, h), l)
    OBVIOUS
  <2> DEFINE P == h * LowSize
  <2>1. P \in Int /\ Now(l, h) = l + P
    BY <1>1 DEF Now
  <2> HIDE DEF P
  <2>2. Now(l, h) \in Int /\ Now(l, h) - l = P
    BY <2>1
  <2> QED
    BY <2>2, SameBy DEF P
<1>7. \A x, y \in Nat : Same(x, y) => x % LowSize = y % LowSize
  <2> SUFFICES ASSUME NEW x \in Nat, NEW y \in Nat, Same(x, y) PROVE x % LowSize = y % LowSize
    OBVIOUS
  <2>1. PICK k \in Int : x - y = k * LowSize
    BY SameBy
  <2> DEFINE q == y \div LowSize
             e == y % LowSize
  <2>2. q \in Int /\ e \in 0..(LowSize - 1) /\ y = LowSize * q + e
    BY <1>1
  <2> HIDE DEF q, e
  <2>3. q + k \in Int /\ (q + k) * LowSize = LowSize * q + k * LowSize
    BY <1>1, <2>2
  <2>4. x = (q + k) * LowSize + e
    <3> DEFINE A == LowSize * q
               B == k * LowSize
    <3>1. A \in Int /\ B \in Int /\ x - y = B /\ y = A + e
      BY <1>1, <2>1, <2>2
    <3> HIDE DEF A, B
    <3>2. x = A + B + e
      BY <2>2, <3>1
    <3> QED
      BY <2>3, <3>2 DEF A, B
  <2>5. ((q + k) * LowSize + e) % LowSize = e
    BY <1>1, <2>2, <2>3, DivisionUnique
  <2> QED
    BY <2>4, <2>5 DEF e
<1> QED
  BY <1>3, <1>4, <1>5, <1>6, <1>7

(* The functions of the report, which alone can have a second entry. *)
Late == ReportCalls
RoomFor(fs) ==
    /\ Printf \in fs
    /\ \A f \in fs : Callees[f] \subseteq fs
    /\ Cardinality(Funcs \ {Main}) + Cardinality(fs) < MAX_FUNCTIONS
(* O is the function of each entry.  Ahead: found before a free one. *)
Holds(O, f) == \E n \in Indices : O[n] = f
IsFirst(O, f, n) == n \in Indices /\ O[n] = f /\ \A m \in Indices : O[m] = f => n <= m
Single(O, f) == \A n, m \in Indices : O[n] = f /\ O[m] = f => n = m
Ahead(O, f) == \E n \in Indices : O[n] = f /\ \A m \in Indices : O[m] = NULL => n < m
Sorted(ph) == ph \in {"rows", "line", "loop"}
Wiped(ph) == ph \in {"wiped", "measured", "unsorted", "rows", "line", "loop"}
(* Every function has its entry ahead, and only one, until a torn reading of
   a function of the report lets qsort put it behind. *)
Entries(O, t, ph) == \A f \in Funcs :
   /\ Holds(O, f) /\ (f \notin t \/ ~Sorted(ph)) => Ahead(O, f)
   /\ ~Ahead(O, f) \/ f \notin t \/ f \notin Late \/ ~Sorted(ph) => Single(O, f)
   /\ \A n, m, k \in Indices : O[n] = f /\ O[m] = f /\ O[k] = f => n = m \/ m = k \/ n = k

(* Every nonempty set of numbers has a least one. *)
LEMMA Smallest ==
    ASSUME NEW S, S \subseteq Nat, S # {}
    PROVE  \E n \in S : \A m \in S : n <= m
<1> DEFINE R == OpToRel(<, Nat)
<1>1. IsWellFoundedOn(R, Nat)
  BY NatLessThanWellFounded
<1>2. \A i, j \in Nat : i < j => <<i, j>> \in R
  BY DEF OpToRel
<1> HIDE DEF R
<1>3. PICK n \in S : \A y \in S : ~(<<y, n>> \in R)
  BY <1>1, WFMin
<1>4. ASSUME NEW m \in S PROVE n <= m
  <2>1. n \in Nat /\ m \in Nat /\ ~(m < n)
    BY <1>2, <1>3
  <2> QED
    BY <2>1
<1> QED
  BY <1>3, <1>4

(* What the constants are. *)
LEMMA Sizes ==
    /\ MAX_FUNCTIONS \in Nat \ {0} /\ Indices = 0..(MAX_FUNCTIONS - 1) /\ 0 \in Indices
    /\ LowSize \in Nat \ {0} /\ HighSize \in Nat \ {0} /\ Size \in Nat \ {0}
    /\ MaxCalls \in Nat /\ MaxWork \in Nat
    /\ MaxWork + 4 * (MaxCalls + 2 * MAX_FUNCTIONS + 5) < Size
    /\ Late \subseteq Funcs /\ RoomFor(Late)
<1>1. Late \subseteq Funcs /\ RoomFor(Late)
  <2>1. Late \subseteq Funcs /\ Printf \in Late
    BY FuncsAssumption DEF Late, ReportCalls, CallsNoOther
  <2>2. ASSUME NEW f \in Late, NEW g \in Callees[f] PROVE g \in Late
    <3>1. f \in Funcs /\ g \in Funcs
      BY <2>1, FuncsAssumption
    <3>2. \A fs \in SUBSET Funcs : CallsNoOther(fs) => f \in fs
      BY DEF Late, ReportCalls
    <3>3. \A fs \in SUBSET Funcs : CallsNoOther(fs) => g \in fs
      BY <3>2 DEF CallsNoOther
    <3> QED
      BY <3>1, <3>3 DEF Late, ReportCalls
  <2> QED
    BY <2>1, <2>2, RoomAssumption DEF Late, RoomFor
<1>2. IsFiniteSet(Late) /\ IsFiniteSet(Funcs \ {Main}) /\ Late # {}
  BY <1>1, FS_Subset, FuncsAssumption DEF RoomFor
<1>3. Cardinality(Late) \in Nat /\ Cardinality(Late) # 0 /\ Cardinality(Funcs \ {Main}) \in Nat
  BY <1>2, FS_CardinalityType, FS_EmptySet
<1>4. MAX_FUNCTIONS \in Nat \ {0}
  BY <1>1, <1>3, RoomAssumption DEF RoomFor
<1>5. Size \in Nat
  BY CounterAssumption DEF Size
<1> QED
  BY <1>1, <1>4, <1>5, CounterAssumption DEF Indices

(* A function that has an entry has a first one. *)
LEMMA FirstExists ==
    ASSUME NEW O, NEW f
    PROVE  /\ Holds(O, f) => \E n \in Indices : IsFirst(O, f, n)
           /\ \A n, m : IsFirst(O, f, n) /\ IsFirst(O, f, m) => n = m
<1>1. ASSUME Holds(O, f) PROVE \E n \in Indices : IsFirst(O, f, n)
  <2> DEFINE S == {n \in Indices : O[n] = f}
  <2>1. S \subseteq Nat /\ S # {}
    BY <1>1, Sizes DEF Holds
  <2>2. PICK n \in S : \A m \in S : n <= m
    <3> HIDE DEF S
    <3> QED
      BY <2>1, Smallest
  <2> QED
    BY <2>2 DEF IsFirst
<1>2. ASSUME NEW n, NEW m, IsFirst(O, f, n), IsFirst(O, f, m) PROVE n = m
  <2>1. n \in Nat /\ m \in Nat /\ n <= m /\ m <= n
    BY <1>2, Sizes DEF IsFirst
  <2> QED
    BY <2>1
<1> QED
  BY <1>1, <1>2

(* A table without a free entry and without one of f would have too many. *)
LEMMA HasRoom ==
    ASSUME NEW O \in [Indices -> Funcs \cup {NULL}], NEW t, NEW ph, Entries(O, t, ph),
           NEW f \in Funcs, Sorted(ph) => ~Holds(O, Main) /\ f # Main
    PROVE  \E n \in Indices \ {MAX_FUNCTIONS - 1} : O[n] \in {f, NULL}
<1> DEFINE looked == 0..(MAX_FUNCTIONS - 2)
<1>0. looked = Indices \ {MAX_FUNCTIONS - 1} /\ looked \subseteq Indices
  BY Sizes
<1> SUFFICES ASSUME \A n \in looked : O[n] \in Funcs \ {f} PROVE FALSE
  BY <1>0
<1> DEFINE E1 == {n \in looked : IsFirst(O, O[n], n)}
           E2 == looked \ E1
           g1 == [n \in E1 |-> O[n]]
           g2 == [n \in E2 |-> O[n]]
           others == IF Sorted(ph) THEN Funcs \ {f, Main} ELSE Funcs \ {f}
<1>1. IsFiniteSet(looked) /\ Cardinality(looked) = MAX_FUNCTIONS - 1
  BY Sizes, FS_Interval
<1> HIDE DEF looked
<1>2. IsFiniteSet(E1) /\ IsFiniteSet(E2) /\ Cardinality(E1) + Cardinality(E2) = MAX_FUNCTIONS - 1
      /\ Cardinality(E1) \in Nat /\ Cardinality(E2) \in Nat
  <2>1. E1 \subseteq looked /\ E2 \subseteq looked /\ E1 \cup E2 = looked /\ E1 \cap E2 = {}
    OBVIOUS
  <2> HIDE DEF E1, E2
  <2>2. IsFiniteSet(E1) /\ IsFiniteSet(E2)
    BY <1>1, <2>1, FS_Subset
  <2>3. Cardinality(E1 \cup E2) = Cardinality(E1) + Cardinality(E2) - Cardinality(E1 \cap E2)
    BY <2>2, FS_Union
  <2>4. Cardinality(E1 \cap E2) = 0 /\ Cardinality(E1 \cup E2) = MAX_FUNCTIONS - 1
    BY <1>1, <2>1, FS_EmptySet
  <2>5. Cardinality(E1) \in Nat /\ Cardinality(E2) \in Nat
    BY <2>2, FS_CardinalityType
  <2> QED
    BY <2>2, <2>3, <2>4, <2>5
<1>3. g1 \in Injection(E1, others)
  <2>1. \A n \in E1 : O[n] \in others
    BY <1>0 DEF Holds
  <2>2. \A n, m \in E1 : O[n] = O[m] => n = m
    BY FirstExists
  <2> QED
    BY <2>1, <2>2 DEF Injection, IsInjective
<1>4. g2 \in Injection(E2, Late) /\ (~Sorted(ph) => E2 = {})
  <2>1. ASSUME NEW n \in E2 PROVE \E k \in Indices : k # n /\ O[k] = O[n]
    <3>1. Holds(O, O[n])
      BY <1>0 DEF Holds
    <3>2. PICK k \in Indices : IsFirst(O, O[n], k)
      BY <3>1, FirstExists
    <3> QED
      BY <3>2 DEF IsFirst
  <2>2. ASSUME NEW n \in E2 PROVE O[n] \in Late /\ Sorted(ph)
    <3>1. ~Single(O, O[n])
      BY <1>0, <2>1 DEF Single
    <3> QED
      BY <3>1 DEF Entries
  <2>3. ASSUME NEW n \in E2, NEW m \in E2, O[n] = O[m] PROVE n = m
    <3>1. Holds(O, O[n])
      BY <1>0 DEF Holds
    <3>2. PICK k \in Indices : IsFirst(O, O[n], k)
      BY <3>1, FirstExists
    <3>3. k # n /\ k # m /\ O[k] = O[n]
      BY <2>3, <3>2 DEF IsFirst
    <3> QED
      BY <1>0, <2>3, <3>3 DEF Entries
  <2> QED
    BY <2>2, <2>3 DEF Injection, IsInjective
<1>5. IsFiniteSet(Late) /\ IsFiniteSet(others) /\ Cardinality(Late) \in Nat \ {0}
      /\ Cardinality(others) \in Nat
  <2>1. IsFiniteSet(Late) /\ IsFiniteSet(others) /\ Late # {}
    BY Sizes, FS_Subset, FuncsAssumption DEF RoomFor
  <2> QED
    BY <2>1, FS_CardinalityType, FS_EmptySet
<1>6. Cardinality(E1) <= Cardinality(others) /\ Cardinality(E2) <= Cardinality(Late)
      /\ (~Sorted(ph) => Cardinality(E2) = 0)
  <2> HIDE DEF E1, E2, g1, g2, others
  <2> QED
    BY <1>3, <1>4, <1>5, FS_Injection, FS_EmptySet
<1>7. Cardinality(others) = IF Sorted(ph) THEN Cardinality(Funcs \ {Main}) - 1
                                          ELSE Cardinality(Funcs \ {Main})
  <2>1. IsFiniteSet(Funcs) /\ Main \in Funcs
    BY FuncsAssumption
  <2>2. Cardinality(Funcs \ {f}) = Cardinality(Funcs) - 1
        /\ Cardinality(Funcs \ {Main}) = Cardinality(Funcs) - 1 /\ IsFiniteSet(Funcs \ {Main})
    BY <2>1, FS_RemoveElement
  <2>3. CASE Sorted(ph)
    <3>1. Cardinality((Funcs \ {Main}) \ {f}) = Cardinality(Funcs \ {Main}) - 1
      BY <2>2, <2>3, FS_RemoveElement
    <3>2. (Funcs \ {Main}) \ {f} = others
      BY <2>3
    <3> QED
      BY <2>3, <3>1, <3>2
  <2> QED
    BY <2>2, <2>3
<1>8. Cardinality(Funcs \ {Main}) \in Nat
  BY FS_Subset, FS_CardinalityType, FuncsAssumption
<1> HIDE DEF E1, E2, others
<1>9. Cardinality(Funcs \ {Main}) + Cardinality(Late) < MAX_FUNCTIONS /\ MAX_FUNCTIONS \in Nat
  BY <1>5, <1>8, Sizes DEF RoomFor
<1> QED
  BY <1>2, <1>5, <1>6, <1>7, <1>8, <1>9

(* The enter hook gives f the first entry that f has or none has. *)
(* Where the enter hook stops. *)
FirstFor(O, f, s) ==
    s \in Indices /\ O[s] \in {f, NULL} /\ \A m \in Indices : O[m] \in {f, NULL} => s <= m
OwnerPut(O, s, f) == [O EXCEPT ![s] = f]

LEMMA EnterEntries ==
    ASSUME NEW O \in [Indices -> Funcs \cup {NULL}], NEW t, NEW ph, Entries(O, t, ph),
           NEW f \in Funcs, Sorted(ph) => f \in Late,
           NEW s, FirstFor(O, f, s)
    PROVE  /\ Entries(OwnerPut(O, s, f), t, ph)
           /\ IsFirst(OwnerPut(O, s, f), f, s)
           /\ Holds(O, f) /\ Single(OwnerPut(O, s, f), f) => OwnerPut(O, s, f) = O
           /\ f \notin t /\ Holds(O, f) => OwnerPut(O, s, f) = O
           /\ \A g \in Funcs \ {f} :
                 /\ \A n : IsFirst(OwnerPut(O, s, f), g, n) <=> IsFirst(O, g, n)
                 /\ Holds(OwnerPut(O, s, f), g) <=> Holds(O, g)
                 /\ Single(OwnerPut(O, s, f), g) <=> Single(O, g)
<1> DEFINE P == OwnerPut(O, s, f)
<1>1. /\ s \in Indices /\ O[s] \in {f, NULL} /\ P = [O EXCEPT ![s] = f]
      /\ \A m \in Indices : O[m] \in {f, NULL} => s <= m
  BY DEF FirstFor, OwnerPut
<1> HIDE DEF P
<1> USE <1>1
<1>2. P \in [Indices -> Funcs \cup {NULL}] /\ P[s] = f
      /\ \A n \in Indices \ {s} : P[n] = O[n]
  OBVIOUS
<1>3. NULL \notin Funcs /\ Indices \subseteq Nat
  BY FuncsAssumption, Sizes
<1>4. ASSUME NEW g \in Funcs \ {f}
      PROVE  /\ \A n \in Indices : P[n] = g <=> O[n] = g
             /\ \A n : IsFirst(P, g, n) <=> IsFirst(O, g, n)
             /\ Holds(P, g) <=> Holds(O, g)
             /\ Single(P, g) <=> Single(O, g)
             /\ Ahead(O, g) => Ahead(P, g)
  <2>1. \A n \in Indices : P[n] = g <=> O[n] = g
    BY <1>2, <1>3
  <2>2. \A n \in Indices : P[n] = NULL => O[n] = NULL
    BY <1>2, <1>3
  <2>3. \A n : IsFirst(P, g, n) <=> IsFirst(O, g, n)
    BY <2>1 DEF IsFirst
  <2>4. Holds(P, g) <=> Holds(O, g)
    BY <2>1 DEF Holds
  <2>5. Single(P, g) <=> Single(O, g)
    BY <2>1 DEF Single
  <2>6. Ahead(O, g) => Ahead(P, g)
    BY <2>1, <2>2 DEF Ahead
  <2> QED
    BY <2>1, <2>3, <2>4, <2>5, <2>6
<1>5. IsFirst(P, f, s)
  BY <1>2, <1>3 DEF IsFirst
<1>6. Ahead(P, f)
  <2>1. ASSUME NEW m \in Indices, P[m] = NULL PROVE s < m
    <3>1. m # s /\ O[m] = NULL /\ s <= m
      BY <1>2, <1>3, <2>1
    <3> QED
      BY <1>3, <3>1
  <2> QED
    BY <1>2, <2>1 DEF Ahead
<1>7. O[s] = f => P = O
  BY <1>2
<1>8. ASSUME O[s] = NULL PROVE ~Ahead(O, f)
  <2> SUFFICES ASSUME NEW n \in Indices, O[n] = f, n < s PROVE FALSE
    BY <1>8 DEF Ahead
  <2>1. s <= n
    OBVIOUS
  <2> QED
    BY <1>3, <2>1
<1>9. Holds(O, f) /\ Single(P, f) => P = O
  <2> SUFFICES ASSUME NEW n \in Indices, O[n] = f, Single(P, f) PROVE P = O
    BY DEF Holds
  <2>1. P[n] = f
    BY <1>2
  <2>2. n = s
    BY <1>2, <2>1 DEF Single
  <2> QED
    BY <1>7, <2>2
<1>10. f \notin t /\ Holds(O, f) => P = O
  BY <1>7, <1>8 DEF Entries
<1>11. Entries(P, t, ph)
  <2> SUFFICES ASSUME NEW g \in Funcs
               PROVE  /\ Holds(P, g) /\ (g \notin t \/ ~Sorted(ph)) => Ahead(P, g)
                      /\ ~Ahead(P, g) \/ g \notin t \/ g \notin Late \/ ~Sorted(ph) => Single(P, g)
                      /\ \A n, m, k \in Indices :
                            P[n] = g /\ P[m] = g /\ P[k] = g => n = m \/ m = k \/ n = k
    BY DEF Entries
  <2>1. CASE g # f
    <3>1. /\ \A n \in Indices : P[n] = g <=> O[n] = g
          /\ Holds(P, g) <=> Holds(O, g)
          /\ Single(P, g) <=> Single(O, g)
          /\ Ahead(O, g) => Ahead(P, g)
      BY <1>4, <2>1
    <3> QED
      BY <3>1 DEF Entries
  <2>2. CASE g = f /\ O[s] = f
    <3>1. P = O
      BY <1>7, <2>2
    <3>2. Entries(P, t, ph)
      BY <3>1
    <3> QED
      BY <3>2 DEF Entries
  <2>3. CASE g = f /\ O[s] = NULL
    <3>1. ~Ahead(O, f) /\ Single(O, f)
      BY <1>8, <2>3 DEF Entries
    <3>2. f \notin t \/ ~Sorted(ph) => ~Holds(O, f)
      BY <3>1 DEF Entries
    <3>3. f \in Late \/ ~Sorted(ph)
      OBVIOUS
    <3>4. f \notin t \/ f \notin Late \/ ~Sorted(ph) => Single(P, f)
      <4> SUFFICES ASSUME ~Holds(O, f) PROVE Single(P, f)
        BY <3>2, <3>3
      <4>1. \A n \in Indices : P[n] = f => n = s
        BY <1>2 DEF Holds
      <4> QED
        BY <4>1 DEF Single
    <3>5. \A n, m \in Indices : P[n] = f /\ P[m] = f => n = s \/ m = s \/ n = m
      BY <1>2, <3>1 DEF Single
    <3> QED
      BY <1>6, <2>3, <3>4, <3>5
  <2> QED
    BY <2>1, <2>2, <2>3
<1> QED
  BY <1>4, <1>5, <1>9, <1>10, <1>11 DEF P

(* A torn reading asks less of the table. *)
LEMMA MoreTorn ==
    ASSUME NEW O, NEW t, NEW u, t \subseteq u, NEW ph, Entries(O, t, ph)
    PROVE  Entries(O, u, ph)
BY DEF Entries

(* Entries in descending order descend over any distance. *)
LEMMA Descending ==
    ASSUME NEW T \in [Indices -> Nat],
           \A n \in Indices \ {0} : T[n - 1] >= T[n]
    PROVE  \A n, m \in Indices : n <= m => T[n] >= T[m]
<1> SUFFICES ASSUME NEW n \in Indices, NEW m0 \in Indices, n <= m0, ~(T[n] >= T[m0]) PROVE FALSE
  OBVIOUS
<1> DEFINE S == {m \in Indices : n <= m /\ ~(T[n] >= T[m])}
<1>1. S \subseteq Nat /\ S # {} /\ Indices \subseteq Nat
  <2>1. Indices \subseteq Nat
    BY Sizes
  <2>2. m0 \in S /\ S \subseteq Indices
    OBVIOUS
  <2> QED
    BY <2>1, <2>2
<1>2. PICK m \in S : \A k \in S : m <= k
  <2> HIDE DEF S
  <2> QED
    BY <1>1, Smallest
<1>3. m \in Indices /\ n <= m /\ T[n] < T[m] /\ T[n] \in Nat /\ T[m] \in Nat
  BY <1>2
<1>4. m # n
  BY <1>3
<1>5. m - 1 \in Indices /\ n <= m - 1 /\ m # 0 /\ m - 1 < m
  BY <1>3, <1>4, Sizes
<1>6. m - 1 \notin S
  BY <1>1, <1>2, <1>5
<1>7. T[n] >= T[m - 1] /\ T[m - 1] >= T[m] /\ T[m - 1] \in Nat
  BY <1>3, <1>5, <1>6
<1> QED
  BY <1>3, <1>7

(* The table as qsort leaves it. *)
Arranged(O, p) == [n \in Indices |-> O[p[n]]]

(* qsort puts every entry whose total is not zero before the free ones. *)
LEMMA SortEntries ==
    ASSUME NEW O \in [Indices -> Funcs \cup {NULL}], NEW t, NEW ph, ~Sorted(ph), Entries(O, t, ph),
           NEW T \in [Indices -> Nat], \A n \in Indices : O[n] = NULL => T[n] = 0,
           \A n \in Indices : O[n] \in Funcs \ t => T[n] > 0,
           NEW p \in Orders,
           \A n \in Indices \ {0} : T[p[n - 1]] >= T[p[n]]
    PROVE  /\ Entries(Arranged(O, p), t, "rows")
           /\ \A f \in Funcs : Holds(Arranged(O, p), f) <=> Holds(O, f)
           /\ \A f \in Funcs : \A n \in Indices : IsFirst(Arranged(O, p), f, n) => IsFirst(O, f, p[n])
           /\ \A f \in Funcs : Single(Arranged(O, p), f) /\ Single(O, f)
<1>1. /\ p \in [Indices -> Indices]
      /\ \A n, m \in Indices : p[n] = p[m] => n = m
      /\ \A m \in Indices : \E n \in Indices : p[n] = m
  BY DEF Orders, Bijection, Injection, IsInjective, Surjection
<1> DEFINE P == Arranged(O, p)
<1>2. \A n \in Indices : P[n] = O[p[n]]
  BY DEF Arranged
<1> HIDE DEF P
<1>3. \A f \in Funcs : Holds(P, f) <=> Holds(O, f)
  BY <1>1, <1>2 DEF Holds
<1>4. \A f \in Funcs : Single(O, f)
  BY DEF Entries
<1>5. \A f \in Funcs : Single(P, f)
  BY <1>1, <1>2, <1>4 DEF Single
<1>6. \A f \in Funcs : \A n \in Indices : IsFirst(P, f, n) => IsFirst(O, f, p[n])
  <2> SUFFICES ASSUME NEW f \in Funcs, NEW n \in Indices, IsFirst(P, f, n) PROVE IsFirst(O, f, p[n])
    OBVIOUS
  <2>1. p[n] \in Indices /\ O[p[n]] = f /\ p[n] \in Nat
    <3>1. P[n] = f
      BY DEF IsFirst
    <3>2. p[n] \in Indices /\ Indices \subseteq Nat
      BY <1>1, Sizes
    <3> QED
      BY <1>2, <3>1, <3>2
  <2>2. ASSUME NEW m \in Indices, O[m] = f PROVE m = p[n]
    <3>1. Single(O, f)
      BY <1>4
    <3> QED
      BY <2>1, <2>2, <3>1 DEF Single
  <2> QED
    BY <2>1, <2>2 DEF IsFirst
<1>7. ASSUME NEW f \in Funcs \ t, Holds(P, f) PROVE Ahead(P, f)
  <2>1. PICK n \in Indices : P[n] = f
    BY <1>7 DEF Holds
  <2> DEFINE U == [k \in Indices |-> T[p[k]]]
  <2>2. U \in [Indices -> Nat] /\ \A k \in Indices \ {0} : U[k - 1] >= U[k]
    <3>1. \A k \in Indices \ {0} : k - 1 \in Indices
      BY Sizes
    <3> QED
      BY <1>1, <3>1
  <2>3. \A k, m \in Indices : k <= m => U[k] >= U[m]
    <3> HIDE DEF U
    <3> QED
      BY <2>2, Descending
  <2>4. U[n] > 0
    BY <1>1, <1>2, <2>1
  <2>5. ASSUME NEW m \in Indices, P[m] = NULL PROVE n < m
    <3>1. U[m] = 0
      BY <1>1, <1>2, <2>5
    <3>2. ~(m <= n)
      <4> HIDE DEF U
      <4> QED
        BY <2>2, <2>3, <2>4, <3>1
    <3> QED
      BY <3>2, Sizes
  <2> QED
    BY <2>1, <2>5 DEF Ahead
<1>8. Entries(P, t, "rows")
  <2>1. ASSUME NEW f \in Funcs, NEW n \in Indices, NEW m \in Indices, P[n] = f, P[m] = f
        PROVE  n = m
    BY <1>5, <2>1 DEF Single
  <2> QED
    BY <1>5, <1>7, <2>1 DEF Entries, Sorted
<1> QED
  BY <1>3, <1>5, <1>4, <1>6, <1>8 DEF P

(* What the hooks and the table hold. *)
Steps == {"none", "enter", "enter_low", "enter_high", "exit_low", "exit_high"}
Hooks == [step : Steps, at : Indices, low : 0..(LowSize - 1)]
Counts == 0..(Size - 1)
TableEntries == [func : Funcs \cup {NULL}, total : Counts, current : Counts]
Tables == [Indices -> TableEntries]
OwnersIn(T) == [n \in Indices |-> T[n].func]
TotalsIn(T) == [n \in Indices |-> T[n].total]
CurrentsIn(T) == [n \in Indices |-> T[n].current]

(* The instruction before, and the time between two, when the counter wraps. *)
Pred(c) == IF c = 0 THEN Size - 1 ELSE c - 1
Gap(c, e) == IF c >= e THEN c - e ELSE c - e + Size

(* The three columns of the table. *)
LEMMA TableLaw ==
    ASSUME NEW T \in Tables
    PROVE  /\ OwnersIn(T) \in [Indices -> Funcs \cup {NULL}]
           /\ TotalsIn(T) \in [Indices -> Counts]
           /\ CurrentsIn(T) \in [Indices -> Counts]
BY DEF Tables, TableEntries, OwnersIn, TotalsIn, CurrentsIn

FuncPut(T, s, f) == [T EXCEPT ![s].func = f]
(* What the enter hook writes first. *)
LEMMA PutFunc ==
    ASSUME NEW T \in Tables, NEW s \in Indices, NEW f \in Funcs
    PROVE  /\ FuncPut(T, s, f) \in Tables /\ OwnersIn(FuncPut(T, s, f)) = [OwnersIn(T) EXCEPT ![s] = f]
           /\ TotalsIn(FuncPut(T, s, f)) = TotalsIn(T) /\ CurrentsIn(FuncPut(T, s, f)) = CurrentsIn(T)
<1> DEFINE U == FuncPut(T, s, f)
<1>1. U = [T EXCEPT ![s].func = f]
  BY DEF FuncPut
<1> HIDE DEF U
<1> USE <1>1
<1>2. U = [n \in Indices |-> IF n = s THEN [T[n] EXCEPT !.func = f] ELSE T[n]]
  BY DEF Tables
<1>3. \A n \in Indices : T[n] \in TableEntries
  BY DEF Tables
<1>4. \A e \in TableEntries : /\ [e EXCEPT !.func = f] \in TableEntries
                              /\ [e EXCEPT !.func = f].func = f
                              /\ [e EXCEPT !.func = f].total = e.total
                              /\ [e EXCEPT !.func = f].current = e.current
  BY DEF TableEntries
<1>5. U \in Tables
  BY <1>2, <1>3, <1>4 DEF Tables
<1>6. \A n \in Indices : /\ U[n].func = IF n = s THEN f ELSE T[n].func
                         /\ U[n].total = T[n].total /\ U[n].current = T[n].current
  BY <1>2, <1>3, <1>4
<1> QED
  BY <1>5, <1>6 DEF OwnersIn, TotalsIn, CurrentsIn, U

CurrentPut(T, s, c) == [T EXCEPT ![s].current = c]
(* What it writes when it has read the clock. *)
LEMMA PutCurrent ==
    ASSUME NEW T \in Tables, NEW s \in Indices, NEW c \in Counts
    PROVE  /\ CurrentPut(T, s, c) \in Tables /\ CurrentsIn(CurrentPut(T, s, c)) = [CurrentsIn(T) EXCEPT ![s] = c]
           /\ TotalsIn(CurrentPut(T, s, c)) = TotalsIn(T) /\ OwnersIn(CurrentPut(T, s, c)) = OwnersIn(T)
<1> DEFINE U == CurrentPut(T, s, c)
<1>1. U = [T EXCEPT ![s].current = c]
  BY DEF CurrentPut
<1> HIDE DEF U
<1> USE <1>1
<1>2. U = [n \in Indices |-> IF n = s THEN [T[n] EXCEPT !.current = c] ELSE T[n]]
  BY DEF Tables
<1>3. \A n \in Indices : T[n] \in TableEntries
  BY DEF Tables
<1>4. \A e \in TableEntries : /\ [e EXCEPT !.current = c] \in TableEntries
                              /\ [e EXCEPT !.current = c].current = c
                              /\ [e EXCEPT !.current = c].total = e.total
                              /\ [e EXCEPT !.current = c].func = e.func
  BY DEF TableEntries
<1>5. U \in Tables
  BY <1>2, <1>3, <1>4 DEF Tables
<1>6. \A n \in Indices : /\ U[n].current = IF n = s THEN c ELSE T[n].current
                         /\ U[n].total = T[n].total /\ U[n].func = T[n].func
  BY <1>2, <1>3, <1>4
<1> QED
  BY <1>5, <1>6 DEF OwnersIn, TotalsIn, CurrentsIn, U

TotalPut(T, s, now) == [T EXCEPT ![s] = Accumulated(@, now)]
(* What the exit hook writes. *)
LEMMA PutTotal ==
    ASSUME NEW T \in Tables, NEW s \in Indices, NEW now \in Counts
    PROVE  LET c == (TotalsIn(T)[s] + now - CurrentsIn(T)[s] + Size) % Size
           IN  /\ TotalPut(T, s, now) \in Tables /\ TotalsIn(TotalPut(T, s, now)) = [TotalsIn(T) EXCEPT ![s] = c]
               /\ CurrentsIn(TotalPut(T, s, now)) = CurrentsIn(T) /\ OwnersIn(TotalPut(T, s, now)) = OwnersIn(T)
<1> DEFINE U == TotalPut(T, s, now)
<1>1. U = [T EXCEPT ![s] = Accumulated(@, now)]
  BY DEF TotalPut
<1> HIDE DEF U
<1> USE <1>1
<1> DEFINE c == (TotalsIn(T)[s] + now - CurrentsIn(T)[s] + Size) % Size
<1>2. T[s] \in TableEntries /\ \A n \in Indices : T[n] \in TableEntries
  BY DEF Tables
<1>3. c = (T[s].total + now - T[s].current + Size) % Size
  BY DEF TotalsIn, CurrentsIn
<1>4. c \in Counts
  <2>1. T[s].total + now - T[s].current + Size \in Int
    BY <1>2, Sizes DEF TableEntries, Counts
  <2> DEFINE m == T[s].total + now - T[s].current + Size
  <2> HIDE DEF m
  <2>2. m \in Int
    BY <2>1 DEF m
  <2>3. m % Size \in 0..(Size - 1)
    BY <2>2, Sizes
  <2> QED
    BY <1>3, <2>3 DEF m, Counts
<1> HIDE DEF c
<1>5. U = [n \in Indices |-> IF n = s THEN [T[n] EXCEPT !.total = c] ELSE T[n]]
  <2>1. Accumulated(T[s], now) = [T[s] EXCEPT !.total = c]
    BY <1>2, <1>3 DEF Accumulated
  <2> QED
    BY <2>1 DEF Tables
<1>6. \A e \in TableEntries : /\ [e EXCEPT !.total = c] \in TableEntries
                              /\ [e EXCEPT !.total = c].total = c
                              /\ [e EXCEPT !.total = c].current = e.current
                              /\ [e EXCEPT !.total = c].func = e.func
  BY <1>4 DEF TableEntries
<1>7. U \in Tables
  BY <1>2, <1>5, <1>6 DEF Tables
<1>8. \A n \in Indices : /\ U[n].total = IF n = s THEN c ELSE T[n].total
                         /\ U[n].current = T[n].current /\ U[n].func = T[n].func
  <2> SUFFICES ASSUME NEW n \in Indices
               PROVE  /\ U[n].total = IF n = s THEN c ELSE T[n].total
                      /\ U[n].current = T[n].current /\ U[n].func = T[n].func
    OBVIOUS
  <2>1. CASE n = s
    <3>1. U[n] = [T[n] EXCEPT !.total = c] /\ T[n] \in TableEntries
      BY <1>2, <1>5, <2>1
    <3> QED
      BY <1>6, <2>1, <3>1
  <2>2. CASE n # s
    BY <1>5, <2>2
  <2> QED
    BY <2>1, <2>2
<1>9. TotalsIn(U) = [TotalsIn(T) EXCEPT ![s] = c]
  BY <1>8 DEF TotalsIn
<1>10. CurrentsIn(U) = CurrentsIn(T) /\ OwnersIn(U) = OwnersIn(T)
  BY <1>8 DEF OwnersIn, CurrentsIn
<1> QED
  BY <1>7, <1>9, <1>10 DEF c, U

StepTo(h, st) == [h EXCEPT !.step = st]
StepAt(h, st, n) == [h EXCEPT !.step = st, !.at = n]
StepLow(h, st, l) == [h EXCEPT !.step = st, !.low = l]
(* What a hook that runs remembers. *)
LEMMA HookType ==
    /\ NoHook \in Hooks /\ NoHook.step = "none"
    /\ \A h \in Hooks : h.step \in Steps /\ h.at \in Indices /\ h.low \in 0..(LowSize - 1)
<1>1. 0 \in Indices /\ 0 \in 0..(LowSize - 1)
  BY Sizes
<1> QED
  BY <1>1 DEF Hooks, NoHook, Steps

(* It goes to a step, *)
LEMMA HookTo ==
    ASSUME NEW h \in Hooks, NEW st \in Steps
    PROVE  /\ StepTo(h, st) \in Hooks
           /\ StepTo(h, st).step = st /\ StepTo(h, st).at = h.at /\ StepTo(h, st).low = h.low
BY DEF Hooks, StepTo

(* with an entry it has found *)
LEMMA HookAt ==
    ASSUME NEW h \in Hooks, NEW st \in Steps, NEW n \in Indices
    PROVE  /\ StepAt(h, st, n) \in Hooks
           /\ StepAt(h, st, n).step = st /\ StepAt(h, st, n).at = n /\ StepAt(h, st, n).low = h.low
BY DEF Hooks, StepAt

(* or with the half it has read. *)
LEMMA HookLow ==
    ASSUME NEW h \in Hooks, NEW st \in Steps, NEW l \in 0..(LowSize - 1)
    PROVE  /\ StepLow(h, st, l) \in Hooks
           /\ StepLow(h, st, l).step = st /\ StepLow(h, st, l).at = h.at
           /\ StepLow(h, st, l).low = l
BY DEF Hooks, StepLow

(* What fits does not wrap. *)
LEMMA ModSmall ==
    ASSUME NEW L \in Nat \ {0}, NEW m \in 0..(L - 1)
    PROVE  m % L = m /\ (m + L) % L = m
<1>1. (0 * L + m) % L = m /\ (1 * L + m) % L = m
  BY DivisionUnique
<1>2. 0 * L + m = m /\ 1 * L + m = m + L
  OBVIOUS
<1> QED
  BY <1>1, <1>2

(* The counter one instruction later. *)
LEMMA TickLaw ==
    ASSUME NEW c \in Counts, NEW d, d = (c + 1) % Size
    PROVE  /\ d \in Counts /\ Pred(d) = c /\ Same(d, c + 1)
           /\ \A e \in Counts : /\ Gap(c, e) \in Counts
                                /\ Gap(c, e) + 1 < Size => Gap(d, e) = Gap(c, e) + 1
           /\ Gap(d, Pred(c)) = 2 /\ Pred(c) \in Counts
<1>1. Size \in Nat /\ Size > 2
  BY Sizes
<1>2. d = IF c = Size - 1 THEN 0 ELSE c + 1
  <2>1. CASE c = Size - 1
    <3>1. (0 + Size) % Size = 0 /\ c + 1 = 0 + Size
      BY <1>1, <2>1, ModSmall
    <3> QED
      BY <2>1, <3>1
  <2>2. CASE c # Size - 1
    <3>1. c + 1 \in 0..(Size - 1)
      BY <1>1, <2>2 DEF Counts
    <3>2. (c + 1) % Size = c + 1
      BY <1>1, <3>1, ModSmall
    <3> QED
      BY <2>2, <3>2
  <2> QED
    BY <2>1, <2>2
<1>3. Same(d, c + 1)
  BY SameLaws DEF Counts
<1> QED
  BY <1>1, <1>2, <1>3 DEF Counts, Pred, Gap

(* Two halves make the time of the first reading, unless it was about to carry. *)
LEMMA ReadTime ==
    ASSUME NEW c \in Counts, NEW l \in 0..(LowSize - 1)
    PROVE  /\ Now(l, c \div LowSize) \in Counts
           /\ Same(Now(l, c \div LowSize), l)
           /\ l = Pred(c) % LowSize /\ l # LowSize - 1 => Now(l, c \div LowSize) = Pred(c)
<1>1. /\ LowSize \in Nat \ {0} /\ HighSize \in Nat \ {0} /\ Size \in Nat \ {0}
      /\ Size = LowSize * HighSize
  BY Sizes DEF Size
<1> DEFINE h == c \div LowSize
           e == c % LowSize
<1>2. h \in Int /\ e \in 0..(LowSize - 1) /\ c = LowSize * h + e
  BY <1>1 DEF Counts
<1>3. h >= 0 /\ h <= HighSize - 1
  <2> HIDE DEF h, e
  <2>1. CASE h <= -1
    <3>1. LowSize * h <= -LowSize
      BY <1>1, <1>2, <2>1
    <3> QED
      BY <1>1, <1>2, <3>1 DEF Counts
  <2>2. CASE h >= HighSize
    <3>1. LowSize * h >= LowSize * HighSize
      BY <1>1, <1>2, <2>2
    <3> QED
      BY <1>1, <1>2, <3>1 DEF Counts
  <2> QED
    BY <1>1, <1>2, <2>1, <2>2
<1>4. Now(l, h) = l + LowSize * h
  <2> HIDE DEF h
  <2> QED
    BY <1>1, <1>2 DEF Now
<1>5. Now(l, h) \in Counts
  <2> HIDE DEF h, e
  <2>1. LowSize * h >= 0 /\ LowSize * h + LowSize <= LowSize * HighSize /\ LowSize * h \in Int
    <3>1. LowSize * (h + 1) <= LowSize * HighSize /\ LowSize * (h + 1) = LowSize * h + LowSize
      BY <1>1, <1>2, <1>3
    <3>2. LowSize * h >= 0 /\ LowSize * h \in Int
      BY <1>1, <1>2, <1>3
    <3> QED
      BY <3>1, <3>2
  <2> QED
    BY <1>1, <1>4, <2>1 DEF Counts
<1>6. Same(Now(l, h), l)
  <2> HIDE DEF h
  <2> QED
    BY <1>2, SameLaws
<1>7. ASSUME l = Pred(c) % LowSize, l # LowSize - 1 PROVE Now(l, h) = Pred(c)
  <2>1. Pred(c) \in Counts
    BY <1>1 DEF Pred, Counts
  <2> DEFINE q == Pred(c) \div LowSize
  <2>2. q \in Int /\ Pred(c) = LowSize * q + l
    <3> DEFINE m == Pred(c)
    <3>1. m \in Int /\ l = m % LowSize
      BY <1>7, <2>1 DEF Counts
    <3> HIDE DEF m
    <3>2. m \div LowSize \in Int /\ m = LowSize * (m \div LowSize) + (m % LowSize)
      BY <1>1, <3>1
    <3> QED
      BY <3>1, <3>2 DEF m
  <2> HIDE DEF q
  <2>3. c # 0
    <3> SUFFICES ASSUME c = 0 PROVE FALSE
      OBVIOUS
    <3>1. Size - 1 = (HighSize - 1) * LowSize + (LowSize - 1)
      BY <1>1
    <3>2. (Size - 1) % LowSize = LowSize - 1
      BY <1>1, <3>1, DivisionUnique
    <3> QED
      BY <1>7, <3>2 DEF Pred
  <2>4. c = q * LowSize + (l + 1) /\ l + 1 \in 0..(LowSize - 1)
    <3>1. c - 1 = LowSize * q + l /\ LowSize * q = q * LowSize /\ LowSize * q \in Int
      BY <1>1, <2>2, <2>3 DEF Pred
    <3> QED
      BY <1>1, <1>7, <3>1 DEF Counts
  <2>5. h = q
    BY <1>1, <2>2, <2>4, DivisionUnique
  <2> HIDE DEF h
  <2>6. Now(l, h) = l + LowSize * q
    BY <1>4, <2>5
  <2>7. LowSize * q \in Int
    BY <1>1, <2>2
  <2> QED
    BY <2>2, <2>6, <2>7
<1> QED
  BY <1>5, <1>6, <1>7

(* The state by the columns of the table. *)
Step == hook.step
Active == Last(stack)
Depth == Len(stack)
Owner == OwnersIn(table)
Totals == TotalsIn(table)
Currents == CurrentsIn(table)

ProfilerType ==
    /\ counter \in Counts
    /\ table \in Tables
    /\ stack \in Seq(Funcs)
    /\ hook \in Hooks
    /\ phase \in {"reset", "started", "greeted", "named"} \/ Wiped(phase)
    /\ row \in 0..MAX_FUNCTIONS
    /\ calls \in 0..MaxCalls /\ work \in 0..MaxWork
    /\ timed \subseteq Funcs /\ torn \subseteq Funcs
    /\ spent \in [Funcs -> Nat]
    /\ \A n \in Indices : Owner[n] = NULL => Totals[n] = 0

(* main is below all others, and alone where the code says so. *)
Stacked ==
    /\ \A i \in 1..Depth : stack[i] = Main <=> i = 1
    /\ \A i, j \in 1..Depth : stack[i] = stack[j] => i = j
    /\ Depth = 0 <=> phase = "reset"
    /\ phase = "named" => Depth = 1
    /\ Depth = 0 => Step = "none"
    /\ Depth = 1 /\ phase # "started" => Step = "none"
    /\ Step \in {"exit_low", "exit_high"} => Depth > 1
    /\ Sorted(phase) => \A i \in 2..Depth : stack[i] \in Late

(* What is timed runs, and has not left through the first reading of its exit. *)
Untimed == {"enter", "enter_low", "exit_high"}
Timing ==
    /\ \A f \in timed : \E i \in 1..Depth : stack[i] = f /\ (i = Depth => Step \notin Untimed)
    /\ \A i \in 2..Depth : i < Depth \/ Step \notin Untimed => stack[i] \in timed
    /\ Step = "enter_high" => Active \in timed

(* What is timed has its entry. *)
Entered ==
    /\ \A f \in timed : Holds(Owner, f)
    /\ Step \in {"enter_low", "enter_high"} => IsFirst(Owner, Active, hook.at)
    /\ Step = "exit_high" => Holds(Owner, Active)
    /\ Wiped(phase) => ~Holds(Owner, Main)

(* The half that was read is that of the instruction before. *)
Readings ==
    Step \in {"enter_high", "exit_high"} =>
        /\ hook.low = Pred(counter) % LowSize
        /\ Active \notin torn => hook.low # LowSize - 1

(* What the total of a running function lacks, when no reading is torn, *)
Elapsed(f, n) ==
    IF f = Active /\ Step = "enter_high" THEN 1
    ELSE IF f = Active /\ Step = "exit_high" THEN Gap(Pred(counter), Currents[n])
    ELSE IF f \in timed THEN Gap(counter, Currents[n]) ELSE 0
(* and by its low half. *)
Differs(f, n) ==
    IF f = Active /\ Step = "enter_high" THEN 1
    ELSE IF f = Active /\ Step = "exit_high" THEN hook.low - Currents[n]
    ELSE IF f \in timed THEN counter - Currents[n] ELSE 0

(* A total and what it lacks are what was spent. *)
SumOf(f) ==
    /\ ~Holds(Owner, f) => spent[f] = 0
    /\ \A n \in Indices : IsFirst(Owner, f, n) =>
         /\ f \notin torn => spent[f] = Totals[n] + Elapsed(f, n)
         /\ Single(Owner, f) => Same(spent[f], Totals[n] + Differs(f, n))
    /\ Holds(Owner, f) /\ ~(f = Active /\ Step = "enter_low") => spent[f] > 0
Sums == \A f \in Funcs : SumOf(f)

(* The calls that main has made. *)
MainCallsTo(ph) ==
    CASE ph = "reset" -> 0
      [] ph = "started" -> 1
      [] ph \in {"greeted", "named", "wiped"} -> 2
      [] ph = "measured" -> 3
      [] ph \in {"unsorted", "rows"} -> 4
      [] OTHER -> 5
(* The instructions of its own that a hook has yet to make. *)
Owed(s) ==
    CASE s \in {"enter", "enter_low"} -> 2
      [] s = "enter_high" -> 1
      [] s = "exit_high" -> -1
      [] OTHER -> 0
(* Each call has two hooks, and each of them two readings. *)
Bounded ==
    \A f \in Funcs :
       spent[f] + 2 * Depth + Owed(Step) <= work + 4 * (calls + 2 * row + MainCallsTo(phase))

(* The report is the table up to its row, which is printed before it is left. *)
Rows ==
    /\ phase \notin {"reset", "started", "greeted"} => mapping = [f \in Named |-> f]
    /\ \E S : printed \in Seq(S)
    /\ Len(printed) = IF phase = "line" THEN row + 1 ELSE row
    /\ Len(printed) <= MAX_FUNCTIONS
    /\ ~Sorted(phase) => row = 0
    /\ \A k \in 1..Len(printed) :
          /\ Owner[k - 1] # NULL
          /\ printed[k].func = Owner[k - 1]
          /\ printed[k].name = IF Owner[k - 1] \in Named THEN Owner[k - 1] ELSE "NULL"

ProfilerInv ==
    /\ ProfilerType /\ Stacked /\ Timing /\ Entered /\ Readings /\ Sums /\ Bounded /\ Rows
    /\ Entries(Owner, torn, phase)
    /\ stray = FALSE

(* The scan of a hook. *)
LEMMA FirstWithLaw ==
    ASSUME NEW fs
    PROVE  \/ FirstWith(fs) = -1 /\ \A n \in Indices : Owner[n] \notin fs
           \/ /\ FirstWith(fs) \in Indices /\ Owner[FirstWith(fs)] \in fs
              /\ \A m \in Indices : Owner[m] \in fs => FirstWith(fs) <= m
              /\ FirstWith(fs) # -1
<1> DEFINE found == {n \in Indices : table[n].func \in fs}
<1>1. FirstWith(fs) = IF found = {} THEN -1
                      ELSE CHOOSE n \in found : \A m \in found : n <= m
  BY DEF FirstWith
<1>2. \A n \in Indices : Owner[n] = table[n].func
  BY DEF Owner, OwnersIn
<1>3. CASE found = {}
  BY <1>1, <1>2, <1>3
<1>4. CASE found # {}
  <2> DEFINE w == CHOOSE n \in found : \A m \in found : n <= m
  <2>1. \E n \in found : \A m \in found : n <= m
    <3>1. found \subseteq Nat
      BY Sizes
    <3> HIDE DEF found
    <3> QED
      BY <1>4, <3>1, Smallest
  <2>2. w \in found /\ \A m \in found : w <= m
    <3> HIDE DEF found
    <3> QED
      BY <2>1
  <2>3. FirstWith(fs) = w
    BY <1>1, <1>4
  <2> HIDE DEF w
  <2>4. w \in Indices /\ Owner[w] \in fs /\ \A m \in Indices : Owner[m] \in fs => w <= m
    BY <1>2, <2>2
  <2>5. w # -1
    BY <2>4, Sizes
  <2> QED
    BY <2>3, <2>4, <2>5
<1> QED
  BY <1>3, <1>4

(* No total wraps: there are not that many instructions. *)
LEMMA FewSpent ==
    ASSUME ProfilerInv PROVE \A f \in Funcs : spent[f] + 1 < Size
<1> SUFFICES ASSUME NEW f \in Funcs PROVE spent[f] + 1 < Size
  OBVIOUS
<1>1. spent[f] + 2 * Depth + Owed(Step) <= work + 4 * (calls + 2 * row + MainCallsTo(phase))
  BY DEF ProfilerInv, Bounded
<1>2. /\ spent[f] \in Nat /\ work \in 0..MaxWork /\ calls \in 0..MaxCalls
      /\ row \in 0..MAX_FUNCTIONS /\ Depth \in Nat
  BY DEF ProfilerInv, ProfilerType, Depth
<1>3. MainCallsTo(phase) \in 0..5 /\ (phase = "reset" => MainCallsTo(phase) = 0)
  BY DEF MainCallsTo
<1>4. Owed(Step) \in Int /\ (2 * Depth + Owed(Step) >= 1 \/ MainCallsTo(phase) = 0)
      /\ 2 * Depth + Owed(Step) >= 0
  <2>1. Owed(Step) \in {-1, 0, 1, 2} /\ (Owed(Step) = -1 => Step = "exit_high")
    BY DEF Owed
  <2>2. (Step = "exit_high" => Depth > 1) /\ (Depth = 0 => phase = "reset")
    BY DEF ProfilerInv, Stacked
  <2> QED
    BY <1>2, <1>3, <2>1, <2>2
<1>5. MaxWork + 4 * (MaxCalls + 2 * MAX_FUNCTIONS + 5) < Size /\ MaxWork \in Nat /\ MaxCalls \in Nat
      /\ MAX_FUNCTIONS \in Nat /\ Size \in Nat
  BY Sizes
<1> QED
  BY <1>1, <1>2, <1>3, <1>4, <1>5

(* The function on top of the stack. *)
LEMMA ActiveLaw ==
    ASSUME ProfilerInv
    PROVE  /\ Depth \in Nat
           /\ Depth > 0 => Active = stack[Depth] /\ Active \in Funcs
           /\ Depth > 0 /\ Step \in Untimed => Active \notin timed
           /\ Depth > 1 => Active # Main
           /\ Depth > 1 /\ Step \notin Untimed => Active \in timed
           /\ Step # "none" => Depth > 0
           /\ Sorted(phase) /\ Depth > 1 => Active \in Late
           /\ Sorted(phase) /\ Step # "none" => Depth > 1
           /\ Step \in Steps
<1>1. stack \in Seq(Funcs) /\ hook \in Hooks
  BY DEF ProfilerInv, ProfilerType
<1>2. Depth \in Nat /\ (Depth > 0 => Active = stack[Depth] /\ Active \in Funcs)
  BY <1>1 DEF Depth, Active, Last
<1>3. Depth > 0 /\ Step \in Untimed => Active \notin timed
  <2> SUFFICES ASSUME Depth > 0, Step \in Untimed, Active \in timed PROVE FALSE
    OBVIOUS
  <2>1. PICK i \in 1..Depth : stack[i] = Active /\ (i = Depth => Step \notin Untimed)
    BY DEF ProfilerInv, Timing
  <2>2. i # Depth /\ Depth \in 1..Depth /\ stack[i] = stack[Depth]
    BY <1>2, <2>1
  <2> QED
    BY <2>2 DEF ProfilerInv, Stacked
<1>4. Depth > 1 => Active # Main
  BY <1>2 DEF ProfilerInv, Stacked
<1>5. Depth > 1 /\ Step \notin Untimed => Active \in timed
  BY <1>2 DEF ProfilerInv, Timing
<1>6. Step # "none" => Depth > 0
  BY <1>2 DEF ProfilerInv, Stacked
<1>7. Sorted(phase) /\ Depth > 1 => Active \in Late
  BY <1>2 DEF ProfilerInv, Stacked
<1>8. Sorted(phase) /\ Step # "none" => Depth > 1
  BY <1>2, <1>6 DEF ProfilerInv, Stacked, Sorted
<1>9. Step \in Steps
  BY <1>1, HookType DEF Step
<1> QED
  BY <1>2, <1>3, <1>4, <1>5, <1>6, <1>7, <1>8, <1>9

(* What a step does to the stack. *)
LEMMA Pushed ==
    ASSUME NEW s \in Seq(Funcs), NEW f \in Funcs
    PROVE  /\ Append(s, f) \in Seq(Funcs) /\ Len(Append(s, f)) = Len(s) + 1
           /\ Last(Append(s, f)) = f /\ Append(s, f)[Len(s) + 1] = f
           /\ \A i \in 1..Len(s) : Append(s, f)[i] = s[i]
<1>1. /\ Append(s, f) \in Seq(Funcs) /\ Len(Append(s, f)) = Len(s) + 1
      /\ Append(s, f)[Len(s) + 1] = f
      /\ \A i \in 1..Len(s) : Append(s, f)[i] = s[i]
  OBVIOUS
<1> QED
  BY <1>1 DEF Last

LEMMA Popped ==
    ASSUME NEW s \in Seq(Funcs), Len(s) > 0
    PROVE  /\ Front(s) \in Seq(Funcs) /\ Len(Front(s)) = Len(s) - 1
           /\ \A i \in 1..(Len(s) - 1) : Front(s)[i] = s[i]
<1> DEFINE k == Len(s) - 1
<1>1. Front(s) = SubSeq(s, 1, k) /\ k \in Nat
  BY DEF Front
<1>2. k \in Int /\ \A i \in 1..k : s[i] \in Funcs
  OBVIOUS
<1> HIDE DEF k
<1>3. /\ SubSeq(s, 1, k) \in Seq(Funcs)
      /\ Len(SubSeq(s, 1, k)) = IF 1 <= k THEN k - 1 + 1 ELSE 0
      /\ \A i \in 1..(k - 1 + 1) : SubSeq(s, 1, k)[i] = s[1 + i - 1]
  BY <1>2, SubSeqProperties
<1>4. Len(SubSeq(s, 1, k)) = k /\ \A i \in 1..k : SubSeq(s, 1, k)[i] = s[i]
  BY <1>1, <1>3
<1> QED
  BY <1>1, <1>3, <1>4 DEF k

(* A function is entered: no step that does so touches the table. *)
LEMMA EntersStep ==
    ASSUME ProfilerInv, NEW f \in Funcs, Enter(f),
           UNCHANGED <<counter, table, timed, spent, torn, stray, work>>,
           \A i \in 1..Depth : stack[i] # f,
           f = Main <=> Depth = 0,
           phase' \notin {"reset", "named"}, Depth = 0 => phase' = "started",
           Sorted(phase') <=> Sorted(phase), Sorted(phase) => f \in Late,
           Wiped(phase') => Wiped(phase),
           calls' + 2 * row' + MainCallsTo(phase') = calls + 2 * row + MainCallsTo(phase) + 1
    PROVE  /\ Stacked' /\ Timing' /\ Entered' /\ Readings' /\ Sums' /\ Bounded'
           /\ Entries(Owner, torn, phase)' /\ stray' = FALSE
           /\ counter' \in Counts /\ table' \in Tables /\ stack' \in Seq(Funcs)
           /\ hook' \in Hooks /\ timed' \subseteq Funcs /\ torn' \subseteq Funcs
           /\ spent' \in [Funcs -> Nat]
           /\ (\A n \in Indices : Owner[n] = NULL => Totals[n] = 0)'
           /\ Owner' = Owner
<1>1. /\ stack \in Seq(Funcs) /\ hook = NoHook /\ Step = "none"
      /\ stack' = Append(stack, f) /\ hook' = StepTo(NoHook, "enter")
  BY HookType DEF ProfilerInv, ProfilerType, Enter, Step, StepTo
<1>2. hook' \in Hooks /\ Step' = "enter"
  <2>1. "enter" \in Steps
    BY DEF Steps
  <2> QED
    BY <1>1, <2>1, HookType, HookTo DEF Step
<1>3. /\ Owner' = Owner /\ Totals' = Totals /\ Currents' = Currents
      /\ counter' = counter /\ timed' = timed /\ spent' = spent /\ torn' = torn
  BY DEF Owner, Totals, Currents
<1>4. /\ Depth \in Nat /\ Depth' = Depth + 1 /\ Active' = f /\ stack' \in Seq(Funcs)
      /\ stack'[Depth + 1] = f /\ \A i \in 1..Depth : stack'[i] = stack[i]
  <2>1. /\ stack' \in Seq(Funcs) /\ Len(stack') = Len(stack) + 1 /\ Last(stack') = f
        /\ stack'[Len(stack) + 1] = f /\ \A i \in 1..Len(stack) : stack'[i] = stack[i]
    BY <1>1, Pushed
  <2>2. Len(stack) \in Nat
    BY <1>1
  <2> QED
    BY <2>1, <2>2 DEF Depth, Active
<1>5. Stacked'
  <2>1. \A i \in 1..(Depth + 1) : i = Depth + 1 \/ i \in 1..Depth
    BY <1>4
  <2>2. \A i \in 1..Depth' : stack'[i] = Main <=> i = 1
    BY <1>4, <2>1 DEF ProfilerInv, Stacked
  <2>3. \A i, j \in 1..Depth' : stack'[i] = stack'[j] => i = j
    BY <1>4, <2>1 DEF ProfilerInv, Stacked
  <2>4. Sorted(phase') => \A i \in 2..Depth' : stack'[i] \in Late
    <3>1. \A i \in 2..(Depth + 1) : i = Depth + 1 \/ i \in 2..Depth
      BY <1>4
    <3>2. \A i \in 2..Depth : stack'[i] = stack[i]
      BY <1>4
    <3> QED
      BY <1>4, <3>1, <3>2 DEF ProfilerInv, Stacked
  <2>5. Depth' = 1 /\ phase' # "started" => FALSE
    BY <1>4
  <2> QED
    BY <1>2, <1>4, <2>2, <2>3, <2>4, <2>5 DEF Stacked
<1>6. Timing'
  <2>1. ASSUME NEW g \in timed PROVE \E i \in 1..Depth' : stack'[i] = g /\ i # Depth'
    <3>1. PICK i \in 1..Depth : stack[i] = g
      BY DEF ProfilerInv, Timing
    <3> QED
      BY <1>4, <3>1
  <2>2. \A i \in 2..Depth' : i < Depth' => stack'[i] \in timed
    <3> SUFFICES ASSUME NEW i \in 2..Depth', i < Depth' PROVE stack'[i] \in timed
      OBVIOUS
    <3>1. i \in 2..Depth /\ i \in 1..Depth
      BY <1>4
    <3> QED
      BY <1>1, <1>4, <3>1 DEF ProfilerInv, Timing, Untimed
  <2> QED
    BY <1>2, <1>3, <2>1, <2>2 DEF Timing, Untimed
<1>7. Entered'
  BY <1>2, <1>3 DEF ProfilerInv, Entered
<1>8. Readings'
  BY <1>2 DEF Readings
<1>9. Sums'
  <2> SUFFICES ASSUME NEW g \in Funcs PROVE SumOf(g)'
    BY DEF Sums
  <2>1. \A n : Elapsed(g, n)' = Elapsed(g, n) /\ Differs(g, n)' = Differs(g, n)
    BY <1>1, <1>2, <1>3 DEF Elapsed, Differs
  <2>2. SumOf(g)
    BY DEF ProfilerInv, Sums
  <2> QED
    BY <1>1, <1>2, <1>3, <2>1, <2>2 DEF SumOf
<1>10. Bounded'
  <2> SUFFICES ASSUME NEW g \in Funcs
               PROVE  spent[g] + 2 * Depth' + Owed(Step')
                          <= work + 4 * (calls' + 2 * row' + MainCallsTo(phase'))
    BY <1>3 DEF Bounded
  <2>1. spent[g] + 2 * Depth + Owed(Step) <= work + 4 * (calls + 2 * row + MainCallsTo(phase))
    BY DEF ProfilerInv, Bounded
  <2>2. Owed(Step) = 0 /\ Owed(Step') = 2
    BY <1>1, <1>2 DEF Owed
  <2>3. /\ spent[g] \in Nat /\ work \in Nat /\ calls \in Nat /\ row \in Nat
        /\ MainCallsTo(phase) \in Nat
    BY Sizes DEF ProfilerInv, ProfilerType, MainCallsTo
  <2> DEFINE m == MainCallsTo(phase)
             x == calls + 2 * row + m
             y == calls' + 2 * row' + MainCallsTo(phase')
  <2>4. x \in Nat /\ y = x + 1 /\ Depth' = Depth + 1 /\ Depth \in Nat
    BY <1>4, <2>3
  <2> HIDE DEF m, x, y
  <2>5. spent[g] + 2 * Depth + 0 <= work + 4 * x
    BY <2>1, <2>2 DEF m, x
  <2>6. spent[g] + 2 * Depth' + 2 <= work + 4 * y
    BY <2>3, <2>4, <2>5
  <2> QED
    BY <2>2, <2>6 DEF y
<1>11. Entries(Owner, torn, phase)'
  BY <1>3 DEF ProfilerInv, Entries
<1>12. /\ counter' \in Counts /\ table' \in Tables /\ timed' \subseteq Funcs
       /\ torn' \subseteq Funcs /\ spent' \in [Funcs -> Nat] /\ stray' = FALSE
  BY DEF ProfilerInv, ProfilerType
<1>13. (\A n \in Indices : Owner[n] = NULL => Totals[n] = 0)'
  BY <1>3 DEF ProfilerInv, ProfilerType
<1> QED
  BY <1>2, <1>3, <1>4, <1>5, <1>6, <1>7, <1>8, <1>9, <1>10, <1>11, <1>12, <1>13

(* A row that is printed is one of the table. *)
LEMMA RowLaw ==
    ASSUME ProfilerInv
    PROVE  /\ DOMAIN printed = 1..Len(printed) /\ Len(printed) \in 0..MAX_FUNCTIONS
           /\ \A k \in 1..Len(printed) :
                 /\ k - 1 \in Indices /\ Owner[k - 1] \in Funcs
                 /\ Owner[k - 1] # NULL
                 /\ printed[k].func = Owner[k - 1]
                 /\ printed[k].name = IF Owner[k - 1] \in Named THEN Owner[k - 1] ELSE "NULL"
<1>1. DOMAIN printed = 1..Len(printed) /\ Len(printed) \in Nat
  BY DEF ProfilerInv, Rows
<1>2. Len(printed) \in 0..MAX_FUNCTIONS
  BY <1>1, Sizes DEF ProfilerInv, Rows
<1>3. Owner \in [Indices -> Funcs \cup {NULL}]
  BY TableLaw DEF ProfilerInv, ProfilerType, Owner
<1> SUFFICES ASSUME NEW k \in 1..Len(printed)
             PROVE  /\ k - 1 \in Indices /\ Owner[k - 1] \in Funcs
                    /\ Owner[k - 1] # NULL
                    /\ printed[k].func = Owner[k - 1]
                    /\ printed[k].name = IF Owner[k - 1] \in Named THEN Owner[k - 1] ELSE "NULL"
  BY <1>1, <1>2
<1>4. k - 1 \in Indices
  BY <1>2, Sizes
<1> QED
  BY <1>3, <1>4 DEF ProfilerInv, Rows

(* The enter hook scans the table. *)
LEMMA EnterFindStep == ProfilerInv /\ EnterFind => ProfilerInv'
<1> SUFFICES ASSUME ProfilerInv, EnterFind PROVE ProfilerInv'
  OBVIOUS
<1> DEFINE f == Active
           s == SlotOf(f)
<1>1. /\ Step = "enter"
      /\ UNCHANGED <<counter, mapping, stack, phase, row, printed, calls, work,
                     timed, spent, torn>>
      /\ stray' = (stray \/ s \notin Indices \ {MAX_FUNCTIONS - 1})
  BY DEF EnterFind, Step, Active, ghosts
<1>2. table' = FuncPut(table, s, f)
  BY DEF EnterFind, Active, FuncPut
<1>3. hook' = StepAt(hook, "enter_low", s)
  BY DEF EnterFind, Active, StepAt
<1>4. /\ Depth > 0 /\ f \in Funcs /\ f \notin timed
      /\ Sorted(phase) => Depth > 1 /\ f # Main /\ f \in Late
  BY <1>1, ActiveLaw DEF Untimed
<1>5. /\ table \in Tables /\ hook \in Hooks
      /\ Owner \in [Indices -> Funcs \cup {NULL}]
      /\ Totals \in [Indices -> Counts]
      /\ Entries(Owner, torn, phase)
  BY TableLaw DEF ProfilerInv, ProfilerType, Owner, Totals
<1>6. FirstFor(Owner, f, s) /\ s # MAX_FUNCTIONS - 1
  <2>1. Sorted(phase) => ~Holds(Owner, Main) /\ f # Main
    BY <1>4 DEF ProfilerInv, Entered, Sorted, Wiped
  <2>2. PICK n \in Indices \ {MAX_FUNCTIONS - 1} : Owner[n] \in {f, NULL}
    BY <1>4, <1>5, <2>1, HasRoom
  <2>3. s = FirstWith({f, NULL})
    BY DEF SlotOf
  <2> HIDE DEF s, f
  <2>4. FirstFor(Owner, f, s) /\ s <= n
    BY <2>2, <2>3, FirstWithLaw DEF FirstFor
  <2> QED
    BY <2>2, <2>4, Sizes DEF FirstFor
<1>7. s \in Indices /\ Owner[s] \in {f, NULL} /\ stray' = FALSE
  BY <1>1, <1>6 DEF FirstFor, ProfilerInv
<1> HIDE DEF f, s
<1>8. /\ table' \in Tables /\ Owner' = OwnerPut(Owner, s, f)
      /\ Totals' = Totals /\ Currents' = Currents
  BY <1>2, <1>4, <1>5, <1>7, PutFunc DEF Owner, Totals, Currents, OwnerPut
<1>9. hook' \in Hooks /\ Step' = "enter_low" /\ hook'.at = s
  <2>1. "enter_low" \in Steps
    BY DEF Steps
  <2> QED
    BY <1>3, <1>5, <1>7, <2>1, HookAt DEF Step
<1>10. Depth' = Depth /\ Active' = f /\ f = Active /\ Depth \in Nat
  BY <1>1, ActiveLaw DEF Depth, Active, f
<1>11. /\ Entries(Owner', torn, phase)
       /\ IsFirst(Owner', f, s)
       /\ Holds(Owner, f) /\ Single(Owner', f) => Owner' = Owner
       /\ f \notin torn /\ Holds(Owner, f) => Owner' = Owner
       /\ \A g \in Funcs \ {f} :
             /\ \A n : IsFirst(Owner', g, n) <=> IsFirst(Owner, g, n)
             /\ Holds(Owner', g) <=> Holds(Owner, g)
             /\ Single(Owner', g) <=> Single(Owner, g)
  <2>1. Sorted(phase) => f \in Late
    BY <1>4
  <2> QED
    BY <1>4, <1>5, <1>6, <1>8, <2>1, EnterEntries
<1>12. \A n \in Indices \ {s} : Owner'[n] = Owner[n]
  BY <1>5, <1>8 DEF OwnerPut
<1>13. Owner'[s] = f
  BY <1>5, <1>7, <1>8 DEF OwnerPut
<1>14. ProfilerType'
  <2>1. \A n \in Indices : Owner'[n] = NULL => Totals'[n] = 0
    <3> SUFFICES ASSUME NEW n \in Indices, Owner'[n] = NULL PROVE Totals[n] = 0
      BY <1>8
    <3>1. Owner[n] = NULL
      BY <1>4, <1>12, <1>13, FuncsAssumption
    <3> QED
      BY <3>1 DEF ProfilerInv, ProfilerType
  <2> QED
    BY <1>1, <1>8, <1>9, <2>1 DEF ProfilerInv, ProfilerType
<1>15. Stacked'
  <2>1. phase = "started" \/ Depth # 1
    BY <1>1 DEF ProfilerInv, Stacked
  <2> QED
    BY <1>1, <1>4, <1>9, <1>10, <2>1 DEF ProfilerInv, Stacked
<1>16. Timing'
  <2>1. Step \in Untimed /\ Step' \in Untimed /\ Step' # "enter_high"
    BY <1>1, <1>9 DEF Untimed
  <2> QED
    BY <1>1, <1>10, <2>1 DEF ProfilerInv, Timing
<1>17. Entered'
  <2>1. \A g \in timed : Holds(Owner', g)
    <3> SUFFICES ASSUME NEW g \in timed PROVE Holds(Owner', g)
      OBVIOUS
    <3>1. g \in Funcs \ {f} /\ Holds(Owner, g)
      BY <1>4 DEF ProfilerInv, ProfilerType, Entered
    <3> QED
      BY <1>11, <3>1
  <2>2. Wiped(phase) => ~Holds(Owner', Main)
    <3> SUFFICES ASSUME Wiped(phase) PROVE ~Holds(Owner', Main)
      OBVIOUS
    <3>1. Depth > 1
      BY <1>1, <1>4, <1>10 DEF ProfilerInv, Stacked, Wiped
    <3>2. Main \in Funcs \ {f} /\ ~Holds(Owner, Main)
      BY <1>10, <3>1, ActiveLaw, FuncsAssumption DEF ProfilerInv, Entered
    <3> QED
      BY <1>11, <3>2
  <2> QED
    BY <1>1, <1>9, <1>10, <1>11, <2>1, <2>2 DEF Entered
<1>18. Readings'
  BY <1>9 DEF Readings
<1>19. Sums'
  <2> SUFFICES ASSUME NEW g \in Funcs PROVE SumOf(g)'
    BY DEF Sums
  <2>1. SumOf(g)
    BY DEF ProfilerInv, Sums
  <2>2. \A n : Elapsed(g, n)' = Elapsed(g, n) /\ Differs(g, n)' = Differs(g, n)
    BY <1>1, <1>8, <1>9, <1>10 DEF Elapsed, Differs
  <2>3. CASE g # f
    <3>1. /\ \A n : IsFirst(Owner', g, n) <=> IsFirst(Owner, g, n)
          /\ Holds(Owner', g) <=> Holds(Owner, g)
          /\ Single(Owner', g) <=> Single(Owner, g)
      BY <1>11, <2>3
    <3> QED
      BY <1>1, <1>8, <1>9, <1>10, <2>1, <2>2, <2>3, <3>1 DEF SumOf
  <2>4. CASE g = f /\ Holds(Owner, f)
    <3>1. f \notin torn \/ Single(Owner', f) => Owner' = Owner
      BY <1>11, <2>4
    <3>2. Holds(Owner', f)
      BY <1>11 DEF IsFirst, Holds
    <3>3. \A n \in Indices : IsFirst(Owner', f, n) =>
             /\ f \notin torn => spent[f] = Totals[n] + Elapsed(f, n)
             /\ Single(Owner', f) => Same(spent[f], Totals[n] + Differs(f, n))
      BY <2>1, <2>4, <3>1 DEF SumOf
    <3> QED
      BY <1>1, <1>8, <1>9, <1>10, <2>2, <2>4, <3>2, <3>3 DEF SumOf
  <2>5. CASE g = f /\ ~Holds(Owner, f)
    <3>1. spent[f] = 0 /\ Holds(Owner', f)
      BY <1>11, <2>1, <2>5 DEF SumOf, IsFirst, Holds
    <3>2. Owner[s] = NULL /\ Totals[s] = 0
      BY <1>7, <2>5 DEF Holds, ProfilerInv, ProfilerType
    <3>3. Elapsed(f, s) = 0 /\ Differs(f, s) = 0
      BY <1>1, <1>4 DEF Elapsed, Differs
    <3>4. \A n \in Indices : IsFirst(Owner', f, n) => n = s
      BY <1>11, FirstExists
    <3>5. Same(0, 0)
      BY SameOrder
    <3>6. \A n \in Indices : IsFirst(Owner', f, n) =>
             /\ f \notin torn => spent[f] = Totals[n] + Elapsed(f, n)
             /\ Single(Owner', f) => Same(spent[f], Totals[n] + Differs(f, n))
      BY <3>1, <3>2, <3>3, <3>4, <3>5
    <3> QED
      BY <1>1, <1>8, <1>9, <1>10, <2>2, <2>5, <3>1, <3>6 DEF SumOf
  <2> QED
    BY <2>3, <2>4, <2>5
<1>20. Bounded'
  <2>1. Owed(Step') = Owed(Step)
    BY <1>1, <1>9 DEF Owed
  <2> QED
    BY <1>1, <1>10, <2>1 DEF ProfilerInv, Bounded
<1>21. Rows'
  <2>1. ASSUME NEW k \in 1..Len(printed) PROVE Owner'[k - 1] = Owner[k - 1]
    <3>1. Owner[k - 1] # NULL /\ k - 1 \in Indices
      BY RowLaw
    <3>2. CASE k - 1 = s
      BY <1>7, <1>13, <3>1, <3>2
    <3>3. CASE k - 1 # s
      BY <1>12, <3>1, <3>3
    <3> QED
      BY <3>2, <3>3
  <2> QED
    BY <1>1, <2>1 DEF ProfilerInv, Rows
<1> QED
  BY <1>1, <1>7, <1>11, <1>14, <1>15, <1>16, <1>17, <1>18, <1>19, <1>20, <1>21 DEF ProfilerInv

(* What an instruction of the hooks does to the counter and to what was spent. *)
LEMMA RetireLaw ==
    ASSUME ProfilerInv, NEW R, Retire(R)
    PROVE  /\ counter \in Counts /\ counter' \in Counts
           /\ Pred(counter') = counter /\ Same(counter', counter + 1)
           /\ \A e \in Counts : Gap(counter, e) \in Counts /\
                 (Gap(counter, e) + 1 < Size => Gap(counter', e) = Gap(counter, e) + 1)
           /\ Gap(counter', Pred(counter)) = 2 /\ Pred(counter) \in Counts
           /\ spent \in [Funcs -> Nat] /\ spent' \in [Funcs -> Nat]
           /\ \A g \in Funcs : spent'[g] = spent[g] + (IF g \in R THEN 1 ELSE 0)
           /\ \A g \in Funcs : spent[g] + 1 < Size
<1>1. counter \in Counts /\ spent \in [Funcs -> Nat]
  BY DEF ProfilerInv, ProfilerType
<1>2. counter' = (counter + 1) % Size
  BY DEF Retire
<1>3. spent' = [g \in Funcs |-> (spent[g] + IF g \in R THEN 1 ELSE 0) % Size]
  BY DEF Retire
<1>4. \A g \in Funcs : spent[g] + 1 < Size
  BY FewSpent
<1>5. \A g \in Funcs : spent'[g] = spent[g] + (IF g \in R THEN 1 ELSE 0)
  <2> SUFFICES ASSUME NEW g \in Funcs
               PROVE  spent'[g] = spent[g] + (IF g \in R THEN 1 ELSE 0)
    OBVIOUS
  <2> DEFINE m == spent[g] + (IF g \in R THEN 1 ELSE 0)
  <2>1. m \in 0..(Size - 1)
    BY <1>1, <1>4, Sizes
  <2>2. spent'[g] = m % Size
    BY <1>3
  <2> HIDE DEF m
  <2>3. m % Size = m
    BY <2>1, Sizes, ModSmall
  <2> QED
    BY <2>2, <2>3 DEF m
<1>6. spent' \in [Funcs -> Nat]
  <2>1. \A g \in Funcs : spent'[g] \in Nat
    BY <1>1, <1>5
  <2> QED
    BY <1>3, <2>1
<1> QED
  BY <1>1, <1>2, <1>4, <1>5, <1>6, TickLaw

(* The bound on what was spent pays for the instruction. *)
LEMMA StillBounded ==
    ASSUME ProfilerInv, NEW R, Retire(R), UNCHANGED <<phase, calls, row>>, work' \in Nat,
           Depth \in Nat, Depth' \in Nat, Owed(Step) \in Int, Owed(Step') \in Int,
           2 * Depth' + Owed(Step') + 1 + work <= 2 * Depth + Owed(Step) + work'
    PROVE  Bounded'
<1> SUFFICES ASSUME NEW g \in Funcs
             PROVE  spent'[g] + 2 * Depth' + Owed(Step')
                          <= work' + 4 * (calls + 2 * row + MainCallsTo(phase))
  BY DEF Bounded
<1>1. spent[g] + 2 * Depth + Owed(Step) <= work + 4 * (calls + 2 * row + MainCallsTo(phase))
  BY DEF ProfilerInv, Bounded
<1>2. spent[g] \in Nat /\ spent'[g] \in Nat /\ spent'[g] <= spent[g] + 1
  BY RetireLaw
<1>3. work \in Nat /\ calls \in Nat /\ row \in Nat /\ MainCallsTo(phase) \in Nat
  BY Sizes DEF ProfilerInv, ProfilerType, MainCallsTo
<1> DEFINE c == 4 * (calls + 2 * row + MainCallsTo(phase))
<1>4. c \in Nat
  BY <1>3
<1> HIDE DEF c
<1>5. spent[g] + 2 * Depth + Owed(Step) <= work + c
  BY <1>1 DEF c
<1>6. spent'[g] + 2 * Depth' + Owed(Step') <= work' + c
  BY <1>2, <1>3, <1>4, <1>5
<1> QED
  BY <1>6 DEF c

(* A function of which no hook is at a reading. *)
Plain(g) == ~(g = Active /\ Step \in {"enter_low", "enter_high", "exit_high"})

(* What such a function still has to have added. *)
LEMMA PlainElapsed ==
    ASSUME NEW g, Plain(g), NEW n
    PROVE  /\ Elapsed(g, n) = IF g \in timed THEN Gap(counter, Currents[n]) ELSE 0
           /\ Differs(g, n) = IF g \in timed THEN counter - Currents[n] ELSE 0
BY DEF Plain, Elapsed, Differs

(* The sums of such a function are kept by every instruction. *)
LEMMA PlainTicks ==
    ASSUME ProfilerInv, NEW R, Retire(R), NEW g \in Funcs, Plain(g), Plain(g)',
           g \in timed <=> g \in R, g \in timed' <=> g \in timed,
           Owner' = Owner, torn \subseteq torn',
           \A n \in Indices : Owner[n] = g => Totals'[n] = Totals[n] /\ Currents'[n] = Currents[n]
    PROVE  SumOf(g)'
<1>1. SumOf(g)
  BY DEF ProfilerInv, Sums
<1>2. spent[g] \in Nat /\ spent'[g] = spent[g] + (IF g \in timed THEN 1 ELSE 0)
      /\ spent[g] + 1 < Size
  BY RetireLaw
<1>3. g \in timed => Holds(Owner, g)
  BY DEF ProfilerInv, Entered
<1>4. ASSUME NEW n \in Indices, IsFirst(Owner, g, n)
      PROVE  /\ g \notin torn' => spent'[g] = Totals'[n] + Elapsed(g, n)'
             /\ Single(Owner, g) => Same(spent'[g], Totals'[n] + Differs(g, n)')
  <2>1. Owner[n] = g /\ Totals'[n] = Totals[n] /\ Currents'[n] = Currents[n]
    BY <1>4 DEF IsFirst
  <2>2. Totals[n] \in Counts /\ Currents[n] \in Counts
    BY TableLaw DEF ProfilerInv, ProfilerType, Totals, Currents
  <2>3. /\ Elapsed(g, n) = IF g \in timed THEN Gap(counter, Currents[n]) ELSE 0
        /\ Differs(g, n) = IF g \in timed THEN counter - Currents[n] ELSE 0
    BY PlainElapsed
  <2>4. /\ Elapsed(g, n)' = IF g \in timed THEN Gap(counter', Currents[n]) ELSE 0
        /\ Differs(g, n)' = IF g \in timed THEN counter' - Currents[n] ELSE 0
    BY <2>1 DEF Plain, Elapsed, Differs
  <2>5. /\ g \notin torn => spent[g] = Totals[n] + Elapsed(g, n)
        /\ Single(Owner, g) => Same(spent[g], Totals[n] + Differs(g, n))
    BY <1>1, <1>4 DEF SumOf
  <2>6. CASE g \notin timed
    BY <1>2, <2>1, <2>2, <2>3, <2>4, <2>5, <2>6 DEF Counts
  <2>7. CASE g \in timed
    <3>1. ASSUME g \notin torn PROVE spent'[g] = Totals[n] + Gap(counter', Currents[n])
      <4>1. spent[g] = Totals[n] + Gap(counter, Currents[n])
        BY <2>3, <2>5, <2>7, <3>1
      <4>2. /\ Gap(counter, Currents[n]) \in Counts
            /\ Gap(counter, Currents[n]) + 1 < Size
                  => Gap(counter', Currents[n]) = Gap(counter, Currents[n]) + 1
        BY <2>2, RetireLaw
      <4>3. Gap(counter, Currents[n]) + 1 < Size
        BY <1>2, <2>2, <4>1, <4>2, Sizes DEF Counts
      <4> QED
        BY <1>2, <2>2, <2>7, <4>1, <4>2, <4>3 DEF Counts
    <3>2. ASSUME Single(Owner, g) PROVE Same(spent'[g], Totals[n] + (counter' - Currents[n]))
      <4> DEFINE c == counter
                 d == counter'
                 x == Totals[n] - Currents[n]
      <4>1. c \in Int /\ d \in Int /\ x \in Int /\ Same(d, c + 1)
        BY <2>2, RetireLaw DEF Counts
      <4>2. Totals[n] + (c - Currents[n]) = x + c /\ Totals[n] + (d - Currents[n]) = x + d
        BY <2>2, <4>1 DEF Counts
      <4> HIDE DEF c, d, x
      <4>3. Same(spent[g], x + c)
        BY <2>3, <2>5, <2>7, <3>2, <4>2 DEF c
      <4>4. Same(1, 1) /\ Same(x, x)
        BY <4>1, SameOrder
      <4>5. Same(spent[g] + 1, (x + c) + 1)
        <5>1. spent[g] \in Int /\ x + c \in Int /\ 1 \in Int
          BY <1>2, <4>1
        <5> QED
          BY <4>3, <4>4, <5>1, SameSum
      <4>6. Same(x + d, x + (c + 1))
        <5>1. c + 1 \in Int
          BY <4>1
        <5> QED
          BY <4>1, <4>4, <5>1, SameSum
      <4>7. (x + c) + 1 = x + (c + 1) /\ spent'[g] = spent[g] + 1
        BY <1>2, <2>7, <4>1
      <4>8. Same(x + (c + 1), x + d)
        <5>1. x + (c + 1) \in Int /\ x + d \in Int
          BY <4>1
        <5> QED
          BY <4>6, <5>1, SameOrder
      <4>9. Same(spent'[g], x + d)
        <5>1. spent'[g] \in Int /\ x + (c + 1) \in Int /\ x + d \in Int
          BY <1>2, <4>1, <4>7
        <5> QED
          BY <4>5, <4>7, <4>8, <5>1, SameOrder
      <4> QED
        BY <4>2, <4>9 DEF d
    <3> QED
      BY <2>1, <2>4, <2>7, <3>1, <3>2
  <2> QED
    BY <2>6, <2>7
<1>5. Holds(Owner, g) /\ ~(g = Active' /\ Step' = "enter_low") => spent'[g] > 0
  BY <1>1, <1>2 DEF SumOf, Plain
<1>6. ~Holds(Owner, g) => spent'[g] = 0
  BY <1>1, <1>2, <1>3 DEF SumOf
<1> QED
  BY <1>4, <1>5, <1>6 DEF SumOf

(* A function is torn when the carry came between its readings. *)
LEMMA CarriedLaw ==
    ASSUME ProfilerInv, NEW f \in Funcs, Carried(f)
    PROVE  /\ torn \subseteq torn' /\ torn' \subseteq torn \cup {f} /\ torn' \subseteq Funcs
           /\ f \notin torn' => Low # LowSize - 1
           /\ Low \in 0..(LowSize - 1)
<1>1. Low \in 0..(LowSize - 1)
  BY Sizes DEF ProfilerInv, ProfilerType, Counts, Low
<1>2. torn \subseteq Funcs
  BY DEF ProfilerInv, ProfilerType
<1> QED
  BY <1>1, <1>2 DEF Carried

(* The enter hook reads the low half. *)
LEMMA EnterReadLowStep == ProfilerInv /\ EnterReadLow => ProfilerInv'
<1> SUFFICES ASSUME ProfilerInv, EnterReadLow PROVE ProfilerInv'
  OBVIOUS
<1> DEFINE f == Active
<1>1. /\ Step = "enter_low" /\ timed' = timed \cup {f}
      /\ UNCHANGED <<table, mapping, stack, phase, row, printed, stray, calls, work>>
  BY DEF EnterReadLow, Step, Active
<1>2. Retire(timed')
  BY DEF EnterReadLow
<1>3. Carried(f)
  BY DEF EnterReadLow, Active
<1>4. hook' = StepLow(hook, "enter_high", Low)
  BY DEF EnterReadLow, StepLow
<1>5. /\ Depth > 0 /\ f \in Funcs /\ f \notin timed /\ f = stack[Depth] /\ Depth \in Nat
      /\ Depth > 1 => f # Main
  BY <1>1, ActiveLaw DEF Untimed
<1>6. hook \in Hooks /\ timed \subseteq Funcs
  BY DEF ProfilerInv, ProfilerType
<1>7. /\ torn \subseteq torn' /\ torn' \subseteq torn \cup {f} /\ torn' \subseteq Funcs
      /\ f \notin torn' => Low # LowSize - 1
      /\ Low \in 0..(LowSize - 1)
  BY <1>3, <1>5, CarriedLaw
<1>8. hook' \in Hooks /\ Step' = "enter_high" /\ hook'.at = hook.at /\ hook'.low = Low
  <2>1. "enter_high" \in Steps
    BY DEF Steps
  <2> QED
    BY <1>4, <1>6, <1>7, <2>1, HookLow DEF Step
<1>9. /\ Owner' = Owner /\ Totals' = Totals /\ Currents' = Currents
      /\ Depth' = Depth /\ Active' = f /\ Active = f /\ f' = f
  BY <1>1 DEF Owner, Totals, Currents, Depth, Active
<1> HIDE DEF f
<1>10. IsFirst(Owner, f, hook.at) /\ hook.at \in Indices
  BY <1>1, <1>9 DEF ProfilerInv, Entered, IsFirst
<1>11. /\ counter \in Counts /\ counter' \in Counts /\ Pred(counter') = counter
       /\ spent' \in [Funcs -> Nat] /\ spent \in [Funcs -> Nat]
       /\ \A g \in Funcs : spent'[g] = spent[g] + (IF g \in timed' THEN 1 ELSE 0)
  BY <1>2, RetireLaw
<1>12. ProfilerType'
  BY <1>1, <1>5, <1>6, <1>7, <1>8, <1>9, <1>11 DEF ProfilerInv, ProfilerType
<1>13. Stacked'
  <2>1. phase = "started" \/ Depth # 1
    BY <1>1 DEF ProfilerInv, Stacked
  <2> QED
    BY <1>1, <1>5, <1>8, <1>9, <2>1 DEF ProfilerInv, Stacked
<1>14. Timing'
  <2>1. ASSUME NEW g \in timed' PROVE \E i \in 1..Depth : stack[i] = g
    BY <1>1, <1>5, <2>1 DEF ProfilerInv, Timing
  <2>2. ASSUME NEW i \in 2..Depth PROVE stack[i] \in timed'
    <3>1. CASE i = Depth
      BY <1>1, <1>5, <3>1
    <3>2. CASE i < Depth
      BY <1>1, <3>2 DEF ProfilerInv, Timing
    <3> QED
      BY <1>5, <3>1, <3>2
  <2> QED
    BY <1>1, <1>8, <1>9, <2>1, <2>2 DEF Timing, Untimed
<1>15. Entered'
  <2>1. \A g \in timed' : Holds(Owner, g)
    BY <1>1, <1>10 DEF ProfilerInv, Entered, IsFirst, Holds
  <2> QED
    BY <1>1, <1>8, <1>9, <1>10, <2>1 DEF ProfilerInv, Entered
<1>16. Readings'
  BY <1>7, <1>8, <1>9, <1>11 DEF Readings, Low
<1>17. Sums'
  <2> SUFFICES ASSUME NEW g \in Funcs PROVE SumOf(g)'
    BY DEF Sums
  <2>1. CASE g # f
    <3>1. Plain(g) /\ Plain(g)'
      BY <1>9, <2>1 DEF Plain
    <3>2. (g \in timed <=> g \in timed') /\ (g \in timed' <=> g \in timed)
      BY <1>1, <2>1
    <3> QED
      BY <1>2, <1>7, <1>9, <3>1, <3>2, PlainTicks
  <2>2. CASE g = f
    <3>1. SumOf(f)
      BY <1>5 DEF ProfilerInv, Sums
    <3>2. \A n : Elapsed(f, n) = 0 /\ Differs(f, n) = 0
      BY <1>1, <1>5, <1>9 DEF Elapsed, Differs
    <3>3. \A n : Elapsed(f, n)' = 1 /\ Differs(f, n)' = 1
      BY <1>8, <1>9 DEF Elapsed, Differs
    <3>4. spent[f] \in Nat /\ spent'[f] = spent[f] + 1
      BY <1>1, <1>5, <1>11
    <3>5. ASSUME NEW n \in Indices, IsFirst(Owner, f, n)
          PROVE  /\ f \notin torn' => spent'[f] = Totals[n] + 1
                 /\ Single(Owner, f) => Same(spent'[f], Totals[n] + 1)
      <4>1. Totals[n] \in Counts
        BY TableLaw DEF ProfilerInv, ProfilerType, Totals
      <4>2. /\ f \notin torn => spent[f] = Totals[n] + 0
            /\ Single(Owner, f) => Same(spent[f], Totals[n] + 0)
        BY <3>1, <3>2, <3>5 DEF SumOf
      <4>3. f \notin torn' => spent'[f] = Totals[n] + 1
        BY <1>7, <3>4, <4>1, <4>2 DEF Counts
      <4>4. ASSUME Single(Owner, f) PROVE Same(spent'[f], Totals[n] + 1)
        <5>1. spent[f] \in Int /\ Totals[n] \in Int /\ 1 \in Int
          BY <3>4, <4>1 DEF Counts
        <5>2. Same(spent[f], Totals[n]) /\ Same(1, 1)
          BY <4>2, <4>4, <5>1, SameOrder
        <5> QED
          BY <3>4, <5>1, <5>2, SameSum
      <4> QED
        BY <4>3, <4>4
    <3>6. Holds(Owner, f)
      BY <1>10 DEF IsFirst, Holds
    <3> QED
      BY <1>9, <2>2, <3>3, <3>4, <3>5, <3>6 DEF SumOf
  <2> QED
    BY <2>1, <2>2
<1>18. Bounded'
  <2>1. Owed(Step) = 2 /\ Owed(Step') = 1
    BY <1>1, <1>8 DEF Owed
  <2>2. work' = work /\ work \in Nat
    BY <1>1 DEF ProfilerInv, ProfilerType
  <2>3. 2 * Depth' + Owed(Step') + 1 + work <= 2 * Depth + Owed(Step) + work'
    BY <1>5, <1>9, <2>1, <2>2
  <2> QED
    BY <1>1, <1>2, <1>5, <1>9, <2>1, <2>2, <2>3, StillBounded
<1>19. Rows'
  BY <1>1, <1>9 DEF ProfilerInv, Rows
<1>20. Entries(Owner, torn, phase)'
  <2>1. Entries(Owner, torn, phase)
    BY DEF ProfilerInv
  <2>2. Entries(Owner, torn', phase)
    BY <1>7, <2>1, MoreTorn
  <2> QED
    BY <1>1, <1>9, <2>2
<1>21. stray' = FALSE
  BY <1>1 DEF ProfilerInv
<1> QED
  BY <1>12, <1>13, <1>14, <1>15, <1>16, <1>17, <1>18, <1>19, <1>20, <1>21 DEF ProfilerInv

(* The clock as a hook reads it, in two halves. *)
LEMMA Reading ==
    ASSUME ProfilerInv, Step \in {"enter_high", "exit_high"}
    PROVE  /\ Now(hook.low, High) \in Counts /\ hook.low \in 0..(LowSize - 1)
           /\ Same(Now(hook.low, High), hook.low) /\ Same(hook.low, counter - 1)
           /\ Same(Now(hook.low, High), counter - 1)
           /\ Active \notin torn => Now(hook.low, High) = Pred(counter)
<1>1. counter \in Counts /\ hook.low \in 0..(LowSize - 1)
  BY HookType DEF ProfilerInv, ProfilerType
<1>2. hook.low = Pred(counter) % LowSize /\ (Active \notin torn => hook.low # LowSize - 1)
  BY DEF ProfilerInv, Readings
<1>3. /\ Now(hook.low, High) \in Counts /\ Same(Now(hook.low, High), hook.low)
      /\ Active \notin torn => Now(hook.low, High) = Pred(counter)
  BY <1>1, <1>2, ReadTime DEF High
<1>4. Pred(counter) \in Int /\ Same(Pred(counter), counter - 1)
  <2>1. CASE counter = 0
    <3>1. Same(-1 + Size, -1)
      BY SameLaws
    <3> QED
      BY <2>1, <3>1, Sizes DEF Pred
  <2>2. CASE counter # 0
    <3>1. counter - 1 \in Int /\ Pred(counter) = counter - 1
      BY <1>1, <2>2 DEF Pred, Counts
    <3> QED
      BY <3>1, SameOrder
  <2> QED
    BY <2>1, <2>2
<1>5. Same(hook.low, counter - 1)
  <2>1. Same(hook.low, Pred(counter)) /\ hook.low \in Int
    BY <1>1, <1>2, <1>4, SameLaws
  <2>2. counter - 1 \in Int
    BY <1>1 DEF Counts
  <2> QED
    BY <1>4, <2>1, <2>2, SameOrder
<1>6. Same(Now(hook.low, High), counter - 1)
  <2>1. counter - 1 \in Int /\ hook.low \in Int /\ Now(hook.low, High) \in Int
    BY <1>1, <1>3 DEF Counts
  <2> QED
    BY <1>3, <1>5, <2>1, SameOrder
<1> QED
  BY <1>1, <1>3, <1>5, <1>6

(* One more on both sides. *)
LEMMA SameNext ==
    ASSUME NEW a \in Int, NEW b \in Int, Same(a, b) PROVE Same(a + 1, b + 1)
<1>1. (a + 1) - (b + 1) = a - b
  OBVIOUS
<1> QED
  BY <1>1 DEF Same

(* The enter hook reads the high half, and the function runs. *)
LEMMA EnterReadHighStep == ProfilerInv /\ EnterReadHigh => ProfilerInv'
<1> SUFFICES ASSUME ProfilerInv, EnterReadHigh PROVE ProfilerInv'
  OBVIOUS
<1> DEFINE f == Active
           now == Now(hook.low, High)
           s == hook.at
<1>1. /\ Step = "enter_high" /\ hook' = NoHook
      /\ UNCHANGED <<mapping, stack, phase, row, printed, stray, calls, work, timed, torn>>
  BY DEF EnterReadHigh, Step
<1>2. Retire(timed)
  BY DEF EnterReadHigh
<1>3. table' = CurrentPut(table, s, now)
  BY DEF EnterReadHigh, CurrentPut
<1>4. /\ Depth > 0 /\ f \in Funcs /\ f = stack[Depth] /\ Depth \in Nat
      /\ Depth > 1 => f # Main
  BY <1>1, ActiveLaw
<1>5. table \in Tables /\ hook \in Hooks
  BY DEF ProfilerInv, ProfilerType
<1>6. now \in Counts /\ Same(now, counter - 1) /\ (f \notin torn => now = Pred(counter))
  BY <1>1, Reading
<1>7. IsFirst(Owner, f, s) /\ s \in Indices /\ f \in timed
  BY <1>1 DEF ProfilerInv, Entered, Timing, IsFirst
<1>8. hook' \in Hooks /\ Step' = "none"
  BY <1>1, HookType DEF Step
<1> HIDE DEF now
<1>9. /\ table' \in Tables /\ Owner' = Owner /\ Totals' = Totals
      /\ Currents' = [Currents EXCEPT ![s] = now]
  BY <1>3, <1>5, <1>6, <1>7, PutCurrent DEF Owner, Totals, Currents
<1>10. /\ Currents \in [Indices -> Counts] /\ Totals \in [Indices -> Counts]
  BY <1>5, TableLaw DEF Currents, Totals
<1>11. Depth' = Depth /\ Active' = f /\ Active = f /\ f' = f
  BY <1>1 DEF Depth, Active
<1> HIDE DEF f, s
<1>12. Currents'[s] = now /\ \A n \in Indices \ {s} : Currents'[n] = Currents[n]
  BY <1>7, <1>9, <1>10
<1>13. /\ counter \in Counts /\ counter' \in Counts /\ Same(counter', counter + 1)
       /\ Gap(counter', Pred(counter)) = 2
       /\ spent' \in [Funcs -> Nat] /\ spent \in [Funcs -> Nat]
       /\ \A g \in Funcs : spent'[g] = spent[g] + (IF g \in timed THEN 1 ELSE 0)
  BY <1>2, RetireLaw
<1>14. ProfilerType'
  BY <1>1, <1>8, <1>9, <1>13 DEF ProfilerInv, ProfilerType
<1>15. Stacked'
  BY <1>1, <1>8, <1>11 DEF ProfilerInv, Stacked
<1>16. Timing'
  BY <1>1, <1>8, <1>11 DEF ProfilerInv, Timing, Untimed
<1>17. Entered'
  BY <1>1, <1>8, <1>9 DEF ProfilerInv, Entered
<1>18. Readings'
  BY <1>8 DEF Readings
<1>19. Sums'
  <2> SUFFICES ASSUME NEW g \in Funcs PROVE SumOf(g)'
    BY DEF Sums
  <2>1. CASE g # f
    <3>1. Plain(g) /\ Plain(g)'
      BY <1>8, <1>11, <2>1 DEF Plain
    <3>2. \A n \in Indices : Owner[n] = g => Totals'[n] = Totals[n] /\ Currents'[n] = Currents[n]
      BY <1>7, <1>9, <1>12, <2>1 DEF IsFirst
    <3>3. /\ g \in timed <=> g \in timed
          /\ g \in timed' <=> g \in timed
          /\ torn \subseteq torn'
      BY <1>1
    <3> QED
      BY <1>2, <1>9, <3>1, <3>2, <3>3, PlainTicks
  <2>2. CASE g = f
    <3>1. SumOf(f)
      BY <1>4 DEF ProfilerInv, Sums
    <3>2. \A n : Elapsed(f, n) = 1 /\ Differs(f, n) = 1
      BY <1>1, <1>11 DEF Elapsed, Differs
    <3>3. \A n : /\ Elapsed(f, n)' = Gap(counter', Currents'[n])
                 /\ Differs(f, n)' = counter' - Currents'[n]
      BY <1>1, <1>7, <1>8, <1>11 DEF Elapsed, Differs
    <3>4. spent[f] \in Nat /\ spent'[f] = spent[f] + 1
      BY <1>4, <1>7, <1>13
    <3>5. ASSUME NEW n \in Indices, IsFirst(Owner, f, n)
          PROVE  /\ f \notin torn => spent'[f] = Totals[n] + Gap(counter', Currents'[n])
                 /\ Single(Owner, f) => Same(spent'[f], Totals[n] + (counter' - Currents'[n]))
      <4>1. n = s
        BY <1>7, <3>5, FirstExists
      <4>2. Totals[n] \in Counts /\ Currents'[n] = now
        BY <1>10, <1>12, <4>1
      <4>3. /\ f \notin torn => spent[f] = Totals[n] + 1
            /\ Single(Owner, f) => Same(spent[f], Totals[n] + 1)
        BY <3>1, <3>2, <3>5 DEF SumOf
      <4>4. f \notin torn => spent'[f] = Totals[n] + Gap(counter', Currents'[n])
        BY <1>6, <1>13, <3>4, <4>2, <4>3 DEF Counts
      <4>5. ASSUME Single(Owner, f) PROVE Same(spent'[f], Totals[n] + (counter' - now))
        <5> DEFINE c == counter
                   d == counter'
                   x == Totals[n]
        <5>1. c \in Int /\ d \in Int /\ x \in Int /\ now \in Int /\ spent[f] \in Int
              /\ c - 1 \in Int /\ c + 1 \in Int
          BY <1>6, <1>13, <3>4, <4>2 DEF Counts
        <5>2. Same(spent[f], x + 1) /\ Same(d, c + 1) /\ Same(now, c - 1)
          BY <1>6, <1>13, <4>3, <4>5
        <5> HIDE DEF c, d, x
        <5>3. Same(d - now, (c + 1) - (c - 1))
          BY <5>1, <5>2, SameSum
        <5>4. (c + 1) - (c - 1) = 2 /\ d - now \in Int
          BY <5>1
        <5>5. Same(2, d - now)
          BY <5>3, <5>4, SameOrder
        <5>6. Same(spent[f] + 1, (x + 1) + 1)
          <6>1. x + 1 \in Int
            BY <5>1
          <6> QED
            BY <5>1, <5>2, <6>1, SameNext
        <5>7. Same(x, x)
          BY <5>1, SameOrder
        <5>8. Same(x + 2, x + (d - now))
          BY <5>1, <5>4, <5>5, <5>7, SameSum
        <5>9. (x + 1) + 1 = x + 2 /\ x + 2 \in Int /\ spent[f] + 1 \in Int /\ x + (d - now) \in Int
          BY <5>1, <5>4
        <5>10. Same(spent[f] + 1, x + (d - now))
          BY <5>6, <5>8, <5>9, SameOrder
        <5> QED
          BY <3>4, <5>10 DEF d, x
      <4> QED
        BY <4>2, <4>4, <4>5
    <3>6. Holds(Owner, f)
      BY <1>7 DEF IsFirst, Holds
    <3> QED
      BY <1>1, <1>9, <1>11, <2>2, <3>3, <3>4, <3>5, <3>6 DEF SumOf
  <2> QED
    BY <2>1, <2>2
<1>20. Bounded'
  <2>1. Owed(Step) = 1 /\ Owed(Step') = 0
    BY <1>1, <1>8 DEF Owed
  <2>2. work' = work /\ work \in Nat
    BY <1>1 DEF ProfilerInv, ProfilerType
  <2>3. 2 * Depth' + Owed(Step') + 1 + work <= 2 * Depth + Owed(Step) + work'
    BY <1>4, <1>11, <2>1, <2>2
  <2> QED
    BY <1>1, <1>2, <1>4, <1>11, <2>1, <2>2, <2>3, StillBounded
<1>21. Rows'
  BY <1>1, <1>9 DEF ProfilerInv, Rows
<1>22. Entries(Owner, torn, phase)'
  BY <1>1, <1>9 DEF ProfilerInv
<1>23. stray' = FALSE
  BY <1>1 DEF ProfilerInv
<1> QED
  BY <1>14, <1>15, <1>16, <1>17, <1>18, <1>19, <1>20, <1>21, <1>22, <1>23 DEF ProfilerInv

(* The exit hook is called. *)
LEMMA ExitStep == ProfilerInv /\ Exit => ProfilerInv'
<1> SUFFICES ASSUME ProfilerInv, Exit PROVE ProfilerInv'
  OBVIOUS
<1>1. /\ hook = NoHook /\ Depth > 1
      /\ UNCHANGED <<counter, table, mapping, stack, phase, row, printed, stray, calls, work,
                     timed, spent, torn>>
  BY DEF Exit, Depth, ghosts
<1>2. hook' = StepTo(NoHook, "exit_low")
  BY DEF Exit, StepTo
<1>3. hook' \in Hooks /\ Step' = "exit_low" /\ Step = "none"
  <2>1. "exit_low" \in Steps
    BY DEF Steps
  <2> QED
    BY <1>1, <1>2, <2>1, HookType, HookTo DEF Step
<1>4. /\ Owner' = Owner /\ Totals' = Totals /\ Currents' = Currents
      /\ Depth' = Depth /\ Active' = Active
  BY <1>1 DEF Owner, Totals, Currents, Depth, Active
<1>5. ProfilerType'
  BY <1>1, <1>3, <1>4 DEF ProfilerInv, ProfilerType
<1>6. Stacked'
  <2>1. Depth \in Nat
    BY ActiveLaw
  <2>2. Depth # 1 /\ Depth # 0
    BY <1>1, <2>1
  <2> QED
    BY <1>1, <1>3, <1>4, <2>2 DEF ProfilerInv, Stacked
<1>7. Timing'
  BY <1>1, <1>3, <1>4 DEF ProfilerInv, Timing, Untimed
<1>8. Entered'
  BY <1>1, <1>3, <1>4 DEF ProfilerInv, Entered
<1>9. Readings'
  BY <1>3 DEF Readings
<1>10. Sums'
  <2> SUFFICES ASSUME NEW g \in Funcs PROVE SumOf(g)'
    BY DEF Sums
  <2>1. \A n : Elapsed(g, n)' = Elapsed(g, n) /\ Differs(g, n)' = Differs(g, n)
    BY <1>1, <1>3, <1>4 DEF Elapsed, Differs
  <2>2. SumOf(g)
    BY DEF ProfilerInv, Sums
  <2> QED
    BY <1>1, <1>3, <1>4, <2>1, <2>2 DEF SumOf
<1>11. Bounded'
  <2>1. Owed(Step') = Owed(Step)
    BY <1>3 DEF Owed
  <2> QED
    BY <1>1, <1>4, <2>1 DEF ProfilerInv, Bounded
<1>12. Rows'
  BY <1>1, <1>4 DEF ProfilerInv, Rows
<1>13. Entries(Owner, torn, phase)' /\ stray' = FALSE
  BY <1>1, <1>4 DEF ProfilerInv
<1> QED
  BY <1>5, <1>6, <1>7, <1>8, <1>9, <1>10, <1>11, <1>12, <1>13 DEF ProfilerInv

(* It reads the low half. *)
LEMMA ExitReadLowStep == ProfilerInv /\ ExitReadLow => ProfilerInv'
<1> SUFFICES ASSUME ProfilerInv, ExitReadLow PROVE ProfilerInv'
  OBVIOUS
<1> DEFINE f == Active
<1>1. /\ Step = "exit_low" /\ timed' = timed \ {f}
      /\ UNCHANGED <<table, mapping, stack, phase, row, printed, stray, calls, work>>
  BY DEF ExitReadLow, Step, Active
<1>2. Retire(timed')
  BY DEF ExitReadLow
<1>3. Carried(f)
  BY DEF ExitReadLow, Active
<1>4. hook' = StepLow(hook, "exit_high", Low)
  BY DEF ExitReadLow, StepLow
<1>5. /\ Depth > 1 /\ f \in Funcs /\ f \in timed /\ f = stack[Depth] /\ Depth \in Nat
      /\ f # Main
  <2>1. Depth > 1
    BY <1>1 DEF ProfilerInv, Stacked
  <2>2. Depth > 0
    BY <2>1, ActiveLaw
  <2> QED
    BY <1>1, <2>1, <2>2, ActiveLaw DEF Untimed
<1>6. hook \in Hooks /\ timed \subseteq Funcs
  BY DEF ProfilerInv, ProfilerType
<1>7. /\ torn \subseteq torn' /\ torn' \subseteq torn \cup {f} /\ torn' \subseteq Funcs
      /\ f \notin torn' => Low # LowSize - 1
      /\ Low \in 0..(LowSize - 1)
  BY <1>3, <1>5, CarriedLaw
<1>8. hook' \in Hooks /\ Step' = "exit_high" /\ hook'.at = hook.at /\ hook'.low = Low
  <2>1. "exit_high" \in Steps
    BY DEF Steps
  <2> QED
    BY <1>4, <1>6, <1>7, <2>1, HookLow DEF Step
<1>9. /\ Owner' = Owner /\ Totals' = Totals /\ Currents' = Currents
      /\ Depth' = Depth /\ Active' = f /\ Active = f /\ f' = f
  BY <1>1 DEF Owner, Totals, Currents, Depth, Active
<1> HIDE DEF f
<1>10. Holds(Owner, f)
  BY <1>5 DEF ProfilerInv, Entered
<1>11. /\ counter \in Counts /\ counter' \in Counts /\ Pred(counter') = counter
       /\ spent' \in [Funcs -> Nat] /\ spent \in [Funcs -> Nat]
       /\ \A g \in Funcs : spent'[g] = spent[g] + (IF g \in timed' THEN 1 ELSE 0)
  BY <1>2, RetireLaw
<1>12. ProfilerType'
  BY <1>1, <1>5, <1>6, <1>7, <1>8, <1>9, <1>11 DEF ProfilerInv, ProfilerType
<1>13. Stacked'
  BY <1>1, <1>5, <1>8, <1>9 DEF ProfilerInv, Stacked
<1>14. Timing'
  <2>1. ASSUME NEW g \in timed' PROVE \E i \in 1..Depth : stack[i] = g /\ i # Depth
    <3>1. PICK i \in 1..Depth : stack[i] = g
      BY <1>1, <2>1 DEF ProfilerInv, Timing
    <3> QED
      BY <1>1, <1>5, <2>1, <3>1
  <2>2. ASSUME NEW i \in 2..Depth, i < Depth PROVE stack[i] \in timed'
    <3>1. stack[i] \in timed
      BY <2>2 DEF ProfilerInv, Timing
    <3>2. i \in 1..Depth /\ Depth \in 1..Depth /\ i # Depth
      BY <1>5, <2>2
    <3>3. stack[i] # f
      BY <1>5, <3>2 DEF ProfilerInv, Stacked
    <3> QED
      BY <1>1, <3>1, <3>3
  <2> QED
    BY <1>1, <1>8, <1>9, <2>1, <2>2 DEF Timing, Untimed
<1>15. Entered'
  BY <1>1, <1>8, <1>9, <1>10 DEF ProfilerInv, Entered
<1>16. Readings'
  BY <1>7, <1>8, <1>9, <1>11 DEF Readings, Low
<1>17. Sums'
  <2> SUFFICES ASSUME NEW g \in Funcs PROVE SumOf(g)'
    BY DEF Sums
  <2>1. CASE g # f
    <3>1. Plain(g) /\ Plain(g)'
      BY <1>9, <2>1 DEF Plain
    <3>2. (g \in timed <=> g \in timed') /\ (g \in timed' <=> g \in timed)
      BY <1>1, <2>1
    <3> QED
      BY <1>2, <1>7, <1>9, <3>1, <3>2, PlainTicks
  <2>2. CASE g = f
    <3>1. SumOf(f)
      BY <1>5 DEF ProfilerInv, Sums
    <3>2. \A n : /\ Elapsed(f, n) = Gap(counter, Currents[n])
                 /\ Differs(f, n) = counter - Currents[n]
      BY <1>1, <1>5, <1>9 DEF Elapsed, Differs
    <3>3. \A n : /\ Elapsed(f, n)' = Gap(counter, Currents[n])
                 /\ Differs(f, n)' = Low - Currents[n]
      BY <1>8, <1>9, <1>11 DEF Elapsed, Differs
    <3>4. spent[f] \in Nat /\ spent'[f] = spent[f]
      BY <1>1, <1>5, <1>11
    <3>5. ASSUME NEW n \in Indices, IsFirst(Owner, f, n)
          PROVE  /\ f \notin torn' => spent'[f] = Totals[n] + Gap(counter, Currents[n])
                 /\ Single(Owner, f) => Same(spent'[f], Totals[n] + (Low - Currents[n]))
      <4>1. Totals[n] \in Counts /\ Currents[n] \in Counts
        BY TableLaw DEF ProfilerInv, ProfilerType, Totals, Currents
      <4>2. /\ f \notin torn => spent[f] = Totals[n] + Gap(counter, Currents[n])
            /\ Single(Owner, f) => Same(spent[f], Totals[n] + (counter - Currents[n]))
        BY <3>1, <3>2, <3>5 DEF SumOf
      <4>3. f \notin torn' => spent'[f] = Totals[n] + Gap(counter, Currents[n])
        BY <1>7, <3>4, <4>2
      <4>4. ASSUME Single(Owner, f) PROVE Same(spent'[f], Totals[n] + (Low - Currents[n]))
        <5> DEFINE c == counter
                   d == Low
                   x == Totals[n] - Currents[n]
        <5>1. c \in Int /\ d \in Int /\ x \in Int /\ spent[f] \in Int
          BY <1>7, <1>11, <3>4, <4>1 DEF Counts
        <5>2. Totals[n] + (c - Currents[n]) = x + c /\ Totals[n] + (d - Currents[n]) = x + d
          BY <4>1, <5>1 DEF Counts
        <5>3. Same(c, d)
          <6>1. Same(d, c)
            BY <5>1, SameLaws DEF Low
          <6> HIDE DEF c, d
          <6> QED
            BY <5>1, <6>1, SameOrder
        <5> HIDE DEF c, d, x
        <5>4. Same(spent[f], x + c)
          BY <4>2, <4>4, <5>2 DEF c
        <5>5. Same(x, x)
          BY <5>1, SameOrder
        <5>6. Same(x + c, x + d) /\ x + c \in Int /\ x + d \in Int
          BY <5>1, <5>3, <5>5, SameSum
        <5>7. Same(spent[f], x + d)
          BY <5>1, <5>4, <5>6, SameOrder
        <5> QED
          BY <3>4, <5>2, <5>7 DEF d
      <4> QED
        BY <4>3, <4>4
    <3>6. spent'[f] > 0
      BY <1>1, <1>10, <3>1, <3>4 DEF SumOf
    <3> QED
      BY <1>9, <1>10, <2>2, <3>3, <3>5, <3>6 DEF SumOf
  <2> QED
    BY <2>1, <2>2
<1>18. Bounded'
  <2>1. Owed(Step) = 0 /\ Owed(Step') = -1
    BY <1>1, <1>8 DEF Owed
  <2>2. work' = work /\ work \in Nat
    BY <1>1 DEF ProfilerInv, ProfilerType
  <2>3. 2 * Depth' + Owed(Step') + 1 + work <= 2 * Depth + Owed(Step) + work'
    BY <1>5, <1>9, <2>1, <2>2
  <2> QED
    BY <1>1, <1>2, <1>5, <1>9, <2>1, <2>2, <2>3, StillBounded
<1>19. Rows'
  BY <1>1, <1>9 DEF ProfilerInv, Rows
<1>20. Entries(Owner, torn, phase)'
  <2>1. Entries(Owner, torn, phase)
    BY DEF ProfilerInv
  <2>2. Entries(Owner, torn', phase)
    BY <1>7, <2>1, MoreTorn
  <2> QED
    BY <1>1, <1>9, <2>2
<1>21. stray' = FALSE
  BY <1>1 DEF ProfilerInv
<1> QED
  BY <1>12, <1>13, <1>14, <1>15, <1>16, <1>17, <1>18, <1>19, <1>20, <1>21 DEF ProfilerInv

(* An instruction outside the hooks. *)
LEMMA WorkStep == ProfilerInv /\ Work => ProfilerInv'
<1> SUFFICES ASSUME ProfilerInv, Work PROVE ProfilerInv'
  OBVIOUS
<1>1. /\ Step = "none" /\ Depth > 1 /\ work' = work + 1 /\ work < MaxWork
      /\ UNCHANGED <<table, mapping, stack, hook, phase, row, printed, stray, calls, timed, torn>>
  BY HookType DEF Work, Step, Depth
<1>2. Retire(timed)
  BY DEF Work
<1>3. Depth \in Nat
  BY ActiveLaw
<1>4. /\ Owner' = Owner /\ Totals' = Totals /\ Currents' = Currents
      /\ Depth' = Depth /\ Active' = Active /\ Step' = Step
  BY <1>1 DEF Owner, Totals, Currents, Depth, Active, Step
<1>5. /\ counter' \in Counts /\ spent' \in [Funcs -> Nat]
  BY <1>2, RetireLaw
<1>6. ProfilerType'
  <2>1. work' \in 0..MaxWork
    BY <1>1, Sizes DEF ProfilerInv, ProfilerType
  <2> QED
    BY <1>1, <1>4, <1>5, <2>1 DEF ProfilerInv, ProfilerType
<1>7. Stacked' /\ Timing' /\ Entered'
  BY <1>1, <1>4 DEF ProfilerInv, Stacked, Timing, Entered
<1>8. Readings'
  BY <1>1, <1>4 DEF Readings
<1>9. Sums'
  <2> SUFFICES ASSUME NEW g \in Funcs PROVE SumOf(g)'
    BY DEF Sums
  <2>1. Plain(g) /\ Plain(g)'
    BY <1>1, <1>4 DEF Plain
  <2>2. /\ g \in timed <=> g \in timed
        /\ g \in timed' <=> g \in timed
        /\ torn \subseteq torn'
    BY <1>1
  <2> QED
    BY <1>2, <1>4, <2>1, <2>2, PlainTicks
<1>10. Bounded'
  <2>1. work' \in Nat /\ work \in Nat
    BY <1>1 DEF ProfilerInv, ProfilerType
  <2>2. Owed(Step) = 0 /\ Owed(Step') = 0
    BY <1>1, <1>4 DEF Owed
  <2>3. 2 * Depth' + Owed(Step') + 1 + work <= 2 * Depth + Owed(Step) + work'
    BY <1>1, <1>3, <1>4, <2>1, <2>2
  <2> QED
    BY <1>1, <1>2, <1>3, <1>4, <2>1, <2>2, <2>3, StillBounded
<1>11. Rows' /\ Entries(Owner, torn, phase)' /\ stray' = FALSE
  BY <1>1, <1>4 DEF ProfilerInv, Rows
<1> QED
  BY <1>6, <1>7, <1>8, <1>9, <1>10, <1>11 DEF ProfilerInv

(* The total that the exit hook writes. *)
LEMMA Accumulates ==
    ASSUME NEW now \in Counts, NEW cur \in Counts, NEW tot \in Counts,
           NEW lo \in Int, NEW p \in Int, NEW S \in Nat, S < Size, Same(now, lo)
    PROVE  /\ now = p /\ S = tot + Gap(p, cur) => (tot + now - cur + Size) % Size = S
           /\ Same(S, tot + (lo - cur)) => Same(S, (tot + now - cur + Size) % Size)
<1>1. Size \in Nat \ {0} /\ now \in Int /\ cur \in Int /\ tot \in Int
  BY Sizes DEF Counts
<1>2. ASSUME now = p, S = tot + Gap(p, cur) PROVE (tot + now - cur + Size) % Size = S
  <2>1. S \in 0..(Size - 1)
    BY <1>1
  <2>2. S % Size = S /\ (S + Size) % Size = S
    BY <1>1, <2>1, ModSmall
  <2>3. CASE now >= cur
    <3>1. tot + now - cur + Size = S + Size
      BY <1>1, <1>2, <2>3 DEF Gap
    <3> QED
      BY <2>2, <3>1
  <2>4. CASE ~(now >= cur)
    <3>1. tot + now - cur + Size = S
      BY <1>1, <1>2, <2>4 DEF Gap
    <3> QED
      BY <2>2, <3>1
  <2> QED
    BY <2>3, <2>4
<1>3. ASSUME Same(S, tot + (lo - cur)) PROVE Same(S, (tot + now - cur + Size) % Size)
  <2> DEFINE m == tot + now - cur
             y == tot - cur
  <2>1. m \in Int /\ m + Size \in Int /\ y \in Int /\ y + lo \in Int /\ y + now \in Int
        /\ m = y + now /\ tot + (lo - cur) = y + lo
    BY <1>1
  <2>2. (tot + now - cur + Size) % Size = (m + Size) % Size
    OBVIOUS
  <2> HIDE DEF m, y
  <2>3. Same(S, y + lo)
    BY <1>3, <2>1
  <2>4. Same(y, y) /\ Same(lo, now)
    BY <1>1, <2>1, SameOrder
  <2>5. Same(y + lo, y + now)
    BY <1>1, <2>1, <2>4, SameSum
  <2>6. Same(S, m)
    BY <2>1, <2>3, <2>5, SameOrder
  <2>7. Same(m + Size, m) /\ Same((m + Size) % Size, m + Size) /\ (m + Size) % Size \in Int
    <3>1. Same(m + Size, m)
      BY <2>1, SameLaws
    <3> DEFINE k == m + Size
    <3>2. k \in Int
      BY <2>1
    <3> HIDE DEF k
    <3>3. Same(k % Size, k)
      BY <3>2, SameLaws
    <3>4. k % Size \in Int
      BY <1>1, <3>2
    <3> QED
      BY <3>1, <3>3, <3>4 DEF k
  <2>8. Same((m + Size) % Size, m)
    BY <2>1, <2>7, SameOrder
  <2>9. Same(m, (m + Size) % Size)
    BY <2>1, <2>7, <2>8, SameOrder
  <2>10. Same(S, (m + Size) % Size)
    BY <2>1, <2>6, <2>7, <2>9, SameOrder
  <2> QED
    BY <2>2, <2>10
<1> QED
  BY <1>2, <1>3

(* It reads the high half and adds the difference. *)
LEMMA ExitReadHighStep == ProfilerInv /\ ExitReadHigh => ProfilerInv'
<1> SUFFICES ASSUME ProfilerInv, ExitReadHigh PROVE ProfilerInv'
  OBVIOUS
<1> DEFINE f == Active
           now == Now(hook.low, High)
           s == FirstWith({f})
<1>1. /\ Step = "exit_high" /\ hook' = NoHook /\ stack' = Front(stack)
      /\ UNCHANGED <<mapping, phase, row, printed, calls, work, timed, torn>>
  BY DEF ExitReadHigh, Step
<1>2. Retire(timed)
  BY DEF ExitReadHigh
<1>3. /\ Depth > 1 /\ f \in Funcs /\ f \notin timed /\ f = stack[Depth] /\ Depth \in Nat
      /\ f # Main
  <2>1. Depth > 1
    BY <1>1 DEF ProfilerInv, Stacked
  <2>2. Depth > 0
    BY <2>1, ActiveLaw
  <2> QED
    BY <1>1, <2>1, <2>2, ActiveLaw DEF Untimed
<1>4. Holds(Owner, f)
  BY <1>1 DEF ProfilerInv, Entered
<1>5. s \in Indices /\ IsFirst(Owner, f, s) /\ s # -1
  <2>1. PICK n \in Indices : Owner[n] = f
    BY <1>4 DEF Holds
  <2>2. Owner[n] \in {f}
    BY <2>1
  <2>3. /\ s \in Indices /\ Owner[s] \in {f} /\ s # -1
        /\ \A m \in Indices : Owner[m] \in {f} => s <= m
    BY <2>2, FirstWithLaw
  <2> HIDE DEF s, f
  <2> QED
    BY <2>3 DEF IsFirst
<1>6. table' = TotalPut(table, s, now) /\ stray' = stray
  <2>1. s = FirstWith({Last(stack)})
    BY DEF Active
  <2> HIDE DEF s, f
  <2> QED
    BY <1>5, <2>1 DEF ExitReadHigh, TotalPut
<1>7. table \in Tables /\ stack \in Seq(Funcs)
  BY DEF ProfilerInv, ProfilerType
<1>8. /\ now \in Counts /\ hook.low \in Int /\ Same(now, hook.low)
      /\ f \notin torn => now = Pred(counter)
  BY <1>1, Reading
<1>9. hook' \in Hooks /\ Step' = "none"
  BY <1>1, HookType DEF Step
<1> HIDE DEF now, s
<1> DEFINE tot == (Totals[s] + now - Currents[s] + Size) % Size
<1>10. /\ table' \in Tables /\ Owner' = Owner /\ Currents' = Currents
       /\ Totals' = [Totals EXCEPT ![s] = tot]
  BY <1>5, <1>6, <1>7, <1>8, PutTotal DEF Owner, Totals, Currents
<1>11. Currents \in [Indices -> Counts] /\ Totals \in [Indices -> Counts]
  BY <1>7, TableLaw DEF Currents, Totals
<1>12. /\ Depth' = Depth - 1 /\ stack' \in Seq(Funcs)
       /\ \A i \in 1..(Depth - 1) : stack'[i] = stack[i]
  <2>1. Len(stack) > 0
    BY <1>3 DEF Depth
  <2> QED
    BY <1>1, <1>7, <2>1, Popped DEF Depth
<1> HIDE DEF f, tot
<1>13. Totals'[s] = tot /\ \A n \in Indices \ {s} : Totals'[n] = Totals[n]
  BY <1>5, <1>10, <1>11
<1>14. /\ counter \in Counts /\ counter' \in Counts /\ Pred(counter) \in Counts
       /\ spent' \in [Funcs -> Nat] /\ spent \in [Funcs -> Nat]
       /\ \A g \in Funcs : spent'[g] = spent[g] + (IF g \in timed THEN 1 ELSE 0)
       /\ \A g \in Funcs : spent[g] + 1 < Size
  BY <1>2, RetireLaw
<1>15. ProfilerType'
  <2>1. \A n \in Indices : Owner[n] = NULL => Totals'[n] = 0
    <3> SUFFICES ASSUME NEW n \in Indices, Owner[n] = NULL PROVE Totals'[n] = 0
      OBVIOUS
    <3>1. n # s
      BY <1>3, <1>5, FuncsAssumption DEF IsFirst
    <3> QED
      BY <1>13, <3>1 DEF ProfilerInv, ProfilerType
  <2> QED
    BY <1>1, <1>9, <1>10, <1>12, <1>14, <2>1 DEF ProfilerInv, ProfilerType
<1>16. Stacked'
  <2>1. \A i \in 1..(Depth - 1) : i \in 1..Depth
    BY <1>3
  <2>2. \A i \in 1..Depth' : stack'[i] = Main <=> i = 1
    BY <1>12, <2>1 DEF ProfilerInv, Stacked
  <2>3. \A i, j \in 1..Depth' : stack'[i] = stack'[j] => i = j
    BY <1>12, <2>1 DEF ProfilerInv, Stacked
  <2>4. Sorted(phase') => \A i \in 2..Depth' : stack'[i] \in Late
    <3>1. \A i \in 2..(Depth - 1) : i \in 2..Depth /\ i \in 1..(Depth - 1)
      BY <1>3
    <3> QED
      BY <1>1, <1>12, <3>1 DEF ProfilerInv, Stacked
  <2>5. Depth' # 0 /\ phase' \notin {"reset", "named"}
    BY <1>1, <1>3, <1>12 DEF ProfilerInv, Stacked
  <2> QED
    BY <1>9, <2>2, <2>3, <2>4, <2>5 DEF Stacked
<1>17. Timing'
  <2>1. ASSUME NEW g \in timed PROVE \E i \in 1..Depth' : stack'[i] = g
    <3>1. PICK i \in 1..Depth : stack[i] = g /\ i # Depth
      BY <1>1 DEF ProfilerInv, Timing, Untimed
    <3> QED
      BY <1>3, <1>12, <3>1
  <2>2. ASSUME NEW i \in 2..Depth' PROVE stack'[i] \in timed
    <3>1. i \in 2..Depth /\ i < Depth /\ i \in 1..(Depth - 1)
      BY <1>3, <1>12
    <3> QED
      BY <1>12, <3>1 DEF ProfilerInv, Timing
  <2> QED
    BY <1>1, <1>9, <2>1, <2>2 DEF Timing, Untimed
<1>18. Entered'
  BY <1>1, <1>9, <1>10 DEF ProfilerInv, Entered
<1>19. Readings'
  BY <1>9 DEF Readings
<1>20. Active = f
  BY DEF f
<1>21. Sums'
  <2> SUFFICES ASSUME NEW g \in Funcs PROVE SumOf(g)'
    BY DEF Sums
  <2>1. CASE g # f
    <3>1. Plain(g) /\ Plain(g)'
      BY <1>9, <1>20, <2>1 DEF Plain
    <3>2. \A n \in Indices : Owner[n] = g => Totals'[n] = Totals[n] /\ Currents'[n] = Currents[n]
      BY <1>5, <1>10, <1>13, <2>1 DEF IsFirst
    <3>3. /\ g \in timed <=> g \in timed
          /\ g \in timed' <=> g \in timed
          /\ torn \subseteq torn'
      BY <1>1
    <3> QED
      BY <1>2, <1>10, <3>1, <3>2, <3>3, PlainTicks
  <2>2. CASE g = f
    <3>1. SumOf(f)
      BY <1>3 DEF ProfilerInv, Sums
    <3>2. \A n : /\ Elapsed(f, n) = Gap(Pred(counter), Currents[n])
                 /\ Differs(f, n) = hook.low - Currents[n]
      BY <1>1, <1>20 DEF Elapsed, Differs
    <3>3. \A n : Elapsed(g, n)' = 0 /\ Differs(g, n)' = 0
      BY <1>1, <1>3, <1>9, <2>2 DEF Elapsed, Differs
    <3>4. spent[f] \in Nat /\ spent'[f] = spent[f] /\ spent[f] < Size
      BY <1>3, <1>14, Sizes
    <3>5. ASSUME NEW n \in Indices, IsFirst(Owner, f, n)
          PROVE  /\ f \notin torn => spent'[f] = Totals'[n] + 0
                 /\ Single(Owner, f) => Same(spent'[f], Totals'[n] + 0)
      <4>1. n = s
        BY <1>5, <3>5, FirstExists
      <4>2. Totals[s] \in Counts /\ Currents[s] \in Counts /\ Totals'[n] = tot
        BY <1>5, <1>11, <1>13, <4>1
      <4>3. /\ f \notin torn => spent[f] = Totals[s] + Gap(Pred(counter), Currents[s])
            /\ Single(Owner, f) => Same(spent[f], Totals[s] + (hook.low - Currents[s]))
        BY <3>1, <3>2, <3>5, <4>1 DEF SumOf
      <4>4. Pred(counter) \in Int
        BY <1>14 DEF Counts
      <4>5. /\ now = Pred(counter) /\ spent[f] = Totals[s] + Gap(Pred(counter), Currents[s])
                 => tot = spent[f]
            /\ Same(spent[f], Totals[s] + (hook.low - Currents[s])) => Same(spent[f], tot)
        BY <1>8, <3>4, <4>2, <4>4, Accumulates DEF tot
      <4>6. tot + 0 = tot
        <5>1. Totals' \in [Indices -> Counts]
          BY <1>10, TableLaw DEF Totals
        <5> QED
          BY <4>2, <5>1 DEF Counts
      <4> QED
        BY <1>8, <3>4, <4>2, <4>3, <4>5, <4>6
    <3>6. spent'[f] > 0
      BY <1>1, <1>4, <3>1, <3>4 DEF SumOf
    <3> QED
      BY <1>1, <1>4, <1>10, <2>2, <3>3, <3>5, <3>6 DEF SumOf
  <2> QED
    BY <2>1, <2>2
<1>22. Bounded'
  <2>1. Owed(Step) = -1 /\ Owed(Step') = 0
    BY <1>1, <1>9 DEF Owed
  <2>2. work' = work /\ work \in Nat
    BY <1>1 DEF ProfilerInv, ProfilerType
  <2>3. /\ Depth' \in Nat
        /\ 2 * Depth' + Owed(Step') + 1 + work <= 2 * Depth + Owed(Step) + work'
    BY <1>3, <1>12, <2>1, <2>2
  <2> QED
    BY <1>1, <1>2, <1>3, <2>1, <2>2, <2>3, StillBounded
<1>23. Rows'
  BY <1>1, <1>10 DEF ProfilerInv, Rows
<1>24. Entries(Owner, torn, phase)' /\ stray' = FALSE
  BY <1>1, <1>6, <1>10 DEF ProfilerInv
<1> QED
  BY <1>15, <1>16, <1>17, <1>18, <1>19, <1>21, <1>22, <1>23, <1>24 DEF ProfilerInv

(* What main has come to. *)
Phases == {"reset", "started", "greeted", "named", "wiped", "measured", "unsorted", "rows",
           "line", "loop"}

(* A function is entered, and the report goes on as it should. *)
LEMMA EntersOn ==
    ASSUME ProfilerInv, NEW f \in Funcs, Enter(f),
           UNCHANGED <<counter, table, timed, spent, torn, stray, work>>,
           \A i \in 1..Depth : stack[i] # f,
           f = Main <=> Depth = 0,
           phase' \in Phases \ {"reset", "named"}, Depth = 0 => phase' = "started",
           Sorted(phase') <=> Sorted(phase), Sorted(phase) => f \in Late,
           Wiped(phase') => Wiped(phase),
           calls' + 2 * row' + MainCallsTo(phase') = calls + 2 * row + MainCallsTo(phase) + 1,
           row' \in 0..MAX_FUNCTIONS, calls' \in 0..MaxCalls,
           Owner' = Owner => Rows'
    PROVE  ProfilerInv'
<1>1. phase' \notin {"reset", "named"}
  OBVIOUS
<1>2. /\ Stacked' /\ Timing' /\ Entered' /\ Readings' /\ Sums' /\ Bounded'
      /\ Entries(Owner, torn, phase)' /\ stray' = FALSE
      /\ counter' \in Counts /\ table' \in Tables /\ stack' \in Seq(Funcs)
      /\ hook' \in Hooks /\ timed' \subseteq Funcs /\ torn' \subseteq Funcs
      /\ spent' \in [Funcs -> Nat]
      /\ (\A n \in Indices : Owner[n] = NULL => Totals[n] = 0)'
      /\ Owner' = Owner
  BY <1>1, EntersStep
<1>3. phase' \in {"reset", "started", "greeted", "named"} \/ Wiped(phase')
  BY DEF Phases, Wiped
<1>4. work' \in 0..MaxWork
  BY DEF ProfilerInv, ProfilerType
<1>5. ProfilerType'
  BY <1>2, <1>3, <1>4 DEF ProfilerType
<1> QED
  BY <1>2, <1>5 DEF ProfilerInv

(* What touches neither the table nor the report keeps its rows. *)
LEMMA SameRows ==
    ASSUME ProfilerInv, UNCHANGED <<mapping, row, printed>>, Owner' = Owner,
           phase' \in {"reset", "started", "greeted"} \/ phase \notin {"reset", "started", "greeted"},
           Sorted(phase) => Sorted(phase'), phase' = "line" <=> phase = "line"
    PROVE  Rows'
BY DEF ProfilerInv, Rows

(* main is alone on the stack when it calls. *)
LEMMA CallsOfMain ==
    ASSUME ProfilerInv, NEW from, NEW f \in {Printf, Benchmark}, NEW to, MainCalls(from, f, to)
    PROVE  /\ f \in Funcs /\ Enter(f) /\ phase = from /\ phase' = to
           /\ \A i \in 1..Depth : stack[i] # f
           /\ f = Main <=> Depth = 0
           /\ Depth = 1
<1>1. f \in Funcs /\ f # Main
  BY FuncsAssumption
<1>2. Depth = 1 /\ stack[1] = Main
  BY DEF MainCalls, Depth
<1> QED
  BY <1>1, <1>2 DEF MainCalls

(* A call by main that adds no row. *)
LEMMA MainCallStep ==
    ASSUME ProfilerInv, NEW from, NEW f \in {Printf, Benchmark}, NEW to, MainCalls(from, f, to),
           UNCHANGED <<counter, table, mapping, row, printed, stray, calls, work, ghosts>>,
           to \in Phases \ {"reset", "named"},
           Sorted(to) <=> Sorted(from), Sorted(from) => f = Printf,
           Wiped(to) => Wiped(from),
           MainCallsTo(to) = MainCallsTo(from) + 1,
           to = "greeted" \/ from \notin {"reset", "started", "greeted"},
           "line" \notin {from, to}
    PROVE  ProfilerInv'
<1>1. /\ f \in Funcs /\ Enter(f) /\ phase = from /\ phase' = to
      /\ \A i \in 1..Depth : stack[i] # f
      /\ f = Main <=> Depth = 0
      /\ Depth = 1
  BY CallsOfMain
<1>2. UNCHANGED <<counter, table, mapping, row, printed, stray, calls, work, timed, spent, torn>>
  BY DEF ghosts
<1>3. Printf \in Late
  BY Sizes DEF RoomFor
<1>4. row \in 0..MAX_FUNCTIONS /\ calls \in 0..MaxCalls
  BY DEF ProfilerInv, ProfilerType
<1>5. Owner' = Owner => Rows'
  BY <1>1, <1>2, SameRows
<1>6. calls' + 2 * row' + MainCallsTo(phase') = calls + 2 * row + MainCallsTo(phase) + 1
  <2>1. MainCallsTo(from) \in Nat /\ calls \in Nat /\ row \in Nat
    BY <1>4, Sizes DEF MainCallsTo
  <2> QED
    BY <1>1, <1>2, <2>1
<1>7. row' \in 0..MAX_FUNCTIONS /\ calls' \in 0..MaxCalls
  BY <1>2, <1>4
<1>8. Sorted(phase) => f \in Late
  BY <1>1, <1>3
<1>9. /\ phase' \in Phases \ {"reset", "named"}
      /\ Depth = 0 => phase' = "started"
      /\ Sorted(phase') <=> Sorted(phase)
      /\ Wiped(phase') => Wiped(phase)
  BY <1>1
<1> QED
  BY <1>1, <1>2, <1>5, <1>6, <1>7, <1>8, <1>9, EntersOn

(* The calls of main. *)
LEMMA GreetStep == ProfilerInv /\ Greet => ProfilerInv'
BY MainCallStep DEF Greet, Phases, Sorted, Wiped, MainCallsTo
LEMMA RunBenchmarkStep == ProfilerInv /\ RunBenchmark => ProfilerInv'
BY MainCallStep DEF RunBenchmark, Phases, Sorted, Wiped, MainCallsTo
LEMMA ReportBeginStep == ProfilerInv /\ ReportBegin => ProfilerInv'
BY MainCallStep DEF ReportBegin, Phases, Sorted, Wiped, MainCallsTo
LEMMA ReportEndStep == ProfilerInv /\ ReportEnd => ProfilerInv'
BY MainCallStep DEF ReportEnd, Phases, Sorted, Wiped, MainCallsTo

(* main is entered. *)
LEMMA EnterMainStep == ProfilerInv /\ Start => ProfilerInv'
<1> SUFFICES ASSUME ProfilerInv, Start PROVE ProfilerInv'
  OBVIOUS
<1>1. /\ phase = "reset" /\ Enter(Main) /\ phase' = "started"
      /\ UNCHANGED <<counter, table, mapping, row, printed, stray, calls, work, timed, spent, torn>>
  BY DEF Start, ghosts
<1>2. Main \in Funcs
  BY FuncsAssumption
<1>3. Depth = 0
  BY <1>1 DEF ProfilerInv, Stacked
<1>4. row \in 0..MAX_FUNCTIONS /\ calls \in 0..MaxCalls
  BY DEF ProfilerInv, ProfilerType
<1>5. Owner' = Owner => Rows'
  <2>1. ~Sorted(phase)
    BY <1>1 DEF Sorted
  <2> QED
    BY <1>1, <2>1, SameRows
<1>6. calls' + 2 * row' + MainCallsTo(phase') = calls + 2 * row + MainCallsTo(phase) + 1
  <2>1. MainCallsTo(phase) = 0 /\ MainCallsTo(phase') = 1 /\ calls \in Nat /\ row \in Nat
    BY <1>1, <1>4, Sizes DEF MainCallsTo
  <2> QED
    BY <1>1, <2>1
<1>7. row' \in 0..MAX_FUNCTIONS /\ calls' \in 0..MaxCalls
  BY <1>1, <1>4
<1>8. /\ phase' \in Phases \ {"reset", "named"}
      /\ Depth = 0 => phase' = "started"
      /\ Sorted(phase') <=> Sorted(phase)
      /\ Sorted(phase) => Main \in Late
      /\ Wiped(phase') => Wiped(phase)
  BY <1>1 DEF Phases, Sorted, Wiped
<1>9. \A i \in 1..Depth : stack[i] # Main
  BY <1>3
<1> QED
  BY <1>1, <1>2, <1>3, <1>5, <1>6, <1>7, <1>8, <1>9, EntersOn

(* A function calls another. *)
LEMMA CallStep == ASSUME NEW f \in Funcs PROVE ProfilerInv /\ Call(f) => ProfilerInv'
<1> SUFFICES ASSUME ProfilerInv, Call(f) PROVE ProfilerInv'
  OBVIOUS
<1>1. /\ Depth > 1 /\ f \in Callees[Active] /\ f \notin ToSet(stack)
      /\ calls < MaxCalls /\ calls' = calls + 1 /\ Enter(f)
      /\ UNCHANGED <<counter, table, mapping, phase, row, printed, stray, work, timed, spent, torn>>
  BY DEF Call, ghosts, Depth, Active
<1>2. Depth \in Nat /\ (Sorted(phase) => Active \in Late)
  BY <1>1, ActiveLaw
<1>3. \A i \in 1..Depth : stack[i] # f
  BY <1>1 DEF ToSet, Depth, ProfilerInv, ProfilerType
<1>4. stack[1] = Main /\ f # Main
  <2>1. 1 \in 1..Depth
    BY <1>1, <1>2
  <2> QED
    BY <1>3, <2>1 DEF ProfilerInv, Stacked
<1>5. row \in 0..MAX_FUNCTIONS /\ calls \in 0..MaxCalls
  BY DEF ProfilerInv, ProfilerType
<1>6. Owner' = Owner => Rows'
  BY <1>1, SameRows
<1>7. calls' + 2 * row' + MainCallsTo(phase') = calls + 2 * row + MainCallsTo(phase) + 1
  <2>1. MainCallsTo(phase) \in Nat /\ calls \in Nat /\ row \in Nat
    BY <1>5, Sizes DEF MainCallsTo
  <2> QED
    BY <1>1, <2>1
<1>8. row' \in 0..MAX_FUNCTIONS /\ calls' \in 0..MaxCalls
  BY <1>1, <1>5, Sizes
<1>9. Sorted(phase) => f \in Late
  BY <1>1, <1>2, Sizes DEF RoomFor
<1>10. /\ phase' \in Phases \ {"reset", "named"}
       /\ Depth = 0 => phase' = "started"
       /\ Sorted(phase') <=> Sorted(phase)
       /\ Wiped(phase') => Wiped(phase)
       /\ f = Main <=> Depth = 0
  <2>1. phase \in Phases
    BY DEF ProfilerInv, ProfilerType, Phases, Wiped
  <2>2. phase \notin {"reset", "named"} /\ Depth # 0
    BY <1>1, <1>2 DEF ProfilerInv, Stacked
  <2> QED
    BY <1>1, <1>4, <2>1, <2>2
<1> QED
  BY <1>1, <1>3, <1>6, <1>7, <1>8, <1>9, <1>10, EntersOn

(* A row is added to the report. *)
LEMMA AppendAny ==
    ASSUME NEW S, NEW q \in Seq(S), NEW x
    PROVE  /\ Append(q, x) \in Seq(S \cup {x}) /\ Len(Append(q, x)) = Len(q) + 1
           /\ Append(q, x)[Len(q) + 1] = x
           /\ \A k \in 1..Len(q) : Append(q, x)[k] = q[k]
<1>1. q \in Seq(S \cup {x})
  OBVIOUS
<1>2. x \in S \cup {x}
  OBVIOUS
<1> DEFINE U == S \cup {x}
<1> HIDE DEF U
<1>3. q \in Seq(U) /\ x \in U
  BY <1>1, <1>2 DEF U
<1>4. /\ Append(q, x) \in Seq(U) /\ Len(Append(q, x)) = Len(q) + 1
      /\ Append(q, x)[Len(q) + 1] = x
      /\ \A k \in 1..Len(q) : Append(q, x)[k] = q[k]
  BY <1>3
<1> QED
  BY <1>4 DEF U

(* The report prints a row. *)
LEMMA ReportRowStep == ProfilerInv /\ ReportRow => ProfilerInv'
<1> SUFFICES ASSUME ProfilerInv, ReportRow PROVE ProfilerInv'
  OBVIOUS
<1> DEFINE e == [name |-> NameOf(table[row].func), func |-> table[row].func,
                 total |-> table[row].total]
<1>1. /\ MainCalls("rows", Printf, "line") /\ ~AllRows
      /\ UNCHANGED <<counter, table, mapping, row, stray, calls, work, timed, spent, torn>>
  BY DEF ReportRow, ghosts
<1>2. printed' = Append(printed, e)
  BY DEF ReportRow
<1>3. /\ Printf \in Funcs /\ Enter(Printf) /\ phase = "rows" /\ phase' = "line"
      /\ \A i \in 1..Depth : stack[i] # Printf
      /\ Printf = Main <=> Depth = 0
      /\ Depth = 1
  BY <1>1, CallsOfMain
<1>4. Printf \in Late
  BY Sizes DEF RoomFor
<1>5. row \in 0..MAX_FUNCTIONS /\ calls \in 0..MaxCalls
  BY DEF ProfilerInv, ProfilerType
<1>6. row \in Indices /\ row + 1 \in 0..MAX_FUNCTIONS /\ table[row].func # NULL
  BY <1>1, <1>5, Sizes DEF AllRows
<1>7. table[row].func = Owner[row]
  BY <1>6 DEF Owner, OwnersIn
<1>8. e.func = Owner[row] /\ e.name = IF Owner[row] \in Named THEN Owner[row] ELSE "NULL"
  <2>1. mapping = [f \in Named |-> f]
    BY <1>3 DEF ProfilerInv, Rows
  <2>2. NameOf(Owner[row]) = IF Owner[row] \in Named THEN Owner[row] ELSE "NULL"
    BY <2>1 DEF NameOf
  <2> QED
    BY <1>7, <2>2
<1> HIDE DEF e
<1>9. ASSUME Owner' = Owner PROVE Rows'
  <2>1. PICK S : printed \in Seq(S)
    BY DEF ProfilerInv, Rows
  <2>2. Len(printed) = row /\ mapping = [f \in Named |-> f]
    BY <1>3 DEF ProfilerInv, Rows
  <2>3. /\ printed' \in Seq(S \cup {e}) /\ Len(printed') = row + 1
        /\ printed'[row + 1] = e
        /\ \A k \in 1..row : printed'[k] = printed[k]
    BY <1>2, <2>1, <2>2, AppendAny
  <2>4. ASSUME NEW k \in 1..(row + 1)
        PROVE  /\ Owner[k - 1] # NULL
               /\ printed'[k].func = Owner[k - 1]
               /\ printed'[k].name = IF Owner[k - 1] \in Named THEN Owner[k - 1] ELSE "NULL"
    <3>1. CASE k = row + 1
      <4>1. k - 1 = row
        BY <1>5, <3>1
      <4> QED
        BY <1>6, <1>7, <1>8, <2>3, <3>1, <4>1
    <3>2. CASE k # row + 1
      <4>1. k \in 1..row
        BY <1>5, <3>2
      <4>2. /\ Owner[k - 1] # NULL
            /\ printed[k].func = Owner[k - 1]
            /\ printed[k].name = IF Owner[k - 1] \in Named THEN Owner[k - 1] ELSE "NULL"
        BY <4>1 DEF ProfilerInv, Rows
      <4> QED
        BY <2>3, <4>1, <4>2
    <3> QED
      BY <3>1, <3>2
  <2> QED
    BY <1>1, <1>3, <1>6, <1>9, <2>2, <2>3, <2>4 DEF Rows, Sorted
<1>10. calls' + 2 * row' + MainCallsTo(phase') = calls + 2 * row + MainCallsTo(phase) + 1
  <2>1. MainCallsTo(phase) = 4 /\ MainCallsTo(phase') = 5 /\ calls \in Nat /\ row \in Nat
    BY <1>3, <1>5, Sizes DEF MainCallsTo
  <2> QED
    BY <1>1, <2>1
<1>11. calls' \in 0..MaxCalls
  BY <1>1, <1>5
<1>12. /\ phase' \in Phases \ {"reset", "named"}
       /\ Depth = 0 => phase' = "started"
       /\ Sorted(phase') <=> Sorted(phase)
       /\ Wiped(phase') => Wiped(phase)
       /\ Sorted(phase) => Printf \in Late
  BY <1>3, <1>4 DEF Phases, Sorted, Wiped
<1>13. UNCHANGED <<counter, table, timed, spent, torn, stray, work>> /\ row' \in 0..MAX_FUNCTIONS
  BY <1>1, <1>5
<1> QED
  BY <1>3, <1>9, <1>10, <1>11, <1>12, <1>13, EntersOn

(* It ends the line. *)
LEMMA ReportLineStep == ProfilerInv /\ ReportLine => ProfilerInv'
<1> SUFFICES ASSUME ProfilerInv, ReportLine PROVE ProfilerInv'
  OBVIOUS
<1>1. /\ MainCalls("line", Printf, "rows") /\ row' = row + 1
      /\ UNCHANGED <<counter, table, mapping, printed, stray, calls, work, timed, spent, torn>>
  BY DEF ReportLine, ghosts
<1>2. /\ Printf \in Funcs /\ Enter(Printf) /\ phase = "line" /\ phase' = "rows"
      /\ \A i \in 1..Depth : stack[i] # Printf
      /\ Printf = Main <=> Depth = 0
      /\ Depth = 1
  BY <1>1, CallsOfMain
<1>3. row \in 0..MAX_FUNCTIONS /\ calls \in 0..MaxCalls
  BY DEF ProfilerInv, ProfilerType
<1>4. Len(printed) = row + 1 /\ row' \in 0..MAX_FUNCTIONS
  BY <1>1, <1>2, <1>3, Sizes DEF ProfilerInv, Rows
<1>5. Owner' = Owner => Rows'
  BY <1>1, <1>2, <1>4 DEF ProfilerInv, Rows, Sorted
<1>6. calls' + 2 * row' + MainCallsTo(phase') = calls + 2 * row + MainCallsTo(phase) + 1
  <2>1. MainCallsTo(phase) = 5 /\ MainCallsTo(phase') = 4 /\ calls \in Nat /\ row \in Nat
    BY <1>2, <1>3, Sizes DEF MainCallsTo
  <2> QED
    BY <1>1, <2>1
<1>7. /\ phase' \in Phases \ {"reset", "named"}
      /\ Depth = 0 => phase' = "started"
      /\ Sorted(phase') <=> Sorted(phase)
      /\ Wiped(phase') => Wiped(phase)
  BY <1>2 DEF Phases, Sorted, Wiped
<1>8. Sorted(phase) => Printf \in Late
  BY Sizes DEF RoomFor
<1>9. UNCHANGED <<counter, table, timed, spent, torn, stray, work>> /\ calls' \in 0..MaxCalls
  BY <1>1, <1>3
<1> QED
  BY <1>2, <1>4, <1>5, <1>6, <1>7, <1>8, <1>9, EntersOn

(* The names are given, and then the table is wiped. *)
LEMMA InitFunctionNamesStep == ProfilerInv /\ InitFunctionNames => ProfilerInv'
<1> SUFFICES ASSUME ProfilerInv, InitFunctionNames PROVE ProfilerInv'
  OBVIOUS
<1>1. /\ phase = "greeted" /\ phase' = "named" /\ Depth = 1 /\ mapping' = [f \in Named |-> f]
      /\ UNCHANGED <<counter, table, stack, hook, row, printed, stray, calls, work,
                     timed, spent, torn>>
  BY DEF InitFunctionNames, ghosts, Depth
<1>2. /\ Owner' = Owner /\ Totals' = Totals /\ Currents' = Currents
      /\ Depth' = Depth /\ Active' = Active /\ Step' = Step
  BY <1>1 DEF Owner, Totals, Currents, Depth, Active, Step
<1>3. ProfilerType'
  BY <1>1, <1>2 DEF ProfilerInv, ProfilerType
<1>4. Stacked'
  BY <1>1, <1>2 DEF ProfilerInv, Stacked, Sorted
<1>5. Timing'
  BY <1>1, <1>2 DEF ProfilerInv, Timing
<1>6. Entered' /\ Readings'
  BY <1>1, <1>2 DEF ProfilerInv, Entered, Readings, Wiped
<1>7. Sums'
  <2> SUFFICES ASSUME NEW g \in Funcs PROVE SumOf(g)'
    BY DEF Sums
  <2>1. \A n : Elapsed(g, n)' = Elapsed(g, n) /\ Differs(g, n)' = Differs(g, n)
    BY <1>1, <1>2 DEF Elapsed, Differs
  <2>2. SumOf(g)
    BY DEF ProfilerInv, Sums
  <2> QED
    BY <1>1, <1>2, <2>1, <2>2 DEF SumOf
<1>8. Bounded'
  <2>1. MainCallsTo(phase') = MainCallsTo(phase)
    BY <1>1 DEF MainCallsTo
  <2> QED
    BY <1>1, <1>2, <2>1 DEF ProfilerInv, Bounded
<1>9. Rows'
  BY <1>1, <1>2 DEF ProfilerInv, Rows, Sorted
<1>10. Entries(Owner, torn, phase)' /\ stray' = FALSE
  BY <1>1, <1>2 DEF ProfilerInv, Entries, Sorted
<1> QED
  BY <1>3, <1>4, <1>5, <1>6, <1>7, <1>8, <1>9, <1>10 DEF ProfilerInv

(* The table after initFunctions. *)
LEMMA FreeTable ==
    /\ [n \in Indices |-> Free] \in Tables
    /\ \A n \in Indices : /\ OwnersIn([m \in Indices |-> Free])[n] = NULL
                          /\ TotalsIn([m \in Indices |-> Free])[n] = 0
<1>1. Free \in TableEntries /\ Free.func = NULL /\ Free.total = 0
  BY Sizes DEF Free, TableEntries, Counts
<1> QED
  BY <1>1 DEF Tables, OwnersIn, TotalsIn

LEMMA InitFunctionsStep == ProfilerInv /\ InitFunctions => ProfilerInv'
<1> SUFFICES ASSUME ProfilerInv, InitFunctions PROVE ProfilerInv'
  OBVIOUS
<1>1. /\ phase = "named" /\ phase' = "wiped" /\ timed' = {} /\ torn' = {}
      /\ UNCHANGED <<counter, mapping, stack, hook, row, printed, stray, calls, work>>
  BY DEF InitFunctions
<1>2. table' = [n \in Indices |-> Free] /\ spent' = [f \in Funcs |-> 0]
  BY DEF InitFunctions
<1>3. table' \in Tables /\ \A n \in Indices : Owner'[n] = NULL /\ Totals'[n] = 0
  BY <1>2, FreeTable DEF Owner, Totals
<1>4. Depth = 1 /\ Step = "none"
  BY <1>1 DEF ProfilerInv, Stacked
<1>5. Depth' = Depth /\ Active' = Active /\ Step' = Step
  BY <1>1 DEF Depth, Active, Step
<1>6. \A f \in Funcs : spent'[f] = 0 /\ ~Holds(Owner', f)
  BY <1>2, <1>3, FuncsAssumption DEF Holds
<1>7. ProfilerType'
  BY <1>1, <1>2, <1>3 DEF ProfilerInv, ProfilerType, Wiped
<1>8. Stacked'
  BY <1>1, <1>4, <1>5 DEF ProfilerInv, Stacked, Sorted
<1>9. Timing'
  BY <1>1, <1>4, <1>5 DEF Timing
<1>10. Entered' /\ Readings'
  BY <1>1, <1>4, <1>5, <1>6, FuncsAssumption DEF Entered, Readings
<1>11. Sums'
  <2> SUFFICES ASSUME NEW g \in Funcs PROVE SumOf(g)'
    BY DEF Sums
  <2>1. spent'[g] = 0 /\ ~Holds(Owner', g)
    BY <1>6
  <2>2. \A n : ~IsFirst(Owner', g, n)
    BY <2>1 DEF IsFirst, Holds
  <2> QED
    BY <2>1, <2>2 DEF SumOf
<1>12. Bounded'
  <2>1. MainCallsTo(phase') = 2 /\ Owed(Step') = 0
    BY <1>1, <1>4, <1>5 DEF MainCallsTo, Owed
  <2>2. work \in Nat /\ calls \in Nat /\ row \in Nat
    BY Sizes DEF ProfilerInv, ProfilerType
  <2> QED
    BY <1>1, <1>4, <1>5, <1>6, <2>1, <2>2 DEF Bounded
<1>13. Rows'
  <2>1. mapping = [f \in Named |-> f] /\ row = 0
    BY <1>1 DEF ProfilerInv, Rows, Sorted
  <2> QED
    BY <1>1, <2>1 DEF ProfilerInv, Rows
<1>14. Entries(Owner, torn, phase)'
  <2> SUFFICES ASSUME NEW g \in Funcs
               PROVE  /\ Holds(Owner', g) => Ahead(Owner', g)
                      /\ Single(Owner', g)
                      /\ \A n \in Indices : Owner'[n] # g
    BY DEF Entries
  <2>1. \A n \in Indices : Owner'[n] # g
    BY <1>6 DEF Holds
  <2> QED
    BY <1>6, <2>1 DEF Single
<1>15. stray' = FALSE
  BY <1>1 DEF ProfilerInv
<1> QED
  BY <1>7, <1>8, <1>9, <1>10, <1>11, <1>12, <1>13, <1>14, <1>15 DEF ProfilerInv

(* The firmware after a reset. *)
LEMMA InitHolds == Init => ProfilerInv
<1> SUFFICES ASSUME Init PROVE ProfilerInv
  OBVIOUS
<1>1. /\ counter \in Counts /\ stack = <<>> /\ hook = NoHook /\ phase = "reset" /\ row = 0
      /\ printed = <<>> /\ stray = FALSE /\ calls = 0 /\ work = 0 /\ timed = {} /\ torn = {}
  BY DEF Init, Counts
<1>2. table = [n \in Indices |-> Free] /\ spent = [f \in Funcs |-> 0]
  BY DEF Init
<1>3. table \in Tables /\ \A n \in Indices : Owner[n] = NULL /\ Totals[n] = 0
  BY <1>2, FreeTable DEF Owner, Totals
<1>4. Depth = 0 /\ Step = "none" /\ hook \in Hooks /\ stack \in Seq(Funcs)
  BY <1>1, HookType DEF Depth, Step
<1>5. \A f \in Funcs : spent[f] = 0 /\ ~Holds(Owner, f)
  BY <1>2, <1>3, FuncsAssumption DEF Holds
<1>6. ProfilerType
  BY <1>1, <1>2, <1>3, <1>4, Sizes DEF ProfilerType
<1>7. Stacked /\ Timing
  BY <1>1, <1>4 DEF Stacked, Timing, Sorted
<1>8. Entered /\ Readings
  BY <1>1, <1>4, <1>5 DEF Entered, Readings, Wiped
<1>9. Sums
  <2> SUFFICES ASSUME NEW g \in Funcs PROVE SumOf(g)
    BY DEF Sums
  <2>1. spent[g] = 0 /\ ~Holds(Owner, g)
    BY <1>5
  <2>2. \A n : ~IsFirst(Owner, g, n)
    BY <2>1 DEF IsFirst, Holds
  <2> QED
    BY <2>1, <2>2 DEF SumOf
<1>10. Bounded
  <2>1. MainCallsTo(phase) = 0 /\ Owed(Step) = 0
    BY <1>1, <1>4 DEF MainCallsTo, Owed
  <2> QED
    BY <1>1, <1>4, <1>5, <2>1 DEF Bounded
<1>11. Rows
  <2>1. printed \in Seq({}) /\ Len(printed) = 0
    BY <1>1
  <2> QED
    BY <1>1, <2>1, Sizes DEF Rows
<1>12. Entries(Owner, torn, phase)
  <2> SUFFICES ASSUME NEW g \in Funcs
               PROVE  /\ Holds(Owner, g) => Ahead(Owner, g)
                      /\ Single(Owner, g)
                      /\ \A n \in Indices : Owner[n] # g
    BY DEF Entries
  <2>1. \A n \in Indices : Owner[n] # g
    BY <1>5 DEF Holds
  <2> QED
    BY <1>5, <2>1 DEF Single
<1> QED
  BY <1>1, <1>6, <1>7, <1>8, <1>9, <1>10, <1>11, <1>12 DEF ProfilerInv

(* Nothing is timed while main, of which the entry was wiped, calls nothing. *)
LEMMA Quiet ==
    ASSUME ProfilerInv, Wiped(phase), Depth = 1
    PROVE  timed = {} /\ Step = "none" /\ \A g, n : Elapsed(g, n) = 0 /\ Differs(g, n) = 0
<1>1. Step = "none"
  BY DEF ProfilerInv, Stacked, Wiped
<1>2. timed = {}
  <2> SUFFICES ASSUME NEW g \in timed PROVE FALSE
    OBVIOUS
  <2>1. PICK i \in 1..Depth : stack[i] = g
    BY DEF ProfilerInv, Timing
  <2>2. i = 1 /\ g = Main
    BY <2>1 DEF ProfilerInv, Stacked
  <2> QED
    BY <2>2 DEF ProfilerInv, Entered
<1> QED
  BY <1>1, <1>2 DEF Elapsed, Differs

(* What qsort does to the columns. *)
LEMMA ArrangedTable ==
    ASSUME NEW T \in Tables, NEW p \in Orders
    PROVE  LET U == [n \in Indices |-> T[p[n]]]
           IN  /\ U \in Tables /\ OwnersIn(U) = Arranged(OwnersIn(T), p)
               /\ \A n \in Indices : p[n] \in Indices /\ TotalsIn(U)[n] = TotalsIn(T)[p[n]]
<1>1. \A n \in Indices : p[n] \in Indices
  BY DEF Orders, Bijection, Injection
<1> QED
  BY <1>1 DEF Tables, OwnersIn, TotalsIn, Arranged

(* The report sorts the table. *)
LEMMA SortStep == ProfilerInv /\ Sort => ProfilerInv'
<1> SUFFICES ASSUME ProfilerInv, Sort PROVE ProfilerInv'
  OBVIOUS
<1>1. /\ phase = "unsorted" /\ Depth = 1 /\ phase' = "rows" /\ row' = 0
      /\ UNCHANGED <<counter, mapping, stack, hook, printed, stray, calls, work,
                     timed, spent, torn>>
  BY DEF Sort, ghosts, Depth
<1>2. PICK p \in Orders :
        /\ \A n \in Indices \ {0} : CompareUsage(table[p[n - 1]], table[p[n]])
        /\ table' = [n \in Indices |-> table[p[n]]]
  BY DEF Sort
<1>3. table \in Tables
  BY DEF ProfilerInv, ProfilerType
<1>4. /\ table' \in Tables /\ Owner' = Arranged(Owner, p)
      /\ \A n \in Indices : p[n] \in Indices /\ Totals'[n] = Totals[p[n]]
  BY <1>2, <1>3, ArrangedTable DEF Owner, Totals
<1>5. /\ Owner \in [Indices -> Funcs \cup {NULL}] /\ Totals \in [Indices -> Nat]
      /\ \A n \in Indices : Owner[n] = NULL => Totals[n] = 0
  <2>1. Totals \in [Indices -> Counts] /\ Counts \subseteq Nat
    BY <1>3, TableLaw DEF Totals, Counts
  <2> QED
    BY <1>3, <2>1, TableLaw DEF Owner, ProfilerInv, ProfilerType
<1>6. timed = {} /\ Step = "none" /\ \A g, n : Elapsed(g, n) = 0 /\ Differs(g, n) = 0
  BY <1>1, Quiet DEF Wiped
<1>7. ~Sorted(phase) /\ Entries(Owner, torn, phase)
  BY <1>1 DEF Sorted, ProfilerInv
<1>8. \A n \in Indices : Owner[n] \in Funcs \ torn => Totals[n] > 0
  <2> SUFFICES ASSUME NEW n \in Indices, Owner[n] \in Funcs \ torn PROVE Totals[n] > 0
    OBVIOUS
  <2> DEFINE g == Owner[n]
  <2>1. Holds(Owner, g) /\ Single(Owner, g)
    BY <1>7 DEF Holds, Entries
  <2>2. IsFirst(Owner, g, n)
    <3>1. \A m \in Indices : Owner[m] = g => n = m
      BY <2>1 DEF Single
    <3>2. n \in Nat
      BY Sizes
    <3> QED
      BY <3>1, <3>2 DEF IsFirst
  <2>3. SumOf(g)
    BY DEF ProfilerInv, Sums
  <2>4. spent[g] = Totals[n] + 0 /\ spent[g] > 0
    BY <1>6, <2>1, <2>2, <2>3 DEF SumOf
  <2>5. Totals[n] \in Nat
    BY <1>5
  <2> QED
    BY <2>4, <2>5
<1>9. \A n \in Indices \ {0} : Totals[p[n - 1]] >= Totals[p[n]]
  <2> SUFFICES ASSUME NEW n \in Indices \ {0} PROVE Totals[p[n - 1]] >= Totals[p[n]]
    OBVIOUS
  <2>1. n - 1 \in Indices
    BY Sizes
  <2>2. p[n] \in Indices /\ p[n - 1] \in Indices
    BY <1>4, <2>1
  <2> QED
    BY <1>2, <2>2 DEF CompareUsage, Totals, TotalsIn
<1>10. /\ Entries(Owner', torn, "rows")
       /\ \A f \in Funcs : Holds(Owner', f) <=> Holds(Owner, f)
       /\ \A f \in Funcs : \A n \in Indices : IsFirst(Owner', f, n) => IsFirst(Owner, f, p[n])
       /\ \A f \in Funcs : Single(Owner', f) /\ Single(Owner, f)
  BY <1>4, <1>5, <1>7, <1>8, <1>9, SortEntries
<1>11. Depth' = Depth /\ Active' = Active /\ Step' = Step
  BY <1>1 DEF Depth, Active, Step
<1>12. \A n \in Indices : Owner'[n] = Owner[p[n]]
  BY <1>4 DEF Arranged
<1>13. ProfilerType'
  <2>1. \A n \in Indices : Owner'[n] = NULL => Totals'[n] = 0
    BY <1>4, <1>5, <1>12
  <2>2. row' \in 0..MAX_FUNCTIONS
    BY <1>1, Sizes
  <2> QED
    BY <1>1, <1>4, <2>1, <2>2 DEF ProfilerInv, ProfilerType, Wiped
<1>14. Stacked'
  BY <1>1, <1>6, <1>11 DEF ProfilerInv, Stacked
<1>15. Timing'
  BY <1>1, <1>6, <1>11 DEF Timing
<1>16. Entered' /\ Readings'
  BY <1>1, <1>6, <1>10, <1>11, FuncsAssumption DEF ProfilerInv, Entered, Readings, Wiped
<1>17. Sums'
  <2> SUFFICES ASSUME NEW g \in Funcs PROVE SumOf(g)'
    BY DEF Sums
  <2>1. \A n : Elapsed(g, n)' = 0 /\ Differs(g, n)' = 0
    BY <1>1, <1>6, <1>11 DEF Elapsed, Differs
  <2>2. SumOf(g)
    BY DEF ProfilerInv, Sums
  <2>3. ASSUME NEW n \in Indices, IsFirst(Owner', g, n)
        PROVE  /\ g \notin torn => spent[g] = Totals'[n] + 0
               /\ Single(Owner', g) => Same(spent[g], Totals'[n] + 0)
    <3>1. IsFirst(Owner, g, p[n]) /\ p[n] \in Indices /\ Totals'[n] = Totals[p[n]]
      BY <1>4, <1>10, <2>3
    <3>2. Single(Owner, g)
      BY <1>10
    <3> QED
      BY <1>6, <2>2, <3>1, <3>2 DEF SumOf
  <2>4. Holds(Owner', g) <=> Holds(Owner, g)
    BY <1>10
  <2> QED
    BY <1>1, <1>6, <1>11, <2>1, <2>2, <2>3, <2>4 DEF SumOf
<1>18. row = 0 /\ Len(printed) = 0
  BY <1>1 DEF ProfilerInv, Rows, Sorted
<1>19. Bounded'
  <2>1. MainCallsTo(phase') = MainCallsTo(phase)
    BY <1>1 DEF MainCallsTo
  <2> QED
    BY <1>1, <1>11, <1>18, <2>1 DEF ProfilerInv, Bounded
<1>20. Rows'
  BY <1>1, <1>18 DEF ProfilerInv, Rows
<1>21. Entries(Owner, torn, phase)' /\ stray' = FALSE
  BY <1>1, <1>10 DEF ProfilerInv
<1> QED
  BY <1>13, <1>14, <1>15, <1>16, <1>17, <1>19, <1>20, <1>21 DEF ProfilerInv

LEMMA ProfilerStutters == ProfilerInv /\ UNCHANGED vars => ProfilerInv'
<1> SUFFICES ASSUME ProfilerInv, UNCHANGED vars PROVE ProfilerInv'
  OBVIOUS
<1>1. UNCHANGED <<counter, table, mapping, stack, hook, phase, row, printed, stray,
                  calls, work, timed, spent, torn>>
  BY DEF vars
<1>2. /\ Owner' = Owner /\ Totals' = Totals /\ Currents' = Currents
      /\ Depth' = Depth /\ Active' = Active /\ Step' = Step
  BY <1>1 DEF Owner, Totals, Currents, Depth, Active, Step
<1>3. ProfilerType' /\ Stacked'
  BY <1>1, <1>2 DEF ProfilerInv, ProfilerType, Stacked
<1>4. Timing' /\ Entered' /\ Readings'
  BY <1>1, <1>2 DEF ProfilerInv, Timing, Entered, Readings
<1>5. Sums'
  <2> SUFFICES ASSUME NEW g \in Funcs PROVE SumOf(g)'
    BY DEF Sums
  <2>1. \A n : Elapsed(g, n)' = Elapsed(g, n) /\ Differs(g, n)' = Differs(g, n)
    BY <1>1, <1>2 DEF Elapsed, Differs
  <2>2. SumOf(g)
    BY DEF ProfilerInv, Sums
  <2> QED
    BY <1>1, <1>2, <2>1, <2>2 DEF SumOf
<1>6. Bounded' /\ Rows' /\ Entries(Owner, torn, phase)' /\ stray' = FALSE
  BY <1>1, <1>2 DEF ProfilerInv, Bounded, Rows
<1> QED
  BY <1>3, <1>4, <1>5, <1>6 DEF ProfilerInv

(* The invariant of the profiler is one. *)
LEMMA ProfilerSteps == ProfilerInv /\ [Next]_vars => ProfilerInv'
BY EnterMainStep, GreetStep, InitFunctionNamesStep, InitFunctionsStep, RunBenchmarkStep,
   ReportBeginStep, SortStep, ReportRowStep, ReportLineStep, ReportEndStep, CallStep, WorkStep,
   EnterFindStep, EnterReadLowStep, EnterReadHighStep, ExitStep, ExitReadLowStep,
   ExitReadHighStep, ProfilerStutters DEF Next

LEMMA MeasureKeeps == MeasureSpec => []ProfilerInv
<1>1. MeasureInit => ProfilerInv
  BY InitHolds DEF MeasureInit
<1>2. ProfilerInv /\ [MeasureNext]_<<vars, clock_vars>> => ProfilerInv'
  BY ProfilerSteps, ProfilerStutters DEF MeasureNext
<1> QED
  BY <1>1, <1>2, PTL DEF MeasureSpec

-------------------------------------------------------------------------------
(* The total of a function that is not running is what was spent between its *)
(* hooks, unless a carry tore a reading.                                    *)
THEOREM CallsCounted == MeasureSpec => []EveryCallCounted
<1>1. ProfilerInv => EveryCallCounted
  <2> SUFFICES ASSUME ProfilerInv, NEW n \in Measured
               PROVE  LET f == table[n].func
                      IN  /\ OneEntry(f) => table[n].total % LowSize = spent[f] % LowSize
                          /\ f \notin torn => table[n].total = spent[f]
    BY DEF EveryCallCounted
  <2> DEFINE f == table[n].func
  <2>1. /\ n \in Indices /\ f = Owner[n] /\ table[n].total = Totals[n]
        /\ f # NULL /\ f \notin ToSet(stack)
    BY DEF Measured, Owner, OwnersIn, Totals, TotalsIn
  <2>2. /\ Owner \in [Indices -> Funcs \cup {NULL}] /\ Totals[n] \in Counts
    BY <2>1, TableLaw DEF ProfilerInv, ProfilerType, Owner, Totals
  <2> HIDE DEF f
  <2>3. f \in Funcs /\ SumOf(f) /\ spent[f] \in Nat
    BY <2>1, <2>2 DEF ProfilerInv, ProfilerType, Sums
  <2>4. \A i \in 1..Depth : stack[i] # f
    BY <2>1 DEF ToSet, Depth, ProfilerInv, ProfilerType
  <2>5. f \notin timed /\ (Depth > 0 => f # Active) /\ (Step # "none" => Depth > 0)
    <3>1. Depth > 0 => Active = stack[Depth] /\ Depth \in 1..Depth
      BY ActiveLaw
    <3> QED
      BY <2>4, <3>1, ActiveLaw DEF ProfilerInv, Timing
  <2>6. Elapsed(f, n) = 0 /\ Differs(f, n) = 0
    BY <2>5 DEF Elapsed, Differs
  <2>7. OneEntry(f) => Single(Owner, f)
    BY DEF OneEntry, Single, Owner, OwnersIn
  <2>8. Single(Owner, f) => IsFirst(Owner, f, n)
    <3> SUFFICES ASSUME Single(Owner, f) PROVE IsFirst(Owner, f, n)
      OBVIOUS
    <3>1. \A m \in Indices : Owner[m] = f => n = m
      BY <2>1 DEF Single
    <3>2. n \in Nat
      BY <2>1, Sizes
    <3> QED
      BY <2>1, <3>1, <3>2 DEF IsFirst
  <2>9. f \notin torn => Single(Owner, f)
    BY <2>3 DEF ProfilerInv, Entries
  <2>10. f \notin torn => Totals[n] = spent[f]
    BY <2>1, <2>2, <2>3, <2>6, <2>8, <2>9 DEF SumOf, Counts
  <2>11. Single(Owner, f) => Totals[n] % LowSize = spent[f] % LowSize
    <3> SUFFICES ASSUME Single(Owner, f) PROVE Totals[n] % LowSize = spent[f] % LowSize
      OBVIOUS
    <3>1. Totals[n] \in Nat
      BY <2>2 DEF Counts
    <3>2. Same(spent[f], Totals[n])
      BY <2>1, <2>3, <2>6, <2>8, <3>1 DEF SumOf
    <3> QED
      BY <2>3, <3>1, <3>2, SameLaws
  <2> QED
    BY <2>1, <2>7, <2>10, <2>11 DEF f
<1> QED
  BY <1>1, MeasureKeeps, PTL

(* The hooks find what they need, in every order of the table. *)
THEOREM HooksFind == MeasureSpec => []HooksFindTheirEntry
<1>1. ProfilerInv => HooksFindTheirEntry
  <2> SUFFICES ASSUME ProfilerInv, NEW f \in Funcs \ torn PROVE OneEntry(f)
    BY DEF HooksFindTheirEntry, ProfilerInv
  <2>1. Single(Owner, f)
    BY DEF ProfilerInv, Entries
  <2> QED
    BY <2>1 DEF Single, OneEntry, Owner, OwnersIn
<1> QED
  BY <1>1, MeasureKeeps, PTL

(* A function has one row under its name, and when the loop of the report    *)
(* ends all that was entered since initFunctions has one.                    *)
LEMMA RowsAreComplete == MeasureSpec => []RowsComplete
<1>1. ProfilerInv => RowsComplete
  <2> SUFFICES ASSUME ProfilerInv PROVE RowsComplete
    OBVIOUS
  <2>1. \A f \in Funcs \ torn : Single(Owner, f) /\ (Holds(Owner, f) => Ahead(Owner, f))
    BY DEF ProfilerInv, Entries
  <2>2. ASSUME NEW n \in DOMAIN printed, NEW m \in DOMAIN printed,
               printed[n].func = printed[m].func, printed[n].func \notin torn
        PROVE  n = m
    <3>1. /\ n - 1 \in Indices /\ m - 1 \in Indices /\ Owner[n - 1] = Owner[m - 1]
          /\ Owner[n - 1] \in Funcs \ torn
      BY <2>2, RowLaw
    <3>2. n - 1 = m - 1
      BY <2>1, <3>1 DEF Single
    <3>3. n \in Int /\ m \in Int
      BY RowLaw
    <3> QED
      BY <3>2, <3>3
  <2>3. \A n \in DOMAIN printed : printed[n].func \in Named => printed[n].name = printed[n].func
    BY RowLaw
  <2>4. ASSUME phase = "rows", stack = <<Main>>, AllRows
        PROVE  {printed[n].func : n \in DOMAIN printed} \ torn =
                   {f \in Funcs \ torn : spent[f] > 0}
    <3>1. Depth = 1 /\ Sorted(phase) /\ Wiped(phase)
      BY <2>4 DEF Depth, Sorted, Wiped
    <3>2. Step = "none"
      BY <3>1, Quiet
    <3>3. DOMAIN printed = 1..row /\ row \in 0..MAX_FUNCTIONS
      BY <2>4 DEF ProfilerInv, ProfilerType, Rows
    <3>4. \A f \in Funcs : Holds(Owner, f) <=> spent[f] > 0
      <4> SUFFICES ASSUME NEW f \in Funcs PROVE Holds(Owner, f) <=> spent[f] > 0
        OBVIOUS
      <4>1. SumOf(f) /\ spent[f] \in Nat
        BY DEF ProfilerInv, ProfilerType, Sums
      <4> QED
        BY <3>2, <4>1 DEF SumOf
    <3>5. row # MAX_FUNCTIONS => row \in Indices /\ Owner[row] = NULL
      BY <2>4, <3>3, Sizes DEF AllRows, Owner, OwnersIn
    <3>6. ASSUME NEW f \in Funcs \ torn, spent[f] > 0
          PROVE  \E n \in 1..row : printed[n].func = f
      <4>1. PICK k \in Indices : Owner[k] = f /\ \A m \in Indices : Owner[m] = NULL => k < m
        BY <2>1, <3>4, <3>6 DEF Ahead
      <4>2. k < row
        BY <3>3, <3>5, <4>1, Sizes
      <4>3. k + 1 \in 1..row /\ (k + 1) - 1 = k
        BY <3>3, <4>2, Sizes
      <4>4. printed[k + 1].func = Owner[(k + 1) - 1]
        BY <3>3, <4>3, RowLaw
      <4> QED
        BY <4>1, <4>3, <4>4
    <3>7. ASSUME NEW n \in 1..row
          PROVE  printed[n].func \in Funcs /\ spent[printed[n].func] > 0
      <4>1. n - 1 \in Indices /\ Owner[n - 1] \in Funcs /\ printed[n].func = Owner[n - 1]
        BY <3>3, RowLaw
      <4>2. Holds(Owner, Owner[n - 1])
        BY <4>1 DEF Holds
      <4> QED
        BY <3>4, <4>1, <4>2
    <3> QED
      BY <3>3, <3>6, <3>7
  <2> QED
    BY <2>2, <2>3, <2>4 DEF RowsComplete
<1> QED
  BY <1>1, MeasureKeeps, PTL

(* What the report does not call keeps the total that it was sorted by, and  *)
(* that of another function only grows, unless a reading of it is torn.      *)
Kept(f) == f \in Funcs \ Late
Grows(f, t) == f \notin Late \cap t
InOrder(O, T, rows, t) ==
    /\ \A n, m \in Indices : n < m /\ Kept(O[m]) /\ Grows(O[n], t) => T[n] >= T[m]
    /\ \A k \in DOMAIN rows : \A m \in Indices :
          m >= k /\ Kept(O[m]) /\ Grows(rows[k].func, t) => rows[k].total >= T[m]
    /\ \A k \in DOMAIN rows : Kept(rows[k].func) => rows[k].total = T[k - 1]
Ordered == Sorted(phase) => InOrder(Owner, Totals, printed, torn)

(* The order survives what the hooks do to the table. *)
LEMMA StaysInOrder ==
    ASSUME NEW O, NEW T \in [Indices -> Nat], NEW rows, NEW t, InOrder(O, T, rows, t),
           NEW P, NEW U \in [Indices -> Nat], NEW u, t \subseteq u,
           \A k \in DOMAIN rows : k - 1 \in Indices /\ O[k - 1] = rows[k].func,
           \A n \in Indices : Kept(P[n]) => O[n] = P[n],
           \A n \in Indices : Kept(O[n]) => U[n] = T[n],
           \A n \in Indices : Grows(P[n], u) => Grows(O[n], t) /\ U[n] >= T[n]
    PROVE  InOrder(P, U, rows, u)
<1>1. ASSUME NEW n \in Indices, NEW m \in Indices, n < m, Kept(P[m]), Grows(P[n], u)
      PROVE  U[n] >= U[m]
  <2>1. Kept(O[m]) /\ U[m] = T[m]
    BY <1>1
  <2>2. Grows(O[n], t) /\ U[n] >= T[n]
    BY <1>1
  <2>3. T[n] >= T[m]
    BY <1>1, <2>1, <2>2 DEF InOrder
  <2>4. T[n] \in Nat /\ T[m] \in Nat /\ U[n] \in Nat
    OBVIOUS
  <2> QED
    BY <2>1, <2>2, <2>3, <2>4
<1>2. ASSUME NEW k \in DOMAIN rows, NEW m \in Indices, m >= k, Kept(P[m]), Grows(rows[k].func, u)
      PROVE  rows[k].total >= U[m]
  <2>1. Kept(O[m]) /\ U[m] = T[m]
    BY <1>2
  <2>2. Grows(rows[k].func, t)
    BY <1>2 DEF Grows
  <2> QED
    BY <1>2, <2>1, <2>2 DEF InOrder
<1>3. ASSUME NEW k \in DOMAIN rows, Kept(rows[k].func) PROVE rows[k].total = U[k - 1]
  <2>1. k - 1 \in Indices /\ Kept(O[k - 1]) /\ rows[k].total = T[k - 1]
    BY <1>3 DEF InOrder
  <2> QED
    BY <2>1
<1> QED
  BY <1>1, <1>2, <1>3 DEF InOrder

(* Every step keeps the order of the report. *)
LEMMA OrderedStep == ProfilerInv /\ ProfilerInv' /\ Ordered /\ [Next]_vars => Ordered'
<1> SUFFICES ASSUME ProfilerInv, ProfilerInv', Ordered, [Next]_vars, Sorted(phase')
             PROVE  InOrder(Owner', Totals', printed', torn')
  BY DEF Ordered
<1>1. /\ table \in Tables /\ table' \in Tables
      /\ Owner \in [Indices -> Funcs \cup {NULL}]
      /\ Totals \in [Indices -> Nat] /\ Totals' \in [Indices -> Nat]
  <2>1. table \in Tables /\ table' \in Tables
    BY DEF ProfilerInv, ProfilerType
  <2>2. Counts \subseteq Nat
    BY DEF Counts
  <2> QED
    BY <2>1, <2>2, TableLaw DEF Owner, Totals
<1>2. \A k \in DOMAIN printed : k - 1 \in Indices /\ Owner[k - 1] = printed[k].func
  BY RowLaw
<1>3. Sorted(phase) => InOrder(Owner, Totals, printed, torn)
  BY DEF Ordered
<1>4. ASSUME Sorted(phase), UNCHANGED printed, Owner' = Owner, Totals' = Totals, torn \subseteq torn'
      PROVE  InOrder(Owner', Totals', printed', torn')
  <2>1. \A n \in Indices : Grows(Owner[n], torn') => Grows(Owner[n], torn) /\ Totals[n] >= Totals[n]
    BY <1>1, <1>4 DEF Grows
  <2> QED
    BY <1>1, <1>2, <1>3, <1>4, <2>1, StaysInOrder
<1>5. ASSUME Sorted(phase), UNCHANGED <<table, printed>>, torn \subseteq torn'
      PROVE  InOrder(Owner', Totals', printed', torn')
  BY <1>4, <1>5 DEF Owner, Totals
<1>6. CASE Start \/ Greet \/ InitFunctionNames \/ InitFunctions \/ RunBenchmark \/ ReportBegin
  BY <1>6 DEF Start, Greet, InitFunctionNames, InitFunctions, RunBenchmark, ReportBegin,
              MainCalls, Sorted
<1>7. CASE Sort
  <2>1. /\ phase = "unsorted"
        /\ UNCHANGED printed
    BY <1>7 DEF Sort
  <2>2. PICK p \in Orders :
          /\ \A n \in Indices \ {0} : CompareUsage(table[p[n - 1]], table[p[n]])
          /\ table' = [n \in Indices |-> table[p[n]]]
    BY <1>7 DEF Sort
  <2>3. \A n \in Indices : p[n] \in Indices /\ Totals'[n] = Totals[p[n]]
    BY <1>1, <2>2, ArrangedTable DEF Owner, Totals
  <2>4. \A n \in Indices \ {0} : Totals'[n - 1] >= Totals'[n]
    <3> SUFFICES ASSUME NEW n \in Indices \ {0} PROVE Totals'[n - 1] >= Totals'[n]
      OBVIOUS
    <3>1. n - 1 \in Indices
      BY Sizes
    <3>2. Totals[p[n - 1]] >= Totals[p[n]]
      BY <2>2, <2>3, <3>1 DEF CompareUsage, Totals, TotalsIn
    <3> QED
      BY <2>3, <3>1, <3>2
  <2>5. \A n, m \in Indices : n <= m => Totals'[n] >= Totals'[m]
    BY <1>1, <2>4, Descending
  <2>6. \A n, m \in Indices : n < m => n <= m
    BY Sizes
  <2>7. DOMAIN printed' = {}
    <3>1. Len(printed) = 0 /\ DOMAIN printed = 1..Len(printed)
      BY <2>1, RowLaw DEF ProfilerInv, Rows, Sorted
    <3> QED
      BY <2>1, <3>1
  <2> QED
    BY <2>5, <2>6, <2>7 DEF InOrder
<1>8. CASE ReportRow
  <2> DEFINE e == [name |-> NameOf(table[row].func), func |-> table[row].func,
                   total |-> table[row].total]
  <2>1. phase = "rows" /\ ~AllRows /\ printed' = Append(printed, e) /\ UNCHANGED <<table, torn>>
    BY <1>8 DEF ReportRow, MainCalls, ghosts
  <2>2. row \in Indices /\ row \in Nat
    BY <2>1, Sizes DEF AllRows, ProfilerInv, ProfilerType
  <2>3. e.func = Owner[row] /\ e.total = Totals[row]
    BY <2>2 DEF Owner, OwnersIn, Totals, TotalsIn
  <2> HIDE DEF e
  <2>4. PICK S : printed \in Seq(S)
    BY DEF ProfilerInv, Rows
  <2>5. Len(printed) = row
    BY <2>1 DEF ProfilerInv, Rows
  <2>6. /\ DOMAIN printed = 1..row /\ DOMAIN printed' = 1..(row + 1)
        /\ printed'[row + 1] = e
        /\ \A k \in 1..row : printed'[k] = printed[k]
    BY <2>1, <2>4, <2>5, AppendAny
  <2>7. Owner' = Owner /\ Totals' = Totals /\ torn' = torn
    BY <2>1 DEF Owner, Totals
  <2>8. InOrder(Owner, Totals, printed, torn)
    BY <1>3, <2>1 DEF Sorted
  <2>9. \A k \in 1..(row + 1) : k \in 1..row \/ k = row + 1
    BY <2>2
  <2>10. ASSUME NEW k \in 1..(row + 1), NEW m \in Indices, m >= k, Kept(Owner[m]),
                Grows(printed'[k].func, torn)
         PROVE  printed'[k].total >= Totals[m]
    <3>1. CASE k \in 1..row
      BY <2>6, <2>8, <2>10, <3>1 DEF InOrder
    <3>2. CASE k = row + 1
      <4>1. row < m
        BY <2>2, <2>10, <3>2, Sizes
      <4>2. Grows(Owner[row], torn)
        BY <2>3, <2>6, <2>10, <3>2
      <4>3. Totals[row] >= Totals[m]
        BY <2>2, <2>8, <2>10, <4>1, <4>2 DEF InOrder
      <4> QED
        BY <2>3, <2>6, <3>2, <4>3
    <3> QED
      BY <2>9, <3>1, <3>2
  <2>11. ASSUME NEW k \in 1..(row + 1), Kept(printed'[k].func)
         PROVE  printed'[k].total = Totals[k - 1]
    <3>1. CASE k \in 1..row
      BY <2>6, <2>8, <2>11, <3>1 DEF InOrder
    <3>2. CASE k = row + 1
      <4>1. k - 1 = row
        BY <2>2, <3>2
      <4> QED
        BY <2>3, <2>6, <3>2, <4>1
    <3> QED
      BY <2>9, <3>1, <3>2
  <2>12. \A n, m \in Indices : n < m /\ Kept(Owner[m]) /\ Grows(Owner[n], torn) => Totals[n] >= Totals[m]
    BY <2>8 DEF InOrder
  <2> QED
    BY <2>6, <2>7, <2>10, <2>11, <2>12 DEF InOrder
<1>9. CASE ReportLine \/ ReportEnd
  BY <1>5, <1>9 DEF ReportLine, ReportEnd, MainCalls, ghosts, Sorted
<1>10. CASE \E f \in Funcs : Call(f)
  BY <1>5, <1>10 DEF Call, ghosts
<1>11. CASE Work \/ Exit
  BY <1>5, <1>11 DEF Work, Exit, ghosts
<1>12. CASE EnterReadLow \/ ExitReadLow
  BY <1>5, <1>12 DEF EnterReadLow, ExitReadLow, Carried
<1>13. CASE UNCHANGED vars
  BY <1>5, <1>13 DEF vars
<1>14. CASE EnterFind
  <2> DEFINE f == Active
             s == SlotOf(f)
  <2>1. /\ Step = "enter" /\ UNCHANGED <<stack, phase, printed, torn>>
        /\ stray' = (stray \/ s \notin Indices \ {MAX_FUNCTIONS - 1})
        /\ table' = FuncPut(table, s, f)
    BY <1>14 DEF EnterFind, Step, Active, ghosts, FuncPut
  <2>2. Sorted(phase) /\ f \in Funcs /\ f \in Late
    BY <2>1, ActiveLaw
  <2>3. s \in Indices
    BY <2>1 DEF ProfilerInv
  <2>4. s = FirstWith({f, NULL}) /\ s # -1
    BY <2>3, Sizes DEF SlotOf
  <2> HIDE DEF f, s
  <2>5. Owner[s] \in {f, NULL}
    BY <2>4, FirstWithLaw
  <2>6. Owner' = [Owner EXCEPT ![s] = f] /\ Totals' = Totals
    BY <1>1, <2>1, <2>2, <2>3, PutFunc DEF Owner, Totals
  <2>7. Owner'[s] = f /\ \A n \in Indices \ {s} : Owner'[n] = Owner[n]
    BY <1>1, <2>3, <2>6
  <2>8. /\ ~Kept(f) /\ ~Kept(NULL) /\ Grows(NULL, torn)
    BY <2>2, FuncsAssumption, Sizes DEF Kept, Grows
  <2>9. \A n \in Indices : Kept(Owner'[n]) => Owner[n] = Owner'[n]
    BY <2>7, <2>8
  <2>10. \A n \in Indices : Grows(Owner'[n], torn) => Grows(Owner[n], torn) /\ Totals'[n] >= Totals[n]
    <3>1. \A n \in Indices : Totals'[n] >= Totals[n]
      BY <1>1, <2>6
    <3> QED
      BY <2>5, <2>7, <2>8, <3>1
  <2>11. InOrder(Owner, Totals, printed, torn) /\ torn' = torn /\ printed' = printed
    BY <1>3, <2>1, <2>2
  <2> QED
    BY <1>1, <1>2, <2>6, <2>9, <2>10, <2>11, StaysInOrder
<1>15. CASE EnterReadHigh
  <2> DEFINE s == hook.at
             now == Now(hook.low, High)
  <2>1. /\ Step = "enter_high" /\ UNCHANGED <<phase, printed, torn>>
        /\ table' = CurrentPut(table, s, now)
    BY <1>15 DEF EnterReadHigh, Step, CurrentPut
  <2>2. now \in Counts
    BY <2>1, Reading
  <2>3. s \in Indices
    BY HookType DEF ProfilerInv, ProfilerType
  <2> HIDE DEF s, now
  <2>4. Owner' = Owner /\ Totals' = Totals
    BY <1>1, <2>1, <2>2, <2>3, PutCurrent DEF Owner, Totals
  <2> QED
    BY <1>4, <2>1, <2>4
<1>16. CASE ExitReadHigh
  <2> DEFINE f == Active
             s == FirstWith({f})
             now == Now(hook.low, High)
  <2>1. /\ Step = "exit_high" /\ Step' = "none" /\ Retire(timed)
        /\ UNCHANGED <<phase, printed, torn, timed>>
    BY <1>16, HookType DEF ExitReadHigh, Step
  <2>2. Sorted(phase) /\ f \in Funcs /\ f \in Late /\ f \notin timed
    BY <2>1, ActiveLaw DEF Untimed
  <2>3. s # -1 /\ table' = TotalPut(table, s, now)
    <3>1. s = FirstWith({Last(stack)})
      BY DEF Active
    <3>2. stray' = FALSE
      BY DEF ProfilerInv
    <3> HIDE DEF f, s
    <3> QED
      BY <1>16, <3>1, <3>2 DEF ExitReadHigh, TotalPut
  <2>4. now \in Counts
    BY <2>1, Reading
  <2> HIDE DEF f, s, now
  <2>5. s \in Indices /\ Owner[s] = f /\ IsFirst(Owner, f, s)
    BY <2>3, FirstWithLaw DEF s, IsFirst
  <2> DEFINE c == (Totals[s] + now - Currents[s] + Size) % Size
  <2>6. Owner' = Owner /\ Totals' = [Totals EXCEPT ![s] = c]
    BY <1>1, <2>3, <2>4, <2>5, PutTotal DEF Owner, Totals, Currents
  <2> HIDE DEF c
  <2>7. \A n \in Indices \ {s} : Totals'[n] = Totals[n]
    BY <1>1, <2>5, <2>6
  <2>8. f \notin torn => Totals'[s] >= Totals[s]
    <3> SUFFICES ASSUME NEW g \in Funcs, g = f, g \notin torn PROVE Totals'[s] >= Totals[s]
      BY <2>2
    <3>1. SumOf(g) /\ SumOf(g)'
      BY DEF ProfilerInv, Sums
    <3>2. \A n : Elapsed(g, n) = Gap(Pred(counter), Currents[n])
      BY <2>1 DEF Elapsed, f
    <3>3. \A n : Elapsed(g, n)' = 0
      BY <2>1, <2>2 DEF Elapsed
    <3>4. spent[g] = Totals[s] + Gap(Pred(counter), Currents[s])
      BY <2>5, <3>1, <3>2 DEF SumOf
    <3>5. spent'[g] = Totals'[s] + 0
      BY <2>1, <2>5, <2>6, <3>1, <3>3 DEF SumOf
    <3>6. spent'[g] = spent[g] + 0 /\ spent[g] \in Nat /\ Pred(counter) \in Counts
      BY <2>1, <2>2, RetireLaw
    <3>7. Gap(Pred(counter), Currents[s]) \in Nat
      <4>1. Currents \in [Indices -> Counts]
        BY <1>1, TableLaw DEF Currents
      <4>2. Currents[s] \in Counts
        BY <2>5, <4>1
      <4> DEFINE x == Pred(counter)
                 y == Currents[s]
      <4>3. x \in 0..(Size - 1) /\ y \in 0..(Size - 1) /\ Size \in Nat
        BY <3>6, <4>2, Sizes DEF Counts
      <4> HIDE DEF x, y
      <4>4. Gap(x, y) \in Nat
        BY <4>3 DEF Gap
      <4> QED
        BY <4>4 DEF x, y
    <3> QED
      BY <1>1, <2>5, <3>4, <3>5, <3>6, <3>7
  <2>9. ~Kept(f)
    BY <2>2 DEF Kept
  <2>10. \A n \in Indices : Grows(Owner[n], torn) => Totals'[n] >= Totals[n]
    <3> SUFFICES ASSUME NEW n \in Indices, Grows(Owner[n], torn) PROVE Totals'[n] >= Totals[n]
      OBVIOUS
    <3>1. CASE n = s
      BY <2>2, <2>5, <2>8, <3>1 DEF Grows
    <3>2. CASE n # s
      BY <1>1, <2>7, <3>2
    <3> QED
      BY <3>1, <3>2
  <2>11. \A n \in Indices : Kept(Owner[n]) => Totals'[n] = Totals[n]
    BY <2>5, <2>7, <2>9
  <2>12. InOrder(Owner, Totals, printed, torn) /\ torn' = torn /\ printed' = printed
    BY <1>3, <2>1, <2>2
  <2> QED
    BY <1>1, <1>2, <2>6, <2>10, <2>11, <2>12, StaysInOrder
<1> QED
  BY <1>6, <1>7, <1>8, <1>9, <1>10, <1>11, <1>12, <1>13, <1>14, <1>15, <1>16 DEF Next

(* The rows come with the largest total first, although the hooks go on      *)
(* counting into the table while it is printed.                              *)
LEMMA RowsInOrder == MeasureSpec => []LargestFirst
<1>1. MeasureInit => Ordered
  BY DEF MeasureInit, Init, Ordered, Sorted
<1>2. ProfilerInv /\ ProfilerInv' /\ Ordered /\ [MeasureNext]_<<vars, clock_vars>> => Ordered'
  <2> SUFFICES ASSUME ProfilerInv, ProfilerInv', Ordered, [MeasureNext]_<<vars, clock_vars>>
               PROVE  Ordered'
    OBVIOUS
  <2>1. [Next]_vars
    BY DEF MeasureNext
  <2> QED
    BY <2>1, OrderedStep
<1>3. ProfilerInv /\ Ordered => LargestFirst
  <2> SUFFICES ASSUME ProfilerInv, Ordered, NEW n \in DOMAIN printed, NEW m \in DOMAIN printed,
                      n < m, printed[m].func \notin ReportCalls,
                      printed[n].func \notin ReportCalls \cap torn
               PROVE  printed[n].total >= printed[m].total
    BY DEF LargestFirst
  <2>1. Sorted(phase)
    <3> SUFFICES ASSUME ~Sorted(phase) PROVE FALSE
      OBVIOUS
    <3>1. Len(printed) = 0 /\ DOMAIN printed = 1..Len(printed)
      BY RowLaw DEF ProfilerInv, Rows, Sorted
    <3> QED
      BY <3>1
  <2>2. InOrder(Owner, Totals, printed, torn)
    BY <2>1 DEF Ordered
  <2>3. /\ m - 1 \in Indices /\ Owner[m - 1] = printed[m].func /\ Owner[m - 1] \in Funcs
        /\ n \in Int /\ m \in Int
    BY RowLaw
  <2>4. Kept(printed[m].func) /\ Grows(printed[n].func, torn)
    BY <2>3 DEF Kept, Grows, Late
  <2>5. printed[m].total = Totals[m - 1]
    BY <2>2, <2>4 DEF InOrder
  <2>6. m - 1 >= n
    BY <2>3
  <2>7. printed[n].total >= Totals[m - 1]
    BY <2>2, <2>3, <2>4, <2>6 DEF InOrder
  <2> QED
    BY <2>5, <2>7
<1> QED
  BY <1>1, <1>2, <1>3, MeasureKeeps, PTL DEF MeasureSpec

(* So the report has what it should, in the order in which it should.        *)
THEOREM ReportWhole == MeasureSpec => []ReportComplete
<1>1. RowsComplete /\ LargestFirst => ReportComplete
  BY DEF ReportComplete
<1> QED
  BY <1>1, RowsAreComplete, RowsInOrder, PTL

-------------------------------------------------------------------------------
(* The startup code, which shares nothing with what main measures. *)

(* Types. *)
ProgramPcs == {"_start", "bss_clear_loop", "bss_clear_end", "main"}

(* Where a handler may have let interrupts in, and the other places in it.  *)
Interruptible == {"exception_handler", "load", "mie", "mstatus"}
Wrapper == Interruptible \cup {"mepc", "restore"}
Pcs == ProgramPcs \cup Wrapper \cup {"exc_wrapper"}

MStatus == [MIE : BOOLEAN, MPIE : BOOLEAN]
Values == {"unknown", "frame", "mcause", "clobbered"} \cup Pcs \cup Int \cup BOOLEAN \cup MStatus
Contexts == [pc : Pcs, regs : [Registers -> Values], mie : BOOLEAN, MIE : BOOLEAN]
Frames == [regs : [SavedByWrapper -> Values], mie : BOOLEAN, mstatus : MStatus,
           mepc : Pcs]

StartupType ==
    /\ pc \in Pcs
    /\ regs \in [Registers -> Values]
    /\ mie \in BOOLEAN
    /\ mstatus \in MStatus
    /\ mepc \in Pcs \cup {"unknown"}
    /\ bss_end \in Nat
    /\ frames \in Seq(Frames)
    /\ steps \in Nat
    /\ interrupted \in Seq(Contexts)

-------------------------------------------------------------------------------
(* What the wrapper puts on the stack when c is interrupted. *)
FrameOf(c) ==
    [regs |-> [r \in SavedByWrapper |-> c.regs[r]], mie |-> c.mie,
     mstatus |-> [MIE |-> FALSE, MPIE |-> c.MIE], mepc |-> c.pc]

(* c is at work on a trap that interrupted d: it has kept what the wrapper  *)
(* does not save, and restores, in their order, the csrs of d.             *)
Handles(c, d) ==
    /\ c.regs["s1"] = d.regs["s1"]
    /\ c.pc \in {"mie", "mstatus", "mepc"} =>
           /\ c.regs["t0"] = d.mie
           /\ c.regs["t1"] = [MIE |-> FALSE, MPIE |-> d.MIE]
           /\ c.regs["t2"] = d.pc
    /\ c.pc \in {"mstatus", "mepc", "restore"} => c.mie = d.mie

Top == interrupted[Len(interrupted)]

(* Every trap but the first was taken while the one before was handled.    *)
Nested ==
    \A n \in 1..Len(interrupted) :
        IF n = 1 THEN interrupted[n].pc \in ProgramPcs
        ELSE /\ interrupted[n].pc \in Interruptible
             /\ Handles(interrupted[n], interrupted[n - 1])

(* A frame on the stack for every trap that the wrapper has seen. *)
Framed ==
    /\ Len(frames) = IF pc = "exc_wrapper" THEN Len(interrupted) - 1
                     ELSE Len(interrupted)
    /\ \A n \in 1..Len(frames) : frames[n] = FrameOf(interrupted[n])

(* The trap that is being handled. *)
Current ==
    IF Len(interrupted) = 0 THEN pc \in ProgramPcs
    ELSE /\ pc \notin ProgramPcs
         /\ pc = "exc_wrapper" =>
                regs = Top.regs /\ mie = Top.mie /\ mepc = Top.pc
         /\ pc # "exc_wrapper" => Handles(Running, Top)
         /\ pc \in {"exc_wrapper", "mepc", "restore"} =>
                mstatus = [MIE |-> FALSE, MPIE |-> Top.MIE]
         /\ pc = "restore" => mepc = Top.pc

(* How far bss has been cleared, and where main returns to: of the program  *)
(* itself, whether or not it is interrupted.                               *)
Booted(c) ==
    /\ c.pc = "bss_clear_loop" =>
           /\ c.regs["t1"] \in 0..bss_end
           /\ \A b \in 0..(c.regs["t1"] - 1) : mem[b] = "zero"
    /\ c.pc = "bss_clear_end" \/ (c.pc = "main" /\ steps = 0) =>
           \A b \in 0..(bss_end - 1) : mem[b] = "zero"
    /\ c.pc = "main" => c.regs["ra"] = "_start"

Boot ==
    /\ Booted(Running)
    /\ \A n \in 1..Len(interrupted) : Booted(interrupted[n])

(* No byte is written but those of bss and of one word at its end. *)
OnlyBss ==
    /\ DOMAIN mem = -1..(bss_end + 2 * WordBytes)
    /\ \A b \in DOMAIN mem : b < 0 \/ b >= bss_end + WordBytes => mem[b] = "loaded"

StartupInv == StartupType /\ Nested /\ Framed /\ Current /\ Boot /\ OnlyBss

-------------------------------------------------------------------------------
LEMMA StartupInit ==
    ASSUME PowerOn PROVE StartupInv
<1>1. regs \in [Registers -> Values]
  BY DEF PowerOn, Values
<1>2. bss_end \in Nat /\ pc = "_start"
  BY SizesAssumption DEF PowerOn, Vector
<1>3. StartupType
  <2>1. mstatus \in MStatus /\ mie \in BOOLEAN /\ mepc \in Pcs \cup {"unknown"}
    BY DEF PowerOn, MStatus
  <2>2. frames \in Seq(Frames) /\ interrupted \in Seq(Contexts) /\ steps \in Nat
    BY DEF PowerOn
  <2> QED
    BY <1>1, <1>2, <2>1, <2>2 DEF StartupType, Pcs, ProgramPcs
<1>4. Len(frames) = 0 /\ Len(interrupted) = 0
  BY DEF PowerOn
<1>5. Nested /\ Framed /\ Current /\ Boot
  BY <1>2, <1>4 DEF Nested, Framed, Current, Boot, Booted, Running, ProgramPcs
<1>6. OnlyBss
  BY DEF PowerOn, OnlyBss
<1> QED
  BY <1>3, <1>5, <1>6 DEF StartupInv

(* Registers that are set, and those that keep their values. *)
LEMMA PutType ==
    ASSUME regs \in [Registers -> Values], NEW rs,
           \A r \in DOMAIN rs : rs[r] \in Values
    PROVE  /\ Put(rs) \in [Registers -> Values]
           /\ \A r \in Registers : Put(rs)[r] = IF r \in DOMAIN rs THEN rs[r] ELSE regs[r]
BY DEF Put

-------------------------------------------------------------------------------
(* The steps of the program itself: nothing is interrupted then. *)
LEMMA ProgramIdle ==
    ASSUME StartupInv, pc \in ProgramPcs
    PROVE  Len(interrupted) = 0 /\ Len(frames) = 0
BY DEF StartupInv, StartupType, Current, Framed, ProgramPcs

LEMMA ProgramStep ==
    ASSUME StartupInv, pc \in ProgramPcs, pc' \in ProgramPcs, UNCHANGED interrupted,
           Len(frames') = 0, StartupType', Booted(Running)', OnlyBss'
    PROVE  StartupInv'
<1>1. Len(interrupted) = 0
  BY ProgramIdle
<1>2. pc' # "exc_wrapper"
  BY DEF ProgramPcs
<1>3. Nested' /\ Framed' /\ Current'
  BY <1>1, <1>2 DEF Nested, Framed, Current
<1>4. Boot'
  BY <1>1 DEF Boot
<1> QED
  BY <1>3, <1>4 DEF StartupInv

LEMMA StartStep == StartupInv /\ StartUp => StartupInv'
<1> SUFFICES ASSUME StartupInv, StartUp PROVE StartupInv'
  OBVIOUS
<1> USE DEF StartupInv, StartupType
<1>1. regs' \in [Registers -> Values] /\ regs'["t1"] = 0
  <2>1. 0 \in Values /\ bss_end \in Values
    BY DEF Values
  <2> QED
    BY <2>1, PutType DEF StartUp, Registers, CallerSaved
<1>2. StartupType'
  BY <1>1 DEF StartUp, Pcs, ProgramPcs
<1>3. pc \in ProgramPcs /\ pc' \in ProgramPcs /\ pc' # "main" /\ Len(frames') = 0
  BY DEF StartUp, ProgramPcs
<1>4. Booted(Running)'
  BY <1>1, <1>3 DEF StartUp, Booted, Running
<1>5. OnlyBss'
  BY DEF StartUp, OnlyBss
<1> QED
  BY <1>2, <1>3, <1>4, <1>5, ProgramStep DEF StartUp

LEMMA ClearWordStep == StartupInv /\ ClearWord => StartupInv'
<1> SUFFICES ASSUME StartupInv, ClearWord PROVE StartupInv'
  OBVIOUS
<1> USE DEF StartupInv, StartupType
<1>1. regs["t1"] \in 0..bss_end /\ \A b \in 0..(regs["t1"] - 1) : mem[b] = "zero"
  BY DEF ClearWord, Boot, Booted, Running
<1> DEFINE t == regs["t1"] + WordBytes
<1>2. t \in Int /\ t \in Values
  BY <1>1, SizesAssumption DEF Values
<1>3. regs' \in [Registers -> Values] /\ regs'["t1"] = t
  BY <1>2, PutType DEF ClearWord, Registers, CallerSaved
<1>4. pc \in ProgramPcs /\ pc' \in ProgramPcs /\ pc' # "main"
  BY DEF ClearWord, ProgramPcs
<1>5. StartupType'
  BY <1>3, <1>4 DEF ClearWord, Pcs
<1>6. OnlyBss'
  BY <1>1, SizesAssumption DEF ClearWord, OnlyBss
<1>7. \A b \in 0..(t - 1) : b < bss_end + WordBytes => mem'[b] = "zero"
  BY <1>1, SizesAssumption DEF ClearWord, OnlyBss
<1>8. Booted(Running)'
  <2>1. pc' = IF t <= bss_end THEN "bss_clear_loop" ELSE "bss_clear_end"
    BY <1>3 DEF ClearWord, MoreToClear
  <2>2. bss_end' = bss_end /\ t > 0
    BY <1>1, SizesAssumption DEF ClearWord
  <2>3. CASE t <= bss_end
    <3>1. \A b \in 0..(t - 1) : mem'[b] = "zero"
      BY <1>2, <1>7, <2>2, <2>3, SizesAssumption
    <3> QED
      BY <1>2, <1>3, <2>1, <2>2, <2>3, <3>1 DEF Booted, Running
  <2>4. CASE ~(t <= bss_end)
    <3>1. \A b \in 0..(bss_end - 1) : mem'[b] = "zero"
      BY <1>2, <1>7, <2>2, <2>4, SizesAssumption
    <3> QED
      BY <2>1, <2>2, <2>4, <3>1 DEF Booted, Running
  <2> QED
    BY <2>3, <2>4
<1>9. Len(frames') = 0
  BY <1>4, ProgramIdle DEF ClearWord
<1> QED
  BY <1>4, <1>5, <1>6, <1>8, <1>9, ProgramStep DEF ClearWord

LEMMA JumpToMainStep == StartupInv /\ JumpToMain => StartupInv'
<1> SUFFICES ASSUME StartupInv, JumpToMain PROVE StartupInv'
  OBVIOUS
<1> USE DEF StartupInv, StartupType
<1>1. regs' \in [Registers -> Values] /\ regs'["ra"] = "_start"
  <2> DEFINE rs == [a0 |-> 0, a1 |-> 0, ra |-> "_start"]
  <2>1. DOMAIN rs = {"a0", "a1", "ra"} /\ rs["ra"] = "_start"
    OBVIOUS
  <2>2. \A r \in DOMAIN rs : rs[r] \in Values
    BY DEF Values, Pcs, ProgramPcs
  <2>3. regs' = Put(rs)
    BY DEF JumpToMain
  <2> HIDE DEF rs
  <2> QED
    BY <2>1, <2>2, <2>3, PutType DEF Registers, CallerSaved
<1>2. pc \in ProgramPcs /\ pc' \in ProgramPcs /\ Len(frames') = 0
  BY ProgramIdle DEF JumpToMain, ProgramPcs
<1>3. StartupType'
  BY <1>1, <1>2 DEF JumpToMain, Pcs
<1>4. Booted(Running)'
  BY <1>1 DEF JumpToMain, Boot, Booted, Running
<1>5. OnlyBss'
  BY DEF JumpToMain, OnlyBss
<1> QED
  BY <1>2, <1>3, <1>4, <1>5, ProgramStep DEF JumpToMain

LEMMA MainStepStep == StartupInv /\ MainStep => StartupInv'
<1> SUFFICES ASSUME StartupInv, MainStep PROVE StartupInv'
  OBVIOUS
<1> USE DEF StartupInv, StartupType
<1>1. regs' \in [Registers -> Values] /\ regs'["ra"] = regs["ra"] /\ steps' > 0
  BY DEF MainStep, Values, Registers, CallerSaved
<1>2. pc \in ProgramPcs /\ pc' \in ProgramPcs /\ Len(frames') = 0
  BY ProgramIdle DEF MainStep, ProgramPcs
<1>3. StartupType'
  BY <1>1, <1>2 DEF MainStep, Pcs
<1>4. Booted(Running)'
  BY <1>1 DEF MainStep, Boot, Booted, Running
<1>5. OnlyBss'
  BY SizesAssumption DEF MainStep, OnlyBss
<1> QED
  BY <1>2, <1>3, <1>4, <1>5, ProgramStep DEF MainStep

LEMMA MainReturnsStep == StartupInv /\ MainReturns => StartupInv'
<1> SUFFICES ASSUME StartupInv, MainReturns PROVE StartupInv'
  OBVIOUS
<1> USE DEF StartupInv, StartupType
<1>1. pc' = "_start"
  BY DEF MainReturns, Boot, Booted, Running
<1>2. pc \in ProgramPcs /\ pc' \in ProgramPcs /\ Len(frames') = 0
  BY <1>1, ProgramIdle DEF MainReturns, ProgramPcs
<1>3. StartupType'
  BY <1>2 DEF MainReturns, Pcs
<1>4. Booted(Running)'
  BY <1>1 DEF Booted, Running
<1>5. OnlyBss'
  BY DEF MainReturns, OnlyBss
<1> QED
  BY <1>2, <1>3, <1>4, <1>5, ProgramStep DEF MainReturns

-------------------------------------------------------------------------------
(* Traps. *)
LEMMA TrapStep ==
    ASSUME StartupInv, NEW v, Vector(v) = "exc_wrapper", Trap(v),
           pc = "main" \/ mstatus.MIE
    PROVE  StartupInv'
<1> USE DEF StartupInv, StartupType
<1>1. pc \in ProgramPcs \cup Interruptible
  BY DEF Current, ProgramPcs, Interruptible, Wrapper, Pcs
<1>2. Running \in Contexts
  BY DEF Running, Contexts, MStatus
<1>3. /\ interrupted' \in Seq(Contexts)
      /\ Len(interrupted') = Len(interrupted) + 1
      /\ \A n \in 1..Len(interrupted) : interrupted'[n] = interrupted[n]
      /\ interrupted'[Len(interrupted) + 1] = Running
  BY <1>2 DEF Trap
<1>4. pc' = "exc_wrapper"
  BY DEF Trap
<1>5. Top' = Running
  BY <1>3 DEF Top
<1>6. StartupType'
  BY <1>1, <1>3, <1>4 DEF Trap, Pcs, Wrapper, MStatus
<1>7. Nested'
  <2> SUFFICES ASSUME NEW n \in 1..Len(interrupted')
               PROVE  IF n = 1 THEN interrupted'[n].pc \in ProgramPcs
                      ELSE /\ interrupted'[n].pc \in Interruptible
                           /\ Handles(interrupted'[n], interrupted'[n - 1])
    BY DEF Nested, Handles
  <2>1. CASE n <= Len(interrupted)
    <3>1. n \in 1..Len(interrupted) /\ interrupted'[n] = interrupted[n]
      BY <1>3, <2>1
    <3>2. n # 1 => interrupted'[n - 1] = interrupted[n - 1]
      BY <1>3, <3>1
    <3> QED
      BY <3>1, <3>2 DEF Nested
  <2>2. CASE n = Len(interrupted) + 1 /\ n = 1
    BY <1>3, <2>2 DEF Current, Running
  <2>3. CASE n = Len(interrupted) + 1 /\ n # 1
    <3>1. pc \in Interruptible /\ pc # "exc_wrapper" /\ Handles(Running, Top)
      BY <1>1, <2>3 DEF Current, Interruptible
    <3> QED
      BY <1>3, <2>3, <3>1 DEF Top, Running
  <2> QED
    BY <1>3, <2>1, <2>2, <2>3
<1>8. Framed'
  <2>1. pc # "exc_wrapper"
    BY <1>1 DEF ProgramPcs, Interruptible
  <2> QED
    BY <1>3, <1>4, <2>1 DEF Trap, Framed
<1>9. Current'
  BY <1>3, <1>4, <1>5 DEF Trap, Current, Running, ProgramPcs
<1>10. Boot'
  <2>1. Booted(Running)'
    BY <1>4 DEF Booted, Running
  <2> SUFFICES ASSUME NEW n \in 1..Len(interrupted') PROVE Booted(interrupted[n])'
    BY <2>1 DEF Boot
  <2>2. n \in 1..Len(interrupted) \/ interrupted'[n] = Running
    BY <1>3
  <2>3. Booted(interrupted'[n])
    BY <1>3, <2>1, <2>2 DEF Boot, Trap, Booted
  <2> QED
    BY <2>3 DEF Trap, Booted
<1>11. OnlyBss'
  BY DEF Trap, OnlyBss
<1> QED
  BY <1>6, <1>7, <1>8, <1>9, <1>10, <1>11

-------------------------------------------------------------------------------
(* The steps of the wrapper and of the handler. *)
LEMMA WrapperBusy ==
    ASSUME StartupInv, pc \in Wrapper \cup {"exc_wrapper"}
    PROVE  Len(interrupted) \in Nat \ {0} /\ Top \in Contexts
BY DEF StartupInv, StartupType, Current, Top, ProgramPcs, Wrapper, Interruptible

LEMMA WrapperStep ==
    ASSUME StartupInv, pc \in Wrapper, pc' \in Wrapper,
           UNCHANGED <<interrupted, frames, bss_end, mem, steps>>,
           StartupType', Current'
    PROVE  StartupInv'
<1>1. pc # "exc_wrapper" /\ pc' # "exc_wrapper" /\ pc' \notin ProgramPcs
  BY DEF Wrapper, Interruptible, ProgramPcs
<1>2. Nested'
  BY DEF StartupInv, Nested
<1>3. Framed'
  BY <1>1 DEF StartupInv, Framed
<1>4. Boot'
  BY <1>1 DEF StartupInv, Boot, Booted, Running, ProgramPcs
<1>5. OnlyBss'
  BY DEF StartupInv, OnlyBss
<1> QED
  BY <1>2, <1>3, <1>4, <1>5 DEF StartupInv

LEMMA SaveStep == StartupInv /\ Save => StartupInv'
<1> SUFFICES ASSUME StartupInv, Save PROVE StartupInv'
  OBVIOUS
<1> USE DEF StartupInv, StartupType
<1>1. pc = "exc_wrapper" /\ pc' = "exception_handler"
  BY DEF Save
<1>2. Len(interrupted) \in Nat \ {0} /\ Top \in Contexts
  BY <1>1, WrapperBusy
<1>3. regs = Top.regs /\ mie = Top.mie /\ mepc = Top.pc /\ mstatus = [MIE |-> FALSE, MPIE |-> Top.MIE]
  BY <1>1, <1>2 DEF Current
<1> DEFINE f == [regs |-> [r \in SavedByWrapper |-> regs[r]],
                 mie |-> mie, mstatus |-> mstatus, mepc |-> mepc]
<1>4. f \in Frames /\ f = FrameOf(Top)
  BY <1>2, <1>3 DEF Frames, FrameOf, Contexts, SavedByWrapper, Registers
<1>5. /\ frames' \in Seq(Frames) /\ Len(frames') = Len(frames) + 1
      /\ \A n \in 1..Len(frames) : frames'[n] = frames[n]
      /\ frames'[Len(frames) + 1] = FrameOf(Top)
  BY <1>4 DEF Save
<1>6. regs' \in [Registers -> Values] /\ regs'["s1"] = regs["s1"]
  <2> DEFINE rs == [s0 |-> "frame", t0 |-> mie, t1 |-> mstatus, a1 |-> mepc,
                    a0 |-> "mcause", ra |-> "restore"]
  <2>1. DOMAIN rs = {"s0", "t0", "t1", "a1", "a0", "ra"}
    OBVIOUS
  <2>2. \A r \in DOMAIN rs : rs[r] \in Values
    BY DEF Values, Pcs, Wrapper
  <2>3. regs' = Put(rs)
    BY DEF Save
  <2> HIDE DEF rs
  <2> QED
    BY <2>1, <2>2, <2>3, PutType DEF Registers
<1>7. StartupType'
  BY <1>1, <1>5, <1>6 DEF Save, Pcs, Wrapper, Interruptible
<1>8. Nested'
  BY DEF Save, Nested
<1>9. Framed'
  <2>1. Len(frames) = Len(interrupted) - 1
    BY <1>1 DEF Framed
  <2>2. Len(frames') = Len(interrupted')
    BY <1>2, <1>5, <2>1 DEF Save
  <2> SUFFICES ASSUME NEW n \in 1..Len(frames') PROVE frames'[n] = FrameOf(interrupted'[n])
    BY <1>1, <2>2 DEF Framed, FrameOf
  <2>3. CASE n <= Len(frames)
    BY <1>5, <2>3 DEF Framed, Save, FrameOf
  <2>4. CASE n = Len(frames) + 1
    BY <1>2, <1>5, <2>1, <2>4 DEF Save, Top
  <2> QED
    BY <1>5, <2>3, <2>4
<1>10. Current'
  BY <1>1, <1>2, <1>3, <1>6 DEF Save, Current, Handles, Running, ProgramPcs, Top
<1>11. Boot'
  BY <1>1 DEF Save, Boot, Booted, Running
<1>12. OnlyBss'
  BY DEF Save, OnlyBss
<1> QED
  BY <1>7, <1>8, <1>9, <1>10, <1>11, <1>12

LEMMA HandlerStepStep == StartupInv /\ HandlerStep => StartupInv'
<1> SUFFICES ASSUME StartupInv, HandlerStep PROVE StartupInv'
  OBVIOUS
<1> USE DEF StartupInv, StartupType
<1>1. pc = "exception_handler" /\ pc' = "exception_handler"
  BY DEF HandlerStep
<1>2. pc \in Wrapper /\ pc' \in Wrapper
  BY <1>1 DEF Wrapper, Interruptible
<1>3. Len(interrupted) \in Nat \ {0}
  BY <1>2, WrapperBusy
<1>4. regs' \in [Registers -> Values] /\ regs'["s1"] = regs["s1"]
  BY DEF HandlerStep, Values, Registers, CallerSaved
<1>5. mstatus' \in MStatus
  BY DEF HandlerStep, MStatus
<1>6. StartupType'
  BY <1>4, <1>5 DEF HandlerStep
<1>7. Current'
  BY <1>1, <1>3, <1>4 DEF HandlerStep, Current, Handles, Running, Top
<1> QED
  BY <1>2, <1>6, <1>7, WrapperStep DEF HandlerStep

LEMMA HandlerReturnsStep == StartupInv /\ HandlerReturns => StartupInv'
<1> SUFFICES ASSUME StartupInv, HandlerReturns PROVE StartupInv'
  OBVIOUS
<1> USE DEF StartupInv, StartupType
<1>1. pc = "exception_handler" /\ pc' = "load"
  BY DEF HandlerReturns
<1>2. pc \in Wrapper /\ pc' \in Wrapper
  BY <1>1 DEF Wrapper, Interruptible
<1>3. Len(interrupted) \in Nat \ {0}
  BY <1>2, WrapperBusy
<1>4. StartupType'
  BY <1>2 DEF HandlerReturns, Pcs
<1>5. Current'
  BY <1>1, <1>3 DEF HandlerReturns, Current, Handles, Running, Top, ProgramPcs
<1> QED
  BY <1>2, <1>4, <1>5, WrapperStep DEF HandlerReturns

(* The frame that the wrapper reads is that of the trap it returns from. *)
LEMMA LastFrame ==
    ASSUME StartupInv, pc \in Wrapper
    PROVE  /\ Len(interrupted) \in Nat \ {0} /\ Top \in Contexts
           /\ Len(frames) = Len(interrupted)
           /\ Last(frames) = FrameOf(Top)
<1>1. pc # "exc_wrapper"
  BY DEF Wrapper, Interruptible
<1>2. Len(interrupted) \in Nat \ {0} /\ Top \in Contexts
  BY WrapperBusy
<1> QED
  BY <1>1, <1>2 DEF StartupInv, Framed, Last, Top

LEMMA LoadStep == StartupInv /\ Load => StartupInv'
<1> SUFFICES ASSUME StartupInv, Load PROVE StartupInv'
  OBVIOUS
<1> USE DEF StartupInv, StartupType
<1>1. pc = "load" /\ pc' = "mie"
  BY DEF Load, RestoreOrder
<1>2. pc \in Wrapper /\ pc' \in Wrapper
  BY <1>1 DEF Wrapper, Interruptible
<1>3. Len(interrupted) \in Nat \ {0} /\ Top \in Contexts /\ Last(frames) = FrameOf(Top)
  BY <1>2, LastFrame
<1> DEFINE rs == [t0 |-> Top.mie, t1 |-> [MIE |-> FALSE, MPIE |-> Top.MIE], t2 |-> Top.pc]
<1>4. regs' = Put(rs)
  BY <1>3 DEF Load, FrameOf
<1>5. /\ DOMAIN rs = {"t0", "t1", "t2"}
      /\ \A r \in DOMAIN rs : rs[r] \in Values
  <2>1. Top.mie \in BOOLEAN /\ Top.MIE \in BOOLEAN /\ Top.pc \in Pcs
    BY <1>3 DEF Contexts
  <2>2. rs["t0"] \in Values
    BY <2>1 DEF Values
  <2>3. rs["t1"] \in Values
    <3>1. rs["t1"] \in MStatus
      BY <2>1 DEF MStatus
    <3> QED
      BY <3>1 DEF Values
  <2>4. rs["t2"] \in Values
    BY <2>1 DEF Values
  <2> QED
    BY <2>2, <2>3, <2>4
<1>6. /\ regs' \in [Registers -> Values] /\ regs'["s1"] = regs["s1"]
      /\ regs'["t0"] = rs["t0"] /\ regs'["t1"] = rs["t1"] /\ regs'["t2"] = rs["t2"]
  <2> HIDE DEF rs
  <2> QED
    BY <1>4, <1>5, PutType DEF Registers, CallerSaved
<1>7. StartupType'
  BY <1>2, <1>6 DEF Load, Pcs
<1>8. Current'
  BY <1>1, <1>3, <1>6 DEF Load, Current, Handles, Running, Top, ProgramPcs
<1> QED
  BY <1>2, <1>7, <1>8, WrapperStep DEF Load

LEMMA RestoreCsrStep ==
    ASSUME StartupInv, NEW n \in 1..3, RestoreCsr(n)
    PROVE  StartupInv'
<1> USE DEF StartupInv, StartupType
<1>1. \/ pc = "mie" /\ pc' = "mstatus"
      \/ pc = "mstatus" /\ pc' = "mepc"
      \/ pc = "mepc" /\ pc' = "restore"
  BY DEF RestoreCsr, RestoreOrder
<1>2. pc \in Wrapper /\ pc' \in Wrapper
  BY <1>1 DEF Wrapper, Interruptible
<1>3. Len(interrupted) \in Nat \ {0} /\ Top \in Contexts
  BY <1>2, WrapperBusy
<1>4. Handles(Running, Top) /\ (pc = "mepc" => mstatus = [MIE |-> FALSE, MPIE |-> Top.MIE])
  BY <1>1, <1>3 DEF Current
<1>5. /\ regs["s1"] = Top.regs["s1"] /\ regs["t0"] = Top.mie
      /\ regs["t1"] = [MIE |-> FALSE, MPIE |-> Top.MIE] /\ regs["t2"] = Top.pc
      /\ pc \in {"mstatus", "mepc"} => mie = Top.mie
  BY <1>1, <1>4 DEF Handles, Running
<1>6. Top' = Top /\ regs' = regs /\ Len(interrupted') = Len(interrupted)
  BY DEF RestoreCsr, Top
<1>7. /\ mie' = IF pc = "mie" THEN Top.mie ELSE mie
      /\ mstatus' = IF pc = "mstatus" THEN [MIE |-> FALSE, MPIE |-> Top.MIE] ELSE mstatus
      /\ mepc' = IF pc = "mepc" THEN Top.pc ELSE mepc
  BY <1>5 DEF RestoreCsr
<1>8. StartupType'
  <2>1. mie' \in BOOLEAN /\ mstatus' \in MStatus /\ mepc' \in Pcs \cup {"unknown"}
    BY <1>3, <1>7 DEF Contexts, MStatus
  <2> QED
    BY <1>2, <2>1 DEF RestoreCsr, Pcs
<1>9. Current'
  <2>1. pc' \notin ProgramPcs \cup {"exc_wrapper"}
    BY <1>2 DEF Wrapper, Interruptible, ProgramPcs
  <2>2. Handles(Running', Top')
    BY <1>1, <1>5, <1>6, <1>7 DEF Handles, Running
  <2>3. pc' \in {"mepc", "restore"} => mstatus' = [MIE |-> FALSE, MPIE |-> Top.MIE]
    BY <1>1, <1>4, <1>7
  <2>4. pc' = "restore" => mepc' = Top.pc
    BY <1>1, <1>7
  <2>5. Handles(Running, Top)'
    BY <2>2 DEF Handles
  <2> QED
    BY <1>3, <1>6, <2>1, <2>3, <2>4, <2>5 DEF Current
<1> QED
  BY <1>2, <1>8, <1>9, WrapperStep DEF RestoreCsr

(* After mret runs again what was interrupted. *)
LEMMA Resumed ==
    ASSUME StartupInv, Mret
    PROVE  Running' = Top
<1> USE DEF StartupInv, StartupType
<1>1. pc = "restore" /\ pc \in Wrapper
  BY DEF Mret, Wrapper
<1>2. Len(interrupted) \in Nat \ {0} /\ Top \in Contexts /\ Last(frames) = FrameOf(Top)
  BY <1>1, LastFrame
<1>3. /\ mepc = Top.pc /\ mstatus = [MIE |-> FALSE, MPIE |-> Top.MIE]
      /\ regs["s1"] = Top.regs["s1"] /\ mie = Top.mie
  BY <1>1, <1>2 DEF Current, Handles, Running
<1>4. regs' = Top.regs
  <2> DEFINE rs == [r \in SavedByWrapper |-> Top.regs[r]]
  <2>1. regs' = Put(rs)
    BY <1>2 DEF Mret, FrameOf
  <2>2. \A r \in Registers : r \in SavedByWrapper \/ r = "s1"
    BY DEF Registers, SavedByWrapper
  <2>3. regs' = [r \in Registers |-> Top.regs[r]]
    BY <1>3, <2>1, <2>2 DEF Put
  <2> QED
    BY <1>2, <2>3 DEF Contexts
<1>5. pc' = Top.pc /\ mie' = Top.mie /\ mstatus'.MIE = Top.MIE
  BY <1>3 DEF Mret
<1> QED
  BY <1>2, <1>4, <1>5 DEF Running, Contexts

LEMMA MretStep == StartupInv /\ Mret => StartupInv'
<1> SUFFICES ASSUME StartupInv, Mret PROVE StartupInv'
  OBVIOUS
<1> USE DEF StartupInv, StartupType
<1> DEFINE L == Len(interrupted)
<1>1. pc = "restore" /\ pc \in Wrapper
  BY DEF Mret, Wrapper
<1>2. L \in Nat \ {0} /\ Top \in Contexts /\ Len(frames) = L
  BY <1>1, LastFrame
<1>3. Running' = Top
  BY Resumed
<1>4. regs' = Top.regs /\ pc' = Top.pc /\ mie' = Top.mie
  BY <1>3 DEF Running
<1>5. /\ interrupted' \in Seq(Contexts) /\ Len(interrupted') = L - 1
      /\ \A n \in 1..(L - 1) : interrupted'[n] = interrupted[n]
  BY <1>2 DEF Mret, Front
<1>6. /\ frames' \in Seq(Frames) /\ Len(frames') = L - 1
      /\ \A n \in 1..(L - 1) : frames'[n] = frames[n]
  BY <1>2 DEF Mret, Front
<1>7. IF L = 1 THEN Top.pc \in ProgramPcs
      ELSE Top.pc \in Interruptible /\ Handles(Top, interrupted[L - 1])
  BY <1>2 DEF Nested, Top
<1>8. pc' # "exc_wrapper"
  BY <1>4, <1>7 DEF ProgramPcs, Interruptible
<1>9. StartupType'
  <2>1. mstatus' \in MStatus
    BY DEF Mret, MStatus
  <2> QED
    BY <1>2, <1>4, <1>5, <1>6, <2>1 DEF Mret, Contexts
<1>10. Nested'
  <2> SUFFICES ASSUME NEW n \in 1..(L - 1)
               PROVE  IF n = 1 THEN interrupted'[n].pc \in ProgramPcs
                      ELSE /\ interrupted'[n].pc \in Interruptible
                           /\ Handles(interrupted'[n], interrupted'[n - 1])
    BY <1>5 DEF Nested, Handles
  <2>1. n \in 1..L /\ interrupted'[n] = interrupted[n]
    BY <1>2, <1>5
  <2>2. n # 1 => interrupted'[n - 1] = interrupted[n - 1]
    BY <1>2, <1>5
  <2> QED
    BY <2>1, <2>2 DEF Nested
<1>11. Framed'
  <2> SUFFICES ASSUME NEW n \in 1..(L - 1) PROVE frames'[n] = FrameOf(interrupted'[n])
    BY <1>5, <1>6, <1>8 DEF Framed, FrameOf
  <2>1. n \in 1..Len(frames)
    BY <1>2
  <2>2. frames'[n] = frames[n]
    BY <1>6
  <2>3. interrupted'[n] = interrupted[n]
    BY <1>5
  <2> QED
    BY <2>1, <2>2, <2>3 DEF Framed
<1>12. Current'
  <2>1. CASE L = 1
    BY <1>4, <1>5, <1>7, <2>1 DEF Current
  <2>2. CASE L # 1
    <3>1. Top' = interrupted[L - 1] /\ Len(interrupted') # 0
      BY <1>2, <1>5, <2>2 DEF Top
    <3>2. pc' \in Interruptible /\ Handles(Running', Top')
      BY <1>3, <1>4, <1>7, <2>2, <3>1
    <3>3. Handles(Running, Top)'
      BY <3>2 DEF Handles
    <3> QED
      BY <3>1, <3>2, <3>3 DEF Current, Interruptible, ProgramPcs
  <2> QED
    BY <2>1, <2>2
<1>13. Boot'
  <2>1. Booted(Running)'
    <3>1. Booted(Top)
      BY <1>2 DEF Boot, Top
    <3>2. Booted(Running')
      BY <1>3, <3>1
    <3> QED
      BY <3>2 DEF Mret, Booted
  <2> SUFFICES ASSUME NEW n \in 1..(L - 1) PROVE Booted(interrupted[n])'
    BY <1>5, <2>1 DEF Boot
  <2>2. Booted(interrupted'[n])
    BY <1>2, <1>5 DEF Boot
  <2> QED
    BY <2>2 DEF Mret, Booted
<1>14. OnlyBss'
  BY DEF Mret, OnlyBss
<1> QED
  BY <1>9, <1>10, <1>11, <1>12, <1>13, <1>14

-------------------------------------------------------------------------------
LEMMA StartupStutter == StartupInv /\ UNCHANGED boot_vars => StartupInv'
BY DEF StartupInv, StartupType, Nested, Handles, Framed, FrameOf, Current, Top, Running,
       Boot, Booted, OnlyBss, boot_vars

LEMMA StartupStep == StartupInv /\ [Instruction]_boot_vars => StartupInv'
<1> SUFFICES ASSUME StartupInv, [Instruction]_boot_vars PROVE StartupInv'
  OBVIOUS
<1>1. CASE Exception
  <2>1. Vector(0) = "exc_wrapper"
    BY DEF Vector
  <2> QED
    BY <1>1, <2>1, TrapStep DEF Exception
<1>2. CASE Interrupt
  <2>1. PICK n \in Vectors \ {0, 32} : Trap(n)
    BY <1>2 DEF Interrupt
  <2>2. Vector(n) = "exc_wrapper"
    BY DEF Vector
  <2> QED
    BY <1>2, <2>1, <2>2, TrapStep DEF Interrupt
<1>3. CASE \E n \in 1..3 : RestoreCsr(n)
  BY <1>3, RestoreCsrStep
<1>4. CASE HandlerLoops
  BY <1>4, StartupStutter DEF HandlerLoops
<1>5. CASE UNCHANGED boot_vars
  BY <1>5, StartupStutter
<1> QED
  BY <1>1, <1>2, <1>3, <1>4, <1>5, StartStep, ClearWordStep, JumpToMainStep,
     MainStepStep, MainReturnsStep, SaveStep, HandlerStepStep,
     HandlerReturnsStep, LoadStep, MretStep DEF Instruction

(* Only a return removes from what is interrupted. *)
LEMMA OnlyMretReturns ==
    ASSUME StartupInv, [Instruction]_boot_vars, Len(interrupted') < Len(interrupted)
    PROVE  Mret
<1>1. interrupted \in Seq(Contexts)
  BY DEF StartupInv, StartupType
<1>2. interrupted' # interrupted
  OBVIOUS
<1>3. ASSUME NEW v, Trap(v) PROVE FALSE
  <2>1. interrupted' = Append(interrupted, Running)
    BY <1>3 DEF Trap
  <2>2. Running \in Contexts
    BY DEF StartupInv, StartupType, Running, Contexts, MStatus
  <2> QED
    BY <1>1, <2>1, <2>2
<1> QED
  BY <1>2, <1>3 DEF Instruction, boot_vars, StartUp, ClearWord, JumpToMain, MainStep,
     MainReturns, Exception, Interrupt, Save, HandlerStep, HandlerReturns,
     HandlerLoops, Load, RestoreCsr

LEMMA StartupInductive == BootSpec => []StartupInv
BY StartupInit, StartupStep, PTL DEF BootSpec

(* Whatever the size of bss, however often main returns and whatever        *)
(* interrupts it, main begins with all of bss zero, and the loop that        *)
(* clears it writes at most one word past its end.                          *)
THEOREM Clears == BootSpec => []BssCleared
<1>1. StartupInv => BssCleared
  BY DEF StartupInv, Boot, Booted, Running, OnlyBss, BssCleared
<1> QED
  BY <1>1, StartupInductive, PTL

(* However many traps there are and however deep they nest, mret takes what *)
(* was interrupted up where it was, with its registers and its interrupts:  *)
(* the wrapper saves and restores all that a handler may change.            *)
THEOREM Resumes == BootSpec => ResumesAsInterrupted
<1>1. ASSUME StartupInv, [Instruction]_boot_vars, Len(interrupted') < Len(interrupted)
      PROVE  [pc |-> pc', regs |-> regs', mie |-> mie', MIE |-> mstatus'.MIE]
                 = Last(interrupted)
  <2>1. Mret
    BY <1>1, OnlyMretReturns
  <2>2. Running' = Top
    BY <1>1, <2>1, Resumed
  <2> QED
    BY <2>2 DEF Running, Top, Last
<1>2. StartupInv /\ [Instruction]_boot_vars =>
          [Len(interrupted') < Len(interrupted) =>
               [pc |-> pc', regs |-> regs', mie |-> mie', MIE |-> mstatus'.MIE]
                   = Last(interrupted)]_boot_vars
  BY <1>1
<1> QED
  BY <1>2, StartupInductive, PTL DEF BootSpec, ResumesAsInterrupted

-------------------------------------------------------------------------------
(* The output.  What dbg_printf makes of its arguments is computed with       *)
(* recursive functions: they are well defined, and what they give is what     *)
(* the numbers are.                                                           *)
(* A set of numbers that holds 0 and every successor holds them all. *)
LEMMA NatInd ==
    ASSUME NEW T, T \subseteq Nat, 0 \in T, \A n \in T : n + 1 \in T
    PROVE  T = Nat
<1> SUFFICES ASSUME Nat \ T # {} PROVE FALSE
  OBVIOUS
<1> DEFINE R == OpToRel(<, Nat)
           U == Nat \ T
<1>1. IsWellFoundedOn(R, Nat)
  BY NatLessThanWellFounded
<1>2. \A i, j \in Nat : i < j => <<i, j>> \in R
  BY DEF OpToRel
<1>3. U \subseteq Nat /\ U # {}
  OBVIOUS
<1> HIDE DEF R, U
<1>4. PICK n \in U : \A y \in U : ~(<<y, n>> \in R)
  BY <1>1, <1>3, WFMin
<1>5. n \in Nat /\ n \notin T /\ \A y \in U : ~(y < n)
  BY <1>2, <1>4 DEF U
<1>6. n # 0 /\ n - 1 \in Nat /\ (n - 1) + 1 = n
  BY <1>5
<1>7. n - 1 \in T
  BY <1>5, <1>6 DEF U
<1> QED
  BY <1>5, <1>6, <1>7

(* And so does a set that holds every number of which it holds all the       *)
(* smaller ones.                                                             *)
LEMMA StrongInd ==
    ASSUME NEW T, T \subseteq Nat,
           \A n \in Nat : (\A m \in Nat : m < n => m \in T) => n \in T
    PROVE  T = Nat
<1> DEFINE B == {n \in Nat : \A m \in Nat : m < n => m \in T}
<1>1. B = Nat
  <2>1. B \subseteq Nat /\ 0 \in B
    OBVIOUS
  <2>2. ASSUME NEW n \in B PROVE n + 1 \in B
    <3>1. n \in T /\ \A m \in Nat : m < n => m \in T
      OBVIOUS
    <3>2. \A m \in Nat : m < n + 1 => m < n \/ m = n
      OBVIOUS
    <3> QED
      BY <3>1, <3>2
  <2> HIDE DEF B
  <2> QED
    BY <2>1, <2>2, NatInd
<1> QED
  BY <1>1

(* What a recursive definition says of f: it starts at a, and G makes f[n]   *)
(* of n and f[n - 1].                                                        *)
Recurs(f, D, a, G) == f = [n \in D |-> IF n = 0 THEN a ELSE G[n][f[n - 1]]]

(* On the numbers up to m there is one such function. *)
LEMMA RecursUpTo ==
    ASSUME NEW S, NEW a \in S, NEW G \in [Nat -> [S -> S]], NEW m \in Nat
    PROVE  \E f \in [0..m -> S] : Recurs(f, 0..m, a, G)
<1> DEFINE T == {k \in Nat : \E f \in [0..k -> S] : Recurs(f, 0..k, a, G)}
<1>1. 0 \in T
  <2> DEFINE f == [k \in 0..0 |-> a]
  <2>1. f \in [0..0 -> S] /\ f = [n \in 0..0 |-> IF n = 0 THEN a ELSE G[n][f[n - 1]]]
    OBVIOUS
  <2> HIDE DEF f
  <2> QED
    BY <2>1 DEF Recurs
<1>2. ASSUME NEW k \in T PROVE k + 1 \in T
  <2>1. PICK h \in [0..k -> S] : Recurs(h, 0..k, a, G)
    OBVIOUS
  <2> DEFINE f == [n \in 0..(k + 1) |-> IF n = k + 1 THEN G[k + 1][h[k]] ELSE h[n]]
  <2>2. k \in Nat /\ k \in 0..k /\ h[k] \in S /\ G[k + 1][h[k]] \in S
    OBVIOUS
  <2>3. \A n \in 0..k : h[n] = IF n = 0 THEN a ELSE G[n][h[n - 1]]
    BY <2>1 DEF Recurs
  <2>4. f \in [0..(k + 1) -> S]
    BY <2>2
  <2>5. \A n \in 0..(k + 1) : f[n] = IF n = 0 THEN a ELSE G[n][f[n - 1]]
    <3> SUFFICES ASSUME NEW n \in 0..(k + 1)
                 PROVE  f[n] = IF n = 0 THEN a ELSE G[n][f[n - 1]]
      OBVIOUS
    <3>1. CASE n = k + 1
      <4>1. n # 0 /\ n - 1 = k /\ f[n - 1] = h[k] /\ f[n] = G[k + 1][h[k]]
        BY <2>2, <3>1
      <4> QED
        BY <3>1, <4>1
    <3>2. CASE n # k + 1
      <4>1. n \in 0..k /\ f[n] = h[n] /\ (n # 0 => f[n - 1] = h[n - 1])
        BY <2>2, <3>2
      <4> QED
        BY <2>3, <4>1
    <3> QED
      BY <3>1, <3>2
  <2>6. f = [n \in 0..(k + 1) |-> f[n]]
    OBVIOUS
  <2> HIDE DEF f
  <2>7. Recurs(f, 0..(k + 1), a, G)
    BY <2>5, <2>6 DEF Recurs
  <2> QED
    BY <2>2, <2>4, <2>7
<1>3. T = Nat
  <2>1. T \subseteq Nat
    OBVIOUS
  <2> HIDE DEF T
  <2> QED
    BY <1>1, <1>2, <2>1, NatInd
<1> QED
  BY <1>3

(* And on all of them. *)
LEMMA RecursOnNat ==
    ASSUME NEW S, NEW a \in S, NEW G \in [Nat -> [S -> S]]
    PROVE  \E f \in [Nat -> S] : Recurs(f, Nat, a, G)
<1> DEFINE Part(m) == CHOOSE f : f \in [0..m -> S] /\ Recurs(f, 0..m, a, G)
           all == [n \in Nat |-> Part(n)[n]]
<1>1. ASSUME NEW m \in Nat
      PROVE  /\ Part(m) \in [0..m -> S]
             /\ \A n \in 0..m : Part(m)[n] = IF n = 0 THEN a ELSE G[n][Part(m)[n - 1]]
  <2>1. \E f : f \in [0..m -> S] /\ Recurs(f, 0..m, a, G)
    BY RecursUpTo
  <2>2. Part(m) \in [0..m -> S] /\ Recurs(Part(m), 0..m, a, G)
    BY <2>1
  <2> HIDE DEF Part
  <2> QED
    BY <2>2 DEF Recurs
<1> HIDE DEF Part
<1>2. ASSUME NEW n \in Nat PROVE \A m \in Nat : m >= n => Part(m)[n] = Part(n)[n]
  <2> DEFINE T == {k \in Nat : \A m \in Nat : m >= k => Part(m)[k] = Part(k)[k]}
  <2>1. 0 \in T
    <3>1. \A m \in Nat : 0 \in 0..m
      OBVIOUS
    <3> QED
      BY <1>1, <3>1
  <2>2. ASSUME NEW k \in T PROVE k + 1 \in T
    <3> SUFFICES ASSUME NEW m \in Nat, m >= k + 1 PROVE Part(m)[k + 1] = Part(k + 1)[k + 1]
      OBVIOUS
    <3>1. k + 1 \in 0..m /\ k + 1 \in 0..(k + 1) /\ (k + 1) - 1 = k /\ k + 1 # 0 /\ k + 1 \in Nat
      OBVIOUS
    <3>2. Part(m)[k] = Part(k)[k] /\ Part(k + 1)[k] = Part(k)[k]
      <4>1. m >= k /\ k + 1 >= k
        OBVIOUS
      <4> QED
        BY <3>1, <4>1
    <3>3. Part(m)[k + 1] = G[k + 1][Part(m)[k]]
      BY <1>1, <3>1
    <3>4. Part(k + 1)[k + 1] = G[k + 1][Part(k + 1)[k]]
      BY <1>1, <3>1
    <3> QED
      BY <3>2, <3>3, <3>4
  <2>3. T = Nat
    <3>1. T \subseteq Nat
      OBVIOUS
    <3> HIDE DEF T
    <3> QED
      BY <2>1, <2>2, <3>1, NatInd
  <2> QED
    BY <2>3
<1>3. all \in [Nat -> S]
  <2>1. \A n \in Nat : n \in 0..n
    OBVIOUS
  <2>2. \A n \in Nat : Part(n)[n] \in S
    BY <1>1, <2>1
  <2> QED
    BY <2>2
<1>4. \A n \in Nat : all[n] = IF n = 0 THEN a ELSE G[n][all[n - 1]]
  <2> SUFFICES ASSUME NEW n \in Nat PROVE all[n] = IF n = 0 THEN a ELSE G[n][all[n - 1]]
    OBVIOUS
  <2>1. n \in 0..n /\ Part(n)[n] = IF n = 0 THEN a ELSE G[n][Part(n)[n - 1]]
    BY <1>1
  <2>2. CASE n = 0
    BY <2>1, <2>2
  <2>3. CASE n # 0
    <3>1. n - 1 \in Nat /\ n >= n - 1
      BY <2>3
    <3>2. Part(n)[n - 1] = Part(n - 1)[n - 1]
      BY <1>2, <3>1
    <3> QED
      BY <2>1, <2>3, <3>1, <3>2
  <2> QED
    BY <2>2, <2>3
<1>5. all = [n \in Nat |-> all[n]]
  OBVIOUS
<1> HIDE DEF all
<1>6. Recurs(all, Nat, a, G)
  BY <1>4, <1>5 DEF Recurs
<1> QED
  BY <1>3, <1>6

-------------------------------------------------------------------------------
(* The powers of a base. *)
LEMMA PowerLaw ==
    ASSUME NEW base \in Nat \ {0}
    PROVE  /\ Power(base)[0] = 1
           /\ \A n \in Nat : Power(base)[n + 1] = base * Power(base)[n]
           /\ \A n \in Nat : Power(base)[n] \in Nat \ {0}
<1> DEFINE S == Nat \ {0}
           G == [n \in Nat |-> [x \in S |-> base * x]]
           IsPower(f) == f = [n \in Nat |-> IF n = 0 THEN 1 ELSE base * f[n - 1]]
<1>1. 1 \in S /\ G \in [Nat -> [S -> S]]
  OBVIOUS
<1>2. \A n \in Nat, x \in S : G[n][x] = base * x
  OBVIOUS
<1> HIDE DEF G
<1>3. PICK f \in [Nat -> S] : Recurs(f, Nat, 1, G)
  <2> HIDE DEF S
  <2> QED
    BY <1>1, RecursOnNat
<1>4. IsPower(f)
  <2>1. \A n \in Nat : f[n] = IF n = 0 THEN 1 ELSE base * f[n - 1]
    <3> SUFFICES ASSUME NEW n \in Nat PROVE f[n] = IF n = 0 THEN 1 ELSE base * f[n - 1]
      OBVIOUS
    <3>1. f[n] = IF n = 0 THEN 1 ELSE G[n][f[n - 1]]
      BY <1>3 DEF Recurs
    <3>2. n # 0 => n - 1 \in Nat /\ f[n - 1] \in S
      OBVIOUS
    <3> QED
      BY <1>2, <3>1, <3>2
  <2> QED
    BY <2>1
<1>5. IsPower(Power(base))
  <2>1. Power(base) = CHOOSE g : IsPower(g)
    BY DEF Power
  <2> HIDE DEF IsPower
  <2> QED
    BY <1>4, <2>1
<1>6. Power(base)[0] = 1 /\ \A n \in Nat : Power(base)[n + 1] = base * Power(base)[n]
  <2>1. \A n \in Nat : n + 1 \in Nat /\ n + 1 # 0 /\ (n + 1) - 1 = n
    OBVIOUS
  <2>2. \A n \in Nat : Power(base)[n] = IF n = 0 THEN 1 ELSE base * Power(base)[n - 1]
    BY <1>5
  <2> QED
    BY <2>1, <2>2
<1>7. \A n \in Nat : Power(base)[n] \in Nat \ {0}
  <2> DEFINE T == {n \in Nat : Power(base)[n] \in Nat \ {0}}
  <2>1. 0 \in T
    BY <1>6
  <2>2. ASSUME NEW n \in T PROVE n + 1 \in T
    BY <1>6
  <2>3. T = Nat
    <3>1. T \subseteq Nat
      OBVIOUS
    <3> HIDE DEF T
    <3> QED
      BY <2>1, <2>2, <3>1, NatInd
  <2> QED
    BY <2>3
<1> QED
  BY <1>6, <1>7

(* The power of a sum is the product of the powers. *)
LEMMA PowerAdd ==
    ASSUME NEW base \in Nat \ {0}, NEW m \in Nat, NEW n \in Nat
    PROVE  Power(base)[m + n] = Power(base)[m] * Power(base)[n]
<1> DEFINE P == Power(base)
           T == {k \in Nat : P[m + k] = P[m] * P[k]}
<1>0. P[0] = 1 /\ (\A k \in Nat : P[k + 1] = base * P[k]) /\ \A k \in Nat : P[k] \in Nat
  BY PowerLaw
<1> HIDE DEF P
<1>1. 0 \in T
  BY <1>0
<1>2. ASSUME NEW k \in T PROVE k + 1 \in T
  <2>1. m + k \in Nat /\ m + (k + 1) = (m + k) + 1
    OBVIOUS
  <2>2. P[m + (k + 1)] = base * P[m + k]
    BY <1>0, <2>1
  <2>3. P[k + 1] = base * P[k]
    BY <1>0
  <2>4. base * (P[m] * P[k]) = P[m] * (base * P[k])
    BY <1>0
  <2> QED
    BY <2>2, <2>3, <2>4
<1>3. T = Nat
  <2>1. T \subseteq Nat
    OBVIOUS
  <2> HIDE DEF T
  <2> QED
    BY <1>1, <1>2, <2>1, NatInd
<1>4. n \in T
  BY <1>3
<1> QED
  BY <1>4 DEF P

-------------------------------------------------------------------------------
(* A flattened sequence is its first element and the others, flattened. *)
Joined(f, s) == f = [i \in 1..Len(s) |-> IF i = 1 THEN s[i] ELSE f[i - 1] \o s[i]]

(* The recursion for it has a solution, whatever the parts. *)
LEMMA JoinedExists ==
    ASSUME NEW V, NEW s \in Seq(Seq(V)), s # <<>>
    PROVE  \E f \in [1..Len(s) -> Seq(V)] : Joined(f, s)
<1> DEFINE S == Seq(V)
           n == Len(s)
           G == [k \in Nat |-> [x \in S |-> IF k + 1 <= n THEN x \o s[k + 1] ELSE x]]
<1>1. n \in Nat /\ n # 0 /\ \A k \in 1..n : s[k] \in S
  OBVIOUS
<1>2. \A k \in Nat, x \in S : k + 1 <= n => G[k][x] = x \o s[k + 1]
  OBVIOUS
<1>3. G \in [Nat -> [S -> S]]
  <2>1. ASSUME NEW k \in Nat, NEW x \in S, k + 1 <= n PROVE x \o s[k + 1] \in S
    <3>1. s[k + 1] \in S
      BY <1>1, <2>1
    <3> QED
      BY <3>1, ConcatProperties
  <2> QED
    BY <2>1
<1>4. s[1] \in S
  BY <1>1
<1> HIDE DEF G, S, n
<1>5. PICK h \in [Nat -> S] : Recurs(h, Nat, s[1], G)
  BY <1>3, <1>4, RecursOnNat
<1>6. \A k \in Nat : h[k] = IF k = 0 THEN s[1] ELSE G[k][h[k - 1]]
  BY <1>5 DEF Recurs
<1> DEFINE f == [i \in 1..n |-> h[i - 1]]
<1>7. \A i \in 1..n : f[i] = IF i = 1 THEN s[i] ELSE f[i - 1] \o s[i]
  <2> SUFFICES ASSUME NEW i \in 1..n PROVE f[i] = IF i = 1 THEN s[i] ELSE f[i - 1] \o s[i]
    OBVIOUS
  <2>1. CASE i = 1
    <3>1. f[1] = h[0]
      BY <1>1, <2>1
    <3> QED
      BY <1>6, <2>1, <3>1
  <2>2. CASE i # 1
    <3>1. i \in 2..n /\ i - 1 \in Nat /\ i - 1 # 0 /\ (i - 1) + 1 = i /\ i - 1 \in 1..n
          /\ (i - 1) - 1 \in Nat
      BY <1>1, <2>2
    <3>2. f[i] = h[i - 1] /\ f[i - 1] = h[(i - 1) - 1] /\ h[(i - 1) - 1] \in S
      BY <1>5, <3>1
    <3>3. h[i - 1] = G[i - 1][h[(i - 1) - 1]]
      BY <1>6, <3>1
    <3>4. (i - 1) + 1 <= n
      BY <1>1, <3>1
    <3>5. G[i - 1][h[(i - 1) - 1]] = h[(i - 1) - 1] \o s[(i - 1) + 1]
      BY <1>2, <3>1, <3>2, <3>4
    <3> QED
      BY <2>2, <3>1, <3>2, <3>3, <3>5
  <2> QED
    BY <2>1, <2>2
<1>8. f \in [1..n -> S]
  <2>1. \A i \in 1..n : i - 1 \in Nat
    BY <1>1
  <2> QED
    BY <1>5, <2>1
<1>9. f = [i \in 1..n |-> f[i]]
  OBVIOUS
<1> HIDE DEF f
<1>10. Joined(f, s)
  BY <1>7, <1>9 DEF Joined, n
<1> QED
  BY <1>8, <1>10 DEF S, n

(* FlattenSeq is that solution. *)
LEMMA JoinedIsFlat ==
    ASSUME NEW V, NEW s \in Seq(Seq(V)), s # <<>>
    PROVE  \E f \in [1..Len(s) -> Seq(V)] : Joined(f, s) /\ FlattenSeq(s) = f[Len(s)]
<1> DEFINE n == Len(s)
           c == CHOOSE f : Joined(f, s)
<1>1. n \in Nat /\ n # 0 /\ n \in 1..n
  OBVIOUS
<1>2. Joined(c, s)
  <2>1. \E f : Joined(f, s)
    BY JoinedExists
  <2> QED
    BY <2>1
<1>3. FlattenSeq(s) = c[n]
  BY <1>1 DEF FlattenSeq, Joined
<1> HIDE DEF c
<1>4. \A i \in 1..n : c[i] = IF i = 1 THEN s[i] ELSE c[i - 1] \o s[i]
  BY <1>2 DEF Joined
<1>5. c = [i \in 1..n |-> c[i]]
  BY <1>2 DEF Joined
<1>6. \A i \in 1..n : c[i] \in Seq(V)
  <2> DEFINE T == {i \in Nat : i + 1 <= n => c[i + 1] \in Seq(V)}
  <2>1. \A i \in 1..n : s[i] \in Seq(V)
    OBVIOUS
  <2>2. 0 \in T
    <3>1. c[1] = s[1] /\ 1 \in 1..n
      BY <1>1, <1>4
    <3> QED
      BY <2>1, <3>1
  <2>3. ASSUME NEW i \in T PROVE i + 1 \in T
    <3> SUFFICES ASSUME (i + 1) + 1 <= n PROVE c[(i + 1) + 1] \in Seq(V)
      OBVIOUS
    <3>1. i \in Nat /\ (i + 1) + 1 \in 1..n /\ (i + 1) + 1 # 1 /\ ((i + 1) + 1) - 1 = i + 1
          /\ i + 1 <= n
      BY <1>1
    <3>2. c[i + 1] \in Seq(V) /\ s[(i + 1) + 1] \in Seq(V)
      BY <2>1, <3>1
    <3>3. c[(i + 1) + 1] = c[i + 1] \o s[(i + 1) + 1]
      BY <1>4, <3>1
    <3> QED
      BY <3>2, <3>3, ConcatProperties
  <2>4. T = Nat
    <3>1. T \subseteq Nat
      OBVIOUS
    <3> HIDE DEF T
    <3> QED
      BY <2>2, <2>3, <3>1, NatInd
  <2>5. \A i \in 1..n : i - 1 \in Nat /\ (i - 1) + 1 <= n /\ (i - 1) + 1 = i
    BY <1>1
  <2>6. \A i \in 1..n : i - 1 \in T
    BY <2>4, <2>5
  <2> HIDE DEF n
  <2> QED
    BY <2>5, <2>6
<1>7. c \in [1..n -> Seq(V)]
  BY <1>5, <1>6
<1> QED
  BY <1>2, <1>3, <1>7

(* What FlattenSeq returns: nothing of no part, else the first part and the  *)
(* rest flattened, for parts that are functions on 1..n.                     *)
LEMMA FlatLaw ==
    ASSUME NEW V, NEW s \in Seq(Seq(V))
    PROVE  /\ FlattenSeq(s) \in Seq(V)
           /\ s = <<>> => FlattenSeq(s) = <<>>
           /\ s # <<>> => FlattenSeq(s) = s[1] \o FlattenSeq(Tail(s))
<1>1. CASE s = <<>>
  BY <1>1 DEF FlattenSeq
<1>2. CASE s # <<>>
  <2> DEFINE n == Len(s)
             t == Tail(s)
  <2>1. n \in Nat /\ n # 0 /\ s[1] \in Seq(V) /\ n \in 1..n
    BY <1>2
  <2>2. t \in Seq(Seq(V)) /\ Len(t) = n - 1 /\ \A i \in 1..(n - 1) : t[i] = s[i + 1]
    BY <1>2, HeadTailProperties
  <2>3. PICK f \in [1..n -> Seq(V)] : Joined(f, s) /\ FlattenSeq(s) = f[n]
    BY <1>2, JoinedIsFlat
  <2>4. \A i \in 1..n : f[i] = IF i = 1 THEN s[i] ELSE f[i - 1] \o s[i]
    BY <2>3 DEF Joined
  <2>5. FlattenSeq(s) \in Seq(V)
    BY <2>1, <2>3
  <2> HIDE DEF n, t
  <2>6. CASE n = 1
    <3>1. t = <<>>
      BY <2>2, <2>6, EmptySeq
    <3>2. FlattenSeq(t) = <<>>
      BY <3>1 DEF FlattenSeq
    <3>3. FlattenSeq(s) = s[1]
      BY <2>1, <2>3, <2>4, <2>6
    <3>4. s[1] \o <<>> = s[1]
      BY <2>1, ConcatEmptySeq
    <3> QED
      BY <1>2, <2>5, <3>2, <3>3, <3>4 DEF t
  <2>7. CASE n # 1
    <3>1. t # <<>>
      BY <2>1, <2>2, <2>7
    <3>2. PICK g \in [1..Len(t) -> Seq(V)] : Joined(g, t) /\ FlattenSeq(t) = g[Len(t)]
      BY <2>2, <3>1, JoinedIsFlat
    <3>3. \A i \in 1..(n - 1) : g[i] = IF i = 1 THEN t[i] ELSE g[i - 1] \o t[i]
      BY <2>2, <3>2 DEF Joined
    <3>4. \A i \in 1..(n - 1) : g[i] \in Seq(V) /\ t[i] \in Seq(V)
      <4>1. 1..Len(t) = 1..(n - 1)
        BY <2>2
      <4>2. \A i \in 1..Len(t) : t[i] \in Seq(V)
        BY <2>2, ElementOfSeq
      <4>3. \A i \in 1..Len(t) : g[i] \in Seq(V)
        BY <3>2
      <4> QED
        BY <4>1, <4>2, <4>3
    <3> DEFINE T == {i \in Nat : i + 1 <= n - 1 => f[(i + 1) + 1] = s[1] \o g[i + 1]}
    <3>5. 0 \in T
      <4> SUFFICES ASSUME 0 + 1 <= n - 1 PROVE f[(0 + 1) + 1] = s[1] \o g[0 + 1]
        OBVIOUS
      <4>1. 1 \in 1..(n - 1) /\ 2 \in 1..n /\ 1 \in 1..n
            /\ 2 - 1 = 1 /\ 2 # 1 /\ 1 + 1 = 2 /\ 0 + 1 = 1
        BY <2>1
      <4>2. f[2] = f[1] \o s[2] /\ f[1] = s[1]
        BY <2>4, <4>1
      <4>3. g[1] = t[1] /\ t[1] = s[2]
        BY <2>2, <3>3, <4>1
      <4> QED
        BY <4>1, <4>2, <4>3
    <3>6. ASSUME NEW i \in T PROVE i + 1 \in T
      <4> SUFFICES ASSUME (i + 1) + 1 <= n - 1
                   PROVE  f[((i + 1) + 1) + 1] = s[1] \o g[(i + 1) + 1]
        <5>1. i + 1 \in Nat
          OBVIOUS
        <5> QED
          BY <5>1
      <4> DEFINE j == (i + 1) + 1
      <4>1. i \in Nat /\ i + 1 \in 1..(n - 1) /\ j \in 1..(n - 1) /\ j + 1 \in 1..n /\ j # 1
            /\ j + 1 # 1 /\ (j + 1) - 1 = j /\ j - 1 = i + 1
        BY <2>1
      <4>2. f[j] = s[1] \o g[i + 1]
        <5>1. i + 1 <= n - 1
          BY <2>1, <4>1
        <5> QED
          BY <5>1
      <4> HIDE DEF j
      <4>3. f[j + 1] = f[j] \o s[j + 1] /\ s[j + 1] = t[j]
        BY <2>2, <2>4, <4>1
      <4>4. g[j] = g[i + 1] \o t[j]
        BY <3>3, <4>1
      <4>5. g[i + 1] \in Seq(V) /\ t[j] \in Seq(V)
        BY <3>4, <4>1
      <4>6. (s[1] \o g[i + 1]) \o t[j] = s[1] \o (g[i + 1] \o t[j])
        <5>1. s[1] \in Seq(V)
          BY <2>1
        <5> DEFINE x == s[1]
                   y == g[i + 1]
                   z == t[j]
        <5>2. x \in Seq(V) /\ y \in Seq(V) /\ z \in Seq(V)
          BY <4>5, <5>1
        <5> HIDE DEF x, y, z
        <5>3. (x \o y) \o z = x \o (y \o z)
          BY <5>2, ConcatAssociative
        <5> QED
          BY <5>3 DEF x, y, z
      <4> QED
        BY <4>2, <4>3, <4>4, <4>6 DEF j
    <3>7. T = Nat
      <4>1. T \subseteq Nat
        OBVIOUS
      <4> HIDE DEF T
      <4> QED
        BY <3>5, <3>6, <4>1, NatInd
    <3>8. n - 2 \in Nat /\ (n - 2) + 1 = n - 1 /\ (n - 1) + 1 = n /\ n - 1 <= n - 1
      BY <2>1, <2>7
    <3>9. n - 2 \in T
      BY <3>7, <3>8
    <3>10. f[n] = s[1] \o g[n - 1]
      <4>1. (n - 2) + 1 <= n - 1 => f[((n - 2) + 1) + 1] = s[1] \o g[(n - 2) + 1]
        BY <3>9
      <4> HIDE DEF T
      <4> QED
        BY <3>8, <4>1
    <3> QED
      BY <1>2, <2>2, <2>3, <2>5, <3>2, <3>10 DEF t
  <2> QED
    BY <2>6, <2>7
<1> QED
  BY <1>1, <1>2

-------------------------------------------------------------------------------
(* The powers of ten outgrow every number. *)
LEMMA PowerOutgrows ==
    ASSUME NEW n \in Nat
    PROVE  n < Power(10)[n]
<1> DEFINE P == Power(10)
           T == {k \in Nat : k < P[k]}
<1>0. P[0] = 1 /\ (\A k \in Nat : P[k + 1] = 10 * P[k]) /\ \A k \in Nat : P[k] \in Nat
  BY PowerLaw
<1> HIDE DEF P
<1>1. 0 \in T
  BY <1>0
<1>2. ASSUME NEW k \in T PROVE k + 1 \in T
  BY <1>0
<1>3. T = Nat
  <2>1. T \subseteq Nat
    OBVIOUS
  <2> HIDE DEF T
  <2> QED
    BY <1>1, <1>2, <2>1, NatInd
<1> QED
  BY <1>3 DEF P

(* The digits of a number are as many as Length10 counts: the power of ten   *)
(* by them is above the number, and that by one less is not.                 *)
DigitCount(t, n) ==
    /\ n \in Nat
    /\ t < Power(10)[n]
    /\ n # 0 => Power(10)[n - 1] <= t

(* The recursion of Length10 has a solution up to any number. *)
LEMMA DigitCountOnce ==
    ASSUME NEW t \in Nat, NEW n, NEW m, DigitCount(t, n), DigitCount(t, m)
    PROVE  n = m
<1> DEFINE P == Power(10)
<1>0. P[0] = 1 /\ (\A k \in Nat : P[k + 1] = 10 * P[k]) /\ \A k \in Nat : P[k] \in Nat \ {0}
  BY PowerLaw
<1>1. ASSUME NEW i \in Nat, NEW j \in Nat PROVE P[i] <= P[i + j]
  <2>1. P[i + j] = P[i] * P[j]
    BY PowerAdd
  <2>2. P[i] \in Nat \ {0} /\ P[j] \in Nat \ {0}
    BY <1>0
  <2> HIDE DEF P
  <2> QED
    BY <2>1, <2>2
<1>2. n \in Nat /\ m \in Nat /\ t < P[n] /\ t < P[m]
      /\ (n # 0 => P[n - 1] <= t) /\ (m # 0 => P[m - 1] <= t)
  BY DEF DigitCount
<1> HIDE DEF P
<1>3. ASSUME n < m PROVE FALSE
  <2>1. m - 1 - n \in Nat /\ m # 0 /\ n + (m - 1 - n) = m - 1 /\ m - 1 \in Nat
    BY <1>2, <1>3
  <2>2. P[n] <= P[m - 1]
    BY <1>1, <1>2, <2>1
  <2> QED
    BY <1>0, <1>2, <2>1, <2>2
<1>4. ASSUME m < n PROVE FALSE
  <2>1. n - 1 - m \in Nat /\ n # 0 /\ m + (n - 1 - m) = n - 1 /\ n - 1 \in Nat
    BY <1>2, <1>4
  <2>2. P[m] <= P[n - 1]
    BY <1>1, <1>2, <2>1
  <2> QED
    BY <1>0, <1>2, <2>1, <2>2
<1> QED
  BY <1>2, <1>3, <1>4

(* A number has one digit more than its tenth. *)
LEMMA DigitCountNext ==
    ASSUME NEW t \in Nat \ {0}, NEW n, DigitCount(t \div 10, n)
    PROVE  DigitCount(t, n + 1)
<1> DEFINE P == Power(10)
           u == t \div 10
<1>0. P[0] = 1 /\ (\A k \in Nat : P[k + 1] = 10 * P[k]) /\ \A k \in Nat : P[k] \in Nat \ {0}
  BY PowerLaw
<1>1. u \in Nat /\ 10 * u <= t /\ t < 10 * u + 10
  OBVIOUS
<1>2. n \in Nat /\ u < P[n] /\ (n # 0 => P[n - 1] <= u)
  BY DEF DigitCount
<1> HIDE DEF P, u
<1>3. n + 1 \in Nat /\ n + 1 # 0 /\ (n + 1) - 1 = n /\ P[n + 1] = 10 * P[n] /\ P[n] \in Nat
  BY <1>0, <1>2
<1>4. t < P[n + 1]
  BY <1>1, <1>2, <1>3
<1>5. P[n] <= t
  <2>1. CASE n = 0
    BY <1>0, <2>1
  <2>2. CASE n # 0
    <3>1. n - 1 \in Nat /\ (n - 1) + 1 = n
      BY <1>2, <2>2
    <3>2. P[n] = 10 * P[n - 1] /\ P[n - 1] \in Nat
      BY <1>0, <3>1
    <3> QED
      BY <1>1, <1>2, <2>2, <3>2
  <2> QED
    BY <2>1, <2>2
<1> QED
  BY <1>3, <1>4, <1>5 DEF DigitCount, P

(* Length10 is that solution. *)
LEMMA DigitCountIs ==
    ASSUME NEW t \in Nat
    PROVE  \E n \in Nat : DigitCount(t, n)
<1> DEFINE T == {u \in Nat : \E n \in Nat : DigitCount(u, n)}
<1>1. 0 \in T
  <2>1. DigitCount(0, 0)
    BY PowerLaw DEF DigitCount
  <2> QED
    BY <2>1
<1>2. ASSUME NEW u \in Nat, \A m \in Nat : m < u => m \in T PROVE u \in T
  <2>1. CASE u = 0
    BY <1>1, <2>1
  <2>2. CASE u # 0
    <3>1. u \div 10 \in Nat /\ u \div 10 < u
      BY <2>2
    <3>2. PICK n \in Nat : DigitCount(u \div 10, n)
      BY <1>2, <3>1
    <3>3. DigitCount(u, n + 1)
      BY <2>2, <3>2, DigitCountNext
    <3> QED
      BY <3>2, <3>3
  <2> QED
    BY <2>1, <2>2
<1>3. T = Nat
  <2>1. T \subseteq Nat
    OBVIOUS
  <2> HIDE DEF T
  <2> QED
    BY <1>2, <2>1, StrongInd
<1> QED
  BY <1>3

Lengths(len) == len = [t \in Nat |-> IF t = 0 THEN 0 ELSE 1 + len[t \div 10]]

(* Length10 counts the digits: as many as are needed, and none of them zero. *)
LEMMA Length10Counts ==
    ASSUME NEW x \in Int
    PROVE  DigitCount(Abs(x), Length10(x))
<1> DEFINE h == [t \in Nat |-> CHOOSE n \in Nat : DigitCount(t, n)]
           c == CHOOSE len : Lengths(len)
<1>1. \A t \in Nat : h[t] \in Nat /\ DigitCount(t, h[t])
  BY DigitCountIs
<1>2. h = [t \in Nat |-> h[t]]
  OBVIOUS
<1> HIDE DEF h
<1>3. \A t \in Nat : h[t] = IF t = 0 THEN 0 ELSE 1 + h[t \div 10]
  <2> SUFFICES ASSUME NEW t \in Nat PROVE h[t] = IF t = 0 THEN 0 ELSE 1 + h[t \div 10]
    OBVIOUS
  <2>1. CASE t = 0
    <3>1. DigitCount(0, 0)
      BY PowerLaw DEF DigitCount
    <3> QED
      BY <1>1, <2>1, <3>1, DigitCountOnce
  <2>2. CASE t # 0
    <3>1. t \div 10 \in Nat
      OBVIOUS
    <3>2. DigitCount(t, h[t \div 10] + 1)
      BY <1>1, <2>2, <3>1, DigitCountNext
    <3>3. h[t] = h[t \div 10] + 1
      BY <1>1, <3>1, <3>2, DigitCountOnce
    <3>4. h[t \div 10] \in Nat
      BY <1>1, <3>1
    <3> QED
      BY <2>2, <3>3, <3>4
  <2> QED
    BY <2>1, <2>2
<1>4. Lengths(h)
  BY <1>2, <1>3 DEF Lengths
<1>5. Lengths(c)
  BY <1>4
<1>6. Length10(x) = c[Abs(x)]
  BY DEF Length10, Lengths
<1> HIDE DEF c
<1>7. \A t \in Nat : c[t] = IF t = 0 THEN 0 ELSE 1 + c[t \div 10]
  BY <1>5 DEF Lengths
<1>8. \A t \in Nat : DigitCount(t, c[t])
  <2> DEFINE T == {t \in Nat : DigitCount(t, c[t])}
  <2>1. ASSUME NEW t \in Nat, \A m \in Nat : m < t => m \in T PROVE t \in T
    <3>1. CASE t = 0
      <4>1. c[0] = 0 /\ DigitCount(0, 0)
        BY <1>7, PowerLaw DEF DigitCount
      <4> QED
        BY <3>1, <4>1
    <3>2. CASE t # 0
      <4>1. t \div 10 \in Nat /\ t \div 10 < t
        BY <3>2
      <4>2. DigitCount(t \div 10, c[t \div 10])
        BY <2>1, <4>1
      <4>3. DigitCount(t, c[t \div 10] + 1) /\ c[t \div 10] \in Nat
        BY <3>2, <4>2, DigitCountNext DEF DigitCount
      <4>4. c[t] = c[t \div 10] + 1
        BY <1>7, <3>2, <4>3
      <4> QED
        BY <4>3, <4>4
    <3> QED
      BY <3>1, <3>2
  <2>2. T = Nat
    <3>1. T \subseteq Nat
      OBVIOUS
    <3> HIDE DEF T
    <3> QED
      BY <2>1, <3>1, StrongInd
  <2> QED
    BY <2>2
<1>9. Abs(x) \in Nat
  BY DEF Abs
<1> QED
  BY <1>6, <1>8, <1>9

-------------------------------------------------------------------------------
(* A function on 1..n is a sequence. *)
LEMMA FunctionIsSeq ==
    ASSUME NEW S, NEW n \in Nat, NEW f \in [1..n -> S]
    PROVE  f \in Seq(S) /\ Len(f) = n /\ DOMAIN f = 1..n
OBVIOUS

(* The two parts of a concatenation. *)
LEMMA ConcatSplit ==
    ASSUME NEW V, NEW a \in Seq(V), NEW b \in Seq(V)
    PROVE  /\ SubSeq(a \o b, 1, Len(a)) = a
           /\ SubSeq(a \o b, Len(a) + 1, Len(a \o b)) = b
<1> DEFINE m == Len(a)
           n == Len(b)
           c == a \o b
           x == SubSeq(c, 1, m)
           y == SubSeq(c, m + 1, Len(c))
<1>1. m \in Nat /\ n \in Nat
  OBVIOUS
<1>2. /\ c \in Seq(V) /\ Len(c) = m + n
      /\ \A i \in 1..(m + n) : c[i] = IF i <= m THEN a[i] ELSE b[i - m]
  BY ConcatProperties
<1>3. \A i \in 1..(m + n) : c[i] \in V
  BY <1>2, ElementOfSeq
<1> HIDE DEF m, n, c
<1>4. x = a
  <2>1. \A i \in 1..m : c[i] \in V
    BY <1>1, <1>3
  <2>2. x \in Seq(V) /\ Len(x) = m /\ \A i \in 1..m : x[i] = c[i]
    BY <1>1, <2>1, SubSeqProperties
  <2>3. \A i \in 1..m : c[i] = a[i]
    BY <1>1, <1>2
  <2> HIDE DEF x
  <2> QED
    BY <2>2, <2>3, SeqEqual DEF m
<1>5. y = b
  <2>1. \A i \in (m + 1)..Len(c) : c[i] \in V
    BY <1>1, <1>2, <1>3
  <2>2. y \in Seq(V) /\ Len(y) = n /\ \A i \in 1..n : y[i] = c[m + i]
    BY <1>1, <1>2, <2>1, SubSeqProperties
  <2>3. \A i \in 1..n : c[m + i] = b[i]
    BY <1>1, <1>2
  <2> HIDE DEF y
  <2> QED
    BY <2>2, <2>3, SeqEqual DEF n
<1> QED
  BY <1>4, <1>5 DEF m, c

-------------------------------------------------------------------------------
(* Every conversion gives characters. *)
LEMMA RepeatIs ==
    ASSUME NEW c \in Int, NEW n \in Int
    PROVE  /\ Repeat(c, n) \in Seq(Int)
           /\ Len(Repeat(c, n)) = IF n > 0 THEN n ELSE 0
           /\ \A k \in 1..n : Repeat(c, n)[k] = c
<1> DEFINE m == IF n > 0 THEN n ELSE 0
<1>1. m \in Nat /\ 1..n = 1..m
  OBVIOUS
<1>2. Repeat(c, n) \in [1..m -> Int]
  BY <1>1 DEF Repeat
<1>3. Repeat(c, n) \in Seq(Int) /\ Len(Repeat(c, n)) = m
  <2> HIDE DEF m
  <2> QED
    BY <1>1, <1>2, FunctionIsSeq
<1> QED
  BY <1>3 DEF Repeat

(* As many characters as are asked for, each the numeral of its digit. *)
LEMMA NumeralsAre ==
    ASSUME NEW x \in Nat, NEW base \in Nat \ {0}, NEW len \in Nat
    PROVE  /\ Numerals(x, base, len) \in Seq(Int)
           /\ Len(Numerals(x, base, len)) = len
           /\ \A c \in 1..len : /\ (x \div Power(base)[len - c]) % base \in 0..(base - 1)
                                /\ Numerals(x, base, len)[c]
                                     = Numeral((x \div Power(base)[len - c]) % base)
<1>1. ASSUME NEW c \in 1..len PROVE (x \div Power(base)[len - c]) % base \in 0..(base - 1)
  <2>1. Power(base)[len - c] \in Nat \ {0}
    BY PowerLaw
  <2>2. x \div Power(base)[len - c] \in Nat
    BY <2>1
  <2> QED
    BY <2>2
<1>2. \A r \in Int : Numeral(r) \in Int
  BY DEF Numeral, Zero, LetterA
<1>3. \A c \in 1..len : Numerals(x, base, len)[c]
                          = Numeral((x \div Power(base)[len - c]) % base)
  BY DEF Numerals
<1>4. \A c \in 1..len : Numeral((x \div Power(base)[len - c]) % base) \in Int
  BY <1>1, <1>2
<1>5. Numerals(x, base, len) \in [1..len -> Int]
  BY <1>4 DEF Numerals
<1> QED
  BY <1>1, <1>3, <1>5, FunctionIsSeq

(* intToString gives characters, a length it has counted itself. *)
LEMMA IntToStringIs ==
    ASSUME NEW x \in Int
    PROVE  IntToString(x) \in Seq(Int)
<1>1. CASE x = 0
  BY <1>1 DEF IntToString, Zero
<1>2. CASE x # 0
  <2>1. Abs(x) \in Nat /\ Length10(x) \in Nat
    BY Length10Counts DEF DigitCount, Abs
  <2>2. Numerals(Abs(x), 10, Length10(x)) \in Seq(Int)
    BY <2>1, NumeralsAre
  <2>3. Repeat(Minus, FirstDigit(x)) \in Seq(Int)
    <3>1. FirstDigit(x) \in Int /\ Minus \in Int
      BY DEF FirstDigit, Minus
    <3> QED
      BY <3>1, RepeatIs
  <2>4. IntToString(x) = Repeat(Minus, FirstDigit(x)) \o Numerals(Abs(x), 10, Length10(x))
    BY <1>2 DEF IntToString
  <2> QED
    BY <2>2, <2>3, <2>4, ConcatProperties
<1> QED
  BY <1>1, <1>2

(* floatToString gives characters, whatever room its width leaves. *)
LEMMA FloatToStringIs ==
    ASSUME NEW x \in Nat, NEW width \in Int, NEW precision \in Nat
    PROVE  FloatToString(x, width, precision) \in Seq(Int)
<1> DEFINE digits == IntToString(x \div FloatUnits)
           P == Power(10)[precision]
           frac == ((x % FloatUnits) * P + FloatUnits \div 2) \div FloatUnits
           blanks == Repeat(Space, width - Len(digits) - precision - 1)
           rest == Numerals(frac, 10, precision)
<1>1. FloatUnits \in Nat \ {0}
  BY WordAssumption
<1>2. x \div FloatUnits \in Nat /\ x % FloatUnits \in Nat /\ FloatUnits \div 2 \in Nat
  BY <1>1
<1>3. digits \in Seq(Int) /\ Len(digits) \in Nat
  BY <1>2, IntToStringIs
<1>4. frac \in Nat
  <2>1. P \in Nat
    BY PowerLaw
  <2> DEFINE n == (x % FloatUnits) * P + FloatUnits \div 2
  <2>2. n \in Nat
    BY <1>2, <2>1
  <2> HIDE DEF n
  <2>3. n \div FloatUnits \in Nat
    BY <1>1, <2>2
  <2> QED
    BY <2>3 DEF n
<1> HIDE DEF digits, frac
<1>5. rest \in Seq(Int)
  BY <1>4, NumeralsAre
<1>6. blanks \in Seq(Int)
  BY <1>3, RepeatIs DEF Space
<1>7. <<Dot>> \in Seq(Int)
  BY DEF Dot
<1>8. FloatToString(x, width, precision) = ((blanks \o digits) \o <<Dot>>) \o rest
  BY DEF FloatToString, digits, frac
<1> HIDE DEF blanks, rest
<1>9. blanks \o digits \in Seq(Int)
  BY <1>3, <1>6, ConcatProperties
<1>10. (blanks \o digits) \o <<Dot>> \in Seq(Int)
  BY <1>7, <1>9, ConcatProperties
<1> QED
  BY <1>5, <1>8, <1>10, ConcatProperties

(* A string is a sequence of characters. *)
LEMMA StringIs ==
    ASSUME NEW s \in Seq(1..255)
    PROVE  s \in Seq(Int)
<1> DEFINE C == 1..255
<1>1. s \in Seq(C) /\ C \subseteq Int
  OBVIOUS
<1> HIDE DEF C
<1>2. Len(s) \in Nat /\ s \in [1..Len(s) -> C]
  BY <1>1, LenProperties
<1>3. s \in [1..Len(s) -> Int]
  BY <1>1, <1>2
<1> QED
  BY <1>2, <1>3, FunctionIsSeq

(* A directive whose arguments fit sends a string of characters. *)
LEMMA TextIs ==
    ASSUME NEW d, NEW ag, Fits(d, ag)
    PROVE  Text(d, ag) \in Seq(Int)
<1>0. WordBits \in Nat /\ WordBits \div 4 \in Nat /\ (2 * WordBits) \div 4 \in Nat
  BY WordAssumption
<1>1. CASE d.conv = "d"
  <2>1. ag[1] \in Int /\ d.width \in Nat
    BY <1>1 DEF Fits, Ints
  <2> DEFINE buf == IntToString(ag[1])
  <2>2. buf \in Seq(Int) /\ Len(buf) \in Nat
    BY <2>1, IntToStringIs
  <2>3. Text(d, ag) = buf \o Repeat(Space, d.width - Len(buf))
    BY <1>1 DEF Text
  <2> HIDE DEF buf
  <2>4. Repeat(Space, d.width - Len(buf)) \in Seq(Int)
    <3>1. d.width - Len(buf) \in Int /\ Space \in Int
      BY <2>1, <2>2 DEF Space
    <3> QED
      BY <3>1, RepeatIs
  <2> QED
    BY <2>2, <2>3, <2>4, ConcatProperties
<1>2. CASE d.conv = "0x"
  <2>1. ag[1] \in Nat /\ d.width \in Nat
    BY <1>2 DEF Fits, Words
  <2> DEFINE buf == IntToHexString(ag[1], WordBits)
  <2>2. buf \in Seq(Int) /\ Len(buf) \in Nat
    <3>1. IntToHexString(ag[1], WordBits) = Numerals(ag[1], 16, WordBits \div 4)
      BY DEF IntToHexString
    <3> DEFINE x == ag[1]
               n == WordBits \div 4
    <3>2. x \in Nat /\ n \in Nat
      BY <1>0, <2>1
    <3> HIDE DEF x, n
    <3>3. Numerals(x, 16, n) \in Seq(Int)
      BY <3>2, NumeralsAre
    <3> QED
      BY <3>1, <3>3 DEF x, n
  <2>3. Text(d, ag) = Repeat(Zero, d.width - Len(buf)) \o buf
    BY <1>2 DEF Text
  <2> HIDE DEF buf
  <2>4. Repeat(Zero, d.width - Len(buf)) \in Seq(Int)
    <3>1. d.width - Len(buf) \in Int /\ Zero \in Int
      BY <2>1, <2>2 DEF Zero
    <3> QED
      BY <3>1, RepeatIs
  <2> QED
    BY <2>2, <2>3, <2>4, ConcatProperties
<1>3. CASE d.conv = "llx"
  <2>1. ag[1] \in Nat /\ ag[2] \in Nat
    BY <1>3 DEF Fits, Words
  <2>2. Power(2)[WordBits] \in Nat
    BY <1>0, PowerLaw
  <2>3. ag[1] * Power(2)[WordBits] + ag[2] \in Nat
    BY <2>1, <2>2
  <2>4. Text(d, ag) = Numerals(ag[1] * Power(2)[WordBits] + ag[2], 16, (2 * WordBits) \div 4)
    BY <1>3 DEF Text, IntToHexString
  <2> QED
    BY <1>0, <2>3, <2>4, NumeralsAre
<1>4. CASE d.conv = "s"
  <2>1. ag[1] \in Seq(1..255) /\ d.width \in Nat
    BY <1>4 DEF Fits
  <2>2. ag[1] \in Seq(Int) /\ Len(ag[1]) \in Nat
    BY <2>1, StringIs
  <2>3. Repeat(Space, d.width - Len(ag[1])) \in Seq(Int)
    <3>1. d.width - Len(ag[1]) \in Int /\ Space \in Int
      BY <2>1, <2>2 DEF Space
    <3> QED
      BY <3>1, RepeatIs
  <2>4. Text(d, ag) = ag[1] \o Repeat(Space, d.width - Len(ag[1]))
    BY <1>4 DEF Text
  <2> QED
    BY <2>2, <2>3, <2>4, ConcatProperties
<1>5. CASE d.conv = "float"
  <2>1. ag[1] \in Nat /\ Width \in Int /\ Precision \in Nat
    BY <1>5 DEF Fits, Width, Precision
  <2>2. Text(d, ag) = FloatToString(ag[1], Width, Precision)
    BY <1>5 DEF Text
  <2> QED
    BY <2>1, <2>2, FloatToStringIs
<1>6. CASE d.conv \in {"0", "l"}
  <2>1. Text(d, ag) = <<>>
    BY <1>6 DEF Text
  <2> QED
    BY <2>1
<1>7. CASE d.conv \notin {"d", "0x", "llx", "s", "float", "0", "l"}
  <2>1. d.char \in 1..255
    BY <1>7 DEF Fits
  <2>2. Text(d, ag) = <<d.char>>
    BY <1>7 DEF Text
  <2> QED
    BY <2>1, <2>2
<1> QED
  BY <1>1, <1>2, <1>3, <1>4, <1>5, <1>6, <1>7

(* What dbg_printf takes of the arguments is what the directive has. *)
PrintArgs == Int \cup Seq(Int)

(* The arguments that fit a directive are as many as it takes. *)
LEMMA ArgsFit ==
    ASSUME NEW d, NEW ag, Fits(d, ag)
    PROVE  ag \in Seq(PrintArgs) /\ Len(ag) = ArgsTaken(d)
<1> DEFINE n == ArgsTaken(d)
<1>1. n = IF d.conv = "llx" THEN 2 ELSE IF d.conv \in {"d", "0x", "s", "float"} THEN 1 ELSE 0
  BY DEF ArgsTaken
<1>2. ag = [k \in 1..n |-> ag[k]]
  BY DEF Fits
<1>3. Words \subseteq Int /\ Ints \subseteq Int
  BY DEF Words, Ints
<1>4. ag[1] \in Seq(1..255) => ag[1] \in Seq(Int)
  BY StringIs
<1>5. /\ d.conv \in {"d", "0x", "llx", "float"} => ag[1] \in Int
      /\ d.conv = "llx" => ag[2] \in Int
      /\ d.conv = "s" => ag[1] \in Seq(Int)
  BY <1>3, <1>4 DEF Fits
<1> HIDE DEF n
<1>6. \A k \in 1..n : ag[k] \in PrintArgs
  <2>1. n = 0 \/ n = 1 \/ n = 2
    BY <1>1
  <2>2. n >= 1 => ag[1] \in PrintArgs
    BY <1>1, <1>5 DEF PrintArgs
  <2>3. n = 2 => ag[2] \in PrintArgs
    BY <1>1, <1>5 DEF PrintArgs
  <2> QED
    BY <2>1, <2>2, <2>3
<1>7. n \in Nat
  BY <1>1
<1>8. ag \in [1..n -> PrintArgs]
  BY <1>2, <1>6
<1> QED
  BY <1>7, <1>8, FunctionIsSeq DEF n

-------------------------------------------------------------------------------
(* A message without its first item. *)
LEMMA ItemsShape ==
    ASSUME NEW its, AreItems(its)
    PROVE  \E X : its \in Seq(X)
<1> DEFINE n == Len(its)
           X == {its[k] : k \in 1..n}
<1>1. n \in Nat /\ its = [k \in 1..n |-> its[k]]
  BY DEF AreItems
<1> HIDE DEF n
<1>2. its \in [1..n -> X]
  BY <1>1
<1> HIDE DEF X
<1> QED
  BY <1>1, <1>2, FunctionIsSeq

(* Their texts and arguments are sequences that FlattenSeq can join. *)
LEMMA ItemsAre ==
    ASSUME NEW its, AreItems(its)
    PROVE  /\ Len(its) \in Nat /\ DOMAIN its = 1..Len(its)
           /\ Directives(its) = [n \in 1..Len(its) |-> its[n].directive]
           /\ Arguments(its) = FlattenSeq([n \in 1..Len(its) |-> its[n].args])
           /\ Texts(its) = FlattenSeq([n \in 1..Len(its) |-> Text(its[n].directive, its[n].args)])
           /\ [n \in 1..Len(its) |-> its[n].args] \in Seq(Seq(PrintArgs))
           /\ [n \in 1..Len(its) |-> Text(its[n].directive, its[n].args)] \in Seq(Seq(Int))
<1> DEFINE n == Len(its)
           S == Seq(PrintArgs)
           C == Seq(Int)
<1>1. n \in Nat /\ its = [k \in 1..n |-> its[k]]
  BY DEF AreItems
<1>2. \A k \in 1..n : Fits(its[k].directive, its[k].args)
  BY DEF AreItems
<1>3. \A k \in 1..n : its[k].args \in S
  BY <1>2, ArgsFit
<1>4. \A k \in 1..n : Text(its[k].directive, its[k].args) \in C
  BY <1>2, TextIs
<1> HIDE DEF n, S, C
<1>5. DOMAIN its = 1..n
  BY <1>1
<1>6. [k \in 1..n |-> its[k].args] \in [1..n -> S]
  BY <1>3
<1>7. [k \in 1..n |-> Text(its[k].directive, its[k].args)] \in [1..n -> C]
  BY <1>4
<1>8. [k \in 1..n |-> its[k].args] \in Seq(S)
  BY <1>1, <1>6, FunctionIsSeq
<1>9. [k \in 1..n |-> Text(its[k].directive, its[k].args)] \in Seq(C)
  BY <1>1, <1>7, FunctionIsSeq
<1> QED
  BY <1>1, <1>5, <1>8, <1>9 DEF n, S, C, Directives, Arguments, Texts

(* All that they send is a string. *)
LEMMA ItemsTyped ==
    ASSUME NEW its, AreItems(its)
    PROVE  Arguments(its) \in Seq(PrintArgs) /\ Texts(its) \in Seq(Int)
<1>1. FlattenSeq([n \in 1..Len(its) |-> its[n].args]) \in Seq(PrintArgs)
  BY ItemsAre, FlatLaw
<1>2. FlattenSeq([n \in 1..Len(its) |-> Text(its[n].directive, its[n].args)]) \in Seq(Int)
  BY ItemsAre, FlatLaw
<1> QED
  BY <1>1, <1>2, ItemsAre

(* Nothing is left of no directive. *)
LEMMA NoItems ==
    AreItems(<<>>) /\ Directives(<<>>) = <<>> /\ Arguments(<<>>) = <<>> /\ Texts(<<>>) = <<>>
<1>1. AreItems(<<>>)
  BY DEF AreItems
<1>2. /\ [n \in DOMAIN <<>> |-> <<>>[n].directive] = <<>>
      /\ [n \in DOMAIN <<>> |-> <<>>[n].args] = <<>>
      /\ [n \in DOMAIN <<>> |-> Text(<<>>[n].directive, <<>>[n].args)] = <<>>
  OBVIOUS
<1>3. FlattenSeq(<<>>) = <<>>
  BY DEF FlattenSeq
<1> QED
  BY <1>1, <1>2, <1>3 DEF Directives, Arguments, Texts

LEMMA ItemsTail ==
    ASSUME NEW its, AreItems(its), its # <<>>
    PROVE  /\ AreItems(Tail(its)) /\ Fits(its[1].directive, its[1].args)
           /\ Directives(its) # <<>>
           /\ Head(Directives(its)) = its[1].directive
           /\ Tail(Directives(its)) = Directives(Tail(its))
           /\ Arguments(its) = its[1].args \o Arguments(Tail(its))
           /\ Texts(its) = Text(its[1].directive, its[1].args) \o Texts(Tail(its))
<1> DEFINE n == Len(its)
           t == Tail(its)
           args1 == [k \in 1..n |-> its[k].args]
           argst == [k \in 1..Len(t) |-> t[k].args]
           texts1 == [k \in 1..n |-> Text(its[k].directive, its[k].args)]
           textst == [k \in 1..Len(t) |-> Text(t[k].directive, t[k].args)]
<1>1. PICK X : its \in Seq(X)
  BY ItemsShape
<1>2. n \in Nat \ {0} /\ \A k \in 1..n : Fits(its[k].directive, its[k].args)
  BY <1>1, EmptySeq DEF AreItems
<1>3. t \in Seq(X) /\ Len(t) = n - 1 /\ \A k \in 1..Len(t) : t[k] = its[k + 1]
  BY <1>1, HeadTailProperties
<1> HIDE DEF n, t
<1>4. n - 1 \in Nat /\ \A k \in 1..(n - 1) : k + 1 \in 1..n
  BY <1>2
<1>5. t = [k \in 1..Len(t) |-> t[k]]
  BY <1>3
<1>6. \A k \in 1..Len(t) : Fits(t[k].directive, t[k].args)
  BY <1>2, <1>3, <1>4
<1>7. AreItems(t)
  BY <1>3, <1>4, <1>5, <1>6 DEF AreItems
<1>8. Fits(its[1].directive, its[1].args)
  BY <1>2
<1>9. Directives(its) # <<>> /\ Head(Directives(its)) = its[1].directive
      /\ Tail(Directives(its)) = Directives(t)
  <2> DEFINE D == {its[k].directive : k \in 1..n}
             f == [k \in 1..n |-> its[k].directive]
             g == [k \in 1..Len(t) |-> t[k].directive]
  <2>1. Directives(its) = f /\ Directives(t) = g
    BY <1>7, ItemsAre DEF n
  <2>2. f \in [1..n -> D] /\ \A k \in 1..n : f[k] = its[k].directive
    OBVIOUS
  <2>3. g \in [1..(n - 1) -> D] /\ \A k \in 1..(n - 1) : g[k] = its[k + 1].directive
    BY <1>3, <1>4
  <2> HIDE DEF D, f, g
  <2>4. f \in Seq(D) /\ Len(f) = n /\ g \in Seq(D) /\ Len(g) = n - 1
    BY <1>2, <1>4, <2>2, <2>3, FunctionIsSeq
  <2>5. f # <<>>
    BY <1>2, <2>4
  <2>6. Head(f) = its[1].directive
    BY <1>2, <2>2, <2>4
  <2>7. Tail(f) \in Seq(D) /\ Len(Tail(f)) = n - 1 /\ \A k \in 1..(n - 1) : Tail(f)[k] = f[k + 1]
    BY <2>4, <2>5, HeadTailProperties
  <2>8. \A k \in 1..(n - 1) : Tail(f)[k] = g[k]
    BY <1>4, <2>2, <2>3, <2>7
  <2>9. Tail(f) = g
    BY <2>4, <2>7, <2>8, SeqEqual
  <2> QED
    BY <2>1, <2>5, <2>6, <2>9
<1>10. Arguments(its) = its[1].args \o Arguments(t)
  <2>1. Arguments(its) = FlattenSeq(args1) /\ args1 \in Seq(Seq(PrintArgs))
        /\ Arguments(t) = FlattenSeq(argst) /\ argst \in Seq(Seq(PrintArgs))
    BY <1>7, ItemsAre DEF n
  <2>2. Len(args1) = n /\ Len(argst) = n - 1 /\ args1[1] = its[1].args
        /\ \A k \in 1..(n - 1) : argst[k] = args1[k + 1]
    BY <1>2, <1>3, <1>4
  <2> HIDE DEF args1, argst
  <2>3. args1 # <<>>
    BY <1>2, <2>2
  <2>4. Tail(args1) \in Seq(Seq(PrintArgs)) /\ Len(Tail(args1)) = n - 1
        /\ \A k \in 1..(n - 1) : Tail(args1)[k] = args1[k + 1]
    BY <2>1, <2>2, <2>3, HeadTailProperties
  <2>5. Tail(args1) = argst
    <3>1. \A k \in 1..(n - 1) : Tail(args1)[k] = argst[k]
      BY <2>2, <2>4
    <3> DEFINE A == Seq(PrintArgs)
               x == Tail(args1)
    <3>2. x \in Seq(A) /\ argst \in Seq(A) /\ Len(x) = Len(argst)
          /\ \A k \in 1..Len(x) : x[k] = argst[k]
      BY <2>1, <2>2, <2>4, <3>1
    <3> HIDE DEF A, x
    <3>3. x = argst
      BY <3>2, SeqEqual
    <3> QED
      BY <3>3 DEF x
  <2>6. FlattenSeq(args1) = args1[1] \o FlattenSeq(Tail(args1))
    BY <2>1, <2>3, FlatLaw
  <2> QED
    BY <2>1, <2>2, <2>5, <2>6
<1>11. Texts(its) = Text(its[1].directive, its[1].args) \o Texts(t)
  <2>1. Texts(its) = FlattenSeq(texts1) /\ texts1 \in Seq(Seq(Int))
        /\ Texts(t) = FlattenSeq(textst) /\ textst \in Seq(Seq(Int))
    BY <1>7, ItemsAre DEF n
  <2>2. Len(texts1) = n /\ Len(textst) = n - 1
        /\ texts1[1] = Text(its[1].directive, its[1].args)
        /\ \A k \in 1..(n - 1) : textst[k] = texts1[k + 1]
    BY <1>2, <1>3, <1>4
  <2> HIDE DEF texts1, textst
  <2>3. texts1 # <<>>
    BY <1>2, <2>2
  <2>4. Tail(texts1) \in Seq(Seq(Int)) /\ Len(Tail(texts1)) = n - 1
        /\ \A k \in 1..(n - 1) : Tail(texts1)[k] = texts1[k + 1]
    BY <2>1, <2>2, <2>3, HeadTailProperties
  <2>5. Tail(texts1) = textst
    <3>1. \A k \in 1..(n - 1) : Tail(texts1)[k] = textst[k]
      BY <2>2, <2>4
    <3> DEFINE A == Seq(Int)
               x == Tail(texts1)
    <3>2. x \in Seq(A) /\ textst \in Seq(A) /\ Len(x) = Len(textst)
          /\ \A k \in 1..Len(x) : x[k] = textst[k]
      BY <2>1, <2>2, <2>4, <3>1
    <3> HIDE DEF A, x
    <3>3. x = textst
      BY <3>2, SeqEqual
    <3> QED
      BY <3>3 DEF x
  <2>6. FlattenSeq(texts1) = texts1[1] \o FlattenSeq(Tail(texts1))
    BY <2>1, <2>3, FlatLaw
  <2> QED
    BY <2>1, <2>2, <2>5, <2>6
<1> QED
  BY <1>7, <1>8, <1>9, <1>10, <1>11 DEF t

-------------------------------------------------------------------------------
(* What has come out of the line, with the byte that the device has, what is *)
(* left of the directive that is being sent, and the texts of the items that *)
(* are still to be read are what has been asked for.                         *)
Left == IF print_pc \in {"poll", "write"} THEN SubSeq(out, cp, Len(out)) ELSE <<>>

Pending(its) ==
    /\ AreItems(its)
    /\ format = Directives(its)
    /\ args = Arguments(its)
    /\ asked = (Out \o Left) \o Texts(its)

PrintType ==
    /\ print_pc \in {"idle", "format", "poll", "write"}
    /\ uart \in {"busy", "done"}
    /\ prints \in Nat
    /\ data \in Int /\ line \in Seq(Int) /\ out \in Seq(Int)
    /\ print_pc \in {"poll", "write"} => cp \in 1..Len(out)
    /\ print_pc = "write" => uart = "done"

Printing ==
    /\ PrintType
    /\ print_pc = "idle" => format = <<>>
    /\ \E its : Pending(its)
    /\ out # <<>> => /\ Fits(item.directive, item.args)
                     /\ out = Text(item.directive, item.args)

(* Joining strings is associative. *)
LEMMA CharsAssociate ==
    ASSUME NEW x \in Seq(Int), NEW y \in Seq(Int), NEW z \in Seq(Int)
    PROVE  (x \o y) \o z = x \o (y \o z) /\ y \o z \in Seq(Int)
<1>1. (x \o y) \o z = x \o (y \o z)
  BY ConcatAssociative
<1>2. y \o z \in Seq(Int)
  BY ConcatProperties
<1> QED
  BY <1>1, <1>2

(* What the device has and is sending is a string. *)
LEMMA OutTyped ==
    ASSUME PrintType
    PROVE  Out \in Seq(Int) /\ Left \in Seq(Int)
<1>1. Out \in Seq(Int)
  BY DEF PrintType, Out
<1>2. Left \in Seq(Int)
  <2>1. CASE print_pc \in {"poll", "write"}
    <3>1. Left = SubSeq(out, cp, Len(out)) /\ cp \in 1..Len(out) /\ out \in Seq(Int)
      BY <2>1 DEF Left, PrintType
    <3>2. \A i \in cp..Len(out) : out[i] \in Int
      BY <3>1
    <3> QED
      BY <3>1, <3>2, SubSeqProperties
  <2>2. CASE print_pc \notin {"poll", "write"}
    BY <2>2 DEF Left
  <2> QED
    BY <2>1, <2>2
<1> QED
  BY <1>1, <1>2

(* The invariant holds when nothing has been asked for. *)
LEMMA PrintingInit == PrintInit => Printing
<1> SUFFICES ASSUME PrintInit PROVE Printing
  OBVIOUS
<1>1. PrintType
  BY DEF PrintInit, PrintType
<1>2. Out = <<>> /\ Left = <<>>
  BY DEF PrintInit, Out, Left
<1>3. Pending(<<>>)
  <2>1. (<<>> \o <<>>) \o <<>> = <<>>
    OBVIOUS
  <2> QED
    BY <1>2, <2>1, NoItems DEF Pending, PrintInit
<1>4. print_pc = "idle" => format = <<>>
  BY DEF PrintInit
<1>5. out = <<>>
  BY DEF PrintInit
<1> QED
  BY <1>1, <1>3, <1>4, <1>5 DEF Printing

(* A step that leaves the line and the format as they are. *)
LEMMA PendingKept ==
    ASSUME NEW its, Pending(its),
           UNCHANGED <<format, args, asked>>, Out' \o Left' = Out \o Left
    PROVE  Pending(its)'
BY DEF Pending

(* One lemma for every action. *)
LEMMA SetDebugLevelPrints ==
    ASSUME Printing, NEW n \in Levels, SetDebugLevel(n)
    PROVE  Printing'
<1>1. UNCHANGED <<print_pc, format, args, item, out, cp, uart, data, line, asked, prints>>
  BY DEF SetDebugLevel
<1> QED
  BY <1>1 DEF Printing, PrintType, Pending, Out, Left

(* A call asks for the texts of its directives and reads none of them yet. *)
LEMMA Dbg_printfPrints ==
    ASSUME Printing, NEW m \in Messages(prints + 1), Dbg_printf(m)
    PROVE  Printing'
<1>1. PICK its : Pending(its)
  BY DEF Printing
<1>2. print_pc = "idle" /\ prints < MaxPrints /\ prints \in Nat /\ prints' = prints + 1
      /\ UNCHANGED <<item, out, cp, uart, data, line>>
  BY DEF Dbg_printf, Printing, PrintType
<1>3. AreItems(m.items)
  <2>1. prints + 1 \in 1..MaxPrints
    BY <1>2, WordAssumption
  <2> QED
    BY <2>1, MessagesAssumption
<1>4. PrintType' /\ (out' # <<>> => /\ Fits(item'.directive, item'.args)
                                    /\ out' = Text(item'.directive, item'.args))
  BY <1>2 DEF Dbg_printf, Printing, PrintType
<1>5. Out' = Out
  BY <1>2 DEF Out
<1>6. CASE m.level <= S_uiDebugLevel
  <2>1. /\ format' = Directives(m.items) /\ args' = Arguments(m.items)
        /\ asked' = asked \o Texts(m.items) /\ print_pc' = "format"
    BY <1>6 DEF Dbg_printf
  <2>2. its = <<>>
    <3>1. format = <<>> /\ format = Directives(its) /\ AreItems(its)
      BY <1>1, <1>2 DEF Printing, Pending
    <3> QED
      BY <3>1, ItemsTail
  <2>3. Left = <<>> /\ Left' = <<>>
    BY <1>2, <2>1 DEF Left
  <2>4. Out \in Seq(Int)
    BY OutTyped DEF Printing
  <2>5. asked = Out
    <3>1. asked = (Out \o <<>>) \o <<>>
      BY <1>1, <2>2, <2>3, NoItems DEF Pending
    <3> QED
      BY <2>4, <3>1, ConcatEmptySeq
  <2>6. asked' = (Out' \o Left') \o Texts(m.items)
    <3>1. Out \o <<>> = Out
      BY <2>4, ConcatEmptySeq
    <3> QED
      BY <1>5, <2>1, <2>3, <2>5, <3>1
  <2>7. Pending(m.items)'
    BY <1>3, <2>1, <2>6 DEF Pending
  <2>8. (print_pc = "idle" => format = <<>>)'
    BY <2>1
  <2> QED
    BY <1>4, <2>7, <2>8 DEF Printing
<1>7. CASE ~(m.level <= S_uiDebugLevel)
  <2>1. UNCHANGED <<format, args, asked, print_pc>>
    BY <1>7 DEF Dbg_printf
  <2>2. Left' = Left
    BY <1>2, <2>1 DEF Left
  <2>3. Pending(its)'
    BY <1>1, <1>5, <2>1, <2>2 DEF Pending
  <2>4. (print_pc = "idle" => format = <<>>)'
    BY <2>1 DEF Printing
  <2> QED
    BY <1>4, <2>3, <2>4 DEF Printing
<1> QED
  BY <1>6, <1>7

(* Reading a directive with its arguments moves its text to out. *)
LEMMA ReadFormatPrints ==
    ASSUME Printing, ReadFormat
    PROVE  Printing'
<1>1. PICK its : Pending(its)
  BY DEF Printing
<1> DEFINE d == Head(format)
           n == ArgsTaken(d)
           a == its[1].args
           rest == Tail(its)
<1>2. /\ print_pc = "format" /\ format # <<>> /\ format' = Tail(format) /\ cp' = 1
      /\ print_pc' = (IF out' = <<>> THEN "format" ELSE "poll")
      /\ item' = [directive |-> d, args |-> SubSeq(args, 1, n)]
      /\ args' = SubSeq(args, n + 1, Len(args))
      /\ out' = Text(d, item'.args)
      /\ UNCHANGED <<uart, data, line, asked, prints>>
  BY DEF ReadFormat
<1>3. AreItems(its) /\ format = Directives(its) /\ args = Arguments(its)
      /\ asked = (Out \o Left) \o Texts(its)
  BY <1>1 DEF Pending
<1>4. its # <<>>
  BY <1>2, <1>3, NoItems
<1>5. /\ AreItems(rest) /\ Fits(d, a) /\ d = its[1].directive
      /\ format' = Directives(rest)
      /\ args = a \o Arguments(rest)
      /\ Texts(its) = Text(d, a) \o Texts(rest)
  BY <1>2, <1>3, <1>4, ItemsTail
<1>6. a \in Seq(PrintArgs) /\ Len(a) = n /\ Arguments(rest) \in Seq(PrintArgs) /\ Texts(rest) \in Seq(Int)
  BY <1>5, ArgsFit, ItemsTyped
<1> HIDE DEF d, n, a, rest
<1>7. SubSeq(args, 1, n) = a /\ args' = Arguments(rest)
  BY <1>2, <1>5, <1>6, ConcatSplit
<1>8. item'.directive = d /\ item'.args = a /\ out' = Text(d, a)
  BY <1>2, <1>7
<1>9. out' \in Seq(Int)
  BY <1>5, <1>8, TextIs
<1>10. print_pc' \in {"format", "poll"} /\ (print_pc' = "poll" => 1 \in 1..Len(out'))
  <2>1. out' # <<>> => Len(out') \in Nat \ {0}
    BY <1>9, EmptySeq
  <2> QED
    BY <1>2, <2>1
<1>11. PrintType'
  BY <1>2, <1>9, <1>10 DEF Printing, PrintType
<1>12. Out' = Out /\ Out \in Seq(Int)
  BY <1>2, OutTyped DEF Out, Printing
<1>13. Left = <<>> /\ Left' = out'
  <2>1. Left = <<>>
    BY <1>2 DEF Left
  <2>2. out' = <<>> => Left' = out'
    BY <1>2 DEF Left
  <2>3. out' # <<>> => Left' = SubSeq(out', 1, Len(out'))
    BY <1>2 DEF Left
  <2> QED
    BY <1>9, <2>1, <2>2, <2>3, SubSeqFull
<1>14. asked' = (Out' \o Left') \o Texts(rest)
  <2>1. Out \o <<>> = Out
    BY <1>12, ConcatEmptySeq
  <2>2. asked = Out \o (out' \o Texts(rest))
    BY <1>3, <1>5, <1>8, <1>13, <2>1
  <2>3. Out \o (out' \o Texts(rest)) = (Out \o out') \o Texts(rest)
    <3> DEFINE x == Out
               y == out'
               z == Texts(rest)
    <3>1. x \in Seq(Int) /\ y \in Seq(Int) /\ z \in Seq(Int)
      BY <1>6, <1>9, <1>12
    <3> HIDE DEF x, y, z
    <3>2. (x \o y) \o z = x \o (y \o z)
      BY <3>1, CharsAssociate
    <3> QED
      BY <3>2 DEF x, y, z
  <2> QED
    BY <1>2, <1>12, <1>13, <2>2, <2>3
<1>15. Pending(rest)'
  BY <1>5, <1>7, <1>14 DEF Pending, rest
<1>16. (print_pc = "idle" => format = <<>>)'
  BY <1>10
<1> QED
  BY <1>5, <1>8, <1>11, <1>15, <1>16 DEF Printing

(* A call returns when nothing is left to be sent. *)
LEMMA ReturnPrints ==
    ASSUME Printing, Return
    PROVE  Printing'
<1>1. PICK its : Pending(its)
  BY DEF Printing
<1>2. /\ print_pc = "format" /\ format = <<>> /\ print_pc' = "idle" /\ out' = <<>>
      /\ UNCHANGED <<format, args, uart, data, line, asked, prints>>
  BY DEF Return
<1>3. PrintType'
  BY <1>2 DEF Printing, PrintType
<1>4. Out' = Out /\ Left' = Left
  BY <1>2 DEF Out, Left
<1>5. Pending(its)'
  BY <1>1, <1>2, <1>4 DEF Pending
<1> QED
  BY <1>2, <1>3, <1>5 DEF Printing

(* The poll ends only when the device is free... *)
LEMMA PollPrints ==
    ASSUME Printing, Poll
    PROVE  Printing'
<1>1. PICK its : Pending(its)
  BY DEF Printing
<1>2. /\ print_pc = "poll" /\ uart # "busy" /\ print_pc' = "write"
      /\ UNCHANGED <<format, args, item, out, cp, uart, data, line, asked, prints>>
  BY DEF Poll, Waits
<1>3. PrintType'
  BY <1>2 DEF Printing, PrintType
<1>4. Out' = Out /\ Left' = Left
  BY <1>2 DEF Out, Left
<1>5. Pending(its)'
  BY <1>1, <1>2, <1>4 DEF Pending
<1> QED
  BY <1>2, <1>3, <1>5 DEF Printing

(* ... so that the byte that is written replaces none. *)
LEMMA WriteBytePrints ==
    ASSUME Printing, WriteByte
    PROVE  Printing'
<1>1. PICK its : Pending(its)
  BY DEF Printing
<1>2. /\ print_pc = "write" /\ data' = out[cp] /\ uart' = "busy" /\ cp' = cp + 1
      /\ print_pc' = (IF cp = Len(out) THEN "format" ELSE "poll")
      /\ UNCHANGED <<format, args, item, out, line, asked, prints>>
  BY DEF WriteByte
<1>3. /\ cp \in 1..Len(out) /\ out \in Seq(Int) /\ line \in Seq(Int) /\ uart = "done"
      /\ Len(out) \in Nat /\ out[cp] \in Int /\ prints \in Nat
  BY <1>2 DEF Printing, PrintType
<1>4. PrintType'
  BY <1>2, <1>3 DEF PrintType
<1>5. Out = line /\ Out' = line \o <<out[cp]>>
  <2>1. Out = line /\ Out' = Append(line, out[cp])
    BY <1>2, <1>3 DEF Out
  <2> QED
    BY <1>3, <2>1, AppendIsConcat
<1>6. Left = <<out[cp]>> \o Left'
  <2>1. Left = SubSeq(out, cp, Len(out))
    BY <1>2 DEF Left
  <2>2. Left = <<out[cp]>> \o SubSeq(out, cp + 1, Len(out))
    <3>1. Len(out) \in cp..Len(out)
      BY <1>3
    <3> QED
      BY <1>3, <2>1, <3>1, SubSeqRecursiveFirst
  <2>3. CASE cp = Len(out)
    <3>1. Left' = <<>>
      BY <1>2, <2>3 DEF Left
    <3>2. SubSeq(out, cp + 1, Len(out)) = <<>>
      BY <1>3, <2>3, SubSeqEmpty
    <3> QED
      BY <2>2, <3>1, <3>2
  <2>4. CASE cp # Len(out)
    <3>1. Left' = SubSeq(out, cp + 1, Len(out))
      BY <1>2, <2>4 DEF Left
    <3> QED
      BY <2>2, <3>1
  <2> QED
    BY <2>3, <2>4
<1>7. Out' \o Left' = Out \o Left
  <2> DEFINE x == <<out[cp]>>
             l == Left'
  <2>1. x \in Seq(Int)
    BY <1>3
  <2>2. l \in Seq(Int)
    <3>1. \A i \in (cp + 1)..Len(out) : out[i] \in Int
      BY <1>3
    <3>2. SubSeq(out, cp + 1, Len(out)) \in Seq(Int)
      BY <1>3, <3>1, SubSeqProperties
    <3> QED
      BY <1>2, <3>2 DEF Left
  <2>3. Out = line /\ Out' = line \o x /\ Left = x \o l
    BY <1>5, <1>6
  <2> HIDE DEF x, l
  <2>4. (line \o x) \o l = line \o (x \o l)
    BY <1>3, <2>1, <2>2, CharsAssociate
  <2> QED
    BY <2>3, <2>4 DEF l
<1>8. Pending(its)'
  BY <1>1, <1>2, <1>7, PendingKept
<1>9. print_pc' # "idle"
  BY <1>2
<1>10. out' # <<>> => /\ Fits(item'.directive, item'.args)
                      /\ out' = Text(item'.directive, item'.args)
  BY <1>2 DEF Printing
<1> QED
  BY <1>4, <1>8, <1>9, <1>10 DEF Printing

(* The device sends what it was given, once. *)
LEMMA TransmitPrints ==
    ASSUME Printing, Transmit
    PROVE  Printing'
<1>1. PICK its : Pending(its)
  BY DEF Printing
<1>2. /\ uart = "busy" /\ uart' = "done" /\ line' = Append(line, data)
      /\ UNCHANGED <<print_pc, format, args, item, out, cp, data, asked, prints>>
  BY DEF Transmit
<1>3. PrintType'
  BY <1>2, AppendProperties DEF Printing, PrintType
<1>4. Out' = Out /\ Left' = Left
  BY <1>2 DEF Out, Left
<1>5. Pending(its)'
  BY <1>1, <1>2, <1>4 DEF Pending
<1> QED
  BY <1>2, <1>3, <1>5 DEF Printing

(* Together: every step preserves the invariant. *)
LEMMA PrintingStep == Printing /\ [PrintNext]_print_vars => Printing'
<1> SUFFICES ASSUME Printing, [PrintNext]_print_vars PROVE Printing'
  OBVIOUS
<1>1. CASE \E n \in Levels : SetDebugLevel(n)
  BY <1>1, SetDebugLevelPrints
<1>2. CASE \E m \in Messages(prints + 1) : Dbg_printf(m)
  BY <1>2, Dbg_printfPrints
<1>3. CASE ReadFormat
  BY <1>3, ReadFormatPrints
<1>4. CASE Return
  BY <1>4, ReturnPrints
<1>5. CASE Poll
  BY <1>5, PollPrints
<1>6. CASE WriteByte
  BY <1>6, WriteBytePrints
<1>7. CASE Transmit
  BY <1>7, TransmitPrints
<1>8. CASE UNCHANGED print_vars
  BY <1>8 DEF print_vars, Printing, PrintType, Pending, Out, Left
<1> QED
  BY <1>1, <1>2, <1>3, <1>4, <1>5, <1>6, <1>7, <1>8 DEF PrintNext, Printer

(* It holds of every reachable state. *)
LEMMA PrintingAlways == PrintSpec => []Printing
BY PrintingInit, PrintingStep, PTL DEF PrintSpec

(* What has come out of the line is always the beginning of what the calls   *)
(* have asked for, and all of it when no call is at work: the loop over      *)
(* the arguments, the format and the poll of the transmitter together lose   *)
(* no byte and send none twice, whatever the device's pace, the formats and  *)
(* the number of calls.                                                      *)
THEOREM EveryByteIsSent == PrintSpec => []LineAsPrinted
<1>1. Printing => LineAsPrinted
  <2> SUFFICES ASSUME Printing PROVE LineAsPrinted
    OBVIOUS
  <2>1. PICK its : Pending(its)
    BY DEF Printing
  <2>2. Out \in Seq(Int) /\ Left \in Seq(Int)
    BY OutTyped DEF Printing
  <2>3. Texts(its) \in Seq(Int) /\ asked = (Out \o Left) \o Texts(its)
    BY <2>1, ItemsTyped DEF Pending
  <2> DEFINE rest == Left \o Texts(its)
  <2>4. rest \in Seq(Int) /\ asked = Out \o rest
    <3> DEFINE x == Texts(its)
    <3> HIDE DEF x
    <3> QED
      BY <2>2, <2>3, CharsAssociate DEF x
  <2> HIDE DEF rest
  <2>5. IsPrefix(Out, asked)
    <3>1. Len(Out) <= Len(asked)
      BY <2>2, <2>4
    <3>2. SubSeq(asked, 1, Len(Out)) = Out
      BY <2>2, <2>4, ConcatSplit
    <3>3. SubSeq(Out, 1, Len(Out)) = Out
      BY <2>2, SubSeqFull
    <3> QED
      BY <3>1, <3>2, <3>3 DEF IsPrefix
  <2>6. ASSUME print_pc = "idle" PROVE Out = asked
    <3>1. its = <<>>
      <4>1. Directives(its) = <<>> /\ AreItems(its)
        BY <2>1, <2>6 DEF Printing, Pending
      <4> QED
        BY <4>1, ItemsTail
    <3>2. Left = <<>> /\ Texts(its) = <<>>
      BY <2>6, <3>1, NoItems DEF Left
    <3>3. Out \o <<>> = Out
      BY <2>2, ConcatEmptySeq
    <3> QED
      BY <2>3, <3>2, <3>3
  <2> QED
    BY <2>5, <2>6 DEF LineAsPrinted
<1> QED
  BY <1>1, PrintingAlways, PTL

-------------------------------------------------------------------------------
(* A string spells the number that its digits make, one after the other. *)
Spelling(v, s, base) ==
    v = [k \in 0..Len(s) |-> IF k = 0 THEN 0 ELSE base * v[k - 1] + Digit(s[k])]

(* The recursion of Spelled has a solution along any string. *)
LEMMA SpellingExists ==
    ASSUME NEW base \in Nat, NEW s \in Seq(Int)
    PROVE  \E v \in [0..Len(s) -> Int] : Spelling(v, s, base)
<1> DEFINE n == Len(s)
           G == [k \in Nat |-> [x \in Int |-> IF k \in 1..n THEN base * x + Digit(s[k]) ELSE x]]
<1>1. n \in Nat /\ \A k \in 1..n : Digit(s[k]) \in Int
  BY DEF Digit, Zero, LetterA
<1>2. \A k \in 1..n, x \in Int : G[k][x] = base * x + Digit(s[k])
  BY <1>1
<1>3. G \in [Nat -> [Int -> Int]]
  <2>1. ASSUME NEW k \in 1..n, NEW x \in Int PROVE base * x + Digit(s[k]) \in Int
    <3>1. base * x \in Int
      OBVIOUS
    <3> QED
      BY <1>1, <3>1
  <2> QED
    BY <2>1
<1> HIDE DEF n, G
<1>4. PICK v \in [0..n -> Int] : Recurs(v, 0..n, 0, G)
  <2> DEFINE S == Int
             a == 0
  <2>1. a \in S
    OBVIOUS
  <2>3. G \in [Nat -> [S -> S]]
    BY <1>3
  <2> HIDE DEF S, a
  <2>2. \E v \in [0..n -> S] : Recurs(v, 0..n, a, G)
    BY <1>1, <2>1, <2>3, RecursUpTo
  <2> QED
    BY <2>2 DEF S, a
<1>5. \A k \in 0..n : v[k] = IF k = 0 THEN 0 ELSE base * v[k - 1] + Digit(s[k])
  <2> SUFFICES ASSUME NEW k \in 0..n
               PROVE  v[k] = IF k = 0 THEN 0 ELSE base * v[k - 1] + Digit(s[k])
    OBVIOUS
  <2>1. v[k] = IF k = 0 THEN 0 ELSE G[k][v[k - 1]]
    BY <1>4 DEF Recurs
  <2>2. k # 0 => k \in 1..n /\ k - 1 \in 0..n /\ v[k - 1] \in Int
    BY <1>1
  <2> QED
    BY <1>2, <2>1, <2>2
<1>6. v = [k \in 0..n |-> v[k]]
  OBVIOUS
<1>7. Spelling(v, s, base)
  BY <1>5, <1>6 DEF Spelling, n
<1> QED
  BY <1>7 DEF n

(* Whatever goes on like it ends with the number that the string spells. *)
LEMMA SpelledBy ==
    ASSUME NEW base \in Nat, NEW s \in Seq(Int), NEW v, v[0] = 0,
           \A k \in 1..Len(s) : v[k] = base * v[k - 1] + Digit(s[k])
    PROVE  Spelled(s, base) = v[Len(s)]
<1> DEFINE n == Len(s)
           c == CHOOSE f : Spelling(f, s, base)
<1>1. n \in Nat
  OBVIOUS
<1>2. Spelling(c, s, base)
  <2>1. \E f : Spelling(f, s, base)
    BY SpellingExists
  <2> QED
    BY <2>1
<1>3. Spelled(s, base) = c[n]
  BY DEF Spelled, Spelling
<1> HIDE DEF c
<1>4. \A k \in 0..n : c[k] = IF k = 0 THEN 0 ELSE base * c[k - 1] + Digit(s[k])
  BY <1>2 DEF Spelling
<1> HIDE DEF n
<1> DEFINE T == {k \in Nat : k <= n => c[k] = v[k]}
<1>5. 0 \in T
  BY <1>1, <1>4
<1>6. ASSUME NEW k \in T PROVE k + 1 \in T
  <2> SUFFICES ASSUME k + 1 <= n PROVE c[k + 1] = v[k + 1]
    OBVIOUS
  <2>1. k \in Nat /\ k <= n /\ k + 1 \in 0..n /\ k + 1 \in 1..n /\ k + 1 # 0 /\ (k + 1) - 1 = k
    BY <1>1
  <2>2. c[k] = v[k]
    BY <2>1
  <2>3. c[k + 1] = base * c[k] + Digit(s[k + 1])
    BY <1>4, <2>1
  <2>4. v[k + 1] = base * v[k] + Digit(s[k + 1])
    BY <2>1 DEF n
  <2> QED
    BY <2>2, <2>3, <2>4
<1>7. T = Nat
  <2>1. T \subseteq Nat
    OBVIOUS
  <2> HIDE DEF T
  <2> QED
    BY <1>5, <1>6, <2>1, NatInd
<1>8. c[n] = v[n]
  BY <1>1, <1>7
<1> QED
  BY <1>3, <1>8 DEF n

(* Spelled is that solution. *)
LEMMA SpelledIs ==
    ASSUME NEW base \in Nat, NEW s \in Seq(Int)
    PROVE  \E v \in [0..Len(s) -> Int] :
              /\ v[0] = 0
              /\ \A k \in 1..Len(s) : v[k] = base * v[k - 1] + Digit(s[k])
              /\ Spelled(s, base) = v[Len(s)]
<1>1. PICK v \in [0..Len(s) -> Int] : Spelling(v, s, base)
  BY SpellingExists
<1>2. Len(s) \in Nat
  OBVIOUS
<1>3. v[0] = 0 /\ \A k \in 1..Len(s) : v[k] = base * v[k - 1] + Digit(s[k])
  BY <1>1, <1>2 DEF Spelling
<1>4. Spelled(s, base) = v[Len(s)]
  BY <1>3, SpelledBy
<1> QED
  BY <1>3, <1>4

(* A string after another is worth its number, and the other's times the     *)
(* power of the base by its length.                                          *)
LEMMA SpelledConcat ==
    ASSUME NEW base \in Nat \ {0}, NEW a \in Seq(Int), NEW s \in Seq(Int)
    PROVE  Spelled(a \o s, base) = Spelled(a, base) * Power(base)[Len(s)] + Spelled(s, base)
<1> DEFINE m == Len(a)
           n == Len(s)
           P == Power(base)
           c == a \o s
<1>0. m \in Nat /\ n \in Nat
  OBVIOUS
<1>1. PICK va \in [0..m -> Int] : /\ va[0] = 0
                                  /\ \A k \in 1..m : va[k] = base * va[k - 1] + Digit(a[k])
                                  /\ Spelled(a, base) = va[m]
  BY SpelledIs
<1>2. PICK vs \in [0..n -> Int] : /\ vs[0] = 0
                                  /\ \A k \in 1..n : vs[k] = base * vs[k - 1] + Digit(s[k])
                                  /\ Spelled(s, base) = vs[n]
  BY SpelledIs
<1>3. P[0] = 1 /\ (\A k \in Nat : P[k + 1] = base * P[k]) /\ \A k \in Nat : P[k] \in Nat
  BY PowerLaw
<1>4. /\ c \in Seq(Int) /\ Len(c) = m + n
      /\ \A i \in 1..(m + n) : c[i] = IF i <= m THEN a[i] ELSE s[i - m]
  BY ConcatProperties
<1> HIDE DEF m, n, P, c
<1> DEFINE v == [k \in 0..(m + n) |-> IF k <= m THEN va[k] ELSE va[m] * P[k - m] + vs[k - m]]
<1>5. v[0] = 0
  BY <1>0, <1>1
<1>6. \A k \in 0..m : v[k] = va[k]
  BY <1>0
<1>7. \A k \in 0..n : v[m + k] = va[m] * P[k] + vs[k]
  <2> SUFFICES ASSUME NEW k \in 0..n PROVE v[m + k] = va[m] * P[k] + vs[k]
    OBVIOUS
  <2>1. CASE k = 0
    <3>1. v[m + k] = va[m] /\ va[m] \in Int
      BY <1>0, <2>1
    <3>2. va[m] * 1 + 0 = va[m]
      BY <3>1
    <3> QED
      BY <1>2, <1>3, <2>1, <3>1, <3>2
  <2>2. CASE k # 0
    <3>1. m + k \in 0..(m + n) /\ ~(m + k <= m) /\ (m + k) - m = k
      BY <1>0, <2>2
    <3> QED
      BY <3>1
  <2> QED
    BY <2>1, <2>2
<1> HIDE DEF v
<1>8. \A k \in 1..(m + n) : v[k] = base * v[k - 1] + Digit(c[k])
  <2> SUFFICES ASSUME NEW k \in 1..(m + n) PROVE v[k] = base * v[k - 1] + Digit(c[k])
    OBVIOUS
  <2>1. CASE k <= m
    <3>1. k \in 1..m /\ k \in 0..m /\ k - 1 \in 0..m
      BY <1>0, <2>1
    <3>2. v[k] = va[k] /\ v[k - 1] = va[k - 1] /\ c[k] = a[k]
      BY <1>4, <1>6, <2>1, <3>1
    <3> QED
      BY <1>1, <3>1, <3>2
  <2>2. CASE ~(k <= m)
    <3> DEFINE j == k - m
    <3>1. j \in 1..n /\ j \in 0..n /\ j - 1 \in 0..n /\ k = m + j /\ k - 1 = m + (j - 1)
          /\ j - 1 \in Nat /\ (j - 1) + 1 = j
      BY <1>0, <2>2
    <3>2. c[k] = s[j]
      BY <1>4, <2>2
    <3> HIDE DEF j
    <3>3. v[k] = va[m] * P[j] + vs[j] /\ v[k - 1] = va[m] * P[j - 1] + vs[j - 1]
      BY <1>7, <3>1
    <3>4. P[j] = base * P[j - 1] /\ P[j - 1] \in Int
      <4>1. P[(j - 1) + 1] = base * P[j - 1] /\ P[j - 1] \in Nat
        BY <1>3, <3>1
      <4> QED
        BY <3>1, <4>1
    <3>5. vs[j] = base * vs[j - 1] + Digit(s[j])
      BY <1>2, <3>1
    <3> DEFINE A == va[m]
               p == P[j - 1]
               w == vs[j - 1]
               e == Digit(s[j])
    <3>6. A \in Int /\ p \in Int /\ w \in Int /\ e \in Int
      <4>1. s[j] \in Int
        BY <3>1 DEF n
      <4>2. e \in Int
        BY <4>1 DEF Digit, Zero, LetterA
      <4> QED
        BY <1>0, <3>1, <3>4, <4>2
    <3>7. v[k] = A * (base * p) + (base * w + e) /\ v[k - 1] = A * p + w
      BY <3>3, <3>4, <3>5
    <3> HIDE DEF A, p, w, e
    <3>8. A * (base * p) + (base * w + e) = base * (A * p + w) + e
      <4>1. A * (base * p) = base * (A * p)
        BY <3>6
      <4>2. base * (A * p + w) = base * (A * p) + base * w
        BY <3>6
      <4> QED
        BY <3>6, <4>1, <4>2
    <3> QED
      BY <3>2, <3>7, <3>8 DEF e
  <2> QED
    BY <2>1, <2>2
<1>9. Spelled(c, base) = v[m + n]
  <2>1. \A k \in 1..Len(c) : v[k] = base * v[k - 1] + Digit(c[k])
    BY <1>4, <1>8
  <2>2. Spelled(c, base) = v[Len(c)]
    BY <1>4, <1>5, <2>1, SpelledBy
  <2> QED
    BY <1>4, <2>2
<1>10. v[m + n] = va[m] * P[n] + vs[n]
  BY <1>0, <1>7
<1> QED
  BY <1>1, <1>2, <1>9, <1>10 DEF c, P, n

(* Zeros are worth nothing. *)
LEMMA SpelledZeros ==
    ASSUME NEW base \in Nat, NEW n \in Int
    PROVE  Spelled(Repeat(Zero, n), base) = 0
<1> DEFINE s == Repeat(Zero, n)
           v == [k \in Nat |-> 0]
<1>1. s \in Seq(Int) /\ Len(s) \in Nat /\ \A k \in 1..Len(s) : s[k] = Zero
  <2>1. Zero \in Int
    BY DEF Zero
  <2>2. /\ s \in Seq(Int) /\ Len(s) = (IF n > 0 THEN n ELSE 0)
        /\ \A k \in 1..n : s[k] = Zero
    BY <2>1, RepeatIs
  <2>3. \A k \in 1..Len(s) : k \in 1..n
    BY <2>2
  <2> QED
    BY <2>2, <2>3
<1>2. Digit(Zero) = 0
  BY DEF Digit, Zero, LetterA
<1> HIDE DEF s
<1>3. \A k \in 1..Len(s) : v[k] = base * v[k - 1] + Digit(s[k])
  <2> SUFFICES ASSUME NEW k \in 1..Len(s) PROVE v[k] = base * v[k - 1] + Digit(s[k])
    OBVIOUS
  <2>1. v[k] = 0 /\ v[k - 1] = 0
    BY <1>1
  <2>2. base * 0 = 0
    OBVIOUS
  <2> QED
    BY <1>1, <1>2, <2>1, <2>2
<1>4. v[0] = 0 /\ v[Len(s)] = 0
  BY <1>1
<1> HIDE DEF v
<1> QED
  BY <1>1, <1>3, <1>4, SpelledBy DEF s

-------------------------------------------------------------------------------
(* Numerals. *)
LEMMA NumeralDigit ==
    ASSUME NEW base \in {10, 16}, NEW r \in 0..(base - 1)
    PROVE  /\ Digit(Numeral(r)) = r
           /\ Numeral(r) \in Zero..(Zero + 9) \cup LetterA..(LetterA + base - 11)
           /\ Numeral(r) = Zero => r = 0
BY DEF Digit, Numeral, Zero, LetterA

(* What the loops over the digits of a number write is a numeral of it, if   *)
(* it has no more digits than they write.                                    *)
LEMMA NumeralsSpell ==
    ASSUME NEW base \in {10, 16}, NEW len \in Nat, NEW x \in Nat, x < Power(base)[len]
    PROVE  /\ IsNumeral(Numerals(x, base, len), base)
           /\ Spelled(Numerals(x, base, len), base) = x
<1> DEFINE P == Power(base)
           s == Numerals(x, base, len)
           v == [k \in 0..len |-> x \div P[len - k]]
<1>0. base \in Nat \ {0}
  OBVIOUS
<1>1. P[0] = 1 /\ (\A k \in Nat : P[k + 1] = base * P[k]) /\ \A k \in Nat : P[k] \in Nat \ {0}
  BY <1>0, PowerLaw
<1>2. s \in Seq(Int) /\ Len(s) = len /\ DOMAIN s = 1..len
      /\ \A c \in 1..len : /\ (x \div P[len - c]) % base \in 0..(base - 1)
                           /\ s[c] = Numeral((x \div P[len - c]) % base)
  <2>1. s \in Seq(Int) /\ Len(s) = len
        /\ \A c \in 1..len : /\ (x \div P[len - c]) % base \in 0..(base - 1)
                             /\ s[c] = Numeral((x \div P[len - c]) % base)
    BY <1>0, NumeralsAre
  <2> HIDE DEF s
  <2>2. DOMAIN s = 1..len
    BY <2>1, LenProperties
  <2> QED
    BY <2>1, <2>2
<1>3. x < P[len]
  OBVIOUS
<1> HIDE DEF P, s
<1>4. IsNumeral(s, base)
  <2> SUFFICES ASSUME NEW c \in 1..len
               PROVE  s[c] \in Zero..(Zero + 9) \cup LetterA..(LetterA + base - 11)
    BY <1>2 DEF IsNumeral
  <2> DEFINE r == (x \div P[len - c]) % base
  <2>1. r \in 0..(base - 1) /\ s[c] = Numeral(r)
    BY <1>2
  <2> HIDE DEF r
  <2> QED
    BY <2>1, NumeralDigit
<1>5. \A k \in 0..len : v[k] = x \div P[len - k]
  OBVIOUS
<1> HIDE DEF v
<1>6. v[0] = 0
  <2>1. P[len] \in Nat \ {0} /\ 0 \in 0..len /\ len - 0 = len
    BY <1>1
  <2>2. x \div P[len] = 0
    BY <1>3, <2>1
  <2> QED
    BY <1>5, <2>1, <2>2
<1>7. v[len] = x
  <2>1. len \in 0..len /\ len - len = 0
    OBVIOUS
  <2>2. x \div 1 = x
    OBVIOUS
  <2> QED
    BY <1>1, <1>5, <2>1, <2>2
<1>8. \A k \in 1..len : v[k] = base * v[k - 1] + Digit(s[k])
  <2> SUFFICES ASSUME NEW k \in 1..len PROVE v[k] = base * v[k - 1] + Digit(s[k])
    OBVIOUS
  <2> DEFINE i == len - k
             p == P[i]
             y == x \div p
             r == y % base
  <2>1. i \in Nat /\ len - (k - 1) = i + 1 /\ k \in 0..len /\ k - 1 \in 0..len
    OBVIOUS
  <2>2. p \in Nat \ {0} /\ P[i + 1] = base * p
    BY <1>1, <2>1
  <2>3. r \in 0..(base - 1) /\ s[k] = Numeral(r)
    BY <1>2
  <2>4. v[k] = y /\ v[k - 1] = x \div (base * p)
    BY <1>5, <2>1, <2>2
  <2> HIDE DEF i, p
  <2>5. y \in Nat
    BY <2>2
  <2>6. x \div (base * p) = y \div base
    <3>1. (x \div p) \div base = x \div (p * base)
      BY <1>0, <2>2
    <3>2. p * base = base * p
      BY <1>0, <2>2
    <3> QED
      BY <3>1, <3>2
  <2> HIDE DEF y
  <2>7. base * (y \div base) + r = y
    BY <1>0, <2>5
  <2> HIDE DEF r
  <2>8. Digit(s[k]) = r
    BY <2>3, NumeralDigit
  <2> QED
    BY <2>4, <2>6, <2>7, <2>8
<1>9. Spelled(s, base) = v[len]
  BY <1>0, <1>2, <1>6, <1>8, SpelledBy
<1> QED
  BY <1>4, <1>7, <1>9 DEF s

(* The decimal string of a number that is not zero begins with its sign and  *)
(* its first digit is not zero.                                              *)
LEMMA DecimalSpells ==
    ASSUME NEW x \in Int, x # 0
    PROVE  LET digits == Numerals(Abs(x), 10, Length10(x))
           IN  /\ digits \in Seq(Int) /\ Len(digits) \in Nat \ {0}
               /\ IsNumeral(digits, 10) /\ Spelled(digits, 10) = Abs(x)
               /\ digits[1] # Zero
<1> DEFINE n == Length10(x)
           t == Abs(x)
           P == Power(10)
           digits == Numerals(t, 10, n)
<1>1. t \in Nat \ {0} /\ DigitCount(t, n)
  BY Length10Counts DEF Abs
<1>2. n \in Nat /\ t < P[n] /\ (n # 0 => P[n - 1] <= t)
  BY <1>1 DEF DigitCount
<1>3. P[0] = 1 /\ (\A k \in Nat : P[k + 1] = 10 * P[k]) /\ \A k \in Nat : P[k] \in Nat \ {0}
  BY PowerLaw
<1> HIDE DEF n, t
<1>4. n # 0
  BY <1>1, <1>2, <1>3
<1>5. /\ digits \in Seq(Int) /\ Len(digits) = n
      /\ digits[1] = Numeral((t \div P[n - 1]) % 10)
  <2>1. 1 \in 1..n /\ 10 \in Nat \ {0}
    BY <1>2, <1>4
  <2> QED
    BY <1>1, <1>2, <2>1, NumeralsAre
<1>6. IsNumeral(digits, 10) /\ Spelled(digits, 10) = t
  BY <1>1, <1>2, NumeralsSpell
<1> HIDE DEF P, digits
<1>7. digits[1] # Zero
  <2> DEFINE p == P[n - 1]
             q == t \div p
  <2>1. n - 1 \in Nat /\ (n - 1) + 1 = n
    BY <1>2, <1>4
  <2>2. p \in Nat \ {0} /\ P[n] = 10 * p
    <3>1. P[(n - 1) + 1] = 10 * P[n - 1]
      BY <1>3, <2>1
    <3> QED
      BY <1>3, <2>1, <3>1
  <2>3. p <= t /\ t < 10 * p
    BY <1>2, <1>4, <2>2
  <2> HIDE DEF p
  <2>4. q \in 1..9
    <3> DEFINE e == t % p
    <3>1. t = p * q + e /\ q \in Nat /\ e \in 0..(p - 1)
      <4>1. t \in Int /\ t >= 0 /\ p \in Int /\ p > 0
        BY <1>1, <2>2
      <4>2. q \in Int /\ e \in 0..(p - 1)
        BY <4>1
      <4>3. t = p * q + e
        BY <4>1
      <4>4. q >= 0
        BY <4>1
      <4> QED
        BY <4>2, <4>3, <4>4
    <3> HIDE DEF q, e
    <3>2. q # 0
      <4> SUFFICES ASSUME q = 0 PROVE FALSE
        OBVIOUS
      <4>1. p * q = 0
        BY <2>2
      <4> QED
        BY <2>2, <2>3, <3>1, <4>1
    <3>3. q < 10
      <4> SUFFICES ASSUME q >= 10 PROVE FALSE
        BY <3>1
      <4>1. p * q >= p * 10
        BY <2>2, <3>1
      <4> QED
        BY <2>2, <2>3, <3>1, <4>1
    <3> QED
      BY <3>1, <3>2, <3>3
  <2> HIDE DEF q
  <2>5. q % 10 = q /\ q \in 0..(10 - 1)
    BY <2>4
  <2>6. digits[1] = Numeral(q)
    BY <1>5, <2>5 DEF p, q
  <2>7. Numeral(q) # Zero
    BY <2>4, <2>5, NumeralDigit
  <2> QED
    BY <2>6, <2>7
<1> QED
  BY <1>2, <1>4, <1>5, <1>6, <1>7 DEF digits, t, n

(* Numerals after numerals are numerals. *)
LEMMA NumeralConcat ==
    ASSUME NEW base \in Nat, NEW a \in Seq(Int), NEW s \in Seq(Int),
           IsNumeral(a, base), IsNumeral(s, base)
    PROVE  IsNumeral(a \o s, base)
<1> DEFINE N == Zero..(Zero + 9) \cup LetterA..(LetterA + base - 11)
           m == Len(a)
           n == Len(s)
           c == a \o s
<1>1. m \in Nat /\ n \in Nat /\ (\A i \in 1..m : a[i] \in N) /\ \A i \in 1..n : s[i] \in N
  BY DEF IsNumeral
<1>2. /\ c \in Seq(Int) /\ Len(c) = m + n
      /\ \A i \in 1..(m + n) : c[i] = IF i <= m THEN a[i] ELSE s[i - m]
  BY ConcatProperties
<1> HIDE DEF N, m, n, c
<1>3. ASSUME NEW i \in 1..(m + n) PROVE c[i] \in N
  <2>1. CASE i <= m
    <3>1. i \in 1..m
      BY <1>1, <2>1
    <3> QED
      BY <1>1, <1>2, <2>1, <3>1
  <2>2. CASE ~(i <= m)
    <3>1. i - m \in 1..n
      BY <1>1, <2>2
    <3> QED
      BY <1>1, <1>2, <2>2, <3>1
  <2> QED
    BY <2>1, <2>2
<1>4. DOMAIN c = 1..(m + n)
  BY <1>2, LenProperties
<1>5. \A i \in DOMAIN c : c[i] \in N
  BY <1>3, <1>4
<1> QED
  BY <1>5 DEF IsNumeral, N, c

(* A number without a sign is spelled by its digits, the first no zero. *)
LEMMA UnsignedSpells ==
    ASSUME NEW x \in Nat
    PROVE  /\ IntToString(x) \in Seq(Int) /\ Len(IntToString(x)) \in Nat \ {0}
           /\ IsNumeral(IntToString(x), 10) /\ Spelled(IntToString(x), 10) = x
<1>1. CASE x = 0
  <2> DEFINE s == <<Zero>>
             v == [k \in 0..1 |-> 0]
  <2>1. IntToString(x) = s
    BY <1>1 DEF IntToString
  <2>2. s \in Seq(Int) /\ Len(s) = 1 /\ s[1] = Zero /\ DOMAIN s = 1..1
    BY DEF Zero
  <2> HIDE DEF s
  <2>3. IsNumeral(s, 10)
    BY <2>2 DEF IsNumeral, Zero
  <2>4. v[0] = 0 /\ v[1] = 0 /\ \A k \in 1..Len(s) : v[k] = 10 * v[k - 1] + Digit(s[k])
    BY <2>2 DEF Digit, Zero, LetterA
  <2> HIDE DEF v
  <2>5. Spelled(s, 10) = 0
    <3>1. Spelled(s, 10) = v[Len(s)]
      <4> DEFINE b == 10
      <4>1. b \in Nat /\ v[0] = 0 /\ \A k \in 1..Len(s) : v[k] = b * v[k - 1] + Digit(s[k])
        BY <2>4
      <4> HIDE DEF b
      <4>2. Spelled(s, b) = v[Len(s)]
        BY <2>2, <4>1, SpelledBy
      <4> QED
        BY <4>2 DEF b
    <3> QED
      BY <2>2, <2>4, <3>1
  <2> QED
    BY <1>1, <2>1, <2>2, <2>3, <2>5
<1>2. CASE x # 0
  <2> DEFINE digits == Numerals(Abs(x), 10, Length10(x))
  <2>1. /\ digits \in Seq(Int) /\ Len(digits) \in Nat \ {0}
        /\ IsNumeral(digits, 10) /\ Spelled(digits, 10) = Abs(x)
    BY <1>2, DecimalSpells
  <2>2. IntToString(x) = Repeat(Minus, 0) \o digits
    BY <1>2 DEF IntToString, FirstDigit
  <2>3. Repeat(Minus, 0) = <<>>
    BY DEF Repeat
  <2> HIDE DEF digits
  <2>4. <<>> \o digits = digits
    BY <2>1, ConcatEmptySeq
  <2>5. Abs(x) = x
    BY DEF Abs
  <2> QED
    BY <2>1, <2>2, <2>3, <2>4, <2>5
<1> QED
  BY <1>1, <1>2

(* intToString, with its sign. *)
LEMMA SignedSpells ==
    ASSUME NEW x \in Int
    PROVE  /\ IntToString(x) \in Seq(Int)
           /\ SpellsInt(IntToString(x), x, Len(IntToString(x)))
<1> DEFINE s == IntToString(x)
<1>1. CASE x < 0
  <2> DEFINE digits == Numerals(Abs(x), 10, Length10(x))
             m == Len(digits)
  <2>1. /\ digits \in Seq(Int) /\ m \in Nat \ {0}
        /\ IsNumeral(digits, 10) /\ Spelled(digits, 10) = Abs(x)
        /\ digits[1] # Zero
    BY <1>1, DecimalSpells
  <2>2. s = Repeat(Minus, 1) \o digits
    BY <1>1 DEF IntToString, FirstDigit
  <2> HIDE DEF digits, s
  <2>3. Minus \in Int
    BY DEF Minus
  <2> DEFINE r == Repeat(Minus, 1)
  <2>4. r \in Seq(Int) /\ Len(r) = 1 /\ r[1] = Minus
    BY <2>3 DEF Repeat
  <2> HIDE DEF r
  <2>5. /\ s \in Seq(Int) /\ Len(s) = 1 + m
        /\ \A i \in 1..(1 + m) : s[i] = IF i <= 1 THEN r[i] ELSE digits[i - 1]
    <3>1. s = r \o digits
      BY <2>2 DEF r
    <3> QED
      <4>1. Len(s) = Len(r) + m
            /\ \A i \in 1..(Len(r) + m) : s[i] = IF i <= Len(r) THEN r[i] ELSE digits[i - Len(r)]
        BY <2>1, <2>4, <3>1, ConcatProperties
      <4>2. s \in Seq(Int)
        BY <2>1, <2>4, <3>1, ConcatProperties
      <4> HIDE DEF m
      <4> QED
        BY <2>4, <4>1, <4>2
  <2>6. s[1] = Minus
    BY <2>1, <2>4, <2>5
  <2>7. SubSeq(s, 1 + 1, Len(s)) = digits
    BY <2>1, <2>2, <2>4, ConcatSplit DEF r
  <2>8. Len(s) > 1
    BY <2>1, <2>5
  <2> QED
    BY <1>1, <2>1, <2>5, <2>6, <2>7, <2>8 DEF SpellsInt, s
<1>2. CASE x = 0
  <2>1. s \in Seq(Int) /\ Len(s) \in Nat \ {0} /\ IsNumeral(s, 10) /\ Spelled(s, 10) = x
    BY <1>2, UnsignedSpells
  <2>2. SubSeq(s, 0 + 1, Len(s)) = s
    BY <2>1, SubSeqFull
  <2>3. Abs(x) = x
    BY <1>2 DEF Abs
  <2> HIDE DEF s
  <2> DEFINE sign == IF x < 0 THEN 1 ELSE 0
  <2>4. sign = 0 /\ SubSeq(s, sign + 1, Len(s)) = s
    BY <1>2, <2>2
  <2> HIDE DEF sign
  <2>5. SpellsInt(s, x, Len(s))
    <3>1. SpellsInt(s, x, Len(s)) <=>
             /\ Len(s) > sign
             /\ x < 0 => s[1] = Minus
             /\ IsNumeral(SubSeq(s, sign + 1, Len(s)), 10)
             /\ Spelled(SubSeq(s, sign + 1, Len(s)), 10) = Abs(x)
             /\ x # 0 => SubSeq(s, sign + 1, Len(s))[1] # Zero
      BY DEF SpellsInt, sign
    <3> QED
      <4>1. Len(s) > sign
        BY <2>1, <2>4
      <4>2. ~(x < 0) /\ x = 0
        BY <1>2
      <4> QED
        BY <2>1, <2>3, <2>4, <3>1, <4>1, <4>2, Zenon
  <2> QED
    BY <2>1, <2>5 DEF s
<1>3. CASE x > 0
  <2> DEFINE digits == Numerals(Abs(x), 10, Length10(x))
  <2>1. /\ digits \in Seq(Int) /\ Len(digits) \in Nat \ {0}
        /\ IsNumeral(digits, 10) /\ Spelled(digits, 10) = Abs(x)
        /\ digits[1] # Zero
    BY <1>3, DecimalSpells
  <2>2. s = Repeat(Minus, 0) \o digits
    BY <1>3 DEF IntToString, FirstDigit
  <2>3. Repeat(Minus, 0) = <<>>
    BY DEF Repeat
  <2> HIDE DEF digits, s
  <2>4. s = digits
    BY <2>1, <2>2, <2>3, ConcatEmptySeq
  <2>5. SubSeq(s, 0 + 1, Len(s)) = s
    BY <2>1, <2>4, SubSeqFull
  <2> DEFINE sign == IF x < 0 THEN 1 ELSE 0
  <2>6. sign = 0 /\ SubSeq(s, sign + 1, Len(s)) = s /\ ~(x < 0)
    BY <1>3, <2>5
  <2> HIDE DEF sign
  <2>7. SpellsInt(s, x, Len(s))
    <3>1. SpellsInt(s, x, Len(s)) <=>
             /\ Len(s) > sign
             /\ x < 0 => s[1] = Minus
             /\ IsNumeral(SubSeq(s, sign + 1, Len(s)), 10)
             /\ Spelled(SubSeq(s, sign + 1, Len(s)), 10) = Abs(x)
             /\ x # 0 => SubSeq(s, sign + 1, Len(s))[1] # Zero
      BY DEF SpellsInt, sign
    <3> QED
      <4>1. Len(s) > sign
        BY <2>1, <2>4, <2>6
      <4> QED
        BY <2>1, <2>4, <2>6, <3>1, <4>1, Zenon
  <2> QED
    BY <2>1, <2>4, <2>7 DEF s
<1> QED
  BY <1>1, <1>2, <1>3

(* With blanks after it. *)
LEMMA PaddedSpells ==
    ASSUME NEW x \in Int, NEW w \in Nat,
           NEW text, text = IntToString(x) \o Repeat(Space, w - Len(IntToString(x)))
    PROVE  /\ Len(text) >= w
           /\ \E len \in 1..Len(text) :
                 /\ SpellsInt(text, x, len)
                 /\ \A c \in (len + 1)..Len(text) : text[c] = Space
<1> DEFINE s == IntToString(x)
           m == Len(s)
           k == w - m
           r == Repeat(Space, k)
           sign == IF x < 0 THEN 1 ELSE 0
<1>1. s \in Seq(Int) /\ SpellsInt(s, x, m) /\ m \in Nat
  <2>1. s \in Seq(Int) /\ SpellsInt(s, x, m)
    BY SignedSpells
  <2> QED
    BY <2>1, LenProperties
<1> HIDE DEF s
<1>2. k \in Int /\ Space \in Int
  BY <1>1 DEF Space
<1>3. text = s \o r
  BY DEF s
<1> HIDE DEF m
<1>4. r \in Seq(Int) /\ Len(r) = (IF k > 0 THEN k ELSE 0) /\ \A i \in 1..k : r[i] = Space
  <2> HIDE DEF k
  <2> QED
    BY <1>2, RepeatIs
<1> HIDE DEF r
<1>5. /\ text \in Seq(Int) /\ Len(text) = m + Len(r)
      /\ \A i \in 1..(m + Len(r)) : text[i] = IF i <= m THEN s[i] ELSE r[i - m]
  <2>1. Len(s) = m
    BY DEF m
  <2>2. /\ s \o r \in Seq(Int) /\ Len(s \o r) = Len(s) + Len(r)
        /\ \A i \in 1..(Len(s) + Len(r)) : (s \o r)[i] = IF i <= Len(s) THEN s[i] ELSE r[i - Len(s)]
    BY <1>1, <1>4, ConcatProperties
  <2> QED
    BY <1>3, <2>1, <2>2
<1>6. Len(text) >= w
  BY <1>1, <1>4, <1>5
<1>7. m > sign /\ sign \in 0..1
  BY <1>1 DEF SpellsInt
<1>8. SubSeq(text, sign + 1, m) = SubSeq(s, sign + 1, m)
  <2>1. sign + 1 \in 1..Len(s) /\ m \in 1..Len(s)
    BY <1>1, <1>7 DEF m
  <2> DEFINE i == sign + 1
  <2> HIDE DEF i
  <2>2. i \in 1..Len(s)
    BY <2>1 DEF i
  <2>3. SubSeq(s \o r, i, m) = SubSeq(s, i, m)
    BY <1>1, <1>4, <2>1, <2>2, SubSeqOfConcat1
  <2> QED
    BY <1>3, <2>3 DEF i
<1>9. text[1] = s[1] /\ SubSeq(s, sign + 1, m)[1] = s[sign + 1]
      /\ m \in 1..Len(text)
  <2>1. text[1] = s[1] /\ m \in 1..Len(text)
    <3>1. Len(r) \in Nat /\ m \in Nat /\ m >= 1
      BY <1>1, <1>4, <1>7
    <3>2. 1 \in 1..(m + Len(r)) /\ 1 <= m /\ m \in 1..(m + Len(r))
      BY <3>1
    <3> QED
      BY <1>5, <3>2
  <2>2. SubSeq(s, sign + 1, m)[1] = s[sign + 1]
    <3>1. \A i \in (sign + 1)..m : s[i] \in Int
      BY <1>1, <1>7, ElementOfSeq DEF m
    <3>2. 1 \in 1..(m - (sign + 1) + 1) /\ sign + 1 \in Int /\ m \in Int
      BY <1>1, <1>7
    <3> HIDE DEF sign
    <3> QED
      BY <1>1, <1>7, <3>1, <3>2, SubSeqProperties
  <2> QED
    BY <2>1, <2>2
<1>10. SpellsInt(text, x, m)
  <2>1. /\ m > sign /\ (x < 0 => s[1] = Minus)
        /\ IsNumeral(SubSeq(s, sign + 1, m), 10) /\ Spelled(SubSeq(s, sign + 1, m), 10) = Abs(x)
        /\ x # 0 => SubSeq(s, sign + 1, m)[1] # Zero
    BY <1>1 DEF SpellsInt
  <2> QED
    BY <1>8, <1>9, <2>1 DEF SpellsInt
<1>11. \A c \in (m + 1)..Len(text) : text[c] = Space
  <2> SUFFICES ASSUME NEW c \in (m + 1)..Len(text) PROVE text[c] = Space
    OBVIOUS
  <2>1. c \in 1..(m + Len(r)) /\ ~(c <= m) /\ c - m \in 1..k
    BY <1>1, <1>4, <1>5
  <2> QED
    BY <1>4, <1>5, <2>1
<1> QED
  BY <1>6, <1>9, <1>10, <1>11

(* A word has as many hexadecimal digits as a quarter of its bits. *)
HexDigits == WordBits \div 4

(* As many digits of base 16 as a word has fours of bits tell its values. *)
LEMMA WordPower ==
    /\ HexDigits \in Nat
    /\ (2 * WordBits) \div 4 = 2 * HexDigits
    /\ Power(2)[WordBits] = Power(16)[HexDigits]
<1> DEFINE P == Power(2)
           Q == Power(16)
           T == {n \in Nat : P[4 * n] = Q[n]}
<1>1. P[0] = 1 /\ (\A n \in Nat : P[n + 1] = 2 * P[n]) /\ \A n \in Nat : P[n] \in Nat
  BY PowerLaw
<1>2. Q[0] = 1 /\ (\A n \in Nat : Q[n + 1] = 16 * Q[n]) /\ \A n \in Nat : Q[n] \in Nat
  BY PowerLaw
<1> HIDE DEF P, Q
<1>3. 0 \in T
  BY <1>1, <1>2
<1>4. ASSUME NEW n \in T PROVE n + 1 \in T
  <2> DEFINE m == 4 * n
  <2>1. n \in Nat /\ m \in Nat /\ P[m] = Q[n] /\ 4 * (n + 1) = ((m + 1) + 1 + 1) + 1
        /\ m + 1 \in Nat /\ (m + 1) + 1 \in Nat /\ ((m + 1) + 1) + 1 \in Nat
    OBVIOUS
  <2> HIDE DEF m
  <2>2. P[m + 1] = 2 * P[m] /\ P[(m + 1) + 1] = 2 * P[m + 1]
        /\ P[((m + 1) + 1) + 1] = 2 * P[(m + 1) + 1]
        /\ P[(((m + 1) + 1) + 1) + 1] = 2 * P[((m + 1) + 1) + 1]
    BY <1>1, <2>1
  <2>3. Q[n + 1] = 16 * Q[n] /\ Q[n] \in Nat
    BY <1>2, <2>1
  <2>4. P[4 * (n + 1)] = Q[n + 1]
    BY <2>1, <2>2, <2>3
  <2> QED
    BY <2>1, <2>4
<1>5. T = Nat
  <2>1. T \subseteq Nat
    OBVIOUS
  <2> HIDE DEF T
  <2> QED
    BY <1>3, <1>4, <2>1, NatInd
<1>6. HexDigits \in Nat /\ WordBits = 4 * HexDigits /\ (2 * WordBits) \div 4 = 2 * HexDigits
  BY WordAssumption DEF HexDigits
<1>7. P[4 * HexDigits] = Q[HexDigits]
  BY <1>5, <1>6
<1> QED
  BY <1>6, <1>7 DEF P, Q

(* The hexadecimal numerals. *)
LEMMA HexNumerals ==
    ASSUME NEW x \in Nat, NEW n \in Nat
    PROVE  /\ Numerals(x, 16, n) \in Seq(Int) /\ Len(Numerals(x, 16, n)) = n
           /\ \A c \in 1..n : Numerals(x, 16, n)[c] = Numeral((x \div Power(16)[n - c]) % 16)
           /\ Power(16)[n] \in Nat
<1> DEFINE b == 16
<1>1. b \in Nat \ {0}
  OBVIOUS
<1> HIDE DEF b
<1>2. /\ Numerals(x, b, n) \in Seq(Int) /\ Len(Numerals(x, b, n)) = n
      /\ \A c \in 1..n : Numerals(x, b, n)[c] = Numeral((x \div Power(b)[n - c]) % b)
  BY <1>1, NumeralsAre
<1>3. Power(b)[n] \in Nat
  BY <1>1, PowerLaw
<1> QED
  BY <1>2, <1>3 DEF b

(* A word, with zeros before it. *)
LEMMA HexSpells ==
    ASSUME NEW x \in Words, NEW w \in Nat,
           NEW text, text = Repeat(Zero, w - Len(IntToHexString(x, WordBits)))
                            \o IntToHexString(x, WordBits)
    PROVE  Len(text) >= w /\ IsNumeral(text, 16) /\ Spelled(text, 16) = x
<1> DEFINE s == IntToHexString(x, WordBits)
           m == Len(s)
           k == w - m
           r == Repeat(Zero, k)
<1>1. x \in Nat /\ x < Power(16)[HexDigits] /\ HexDigits \in Nat
  <2>1. Power(2)[WordBits] \in Nat
    <3>1. WordBits \in Nat
      BY WordAssumption
    <3> DEFINE b == 2
    <3>2. b \in Nat \ {0}
      OBVIOUS
    <3> HIDE DEF b
    <3>3. Power(b)[WordBits] \in Nat
      BY <3>1, <3>2, PowerLaw
    <3> QED
      BY <3>3 DEF b
  <2> QED
    BY <2>1, WordPower DEF Words
<1>2. s = Numerals(x, 16, HexDigits)
  BY DEF IntToHexString, HexDigits
<1>3. s \in Seq(Int) /\ m \in Nat /\ IsNumeral(s, 16) /\ Spelled(s, 16) = x
  <2> DEFINE u == Numerals(x, 16, HexDigits)
  <2>1. u \in Seq(Int) /\ Len(u) = HexDigits
    BY <1>1, HexNumerals
  <2>2. IsNumeral(u, 16) /\ Spelled(u, 16) = x
    BY <1>1, NumeralsSpell
  <2> HIDE DEF u
  <2> QED
    BY <1>1, <1>2, <2>1, <2>2 DEF u
<1>4. text = r \o s
  OBVIOUS
<1> HIDE DEF s
<1>5. k \in Int /\ Zero \in Int
  BY <1>3 DEF Zero
<1>6. r \in Seq(Int) /\ Len(r) = (IF k > 0 THEN k ELSE 0) /\ (\A i \in 1..k : r[i] = Zero)
      /\ Spelled(r, 16) = 0
  <2> HIDE DEF k
  <2> QED
    BY <1>5, RepeatIs, SpelledZeros
<1>7. IsNumeral(r, 16)
  <2>1. DOMAIN r = 1..Len(r)
    BY <1>6, LenProperties
  <2>2. \A i \in 1..Len(r) : r[i] = Zero
    BY <1>3, <1>6
  <2> HIDE DEF r
  <2> QED
    BY <2>1, <2>2 DEF IsNumeral, Zero
<1> HIDE DEF r
<1>8. Len(text) >= w
  <2>1. Len(r \o s) = Len(r) + Len(s)
    BY <1>3, <1>6, ConcatProperties
  <2> QED
    BY <1>3, <1>4, <1>6, <2>1
<1>9. IsNumeral(text, 16)
  BY <1>3, <1>4, <1>6, <1>7, NumeralConcat
<1>10. Spelled(text, 16) = x
  <2> DEFINE p == Power(16)[Len(s)]
  <2>1. Spelled(r \o s, 16) = Spelled(r, 16) * p + Spelled(s, 16)
    BY <1>3, <1>6, SpelledConcat
  <2>2. p \in Nat
    BY <1>3, HexNumerals
  <2> HIDE DEF p
  <2>3. 0 * p = 0
    BY <2>2
  <2> QED
    <3>1. Spelled(text, 16) = 0 * p + x
      BY <1>3, <1>4, <1>6, <2>1
    <3> QED
      BY <1>1, <2>3, <3>1
<1> QED
  BY <1>8, <1>9, <1>10

(* What is above a digit of the lower word does not change it. *)
IsAbove(x, hi, q, p, lo) == x = hi * ((16 * q) * p) + lo

(* The lower digits of two words joined are those of the lower word. *)
LEMMA LowerDigit ==
    ASSUME NEW hi \in Nat, NEW lo \in Nat, NEW q \in Nat, NEW p \in Nat \ {0},
           NEW x, IsAbove(x, hi, q, p, lo)
    PROVE  (x \div p) % 16 = (lo \div p) % 16
<1> DEFINE y == lo \div p
           e == lo % p
           g == hi * q
<1>1. lo = p * y + e /\ e \in 0..(p - 1) /\ y \in Nat
  <2>1. lo \in Int /\ lo >= 0 /\ p \in Int /\ p > 0
    OBVIOUS
  <2>2. lo = p * y + e
    BY <2>1
  <2>3. e \in 0..(p - 1) /\ y \in Int
    BY <2>1
  <2>4. y >= 0
    BY <2>1
  <2> HIDE DEF y, e
  <2> QED
    BY <2>2, <2>3, <2>4
<1>2. g \in Nat
  OBVIOUS
<1>3. x = (16 * g) * p + lo
  <2>1. hi * ((16 * q) * p) = (16 * (hi * q)) * p
    OBVIOUS
  <2> QED
    BY <2>1 DEF IsAbove
<1> HIDE DEF y, e, g
<1>4. x = (16 * g + y) * p + e
  <2>1. (16 * g + y) * p = (16 * g) * p + p * y
    BY <1>1, <1>2
  <2>2. (16 * g) * p \in Int /\ p * y \in Int
    BY <1>1, <1>2
  <2> QED
    BY <1>1, <1>3, <2>1, <2>2
<1>5. x \div p = 16 * g + y
  <2> DEFINE k == 16 * g + y
  <2>1. k \in Int /\ x = k * p + e
    BY <1>1, <1>2, <1>4
  <2> HIDE DEF k
  <2>2. (k * p + e) \div p = k
    BY <1>1, <2>1
  <2> QED
    BY <2>1, <2>2 DEF k
<1>6. (16 * g + y) % 16 = y % 16
  BY <1>1, <1>2
<1>7. (x \div p) % 16 = y % 16
  BY <1>5, <1>6
<1> QED
  BY <1>7 DEF y

(* The numerals of a number of two words are those of the one and those of   *)
(* the other.                                                                *)
LEMMA TwoWords ==
    ASSUME NEW hi \in Nat, NEW lo \in Nat, NEW h \in Nat, lo < Power(16)[h]
    PROVE  LET s == Numerals(hi * Power(16)[h] + lo, 16, 2 * h)
           IN  SubSeq(s, 1, h) = Numerals(hi, 16, h) /\ SubSeq(s, h + 1, 2 * h) = Numerals(lo, 16, h)
<1> DEFINE P == Power(16)
           x == hi * P[h] + lo
           s == Numerals(x, 16, 2 * h)
           a == Numerals(hi, 16, h)
           b == Numerals(lo, 16, h)
<1>1. P[0] = 1 /\ (\A k \in Nat : P[k + 1] = 16 * P[k]) /\ \A k \in Nat : P[k] \in Nat \ {0}
  BY PowerLaw
<1>2. \A i, j \in Nat : P[i + j] = P[i] * P[j]
  BY PowerAdd
<1>3. lo < P[h]
  OBVIOUS
<1>4. s = Numerals(hi * Power(16)[h] + lo, 16, 2 * h)
  OBVIOUS
<1>5. x \in Nat /\ x = hi * P[h] + lo
  <2>1. hi * P[h] \in Nat
    BY <1>1
  <2> QED
    BY <2>1
<1> HIDE DEF x
<1>6. /\ s \in Seq(Int) /\ Len(s) = 2 * h
      /\ \A c \in 1..(2 * h) : s[c] = Numeral((x \div P[2 * h - c]) % 16)
  <2>1. 2 * h \in Nat
    OBVIOUS
  <2> QED
    BY <1>5, <2>1, HexNumerals
<1>7. /\ a \in Seq(Int) /\ Len(a) = h
      /\ \A c \in 1..h : a[c] = Numeral((hi \div P[h - c]) % 16)
  BY HexNumerals
<1>8. /\ b \in Seq(Int) /\ Len(b) = h
      /\ \A c \in 1..h : b[c] = Numeral((lo \div P[h - c]) % 16)
  BY HexNumerals
<1> HIDE DEF P, s, a, b
<1>9. \A i \in 1..(2 * h) : s[i] \in Int
  BY <1>6, ElementOfSeq
<1>10. SubSeq(s, 1, h) = a
  <2> DEFINE u == SubSeq(s, 1, h)
  <2>1. u \in Seq(Int) /\ Len(u) = h /\ \A c \in 1..h : u[c] = s[c]
    <3>1. \A i \in 1..h : s[i] \in Int
      BY <1>9
    <3> QED
      BY <3>1, SubSeqProperties
  <2> HIDE DEF u
  <2>2. ASSUME NEW c \in 1..h PROVE s[c] = a[c]
    <3> DEFINE i == h - c
    <3>1. i \in Nat /\ 2 * h - c = h + i /\ c \in 1..(2 * h)
      OBVIOUS
    <3> HIDE DEF i
    <3>2. P[h + i] = P[h] * P[i] /\ P[h] \in Nat \ {0} /\ P[i] \in Nat \ {0}
      BY <1>1, <1>2, <3>1
    <3>3. (x \div P[h]) \div P[i] = x \div (P[h] * P[i])
      <4> DEFINE p == P[h]
                 q == P[i]
      <4>1. x \in Nat /\ p \in Nat \ {0} /\ q \in Nat \ {0}
        BY <1>5, <3>2
      <4> HIDE DEF p, q
      <4>2. (x \div p) \div q = x \div (p * q)
        BY <4>1
      <4> QED
        BY <4>2 DEF p, q
    <3>4. x \div P[h] = hi
      <4> DEFINE p == P[h]
      <4>1. p \in Nat \ {0} /\ lo \in 0..(p - 1) /\ hi \in Int
        BY <1>3, <3>2
      <4> HIDE DEF p
      <4>2. (hi * p + lo) \div p = hi
        BY <4>1
      <4> QED
        BY <1>5, <4>2 DEF p
    <3>5. s[c] = Numeral((x \div P[h + i]) % 16)
      BY <1>6, <3>1
    <3>6. a[c] = Numeral((hi \div P[i]) % 16)
      BY <1>7 DEF i
    <3> QED
      BY <3>2, <3>3, <3>4, <3>5, <3>6
  <2>3. u = a
    BY <1>7, <2>1, <2>2, SeqEqual
  <2> QED
    BY <2>3 DEF u
<1>11. SubSeq(s, h + 1, 2 * h) = b
  <2> DEFINE u == SubSeq(s, h + 1, 2 * h)
  <2>1. u \in Seq(Int) /\ Len(u) = h /\ \A c \in 1..h : u[c] = s[h + c]
    <3>1. \A i \in (h + 1)..(2 * h) : s[i] \in Int
      BY <1>9
    <3> QED
      BY <3>1, SubSeqProperties
  <2> HIDE DEF u
  <2>2. ASSUME NEW c \in 1..h PROVE s[h + c] = b[c]
    <3> DEFINE i == h - c
               j == c - 1
    <3>1. i \in Nat /\ j \in Nat /\ 2 * h - (h + c) = i /\ h + c \in 1..(2 * h)
          /\ h = (j + 1) + i /\ j + 1 \in Nat
      OBVIOUS
    <3>2. s[h + c] = Numeral((x \div P[2 * h - (h + c)]) % 16)
      BY <1>6, <3>1
    <3>3. s[h + c] = Numeral((x \div P[i]) % 16)
      BY <3>1, <3>2
    <3>4. b[c] = Numeral((lo \div P[i]) % 16)
      BY <1>8
    <3> HIDE DEF i, j
    <3>5. P[h] = (16 * P[j]) * P[i]
      <4>1. P[h] = P[j + 1] * P[i]
        BY <1>2, <3>1
      <4>2. P[j + 1] = 16 * P[j]
        BY <1>1, <3>1
      <4> QED
        BY <4>1, <4>2
    <3>6. P[i] \in Nat \ {0} /\ P[j] \in Nat
      BY <1>1, <3>1
    <3>7. (x \div P[i]) % 16 = (lo \div P[i]) % 16
      <4> DEFINE p == P[i]
                 q == P[j]
      <4>1. p \in Nat \ {0} /\ q \in Nat /\ IsAbove(x, hi, q, p, lo)
        BY <1>5, <3>5, <3>6 DEF IsAbove
      <4> HIDE DEF p, q
      <4>2. (x \div p) % 16 = (lo \div p) % 16
        BY <4>1, LowerDigit
      <4> QED
        BY <4>2 DEF p
    <3> QED
      BY <3>3, <3>4, <3>7
  <2>3. u = b
    <3>1. \A c \in 1..h : u[c] = b[c]
      BY <2>1, <2>2
    <3> QED
      BY <1>8, <2>1, <3>1, SeqEqual
  <2> QED
    BY <2>3 DEF u
<1> QED
  BY <1>10, <1>11 DEF s, a, b, x, P

(* Two words, one after the other. *)
LEMMA TwoWordsSpell ==
    ASSUME NEW hi \in Words, NEW lo \in Words,
           NEW text, text = IntToHexString(hi * Power(2)[WordBits] + lo, 2 * WordBits)
    PROVE  /\ Len(text) = 2 * HexDigits
           /\ IsNumeral(text, 16)
           /\ Spelled(SubSeq(text, 1, HexDigits), 16) = hi
           /\ Spelled(SubSeq(text, HexDigits + 1, Len(text)), 16) = lo
<1> DEFINE h == HexDigits
           p == Power(16)[h]
           x == hi * p + lo
           s == Numerals(x, 16, 2 * h)
           a == Numerals(hi, 16, h)
           b == Numerals(lo, 16, h)
<1>1. h \in Nat /\ 2 * h \in Nat
  BY WordPower
<1>2. hi \in Nat /\ lo \in Nat /\ p \in Nat /\ hi < p /\ lo < p
  <2>1. p \in Nat
    BY <1>1, HexNumerals
  <2> QED
    BY <2>1, WordPower DEF Words
<1>3. text = s
  BY WordPower DEF IntToHexString
<1> HIDE DEF h
<1>4. SubSeq(s, 1, h) = a /\ SubSeq(s, h + 1, 2 * h) = b
  BY <1>1, <1>2, TwoWords
<1> HIDE DEF p
<1>5. x \in Nat
  <2>1. hi * p \in Nat
    BY <1>2
  <2> QED
    BY <1>2, <2>1
<1> HIDE DEF x
<1>6. s \in Seq(Int) /\ Len(s) = 2 * h
  BY <1>1, <1>5, HexNumerals
<1>7. a \in Seq(Int) /\ b \in Seq(Int)
  BY <1>1, <1>2, HexNumerals
<1>8. IsNumeral(a, 16) /\ Spelled(a, 16) = hi /\ IsNumeral(b, 16) /\ Spelled(b, 16) = lo
  BY <1>1, <1>2, NumeralsSpell DEF p
<1> HIDE DEF s, a, b
<1>9. IsNumeral(s, 16)
  <2>1. s = a \o b
    <3> DEFINE n == 2 * h
    <3>1. n \in h..Len(s) /\ 1 \in 1..(Len(s) + 1) /\ h \in (1 - 1)..Len(s)
      BY <1>1, <1>6
    <3> HIDE DEF n
    <3>2. SubSeq(s, 1, h) \o SubSeq(s, h + 1, n) = SubSeq(s, 1, n)
      BY <1>6, <3>1, ConcatAdjacentSubSeq
    <3>3. SubSeq(s, 1, Len(s)) = s
      BY <1>6, SubSeqFull
    <3> QED
      BY <1>4, <1>6, <3>2, <3>3 DEF n
  <2> QED
    BY <1>7, <1>8, <2>1, NumeralConcat
<1> QED
  BY <1>3, <1>4, <1>6, <1>8, <1>9 DEF h

-------------------------------------------------------------------------------
(* The parts of a float. *)
JoinsParts(s, a, b, c, d) == s = ((a \o b) \o <<c>>) \o d

HasParts(s, a, b, c, d) ==
    /\ s \in Seq(Int)
    /\ Len(s) = Len(a) + Len(b) + 1 + Len(d)
    /\ \A i \in 1..Len(a) : s[i] = a[i]
    /\ s[Len(a) + Len(b) + 1] = c
    /\ SubSeq(s, Len(a) + 1, Len(a) + Len(b)) = b
    /\ SubSeq(s, Len(a) + Len(b) + 2, Len(s)) = d

(* Where the parts stand in a string that is joined of four. *)
LEMMA FourParts ==
    ASSUME NEW a \in Seq(Int), NEW b \in Seq(Int), NEW c \in Int, NEW d \in Seq(Int),
           NEW s, JoinsParts(s, a, b, c, d)
    PROVE  HasParts(s, a, b, c, d)
<1> DEFINE l == Len(a)
           m == Len(b)
           n == Len(d)
           u == a \o b
           v == u \o <<c>>
<1>1. l \in Nat /\ m \in Nat /\ n \in Nat
  OBVIOUS
<1>2. /\ u \in Seq(Int) /\ Len(u) = l + m
      /\ \A i \in 1..(l + m) : u[i] = IF i <= l THEN a[i] ELSE b[i - l]
  BY ConcatProperties
<1>3. <<c>> \in Seq(Int) /\ Len(<<c>>) = 1 /\ <<c>>[1] = c
  OBVIOUS
<1> HIDE DEF u
<1>4. /\ v \in Seq(Int) /\ Len(v) = l + m + 1
      /\ \A i \in 1..(l + m + 1) : v[i] = IF i <= l + m THEN u[i] ELSE c
  <2> DEFINE e == <<c>>
  <2>1. e \in Seq(Int) /\ Len(e) = 1 /\ e[1] = c
    OBVIOUS
  <2> HIDE DEF e
  <2>2. /\ u \o e \in Seq(Int) /\ Len(u \o e) = Len(u) + Len(e)
        /\ \A i \in 1..(Len(u) + Len(e)) :
              (u \o e)[i] = IF i <= Len(u) THEN u[i] ELSE e[i - Len(u)]
    <3>1. u \in Seq(Int)
      BY <1>2
    <3> QED
      BY <2>1, <3>1, ConcatProperties
  <2>3. v = u \o e
    BY DEF e
  <2> HIDE DEF v, l, m
  <2>4. l \in Nat /\ m \in Nat
    BY <1>1
  <2>5. Len(u) + Len(e) = l + m + 1
    BY <1>2, <2>1, <2>4
  <2>6. ASSUME NEW i \in 1..(l + m + 1) PROVE v[i] = IF i <= l + m THEN u[i] ELSE c
    <3>1. v[i] = IF i <= l + m THEN u[i] ELSE e[i - (l + m)]
      BY <1>2, <2>2, <2>3, <2>5
    <3>2. ~(i <= l + m) => i - (l + m) = 1
      BY <2>4
    <3> QED
      BY <2>1, <3>1, <3>2
  <2> QED
    BY <2>2, <2>3, <2>5, <2>6
<1> HIDE DEF v
<1>5. s = v \o d
  BY DEF v, u, JoinsParts
<1>6. /\ s \in Seq(Int) /\ Len(s) = (l + m + 1) + n
      /\ \A i \in 1..(l + m + 1 + n) : s[i] = IF i <= l + m + 1 THEN v[i] ELSE d[i - (l + m + 1)]
  <2>1. /\ v \o d \in Seq(Int) /\ Len(v \o d) = Len(v) + n
        /\ \A i \in 1..(Len(v) + n) : (v \o d)[i] = IF i <= Len(v) THEN v[i] ELSE d[i - Len(v)]
    BY <1>4, ConcatProperties
  <2> HIDE DEF n, l, m
  <2> QED
    BY <1>4, <1>5, <2>1
<1> HIDE DEF l, m, n
<1>7. ASSUME NEW i \in 1..(l + m) PROVE s[i] = u[i]
  <2>1. i \in 1..(l + m + 1) /\ i \in 1..(l + m + 1 + n) /\ i <= l + m + 1 /\ i <= l + m
    BY <1>1
  <2> QED
    BY <1>4, <1>6, <2>1
<1>8. \A i \in 1..l : s[i] = a[i]
  <2> SUFFICES ASSUME NEW i \in 1..l PROVE s[i] = a[i]
    OBVIOUS
  <2>1. i \in 1..(l + m) /\ i <= l
    BY <1>1
  <2> QED
    BY <1>2, <1>7, <2>1
<1>9. s[l + m + 1] = c
  <2> DEFINE i == l + m + 1
  <2>1. i \in 1..(l + m + 1) /\ i \in 1..(l + m + 1 + n) /\ i <= l + m + 1 /\ ~(i <= l + m)
    BY <1>1
  <2> HIDE DEF i
  <2>2. s[i] = v[i] /\ v[i] = c
    BY <1>4, <1>6, <2>1
  <2> QED
    BY <2>2 DEF i
<1>10. \A i \in 1..(l + m + 1 + n) : s[i] \in Int
  <2>1. \A i \in 1..Len(s) : s[i] \in Int
    BY <1>6, ElementOfSeq
  <2> QED
    BY <1>6, <2>1
<1>11. SubSeq(s, l + 1, l + m) = b
  <2>1. CASE m = 0
    <3>1. b = <<>>
      BY <2>1, EmptySeq DEF m
    <3>2. l + 1 \in Int /\ l + m \in Int /\ l + m < l + 1
      BY <1>1, <2>1
    <3>3. SubSeq(s, l + 1, l + m) = <<>>
      BY <3>2, SubSeqEmpty
    <3> QED
      BY <3>1, <3>3
  <2>2. CASE m # 0
    <3> DEFINE f == l + 1
               g == l + m
    <3>1. f \in 1..g /\ g \in 1..g /\ Len(u) = g /\ f \in 1..Len(v) /\ g \in 1..Len(v)
      BY <1>1, <1>2, <1>4, <2>2
    <3>2. SubSeq(a \o b, Len(a) + 1, Len(a \o b)) = b
      BY ConcatSplit
    <3>3. SubSeq(u, f, g) = b
      BY <3>1, <3>2 DEF u, l
    <3> HIDE DEF f, g
    <3>4. SubSeq(s, f, g) = SubSeq(v, f, g)
      BY <1>4, <1>5, <3>1, SubSeqOfConcat1
    <3>5. SubSeq(v, f, g) = SubSeq(u, f, g)
      BY <1>2, <1>3, <3>1, SubSeqOfConcat1 DEF v
    <3> QED
      BY <3>3, <3>4, <3>5 DEF f, g
  <2> QED
    BY <2>1, <2>2
<1>12. SubSeq(s, l + m + 2, Len(s)) = d
  <2>1. SubSeq(v \o d, Len(v) + 1, Len(v \o d)) = d
    BY <1>4, ConcatSplit
  <2>2. Len(v) + 1 = l + m + 2
    BY <1>1, <1>4
  <2> QED
    BY <1>5, <2>1, <2>2
<1>13. Len(s) = l + m + 1 + n
  BY <1>1, <1>6
<1> QED
  BY <1>6, <1>8, <1>9, <1>11, <1>12, <1>13 DEF l, m, n, HasParts

(* The fraction that is printed is the nearest to that of the value. *)
LEMMA Rounding ==
    ASSUME NEW F \in Nat \ {0}, NEW P \in Nat \ {0}, NEW x \in Nat,
           NEW q, q = x \div F,
           NEW frac, frac = ((x % F) * P + F \div 2) \div F
    PROVE  /\ q \in Nat /\ frac \in Nat
           /\ Abs((q * P + frac) * F - x * P) <= F \div 2
           /\ (x % F) * P + F \div 2 < F * P => frac < P
<1> DEFINE r == x % F
           h == F \div 2
           y == r * P + h
           e == y % F
<1>1. q \in Nat /\ r \in 0..(F - 1) /\ x = F * q + r
  <2>1. x \in Int /\ x >= 0 /\ F \in Int /\ F > 0
    OBVIOUS
  <2>2. r \in 0..(F - 1)
    BY <2>1
  <2>3. x = F * q + r
    BY <2>1
  <2>4. q \in Int /\ q >= 0
    BY <2>1
  <2> HIDE DEF r
  <2> QED
    BY <2>2, <2>3, <2>4
<1>2. h \in Nat /\ F <= 2 * h + 1 /\ 2 * h <= F
  OBVIOUS
<1> HIDE DEF r, h
<1>3. r * P \in Nat
  BY <1>1
<1>4. y \in Nat /\ y = r * P + h
  BY <1>2, <1>3
<1>5. frac = y \div F
  BY DEF r, h
<1> HIDE DEF y
<1>6. frac \in Nat /\ e \in 0..(F - 1) /\ y = F * frac + e
  <2>1. y \in Int /\ y >= 0 /\ F \in Int /\ F > 0
    BY <1>4
  <2>2. e \in 0..(F - 1)
    BY <2>1
  <2>3. y = F * frac + e
    BY <1>5, <2>1
  <2>4. frac \in Int /\ frac >= 0
    BY <1>5, <2>1
  <2> HIDE DEF e
  <2> QED
    BY <2>2, <2>3, <2>4
<1> HIDE DEF e
<1>7. (q * P + frac) * F - x * P = h - e
  <2>1. x * P = (q * P) * F + r * P
    <3>1. (F * q + r) * P = (q * P) * F + r * P
      BY <1>1
    <3> QED
      BY <1>1, <3>1
  <2>2. (q * P + frac) * F = (q * P) * F + F * frac
    <3> DEFINE A == q * P
    <3>1. A \in Int
      BY <1>1
    <3> HIDE DEF A
    <3>2. (A + frac) * F = A * F + F * frac
      BY <1>6, <3>1
    <3> QED
      BY <3>2 DEF A
  <2>3. (q * P) * F \in Int /\ F * frac \in Int
    BY <1>1, <1>6
  <2> QED
    BY <1>2, <1>3, <1>4, <1>6, <2>1, <2>2, <2>3
<1>8. Abs(h - e) <= h
  BY <1>2, <1>6 DEF Abs
<1>9. ASSUME y < F * P PROVE frac < P
  <2> SUFFICES ASSUME frac >= P PROVE FALSE
    BY <1>6
  <2>1. F * frac >= F * P
    BY <1>6
  <2>2. F * frac \in Int /\ F * P \in Int
    BY <1>6
  <2> QED
    BY <1>4, <1>6, <1>9, <2>1, <2>2
<1> QED
  BY <1>1, <1>6, <1>7, <1>8, <1>9 DEF y, r, h

(* A float that does not carry is spelled to the nearest ten-thousandth. *)
LEMMA FloatSpells ==
    ASSUME NEW x \in Nat, ~FractionCarries(x),
           NEW text, text = FloatToString(x, Width, Precision)
    PROVE  /\ Len(text) >= Width
           /\ \E first \in 1..Len(text) :
                 /\ SpellsFloat(text, x, first)
                 /\ \A c \in 1..(first - 1) : text[c] = Space
<1> DEFINE F == FloatUnits
           P == Power(10)[Precision]
           q == x \div F
           frac == ((x % F) * P + F \div 2) \div F
           digits == IntToString(q)
           m == Len(digits)
           k == Width - m - Precision - 1
           blanks == Repeat(Space, k)
           l == Len(blanks)
           rest == Numerals(frac, 10, Precision)
<1>1. F \in Nat \ {0} /\ P \in Nat \ {0} /\ Precision = 4 /\ Width = 8
  <2>1. Precision \in Nat
    BY DEF Precision
  <2>2. P \in Nat \ {0}
    <3> DEFINE b == 10
    <3>1. b \in Nat \ {0}
      OBVIOUS
    <3> HIDE DEF b
    <3>2. Power(b)[Precision] \in Nat \ {0}
      BY <2>1, <3>1, PowerLaw
    <3> QED
      BY <3>2 DEF b
  <2> QED
    BY <2>2, WordAssumption DEF Precision, Width
<1>2. /\ q \in Nat /\ frac \in Nat
      /\ Abs((q * P + frac) * F - x * P) <= F \div 2
      /\ (x % F) * P + F \div 2 < F * P => frac < P
  <2> DEFINE a == q
             b == frac
             G == F
             Q == P
  <2>1. a = x \div G /\ b = ((x % G) * Q + G \div 2) \div G
        /\ G \in Nat \ {0} /\ Q \in Nat \ {0}
    BY <1>1
  <2> HIDE DEF a, b, G, Q
  <2>2. /\ a \in Nat /\ b \in Nat
        /\ Abs((a * Q + b) * G - x * Q) <= G \div 2
        /\ (x % G) * Q + G \div 2 < G * Q => b < Q
    BY <2>1, Rounding
  <2> QED
    BY <2>2 DEF a, b, G, Q
<1>3. frac < P
  <2> DEFINE y == (x % F) * P + F \div 2
             z == F * P
  <2>1. ~(y >= z)
    BY DEF FractionCarries
  <2>2. y \in Int /\ z \in Int
    <3>1. x % F \in Int /\ F \div 2 \in Int
      BY <1>1
    <3>2. (x % F) * P \in Int /\ F * P \in Int
      BY <1>1, <3>1
    <3> QED
      BY <3>1, <3>2
  <2> HIDE DEF y, z
  <2>3. y < z
    BY <2>1, <2>2
  <2> QED
    BY <1>2, <2>3 DEF y, z
<1> DEFINE spelled == q * P + frac
<1>4. text = ((blanks \o digits) \o <<Dot>>) \o rest
  BY DEF FloatToString
<1> HIDE DEF F, frac, q
<1>5. digits \in Seq(Int) /\ m \in Nat \ {0} /\ IsNumeral(digits, 10) /\ Spelled(digits, 10) = q
  BY <1>2, UnsignedSpells
<1>6. rest \in Seq(Int) /\ Len(rest) = Precision
  <2>1. Precision \in Nat
    BY <1>1
  <2> DEFINE b == 10
  <2>2. b \in Nat \ {0}
    OBVIOUS
  <2> HIDE DEF b
  <2>3. Numerals(frac, b, Precision) \in Seq(Int) /\ Len(Numerals(frac, b, Precision)) = Precision
    BY <1>2, <2>1, <2>2, NumeralsAre
  <2> QED
    BY <2>3 DEF b
<1>7. IsNumeral(rest, 10) /\ Spelled(rest, 10) = frac
  <2>1. Precision \in Nat
    BY <1>1
  <2> QED
    BY <1>2, <1>3, <2>1, NumeralsSpell
<1> HIDE DEF P, digits, rest
<1>8. blanks \in Seq(Int) /\ l = (IF k > 0 THEN k ELSE 0) /\ (\A i \in 1..k : blanks[i] = Space)
      /\ k \in Int
  <2>1. k \in Int /\ Space \in Int
    BY <1>1, <1>5 DEF Space
  <2> HIDE DEF k
  <2> QED
    BY <2>1, RepeatIs
<1> HIDE DEF blanks
<1> DEFINE n == Len(text)
<1>9. /\ text \in Seq(Int)
      /\ n = l + m + 1 + Precision
      /\ \A i \in 1..l : text[i] = blanks[i]
      /\ text[l + m + 1] = Dot
      /\ SubSeq(text, l + 1, l + m) = digits
      /\ SubSeq(text, l + m + 2, n) = rest
  <2>1. Dot \in Int
    BY DEF Dot
  <2> DEFINE e == Dot
  <2> HIDE DEF e
  <2>2. JoinsParts(text, blanks, digits, e, rest) /\ e \in Int
    BY <1>4, <2>1 DEF e, JoinsParts
  <2>3. /\ text \in Seq(Int)
        /\ Len(text) = Len(blanks) + Len(digits) + 1 + Len(rest)
        /\ \A i \in 1..Len(blanks) : text[i] = blanks[i]
        /\ text[Len(blanks) + Len(digits) + 1] = e
        /\ SubSeq(text, Len(blanks) + 1, Len(blanks) + Len(digits)) = digits
        /\ SubSeq(text, Len(blanks) + Len(digits) + 2, Len(text)) = rest
    <3>1. blanks \in Seq(Int) /\ digits \in Seq(Int) /\ rest \in Seq(Int)
      BY <1>5, <1>6, <1>8
    <3> HIDE DEF n, m, l, k
    <3>2. HasParts(text, blanks, digits, e, rest)
      BY <2>2, <3>1, FourParts
    <3> QED
      BY <3>2 DEF HasParts
  <2> QED
    BY <1>6, <2>3 DEF e
<1>10. l \in Nat /\ l >= k /\ (\A i \in 1..l : text[i] = Space)
  <2>1. l \in Nat /\ l >= k /\ \A i \in 1..l : i \in 1..k
    BY <1>8
  <2> HIDE DEF l, k
  <2> QED
    BY <1>8, <1>9, <2>1
<1>11. n >= Width
  <2> HIDE DEF l, m
  <2> QED
    BY <1>1, <1>5, <1>9, <1>10
<1>12. SpellsFloat(text, x, l + 1)
  <2> HIDE DEF l, m, n
  <2> DEFINE point == n - Precision
  <2>1. point = l + m + 1 /\ point - 1 = l + m /\ point + 1 = l + m + 2 /\ l + 1 < point
    BY <1>1, <1>5, <1>9, <1>10
  <2> HIDE DEF point
  <2> DEFINE all == SubSeq(text, l + 1, point - 1) \o SubSeq(text, point + 1, n)
  <2>2. all = digits \o rest
    BY <1>9, <2>1
  <2> HIDE DEF all
  <2>3. IsNumeral(all, 10)
    BY <1>5, <1>6, <1>7, <2>2, NumeralConcat
  <2>4. Spelled(all, 10) = spelled
    <3> DEFINE b == 10
    <3>1. b \in Nat \ {0}
      OBVIOUS
    <3> HIDE DEF b
    <3>2. Spelled(digits \o rest, b) = Spelled(digits, b) * Power(b)[Len(rest)] + Spelled(rest, b)
      BY <1>5, <1>6, <3>1, SpelledConcat
    <3>3. Spelled(all, 10) = Spelled(digits, 10) * Power(10)[Precision] + Spelled(rest, 10)
      BY <1>6, <2>2, <3>2 DEF b
    <3> QED
      BY <1>5, <1>7, <3>3 DEF P
  <2>5. Abs(spelled * F - x * P) <= F \div 2
    BY <1>2
  <2> HIDE DEF spelled
  <2>6. text[point] = Dot
    BY <1>9, <2>1
  <2>7. /\ l + 1 < n - Precision
        /\ text[n - Precision] = Dot
        /\ all = SubSeq(text, l + 1, (n - Precision) - 1) \o SubSeq(text, (n - Precision) + 1, n)
    BY <2>1, <2>6 DEF point, all
  <2>8. Abs(Spelled(all, 10) * F - x * P) <= F \div 2
    BY <2>4, <2>5
  <2> QED
    BY <2>3, <2>7, <2>8 DEF SpellsFloat, n, F, P
<1>13. l + 1 \in 1..n /\ (l + 1) - 1 = l
  <2> HIDE DEF l, m
  <2> QED
    BY <1>1, <1>5, <1>9, <1>10
<1> HIDE DEF l
<1> QED
  BY <1>10, <1>11, <1>12, <1>13

(* What is sent of a number spells it: a decimal with its sign, no zero      *)
(* before its digits and blanks up to its width; a word, or two, with all    *)
(* its hexadecimal digits; a float to the nearest ten-thousandth, unless its *)
(* fraction rounds up to one, whose carry floatToString loses.  For any      *)
(* number, width of the fields and of the words, and resolution of floats.   *)
THEOREM NumbersAreSpelled == PrintSpec => []NumbersSpell
<1>1. Printing => NumbersSpell
  <2> SUFFICES ASSUME Printing, out # <<>> PROVE NumbersSpell
    BY DEF NumbersSpell
  <2> DEFINE d == item.directive
             a == item.args
  <2>1. Fits(d, a) /\ out = Text(d, a)
    BY DEF Printing
  <2> HIDE DEF d, a
  <2>2. ASSUME d.conv = "d"
        PROVE  /\ Len(out) >= d.width
               /\ \E len \in 1..Len(out) :
                     /\ SpellsInt(out, a[1], len)
                     /\ \A c \in (len + 1)..Len(out) : out[c] = Space
    <3>1. a[1] \in Int /\ d.width \in Nat
      BY <2>1, <2>2 DEF Fits, Ints
    <3>2. out = IntToString(a[1]) \o Repeat(Space, d.width - Len(IntToString(a[1])))
      BY <2>1, <2>2 DEF Text
    <3> QED
      BY <3>1, <3>2, PaddedSpells
  <2>3. ASSUME d.conv = "0x"
        PROVE  /\ Len(out) >= d.width
               /\ IsNumeral(out, 16) /\ Spelled(out, 16) = a[1]
    <3>1. a[1] \in Words /\ d.width \in Nat
      BY <2>1, <2>3 DEF Fits
    <3>2. out = Repeat(Zero, d.width - Len(IntToHexString(a[1], WordBits)))
                \o IntToHexString(a[1], WordBits)
      BY <2>1, <2>3 DEF Text
    <3> QED
      BY <3>1, <3>2, HexSpells
  <2>4. ASSUME d.conv = "llx"
        PROVE  /\ Len(out) = 2 * (WordBits \div 4)
               /\ IsNumeral(out, 16)
               /\ Spelled(SubSeq(out, 1, WordBits \div 4), 16) = a[1]
               /\ Spelled(SubSeq(out, WordBits \div 4 + 1, Len(out)), 16) = a[2]
    <3>1. a[1] \in Words /\ a[2] \in Words
      BY <2>1, <2>4 DEF Fits
    <3>2. out = IntToHexString(a[1] * Power(2)[WordBits] + a[2], 2 * WordBits)
      BY <2>1, <2>4 DEF Text
    <3>3. /\ Len(out) = 2 * HexDigits
          /\ IsNumeral(out, 16)
          /\ Spelled(SubSeq(out, 1, HexDigits), 16) = a[1]
          /\ Spelled(SubSeq(out, HexDigits + 1, Len(out)), 16) = a[2]
      BY <3>1, <3>2, TwoWordsSpell
    <3> QED
      BY <3>3 DEF HexDigits
  <2>5. ASSUME d.conv = "float", ~FractionCarries(a[1])
        PROVE  /\ Len(out) >= Width
               /\ \E first \in 1..Len(out) :
                     /\ SpellsFloat(out, a[1], first)
                     /\ \A c \in 1..(first - 1) : out[c] = Space
    <3>1. a[1] \in Nat
      BY <2>1, <2>5 DEF Fits
    <3>2. out = FloatToString(a[1], Width, Precision)
      BY <2>1, <2>5 DEF Text
    <3> QED
      BY <2>5, <3>1, <3>2, FloatSpells
  <2> QED
    BY <2>2, <2>3, <2>4, <2>5 DEF NumbersSpell, d, a
<1> QED
  BY <1>1, PrintingAlways, PTL
===============================================================================
