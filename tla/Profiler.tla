-------------------------------- MODULE Profiler --------------------------------
(***************************************************************************)
(* The profiler of main.c, in the order that main has for it (in a block *)
(* that is commented out): a table of functions that the hooks of          *)
(* -finstrument-functions fill and look up, a 64-bit instruction counter   *)
(* of which they read one half after the other, and a report that sorts    *)
(* the table and prints it with dbg_printf, which has hooks itself.  No    *)
(* function of the firmware is recursive, so that a function is on the     *)
(* stack once.                                                             *)
(***************************************************************************)
EXTENDS Integers, Sequences, SequencesExt, FiniteSets

CONSTANTS
    Funcs,         \* the instrumented functions
    Main, Benchmark, Printf,  \* three of them
    Callees,       \* which function calls which
    Named,         \* those that initFunctionNames names
    NULL,
    MAX_FUNCTIONS,
    LowSize,       \* 2^32
    HighSize,      \* 2^32
    MaxCalls,      \* bound on the calls that main does not make itself
    MaxWork        \* bound on the instructions outside the hooks

Size == LowSize * HighSize

ASSUME FuncsAssumption ==
    /\ IsFiniteSet(Funcs) /\ NULL \notin Funcs
    /\ {Main, Benchmark, Printf} \subseteq Funcs /\ Main \notin {Benchmark, Printf}
    /\ Callees \in [Funcs -> SUBSET Funcs]
    /\ Named \subseteq Funcs

(* What the report calls: dbg_printf and whatever is called from it. *)
CallsNoOther(fs) == Printf \in fs /\ \A f \in fs : Callees[f] \subseteq fs
ReportCalls ==
    {f \in Funcs : \A fs \in SUBSET Funcs : CallsNoOther(fs) => f \in fs}

(* The table has room for an entry of each function but main, a second one *)
(* of each that the report calls and one more.  main.h numbers 98           *)
(* functions, and MAX_FUNCTIONS is 200.                                     *)
ASSUME RoomAssumption ==
    /\ MAX_FUNCTIONS \in Nat
    /\ Cardinality(Funcs \ {Main}) + Cardinality(ReportCalls) < MAX_FUNCTIONS

(* A run has fewer than 2^64 instructions. *)
ASSUME CounterAssumption ==
    /\ {LowSize, HighSize} \subseteq Nat \ {0} /\ {MaxCalls, MaxWork} \subseteq Nat
    /\ MaxWork + 4 * (MaxCalls + 2 * MAX_FUNCTIONS + 5) < Size

VARIABLES
    counter,    \* minstret and minstreth
    table,      \* S_sArrFunctions
    mapping,    \* S_sArrFunctionMapping, by function
    stack,      \* the instrumented functions that have been entered
    hook,       \* the hook that is running, its step, index and low half
    phase,      \* of main
    row,        \* iIndex of printFunctionsIstatistics
    printed,    \* the rows of its report
    stray,      \* a hook went past the entries: see EnterFind and ExitReadHigh
    calls, work,
    timed,      \* functions whose instructions are being counted
    spent,      \* how many there were, since initFunctions
    torn        \* functions for which the counter carried between two reads

vars == <<counter, table, mapping, stack, hook, phase, row, printed, stray,
          calls, work, timed, spent, torn>>
ghosts == <<timed, spent, torn>>

Indices == 0..(MAX_FUNCTIONS - 1)
Free == [func |-> NULL, total |-> 0, current |-> 0]
NoHook == [step |-> "none", at |-> 0, low |-> 0]
Low == counter % LowSize
High == counter \div LowSize
Now(low, high) == low + high * LowSize

Init ==
    /\ counter \in 0..(Size - 1)
    /\ table = [n \in Indices |-> Free]
    /\ mapping = [f \in {} |-> f]
    /\ stack = <<>>
    /\ hook = NoHook
    /\ phase = "reset"
    /\ row = 0
    /\ printed = <<>>
    /\ stray = FALSE
    /\ calls = 0 /\ work = 0
    /\ timed = {} /\ torn = {}
    /\ spent = [f \in Funcs |-> 0]

(* An instruction retires while the functions of running are on the stack. *)
Retire(running) ==
    /\ counter' = (counter + 1) % Size
    /\ spent' = [f \in Funcs |-> (spent[f] + IF f \in running THEN 1 ELSE 0) % Size]

-------------------------------------------------------------------------------
(* The hooks.  The read of one half is an instruction of its own.          *)

Enter(f) ==
    /\ hook = NoHook
    /\ stack' = Append(stack, f)
    /\ hook' = [NoHook EXCEPT !.step = "enter"]

(* The first entry that has the function or is free; -1 if there is none.  *)
FirstWith(fs) ==
    LET found == {n \in Indices : table[n].func \in fs}
    IN  IF found = {} THEN -1 ELSE CHOOSE n \in found : \A x \in found : n <= x
SlotOf_NoBreak(f) == FirstWith({NULL})
SlotOf(f) == FirstWith({f, NULL})

(* A scan that comes to the last entry calls dbg_printf, whose hooks come   *)
(* there again; one that finds no entry has the hook write at -1.  Neither  *)
(* is followed further than stray, which HooksFindTheirEntry forbids.       *)
EnterFind ==
    /\ hook.step = "enter"
    /\ LET f == Last(stack)
       IN  /\ table' = [table EXCEPT ![SlotOf(f)].func = f]
           /\ hook' = [hook EXCEPT !.step = "enter_low", !.at = SlotOf(f)]
           /\ stray' = (stray \/ SlotOf(f) \notin Indices \ {MAX_FUNCTIONS - 1})
    /\ UNCHANGED <<counter, mapping, stack, phase, row, printed, calls, work, ghosts>>

Carried(f) == torn' = IF Low = LowSize - 1 THEN torn \cup {f} ELSE torn

EnterReadLow ==
    /\ hook.step = "enter_low"
    /\ hook' = [hook EXCEPT !.step = "enter_high", !.low = Low]
    /\ timed' = timed \cup {Last(stack)}
    /\ Retire(timed')
    /\ Carried(Last(stack))
    /\ UNCHANGED <<table, mapping, stack, phase, row, printed, stray, calls, work>>

EnterReadHigh ==
    /\ hook.step = "enter_high"
    /\ table' = [table EXCEPT ![hook.at].current = Now(hook.low, High)]
    /\ hook' = NoHook
    /\ Retire(timed)
    /\ UNCHANGED <<mapping, stack, phase, row, printed, stray, calls, work,
                   timed, torn>>

(* A function other than main returns; main ends in an endless loop. *)
Exit ==
    /\ hook = NoHook
    /\ Len(stack) > 1
    /\ hook' = [NoHook EXCEPT !.step = "exit_low"]
    /\ UNCHANGED <<counter, table, mapping, stack, phase, row, printed, stray,
                   calls, work, ghosts>>

ExitReadLow ==
    /\ hook.step = "exit_low"
    /\ hook' = [hook EXCEPT !.step = "exit_high", !.low = Low]
    /\ timed' = timed \ {Last(stack)}
    /\ Retire(timed')
    /\ Carried(Last(stack))
    /\ UNCHANGED <<table, mapping, stack, phase, row, printed, stray, calls, work>>

(* The entry once now is the count at its exit. *)
Accumulated_Last(e, now) ==
    [e EXCEPT !.total = (now - e.current + Size) % Size]
Accumulated(e, now) ==
    [e EXCEPT !.total = (@ + now - e.current + Size) % Size]

ExitReadHigh ==
    /\ hook.step = "exit_high"
    /\ LET n == FirstWith({Last(stack)})
       IN  IF n = -1
           THEN stray' = TRUE /\ UNCHANGED table
           ELSE /\ table' = [table EXCEPT ![n] =
                                 Accumulated(@, Now(hook.low, High))]
                /\ UNCHANGED stray
    /\ stack' = Front(stack)
    /\ hook' = NoHook
    /\ Retire(timed)
    /\ UNCHANGED <<mapping, phase, row, printed, calls, work, timed, torn>>

-------------------------------------------------------------------------------
(* main, from its own entry to its endless loop. *)

MainCalls(from, f, to) ==
    /\ phase = from
    /\ stack = <<Main>>
    /\ Enter(f)
    /\ phase' = to

Start ==
    /\ phase = "reset"
    /\ Enter(Main)
    /\ phase' = "started"
    /\ UNCHANGED <<counter, table, mapping, row, printed, stray, calls, work, ghosts>>

(* "Code started..." and the tests of vector instructions *)
Greet ==
    /\ MainCalls("started", Printf, "greeted")
    /\ UNCHANGED <<counter, table, mapping, row, printed, stray, calls, work, ghosts>>

InitFunctionNames ==
    /\ phase = "greeted" /\ stack = <<Main>> /\ hook = NoHook
    /\ mapping' = [f \in Named |-> f]
    /\ phase' = "named"
    /\ UNCHANGED <<counter, table, stack, hook, row, printed, stray, calls, work,
                   ghosts>>

(* The entry of main goes with the others. *)
InitFunctions ==
    /\ phase = "named"
    /\ table' = [n \in Indices |-> Free]
    /\ phase' = "wiped"
    /\ timed' = {} /\ torn' = {}
    /\ spent' = [f \in Funcs |-> 0]
    /\ UNCHANGED <<counter, mapping, stack, hook, row, printed, stray, calls, work>>

RunBenchmark ==
    /\ MainCalls("wiped", Benchmark, "measured")
    /\ UNCHANGED <<counter, table, mapping, row, printed, stray, calls, work, ghosts>>

(* printFunctionsIstatistics, which has no hooks: a line, qsort, a row and  *)
(* the end of its line for every entry up to the first free one, and a line. *)
ReportBegin ==
    /\ MainCalls("measured", Printf, "unsorted")
    /\ UNCHANGED <<counter, table, mapping, row, printed, stray, calls, work, ghosts>>

CompareUsage_Ascending(a, b) == a.total <= b.total
CompareUsage_LowHalf(a, b) == a.total % LowSize >= b.total % LowSize
CompareUsage(a, b) == a.total >= b.total

(* qsort puts entries that compare equal in any order. *)
Orders == Bijection(Indices, Indices)

Sort ==
    /\ phase = "unsorted" /\ stack = <<Main>> /\ hook = NoHook
    /\ \E p \in Orders :
          /\ \A n \in Indices \ {0} :
                CompareUsage(table[p[n - 1]], table[p[n]])
          /\ table' = [n \in Indices |-> table[p[n]]]
    /\ phase' = "rows"
    /\ row' = 0
    /\ UNCHANGED <<counter, mapping, stack, hook, printed, stray, calls, work, ghosts>>

NameOf(f) == IF f \in DOMAIN mapping THEN mapping[f] ELSE "NULL"

AllRows == row = MAX_FUNCTIONS \/ table[row].func = NULL

ReportRow ==
    /\ ~AllRows
    /\ MainCalls("rows", Printf, "line")
    /\ printed' = Append(printed, [name |-> NameOf(table[row].func),
                                   func |-> table[row].func,
                                   total |-> table[row].total])
    /\ UNCHANGED <<counter, table, mapping, row, stray, calls, work, ghosts>>

ReportLine ==
    /\ MainCalls("line", Printf, "rows")
    /\ row' = row + 1
    /\ UNCHANGED <<counter, table, mapping, printed, stray, calls, work, ghosts>>

ReportEnd ==
    /\ AllRows
    /\ MainCalls("rows", Printf, "loop")
    /\ UNCHANGED <<counter, table, mapping, row, printed, stray, calls, work, ghosts>>

-------------------------------------------------------------------------------
(* What the other functions do: call one another and work. *)

Call(f) ==
    /\ Len(stack) > 1
    /\ f \in Callees[Last(stack)]
    /\ f \notin ToSet(stack)
    /\ calls < MaxCalls
    /\ calls' = calls + 1
    /\ Enter(f)
    /\ UNCHANGED <<counter, table, mapping, phase, row, printed, stray, work, ghosts>>

Work ==
    /\ hook = NoHook
    /\ Len(stack) > 1
    /\ work < MaxWork
    /\ work' = work + 1
    /\ Retire(timed)
    /\ UNCHANGED <<table, mapping, stack, hook, phase, row, printed, stray,
                   calls, timed, torn>>

Next ==
    \/ Start \/ Greet \/ InitFunctionNames \/ InitFunctions \/ RunBenchmark
    \/ ReportBegin \/ Sort \/ ReportRow \/ ReportLine \/ ReportEnd
    \/ \E f \in Funcs : Call(f)
    \/ Work
    \/ EnterFind \/ EnterReadLow \/ EnterReadHigh
    \/ Exit \/ ExitReadLow \/ ExitReadHigh

Spec == Init /\ [][Next]_vars

-------------------------------------------------------------------------------
(* Every function that has an entry and is not running.  The entries that   *)
(* initFunctions wiped under main, and under nothing else, are not missed. *)
Measured == {n \in Indices : table[n].func \notin {NULL} \cup ToSet(stack)}

(* A read that was torn can make a total zero, and qsort may then put the  *)
(* entry behind a free one, where the enter hook does not find it.         *)
OneEntry(f) == \A n, m \in Indices : table[n].func = f /\ table[m].func = f => n = m

(* The total of a function is the number of instructions between its hooks, *)
(* those of the functions it calls and of their hooks included: all of it   *)
(* if no carry came between two reads, and its low half in any case.        *)
EveryCallCounted ==
    \A n \in Measured :
        LET f == table[n].func
        IN  /\ OneEntry(f) => table[n].total % LowSize = spent[f] % LowSize
            /\ f \notin torn => table[n].total = spent[f]

(* Wiping and sorting the table while it is in use leave the hooks able to  *)
(* find what they need: no scan of the enter hook comes to the last entry,  *)
(* the exit hook never writes before the table, and a function has one      *)
(* entry, unless a read of its counter was torn.                            *)
HooksFindTheirEntry ==
    /\ ~stray
    /\ \A f \in Funcs \ torn : OneEntry(f)

(* The report prints a function once and under its name, and when its loop  *)
(* ends every function that was entered since initFunctions is there, those *)
(* included that the report itself was the first to enter.  A function of   *)
(* which a read was torn may be missing, or be there twice.                 *)
RowsComplete ==
    /\ \A n, m \in DOMAIN printed :
          printed[n].func = printed[m].func => n = m \/ printed[n].func \in torn
    /\ \A n \in DOMAIN printed :
          printed[n].func \in Named => printed[n].name = printed[n].func
    /\ phase = "rows" /\ stack = <<Main>> /\ AllRows =>
          {printed[n].func : n \in DOMAIN printed} \ torn =
              {f \in Funcs \ torn : spent[f] > 0}

(* The rows printed so far come with the largest total first, although the *)
(* report goes on counting into the table that it has sorted.  What it      *)
(* calls itself may have a larger total by the time of its row than the     *)
(* rows above, and a torn read may have made its total smaller.             *)
LargestFirst ==
    \A n, m \in DOMAIN printed :
        n < m /\ printed[m].func \notin ReportCalls
              /\ printed[n].func \notin ReportCalls \cap torn
        => printed[n].total >= printed[m].total

(* The report is what it is for: all that was called, the largest first.    *)
ReportComplete == RowsComplete /\ LargestFirst
===============================================================================
