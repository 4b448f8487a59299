SPECIFICATION MCSpec
CONSTANTS
    LowMax = 85899
    MaxTicks = 3
    Runs = 2
    Funcs = {"main", "benchmark", "dbg_printf", "memcpy"}
    Main = "main"
    Benchmark = "benchmark"
    Printf = "dbg_printf"
    Callees <- MCCallees
    Named = {"main", "benchmark", "dbg_printf"}
    NULL = NULL
    MAX_FUNCTIONS = 6
    LowSize = 8
    HighSize = 16
    MaxCalls = 2
    MaxWork = 1
CONSTRAINT OneInUse
INVARIANTS
    StampsServe
    EveryCallCounted
    HooksFindTheirEntry
    ReportComplete
CHECK_DEADLOCK FALSE
