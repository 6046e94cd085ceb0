SPECIFICATION PSpec
CONSTANTS
    A = A
    B = B
    Null = Null
    Main = Main
    NULL = NULL
    Threads = {Null, Main, A}
    Priority <- PriorityEqual
    Sems = {"sem"}
    InitCount <- CountOne
    MaxCount = 2
    TickMod = 1
    SleepArgs <- NoArgs
    Alloc = {TRUE}
    MaxCuts = 1
INVARIANTS
    MutualExclusion
