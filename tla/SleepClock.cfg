SPECIFICATION ClockSpec
CONSTANTS
    A = A
    Null = Null
    Main = Main
    NULL = NULL
    Threads = {Null, Main, A}
    Priority <- PriorityRising
    Sems = {"sem"}
    InitCount <- CountOne
    MaxCount = 1
    TickMod = 12
    SleepArgs <- ArgsMixed
    Alloc = {TRUE, FALSE}
INVARIANTS
    NeverWokenEarly
    NeverSleepsLate
CHECK_DEADLOCK FALSE
