SPECIFICATION FairSpec
CONSTANTS
    A = A
    B = B
    Null = Null
    Main = Main
    NULL = NULL
    Threads = {Null, Main, A, B}
    Priority <- PriorityThree
    Sems = {"s1", "s2"}
    InitCount <- CountOne
    MaxCount = 1
    TickMod = 8
    SleepArgs <- ArgsShort
    Alloc = {TRUE}
INVARIANTS
    OnePlace
    NoThreadLost
    StateAgrees
    NoLostWakeup
    ListsOrdered
PROPERTIES
    NoOvertaking
    SleepersWake
    TopPriorityRuns
