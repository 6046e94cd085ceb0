\* Three threads and one lock; timer interrupts come anywhere, and in the calls at one place, any number of times.
SPECIFICATION PFairSpec
CONSTANTS
    A = A
    B = B
    Null = Null
    Main = Main
    NULL = NULL
    Threads = {Null, Main, A, B}
    Priority <- PriorityEqual
    Sems = {"sem"}
    InitCount <- CountOne
    MaxCount = 2
    TickMod = 1
    SleepArgs <- ArgsOne
    Alloc = {TRUE}
    MaxCuts = 1
INVARIANTS
    LockHolds
    SavedStackIsOwn
PROPERTIES
    ImplementsSched
    LockIsGranted
CHECK_DEADLOCK FALSE
