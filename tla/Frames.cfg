\* Main and a new thread; an address for tss_kernel with ones in each byte (the linker puts it low); a division by zero, a page fault, a reserved exception, the timer and the keyboard.
SPECIFICATION FramesSpec
CONSTANTS
    TSS_KERNEL = 305419896
    Threads = {1, 2}
    Main = 1
    Raised = {0, 14, 19, 32, 33}
    Calls <- MCCalls
INVARIANTS
    ThreadsUndisturbed
    FrameIsRead
    SegmentsUsable
CHECK_DEADLOCK FALSE
