\* Three rows of two tab stops; nine characters wrap, scroll and overwrite.
SPECIFICATION PrintSpec
CONSTANTS
    NUL = 0
    FAULT = FAULT
    VFS_FILENAME_LEN = 2
    SCREEN_WIDTH = 4
    SCREEN_HEIGHT = 3
    tab_width = 2
    Printable = {"0", "1", "2", "3", "4", "5", "6", "7", "8", "9", "a", "b", "c", "d", "e", "f", "A", "B", "C", "D", "E", "F", "G", "M", "k", "+", "-", "%", "?", "=", " ", "x", "X", "H", "i", "q", "s"}
    MaxPuts = 9
    INT_MAX = 511
    KILO = 4
    Calls <- MCCalls
    BufferSizes = {0, 2}
    Keys = {"a", "tab", "cr", "lf", "bs"}
INVARIANTS
    ShowsLastRows
    PrintsAsAsked
    FunctionsRight
CHECK_DEADLOCK FALSE
