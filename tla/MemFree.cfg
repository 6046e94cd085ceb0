\* kpfree_at_v is called for pages of any table.
SPECIFICATION Spec
CONSTANTS
    LIMIT = 8
    KernelEnd = 3
    MemTotals = {10, 11}
    ENTRIES = 8
    TABLES = 2
    HEAP_PAGES = 1
    Counts = {1, 2}
    FREE_WRAP = 512
    FreeTables = {0, 1}
CHECK_DEADLOCK FALSE
PROPERTIES
    FreesItsPage
