\* Two pages of heap and two more to grow into; the index has few places.
SPECIFICATION Spec
CONSTANTS
    PAGE = 32
    START = 39
    FirstEnd = 96
    FreePages = 2
    Requests <- MCRequests
    MAX_SIZE = 2
INVARIANTS
    Tiled
    OwnedIntact
    IndexSound
    HolesMerged
PROPERTIES
    ImplementsMalloc
    RequestAnswered
