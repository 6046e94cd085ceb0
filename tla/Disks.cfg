\* Three of the four controllers, timeouts of two polls, two tries for a descriptor table.
SPECIFICATION DisksSpec
CONSTANTS
    NULL = NULL
    SLOTS = 2
    FUNCS = 4
    MaxFails = 1
    CTLRS = 3
    ATA_WAIT_TIMEOUT = 2
    PRDT_TRIES = 2
    PAGE = 64
    PRD = 8
    Addresses = {41, 46, 54, 56}
    Sectors = 4
    WORD = 8
    Machines <- MCMachines
    Table <- MCTable
INVARIANTS
    BusScanned
    DevicesAreThemselves
    DmaHasBusmaster
    RamdisksKeepData
PROPERTIES
    BootEnds
CHECK_DEADLOCK FALSE
