\* A letter, the left shift key, the keypad's Enter; timer and a disk.
SPECIFICATION KbSpec
CONSTANTS
    Irqs = {0, 1, 14}
    Exceptions = {14}
    Plain = {30, 42}
    Extended = {28}
    KB_BUFFER_SIZE = 1
    MaxKeys = 2
    WireSize = 4
    MaxToggles = 2
INVARIANTS
    HandlersEndInterrupts
    TextAsTyped
PROPERTIES
    TimerServed
    KeysHandled
CHECK_DEADLOCK FALSE
