SPECIFICATION Spec
CONSTANTS
    Intents <- WorkedOff
    MaxRunning = 3
INVARIANTS
    TypeOK
    NothingTooEarly
    NothingTooLate
