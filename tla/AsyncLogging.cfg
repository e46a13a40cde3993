CONSTANTS
    BufferSize = 2
    MaxLines = 3
    RollSize = 5
    RollInterval = 2
    CheckEveryN = 2
    MaxTime = 2
    MaxSets = 1
    MaxFaults = 2
    CreateFails = TRUE
SPECIFICATION FairSpec
INVARIANTS BuffersGoRound NoLineLost StopSavesLines DaysSeparated
PROPERTY LinesAreWritten
CHECK_DEADLOCK FALSE
