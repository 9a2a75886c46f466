CONSTANTS
    Widths <- MCWidths
    Programs <- TemporaryPrograms
    MaxLoop = 3
SPECIFICATION WBSpec
INVARIANT MeaningKept
CHECK_DEADLOCK FALSE
