CONSTANTS
    Widths <- MCWidths
    Programs <- MCPrograms
    MaxLoop = 3
SPECIFICATION WBSpec
INVARIANTS MeaningKept StaysCombinational
CHECK_DEADLOCK FALSE
