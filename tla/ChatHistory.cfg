SPECIFICATION Spec
CONSTANTS
    Asked = 2
    Length = 1
    Habits = {}
    Faults = {}
INVARIANT HistoryKeepsTurns
CHECK_DEADLOCK FALSE
