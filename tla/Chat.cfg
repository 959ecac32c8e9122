SPECIFICATION FairSpec
CONSTANTS
    Asked = 2
    Length = 1
    Habits = {"stop", "clear", "toggle", "hurry", "reload"}
    Faults = {"refuse", "raise", "llm", "break"}
INVARIANT AnswersAreOwn
INVARIANT ClosedIsComplete
 
INVARIANT ContextIsWhole
INVARIANT ContextIsLatest
PROPERTY FinishedIsFinal
PROPERTY LoadingEnds
CHECK_DEADLOCK FALSE
