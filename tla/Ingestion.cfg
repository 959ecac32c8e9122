SPECIFICATION Spec
CONSTANTS
    f1 = f1
    f2 = f2
    f3 = f3
    r1 = r1
    r2 = r2
    Files = {f1, f2, f3}
    Requests = {r1}
    BatchOf <- OneUpload
    SoftMode = {r1, f3}
    NameOf <- MCNameOf
    Weblinks = {f3}
    DeleteLists = {{f1, f3}}
    Workers = {"w1"}
    Faults = {"crash", "raise", "save"}
    MaxCrashes = 1
INVARIANT TypeOK
INVARIANT StatusTellsStore
INVARIANT SettledDeletionIsComplete
INVARIANT GrayIsInFlightOrLost
INVARIANT DeletedKbIsEmpty
CHECK_DEADLOCK FALSE
