SPECIFICATION Spec
CONSTANTS
    f1 = f1
    f2 = f2
    f3 = f3
    kb1 = kb1
    kb2 = kb2
    Clients = {"c1"}
    Files = {f1, f2, f3}
    Kbs = {kb1, kb2}
    KbOf <- SingleKbOf
    Size <- SingleSize
    BatchSize = 1
    Faults = {"crash", "save"}
    MaxCrashes = 1
    Missing = Missing
INVARIANT AckedSearchable
INVARIANT AckedDurable
INVARIANT DeletedStaysGone
INVARIANT AttributedUntilCrash
PROPERTY ImplementsVectorStore
CHECK_DEADLOCK FALSE
