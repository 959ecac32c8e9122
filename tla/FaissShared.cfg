SPECIFICATION Spec
CONSTANTS
    f1 = f1
    f2 = f2
    f3 = f3
    kb1 = kb1
    kb2 = kb2
    Clients = {"c1", "c2"}
    Files = {f1, f2}
    Kbs = {kb1, kb2}
    KbOf <- SharedKbOf
    Size <- SharedSize
    BatchSize = 1
    Faults = {"crash", "save", "load"}
    MaxCrashes = 1
    Missing = Missing
INVARIANT TypeOK
INVARIANT AckedSearchable
CHECK_DEADLOCK FALSE
