SPECIFICATION Spec
CONSTANTS
    u1 = u1
    u2 = u2
    Users = {u1, u2}
    Kbs = {1, 2}
    Files = {1, 2}
    KbNames = {"base", NoName}
    NoName = NoName
    NameLists <- MCNameLists
    Urls = {"http://x"}
    OddNames = {"b..txt"}
    Outcomes = {"green", "yellow"}
    Faults = {"crash", "raise"}
 
 
INVARIANT TotalMissesNothing
INVARIANT UsersApart
SYMMETRY AnyUser
CHECK_DEADLOCK FALSE
