SPECIFICATION Spec
CONSTANTS
    a1 = a1
    a2 = a2
    N = 2
    Id = {a1, a2}
    IdLists <- MCIdLists
    Invocation <- MCInvocation
    Absent = Absent
    Torn = Torn
    MaxBuilds = 2
    MaxKills = 1
INVARIANTS
    RefusedWroteNothing
CHECK_DEADLOCK FALSE
