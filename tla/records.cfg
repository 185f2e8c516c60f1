SPECIFICATION Spec
CONSTANTS
    a1 = a1
    a2 = a2
    N = 2
    Id = {a1, a2}
    IdLists <- MCIdLists
    Invocation <- MCInvocation
    Absent = Absent
    Torn = Torn
    MaxBuilds = 3
    MaxKills = 1
INVARIANTS
    IndInv
    CitesTheSeal
    IndexComesLast
    RerunRepairs
    ProvenIsComplete
    PassIsEarned
    FailureIsHeld
CHECK_DEADLOCK FALSE
