SPECIFICATION Spec
CONSTANTS
    i1 = i1
    i2 = i2
    i3 = i3
    d1 = d1
    d2 = d2
    a = a
    b = b
    bulk = bulk

    Index = {i1, i2}
    Dir = {d1}
    File = {a, b, bulk}
    Sums = Sums
    Proof = bulk
    Root <- PairRoot
    Class <- PairPassing
    Items <- PairItems
    Protected = {}
    Outside = {}
    DefaultTree = {i1, i2}
    EvidenceArgs <- WholeTree
    Expirer = {e1, e2}
    Dates = {0}
    NoDay = NoDay
    BulkDays = 0
    TriageDays = 1
    LastDay = 2
    MaxCrashes = 0
    MaxFaults = 0
INVARIANTS
    CoreOnlyIsShrunk
    IndInv
PROPERTIES
    DemotionStands
    PolicyKept
CHECK_DEADLOCK FALSE
