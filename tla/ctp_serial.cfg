SPECIFICATION Spec
CONSTANTS
    v1 = v1
    v2 = v2
    v3 = v3
    c1 = c1
    c2 = c2
    Run = {v1, v2, v3}
    Shell = {v2, v3}
    Checked = {v1}
    Case = {c1, c2}
    CaseOf <- MCCaseOf
    ManifestOf <- MCManifestOf
    AttemptOf <- MCAttemptOf
    Nothing = Nothing
    Older = Older
    Reserve = 2
    Takes <- MCTakes
    Limit = 3
    Overlap = FALSE
    MaxKills = 1
INVARIANTS
    IndInv
    WithinLimit
    SqlShowsItsOwn
PROPERTIES
    LeftAsFound
CHECK_DEADLOCK FALSE
