SPECIFICATION Spec
CONSTANTS
    v1 = v1
    v2 = v2
    v3 = v3
    c1 = c1
    c2 = c2
    Run = {v1, v2}
    Shell = {}
    Checked = {v1}
    Case = {c1}
    CaseOf <- PairCaseOf
    ManifestOf <- PairManifestOf
    AttemptOf <- PairAttemptOf
    Nothing = Nothing
    Older = Older
    Reserve = 2
    Takes <- PairTakes
    Limit = 6
    Overlap = TRUE
    MaxKills = 0
INVARIANTS
    RestoredVerbatim
CHECK_DEADLOCK FALSE
