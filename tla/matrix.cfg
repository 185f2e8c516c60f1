SPECIFICATION DeskSpec
CONSTANTS
    r1 = r1
    r2 = r2
    c1 = c1
    c2 = c2
    x1 = x1
    Manifest = {1, 2, 3, 4, 5}
    Req = {r1, r2}
    Case = {c1, c2}
    Config = {x1}
    ConfigOf <- MCConfigOf
    Entries <- MCEntries
    BlockedReq = {r2}
    NoRow = NoRow
    MaxEdits = 2
    LastPid = 4
    Root = 1
    Reaper = 2
    MaxTicks = 1
    MaxSamples = 3
    Absent = Absent
    ScopedCase = {c1}
    ScopedReq = {r1}
    Authority <- MCAuthority
    FailedKey <- MCFailedKey
    FailedAttempt = 1
    Invs = {1, 2}
    Atts = {1, 2, 3}
    InvOf <- MCInvOf
    CorrMaxRuns = 2
    CorrMaxKills = 1
    Sources = {1, 2}
    EditsOf <- MCEditsOf
    Sticky = {"sticky"}
    PatchRuns = 3
    Inputs <- MCLaps
    RoundOrder <- MCRoundOrder
    Runs = 2
    MaxStarts = 3
    Threads = {1, 2}
    Plans <- T16Plans
    ScriptRuns = 2
    MaxReach = 2
INVARIANTS
    AppliedOnce
    AckProvesFault
    StrandedIsArmed
    CompletedIsWhole
    BoundaryIsLeast
    ClaimIsEarned
    CheckIsSound
    IndInv
    RowFollowsHistory
    Accounted
    Idempotent
    ValidatorAccepts
    LostIsMended
    NoTickTwice
    PlacementFits
    ManifestNeverLeads
    SuccessIsAgreement
PROPERTIES
    NothingErased
    HandGapStands
    SampleIsRecent
CHECK_DEADLOCK FALSE
