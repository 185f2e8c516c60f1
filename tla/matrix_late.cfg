SPECIFICATION Spec
CONSTANTS
    r1 = r1
    r2 = r2
    c1 = c1
    c2 = c2
    x1 = x1
    Manifest = {1, 2, 3, 4, 5}
    Req = {r1, r2}
    Case = {c1, c2}
    Config = {x1}
    ConfigOf <- MCConfigOf
    Entries <- MCEntries
    BlockedReq = {r2}
    NoRow = NoRow
    MaxEdits = 2
INVARIANTS
    NoneNotOverFailure
CHECK_DEADLOCK FALSE
