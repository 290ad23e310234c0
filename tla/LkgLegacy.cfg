CONSTANTS
    Uids = {u1, u2}
    Versions = {absent, v1}
    Absent = absent
    Configs = {cfg1}
    None = none
    CompactLen = 2
    MaxRev = 3
    MaxCrashes = 1
    MigrationMayFail = TRUE
SPECIFICATION LkgSpec
SYMMETRY Symmetry
INVARIANT PendingMarksBehind
