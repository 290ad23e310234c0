CONSTANTS
    u1 = u1
    u2 = u2
    plain = plain
    limited = limited
    FirstList <- TwoUsers
    Uids = {u1, u2}
    Rows = {absent, plain, limited}
    Absent = absent
    Limited = {limited}
    None = none
    MaxChanges = 3
    MaxFaults = 2
SPECIFICATION FairSpec
INVARIANT ValidatorsHonest
INVARIANT ServesCache
INVARIANT SavedUnlessOwed
PROPERTY Converges
