SPECIFICATION Spec
CONSTANTS
    r1 = r1
    r2 = r2
    r3 = r3
    r4 = r4
    r5 = r5
    r6 = r6
    k1 = k1
    k2 = k2
    good = good
    other = other
    bad = bad
    own = own
    NoId = NoId
    Requests = {r1, r2}
    Keys = {k1, k2}
    Bodies = {good, other, bad}
    KeyOf <- MCKeyOf
    BodyOf <- MCBodyOf
    Admissible = {good, other}
    OwnIds = {own}
    OwnIdOf <- SomeOwnIds
    PoolSize = 2
    MaxErrors = 0
INVARIANTS
    OneIdPerKey
CHECK_DEADLOCK FALSE
