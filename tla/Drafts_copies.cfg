SPECIFICATION DraftsSpec
CONSTANTS
    p1 = p1  p2 = p2
    Pages = {p1, p2}
    First = p1
    r1 = r1  r2 = r2  r3 = r3
    Requests = {r1, r2, r3}
    None = None
    MaxEdit = 1
    MaxFile = 2
    MaxUid = 3
    MaxTrouble = 2
SYMMETRY Interchangeable
INVARIANTS NothingUnsaid NothingStacksUp
CHECK_DEADLOCK FALSE
