SPECIFICATION Spec
CONSTANTS
    a1 = a1  a2 = a2
    Addr = {a1, a2}
    u1 = u1  u2 = u2
    Users = {u1, u2}
    r1 = r1  r2 = r2
    Reqs = {r1, r2}
    Nobody = Nobody
    Self = Self
SYMMETRY Interchangeable
CONSTRAINT AtMostOneDoor
INVARIANTS NothingInherited CacheCurrent
PROPERTIES OwnPrefsStand
