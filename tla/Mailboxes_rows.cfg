SPECIFICATION Spec
CONSTANTS
    a1 = a1  a2 = a2
    Addr = {a1, a2}
    u1 = u1  u2 = u2
    Users = {u1, u2}
    t1 = t1  t2 = t2
    Tabs = {t1, t2}
    d1 = d1  d2 = d2
    Directs = {d1, d2}
    MaxId = 2
    Nobody = Nobody
    Self = Self
SYMMETRY Interchangeable
CONSTRAINT AtMostBusy
INVARIANTS OneDoorUnlessOvertaken NoFactorOnOwned
PROPERTIES OwnershipKept WorkingSecretStays DefaultKept
