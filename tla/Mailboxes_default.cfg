SPECIFICATION Spec
CONSTANTS
    a1 = a1  a2 = a2
    Addr = {a1, a2}
    u1 = u1
    Users = {u1}
    t1 = t1
    Tabs = {t1}
    d1 = d1
    Directs = {d1}
    MaxId = 2
    Nobody = Nobody
    Self = Self
INVARIANTS HasDefault
