CONSTANTS
    Absent = Absent
    Nil = Nil
    t1 = t1  t2 = t2
    p1 = p1  p2 = p2
    m1 = m1
    s1 = s1  s2 = s2
    u1 = u1  u2 = u2
    Super = Super
    reader = reader
    Tab = {t1, t2}
    Provider = {p1, p2}
    Alias = {m1}
    Scope = {s1, s2}
    Num = {0, 10000, 14000, 20000}
    Typed = {20000}
    MaxRows = 2
    Unit = {u1, u2}
    Role = {Super, reader}
    Seed <- MCSeed
    MaxActs = 3
    MaxFaults = 1
    NoCookie = NoCookie
    Window = {w1, w2}
    Token = {k1, k2}
    OperatorRoles <- MCOperatorRoles
    MaxChanges = 1
SYMMETRY Symmetry
SPECIFICATION MCSpec
INVARIANT NoMaskedStored
CHECK_DEADLOCK FALSE
