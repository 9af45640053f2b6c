\* The instance of MCDesktopConfig, for the comment on reload after a read error.
SPECIFICATION Spec
CONSTANTS
    p1 = p1
    p2 = p2
    a1 = a1
    env = env
    plain = plain
    unset = unset
    r1 = r1
    r2 = r2
    l1 = l1
    l2 = l2
    Absent = Absent
    Nil = Nil
    Provider = {p1, p2}
    Alias = {a1}
    Cred = {env, unset}
    Resolvable = {env}
    Setting <- MCSetting
    InitSetting <- MCInitSetting
    InitProvider = {p1}
    Request = {r1, r2}
    Load = {l1, l2}
    MaxWrites = 2
    MaxHandEdits = 1
PROPERTIES
    LastGoodKept
CHECK_DEADLOCK FALSE
