\* Lists of two rows that may grow to three, two fetches in flight, three events among
\* clicks, a recorded request and a failure; sessions of up to three requests with a baseline window of two, and every
\* transcript of up to three lines.
SPECIFICATION Spec
CONSTANTS
    i1 = i1
    i2 = i2
    i3 = i3
    t1 = t1
    t2 = t2
    All = All
    Nil = Nil
    Item = {i1, i2, i3}
    Tag = {t1, t2}
    PageSize = {1, 2}
    MaxPage = 2
    InitLen = 2
    MaxFetches = 2
    MaxClicks = 3
    MaxRecorded = 1
    MaxFaults = 1
    Script <- MCScript
    Window = 2
    MaxLoads = 2
    MaxSelects = 2
    MaxRowFaults = 1
INVARIANTS
    SettledAnswersQuery
    RowsInReach
    ShownIsSelected
    BaselineBest
    NothingHidden
    StreamReadsWhole
SYMMETRY Symmetric
CHECK_DEADLOCK FALSE
