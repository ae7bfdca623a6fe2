CONSTANTS
    u1 = u1
    u2 = u2
    m1 = m1
    m2 = m2
    s1 = s1
    s2 = s2
    c1 = c1
    c2 = c2
    x1 = x1
    x2 = x2
    Users = {u1, u2}
    Marks = {m1, m2}
    Saves = {s1, s2}
    Merges = {c1, c2}
    Edits = {x1}
    Renames = {x2}
    First = First
    Casts <- MCEditCast
    MaxLoads = 2
    MaxFaults = 0
    Unset = Unset
    Sentinel = Sentinel
    None = None
SPECIFICATION Spec
PROPERTY StaleSaveConflicts
CHECK_DEADLOCK FALSE
