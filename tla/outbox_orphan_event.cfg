CONSTANTS
    r0 = r0
    r1 = r1
    c1 = c1
    r2 = r2
    c2 = c2
    d1 = d1
    s1 = s1
    s2 = s2
    g1 = g1
    g2 = g2
    None = None
    Revs = {r1}
    Cmds = {c1}
    Publishers = {}
    Grants = {g1, g2}
    Target <- MCTarget
    Scans = {}
    Deleters = {d1}
    Legacy = None
    Casts <- MCAll
    Stray = {}
    MaxClaim = 2
    MaxAssist = 1
    MaxFaults = 0
SPECIFICATION Spec
PROPERTY NoEventAfterDelete
CHECK_DEADLOCK FALSE
