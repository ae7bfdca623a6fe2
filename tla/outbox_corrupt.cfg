CONSTANTS
    r0 = r0
    r1 = r1
    c1 = c1
    r2 = r2
    c2 = c2
    d1 = d1
    s1 = s1
    s2 = s2
    g1 = g1
    g2 = g2
    None = None
    Revs = {r1, r2}
    Cmds = {c1, p1}
    Publishers = {p1}
    Grants = {g1, g2}
    Target <- MCTarget
    Scans = {}
    Deleters = {}
    Legacy = r1
    Casts <- MCAll
    Stray = {9}
    MaxClaim = 2
    MaxAssist = 1
    MaxFaults = 1
SPECIFICATION FairSpec
PROPERTIES JamIsHealed RequestsEnd
CHECK_DEADLOCK FALSE
