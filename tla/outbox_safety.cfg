CONSTANTS
    r0 = r0
    r1 = r1
    c1 = c1
    r2 = r2
    c2 = c2
    d1 = d1
    s1 = s1
    s2 = s2
    g1 = g1
    g2 = g2
    None = None
    Revs = {r0, r1, r2}
    Cmds = {c1, c2}
    Publishers = {}
    Grants = {g1, g2}
    Target <- MCTarget
    Scans = {s1, s2}
    Deleters = {d1}
    Legacy = r0
    Casts <- MCReadCasts
    Watched <- MCWatched
    Limits = {1, 2}
    Stray = {}
    MaxClaim = 2
    MaxAssist = 1
    MaxFaults = 1
SPECIFICATION MCSpec
SYMMETRY Symmetry
INVARIANTS TypeOK NoSharedSequence SlotCanSettle NeverBlocksHealthyPage VisibilityChain WalkInOrder WalkIsComplete
PROPERTY TimelineSpec
CHECK_DEADLOCK FALSE
