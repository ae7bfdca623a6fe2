CONSTANTS
    u1 = u1
    u2 = u2
    m1 = m1
    m2 = m2
    s1 = s1
    s2 = s2
    c1 = c1
    c2 = c2
    x1 = x1
    x2 = x2
    Users = {u1, u2}
    Marks = {m1, m2}
    Saves = {s1, s2}
    Merges = {c1, c2}
    Edits = {x1}
    Renames = {x2}
    First = First
    Casts <- MCSleepers
    MaxLoads = 2
    MaxFaults = 1
    Unset = Unset
    Sentinel = Sentinel
    None = None
    d1 = d1
    d2 = d2
    sweep = sweep
    a1 = a1
    a2 = a2
    n1 = n1
    n2 = n2
    Rival = Rival
    r0 = r0
    r1 = r1
    r2 = r2
    r3 = r3
    r4 = r4
    w1 = w1
    w2 = w2
    w3 = w3
    w4 = w4
    q1 = q1
    q2 = q2
    b1 = b1
    p1 = p1
    p2 = p2
    Group = Group
    h1 = h1
    h2 = h2
    l1 = l1
    l2 = l2
    Members = {m1, m2}
    Root = m1
    Deliveries = {d1, d2}
    Sweeps = {sweep}
    TreeCasts <- MCTreeCasts
    Width = 1
    Auths = {a1, a2}
    Submits = {n1, n2}
    Logouts = {out}
    Approvers = {admin}
    MaxIssue = 2
    Requests = {r0, r1, r2, r3}
    Plans <- MCPlans
    Codes = {k1, k2}
    CliRequests = {r0, r1, r2, r3, r4}
    SignIn = r0
    Commands = {e1, e2}
    Rereads = 2
    Views = {w1, w2, w3, w4}
    Asked <- MCAsked
    Embeds = {1, 2, 3}
    MaxGlobal = 2
    MaxPerUser = 1
    QueueDepth = 2
    Replicas = {p1, p2}
    Admins = {q1, q2}
    Backs = {b1}
    Uses = {l1, l2}
    SettingsCasts <- MCSettingsCasts
    Origin <- MCOrigin
    Site <- MCSite
    Keys = {h1, h2}
    Wants <- MCWants
SPECIFICATION AllSpec
SYMMETRY Symmetry
INVARIANTS
    PartsTypeOK ReportedTextIsStored
    RootIsHonest DeliveriesAgree MembersMoveOnce
    LogoutPrevents CutOff NoSelfConflict SignedInHasHome
    ClosedFamilyIsDead FamilyKeepsToken ResetCoversFamilies StoredTokenLives
    WorkConserving OneRenderPerKey
    StoreIsMirrored DriversFollowMemory CellsAreSafe
PROPERTIES
    SavesChain FenceHolds CompactionKeeps FailureIsHonest LiveTokenIsSpared
CHECK_DEADLOCK FALSE
