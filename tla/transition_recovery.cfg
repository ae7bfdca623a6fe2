CONSTANTS
    a = a
    b = b
    ta = ta
    tb = tb
    toB = toB
    also = also
    toA = toA
    bin = bin
    back = back
    d1 = d1
    d2 = d2
    d3 = d3
    d4 = d4
    d5 = d5
    d6 = d6
    x1 = x1
    s1 = s1
    Command <- MCCommand
    Target <- MCTarget
    Key <- MCKey
    TrashOf <- MCTrashOf
    RestoreOf <- MCRestoreOf
    Paths = {a, b, ta, tb}
    Home = a
    Redirects = {toB}
    Deleters = {}
    Sweeps = {s1}
    Starts <- MCAll
    MaxEnter = 2
    MaxClaim = 2
    MaxFaults = 1
    None = None
    Ops = {toB, toA}
    Deliveries = {d1, d2}
    Second = toA
    Third = toA
SPECIFICATION FairSpec
PROPERTIES LateSuccessCorrected HeldTransitionSettles
CHECK_DEADLOCK FALSE
