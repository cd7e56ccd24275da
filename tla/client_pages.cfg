\* Two identities take turns at a page, two calls under way, one of them lost.
\* The system may stop: nobody has to give a command.
SPECIFICATION FairSpec
CONSTANTS
    biz = biz
    prov = prov
    s1 = s1
    s2 = s2
    t1 = t1
    t2 = t2
    c1 = c1
    c2 = c2
    f1 = f1
    f2 = f2
    k1 = k1
    k2 = k2
    e1 = e1
    e2 = e2
    p1 = p1
    p2 = p2
    m1 = m1
    g1 = g1
    g2 = g2
    b1 = b1
    b2 = b2
    b3 = b3
    h1 = h1
    h2 = h2
    d1 = d1
    d2 = d2
    i1 = i1
    i2 = i2
    l1 = l1
    l2 = l2
    v1 = v1
    None = None
    Users = {biz, prov}
    Role <- MCRole
    MayAnalyze = {biz, prov}
    Subs = {s1, s2}
    Types = {t1, t2}
    Files = {f1, f2}
    Keys = {k1, k2}
    SystemKeys = {k1}
    People = {e1, e2}
    Suppliers = {p1, p2}
    Materials = {m1}
    Categories = {g1, g2}
    Batches = {b1, b2, b3}
    Codes = {k1}
    Items = {i1, i2}
    Checklists = {l1, l2}
    Visits = {v1}
    Standards = {h1, h2}
    Dossiers = {d1, d2}
    StandardOf <- MCStandardOf
    Required <- MCRequired
    PdfOnly = {t2}
    Wired = {t1, t2}
    Calls = {c1, c2}
    MaxAsked = 2
    MaxLost = 1
    MaxVersions = 2
    MaxMembers = 1
    MaxSwitches = 1
    MaxTurns = 2
INVARIANTS
    TypeOK
    ShownBelongs
    
    ActsOnce
    AccountIsWhole
PROPERTIES
    BusyEnds
CHECK_DEADLOCK FALSE
