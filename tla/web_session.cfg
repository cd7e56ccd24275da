\* Two tabs opened on any stored session; a sign-in, a sign-out at any time, and one
\* other turn of the environment. The system may stop: nobody has to use a browser.
SPECIFICATION FairSpec
CONSTANTS
    t1 = t1
    t2 = t2
    ann = ann
    bob = bob
    a1 = a1
    a2 = a2
    b1 = b1
    None = None
    Tabs = {t1, t2}
    Users = {ann, bob}
    Tokens = {a1, a2, b1}
    Owner <- MCOwner
    Roles <- MCRoles
    Portal <- MCPortal
    MaxLogins = 1
    MaxTurns = 1
    MaxRights = 1
INVARIANTS
    SessionInv
PROPERTIES
    ShowsWhatIsStored
    
    LandsInOwnPortal
    
CHECK_DEADLOCK FALSE
