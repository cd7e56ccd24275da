\* A sign-in at Keycloak in one tab while the user signs in on the form in the other.
SPECIFICATION Spec
CONSTANTS
    t1 = t1
    t2 = t2
    ann = ann
    bob = bob
    a1 = a1
    a2 = a2
    b1 = b1
    None = None
    Tabs = {t1, t2}
    Users = {ann, bob}
    Tokens = {a1, b1}
    Owner <- MCOwner
    Roles <- MCRoles
    Portal <- MCPortal
    MaxLogins = 2
    MaxTurns = 0
    MaxRights = 0
PROPERTIES
    ReplacedCallbackSparesNewer
CHECK_DEADLOCK FALSE
