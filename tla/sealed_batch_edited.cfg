\* An edit that passed its check before the seal is written after it.
SPECIFICATION Spec
CONSTANTS
    Requests = {r1, r2}
    Owner = owner
    Members = {m1}
    N = 1
    Products = {p1}
    Notes = {open, done, photographed}
    Complete = {done, photographed}
    NeedPhoto = {photographed}
    NoUser = NoUser
    NoHash = NoHash
    NoSeal = NoSeal
    NoStatus = NoStatus
CHECK_DEADLOCK FALSE
PROPERTIES
    SealedIsImmutable
