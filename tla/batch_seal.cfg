\* Two calls in flight on a batch of two steps, its edits racing its seal.  A
\* batch that is sealed or deleted takes no more calls.
SPECIFICATION Spec
CONSTANTS
    Requests = {r1, r2}
    Owner = owner
    Members = {}
    N = 2
    Products = {p1}
    Notes = {open, photographed}
    Complete = {photographed}
    NeedPhoto = {photographed}
    NoUser = NoUser
    NoHash = NoHash
    NoSeal = NoSeal
    NoStatus = NoStatus
CHECK_DEADLOCK FALSE
SYMMETRY Symmetric
INVARIANTS
    SealVouches

    
