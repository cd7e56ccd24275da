\* Four requests for two connections: two lookups may hold the pool between them
\* while two others wait.  Requests that all ended, or all wait, take no step.
SPECIFICATION FairSpec
CONSTANTS
    Requests = {r1, r2, r3, r4}
    Connections = {c1, c2}
    NoRequest = NoRequest
CHECK_DEADLOCK FALSE
INVARIANTS
    OnlyNestingBlocks
PROPERTIES
    EndsUnlessExhausted
