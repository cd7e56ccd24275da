\* Evaluation, corrections, replacement, approval and archiving of one dossier,
\* two calls in flight.
SPECIFICATION Spec
CONSTANTS
    policy1 = policy1
    policy2 = policy2
    plan = plan
    NoRequest = NoRequest
    NoAuditor = NoAuditor
    NoDocs = NoDocs
    Owner = owner
    Requests = {r1, r2}
    Auditors = {a1}
    Docs <- MCDocs
    DocType <- MCDocType
    Required <- BothRequired
    Packets <- BothPacket
    MaxRound = 1
    Enabled = {"status", "evaluation", "revision", "resubmit", "approve", "replace", "finalize"}
SYMMETRY Symmetric
INVARIANTS
    ApprovedWasEvaluated
    LockedReadIsCurrent
PROPERTIES
    TerminalPacketFrozen
    
