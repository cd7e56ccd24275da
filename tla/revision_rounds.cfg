\* Two correction rounds, every interleaving of two calls in flight; which
\* document a packet holds does not matter to rounds.
SPECIFICATION FairSpec
CONSTANTS
    policy1 = policy1
    policy2 = policy2
    plan = plan
    NoRequest = NoRequest
    NoAuditor = NoAuditor
    NoDocs = NoDocs
    Owner = owner
    Requests = {r1, r2}
    Auditors = {a1}
    Docs = {policy1}
    DocType <- OneType
    Required <- PolicyRequired
    Packets <- OnePacket
    MaxRound = 2
    Enabled = {"status", "assign", "revision", "resubmit", "replace"}
INVARIANTS
    TypeOK
    UniqueNeverFires
    AwaitedRoundIsOpen
    ResubmittedOnce
PROPERTIES
    ResubmitClosesCurrentRound
    ImplementsRevisionRounds
    EveryCallEnds
