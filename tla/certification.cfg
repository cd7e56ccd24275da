\* Two dossiers of one business, two calls in flight, two decision cases, two
\* certificates.
SPECIFICATION Spec
CONSTANTS
    Requests = {r1, r2}
    Dossiers = {d1, d2}
    MaxDecisions = 2
    MaxCerts = 2
    NoDossier = NoDossier
SYMMETRY Symmetric
INVARIANTS
    OneCase
    IssuedOnDecision
    AllSeenDecided
PROPERTIES
    DecisionIsFinal
    
