\* Two forms of the web client, one of each kind, edited, given up and retried
\* at any moment, beside a client that sends one key with any payload.
SPECIFICATION Spec
CONSTANTS
    Slots = {s1, s2}
    Forms = {f1, f2}
    Comparing = {f1}
    Direct = {k1}
    Payloads = {p1, p2}
    MaxKeys = 3
    MaxDrafts = 2
    MaxEffects = 2
    NoSlot = NoSlot
    NoForm = NoForm
    NoPayload = NoPayload
SYMMETRY Symmetric
INVARIANTS
    OneEffectPerKey
    ReceiptMeansEffect
    AnsweredForItsRequest
    OneEffectPerDraft
    FormsNeverConflict
