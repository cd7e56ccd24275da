------------------------- MODULE CertificationProofs -------------------------
(***************************************************************************)
(* Proofs about Certification, for any number of requests, dossiers,       *)
(* decision cases and certificates.                                        *)
(***************************************************************************)
EXTENDS Certification, TLAPS

(* What a step may do to the rows *)

DecisionsTyped ==
    /\ decisions \in [DecisionIds -> Decision]
    /\ \A i \in DecisionIds : decisions[i].status # "absent" => decisions[i].dossier \in Dossiers

CertsTyped ==
    /\ certs \in [CertIds -> Cert]
    /\ \A c \in CertIds : certs[c].status # "absent" => certs[c].dossier \in Dossiers

\* Cases are opened and decided; what is decided stays.
DecisionsGrow ==
    /\ DecisionsTyped' /\ OneCase'
    /\ \A d \in Dossiers : Decided(d) => Decided(d)'
    /\ \A i \in DecisionIds :
          decisions[i].status \in {"approved", "rejected"} => decisions'[i] = decisions[i]

\* Certificates stay where they are, and new ones are for decided dossiers.
CertsGrow ==
    /\ CertsTyped' /\ RevokedIsRecorded'
    /\ \A c \in CertIds :
          /\ certs[c].status # "absent" =>
                certs'[c].status # "absent" /\ certs'[c].dossier = certs[c].dossier
          /\ certs[c].status = "absent" /\ certs'[c].status # "absent" =>
                Decided(certs'[c].dossier)

\* The empty tables satisfy the invariant.
LEMMA InitCertInv == Init => CertInv
<1> SUFFICES ASSUME Init PROVE CertInv
  OBVIOUS
<1>1. TypeOK
  BY CertificationAssumption DEF Init, TypeOK, Decision, Cert, Settable, Request, Idle,
     Pcs, DossierStatuses
<1>2. OneCase /\ IssuedOnDecision /\ RevokedIsRecorded
  BY DEF Init, OneCase, Active, IssuedOnDecision, RevokedIsRecorded
<1>3. \A r \in Requests : RequestSound(req[r])
  BY DEF Init, Idle, RequestSound
<1>. QED
  BY <1>1, <1>2, <1>3 DEF CertInv

\* Rows left alone grow.
LEMMA SameDecisions == CertInv /\ UNCHANGED decisions => DecisionsGrow
BY DEF CertInv, TypeOK, DecisionsGrow, DecisionsTyped, OneCase, Active, Decided

LEMMA SameCerts == CertInv /\ UNCHANGED certs => CertsGrow
BY DEF CertInv, TypeOK, CertsGrow, CertsTyped, RevokedIsRecorded

\* What a request remembers stays sound while rows grow.
LEMMA SoundStays ==
    ASSUME CertInv, DecisionsGrow, CertsGrow, NEW q \in Request, RequestSound(q)
    PROVE  RequestSound(q)'
BY DEF RequestSound, DecisionsGrow, CertsGrow, Request

\* A step that lets rows grow and changes one request soundly keeps the invariant.
LEMMA GrowStep ==
    ASSUME CertInv, DecisionsGrow, CertsGrow,
           dossiers' \in [Dossiers -> DossierStatuses],
           NEW r \in Requests, NEW q \in Request, req' = [req EXCEPT ![r] = q],
           RequestSound(q)'
    PROVE  CertInv'
<1>1. IssuedOnDecision'
  <2> SUFFICES ASSUME NEW c \in CertIds, certs'[c].status # "absent"
               PROVE  Decided(certs[c].dossier)'
    BY DEF IssuedOnDecision
  <2>1. PICK d \in Dossiers : d = certs'[c].dossier
    BY DEF CertsGrow, CertsTyped
  <2>2. Decided(d)
    BY <2>1 DEF CertInv, IssuedOnDecision, CertsGrow
  <2>3. Decided(d)'
    BY <2>2 DEF DecisionsGrow
  <2>. QED
    BY <2>1, <2>3 DEF Decided
<1>2. req' \in [Requests -> Request]
  BY DEF CertInv, TypeOK
<1>3. \A s \in Requests : RequestSound(req[s])'
  <2>1. \A p \in Request : RequestSound(p) => RequestSound(p)'
    BY SoundStays
  <2> SUFFICES ASSUME NEW s \in Requests PROVE RequestSound(req[s])'
    OBVIOUS
  <2>2. PICK p \in Request : p = req'[s] /\ RequestSound(p)'
    BY <2>1 DEF CertInv, TypeOK, RequestSound, Decided
  <2>. QED
    BY <2>2 DEF RequestSound, Decided
<1>. QED
  BY <1>1, <1>2, <1>3 DEF CertInv, TypeOK, DecisionsGrow, DecisionsTyped, CertsGrow, CertsTyped

\* A call that ends keeps the invariant when the rows grow.
LEMMA FinishStep ==
    ASSUME CertInv, DecisionsGrow, CertsGrow, UNCHANGED dossiers,
           NEW r \in Requests, Finish(r)
    PROVE  CertInv'
<1>1. Idle \in Request /\ RequestSound(Idle)'
  BY CertificationAssumption DEF Idle, Request, Pcs, Settable, RequestSound
<1>2. dossiers' \in [Dossiers -> DossierStatuses]
  BY DEF CertInv, TypeOK
<1>. QED
  BY <1>1, <1>2, GrowStep DEF Finish

\* A read that remembers something sound keeps the invariant.
LEMMA ReadStep ==
    ASSUME CertInv, UNCHANGED <<dossiers, decisions, certs>>,
           NEW r \in Requests, NEW q \in Request, req' = [req EXCEPT ![r] = q],
           RequestSound(q)
    PROVE  CertInv'
<1>1. RequestSound(q)'
  BY DEF RequestSound, Decided
<1>2. dossiers' \in [Dossiers -> DossierStatuses]
  BY DEF CertInv, TypeOK
<1>. QED
  BY <1>1, <1>2, GrowStep, SameDecisions, SameCerts

\* Cases are opened and decided one at a time.
LEMMA OpenStep ==
    ASSUME CertInv, NEW d \in Dossiers, IndexFree(d), NEW i \in DecisionIds,
           IsNext(decisions, i),
           decisions' = [decisions EXCEPT ![i] = [dossier |-> d, status |-> "pending_review"]]
    PROVE  DecisionsGrow
<1>1. DecisionsTyped'
  BY DEF CertInv, TypeOK, DecisionsTyped, Decision
<1>2. OneCase'
  BY DEF CertInv, TypeOK, OneCase, Active, IndexFree, OnCase, Decision
<1>3. \A j \in DecisionIds :
        decisions[j].status \in {"approved", "rejected"} => decisions'[j] = decisions[j]
  BY DEF CertInv, TypeOK, IsNext
<1>4. \A e \in Dossiers : Decided(e) => Decided(e)'
  BY <1>3 DEF Decided
<1>. QED
  BY <1>1, <1>2, <1>3, <1>4 DEF DecisionsGrow

LEMMA DecideStep ==
    ASSUME CertInv, NEW i \in DecisionIds, StillPending(i),
           NEW s \in {"approved", "rejected"},
           decisions' = [decisions EXCEPT ![i].status = s]
    PROVE  DecisionsGrow
<1>1. DecisionsTyped'
  BY DEF CertInv, TypeOK, DecisionsTyped, Decision, StillPending
<1>2. OneCase'
  BY DEF CertInv, TypeOK, OneCase, Active, StillPending, Decision
<1>3. \A j \in DecisionIds :
        decisions[j].status \in {"approved", "rejected"} => decisions'[j] = decisions[j]
  BY DEF CertInv, TypeOK, StillPending
<1>4. \A e \in Dossiers : Decided(e) => Decided(e)'
  BY <1>3 DEF Decided
<1>. QED
  BY <1>1, <1>2, <1>3, <1>4 DEF DecisionsGrow

\* Updates of certificates: none appears, none changes its dossier, and the
\* status "revoked" comes with its record.
LEMMA CertUpdate ==
    ASSUME CertInv, certs' \in [CertIds -> Cert],
           \A c \in CertIds : /\ certs'[c].dossier = certs[c].dossier
                              /\ certs'[c].status = "absent" <=> certs[c].status = "absent"
                              /\ certs'[c].status = "revoked" => certs'[c].revoked
    PROVE  CertsGrow
BY DEF CertInv, TypeOK, CertsGrow, CertsTyped, RevokedIsRecorded

LEMMA SetStatusSound ==
    ASSUME CertInv, NEW c \in CertIds, NEW s \in Settable
    PROVE  /\ SetStatus(c, s) \in Cert
           /\ SetStatus(c, s).dossier = certs[c].dossier
           /\ SetStatus(c, s).status = "absent" <=> certs[c].status = "absent"
           /\ SetStatus(c, s).status = "revoked" => SetStatus(c, s).revoked
BY DEF CertInv, TypeOK, RevokedIsRecorded, SetStatus, Exists, Cert, Settable

LEMMA RevokedSound ==
    ASSUME CertInv, NEW c \in CertIds
    PROVE  /\ Revoked(c) \in Cert
           /\ Revoked(c).dossier = certs[c].dossier
           /\ Revoked(c).status = "absent" <=> certs[c].status = "absent"
           /\ Revoked(c).status = "revoked" => Revoked(c).revoked
BY DEF CertInv, TypeOK, RevokedIsRecorded, Revoked, SetStatus, Exists, Cert, Settable

\* Requests can name every row.
LEMMA Ids == DecisionIds \subseteq 0 .. MaxDecisions + MaxCerts
             /\ CertIds \subseteq 0 .. MaxDecisions + MaxCerts
BY CertificationAssumption DEF DecisionIds, CertIds

\* First statements that only read.
LEMMA ReadsKeep ==
    ASSUME CertInv, NEW r \in Requests,
           \/ CreateRead(r) \/ FinalizeRead(r) \/ IssueRead(r)
           \/ StatusRead(r) \/ AuditRevokeRead(r)
    PROVE  CertInv'
<1>0. req[r] \in Request
  BY DEF CertInv, TypeOK
<1>1. CASE CreateRead(r)
  <2>1. PICK d \in Dossiers :
          req' = [req EXCEPT ![r] = [req[r] EXCEPT !.dossier = d, !.pc = "create_insert"]]
    BY <1>1 DEF CreateRead
  <2> DEFINE q == [req[r] EXCEPT !.dossier = d, !.pc = "create_insert"]
  <2>2. q \in Request /\ RequestSound(q)
    BY <1>0 DEF Request, Pcs, RequestSound
  <2>. QED
    BY <1>1, <2>1, <2>2, ReadStep DEF CreateRead
<1>2. CASE FinalizeRead(r)
  <2>1. PICK i \in DecisionIds :
          req' = [req EXCEPT ![r] = [req[r] EXCEPT !.id = i, !.pc = "finalize_write"]]
    BY <1>2 DEF FinalizeRead
  <2> DEFINE q == [req[r] EXCEPT !.id = i, !.pc = "finalize_write"]
  <2>2. q \in Request /\ RequestSound(q)
    BY <1>0, Ids DEF Request, Pcs, RequestSound
  <2>. QED
    BY <1>2, <2>1, <2>2, ReadStep DEF FinalizeRead
<1>3. CASE IssueRead(r)
  <2>1. PICK d \in Current :
          req' = [req EXCEPT ![r] = [req[r] EXCEPT !.dossier = d, !.seen = Current,
                                              !.todo = Current, !.pc = "issue_gate"]]
    BY <1>3 DEF IssueRead
  <2> DEFINE q == [req[r] EXCEPT !.dossier = d, !.seen = Current,
                                 !.todo = Current, !.pc = "issue_gate"]
  <2>2. Current \in SUBSET Dossiers
    BY DEF Current
  <2>3. q \in Request /\ RequestSound(q)
    BY <1>0, <2>2 DEF Request, Pcs, RequestSound
  <2>. QED
    BY <1>3, <2>1, <2>3, ReadStep DEF IssueRead
<1>4. CASE StatusRead(r)
  <2>1. PICK c \in CertIds :
          /\ Exists(c)
          /\ \/ req' = [req EXCEPT ![r].id = c, ![r].pc = "revoke_read"]
             \/ \E s \in Settable :
                   req' = [req EXCEPT ![r].id = c, ![r].target = s, ![r].pc = "status_write"]
    BY <1>4 DEF StatusRead
  <2>2. c \in 0 .. MaxDecisions + MaxCerts /\ certs[c].status # "absent"
    BY <2>1, Ids DEF Exists
  <2>3. CASE req' = [req EXCEPT ![r].id = c, ![r].pc = "revoke_read"]
    <3> DEFINE q == [req[r] EXCEPT !.id = c, !.pc = "revoke_read"]
    <3>1. req' = [req EXCEPT ![r] = q]
      BY <2>3
    <3>2. q \in Request /\ RequestSound(q)
      BY <1>0, <2>2 DEF Request, Pcs, RequestSound
    <3>. QED
      BY <1>4, <3>1, <3>2, ReadStep DEF StatusRead
  <2>4. CASE \E s \in Settable :
               req' = [req EXCEPT ![r].id = c, ![r].target = s, ![r].pc = "status_write"]
    <3>1. PICK s \in Settable :
            req' = [req EXCEPT ![r] = [req[r] EXCEPT !.id = c, !.target = s, !.pc = "status_write"]]
      BY <2>4
    <3> DEFINE q == [req[r] EXCEPT !.id = c, !.target = s, !.pc = "status_write"]
    <3>2. q \in Request /\ RequestSound(q)
      BY <1>0, <2>2 DEF Request, Pcs, RequestSound
    <3>. QED
      BY <1>4, <3>1, <3>2, ReadStep DEF StatusRead
  <2>. QED
    BY <2>1, <2>3, <2>4
<1>5. CASE AuditRevokeRead(r)
  <2> DEFINE q == [req[r] EXCEPT !.pc = "audit_check",
          !.rows = {c \in CertIds : certs[c].status = "active" /\ ~certs[c].revoked}]
  <2>1. req' = [req EXCEPT ![r] = q]
    BY <1>5 DEF AuditRevokeRead
  <2>2. q \in Request /\ RequestSound(q)
    BY <1>0 DEF Request, Pcs, RequestSound
  <2>. QED
    BY <1>5, <2>1, <2>2, ReadStep DEF AuditRevokeRead
<1>. QED
  BY <1>1, <1>2, <1>3, <1>4, <1>5

\* Later statements that only read.
LEMMA ChecksKeep ==
    ASSUME CertInv, NEW r \in Requests,
           \/ IssueGate(r) \/ IssueCheck(r) \/ RevokeRead(r) \/ AuditRevokeCheck(r)
    PROVE  CertInv'
<1>0. req[r] \in Request /\ RequestSound(req[r])
  BY DEF CertInv, TypeOK
<1>1. CASE Finish(r)
  BY <1>1, FinishStep, SameDecisions, SameCerts
     DEF IssueGate, IssueCheck, RevokeRead, AuditRevokeCheck
<1>2. CASE IssueGate(r) /\ ~Finish(r)
  <2>1. CASE req[r].todo = {}
    <3> DEFINE q == [req[r] EXCEPT !.pc = "issue_check"]
    <3>1. req' = [req EXCEPT ![r] = q]
      BY <1>2, <2>1 DEF IssueGate, AllGated, Go
    <3>2. q \in Request /\ RequestSound(q)
      BY <1>0, <1>2, <2>1 DEF Request, Pcs, RequestSound, IssueGate, At
    <3>. QED
      BY <1>2, <3>1, <3>2, ReadStep DEF IssueGate
  <2>2. CASE req[r].todo # {}
    <3>1. PICK d \in req[r].todo :
            Gate(d) /\ req' = [req EXCEPT ![r] = [req[r] EXCEPT !.todo = @ \ {d}]]
      BY <1>2, <2>2 DEF IssueGate, AllGated
    <3> DEFINE q == [req[r] EXCEPT !.todo = @ \ {d}]
    <3>2. Decided(d)
      BY <3>1 DEF Gate, Decided
    <3>3. q \in Request /\ q.pc = "issue_gate" /\ q.seen = req[r].seen
          /\ q.dossier = req[r].dossier /\ q.todo = req[r].todo \ {d}
      BY <1>0, <1>2 DEF Request, IssueGate, At
    <3>4. RequestSound(q)
      BY <1>0, <1>2, <3>2, <3>3 DEF RequestSound, IssueGate, At
    <3>. QED
      BY <1>2, <3>1, <3>3, <3>4, ReadStep DEF IssueGate
  <2>. QED
    BY <2>1, <2>2
<1>3. CASE (IssueCheck(r) \/ RevokeRead(r)) /\ ~Finish(r)
  <2>1. PICK pc \in {"issue_insert", "revoke_write"} :
          /\ req' = [req EXCEPT ![r] = [req[r] EXCEPT !.pc = pc]]
          /\ pc = "issue_insert" => At(r, "issue_check")
          /\ pc = "revoke_write" => At(r, "revoke_read")
    BY <1>3 DEF IssueCheck, RevokeRead, Go
  <2>2. /\ [req[r] EXCEPT !.pc = pc] \in Request
        /\ RequestSound([req[r] EXCEPT !.pc = pc])
    BY <1>0, <2>1 DEF Request, Pcs, RequestSound, At
  <2>. QED
    BY <1>3, <2>1, <2>2, ReadStep DEF IssueCheck, RevokeRead
<1>4. CASE AuditRevokeCheck(r) /\ ~Finish(r)
  <2> DEFINE q == [req[r] EXCEPT !.pc = "audit_commit", !.rows = {c \in @ : Unrevoked(c)}]
  <2>1. req' = [req EXCEPT ![r] = q]
    BY <1>4 DEF AuditRevokeCheck
  <2>2. q \in Request /\ RequestSound(q)
    BY <1>0 DEF Request, Pcs, RequestSound
  <2>. QED
    BY <1>4, <2>1, <2>2, ReadStep DEF AuditRevokeCheck
<1>. QED
  BY <1>1, <1>2, <1>3, <1>4

\* Statements that write decision cases.
LEMMA CasesKeep ==
    ASSUME CertInv, NEW r \in Requests, CreateInsert(r) \/ FinalizeWrite(r)
    PROVE  CertInv'
<1>0. req[r] \in Request /\ RequestSound(req[r])
  BY DEF CertInv, TypeOK
<1>1. CASE CreateInsert(r)
  <2>1. req[r].dossier \in Dossiers
    BY <1>0, <1>1 DEF CreateInsert, At, RequestSound
  <2>2. DecisionsGrow
    BY <1>1, <2>1, OpenStep, SameDecisions DEF CreateInsert
  <2>. QED
    BY <1>1, <2>2, FinishStep, SameCerts DEF CreateInsert
<1>2. CASE FinalizeWrite(r)
  <2>1. req[r].id \in DecisionIds
    BY <1>0, <1>2 DEF FinalizeWrite, At, RequestSound
  <2>2. DecisionsGrow
    BY <1>2, <2>1, DecideStep, SameDecisions DEF FinalizeWrite
  <2>. QED
    BY <1>2, <2>2, FinishStep, SameCerts DEF FinalizeWrite
<1>. QED
  BY <1>1, <1>2

\* The issue of a certificate.
LEMMA IssueKeeps ==
    ASSUME CertInv, NEW r \in Requests, IssueInsert(r) \/ IssueFile(r)
    PROVE  CertInv'
<1>0. req[r] \in Request /\ RequestSound(req[r])
  BY DEF CertInv, TypeOK
<1>1. CASE IssueInsert(r)
  <2>1. req[r].dossier \in Dossiers /\ Decided(req[r].dossier)
    BY <1>0, <1>1 DEF IssueInsert, At, RequestSound, Request
  <2>2. CASE Finish(r) /\ UNCHANGED certs
    BY <1>1, <2>2, FinishStep, SameDecisions, SameCerts DEF IssueInsert
  <2>3. ASSUME NEW c \in CertIds, IsNext(certs, c),
               certs' = [certs EXCEPT ![c] = [dossier |-> req[r].dossier,
                                              revoked |-> FALSE, status |-> "active"]],
               req' = [req EXCEPT ![r].id = c, ![r].pc = "issue_file"]
        PROVE  CertInv'
    <3>1. CertsGrow
      BY <2>1, <2>3 DEF CertInv, TypeOK, CertsGrow, CertsTyped, RevokedIsRecorded, IsNext,
         Cert, Settable
    <3>2. PICK q \in Request : q = [req[r] EXCEPT !.id = c, !.pc = "issue_file"]
      BY <1>0, Ids DEF Request, Pcs
    <3>3. req' = [req EXCEPT ![r] = q] /\ q.pc = "issue_file" /\ q.id = c
      BY <1>0, <2>3, <3>2 DEF Request
    <3>4. certs'[c].status = "active"
      BY <2>3 DEF CertInv, TypeOK
    <3>5. RequestSound(q)'
      BY <3>3, <3>4 DEF RequestSound
    <3>6. dossiers' \in [Dossiers -> DossierStatuses] /\ DecisionsGrow
      BY <1>1, SameDecisions DEF IssueInsert, CertInv, TypeOK
    <3>. QED
      BY <3>1, <3>3, <3>5, <3>6, GrowStep
  <2>. QED
    BY <1>1, <2>2, <2>3 DEF IssueInsert, NamedDossier
<1>2. CASE IssueFile(r)
  <2>1. req[r].id \in CertIds /\ certs[req[r].id].status # "absent"
    BY <1>0, <1>2 DEF IssueFile, At, RequestSound
  <2>2. CASE certs' = [certs EXCEPT ![req[r].id].status = "deleted"]
    <3>1. certs' \in [CertIds -> Cert]
      BY <2>1, <2>2 DEF CertInv, TypeOK, Cert
    <3>2. CertsGrow
      BY <2>1, <2>2, <3>1, CertUpdate DEF CertInv, TypeOK, RevokedIsRecorded, Cert
    <3>. QED
      BY <1>2, <3>2, FinishStep, SameDecisions DEF IssueFile
  <2>. QED
    BY <1>2, <2>2, FinishStep, SameDecisions, SameCerts DEF IssueFile
<1>. QED
  BY <1>1, <1>2

\* Changes of status and revocations.
LEMMA UpdatesKeep ==
    ASSUME CertInv, NEW r \in Requests,
           StatusWrite(r) \/ RevokeWrite(r) \/ AuditRevokeCommit(r) \/ AuditSet(r)
    PROVE  CertInv'
<1>0. req[r] \in Request /\ RequestSound(req[r])
  BY DEF CertInv, TypeOK
<1>1. CASE StatusWrite(r) \/ RevokeWrite(r)
  <2>1. req[r].id \in CertIds /\ req[r].target \in Settable
    BY <1>0, <1>1 DEF StatusWrite, RevokeWrite, At, RequestSound, Request
  <2>2. PICK row : /\ certs' = [certs EXCEPT ![req[r].id] = row]
                   /\ row = SetStatus(req[r].id, req[r].target) \/ row = Revoked(req[r].id)
    BY <1>1 DEF StatusWrite, RevokeWrite
  <2>3. /\ row \in Cert /\ row.dossier = certs[req[r].id].dossier
        /\ row.status = "absent" <=> certs[req[r].id].status = "absent"
        /\ row.status = "revoked" => row.revoked
    BY <2>1, <2>2, SetStatusSound, RevokedSound
  <2>4. certs' \in [CertIds -> Cert]
    BY <2>2, <2>3 DEF CertInv, TypeOK
  <2>5. CertsGrow
    BY <2>1, <2>2, <2>3, <2>4, CertUpdate DEF CertInv, TypeOK, RevokedIsRecorded
  <2>. QED
    BY <1>1, <2>5, FinishStep, SameDecisions DEF StatusWrite, RevokeWrite
<1>2. CASE AuditRevokeCommit(r)
  <2>1. CASE \A c \in req[r].rows : Exists(c)
    <3>1. \A c \in CertIds : certs'[c] = IF c \in req[r].rows THEN Revoked(c) ELSE certs[c]
      BY <1>2, <2>1 DEF AuditRevokeCommit
    <3>2. certs' \in [CertIds -> Cert]
      BY <1>2, <2>1, RevokedSound DEF AuditRevokeCommit, CertInv, TypeOK
    <3>3. CertsGrow
      BY <3>1, <3>2, RevokedSound, CertUpdate DEF CertInv, RevokedIsRecorded
    <3>. QED
      BY <1>2, <3>3, FinishStep, SameDecisions DEF AuditRevokeCommit
  <2>. QED
    BY <1>2, <2>1, FinishStep, SameDecisions, SameCerts DEF AuditRevokeCommit
<1>3. CASE AuditSet(r)
  <2>1. PICK s \in Settable :
          certs' = [c \in CertIds |-> IF Renewable(c) THEN SetStatus(c, s) ELSE certs[c]]
    BY <1>3 DEF AuditSet
  <2>2. certs' \in [CertIds -> Cert]
    BY <2>1, SetStatusSound DEF CertInv, TypeOK
  <2>3. \A c \in CertIds : certs'[c] = IF Renewable(c) THEN SetStatus(c, s) ELSE certs[c]
    BY <2>1
  <2>4. CertsGrow
    BY <2>2, <2>3, SetStatusSound, CertUpdate DEF CertInv, RevokedIsRecorded
  <2>5. UNCHANGED <<dossiers, decisions, req>> /\ DecisionsGrow
    BY <1>3, SameDecisions DEF AuditSet
  <2>6. PICK q \in Request : q = req[r] /\ RequestSound(q)
    BY <1>0
  <2>7. RequestSound(q)'
    BY <2>4, <2>5, <2>6, SoundStays
  <2>8. req' = [req EXCEPT ![r] = q] /\ dossiers' \in [Dossiers -> DossierStatuses]
    BY <2>5, <2>6 DEF CertInv, TypeOK
  <2>. QED
    BY <2>4, <2>5, <2>7, <2>8, GrowStep
<1>. QED
  BY <1>1, <1>2, <1>3

\* The invariant is inductive.
LEMMA NextCertInv == CertInv /\ [Next]_vars => CertInv'
<1> SUFFICES ASSUME CertInv, [Next]_vars PROVE CertInv'
  OBVIOUS
<1>1. ASSUME NEW d \in Dossiers, DossierMoves(d) PROVE CertInv'
  <2>1. dossiers' \in [Dossiers -> DossierStatuses]
    BY <1>1 DEF DossierMoves, CertInv, TypeOK, DossierStatuses
  <2>. QED
    BY <1>1, <2>1 DEF DossierMoves, CertInv, TypeOK, OneCase, Active, IssuedOnDecision,
       Decided, RevokedIsRecorded, RequestSound
<1>2. ASSUME NEW r \in Requests, Step(r) PROVE CertInv'
  <2>1. CASE Crash(r)
    BY <2>1, FinishStep, SameDecisions, SameCerts DEF Crash
  <2>. QED
    BY <1>2, <2>1, ReadsKeep, ChecksKeep, CasesKeep, IssueKeeps, UpdatesKeep DEF Step
<1>3. CASE UNCHANGED vars
  BY <1>3 DEF vars, CertInv, TypeOK, OneCase, Active, IssuedOnDecision,
     Decided, RevokedIsRecorded, RequestSound
<1>. QED
  BY <1>1, <1>2, <1>3 DEF Next

\* Cases, certificates and what requests remember of them stay consistent.
THEOREM CertificationCorrect == Spec => []CertInv
<1>. QED
  BY InitCertInv, NextCertInv, PTL DEF Spec

\* Dossiers, cases, certificates and what calls remember of them keep their types, for
\* any number of them.
THEOREM CertificationTyped == Spec => []TypeOK
<1>1. CertInv => TypeOK
  BY DEF CertInv
<1>. QED
  BY <1>1, CertificationCorrect, PTL

\* certification_decisions.py, create_decision_case: one pending or approved
\* case per dossier.
THEOREM CasesAreUnique == Spec => []OneCase
<1>1. CertInv => OneCase
  BY DEF CertInv
<1>. QED
  BY <1>1, CertificationCorrect, PTL

\* certificate_router.py, issue_certificate_for_company: no certificate
\* without an approved decision behind it.
THEOREM CertificatesAreDecided == Spec => []IssuedOnDecision
<1>1. CertInv => IssuedOnDecision
  BY DEF CertInv
<1>. QED
  BY <1>1, CertificationCorrect, PTL

\* certificate_router.py, issue_certificate_for_company: when the row is
\* inserted every dossier the call found is decided.
THEOREM GateCoversAll == Spec => []AllSeenDecided
<1>1. CertInv => AllSeenDecided
  BY DEF CertInv, AllSeenDecided, RequestSound, At
<1>. QED
  BY <1>1, CertificationCorrect, PTL

\* cert_lifecycle.py, revoke_cert: a revoked certificate has its record.
THEOREM RevocationsAreRecorded == Spec => []RevokedIsRecorded
<1>1. CertInv => RevokedIsRecorded
  BY DEF CertInv
<1>. QED
  BY <1>1, CertificationCorrect, PTL

\* certification_decisions.py, _finalize_decision: whoever decides late
\* changes nothing.
THEOREM DecisionsAreFinal == Spec => DecisionIsFinal
<1>1. CertInv /\ [Next]_vars =>
        [\A i \in DecisionIds :
            decisions[i].status \in {"approved", "rejected"} => decisions'[i] = decisions[i]]_vars
  <2> SUFFICES ASSUME CertInv, [Next]_vars, NEW i \in DecisionIds,
                      decisions[i].status \in {"approved", "rejected"}
               PROVE  decisions'[i] = decisions[i]
    OBVIOUS
  <2>1. CASE UNCHANGED decisions
    BY <2>1
  <2>2. ASSUME NEW r \in Requests, CreateInsert(r), ~UNCHANGED decisions
        PROVE  decisions'[i] = decisions[i]
    BY <2>2 DEF CreateInsert, IsNext, CertInv, TypeOK
  <2>3. ASSUME NEW r \in Requests, FinalizeWrite(r), ~UNCHANGED decisions
        PROVE  decisions'[i] = decisions[i]
    BY <2>3 DEF FinalizeWrite, StillPending, CertInv, TypeOK
  <2>. QED
    BY <2>1, <2>2, <2>3
       DEF Next, Step, vars, DossierMoves, CreateRead, FinalizeRead, IssueRead, IssueGate,
           IssueCheck, IssueInsert, IssueFile, StatusRead, StatusWrite, RevokeRead,
           RevokeWrite, AuditRevokeRead, AuditRevokeCheck, AuditRevokeCommit, AuditSet, Crash
<1>. QED
  BY <1>1, CertificationCorrect, PTL DEF Spec, DecisionIsFinal

\* certificate_router.py, update_cert_status: only a status change that looked
\* before the revocation undoes it.
THEOREM RevocationsHold == Spec => OnlyLateWriteReactivates
<1>1. CertInv /\ [Next]_vars =>
        [\A c \in CertIds :
            certs[c].status = "revoked" /\ certs'[c].status \in Settable =>
                \E r \in Requests : At(r, "status_write") /\ req[r].id = c]_vars
  <2> SUFFICES ASSUME CertInv, [Next]_vars, NEW c \in CertIds,
                      certs[c].status = "revoked", certs'[c].status \in Settable
               PROVE  \E r \in Requests : At(r, "status_write") /\ req[r].id = c
    OBVIOUS
  <2>0. certs \in [CertIds -> Cert]
    BY DEF CertInv, TypeOK
  <2>1. CASE UNCHANGED certs
    BY <2>1 DEF Settable
  <2>2. ASSUME NEW r \in Requests, StatusWrite(r)
        PROVE  At(r, "status_write") /\ req[r].id = c
    BY <2>0, <2>2 DEF StatusWrite, Settable
  <2>3. ASSUME NEW r \in Requests, IssueInsert(r), ~UNCHANGED certs PROVE FALSE
    BY <2>0, <2>3 DEF IssueInsert, IsNext, Settable
  <2>4. ASSUME NEW r \in Requests, IssueFile(r), ~UNCHANGED certs PROVE FALSE
    BY <2>0, <2>4 DEF IssueFile, Settable, Cert
  <2>5. ASSUME NEW d \in CertIds PROVE Revoked(d).status \notin Settable \/ Revoked(d).status = certs[d].status
    BY <2>0 DEF Revoked, SetStatus, Cert, Settable
  <2>6. ASSUME NEW r \in Requests, RevokeWrite(r) PROVE FALSE
    BY <2>0, <2>5, <2>6 DEF RevokeWrite, Settable
  <2>7. ASSUME NEW r \in Requests, AuditRevokeCommit(r) PROVE FALSE
    BY <2>0, <2>5, <2>7 DEF AuditRevokeCommit, Settable
  <2>8. ASSUME NEW r \in Requests, AuditSet(r) PROVE FALSE
    BY <2>0, <2>8 DEF AuditSet, Renewable, Settable
  <2>. QED
    BY <2>1, <2>2, <2>3, <2>4, <2>6, <2>7, <2>8
       DEF Next, Step, vars, DossierMoves, CreateRead, CreateInsert, FinalizeRead,
           FinalizeWrite, IssueRead, IssueGate, IssueCheck, StatusRead, RevokeRead,
           AuditRevokeRead, AuditRevokeCheck, Crash
<1>. QED
  BY <1>1, CertificationCorrect, PTL DEF Spec, OnlyLateWriteReactivates
=============================================================================
