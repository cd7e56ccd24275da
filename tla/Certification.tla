---------------------------- MODULE Certification ----------------------------
(***************************************************************************)
(* What a certification body decides about one business: the decision      *)
(* cases of its dossiers (services/certification_decisions.py), the        *)
(* certificates issued on them (auth/certificate_router.py) and what later *)
(* becomes of these (services/cert_lifecycle.py and cert_decision in       *)
(* auth/audit_router.py).                                                  *)
(*                                                                         *)
(* Only cert_decision runs in a transaction; of the other handlers each    *)
(* statement commits by itself.  Rows have numbers in order of creation.   *)
(***************************************************************************)
EXTENDS Naturals

CONSTANTS
    Requests,       \* requests in flight at the same time
    Dossiers,       \* submissions of the business to this body
    MaxDecisions,   \* bound on decision cases
    MaxCerts,       \* bound on certificates
    NoDossier

ASSUME CertificationAssumption ==
    /\ MaxDecisions \in Nat
    /\ MaxCerts \in Nat
    /\ NoDossier \notin Dossiers

VARIABLES
    dossiers,    \* status of each submission, as far as certificates care
    decisions,   \* the certification_decisions rows
    certs,       \* the halal_certificates rows
    req          \* what each request in flight has read so far

vars == <<dossiers, decisions, certs, req>>

DecisionIds == 1 .. MaxDecisions
CertIds == 1 .. MaxCerts

-----------------------------------------------------------------------------
(* The shape of the state.  "absent" is a row that is not there yet, and    *)
(* "deleted" one that no longer is.                                        *)

DossierStatuses == {"absent", "open", "approved", "rejected"}

Decision == [dossier: Dossiers \cup {NoDossier},
             status: {"absent", "pending_review", "approved", "rejected"}]

Settable == {"active", "suspended"}
Cert == [dossier: Dossiers \cup {NoDossier}, revoked: BOOLEAN,
         status: Settable \cup {"absent", "revoked", "deleted"}]

Pcs == {"idle", "create_insert", "finalize_write", "issue_gate", "issue_check",
        "issue_insert", "issue_file", "status_write", "revoke_read",
        "revoke_write", "audit_check", "audit_commit"}

\* seen and todo: the dossiers an issue found, and those not yet gated.
Request == [pc: Pcs, id: 0 .. MaxDecisions + MaxCerts,
            target: Settable, dossier: Dossiers \cup {NoDossier},
            seen: SUBSET Dossiers, todo: SUBSET Dossiers, rows: SUBSET CertIds]

Idle == [pc |-> "idle", id |-> 0, target |-> "active", dossier |-> NoDossier,
         seen |-> {}, todo |-> {}, rows |-> {}]

TypeOK ==
    /\ dossiers \in [Dossiers -> DossierStatuses]
    /\ decisions \in [DecisionIds -> Decision]
    /\ certs \in [CertIds -> Cert]
    /\ \A i \in DecisionIds : decisions[i].status # "absent" => decisions[i].dossier \in Dossiers
    /\ \A c \in CertIds : certs[c].status # "absent" => certs[c].dossier \in Dossiers
    /\ req \in [Requests -> Request]

Init ==
    /\ dossiers = [d \in Dossiers |-> "absent"]
    /\ decisions = [i \in DecisionIds |-> [dossier |-> NoDossier, status |-> "absent"]]
    /\ certs = [c \in CertIds |->
                   [dossier |-> NoDossier, revoked |-> FALSE, status |-> "absent"]]
    /\ req = [r \in Requests |-> Idle]

-----------------------------------------------------------------------------
(* Helpers of the handlers *)

At(r, pc) == req[r].pc = pc
Go(r, pc) == req' = [req EXCEPT ![r].pc = pc]
Finish(r) == req' = [req EXCEPT ![r] = Idle]

IsNext(rows, i) == /\ rows[i].status = "absent"
                   /\ \A j \in DOMAIN rows : j < i => rows[j].status # "absent"

Exists(c) == certs[c].status \notin {"absent", "deleted"}

Active(i) == decisions[i].status \in {"pending_review", "approved"}

OnCase(d) == \E i \in DecisionIds : decisions[i].dossier = d /\ Active(i)

\* Mutant: the partial unique index is missing.
AnyRow(d) == TRUE

\* uq_certification_decisions_submission_active
IndexFree(d) == ~OnCase(d)

\* get_decision_for_submission takes the latest case.
Gate(d) == \E i \in DecisionIds :
              /\ decisions[i] = [dossier |-> d, status |-> "approved"]
              /\ \A j \in DecisionIds : j > i => decisions[j].dossier # d

-----------------------------------------------------------------------------
(* The submission workflow, seen from here: a dossier is sent, decided, and *)
(* put back to work by assigning it an auditor.                            *)

DossierMoves(d) ==
    /\ \/ dossiers[d] = "absent" /\ dossiers' = [dossiers EXCEPT ![d] = "open"]
       \/ /\ dossiers[d] = "open"
          /\ \E s \in {"approved", "rejected"} : dossiers' = [dossiers EXCEPT ![d] = s]
       \/ /\ dossiers[d] \in {"approved", "rejected"}
          /\ dossiers' = [dossiers EXCEPT ![d] = "open"]
    /\ UNCHANGED <<decisions, certs, req>>

-----------------------------------------------------------------------------
(* POST /certification-decisions; a conflict of interest or the reviewer's
   role may refuse the call, which then changes nothing *)

CreateRead(r) ==
    /\ At(r, "idle")
    /\ \E d \in Dossiers :
          /\ dossiers[d] # "absent"
          /\ ~OnCase(d)
          /\ req' = [req EXCEPT ![r].dossier = d, ![r].pc = "create_insert"]
    /\ UNCHANGED <<dossiers, decisions, certs>>

CreateInsert(r) ==
    /\ At(r, "create_insert")
    /\ \/ /\ IndexFree(req[r].dossier)
          /\ \E i \in DecisionIds :
                /\ IsNext(decisions, i)
                /\ decisions' = [decisions EXCEPT
                     ![i] = [dossier |-> req[r].dossier, status |-> "pending_review"]]
       \/ UNCHANGED decisions                    \* refused
    /\ Finish(r)
    /\ UNCHANGED <<dossiers, certs>>

(* POST /certification-decisions/{id}/approve and /reject *)

FinalizeRead(r) ==
    /\ At(r, "idle")
    /\ \E i \in DecisionIds :
          /\ decisions[i].status = "pending_review"
          /\ req' = [req EXCEPT ![r].id = i, ![r].pc = "finalize_write"]
    /\ UNCHANGED <<dossiers, decisions, certs>>

\* Mutant: the UPDATE relies on the status read before.
AsRead(i) == TRUE

StillPending(i) == decisions[i].status = "pending_review"

FinalizeWrite(r) ==
    /\ At(r, "finalize_write")
    /\ IF StillPending(req[r].id)
       THEN \E s \in {"approved", "rejected"} :
               decisions' = [decisions EXCEPT ![req[r].id].status = s]
       ELSE UNCHANGED decisions
    /\ Finish(r)
    /\ UNCHANGED <<dossiers, certs>>

-----------------------------------------------------------------------------
(* POST /issue-certificate: the dossiers are read, each is gated, an active
   certificate is looked for, the row is inserted, the PDF written *)

Current == {d \in Dossiers : dossiers[d] \notin {"absent", "rejected"}}

IssueRead(r) ==
    /\ At(r, "idle")
    /\ Current # {}
    /\ \A d \in Current : dossiers[d] = "approved"
    /\ \E d \in Current :
          req' = [req EXCEPT ![r].dossier = d, ![r].seen = Current,
                             ![r].todo = Current, ![r].pc = "issue_gate"]
    /\ UNCHANGED <<dossiers, decisions, certs>>

\* Mutant: the first decision found lets the call pass.
AnyGated(r) == req[r].todo # req[r].seen

AllGated(r) == req[r].todo = {}

IssueGate(r) ==
    /\ At(r, "issue_gate")
    /\ IF AllGated(r)
       THEN Go(r, "issue_check")
       ELSE \E d \in req[r].todo :
               IF Gate(d)
               THEN req' = [req EXCEPT ![r].todo = @ \ {d}]
               ELSE Finish(r)
    /\ UNCHANGED <<dossiers, decisions, certs>>

IssueCheck(r) ==
    /\ At(r, "issue_check")
    /\ IF \E c \in CertIds : certs[c].status = "active"
       THEN Finish(r)
       ELSE Go(r, "issue_insert")
    /\ UNCHANGED <<dossiers, decisions, certs>>

NamedDossier(r) == req[r].dossier

\* No free number after five attempts ends the call.
IssueInsert(r) ==
    /\ At(r, "issue_insert")
    /\ \/ \E c \in CertIds :
             /\ IsNext(certs, c)
             /\ certs' = [certs EXCEPT ![c] = [dossier |-> NamedDossier(r),
                                               revoked |-> FALSE, status |-> "active"]]
             /\ req' = [req EXCEPT ![r].id = c, ![r].pc = "issue_file"]
       \/ Finish(r) /\ UNCHANGED certs
    /\ UNCHANGED <<dossiers, decisions>>

\* A PDF that cannot be written takes its row with it.
IssueFile(r) ==
    /\ At(r, "issue_file")
    /\ \/ UNCHANGED certs
       \/ certs' = [certs EXCEPT ![req[r].id].status = "deleted"]
    /\ Finish(r)
    /\ UNCHANGED <<dossiers, decisions>>

-----------------------------------------------------------------------------
(* PUT /certificates/{id}/status *)

StatusRead(r) ==
    /\ At(r, "idle")
    /\ \E c \in CertIds :
          /\ Exists(c)
          /\ \/ req' = [req EXCEPT ![r].id = c, ![r].pc = "revoke_read"]
             \/ /\ certs[c].status # "revoked" /\ ~certs[c].revoked
                /\ \E s \in Settable :
                      req' = [req EXCEPT ![r].id = c, ![r].target = s,
                                         ![r].pc = "status_write"]
    /\ UNCHANGED <<dossiers, decisions, certs>>

\* An UPDATE of a row that is gone changes nothing.
SetStatus(c, s) == [certs[c] EXCEPT !.status = IF Exists(c) THEN s ELSE @]

StatusWrite(r) ==
    /\ At(r, "status_write")
    /\ certs' = [certs EXCEPT ![req[r].id] = SetStatus(req[r].id, req[r].target)]
    /\ Finish(r)
    /\ UNCHANGED <<dossiers, decisions>>

(* revoke_cert *)

Unrevoked(c) == Exists(c) /\ certs[c].status # "revoked" /\ ~certs[c].revoked

RevokeRead(r) ==
    /\ At(r, "revoke_read")
    /\ IF Unrevoked(req[r].id) THEN Go(r, "revoke_write") ELSE Finish(r)
    /\ UNCHANGED <<dossiers, decisions, certs>>

Revoked(c) == [SetStatus(c, "revoked") EXCEPT !.revoked = Exists(c) \/ @]

RevokeWrite(r) ==
    /\ At(r, "revoke_write")
    /\ certs' = [certs EXCEPT ![req[r].id] = Revoked(req[r].id)]
    /\ Finish(r)
    /\ UNCHANGED <<dossiers, decisions>>

-----------------------------------------------------------------------------
(* POST /audits/{visit}/decision.  Its transaction shows nothing until it
   commits; the rows it has updated are locked, so that other writers of
   them come after it.                                                     *)

AuditRevokeRead(r) ==
    /\ At(r, "idle")
    /\ req' = [req EXCEPT ![r].pc = "audit_check",
          ![r].rows = {c \in CertIds : certs[c].status = "active" /\ ~certs[c].revoked}]
    /\ UNCHANGED <<dossiers, decisions, certs>>

AuditRevokeCheck(r) ==
    /\ At(r, "audit_check")
    /\ IF \A c \in req[r].rows : Exists(c)
       THEN req' = [req EXCEPT ![r].pc = "audit_commit",
                               ![r].rows = {c \in @ : Unrevoked(c)}]
       ELSE Finish(r)                              \* CertNotFound
    /\ UNCHANGED <<dossiers, decisions, certs>>

AuditRevokeCommit(r) ==
    /\ At(r, "audit_commit")
    /\ IF \A c \in req[r].rows : Exists(c)
       THEN certs' = [c \in CertIds |->
                        IF c \in req[r].rows THEN Revoked(c) ELSE certs[c]]
       ELSE UNCHANGED certs                        \* rolled back
    /\ Finish(r)
    /\ UNCHANGED <<dossiers, decisions>>

\* Mutant: the UPDATE covers every certificate of the business.
AnyCert(c) == Exists(c)

Renewable(c) == Exists(c) /\ certs[c].status # "revoked"

\* renew and suspend are one UPDATE.
AuditSet(r) ==
    /\ At(r, "idle")
    /\ \E s \in Settable :
          certs' = [c \in CertIds |-> IF Renewable(c) THEN SetStatus(c, s) ELSE certs[c]]
    /\ UNCHANGED <<dossiers, decisions, req>>

-----------------------------------------------------------------------------
(* A worker dies between two statements. *)

Crash(r) ==
    /\ ~At(r, "idle")
    /\ Finish(r)
    /\ UNCHANGED <<dossiers, decisions, certs>>

Step(r) ==
    \/ CreateRead(r) \/ CreateInsert(r)
    \/ FinalizeRead(r) \/ FinalizeWrite(r)
    \/ IssueRead(r) \/ IssueGate(r) \/ IssueCheck(r) \/ IssueInsert(r) \/ IssueFile(r)
    \/ StatusRead(r) \/ StatusWrite(r)
    \/ RevokeRead(r) \/ RevokeWrite(r)
    \/ AuditRevokeRead(r) \/ AuditRevokeCheck(r) \/ AuditRevokeCommit(r)
    \/ AuditSet(r)
    \/ Crash(r)

Next ==
    \/ \E d \in Dossiers : DossierMoves(d)
    \/ \E r \in Requests : Step(r)

Spec == Init /\ [][Next]_vars

-----------------------------------------------------------------------------
(* What holds *)

Decided(d) == \E i \in DecisionIds : decisions[i] = [dossier |-> d, status |-> "approved"]

\* A dossier has at most one case that is pending or approved, whoever opens
\* and decides cases at the same time.
OneCase ==
    \A i, j \in DecisionIds :
        i # j /\ Active(i) /\ Active(j) => decisions[i].dossier # decisions[j].dossier

\* A decision once taken stands: a late approval or rejection changes nothing.
DecisionIsFinal ==
    [][\A i \in DecisionIds :
          decisions[i].status \in {"approved", "rejected"} => decisions'[i] = decisions[i]]_vars

\* Behind every certificate stands an approved decision, also when cases are
\* opened and decided between the gate and the INSERT.
IssuedOnDecision ==
    \A c \in CertIds : certs[c].status # "absent" => Decided(certs[c].dossier)

\* ... and no row is inserted before every dossier the issuer saw is decided.
AllSeenDecided ==
    \A r \in Requests : At(r, "issue_insert") => \A d \in req[r].seen : Decided(d)

\* A certificate that is revoked says who revoked it and why.
RevokedIsRecorded ==
    \A c \in CertIds : certs[c].status = "revoked" => certs[c].revoked

\* What a request remembers between its statements: rows that are there, and
\* decisions that are still taken.
RequestSound(q) ==
    /\ q.pc = "create_insert" => q.dossier \in Dossiers
    /\ q.pc = "finalize_write" => q.id \in DecisionIds
    /\ q.pc \in {"issue_file", "status_write", "revoke_read", "revoke_write"} =>
          q.id \in CertIds /\ certs[q.id].status # "absent"
    /\ q.pc \in {"issue_gate", "issue_check", "issue_insert"} =>
          /\ q.dossier \in q.seen
          /\ \A d \in q.seen \ q.todo : Decided(d)
    /\ q.pc \in {"issue_check", "issue_insert"} => q.todo = {}

\* The inductive invariant behind the others.
CertInv ==
    /\ TypeOK
    /\ OneCase
    /\ IssuedOnDecision
    /\ RevokedIsRecorded
    /\ \A r \in Requests : RequestSound(req[r])

\* Only a status change that looked before the revocation brings a revoked
\* certificate back: no decision after an audit does, and no later call.
OnlyLateWriteReactivates ==
    [][\A c \in CertIds :
          certs[c].status = "revoked" /\ certs'[c].status \in Settable =>
              \E r \in Requests : At(r, "status_write") /\ req[r].id = c]_vars

-----------------------------------------------------------------------------
(* What comments and the web client say and the handlers do not keep *)

\* certificates/page.tsx: "Chứng nhận sẽ bị thu hồi vĩnh viễn".
RevokedForEver ==
    [][\A c \in CertIds : certs[c].status = "revoked" => certs'[c].status # "active"]_vars

\* certificate_router.py: "All currently-active dossiers must be approved
\* before cert can be issued."
IssuedWhenAllApproved ==
    [][\A c \in CertIds :
          certs[c].status = "absent" /\ certs'[c].status = "active" =>
              \A d \in Current : dossiers[d] = "approved"]_vars

\* certificate_router.py: "Check if active cert already exists".
OneActiveCertificate ==
    \A c, e \in CertIds :
        certs[c].status = "active" /\ certs[e].status = "active" => c = e
=============================================================================
