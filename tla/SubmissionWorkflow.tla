------------------------- MODULE SubmissionWorkflow -------------------------
(***************************************************************************)
(* One submission of a business's dossier to a certification body (CB):    *)
(* the row in table submissions and everything keyed by it.  Handlers of   *)
(* auth/submission_router.py run in several server processes, each on its  *)
(* own pooled connection under READ COMMITTED, so every SQL statement      *)
(* outside a transaction, and every transaction, is a step other handlers  *)
(* can interleave with.  Only replace-document locks the row for more than *)
(* one step (SELECT ... FOR UPDATE); a transaction whose first write is    *)
(* also its commit point for the others is one step.                       *)
(*                                                                         *)
(* A call that is refused before it wrote or remembered anything changes   *)
(* nothing and is no step.  Arguments a handler uses only in its last      *)
(* statement are chosen there.                                             *)
(***************************************************************************)
EXTENDS Naturals, Sequences, Functions

CONSTANTS
    Requests,     \* handler slots: requests in flight at the same time
    Owner,        \* the CB's owner account
    Auditors,     \* the CB's auditor accounts
    Docs,         \* document versions attached to the dossier
    DocType,      \* the type of each document
    Required,     \* types the pinned requirements version demands
    Packets,      \* what a client may send as new_document_ids
    MaxRound,     \* bound: no revision is asked for beyond this round
    Enabled,      \* the calls clients make in this instance
    NoRequest, NoAuditor, NoDocs

ASSUME ConstantsAssumption ==
    /\ NoRequest \notin Requests
    /\ Owner \notin Auditors
    /\ NoAuditor \notin Auditors \cup {Owner}
    /\ MaxRound \in Nat
    /\ Packets \subseteq Seq(Docs)
    /\ NoDocs \notin Packets
    /\ DOMAIN DocType = Docs

VARIABLES
    sub,          \* the submissions row
    revs,         \* submission_revision_requests, in insertion order
    evals,        \* submission_evaluations, per evaluator
    cbApproved,   \* documents whose cb_approved_at is set
    reviews,      \* audit rows submission.documents_reviewed
    resubmitLog,  \* rounds of the audit rows submission.resubmitted
    lock,         \* who holds the row lock across steps
    req           \* what each request in flight has read so far

vars == <<sub, revs, evals, cbApproved, reviews, resubmitLog, lock, req>>

Users == Auditors \cup {Owner}

Statuses == {"pending", "assigned", "reviewing", "revision_required",
             "returned", "rejected", "approved"}
Terminal == {"approved", "rejected"}

AllowedTransitions ==
    [ pending           |-> {"assigned", "reviewing", "rejected"},
      assigned          |-> {"reviewing", "returned", "rejected"},
      reviewing         |-> {"revision_required", "returned", "approved", "rejected"},
      revision_required |-> {"reviewing"},
      returned          |-> {"reviewing", "assigned"},
      rejected          |-> {},
      approved          |-> {} ]

ValidTransition(from, to) == from = to \/ to \in AllowedTransitions[from]

RevisionFrom == {"reviewing", "returned"}
ResubmitFrom == {"revision_required"}

Calls == {"status", "assign", "evaluation", "revision", "resubmit",
          "approve", "replace", "finalize"}

-----------------------------------------------------------------------------
(* The shape of the state *)

Submission == [status: Statuses, round: Nat, docs: Seq(Docs),
               auditor: Auditors \cup {NoAuditor}, archived: BOOLEAN]
Revision == [round: Nat, docs: Seq(Docs), resolved: BOOLEAN]
Review == [round: Nat, docs: Seq(Docs)]

Steps == {"idle", "status_write", "eval_save", "eval_read", "eval_promote",
          "revision_read", "revision_commit", "resubmit_pending",
          "resubmit_commit", "resubmit_announce", "approve_eval",
          "approve_commit", "replace_write", "finalize_write"}

Request == [pc: Steps, who: Users, target: Statuses, status: Statuses,
            round: Nat, docs: Seq(Docs), pending: Nat]

Idle == [pc |-> "idle", who |-> Owner, target |-> "pending",
         status |-> "pending", round |-> 0, docs |-> <<>>, pending |-> 0]

TypeOK ==
    /\ sub \in Submission
    /\ revs \in Seq(Revision)
    /\ evals \in [Users -> {"none", "unscored", "scored"}]
    /\ cbApproved \in SUBSET Docs
    /\ reviews \in SUBSET Review
    /\ resubmitLog \in Seq(Nat)
    /\ lock \in Requests \cup {NoRequest}
    /\ req \in [Requests -> Request]

Types(packet) == {DocType[d] : d \in Range(packet)}

\* A packet submit_documents accepts: each type once, no required one missing.
CompletePacket(packet) ==
    /\ packet # <<>>
    /\ \A i, j \in DOMAIN packet : DocType[packet[i]] = DocType[packet[j]] => i = j
    /\ Required \subseteq Types(packet)

Init ==
    /\ \E p \in Packets :
          /\ CompletePacket(p)
          /\ sub = [status |-> "pending", round |-> 0, docs |-> p,
                    auditor |-> NoAuditor, archived |-> FALSE]
    /\ revs = <<>>
    /\ evals = [u \in Users |-> "none"]
    /\ cbApproved = {}
    /\ reviews = {}
    /\ resubmitLog = <<>>
    /\ lock = NoRequest
    /\ req = [r \in Requests |-> Idle]

-----------------------------------------------------------------------------
(* Helpers of the handlers *)

\* _provider_filter and _check_submission_access
InScope(u) == u = Owner \/ sub.auditor = u

\* An UPDATE waits for the holder of the row lock.
RowFree == lock = NoRequest

Starts(r, call) == call \in Enabled /\ req[r].pc = "idle"
At(r, step) == req[r].pc = step

Go(r, step) == req' = [req EXCEPT ![r].pc = step]
Finish(r) == req' = [req EXCEPT ![r] = Idle]

\* The row as a SELECT of request r returns it, kept for its later steps.
Read(r, u, step) ==
    req' = [req EXCEPT ![r] =
        [Idle EXCEPT !.pc = step, !.who = u, !.status = sub.status,
                     !.round = sub.round, !.docs = sub.docs]]

\* Mutant: the compare-and-set compares the status alone.
StatusUnchanged(r) == sub.status = req[r].status

\* WHERE status = $read AND COALESCE(revision_round, 0) = $read
RowUnchanged(r) == sub.status = req[r].status /\ sub.round = req[r].round

Unresolved == {i \in DOMAIN revs : ~revs[i].resolved}

-----------------------------------------------------------------------------
(* PUT /received/{id}/status: the UPDATE does not look at the status again *)

\* Mutant: a CB member may ask for corrections without saying which.
SettableWithRevision == {"assigned", "reviewing", "returned", "revision_required"}

Settable == {"assigned", "reviewing", "returned"}

StatusRead(r) ==
    /\ Starts(r, "status")
    /\ \E u \in Users, to \in Settable :
          /\ ValidTransition(sub.status, to)
          /\ req' = [req EXCEPT ![r] =
                [Idle EXCEPT !.pc = "status_write", !.who = u, !.target = to]]
    /\ UNCHANGED <<sub, revs, evals, cbApproved, reviews, resubmitLog, lock>>

StatusWrite(r) ==
    /\ At(r, "status_write")
    /\ RowFree
    /\ sub' = IF InScope(req[r].who)
              THEN [sub EXCEPT !.status = req[r].target] ELSE sub
    /\ Finish(r)
    /\ UNCHANGED <<revs, evals, cbApproved, reviews, resubmitLog, lock>>

(* PUT /received/{id}/assign: one UPDATE, whatever the status is *)

AssignAuditor(a) ==
    /\ "assign" \in Enabled
    /\ RowFree
    /\ sub' = [sub EXCEPT !.auditor = a, !.status = "assigned"]
    /\ UNCHANGED <<revs, evals, cbApproved, reviews, resubmitLog, lock, req>>

(* POST /received/{id}/evaluation: access check, upsert, read, promote *)

EvaluationCheck(r) ==
    /\ Starts(r, "evaluation")
    /\ \E u \in Users :
          /\ InScope(u)
          /\ req' = [req EXCEPT ![r] = [Idle EXCEPT !.pc = "eval_save", !.who = u]]
    /\ UNCHANGED <<sub, revs, evals, cbApproved, reviews, resubmitLog, lock>>

EvaluationSave(r) ==
    /\ At(r, "eval_save")
    /\ \E score \in {"unscored", "scored"} :
          evals' = [evals EXCEPT ![req[r].who] = score]
    /\ Go(r, "eval_read")
    /\ UNCHANGED <<sub, revs, cbApproved, reviews, resubmitLog, lock>>

EvaluationRead(r) ==
    /\ At(r, "eval_read")
    /\ IF sub.status \in {"assigned", "pending"}
       THEN Go(r, "eval_promote")
       ELSE Finish(r)
    /\ UNCHANGED <<sub, revs, evals, cbApproved, reviews, resubmitLog, lock>>

EvaluationPromote(r) ==
    /\ At(r, "eval_promote")
    /\ RowFree
    /\ sub' = [sub EXCEPT !.status = "reviewing"]
    /\ Finish(r)
    /\ UNCHANGED <<revs, evals, cbApproved, reviews, resubmitLog, lock>>

(* POST /received/{id}/request-revision: scope check, read, then one
   transaction of compare-and-set and INSERT.  UNIQUE (submission_id, round)
   turns a second row of a round into an error, which rolls back. *)

RevisionCheck(r) ==
    /\ Starts(r, "revision")
    /\ \E u \in Users :
          /\ InScope(u)
          /\ req' = [req EXCEPT ![r] = [Idle EXCEPT !.pc = "revision_read", !.who = u]]
    /\ UNCHANGED <<sub, revs, evals, cbApproved, reviews, resubmitLog, lock>>

RevisionRead(r) ==
    /\ At(r, "revision_read")
    /\ IF sub.status \in RevisionFrom /\ sub.round < MaxRound
       THEN Read(r, req[r].who, "revision_commit")
       ELSE Finish(r)
    /\ UNCHANGED <<sub, revs, evals, cbApproved, reviews, resubmitLog, lock>>

NewRound(r) == req[r].round + 1

RoundTaken(r) == \E i \in DOMAIN revs : revs[i].round = NewRound(r)

RevisionCommit(r) ==
    /\ At(r, "revision_commit")
    /\ RowFree
    /\ \/ /\ RowUnchanged(r)
          /\ ~RoundTaken(r)
          /\ sub' = [sub EXCEPT !.status = "revision_required", !.round = NewRound(r)]
          /\ revs' = Append(revs, [round |-> NewRound(r), docs |-> req[r].docs,
                                   resolved |-> FALSE])
       \/ /\ ~RowUnchanged(r) \/ RoundTaken(r)
          /\ UNCHANGED <<sub, revs>>
    /\ Finish(r)
    /\ UNCHANGED <<evals, cbApproved, reviews, resubmitLog, lock>>

(* POST /{id}/resubmit: two reads, then one transaction that moves the row
   and resolves the request read.  With an Idempotency-Key the audit row is
   written in the same transaction, without one it is a later statement. *)

ResubmitRead(r) ==
    /\ Starts(r, "resubmit")
    /\ Read(r, Owner, "resubmit_pending")
    /\ UNCHANGED <<sub, revs, evals, cbApproved, reviews, resubmitLog, lock>>

\* Mutant: ORDER BY round LIMIT 1
OldestOpen(i) == \A j \in Unresolved : revs[i].round <= revs[j].round

\* ORDER BY round DESC LIMIT 1
LatestOpen(i) == \A j \in Unresolved : revs[j].round <= revs[i].round

ResubmitPending(r) ==
    /\ At(r, "resubmit_pending")
    /\ \/ /\ req[r].status \in ResubmitFrom
          /\ \E i \in Unresolved :
                /\ LatestOpen(i)
                /\ req' = [req EXCEPT ![r].pending = i, ![r].pc = "resubmit_commit"]
       \/ /\ req[r].status \notin ResubmitFrom \/ Unresolved = {}
          /\ Finish(r)     \* already resubmitted (no-op), or refused
    /\ UNCHANGED <<sub, revs, evals, cbApproved, reviews, resubmitLog, lock>>

\* Mutant: neither UPDATE of the transaction looks at what it found.
ResubmitBlindly(r) == req[r].pending \in DOMAIN revs

ResubmitCommits(r) == RowUnchanged(r) /\ req[r].pending \in Unresolved

\* Mutant: a request without new_document_ids is taken as a packet of nothing.
EvidenceAsSent(r, sent) == IF sent = NoDocs THEN <<NoDocs>> ELSE sent

\* Required types are not looked at again here.
Evidence(r, sent) == IF sent = NoDocs THEN req[r].docs ELSE sent

AcceptedEvidence(packet) == packet # <<>> /\ IsInjective(packet)

ResubmitWrite(r, sent) ==
    /\ AcceptedEvidence(Evidence(r, sent))
    /\ ResubmitCommits(r)
    /\ sub' = [sub EXCEPT !.status = "reviewing", !.docs = Evidence(r, sent)]
    /\ revs' = [revs EXCEPT ![req[r].pending].resolved = TRUE]

ResubmitCommit(r) ==
    /\ At(r, "resubmit_commit")
    /\ RowFree
    /\ \/ /\ \E sent \in Packets \cup {NoDocs} : ResubmitWrite(r, sent)
          /\ \/ /\ resubmitLog' = Append(resubmitLog, req[r].round)
                /\ Finish(r)
             \/ /\ Go(r, "resubmit_announce")
                /\ UNCHANGED resubmitLog
       \/ /\ \/ ~ResubmitCommits(r)
             \/ \E sent \in Packets \cup {NoDocs} : ~AcceptedEvidence(Evidence(r, sent))
          /\ Finish(r)
          /\ UNCHANGED <<sub, revs, resubmitLog>>
    /\ UNCHANGED <<evals, cbApproved, reviews, lock>>

ResubmitAnnounce(r) ==
    /\ At(r, "resubmit_announce")
    /\ resubmitLog' = Append(resubmitLog, req[r].round)
    /\ Finish(r)
    /\ UNCHANGED <<sub, revs, evals, cbApproved, reviews, lock>>

(* POST /received/{id}/approve-final: one transaction, but its reads lock
   nothing; what it stamps and records is the packet of its first read. *)

ApproveRead(r) ==
    /\ Starts(r, "approve")
    /\ \E u \in Users : InScope(u) /\ Read(r, u, "approve_eval")
    /\ sub.status # "approved"
    /\ sub.docs # <<>>
    /\ UNCHANGED <<sub, revs, evals, cbApproved, reviews, resubmitLog, lock>>

\* Mutant: without the W3-M11 check.
RubberStamp == TRUE

HasScore == \E u \in Users : evals[u] = "scored"

ApproveEval(r) ==
    /\ At(r, "approve_eval")
    /\ IF HasScore /\ ValidTransition(req[r].status, "approved")
       THEN Go(r, "approve_commit")
       ELSE Finish(r)
    /\ UNCHANGED <<sub, revs, evals, cbApproved, reviews, resubmitLog, lock>>

\* Mutant: the UPDATE without AND status <> 'approved'.
ApproveUnconditionally == TRUE

ApproveCommits == sub.status # "approved"

ApproveCommit(r) ==
    /\ At(r, "approve_commit")
    /\ RowFree
    /\ \/ /\ ApproveCommits
          /\ sub' = [sub EXCEPT !.status = "approved"]
          /\ cbApproved' = cbApproved \cup Range(req[r].docs)
          /\ reviews' = reviews \cup {[round |-> req[r].round + 1, docs |-> req[r].docs]}
       \/ /\ ~ApproveCommits
          /\ UNCHANGED <<sub, cbApproved, reviews>>
    /\ Finish(r)
    /\ UNCHANGED <<revs, evals, resubmitLog, lock>>

(* PUT /received/{id}/replace-document: the row stays locked from the read
   to the commit.  A document may only stand in for one of its own type. *)

\* Mutant: the SELECT without FOR UPDATE.
ReplaceReadUnlocked(r) ==
    /\ Starts(r, "replace")
    /\ sub.status \notin Terminal
    /\ ~sub.archived
    /\ Read(r, Owner, "replace_write")
    /\ UNCHANGED <<sub, revs, evals, cbApproved, reviews, resubmitLog, lock>>

ReplaceLock(r) ==
    /\ Starts(r, "replace")
    /\ RowFree
    /\ sub.status \notin Terminal
    /\ ~sub.archived
    /\ lock' = r
    /\ Read(r, Owner, "replace_write")
    /\ UNCHANGED <<sub, revs, evals, cbApproved, reviews, resubmitLog>>

\* doc_ids[doc_ids.index(old)] = new
IndexOf(packet, d) ==
    CHOOSE i \in DOMAIN packet : packet[i] = d /\ \A j \in 1 .. i - 1 : packet[j] # d

\* Mutant: a refusal that does not end the transaction.
ReplaceLeaksLock(r) ==
    /\ At(r, "replace_write")
    /\ Finish(r)
    /\ UNCHANGED <<sub, revs, evals, cbApproved, reviews, resubmitLog, lock>>

ReplaceWrite(r) ==
    /\ At(r, "replace_write")
    /\ \/ \E old \in Range(req[r].docs), new \in Docs :
             /\ DocType[new] = DocType[old]
             /\ sub' = [sub EXCEPT !.docs =
                          [req[r].docs EXCEPT ![IndexOf(req[r].docs, old)] = new]]
       \/ UNCHANGED sub   \* refused: old not in the packet, or new of another type
    /\ lock' = NoRequest
    /\ Finish(r)
    /\ UNCHANGED <<revs, evals, cbApproved, reviews, resubmitLog>>

(* POST /received/{id}/finalize *)

FinalizeRead(r) ==
    /\ Starts(r, "finalize")
    /\ sub.status = "approved"
    /\ ~sub.archived
    /\ Read(r, Owner, "finalize_write")
    /\ UNCHANGED <<sub, revs, evals, cbApproved, reviews, resubmitLog, lock>>

FinalizeWrite(r) ==
    /\ At(r, "finalize_write")
    /\ RowFree
    /\ sub' = [sub EXCEPT !.archived = TRUE]
    /\ Finish(r)
    /\ UNCHANGED <<revs, evals, cbApproved, reviews, resubmitLog, lock>>

(* A worker dies or is killed between two statements: its connection closes,
   its open transaction rolls back and its row lock is released. *)

Crash(r) ==
    /\ req[r].pc # "idle"
    /\ lock' = IF lock = r THEN NoRequest ELSE lock
    /\ Finish(r)
    /\ UNCHANGED <<sub, revs, evals, cbApproved, reviews, resubmitLog>>

-----------------------------------------------------------------------------

\* A new call arrives.
Begin(r) ==
    \/ StatusRead(r) \/ EvaluationCheck(r) \/ RevisionCheck(r)
    \/ ResubmitRead(r) \/ ApproveRead(r) \/ ReplaceLock(r) \/ FinalizeRead(r)

\* The server goes on with a call it has begun.
Continue(r) ==
    \/ StatusWrite(r)
    \/ EvaluationSave(r) \/ EvaluationRead(r) \/ EvaluationPromote(r)
    \/ RevisionRead(r) \/ RevisionCommit(r)
    \/ ResubmitPending(r) \/ ResubmitCommit(r) \/ ResubmitAnnounce(r)
    \/ ApproveEval(r) \/ ApproveCommit(r)
    \/ ReplaceWrite(r)
    \/ FinalizeWrite(r)

Next ==
    \/ \E a \in Auditors : AssignAuditor(a)
    \/ \E r \in Requests : Begin(r) \/ Continue(r) \/ Crash(r)

Spec == Init /\ [][Next]_vars

\* The row lock queue of PostgreSQL is first come first served: a statement
\* whose row becomes free again and again is not passed over for ever.
FairSpec == Spec /\ \A r \in Requests : SF_vars(Continue(r))

-----------------------------------------------------------------------------
(* What holds *)

\* Whatever requests race, round n of the submission has exactly one request
\* row, the n-th: none is skipped, repeated or recorded under another number.
RoundsNumbered ==
    /\ Len(revs) = sub.round
    /\ \A i \in DOMAIN revs : revs[i].round = i

\* A reviewer whose compare-and-set succeeds never runs into the UNIQUE
\* constraint afterwards: two reviewers who both saw the submission in
\* review cannot both open a round, even when a whole round passed between.
UniqueNeverFires ==
    \A r \in Requests :
        At(r, "revision_commit") /\ RowUnchanged(r) => ~RoundTaken(r)

\* While the business is asked for corrections, the last round is open: it
\* has something to answer, and its answer will be taken.
AwaitedRoundIsOpen ==
    sub.status = "revision_required" => revs # <<>> /\ ~revs[Len(revs)].resolved

\* What a request remembers, as far as rounds depend on it: a round that is
\* not ahead of the row, a status its handler let pass, and, once a
\* resubmission has picked an open request, that it is the last one unless
\* the row has moved on.
RequestSound(q) ==
    /\ q.round <= sub.round
    /\ q.pc = "status_write" => q.target \in Settable
    /\ q.pc = "revision_commit" => q.status \in RevisionFrom
    /\ q.pc = "resubmit_commit" =>
          /\ q.status = "revision_required"
          /\ q.pending \in DOMAIN revs
          /\ sub.status = q.status /\ sub.round = q.round => q.pending = Len(revs)

\* The inductive invariant behind the properties of rounds: the numbering of
\* the request rows, with what every request in flight still remembers.
RoundsInv ==
    /\ TypeOK
    /\ RoundsNumbered
    /\ AwaitedRoundIsOpen
    /\ \A r \in Requests : RequestSound(req[r])

\* A resubmission closes the round the CB is waiting for, never an earlier
\* one that was left open, and hands the submission back to review.
ResubmitClosesCurrentRound ==
    [][\A i \in DOMAIN revs :
          ~revs[i].resolved /\ revs'[i].resolved =>
             /\ i = Len(revs)
             /\ sub.status = "revision_required"
             /\ sub'.status = "reviewing"]_vars

\* Two clicks on "resubmit", or a retry without an Idempotency-Key, are
\* audited and announced to the CB at most once per round.
ResubmittedOnce == IsInjective(resubmitLog)

\* C1: documents of an approved or rejected submission are never swapped,
\* not by a replacement or resubmission that began before the decision.
TerminalPacketFrozen ==
    [][sub'.docs # sub.docs => sub.status \notin Terminal]_vars

\* A replacement writes back the packet as it is, so two members replacing
\* two documents at the same time do not undo each other.
LockedReadIsCurrent ==
    \A r \in Requests :
        At(r, "replace_write") => req[r].docs = sub.docs /\ req[r].status = sub.status

\* W3-M15: of several approvals of one submission that overlap, one stamps
\* the documents and records the review; the others change nothing.
ApprovedOnce ==
    [][sub.status = "approved" => cbApproved' = cbApproved /\ reviews' = reviews]_vars

\* W3-M11: an approved submission has an evaluation, whoever saved it and
\* however often the auditor was changed since.
ApprovedWasEvaluated ==
    sub.status = "approved" => \E u \in Users : evals[u] # "none"

\* Every call ends: no handler waits for ever for the row lock of another.
EveryCallEnds ==
    \A r \in Requests : req[r].pc # "idle" ~> req[r].pc = "idle"

\* The handlers implement the rounds the service promises.
Answers == [i \in DOMAIN revs |-> IF revs[i].resolved THEN "resolved" ELSE "open"]

Rounds == INSTANCE RevisionRounds WITH
    rounds <- Answers, awaiting <- sub.status = "revision_required"

ImplementsRevisionRounds == Rounds!Spec

-----------------------------------------------------------------------------
(* What comments and docs of the code say and its handlers do not keep *)

\* submission_router.py: "rejected & approved are terminal".
TerminalIsFinal ==
    [][sub.status \in Terminal => sub'.status = sub.status]_vars

\* submission_router.py: "only 'reviewing' can transition to 'approved'".
ApprovedFromReviewing ==
    [][sub'.status = "approved" /\ sub.status # "approved"
          => sub.status = "reviewing"]_vars

\* submission_router.py: "Never auto-promote from terminal
\* (approved/rejected), revision_required, or returned".
NeverAutoPromoted ==
    [][\A r \in Requests :
          EvaluationPromote(r) => sub.status \in {"assigned", "pending", "reviewing"}]_vars

\* submission_revisions.py: history is read from "this immutable round
\* snapshot": the row of a round holds the packet the CB sent back.
SnapshotIsThePacket ==
    [][Len(revs') > Len(revs) => revs'[Len(revs')].docs = sub.docs]_vars

\* submission_router.py: "Replacement uploads update only the current
\* document pointer", and submission_revisions.py: "Browser replacement
\* updates the current pointer before explicit resubmit": a resubmission
\* that sends no documents leaves the packet to the replacements before it.
ReplacementSurvives ==
    [][\A r \in Requests :
          At(r, "resubmit_commit") /\ ResubmitWrite(r, NoDocs)
             => sub'.docs = sub.docs]_vars

\* submission_router.py: "Promote all documents + mark as CB-approved".
ApprovedPacketStamped ==
    sub.status = "approved" => Range(sub.docs) \subseteq cbApproved

\* submission_requirements.py: "Required evidence coverage is a
\* prerequisite for sending a bound dossier".
RequiredEvidenceSent ==
    sub.status = "reviewing" => Required \subseteq Types(sub.docs)
=============================================================================
