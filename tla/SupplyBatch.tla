----------------------------- MODULE SupplyBatch -----------------------------
(***************************************************************************)
(* One production batch of the supply chain: its row, its steps, and the   *)
(* seal that freezes both for the public trace (supply_chain/              *)
(* batch_router.py).  No handler opens a transaction, so each statement    *)
(* commits by itself and the handlers of different users interleave        *)
(* between any two of them.                                                *)
(*                                                                         *)
(* SHA-256 is taken to be injective: a hash is the value hashed.  Of the   *)
(* seal's content the model keeps what handlers of the batch can change.   *)
(***************************************************************************)
EXTENDS Naturals, FiniteSets

CONSTANTS
    Requests,      \* requests in flight at the same time
    Owner,         \* the owner of the business
    Members,       \* its other accounts with the permissions asked for
    N,             \* number of steps, copied from the process template
    Products,      \* product names
    Notes,         \* what a step records: performer, notes, checklist
    Complete,      \* records whose checklist is complete
    NeedPhoto,     \* records whose checklist asks for photo evidence
    NoUser, NoHash, NoSeal, NoStatus

ASSUME BatchAssumption ==
    /\ N \in Nat
    /\ Owner \notin Members
    /\ NoUser \notin Members \cup {Owner}

VARIABLES
    batch,    \* the production_batches row
    steps,    \* the batch_steps rows
    req       \* what each request in flight has read so far

vars == <<batch, steps, req>>

Users == Members \cup {Owner}
StepIds == 1 .. N

Statuses == {"draft", "in_progress", "completed", "rejected"}

BatchTransitions ==
    [ draft       |-> {"in_progress", "rejected"},
      in_progress |-> {"completed", "rejected"},
      completed   |-> {},
      rejected    |-> {} ]

ValidBatchTransition(from, to) == from = to \/ to \in BatchTransitions[from]

\* The column is free text: of what else it may hold, two values stand for all.
StepStatuses == {"pending", "in_progress", "completed"}

-----------------------------------------------------------------------------
(* The shape of the state *)

SealedStep == [status: StepStatuses, notes: Notes, photo: BOOLEAN, approved: BOOLEAN]
Seal == [by: Users, status: Statuses, product: Products, score: 0 .. N,
         steps: [StepIds -> SealedStep \cup {NoHash}]]

Batch == [exists: BOOLEAN, status: Statuses, product: Products, score: 0 .. N,
          assigned: Users \cup {NoUser}, seal: Seal \cup {NoSeal}]
Step == [status: StepStatuses, notes: Notes, photo: BOOLEAN, approved: BOOLEAN,
         hash: SealedStep \cup {NoHash}]

Pcs == {"idle", "update_read", "update_write", "delete_write", "assign_write",
        "step_write", "step_count", "score_write", "approve_read",
        "approve_write", "photo_write", "seal_read", "seal_hash"}

\* draft is the seal a request is building, and step then counts the steps
\* whose hash it has stored.
Request == [pc: Pcs, target: Statuses \cup {NoStatus}, step: 0 .. N,
            count: 0 .. N, draft: Seal \cup {NoSeal}]

Idle == [pc |-> "idle", target |-> NoStatus, step |-> 0, count |-> 0, draft |-> NoSeal]

TypeOK ==
    /\ batch \in Batch
    /\ steps \in [StepIds -> Step]
    /\ req \in [Requests -> Request]

\* create_batch inserts the row and one pending step per node of the process,
\* with the items of the node's checklist unchecked and none asking for a photo.
Init ==
    /\ \E p \in Products :
          batch = [exists |-> TRUE, status |-> "draft", product |-> p, score |-> 0,
                   assigned |-> NoUser, seal |-> NoSeal]
    /\ \E n \in [StepIds -> Notes \ NeedPhoto] :
          steps = [i \in StepIds |-> [status |-> "pending", notes |-> n[i],
                                      photo |-> FALSE, approved |-> FALSE,
                                      hash |-> NoHash]]
    /\ req = [r \in Requests |-> Idle]

-----------------------------------------------------------------------------
(* Helpers of the handlers *)

At(r, pc) == req[r].pc = pc
Go(r, pc) == req' = [req EXCEPT ![r].pc = pc]
Finish(r) == req' = [req EXCEPT ![r] = Idle]

\* An UPDATE of a row that is gone changes nothing.
UpdateRow(row) == batch' = IF batch.exists THEN row ELSE batch
UpdateStep(i, row) == steps' = IF batch.exists THEN [steps EXCEPT ![i] = row] ELSE steps

\* Mutant: the seal is not looked at.
RowExists == batch.exists

\* assert_batch_mutable, and the same test in approve_step and the upload
Mutable == batch.exists /\ batch.seal = NoSeal

\* The owner, or the member the batch is assigned to.
InCharge(u) == u = Owner \/ batch.assigned = u

SealView(s) == [status |-> s.status, notes |-> s.notes, photo |-> s.photo,
                approved |-> s.approved]

\* Mutant: unconfirmed steps are only counted.
ReadyUnapproved(view) ==
    \A i \in StepIds :
        /\ view[i].status = "completed"
        /\ view[i].notes \in Complete
        /\ view[i].notes \in NeedPhoto => view[i].photo

\* No readiness_errors among the steps.
Ready(view) ==
    \A i \in StepIds :
        /\ view[i].status = "completed"
        /\ view[i].approved
        /\ view[i].notes \in Complete
        /\ view[i].notes \in NeedPhoto => view[i].photo

-----------------------------------------------------------------------------
(* PUT /batches/{bid} *)

UpdateCheck(r) ==
    /\ At(r, "idle")
    /\ Mutable
    /\ Go(r, "update_read") \/ Go(r, "update_write")   \* with or without a status
    /\ UNCHANGED <<batch, steps>>

UpdateRead(r) ==
    /\ At(r, "update_read")
    /\ \/ /\ batch.exists
          /\ \E to \in Statuses :
                /\ ValidBatchTransition(batch.status, to)
                /\ req' = [req EXCEPT ![r].target = to, ![r].pc = "update_write"]
       \/ Finish(r)                                    \* not found, or 409
    /\ UNCHANGED <<batch, steps>>

NewStatus(r) == IF req[r].target = NoStatus THEN batch.status ELSE req[r].target

UpdateWrite(r) ==
    /\ At(r, "update_write")
    /\ \E p \in Products :
          UpdateRow([batch EXCEPT !.product = p, !.status = NewStatus(r)])
    /\ Finish(r)
    /\ UNCHANGED steps

(* DELETE /batches/{bid}: the steps go with the row *)

DeleteCheck(r) ==
    /\ At(r, "idle")
    /\ Mutable
    /\ Go(r, "delete_write")
    /\ UNCHANGED <<batch, steps>>

DeleteWrite(r) ==
    /\ At(r, "delete_write")
    /\ batch' = [batch EXCEPT !.exists = FALSE]
    /\ Finish(r)
    /\ UNCHANGED steps

(* PUT /batches/{bid}/assign-member *)

AssignCheck(r) ==
    /\ At(r, "idle")
    /\ Mutable
    /\ Go(r, "assign_write")
    /\ UNCHANGED <<batch, steps>>

AssignWrite(r) ==
    /\ At(r, "assign_write")
    /\ \E u \in Users : UpdateRow([batch EXCEPT !.assigned = u])
    /\ Finish(r)
    /\ UNCHANGED steps

(* PUT /batches/{bid}/steps/{step_id}: then the score, counted and stored *)

StepCheck(r) ==
    /\ At(r, "idle")
    /\ Mutable
    /\ \E i \in StepIds : req' = [req EXCEPT ![r].step = i, ![r].pc = "step_write"]
    /\ UNCHANGED <<batch, steps>>

StepWrite(r) ==
    /\ At(r, "step_write")
    /\ \E st \in StepStatuses, n \in Notes :
          UpdateStep(req[r].step, [steps[req[r].step] EXCEPT !.status = st, !.notes = n])
    /\ Go(r, "step_count")
    /\ UNCHANGED batch

Done == Cardinality({i \in StepIds : steps[i].status = "completed"})

StepCount(r) ==
    /\ At(r, "step_count")
    /\ req' = [req EXCEPT ![r].count = Done, ![r].pc = "score_write"]
    /\ UNCHANGED <<batch, steps>>

ScoreWrite(r) ==
    /\ At(r, "score_write")
    /\ UpdateRow([batch EXCEPT !.score = req[r].count])
    /\ Finish(r)
    /\ UNCHANGED steps

(* POST /batches/{bid}/steps/{step_id}/approve *)

ApproveStepCheck(r) ==
    /\ At(r, "idle")
    /\ Mutable
    /\ \E u \in Users : InCharge(u)
    /\ \E i \in StepIds : req' = [req EXCEPT ![r].step = i, ![r].pc = "approve_read"]
    /\ UNCHANGED <<batch, steps>>

ApproveStepRead(r) ==
    /\ At(r, "approve_read")
    /\ IF batch.exists /\ steps[req[r].step].status = "completed"
       THEN Go(r, "approve_write")
       ELSE Finish(r)
    /\ UNCHANGED <<batch, steps>>

ApproveStepWrite(r) ==
    /\ At(r, "approve_write")
    /\ UpdateStep(req[r].step, [steps[req[r].step] EXCEPT !.approved = TRUE])
    /\ Finish(r)
    /\ UNCHANGED batch

(* POST /batches/{bid}/steps/{step_id}/photo: the file is received between
   the check and the UPDATE *)

PhotoCheck(r) ==
    /\ At(r, "idle")
    /\ Mutable
    /\ \E i \in StepIds : req' = [req EXCEPT ![r].step = i, ![r].pc = "photo_write"]
    /\ UNCHANGED <<batch, steps>>

PhotoWrite(r) ==
    /\ At(r, "photo_write")
    /\ UpdateStep(req[r].step, [steps[req[r].step] EXCEPT !.photo = TRUE])
    /\ Finish(r)
    /\ UNCHANGED batch

(* POST /batches/{bid}/approve: the row, then the steps, are read; each
   step's hash is stored, and last the seal, whatever happened meanwhile *)

SealCheck(r) ==
    /\ At(r, "idle")
    /\ Mutable
    /\ batch.status = "completed"
    /\ \E u \in Users :
          /\ InCharge(u)
          /\ req' = [req EXCEPT ![r].pc = "seal_read",
                ![r].draft = [by |-> u, status |-> batch.status,
                              product |-> batch.product, score |-> batch.score,
                              steps |-> [i \in StepIds |-> NoHash]]]
    /\ UNCHANGED <<batch, steps>>

SealRead(r) ==
    /\ At(r, "seal_read")
    /\ LET view == [i \in StepIds |-> SealView(steps[i])] IN
       \/ /\ batch.exists /\ Ready(view)
          /\ req' = [req EXCEPT ![r].draft.steps = view, ![r].pc = "seal_hash"]
       \/ Finish(r)              \* not ready, or a supplier is not eligible
    /\ UNCHANGED <<batch, steps>>

SealHash(r) ==
    /\ At(r, "seal_hash")
    /\ req[r].step < N
    /\ LET i == req[r].step + 1 IN
          /\ UpdateStep(i, [steps[i] EXCEPT !.hash = req[r].draft.steps[i]])
          /\ req' = [req EXCEPT ![r].step = i]
    /\ UNCHANGED batch

SealWrite(r) ==
    /\ At(r, "seal_hash")
    /\ req[r].step = N
    /\ UpdateRow([batch EXCEPT !.seal = req[r].draft])
    /\ Finish(r)
    /\ UNCHANGED steps

(* A worker dies between two statements. *)

Crash(r) ==
    /\ ~At(r, "idle")
    /\ Finish(r)
    /\ UNCHANGED <<batch, steps>>

-----------------------------------------------------------------------------

Begin(r) ==
    \/ UpdateCheck(r) \/ DeleteCheck(r) \/ AssignCheck(r) \/ StepCheck(r)
    \/ ApproveStepCheck(r) \/ PhotoCheck(r) \/ SealCheck(r)

Continue(r) ==
    \/ UpdateRead(r) \/ UpdateWrite(r)
    \/ DeleteWrite(r)
    \/ AssignWrite(r)
    \/ StepWrite(r) \/ StepCount(r) \/ ScoreWrite(r)
    \/ ApproveStepRead(r) \/ ApproveStepWrite(r)
    \/ PhotoWrite(r)
    \/ SealRead(r) \/ SealHash(r) \/ SealWrite(r)

Next == \E r \in Requests : Begin(r) \/ Continue(r) \/ Crash(r)

Spec == Init /\ [][Next]_vars

-----------------------------------------------------------------------------
(* What holds *)

Sealed == batch.exists /\ batch.seal # NoSeal

Vouched(view) ==
    /\ view.status = "completed"
    /\ view.approved
    /\ view.notes \in Complete
    /\ view.notes \in NeedPhoto => view.photo

\* Whatever is edited between the reads of a sealer and its writes, a seal
\* vouches only for completed, confirmed steps with their evidence, of a batch
\* that was completed, and a step's hash is never that of any other step.
SealVouches ==
    /\ batch.seal # NoSeal =>
          /\ batch.seal.status = "completed"
          /\ \A i \in StepIds : Vouched(batch.seal.steps[i])
    /\ \A i \in StepIds : steps[i].hash # NoHash => Vouched(steps[i].hash)

\* What a request remembers between its statements: a step of this batch and,
\* once a sealer has read the steps, a draft that vouches for what they were.
RequestSound(q) ==
    /\ q.pc \in {"step_write", "approve_read", "approve_write", "photo_write"} =>
          q.step \in StepIds
    /\ q.pc \in {"seal_read", "seal_hash"} =>
          q.draft \in Seal /\ q.draft.status = "completed"
    /\ q.pc = "seal_hash" => \A i \in StepIds : Vouched(q.draft.steps[i])

\* The inductive invariant behind SealVouches.
SealInv ==
    /\ TypeOK
    /\ SealVouches
    /\ \A r \in Requests : RequestSound(req[r])

\* Once a batch is sealed only calls already past their check can still
\* change it or its steps; no later one gets beyond that check.
SealClosesBatch ==
    [][Sealed => \A r \in Requests : At(r, "idle") => req'[r].pc = "idle"]_vars

-----------------------------------------------------------------------------
(* What comments of the code say and its handlers do not keep *)

\* batch_router.py: "Seal the batch — after this, data is immutable".
SealedIsImmutable ==
    [][Sealed => batch' = batch /\ steps' = steps]_vars
=============================================================================
