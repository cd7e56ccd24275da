-------------------------- MODULE SupplyBatchProofs --------------------------
(***************************************************************************)
(* Proofs about SupplyBatch, for any number of requests, accounts, steps,  *)
(* products and step records.                                              *)
(***************************************************************************)
EXTENDS SupplyBatch, FiniteSetTheorems, TLAPS

\* The number of completed steps is a score.
LEMMA DoneIsScore == Done \in 0 .. N
<1> DEFINE D == {i \in StepIds : steps[i].status = "completed"}
<1>1. IsFiniteSet(1 .. N) /\ Cardinality(1 .. N) = N
  BY BatchAssumption, FS_Interval
<1>2. D \subseteq 1 .. N
  BY DEF StepIds
<1>3. IsFiniteSet(D) /\ Cardinality(D) <= Cardinality(1 .. N)
  BY <1>1, <1>2, FS_Subset
<1>4. Cardinality(D) \in Nat
  BY <1>3, FS_CardinalityType
<1>. QED
  BY <1>1, <1>3, <1>4, BatchAssumption DEF Done

\* What is sealed of a step is a sealed step, and vouches for it if all are ready.
LEMMA ViewVouches ==
    ASSUME steps \in [StepIds -> Step], NEW i \in StepIds
    PROVE  /\ SealView(steps[i]) \in SealedStep
           /\ LET view == [j \in StepIds |-> SealView(steps[j])] IN
              Ready(view) => Vouched(view[i])
<1>1. steps[i] \in Step
  OBVIOUS
<1>2. SealView(steps[i]) \in SealedStep
  BY <1>1 DEF Step, SealedStep, SealView
<1>. QED
  BY <1>2 DEF Ready, Vouched

\* The created batch satisfies the invariant.
LEMMA InitSealInv == Init => SealInv
<1> SUFFICES ASSUME Init PROVE SealInv
  OBVIOUS
<1>1. PICK p \in Products :
        batch = [exists |-> TRUE, status |-> "draft", product |-> p, score |-> 0,
                 assigned |-> NoUser, seal |-> NoSeal]
  BY DEF Init
<1>2. PICK n \in [StepIds -> Notes \ NeedPhoto] :
        steps = [i \in StepIds |-> [status |-> "pending", notes |-> n[i],
                                    photo |-> FALSE, approved |-> FALSE,
                                    hash |-> NoHash]]
  BY DEF Init
<1>3. batch \in Batch
  BY <1>1, BatchAssumption DEF Batch, Statuses
<1>4. steps \in [StepIds -> Step]
  BY <1>2 DEF Step, StepStatuses
<1>5. req \in [Requests -> Request] /\ \A r \in Requests : RequestSound(req[r])
  BY BatchAssumption DEF Init, Request, Idle, Pcs, RequestSound
<1>6. SealVouches
  BY <1>1, <1>2 DEF SealVouches
<1>. QED
  BY <1>3, <1>4, <1>5, <1>6 DEF SealInv, TypeOK

\* A step that only changes what one request remembers, soundly.
LEMMA RememberStep ==
    ASSUME SealInv, NEW r \in Requests, NEW q \in Request, RequestSound(q),
           req' = [req EXCEPT ![r] = q]
    PROVE  /\ req' \in [Requests -> Request]
           /\ \A s \in Requests : RequestSound(req'[s])
BY DEF SealInv, TypeOK

\* The last step of a call, and a crash, forget what was remembered.
LEMMA FinishStep ==
    ASSUME SealInv, NEW r \in Requests, Finish(r)
    PROVE  /\ req' \in [Requests -> Request]
           /\ \A s \in Requests : RequestSound(req'[s])
<1>1. Idle \in Request /\ RequestSound(Idle)
  BY BatchAssumption DEF Idle, Request, Pcs, RequestSound
<1>. QED
  BY <1>1, RememberStep DEF Finish

\* An UPDATE of the row keeps the seals sound if the row it writes is.
LEMMA RowStep ==
    ASSUME SealInv, NEW row \in Batch, UpdateRow(row), UNCHANGED steps,
           row.seal # NoSeal =>
              /\ row.seal.status = "completed"
              /\ \A i \in StepIds : Vouched(row.seal.steps[i])
    PROVE  batch' \in Batch /\ steps' \in [StepIds -> Step] /\ SealVouches'
BY DEF SealInv, TypeOK, UpdateRow, SealVouches

\* An UPDATE of a step keeps the hashes sound if the step it writes is.
LEMMA StepStep ==
    ASSUME SealInv, NEW i \in StepIds, NEW row \in Step, UpdateStep(i, row),
           UNCHANGED batch, row.hash # NoHash => Vouched(row.hash)
    PROVE  batch' \in Batch /\ steps' \in [StepIds -> Step] /\ SealVouches'
BY DEF SealInv, TypeOK, UpdateStep, SealVouches
\* Reading and checking change no row.
LEMMA NoRowStep ==
    ASSUME SealInv, UNCHANGED <<batch, steps>>
    PROVE  batch' \in Batch /\ steps' \in [StepIds -> Step] /\ SealVouches'
BY DEF SealInv, TypeOK, SealVouches

\* Every first check of a call preserves the invariant.
LEMMA BeginSealInv ==
    ASSUME SealInv, NEW r \in Requests, Begin(r)
    PROVE  SealInv'
<1>0. UNCHANGED <<batch, steps>>
  BY DEF Begin, UpdateCheck, DeleteCheck, AssignCheck, StepCheck,
         ApproveStepCheck, PhotoCheck, SealCheck
<1>1. req[r] \in Request /\ batch \in Batch
  BY DEF SealInv, TypeOK
<1>2. \E q \in Request : RequestSound(q) /\ req' = [req EXCEPT ![r] = q]
  <2>1. CASE UpdateCheck(r) \/ DeleteCheck(r) \/ AssignCheck(r)
    <3>1. PICK pc \in {"update_read", "update_write", "delete_write", "assign_write"} :
            req' = [req EXCEPT ![r].pc = pc]
      BY <2>1 DEF UpdateCheck, DeleteCheck, AssignCheck, Go
    <3>2. req' = [req EXCEPT ![r] = [req[r] EXCEPT !.pc = pc]]
      BY <3>1
    <3>. QED
      BY <1>1, <3>2 DEF Request, Pcs, RequestSound
  <2>2. CASE StepCheck(r) \/ ApproveStepCheck(r) \/ PhotoCheck(r)
    <3>1. PICK i \in StepIds, pc \in {"step_write", "approve_read", "photo_write"} :
            req' = [req EXCEPT ![r].step = i, ![r].pc = pc]
      BY <2>2 DEF StepCheck, ApproveStepCheck, PhotoCheck
    <3>2. req' = [req EXCEPT ![r] = [req[r] EXCEPT !.step = i, !.pc = pc]]
      BY <3>1
    <3>3. i \in 0 .. N
      BY BatchAssumption DEF StepIds
    <3>. QED
      BY <1>1, <3>2, <3>3 DEF Request, Pcs, RequestSound
  <2>3. CASE SealCheck(r)
    <3>1. PICK u \in Users :
            req' = [req EXCEPT ![r].pc = "seal_read",
                      ![r].draft = [by |-> u, status |-> batch.status,
                                    product |-> batch.product, score |-> batch.score,
                                    steps |-> [i \in StepIds |-> NoHash]]]
      BY <2>3 DEF SealCheck
    <3> DEFINE d == [by |-> u, status |-> batch.status,
                     product |-> batch.product, score |-> batch.score,
                     steps |-> [i \in StepIds |-> NoHash]]
               q == [req[r] EXCEPT !.pc = "seal_read", !.draft = d]
    <3>2. d \in Seal /\ d.status = "completed"
      BY <1>1, <2>3 DEF SealCheck, Seal, Batch
    <3>3. req' = [req EXCEPT ![r] = q]
      BY <3>1
    <3>4. q \in Request /\ q.pc = "seal_read" /\ q.draft = d
      BY <1>1, <3>2 DEF Request, Pcs
    <3>5. RequestSound(q)
      BY <3>2, <3>4 DEF RequestSound
    <3>. QED
      BY <3>3, <3>4, <3>5
  <2>. QED
    BY <2>1, <2>2, <2>3 DEF Begin
<1>3. req' \in [Requests -> Request] /\ \A s \in Requests : RequestSound(req'[s])
  BY <1>2, RememberStep
<1>. QED
  BY <1>0, <1>3, NoRowStep DEF SealInv, TypeOK

\* Every statement after the check preserves the invariant.
LEMMA ContinueSealInv ==
    ASSUME SealInv, NEW r \in Requests, Continue(r)
    PROVE  SealInv'
<1> DEFINE RowsSound == batch' \in Batch /\ steps' \in [StepIds -> Step] /\ SealVouches'
           RequestsSound == /\ req' \in [Requests -> Request]
                            /\ \A s \in Requests : RequestSound(req'[s])
<1>0. /\ req[r] \in Request /\ RequestSound(req[r])
      /\ batch \in Batch /\ steps \in [StepIds -> Step] /\ SealVouches
  BY DEF SealInv, TypeOK
<1>1. CASE UpdateRead(r)
  <2>1. RequestsSound
    <3>1. CASE \E to \in Statuses : req' = [req EXCEPT ![r].target = to, ![r].pc = "update_write"]
      <4>1. PICK to \in Statuses :
              req' = [req EXCEPT ![r] = [req[r] EXCEPT !.target = to, !.pc = "update_write"]]
        BY <3>1
      <4>2. /\ [req[r] EXCEPT !.target = to, !.pc = "update_write"] \in Request
            /\ RequestSound([req[r] EXCEPT !.target = to, !.pc = "update_write"])
        BY <1>0 DEF Request, Pcs, RequestSound
      <4>. QED
        BY <4>1, <4>2, RememberStep
    <3>2. CASE Finish(r)
      BY <3>2, FinishStep
    <3>. QED
      BY <1>1, <3>1, <3>2 DEF UpdateRead
  <2>. QED
    BY <1>1, <2>1, NoRowStep DEF UpdateRead, SealInv, TypeOK
<1>2. CASE UpdateWrite(r)
  <2>1. PICK p \in Products : UpdateRow([batch EXCEPT !.product = p, !.status = NewStatus(r)])
    BY <1>2 DEF UpdateWrite
  <2>2. [batch EXCEPT !.product = p, !.status = NewStatus(r)] \in Batch
    BY <1>0 DEF Batch, Request, NewStatus
  <2>3. [batch EXCEPT !.product = p, !.status = NewStatus(r)].seal = batch.seal
    BY <1>0 DEF Batch
  <2>4. RowsSound
    BY <1>0, <1>2, <2>1, <2>2, <2>3, RowStep DEF UpdateWrite, SealVouches
  <2>. QED
    BY <1>2, <2>4, FinishStep DEF UpdateWrite, SealInv, TypeOK
<1>3. CASE DeleteWrite(r)
  <2>1. RowsSound
    BY <1>0, <1>3 DEF DeleteWrite, Batch, SealVouches
  <2>. QED
    BY <1>3, <2>1, FinishStep DEF DeleteWrite, SealInv, TypeOK
<1>4. CASE AssignWrite(r)
  <2>1. PICK u \in Users : UpdateRow([batch EXCEPT !.assigned = u])
    BY <1>4 DEF AssignWrite
  <2>2. [batch EXCEPT !.assigned = u] \in Batch /\ [batch EXCEPT !.assigned = u].seal = batch.seal
    BY <1>0 DEF Batch
  <2>3. RowsSound
    BY <1>0, <1>4, <2>1, <2>2, RowStep DEF AssignWrite, SealVouches
  <2>. QED
    BY <1>4, <2>3, FinishStep DEF AssignWrite, SealInv, TypeOK
<1>5. CASE StepWrite(r)
  <2>1. PICK st \in StepStatuses, n \in Notes :
          UpdateStep(req[r].step, [steps[req[r].step] EXCEPT !.status = st, !.notes = n])
    BY <1>5 DEF StepWrite
  <2>2. req[r].step \in StepIds
    BY <1>0, <1>5 DEF StepWrite, At, RequestSound
  <2>3. /\ [steps[req[r].step] EXCEPT !.status = st, !.notes = n] \in Step
        /\ [steps[req[r].step] EXCEPT !.status = st, !.notes = n].hash = steps[req[r].step].hash
    BY <1>0, <2>2 DEF Step
  <2>4. RowsSound
    BY <1>0, <1>5, <2>1, <2>2, <2>3, StepStep DEF StepWrite, SealVouches
  <2>5. /\ [req[r] EXCEPT !.pc = "step_count"] \in Request
        /\ RequestSound([req[r] EXCEPT !.pc = "step_count"])
    BY <1>0 DEF Request, Pcs, RequestSound
  <2>6. req' = [req EXCEPT ![r] = [req[r] EXCEPT !.pc = "step_count"]]
    BY <1>5 DEF StepWrite, Go
  <2>7. RequestsSound
    BY <2>5, <2>6, RememberStep
  <2>. QED
    BY <2>4, <2>7 DEF SealInv, TypeOK
<1>6. CASE StepCount(r)
  <2>1. /\ [req[r] EXCEPT !.count = Done, !.pc = "score_write"] \in Request
        /\ RequestSound([req[r] EXCEPT !.count = Done, !.pc = "score_write"])
    BY <1>0, DoneIsScore DEF Request, Pcs, RequestSound
  <2>2. req' = [req EXCEPT ![r] = [req[r] EXCEPT !.count = Done, !.pc = "score_write"]]
    BY <1>6 DEF StepCount
  <2>3. RequestsSound
    BY <2>1, <2>2, RememberStep
  <2>. QED
    BY <1>6, <2>3, NoRowStep DEF StepCount, SealInv, TypeOK
<1>7. CASE ScoreWrite(r)
  <2>1. /\ [batch EXCEPT !.score = req[r].count] \in Batch
        /\ [batch EXCEPT !.score = req[r].count].seal = batch.seal
    BY <1>0 DEF Batch, Request
  <2>2. RowsSound
    BY <1>0, <1>7, <2>1, RowStep DEF ScoreWrite, SealVouches
  <2>. QED
    BY <1>7, <2>2, FinishStep DEF ScoreWrite, SealInv, TypeOK
<1>8. CASE ApproveStepRead(r)
  <2>1. CASE Go(r, "approve_write")
    <3>1. req[r].step \in StepIds
      BY <1>0, <1>8 DEF ApproveStepRead, At, RequestSound
    <3>2. /\ [req[r] EXCEPT !.pc = "approve_write"] \in Request
          /\ RequestSound([req[r] EXCEPT !.pc = "approve_write"])
      BY <1>0, <3>1 DEF Request, Pcs, RequestSound
    <3>3. req' = [req EXCEPT ![r] = [req[r] EXCEPT !.pc = "approve_write"]]
      BY <2>1 DEF Go
    <3>. QED
      BY <1>8, <3>2, <3>3, RememberStep, NoRowStep DEF ApproveStepRead, SealInv, TypeOK
  <2>2. CASE Finish(r)
    BY <1>8, <2>2, FinishStep, NoRowStep DEF ApproveStepRead, SealInv, TypeOK
  <2>. QED
    BY <1>8, <2>1, <2>2 DEF ApproveStepRead
<1>9. CASE ApproveStepWrite(r)
  <2>1. req[r].step \in StepIds
    BY <1>0, <1>9 DEF ApproveStepWrite, At, RequestSound
  <2>2. /\ [steps[req[r].step] EXCEPT !.approved = TRUE] \in Step
        /\ [steps[req[r].step] EXCEPT !.approved = TRUE].hash = steps[req[r].step].hash
    BY <1>0, <2>1 DEF Step
  <2>3. RowsSound
    BY <1>0, <1>9, <2>1, <2>2, StepStep DEF ApproveStepWrite, SealVouches
  <2>. QED
    BY <1>9, <2>3, FinishStep DEF ApproveStepWrite, SealInv, TypeOK
<1>10. CASE PhotoWrite(r)
  <2>1. req[r].step \in StepIds
    BY <1>0, <1>10 DEF PhotoWrite, At, RequestSound
  <2>2. /\ [steps[req[r].step] EXCEPT !.photo = TRUE] \in Step
        /\ [steps[req[r].step] EXCEPT !.photo = TRUE].hash = steps[req[r].step].hash
    BY <1>0, <2>1 DEF Step
  <2>3. RowsSound
    BY <1>0, <1>10, <2>1, <2>2, StepStep DEF PhotoWrite, SealVouches
  <2>. QED
    BY <1>10, <2>3, FinishStep DEF PhotoWrite, SealInv, TypeOK
<1>11. CASE SealRead(r)
  <2> DEFINE view == [i \in StepIds |-> SealView(steps[i])]
             d == [req[r].draft EXCEPT !.steps = view]
             q == [req[r] EXCEPT !.draft = d, !.pc = "seal_hash"]
  <2>1. CASE Ready(view) /\ req' = [req EXCEPT ![r].draft.steps = view, ![r].pc = "seal_hash"]
    <3>1. req' = [req EXCEPT ![r] = q]
      BY <2>1
    <3>2. \A i \in StepIds : view[i] \in SealedStep /\ Vouched(view[i])
      BY <1>0, <2>1, ViewVouches
    <3>3. view \in [StepIds -> SealedStep \cup {NoHash}]
      BY <3>2
    <3>4. req[r].draft \in Seal /\ req[r].draft.status = "completed"
      BY <1>0, <1>11 DEF SealRead, At, RequestSound
    <3>5. d \in Seal /\ d.status = "completed" /\ d.steps = view
      BY <3>3, <3>4 DEF Seal
    <3>6. q \in Request /\ q.pc = "seal_hash" /\ q.draft = d
      BY <1>0, <3>5 DEF Request, Pcs
    <3>7. RequestSound(q)
      BY <3>2, <3>5, <3>6 DEF RequestSound
    <3>. QED
      BY <1>11, <3>1, <3>6, <3>7, RememberStep, NoRowStep DEF SealRead, SealInv, TypeOK
  <2>2. CASE Finish(r)
    BY <1>11, <2>2, FinishStep, NoRowStep DEF SealRead, SealInv, TypeOK
  <2>. QED
    BY <1>11, <2>1, <2>2 DEF SealRead
<1>12. CASE SealHash(r)
  <2> DEFINE i == req[r].step + 1
             row == [steps[i] EXCEPT !.hash = req[r].draft.steps[i]]
  <2>1. i \in StepIds /\ i \in 0 .. N
    BY <1>0, <1>12, BatchAssumption DEF SealHash, Request, StepIds
  <2>2. req[r].draft \in Seal /\ Vouched(req[r].draft.steps[i])
    BY <1>0, <1>12, <2>1 DEF SealHash, At, RequestSound
  <2>3. row \in Step /\ row.hash = req[r].draft.steps[i]
    BY <1>0, <2>1, <2>2 DEF Step, Seal
  <2>4. UpdateStep(i, row) /\ UNCHANGED batch
    BY <1>12 DEF SealHash
  <2>5. RowsSound
    BY <2>1, <2>2, <2>3, <2>4, StepStep
  <2>6. req' = [req EXCEPT ![r] = [req[r] EXCEPT !.step = i]]
    BY <1>12 DEF SealHash
  <2>7. /\ [req[r] EXCEPT !.step = i] \in Request
        /\ RequestSound([req[r] EXCEPT !.step = i])
    BY <1>0, <2>1 DEF Request, RequestSound
  <2>8. RequestsSound
    BY <2>6, <2>7, RememberStep
  <2>. QED
    BY <2>5, <2>8 DEF SealInv, TypeOK
<1>13. CASE SealWrite(r)
  <2>1. /\ req[r].draft \in Seal /\ req[r].draft.status = "completed"
        /\ \A i \in StepIds : Vouched(req[r].draft.steps[i])
    BY <1>0, <1>13 DEF SealWrite, At, RequestSound
  <2>2. /\ [batch EXCEPT !.seal = req[r].draft] \in Batch
        /\ [batch EXCEPT !.seal = req[r].draft].seal = req[r].draft
    BY <1>0, <2>1 DEF Batch
  <2>3. RowsSound
    BY <1>13, <2>1, <2>2, RowStep DEF SealWrite
  <2>. QED
    BY <1>13, <2>3, FinishStep DEF SealWrite, SealInv, TypeOK
<1>. QED
  BY <1>1, <1>2, <1>3, <1>4, <1>5, <1>6, <1>7, <1>8, <1>9, <1>10, <1>11, <1>12, <1>13
     DEF Continue

\* The invariant is inductive.
LEMMA NextSealInv == SealInv /\ [Next]_vars => SealInv'
<1> SUFFICES ASSUME SealInv, [Next]_vars PROVE SealInv'
  OBVIOUS
<1>1. ASSUME NEW r \in Requests, Crash(r) PROVE SealInv'
  BY <1>1, FinishStep, NoRowStep DEF Crash, SealInv, TypeOK
<1>2. CASE UNCHANGED vars
  BY <1>2 DEF vars, SealInv, TypeOK, SealVouches
<1>. QED
  BY <1>1, <1>2, BeginSealInv, ContinueSealInv DEF Next

\* Rows and requests keep their types, seals and hashes vouch for what they
\* are of, and requests remember what their next statement relies on.
THEOREM SealCorrect == Spec => []SealInv
<1>. QED
  BY InitSealInv, NextSealInv, PTL DEF Spec

\* The batch, its steps and what calls remember of them keep their types, for any
\* number of steps and calls.
THEOREM BatchTyped == Spec => []TypeOK
<1>1. SealInv => TypeOK
  BY DEF SealInv
<1>. QED
  BY <1>1, SealCorrect, PTL

\* batch_router.py, approve_batch: whatever is edited between its reads and
\* its writes, a seal vouches only for completed and confirmed steps.
THEOREM SealsVouch == Spec => []SealVouches
<1>1. SealInv => SealVouches
  BY DEF SealInv
<1>. QED
  BY <1>1, SealCorrect, PTL

\* batch_router.py, assert_batch_mutable: no call begun after the seal gets
\* past its check.
THEOREM SealsClose == Spec => SealClosesBatch
<1>1. SealInv /\ [Next]_vars =>
        [Sealed => \A r \in Requests : At(r, "idle") => req'[r].pc = "idle"]_vars
  <2> SUFFICES ASSUME SealInv, [Next]_vars, Sealed, NEW r \in Requests, At(r, "idle")
               PROVE  req'[r].pc = "idle"
    OBVIOUS
  <2>1. ASSUME NEW s \in Requests, Begin(s) PROVE FALSE
    BY <2>1 DEF Begin, UpdateCheck, DeleteCheck, AssignCheck, StepCheck,
         ApproveStepCheck, PhotoCheck, SealCheck, Mutable, Sealed
  <2>2. ASSUME NEW s \in Requests, Continue(s) \/ Crash(s) PROVE req'[r].pc = "idle"
    <3>1. s # r
      BY <2>2 DEF Continue, Crash, At, UpdateRead, UpdateWrite, DeleteWrite,
           AssignWrite, StepWrite, StepCount, ScoreWrite, ApproveStepRead,
           ApproveStepWrite, PhotoWrite, SealRead, SealHash, SealWrite
    <3>2. \E q : req' = [req EXCEPT ![s] = q]
      BY <2>2 DEF Continue, Crash, Go, Finish, UpdateRead, UpdateWrite, DeleteWrite,
           AssignWrite, StepWrite, StepCount, ScoreWrite, ApproveStepRead,
           ApproveStepWrite, PhotoWrite, SealRead, SealHash, SealWrite
    <3>. QED
      BY <3>1, <3>2 DEF At, SealInv, TypeOK
  <2>3. CASE UNCHANGED vars
    BY <2>3 DEF vars, At
  <2>. QED
    BY <2>1, <2>2, <2>3 DEF Next
<1>. QED
  BY <1>1, SealCorrect, PTL DEF Spec, SealClosesBatch
=============================================================================
