---------------------- MODULE SubmissionWorkflowProofs ----------------------
(* Proofs about SubmissionWorkflow, for any number of requests, auditors,
   documents and rounds: the rounds of a submission first, then its packet. *)
EXTENDS SubmissionWorkflow, SequenceTheorems, TLAPS

LEMMA IdleIsARequest == Idle \in Request
  BY DEF Idle, Request, Steps, Users, Statuses

LEMMA InitTypeOK == Init => TypeOK
<1> SUFFICES ASSUME Init PROVE TypeOK
  OBVIOUS
<1>1. sub \in Submission
  BY ConstantsAssumption DEF Init, Submission, Statuses
<1>2. req \in [Requests -> Request]
  BY IdleIsARequest DEF Init
<1>3. QED
  BY <1>1, <1>2 DEF Init, TypeOK, Revision, Review

\* Every way a step writes the record of a request keeps it well typed.
LEMMA RequestTyped ==
  ASSUME TypeOK, NEW r \in Requests
  PROVE  /\ Finish(r) => req' \in [Requests -> Request]
         /\ \A step \in Steps : Go(r, step) => req' \in [Requests -> Request]
         /\ \A u \in Users, step \in Steps :
                Read(r, u, step) => req' \in [Requests -> Request]
<1> USE DEF TypeOK
<1>1. Finish(r) => req' \in [Requests -> Request]
  BY IdleIsARequest DEF Finish
<1>2. ASSUME NEW step \in Steps, Go(r, step)
      PROVE  req' \in [Requests -> Request]
  BY <1>2 DEF Go, Request
<1>3. ASSUME NEW u \in Users, NEW step \in Steps, Read(r, u, step)
      PROVE  req' \in [Requests -> Request]
  BY <1>3, IdleIsARequest DEF Read, Request, Submission
<1>4. QED
  BY <1>1, <1>2, <1>3

\* A record begun from Idle by a handler's first step.
LEMMA IdleWith ==
  ASSUME NEW u \in Users, NEW t \in Statuses, NEW step \in Steps
  PROVE  /\ [Idle EXCEPT !.pc = step, !.who = u] \in Request
         /\ [Idle EXCEPT !.pc = step, !.who = u, !.target = t] \in Request
  BY IdleIsARequest DEF Request

\* The row keeps its type whichever columns an UPDATE sets.
LEMMA RowWith ==
  ASSUME TypeOK, NEW s \in Statuses, NEW n \in Nat, NEW p \in Seq(Docs)
  PROVE  /\ [sub EXCEPT !.status = s, !.round = n] \in Submission
         /\ [sub EXCEPT !.status = s, !.docs = p] \in Submission
         /\ [sub EXCEPT !.docs = p] \in Submission
  BY DEF TypeOK, Submission

\* Writing one place of a packet, or none when the place does not exist.
LEMMA PacketExcept ==
  ASSUME NEW p \in Seq(Docs), NEW i, NEW d \in Docs
  PROVE  [p EXCEPT ![i] = d] \in Seq(Docs)
<1>1. CASE i \in 1 .. Len(p)
  BY <1>1, ExceptSeq
<1>2. CASE i \notin 1 .. Len(p)
  <2>1. DOMAIN p = 1 .. Len(p) /\ p = [j \in DOMAIN p |-> p[j]]
    BY LenProperties
  <2>2. [p EXCEPT ![i] = d] = p
    BY <1>2, <2>1
  <2>3. QED
    BY <2>2
<1>3. QED
  BY <1>1, <1>2

LEMMA RevisionResolved ==
  ASSUME TypeOK, NEW i \in DOMAIN revs
  PROVE  /\ [revs EXCEPT ![i].resolved = TRUE] \in Seq(Revision)
         /\ Len([revs EXCEPT ![i].resolved = TRUE]) = Len(revs)
         /\ \A j \in DOMAIN revs :
               [revs EXCEPT ![i].resolved = TRUE][j]
                 = IF j = i THEN [revs[i] EXCEPT !.resolved = TRUE] ELSE revs[j]
<1>1. DOMAIN revs = 1 .. Len(revs) /\ revs \in Seq(Revision)
  BY LenProperties DEF TypeOK
<1>2. [revs[i] EXCEPT !.resolved = TRUE] \in Revision
  <2>1. revs[i] \in Revision
    BY <1>1
  <2>2. QED
    BY <2>1 DEF Revision
<1> DEFINE resolved == [revs[i] EXCEPT !.resolved = TRUE]
<1>3. [revs EXCEPT ![i].resolved = TRUE] = [revs EXCEPT ![i] = resolved]
  OBVIOUS
<1>4. QED
  BY <1>1, <1>2, <1>3, ExceptSeq

LEMMA TypeOKStep == TypeOK /\ [Next]_vars => TypeOK'
<1> SUFFICES ASSUME TypeOK, [Next]_vars PROVE TypeOK'
  OBVIOUS
<1>1. ASSUME NEW a \in Auditors, AssignAuditor(a) PROVE TypeOK'
  BY <1>1 DEF AssignAuditor, TypeOK, Submission, Statuses
<1>2. ASSUME NEW r \in Requests, Begin(r) PROVE TypeOK'
  <2>1. UNCHANGED <<sub, revs, evals, cbApproved, reviews, resubmitLog>>
    BY <1>2 DEF Begin, StatusRead, EvaluationCheck, RevisionCheck, ResubmitRead,
       ApproveRead, ReplaceLock, FinalizeRead
  <2>2. lock' \in Requests \cup {NoRequest}
    BY <1>2 DEF Begin, StatusRead, EvaluationCheck, RevisionCheck, ResubmitRead,
       ApproveRead, ReplaceLock, FinalizeRead, TypeOK
  <2>3. req' \in [Requests -> Request]
    <3>1. CASE StatusRead(r)
      <4>1. \A u \in Users, to \in Settable :
              [Idle EXCEPT !.pc = "status_write", !.who = u, !.target = to] \in Request
        BY IdleWith DEF Settable, Steps, Statuses
      <4>2. QED
        BY <3>1, <4>1 DEF StatusRead, TypeOK
    <3>2. CASE EvaluationCheck(r)
      BY <3>2, IdleWith DEF EvaluationCheck, TypeOK, Steps, Statuses
    <3>3. CASE RevisionCheck(r)
      BY <3>3, IdleWith DEF RevisionCheck, TypeOK, Steps, Statuses
    <3>4. CASE ResubmitRead(r)
      BY <3>4, RequestTyped DEF ResubmitRead, Steps, Users
    <3>5. CASE ApproveRead(r)
      BY <3>5, RequestTyped DEF ApproveRead, Steps
    <3>6. CASE ReplaceLock(r)
      BY <3>6, RequestTyped DEF ReplaceLock, Steps, Users
    <3>7. CASE FinalizeRead(r)
      BY <3>7, RequestTyped DEF FinalizeRead, Steps, Users
    <3>8. QED
      BY <1>2, <3>1, <3>2, <3>3, <3>4, <3>5, <3>6, <3>7 DEF Begin
  <2>4. QED
    BY <2>1, <2>2, <2>3 DEF TypeOK
<1>3. ASSUME NEW r \in Requests, Continue(r) PROVE TypeOK'
  <2> USE RequestTyped
  <2>1. CASE StatusWrite(r)
    BY <2>1 DEF StatusWrite, TypeOK, Submission, Request
  <2>2. CASE EvaluationSave(r)
    BY <2>2 DEF EvaluationSave, TypeOK, Steps
  <2>3. CASE EvaluationRead(r)
    BY <2>3 DEF EvaluationRead, TypeOK, Steps
  <2>4. CASE EvaluationPromote(r)
    BY <2>4 DEF EvaluationPromote, TypeOK, Submission, Statuses
  <2>5. CASE RevisionRead(r)
    BY <2>5 DEF RevisionRead, TypeOK, Steps, Request
  <2>6. CASE RevisionCommit(r)
    <3>1. sub' \in Submission
      <4>1. NewRound(r) \in Nat /\ "revision_required" \in Statuses /\ <<>> \in Seq(Docs)
        BY DEF NewRound, TypeOK, Request, Statuses
      <4>2. QED
        <5>1. [sub EXCEPT !.status = "revision_required", !.round = NewRound(r)] \in Submission
          BY <4>1, RowWith
        <5>2. QED
          BY <2>6, <5>1 DEF RevisionCommit, TypeOK
    <3>2. revs' \in Seq(Revision)
      <4>1. [round |-> NewRound(r), docs |-> req[r].docs, resolved |-> FALSE] \in Revision
        BY DEF NewRound, TypeOK, Revision, Request
      <4>2. QED
        <5>1. Append(revs, [round |-> NewRound(r), docs |-> req[r].docs, resolved |-> FALSE])
                \in Seq(Revision)
          BY <4>1, AppendProperties DEF TypeOK
        <5>2. QED
          BY <2>6, <5>1 DEF RevisionCommit, TypeOK
    <3>3. QED
      BY <2>6, <3>1, <3>2 DEF RevisionCommit, TypeOK
  <2>7. CASE ResubmitPending(r)
    <3>1. req' \in [Requests -> Request]
      <4>1. ASSUME NEW i \in Unresolved
            PROVE  [req EXCEPT ![r].pending = i, ![r].pc = "resubmit_commit"]
                     \in [Requests -> Request]
        <5>1. i \in Nat
          BY LenProperties DEF Unresolved, TypeOK
        <5>2. QED
          BY <5>1 DEF TypeOK, Request, Steps
      <4>2. QED
        BY <2>7, <4>1 DEF ResubmitPending
    <3>2. QED
      BY <2>7, <3>1 DEF ResubmitPending, TypeOK
  <2>8. CASE ResubmitCommit(r)
    <3>1. \A sent \in Packets \cup {NoDocs} : Evidence(r, sent) \in Seq(Docs)
      BY ConstantsAssumption DEF Evidence, TypeOK, Request
    <3>2. sub' \in Submission
      <4>1. \A sent \in Packets \cup {NoDocs} :
              [sub EXCEPT !.status = "reviewing", !.docs = Evidence(r, sent)] \in Submission
        <5>1. "reviewing" \in Statuses /\ 0 \in Nat
          BY DEF Statuses
        <5>2. QED
          BY <3>1, <5>1, RowWith
      <4>2. QED
        BY <2>8, <4>1 DEF ResubmitCommit, ResubmitWrite, TypeOK
    <3>3. revs' \in Seq(Revision)
      <4>1. \A i \in DOMAIN revs :
              [revs EXCEPT ![i].resolved = TRUE] \in Seq(Revision)
        BY RevisionResolved
      <4>2. QED
        BY <2>8, <4>1 DEF ResubmitCommit, ResubmitWrite, ResubmitCommits, Unresolved, TypeOK
    <3>4. resubmitLog' \in Seq(Nat)
      <4>1. Append(resubmitLog, req[r].round) \in Seq(Nat)
        BY AppendProperties DEF TypeOK, Request
      <4>2. QED
        BY <2>8, <4>1 DEF ResubmitCommit, ResubmitWrite, TypeOK
    <3>5. req' \in [Requests -> Request]
      BY <2>8 DEF ResubmitCommit, Steps
    <3>6. QED
      BY <2>8, <3>2, <3>3, <3>4, <3>5 DEF ResubmitCommit, ResubmitWrite, TypeOK
  <2>9. CASE ResubmitAnnounce(r)
    BY <2>9 DEF ResubmitAnnounce, TypeOK, Request
  <2>10. CASE ApproveEval(r)
    BY <2>10 DEF ApproveEval, TypeOK, Steps
  <2>11. CASE ApproveCommit(r)
    <3>1. Range(req[r].docs) \subseteq Docs
      BY DEF Range, TypeOK, Request
    <3>2. [round |-> req[r].round + 1, docs |-> req[r].docs] \in Review
      BY DEF TypeOK, Request, Review
    <3>3. sub' \in Submission
      BY <2>11 DEF ApproveCommit, TypeOK, Submission, Statuses
    <3>4. cbApproved' \in SUBSET Docs /\ reviews' \in SUBSET Review
      BY <2>11, <3>1, <3>2 DEF ApproveCommit, TypeOK
    <3>5. QED
      BY <2>11, <3>3, <3>4 DEF ApproveCommit, TypeOK
  <2>12. CASE ReplaceWrite(r)
    <3>1. \A i, new : new \in Docs => [req[r].docs EXCEPT ![i] = new] \in Seq(Docs)
      BY PacketExcept DEF TypeOK, Request
    <3>2. sub' \in Submission
      BY <2>12, <3>1, RowWith DEF ReplaceWrite, TypeOK, Statuses
    <3>3. QED
      BY <2>12, <3>2 DEF ReplaceWrite, TypeOK
  <2>13. CASE FinalizeWrite(r)
    BY <2>13 DEF FinalizeWrite, TypeOK, Submission
  <2>14. QED
    BY <1>3, <2>1, <2>2, <2>3, <2>4, <2>5, <2>6, <2>7, <2>8, <2>9, <2>10,
       <2>11, <2>12, <2>13 DEF Continue
<1>4. ASSUME NEW r \in Requests, Crash(r) PROVE TypeOK'
  BY <1>4, RequestTyped DEF Crash, TypeOK
<1>5. CASE UNCHANGED vars
  BY <1>5 DEF vars, TypeOK
<1>6. QED
  BY <1>1, <1>2, <1>3, <1>4, <1>5 DEF Next

\* Whatever the handlers do, the row, the revision requests, the evaluations
\* and what each request remembers keep their types.
THEOREM TypeCorrect == Spec => []TypeOK
<1>1. QED
  BY InitTypeOK, TypeOKStep, PTL DEF Spec

-----------------------------------------------------------------------------
(* Correction rounds.  Only a committed revision request and a committed
   resubmission touch the request rows; every other step leaves them and the
   round alone and never moves the row into revision_required. *)

Quiet ==
    /\ revs' = revs
    /\ sub'.round = sub.round
    /\ sub'.status = "revision_required" => sub.status = "revision_required"

LEMMA QuietKeepsRows ==
  ASSUME RoundsInv, Quiet
  PROVE  RoundsNumbered' /\ AwaitedRoundIsOpen'
  BY DEF RoundsInv, Quiet, RoundsNumbered, AwaitedRoundIsOpen

LEMMA QuietKeepsSound ==
  ASSUME Quiet, NEW q, RequestSound(q)
  PROVE  RequestSound(q)'
  BY DEF Quiet, RequestSound

LEMMA IdleSound == TypeOK => RequestSound(Idle)
  BY DEF TypeOK, Submission, RequestSound, Idle

\* A quiet step that replaces the record of r by a sound one keeps RoundsInv.
LEMMA QuietStep ==
  ASSUME RoundsInv, TypeOK', Quiet, NEW r \in Requests, NEW q,
         req' = [req EXCEPT ![r] = q], RequestSound(q)
  PROVE  RoundsInv'
<1>1. RoundsNumbered' /\ AwaitedRoundIsOpen'
  BY QuietKeepsRows
<1>2. ASSUME NEW p \in Requests PROVE RequestSound(req[p])'
  <2>1. RequestSound(req[p]) /\ RequestSound(q)
    BY DEF RoundsInv
  <2>2. req'[p] = req[p] \/ req'[p] = q
    BY DEF RoundsInv, TypeOK
  <2>3. QED
    BY <2>1, <2>2 DEF Quiet, RequestSound
<1>3. QED
  BY <1>1, <1>2 DEF RoundsInv

\* Steps that remember more than what the row was.
Guarded == {"status_write", "revision_commit", "resubmit_commit"}

LEMMA GoSound ==
  ASSUME RoundsInv, NEW r \in Requests,
         NEW step \in Steps \ Guarded
  PROVE  RequestSound([req[r] EXCEPT !.pc = step])
  BY DEF RoundsInv, TypeOK, Request, RequestSound, Guarded

LEMMA ReadSound ==
  ASSUME TypeOK, NEW u, NEW step \in Steps \ Guarded
  PROVE  RequestSound([Idle EXCEPT !.pc = step, !.who = u, !.status = sub.status,
                                   !.round = sub.round, !.docs = sub.docs])
  BY DEF TypeOK, Submission, Idle, RequestSound, Guarded

LEMMA CheckSound ==
  ASSUME TypeOK, NEW u, NEW step \in Steps \ Guarded
  PROVE  RequestSound([Idle EXCEPT !.pc = step, !.who = u])
  BY DEF TypeOK, Submission, Idle, RequestSound, Guarded

\* A revision request that commits opens the next round.
LEMMA RevisionOpens ==
  ASSUME RoundsInv, TypeOK', NEW r \in Requests, RowUnchanged(r),
         sub' = [sub EXCEPT !.status = "revision_required", !.round = NewRound(r)],
         revs' = Append(revs, [round |-> NewRound(r), docs |-> req[r].docs,
                               resolved |-> FALSE]),
         Finish(r)
  PROVE  RoundsInv'
<1> DEFINE row == [round |-> NewRound(r), docs |-> req[r].docs, resolved |-> FALSE]
<1>1. /\ sub'.round = sub.round + 1 /\ sub.round \in Nat
      /\ sub'.status = "revision_required"
      /\ row.round = sub.round + 1 /\ ~row.resolved
      /\ row \in Revision
  BY DEF RoundsInv, TypeOK, Submission, Request, Revision, RowUnchanged, NewRound
<1>2. /\ Len(revs) = sub.round /\ DOMAIN revs = 1 .. Len(revs)
      /\ Len(revs') = Len(revs) + 1 /\ DOMAIN revs' = 1 .. Len(revs')
      /\ \A i \in 1 .. Len(revs) : revs'[i] = revs[i]
      /\ revs'[Len(revs) + 1] = row
  <2>1. revs \in Seq(Revision) /\ revs' \in Seq(Revision) /\ Len(revs) = sub.round
    BY DEF RoundsInv, TypeOK, RoundsNumbered
  <2>2. QED
    BY <2>1, <1>1, AppendProperties, LenProperties
<1>3. RoundsNumbered'
  BY <1>1, <1>2 DEF RoundsInv, RoundsNumbered
<1>4. AwaitedRoundIsOpen'
  BY <1>1, <1>2 DEF AwaitedRoundIsOpen
<1>5. ASSUME NEW p \in Requests PROVE RequestSound(req[p])'
  <2>1. CASE p = r
    BY <2>1, <1>1 DEF Finish, Idle, RequestSound, RoundsInv, TypeOK
  <2>2. CASE p # r
    <3>1. req'[p] = req[p] /\ RequestSound(req[p]) /\ req[p].round \in Nat
      BY <2>2 DEF Finish, RoundsInv, TypeOK, Request
    <3>2. QED
      BY <3>1, <1>1, <1>2 DEF RequestSound
  <2>3. QED
    BY <2>1, <2>2
<1>6. QED
  BY <1>3, <1>4, <1>5 DEF RoundsInv

\* A resubmission that commits resolves a request and leaves revision_required.
LEMMA ResubmitResolves ==
  ASSUME RoundsInv, TypeOK', NEW r \in Requests, NEW i \in DOMAIN revs, NEW q,
         sub'.status = "reviewing", sub'.round = sub.round,
         revs' = [revs EXCEPT ![i].resolved = TRUE],
         req' = [req EXCEPT ![r] = q], RequestSound(q),
         q.pc \notin Guarded
  PROVE  RoundsInv'
<1>1. /\ Len(revs') = Len(revs) /\ DOMAIN revs' = DOMAIN revs
      /\ \A j \in DOMAIN revs : revs'[j].round = revs[j].round
  <2>1. revs \in Seq(Revision) /\ revs' \in Seq(Revision)
    BY DEF RoundsInv, TypeOK
  <2>2. \A j \in DOMAIN revs : revs[j] \in Revision
    BY <2>1
  <2>3. QED
    BY <2>1, <2>2, RevisionResolved, LenProperties DEF RoundsInv, Revision
<1>2. RoundsNumbered' /\ AwaitedRoundIsOpen'
  BY <1>1 DEF RoundsInv, RoundsNumbered, AwaitedRoundIsOpen
<1>3. ASSUME NEW p \in Requests PROVE RequestSound(req[p])'
  <2>1. req'[p] = req[p] \/ req'[p] = q
    BY DEF RoundsInv, TypeOK
  <2>2. QED
    BY <1>1, <2>1 DEF RoundsInv, RequestSound
<1>4. QED
  BY <1>2, <1>3 DEF RoundsInv

\* The request a resubmission picks is the open one of the current round,
\* unless the row has moved on since the resubmission read it.
LEMMA PendingSound ==
  ASSUME RoundsInv, NEW r \in Requests, req[r].status \in ResubmitFrom,
         NEW i \in Unresolved, LatestOpen(i)
  PROVE  RequestSound([req[r] EXCEPT !.pending = i, !.pc = "resubmit_commit"])
<1> DEFINE q == [req[r] EXCEPT !.pending = i, !.pc = "resubmit_commit"]
<1>1. /\ q.round = req[r].round /\ q.round <= sub.round
      /\ q.status = "revision_required" /\ q.pending = i /\ q.pc = "resubmit_commit"
  BY DEF RoundsInv, TypeOK, Request, RequestSound, ResubmitFrom
<1>2. i \in DOMAIN revs /\ DOMAIN revs = 1 .. Len(revs) /\ Len(revs) \in Nat
  BY LenProperties DEF Unresolved, RoundsInv, TypeOK
<1>3. sub.status = "revision_required" => i = Len(revs)
  <2>1. SUFFICES ASSUME sub.status = "revision_required" PROVE i = Len(revs)
    OBVIOUS
  <2>2. Len(revs) \in Unresolved
    BY <1>2, <2>1 DEF RoundsInv, AwaitedRoundIsOpen, Unresolved
  <2>3. revs[Len(revs)].round = Len(revs) /\ revs[i].round = i
    BY <1>2, <2>2 DEF RoundsInv, RoundsNumbered, Unresolved
  <2>4. QED
    BY <1>2, <2>2, <2>3 DEF LatestOpen
<1>4. QED
  BY <1>1, <1>2, <1>3 DEF RequestSound

LEMMA RoundsStep == RoundsInv /\ [Next]_vars => RoundsInv'
<1> SUFFICES ASSUME RoundsInv, [Next]_vars PROVE RoundsInv'
  OBVIOUS
<1>0. TypeOK /\ TypeOK'
  BY TypeOKStep DEF RoundsInv
<1>a. RequestSound(Idle)
  BY <1>0, IdleSound
<1>1. ASSUME NEW a \in Auditors, AssignAuditor(a) PROVE RoundsInv'
  <2>1. Quiet
    BY <1>0, <1>1 DEF AssignAuditor, Quiet, TypeOK, Submission
  <2>2. \A p \in Requests : RequestSound(req[p])'
    BY <1>1, <2>1, QuietKeepsSound DEF AssignAuditor, RoundsInv, RequestSound, Quiet
  <2>3. QED
    BY <1>0, <2>1, <2>2, QuietKeepsRows DEF RoundsInv
<1>2. ASSUME NEW r \in Requests, Begin(r) PROVE RoundsInv'
  <2>1. Quiet
    BY <1>2 DEF Begin, StatusRead, EvaluationCheck, RevisionCheck, ResubmitRead,
       ApproveRead, ReplaceLock, FinalizeRead, Quiet
  <2>2. CASE StatusRead(r)
    <3>1. PICK u \in Users, to \in Settable :
            req' = [req EXCEPT ![r] =
                      [Idle EXCEPT !.pc = "status_write", !.who = u, !.target = to]]
      BY <2>2 DEF StatusRead
    <3>2. RequestSound([Idle EXCEPT !.pc = "status_write", !.who = u, !.target = to])
      BY <1>0 DEF RequestSound, Idle, TypeOK, Submission
    <3>3. QED
      BY <1>0, <2>1, <3>1, <3>2, QuietStep
  <2>3. CASE EvaluationCheck(r) \/ RevisionCheck(r)
    <3>1. PICK u \in Users, step \in Steps \ Guarded :
            req' = [req EXCEPT ![r] = [Idle EXCEPT !.pc = step, !.who = u]]
      BY <2>3 DEF EvaluationCheck, RevisionCheck, Steps, Guarded
    <3>2. QED
      BY <1>0, <2>1, <3>1, CheckSound, QuietStep
  <2>4. CASE ResubmitRead(r) \/ ApproveRead(r) \/ ReplaceLock(r) \/ FinalizeRead(r)
    <3>1. PICK u \in Users, step \in Steps \ Guarded :
            Read(r, u, step)
      BY <2>4 DEF ResubmitRead, ApproveRead, ReplaceLock, FinalizeRead, Steps, Users,
         Guarded
    <3>2. QED
      BY <1>0, <2>1, <3>1, ReadSound, QuietStep DEF Read
  <2>5. QED
    BY <1>2, <2>2, <2>3, <2>4 DEF Begin
<1>3. ASSUME NEW r \in Requests, Continue(r) PROVE RoundsInv'
  <2>1. CASE StatusWrite(r)
    <3>1. req[r].target \in Settable
      BY <2>1 DEF StatusWrite, At, RoundsInv, RequestSound
    <3>2. Quiet
      BY <1>0, <2>1, <3>1 DEF StatusWrite, Quiet, Settable, TypeOK, Submission
    <3>3. QED
      BY <1>0, <1>a, <2>1, <3>2, QuietStep DEF StatusWrite, Finish
  <2>2. CASE EvaluationSave(r) \/ EvaluationRead(r) \/ ApproveEval(r)
    <3>1. Quiet
      BY <2>2 DEF EvaluationSave, EvaluationRead, ApproveEval, Quiet
    <3>2. \/ Finish(r)
          \/ \E step \in Steps \ Guarded : Go(r, step)
      BY <2>2 DEF EvaluationSave, EvaluationRead, ApproveEval, Steps, Guarded
    <3>3. QED
      BY <1>0, <1>a, <3>1, <3>2, GoSound, QuietStep DEF Finish, Go
  <2>3. CASE EvaluationPromote(r)
    <3>1. Quiet
      BY <1>0, <2>3 DEF EvaluationPromote, Quiet, TypeOK, Submission
    <3>2. QED
      BY <1>0, <1>a, <2>3, <3>1, QuietStep DEF EvaluationPromote, Finish
  <2>4. CASE RevisionRead(r)
    <3>1. Quiet
      BY <2>4 DEF RevisionRead, Quiet
    <3>2. CASE Finish(r)
      BY <1>0, <1>a, <3>1, <3>2, QuietStep DEF Finish
    <3>3. CASE ~Finish(r)
      <4> DEFINE q == [Idle EXCEPT !.pc = "revision_commit", !.who = req[r].who,
                         !.status = sub.status, !.round = sub.round, !.docs = sub.docs]
      <4>1. sub.status \in RevisionFrom /\ req' = [req EXCEPT ![r] = q]
        BY <2>4, <3>3 DEF RevisionRead, Read
      <4>2. RequestSound(q)
        BY <1>0, <4>1 DEF TypeOK, Submission, Idle, RequestSound
      <4>3. QED
        BY <1>0, <3>1, <4>1, <4>2, QuietStep
    <3>4. QED
      BY <3>2, <3>3
  <2>5. CASE RevisionCommit(r)
    <3>1. CASE UNCHANGED <<sub, revs>>
      <4>1. Quiet
        BY <3>1 DEF Quiet
      <4>2. QED
        BY <1>0, <1>a, <2>5, <4>1, QuietStep DEF RevisionCommit, Finish
    <3>2. CASE ~UNCHANGED <<sub, revs>>
      BY <1>0, <2>5, <3>2, RevisionOpens DEF RevisionCommit
    <3>3. QED
      BY <3>1, <3>2
  <2>6. CASE ResubmitPending(r)
    <3>1. Quiet
      BY <2>6 DEF ResubmitPending, Quiet
    <3>2. CASE Finish(r)
      BY <1>0, <1>a, <3>1, <3>2, QuietStep DEF Finish
    <3>3. CASE ~Finish(r)
      <4>1. PICK i \in Unresolved :
              /\ req[r].status \in ResubmitFrom
              /\ LatestOpen(i)
              /\ req' = [req EXCEPT ![r].pending = i, ![r].pc = "resubmit_commit"]
        BY <2>6, <3>3 DEF ResubmitPending
      <4>2. req' = [req EXCEPT ![r] =
                      [req[r] EXCEPT !.pending = i, !.pc = "resubmit_commit"]]
        BY <1>0, <4>1 DEF TypeOK
      <4>3. QED
        BY <1>0, <3>1, <4>1, <4>2, PendingSound, QuietStep
    <3>4. QED
      BY <3>2, <3>3
  <2>7. CASE ResubmitCommit(r)
    <3>1. CASE UNCHANGED <<sub, revs>> /\ Finish(r)
      <4>1. Quiet
        BY <3>1 DEF Quiet
      <4>2. QED
        BY <1>0, <1>a, <3>1, <4>1, QuietStep DEF Finish
    <3>2. CASE ~(UNCHANGED <<sub, revs>> /\ Finish(r))
      <4>1. PICK sent \in Packets \cup {NoDocs} :
              /\ req[r].pending \in DOMAIN revs
              /\ sub' = [sub EXCEPT !.status = "reviewing", !.docs = Evidence(r, sent)]
              /\ revs' = [revs EXCEPT ![req[r].pending].resolved = TRUE]
              /\ Finish(r) \/ Go(r, "resubmit_announce")
        BY <2>7, <3>2 DEF ResubmitCommit, ResubmitWrite, ResubmitCommits, Unresolved
      <4>2. sub'.status = "reviewing" /\ sub'.round = sub.round
        BY <1>0, <4>1 DEF TypeOK, Submission
      <4>3. PICK q : /\ req' = [req EXCEPT ![r] = q]
                     /\ RequestSound(q)
                     /\ q.pc \in {"idle", "resubmit_announce"}
        <5>1. CASE Finish(r)
          <6>1. Idle.pc = "idle"
            BY DEF Idle
          <6>2. QED
            BY <1>a, <5>1, <6>1 DEF Finish
        <5>2. CASE Go(r, "resubmit_announce")
          <6>1. RequestSound([req[r] EXCEPT !.pc = "resubmit_announce"])
            BY GoSound DEF Steps, Guarded
          <6>2. [req[r] EXCEPT !.pc = "resubmit_announce"].pc = "resubmit_announce"
            BY <1>0 DEF TypeOK, Request
          <6>3. QED
            BY <5>2, <6>1, <6>2 DEF Go
        <5>3. QED
          BY <4>1, <5>1, <5>2
      <4>4. QED
        BY <1>0, <4>1, <4>2, <4>3, ResubmitResolves DEF Guarded
    <3>3. QED
      BY <3>1, <3>2
  <2>8. CASE ResubmitAnnounce(r)
    <3>1. Quiet
      BY <2>8 DEF ResubmitAnnounce, Quiet
    <3>2. QED
      BY <1>0, <1>a, <2>8, <3>1, QuietStep DEF ResubmitAnnounce, Finish
  <2>9. CASE ApproveCommit(r)
    <3>1. Quiet
      BY <1>0, <2>9 DEF ApproveCommit, Quiet, TypeOK, Submission
    <3>2. QED
      BY <1>0, <1>a, <2>9, <3>1, QuietStep DEF ApproveCommit, Finish
  <2>10. CASE ReplaceWrite(r)
    <3>1. Quiet
      BY <1>0, <2>10 DEF ReplaceWrite, Quiet, TypeOK, Submission
    <3>2. QED
      BY <1>0, <1>a, <2>10, <3>1, QuietStep DEF ReplaceWrite, Finish
  <2>11. CASE FinalizeWrite(r)
    <3>1. Quiet
      BY <1>0, <2>11 DEF FinalizeWrite, Quiet, TypeOK, Submission
    <3>2. QED
      BY <1>0, <1>a, <2>11, <3>1, QuietStep DEF FinalizeWrite, Finish
  <2>12. QED
    BY <1>3, <2>1, <2>2, <2>3, <2>4, <2>5, <2>6, <2>7, <2>8, <2>9, <2>10, <2>11
    DEF Continue
<1>4. ASSUME NEW r \in Requests, Crash(r) PROVE RoundsInv'
  <2>1. Quiet
    BY <1>4 DEF Crash, Quiet
  <2>2. QED
    BY <1>0, <1>a, <1>4, <2>1, QuietStep DEF Crash, Finish
<1>5. CASE UNCHANGED vars
  BY <1>0, <1>5 DEF vars, RoundsInv, RoundsNumbered, AwaitedRoundIsOpen, RequestSound
<1>6. QED
  BY <1>1, <1>2, <1>3, <1>4, <1>5 DEF Next

LEMMA InitRoundsInv == Init => RoundsInv
<1> SUFFICES ASSUME Init PROVE RoundsInv
  OBVIOUS
<1>1. TypeOK
  BY InitTypeOK
<1>2. QED
  BY <1>1, IdleSound DEF Init, RoundsInv, RoundsNumbered, AwaitedRoundIsOpen

\* The n-th request row is round n, for any number of concurrent requests.
THEOREM RoundsCorrect == Spec => []RoundsInv
<1>1. QED
  BY InitRoundsInv, RoundsStep, PTL DEF Spec

THEOREM RoundsAreNumbered == Spec => []RoundsNumbered
<1>1. RoundsInv => RoundsNumbered
  BY DEF RoundsInv
<1>2. QED
  BY <1>1, RoundsCorrect, PTL

THEOREM AwaitedRoundsAreOpen == Spec => []AwaitedRoundIsOpen
<1>1. RoundsInv => AwaitedRoundIsOpen
  BY DEF RoundsInv
<1>2. QED
  BY <1>1, RoundsCorrect, PTL

\* The UNIQUE constraint is a second line of defence that is never reached.
THEOREM UniqueConstraintUnused == Spec => []UniqueNeverFires
<1>1. RoundsInv => UniqueNeverFires
  <2>1. SUFFICES ASSUME RoundsInv, NEW r \in Requests, RowUnchanged(r), RoundTaken(r)
                 PROVE  FALSE
    BY DEF UniqueNeverFires
  <2>2. PICK i \in DOMAIN revs : revs[i].round = NewRound(r)
    BY <2>1 DEF RoundTaken
  <2>3. i \in 1 .. Len(revs) /\ revs[i].round = i /\ Len(revs) = sub.round
    BY <2>1, LenProperties DEF RoundsInv, TypeOK, RoundsNumbered
  <2>4. sub.round \in Nat /\ NewRound(r) = sub.round + 1
    BY <2>1 DEF RoundsInv, TypeOK, Submission, RowUnchanged, NewRound
  <2>5. i = sub.round + 1
    BY <2>2, <2>3, <2>4
  <2>6. QED
    BY <2>3, <2>4, <2>5
<1>2. QED
  BY <1>1, RoundsCorrect, PTL

-----------------------------------------------------------------------------
(* What every step does to the request rows, and the abstract rounds *)

OpensRound ==
    \E r \in Requests :
        /\ At(r, "revision_commit")
        /\ RowUnchanged(r)
        /\ sub' = [sub EXCEPT !.status = "revision_required", !.round = NewRound(r)]
        /\ revs' = Append(revs, [round |-> NewRound(r), docs |-> req[r].docs,
                                 resolved |-> FALSE])

ResolvesRound ==
    \E r \in Requests :
        /\ At(r, "resubmit_commit")
        /\ RowUnchanged(r)
        /\ req[r].pending \in Unresolved
        /\ sub'.status = "reviewing"
        /\ revs' = [revs EXCEPT ![req[r].pending].resolved = TRUE]

\* A status a PUT may set is never revision_required, so a step that writes
\* the row without touching its requests is quiet.
LEMMA StepKinds ==
  ASSUME RoundsInv, [Next]_vars
  PROVE  Quiet \/ OpensRound \/ ResolvesRound
<1> USE DEF Quiet
<1>0. TypeOK
  BY DEF RoundsInv
<1>1. ASSUME NEW a \in Auditors, AssignAuditor(a) PROVE Quiet
  BY <1>0, <1>1 DEF AssignAuditor, TypeOK, Submission
<1>2. ASSUME NEW r \in Requests, Begin(r) PROVE Quiet
  BY <1>2 DEF Begin, StatusRead, EvaluationCheck, RevisionCheck, ResubmitRead,
     ApproveRead, ReplaceLock, FinalizeRead
<1>3. ASSUME NEW r \in Requests, Continue(r)
      PROVE  Quiet \/ OpensRound \/ ResolvesRound
  <2>1. CASE StatusWrite(r)
    <3>1. req[r].target \in Settable
      BY <2>1 DEF StatusWrite, At, RoundsInv, RequestSound
    <3>2. QED
      BY <1>0, <2>1, <3>1 DEF StatusWrite, Settable, TypeOK, Submission
  <2>2. CASE RevisionCommit(r)
    BY <2>2 DEF RevisionCommit, OpensRound
  <2>3. CASE ResubmitCommit(r)
    <3>1. CASE UNCHANGED <<sub, revs>>
      BY <3>1
    <3>2. CASE ~UNCHANGED <<sub, revs>>
      <4>1. PICK sent \in Packets \cup {NoDocs} :
              /\ ResubmitCommits(r)
              /\ sub' = [sub EXCEPT !.status = "reviewing", !.docs = Evidence(r, sent)]
              /\ revs' = [revs EXCEPT ![req[r].pending].resolved = TRUE]
        BY <2>3, <3>2 DEF ResubmitCommit, ResubmitWrite
      <4>2. sub'.status = "reviewing"
        BY <1>0, <4>1 DEF TypeOK, Submission
      <4>3. QED
        BY <2>3, <4>1, <4>2 DEF ResubmitCommit, ResubmitWrite, ResubmitCommits, ResolvesRound
    <3>3. QED
      BY <3>1, <3>2
  <2>4. CASE \/ EvaluationSave(r) \/ EvaluationRead(r) \/ EvaluationPromote(r)
            \/ RevisionRead(r) \/ ResubmitPending(r) \/ ResubmitAnnounce(r)
            \/ ApproveEval(r) \/ ApproveCommit(r) \/ ReplaceWrite(r) \/ FinalizeWrite(r)
    BY <1>0, <2>4 DEF EvaluationSave, EvaluationRead, EvaluationPromote, RevisionRead,
       ResubmitPending, ResubmitAnnounce, ApproveEval, ApproveCommit, ReplaceWrite,
       FinalizeWrite, TypeOK, Submission
  <2>5. QED
    BY <1>3, <2>1, <2>2, <2>3, <2>4 DEF Continue
<1>4. ASSUME NEW r \in Requests, Crash(r) PROVE Quiet
  BY <1>4 DEF Crash
<1>5. CASE UNCHANGED vars
  BY <1>5 DEF vars
<1>6. QED
  BY <1>1, <1>2, <1>3, <1>4, <1>5 DEF Next

\* A resubmission that commits resolves the round the row is waiting for.
LEMMA ResolvedIsCurrent ==
  ASSUME RoundsInv, NEW r \in Requests, At(r, "resubmit_commit"), RowUnchanged(r)
  PROVE  /\ sub.status = "revision_required"
         /\ req[r].pending = Len(revs)
         /\ req[r].pending \in DOMAIN revs
  BY DEF RoundsInv, RequestSound, At, RowUnchanged

\* Request rows seen as the rounds of RevisionRounds.
LEMMA AnswersOf ==
  ASSUME NEW s \in Seq(Revision)
  PROVE  LET a == [i \in DOMAIN s |-> IF s[i].resolved THEN "resolved" ELSE "open"]
         IN  /\ a \in Seq({"open", "resolved"})
             /\ Len(a) = Len(s)
             /\ DOMAIN a = 1 .. Len(s)
<1> DEFINE a == [i \in DOMAIN s |-> IF s[i].resolved THEN "resolved" ELSE "open"]
<1>1. DOMAIN s = 1 .. Len(s) /\ Len(s) \in Nat
  BY LenProperties
<1>2. a \in [1 .. Len(s) -> {"open", "resolved"}]
  BY <1>1
<1>3. a \in Seq({"open", "resolved"})
  BY <1>1, <1>2, SeqDef
<1>4. DOMAIN a = 1 .. Len(s)
  BY <1>2
<1>5. Len(a) = Len(s)
  BY <1>1, <1>3, <1>4, LenProperties
<1>6. QED
  BY <1>3, <1>4, <1>5

LEMMA AnswersTyped ==
  ASSUME TypeOK
  PROVE  /\ Answers \in Seq({"open", "resolved"})
         /\ Len(Answers) = Len(revs)
         /\ DOMAIN Answers = 1 .. Len(revs)
<1>1. revs \in Seq(Revision)
  BY DEF TypeOK
<1>2. QED
  BY <1>1, AnswersOf DEF Answers

\* Every step of the handlers is a step of RevisionRounds, or stutters there.
LEMMA RoundsStepRefines ==
  ASSUME RoundsInv, TypeOK', [Next]_vars
  PROVE  [Rounds!Next]_<<Answers, sub.status = "revision_required">>
<1>0. TypeOK /\ DOMAIN revs = 1 .. Len(revs) /\ Len(revs) \in Nat
      /\ \A i \in DOMAIN revs : revs[i] \in Revision
  BY LenProperties DEF RoundsInv, TypeOK
<1>1. CASE Quiet
  <2>1. Answers' = Answers
    BY <1>1 DEF Quiet, Answers
  <2>2. QED
    BY <1>1, <2>1 DEF Quiet, Rounds!Next, Rounds!Overtake
<1>2. CASE OpensRound
  <2>1. PICK r \in Requests :
          /\ At(r, "revision_commit")
          /\ RowUnchanged(r)
          /\ sub' = [sub EXCEPT !.status = "revision_required", !.round = NewRound(r)]
          /\ revs' = Append(revs, [round |-> NewRound(r), docs |-> req[r].docs,
                                   resolved |-> FALSE])
    BY <1>2 DEF OpensRound
  <2>2. sub.status # "revision_required" /\ sub'.status = "revision_required"
    BY <1>0, <2>1 DEF At, RowUnchanged, RoundsInv, RequestSound, RevisionFrom, TypeOK,
       Submission
  <2>3. Answers' = Append(Answers, "open")
    <3> DEFINE row == [round |-> NewRound(r), docs |-> req[r].docs, resolved |-> FALSE]
    <3>1. /\ Len(revs') = Len(revs) + 1
          /\ \A i \in 1 .. Len(revs) : revs'[i] = revs[i]
          /\ revs'[Len(revs) + 1] = row /\ ~row.resolved
      <4>1. req[r] \in Request
        BY <1>0 DEF TypeOK
      <4>2. row \in Revision
        BY <4>1 DEF Request, NewRound, Revision
      <4>3. QED
        BY <1>0, <2>1, <4>2, AppendProperties DEF TypeOK
    <3>2. Answers' \in Seq({"open", "resolved"}) /\ Len(Answers') = Len(revs) + 1
          /\ DOMAIN revs' = 1 .. Len(revs')
      <4>1. /\ Answers' \in Seq({"open", "resolved"})
            /\ Len(Answers') = Len(revs')
            /\ DOMAIN Answers' = 1 .. Len(revs')
        <5>1. revs' \in Seq(Revision)
          BY DEF TypeOK
        <5>2. QED
          BY <5>1, AnswersOf DEF Answers
      <4>2. QED
        BY <3>1, <4>1, LenProperties DEF TypeOK
    <3>3. /\ Append(Answers, "open") \in Seq({"open", "resolved"})
          /\ Len(Append(Answers, "open")) = Len(revs) + 1
          /\ \A i \in 1 .. Len(revs) : Append(Answers, "open")[i] = Answers[i]
          /\ Append(Answers, "open")[Len(revs) + 1] = "open"
      BY <1>0, AnswersTyped, AppendProperties
    <3>4. \A i \in 1 .. Len(revs) + 1 : Answers'[i] = Append(Answers, "open")[i]
      BY <1>0, <3>1, <3>2, <3>3 DEF Answers
    <3>5. QED
      BY <3>2, <3>3, <3>4, SeqEqual
  <2>4. QED
    BY <2>2, <2>3 DEF Rounds!Next, Rounds!Open
<1>3. CASE ResolvesRound
  <2>1. PICK r \in Requests :
          /\ At(r, "resubmit_commit")
          /\ RowUnchanged(r)
          /\ req[r].pending \in Unresolved
          /\ sub'.status = "reviewing"
          /\ revs' = [revs EXCEPT ![req[r].pending].resolved = TRUE]
    BY <1>3 DEF ResolvesRound
  <2>2. /\ sub.status = "revision_required"
        /\ req[r].pending = Len(revs)
        /\ Len(revs) \in DOMAIN revs
        /\ ~revs[Len(revs)].resolved
    BY <2>1, ResolvedIsCurrent DEF Unresolved
  <2>3. Len(Answers) = Len(revs) /\ Answers[Len(Answers)] = "open"
    BY <1>0, <2>2, AnswersTyped DEF Answers
  <2>4. Answers' = [Answers EXCEPT ![Len(revs)] = "resolved"]
    <3>1. /\ DOMAIN revs' = DOMAIN revs
          /\ \A j \in DOMAIN revs :
                revs'[j].resolved = IF j = Len(revs) THEN TRUE ELSE revs[j].resolved
      BY <1>0, <2>1, <2>2, RevisionResolved DEF Revision
    <3>2. QED
      BY <3>1 DEF Answers
  <2>5. QED
    BY <2>1, <2>2, <2>3, <2>4 DEF Rounds!Next, Rounds!Resolve
<1>4. QED
  BY <1>1, <1>2, <1>3, StepKinds

\* Requests, reads that go stale, compare-and-set and transactions together
\* implement the rounds: opened one at a time, only the last one answered,
\* once, and only while it is awaited.
THEOREM RoundsImplemented == Spec => ImplementsRevisionRounds
<1>1. Init => Rounds!Init
  BY DEF Init, Rounds!Init, Answers
<1>2. RoundsInv /\ RoundsInv' /\ [Next]_vars
        => [Rounds!Next]_<<Answers, sub.status = "revision_required">>
  BY RoundsStepRefines DEF RoundsInv
<1>3. QED
  BY <1>1, <1>2, RoundsCorrect, PTL DEF Spec, ImplementsRevisionRounds, Rounds!Spec

\* A resubmission closes the round the CB waits for and no other.
THEOREM CurrentRoundCloses == Spec => ResubmitClosesCurrentRound
<1> DEFINE Closes ==
      \A i \in DOMAIN revs :
          ~revs[i].resolved /\ revs'[i].resolved =>
             /\ i = Len(revs)
             /\ sub.status = "revision_required"
             /\ sub'.status = "reviewing"
<1>1. RoundsInv /\ [Next]_vars => Closes
  <2> SUFFICES ASSUME RoundsInv, [Next]_vars, NEW i \in DOMAIN revs,
                      ~revs[i].resolved, revs'[i].resolved
               PROVE  /\ i = Len(revs)
                      /\ sub.status = "revision_required"
                      /\ sub'.status = "reviewing"
    OBVIOUS
  <2>0. TypeOK /\ DOMAIN revs = 1 .. Len(revs)
        /\ \A j \in DOMAIN revs : revs[j] \in Revision
    BY LenProperties DEF RoundsInv, TypeOK
  <2>1. ~Quiet
    BY DEF Quiet
  <2>2. ~OpensRound
    <3>1. \A r \in Requests :
            [round |-> NewRound(r), docs |-> req[r].docs, resolved |-> FALSE] \in Revision
      BY <2>0 DEF TypeOK, Request, NewRound, Revision
    <3>2. SUFFICES ASSUME OpensRound PROVE FALSE
      OBVIOUS
    <3>3. PICK r \in Requests :
            revs' = Append(revs, [round |-> NewRound(r), docs |-> req[r].docs,
                                  resolved |-> FALSE])
      BY <3>2 DEF OpensRound
    <3>4. revs'[i] = revs[i]
      BY <2>0, <3>1, <3>3, AppendProperties DEF TypeOK
    <3>5. QED
      BY <3>4
  <2>3. PICK r \in Requests :
          /\ At(r, "resubmit_commit")
          /\ RowUnchanged(r)
          /\ req[r].pending \in DOMAIN revs
          /\ sub'.status = "reviewing"
          /\ revs' = [revs EXCEPT ![req[r].pending].resolved = TRUE]
    BY <2>1, <2>2, StepKinds DEF ResolvesRound, Unresolved
  <2>4. i = req[r].pending
    BY <2>0, <2>3, RevisionResolved
  <2>5. QED
    BY <2>3, <2>4, ResolvedIsCurrent
<1>2. QED
  BY <1>1, RoundsCorrect, PTL DEF Spec, ResubmitClosesCurrentRound

-----------------------------------------------------------------------------
(* The packet of a submission under the row lock of replace-document, what *)
(* an approval rests on and does, and how often a resubmission is told.    *)


\* A request is at its replacement exactly while it holds the row lock, and
\* what it read under the lock is what the row still is.
PacketInv ==
    \A r \in Requests :
        /\ At(r, "replace_write") <=> lock = r
        /\ At(r, "replace_write") =>
              /\ req[r].docs = sub.docs
              /\ req[r].status = sub.status
              /\ sub.status \notin Terminal

LEMMA PacketInvInit == Init => PacketInv
  BY ConstantsAssumption DEF Init, PacketInv, At, Idle

\* A request that neither takes nor holds the lock moves on, and writes the
\* row only if nobody holds the lock.
LEMMA LockUntouched ==
  ASSUME TypeOK, PacketInv, NEW r \in Requests, NEW q,
         q.pc # "replace_write", ~At(r, "replace_write"),
         req' = [req EXCEPT ![r] = q], lock' = lock,
         lock = NoRequest \/ sub' = sub
  PROVE  PacketInv'
<1>1. req \in [Requests -> Request] /\ NoRequest \notin Requests
  BY ConstantsAssumption DEF TypeOK
<1>2. SUFFICES ASSUME NEW s \in Requests
               PROVE  /\ At(s, "replace_write")' <=> lock' = s
                      /\ At(s, "replace_write")' =>
                            /\ req'[s].docs = sub'.docs
                            /\ req'[s].status = sub'.status
                            /\ sub'.status \notin Terminal
  BY DEF PacketInv
<1>3. CASE s = r
  BY <1>1, <1>3 DEF PacketInv, At
<1>4. CASE s # r
  BY <1>1, <1>4 DEF PacketInv, At
<1>5. QED
  BY <1>3, <1>4

\* Whoever holds the lock lets go of it.
LEMMA LockReleased ==
  ASSUME TypeOK, PacketInv, NEW r \in Requests, At(r, "replace_write"),
         Finish(r), lock' = NoRequest
  PROVE  PacketInv'
<1>1. req \in [Requests -> Request] /\ NoRequest \notin Requests
  BY ConstantsAssumption DEF TypeOK
<1>2. \A s \in Requests : ~At(s, "replace_write")'
  BY <1>1 DEF PacketInv, At, Finish, Idle
<1>3. QED
  BY <1>1, <1>2 DEF PacketInv

\* What a call remembers when it reads the row.
LEMMA ReadMoves ==
  ASSUME NEW r, NEW u, NEW step, step # "replace_write", Read(r, u, step)
  PROVE  \E q : req' = [req EXCEPT ![r] = q] /\ q.pc # "replace_write"
<1> DEFINE q == [Idle EXCEPT !.pc = step, !.who = u, !.status = sub.status,
                             !.round = sub.round, !.docs = sub.docs]
<1>1. q.pc = step
  BY DEF Idle
<1>2. req' = [req EXCEPT ![r] = q]
  BY DEF Read
<1> HIDE DEF q
<1>3. QED
  BY <1>1, <1>2

LEMMA PacketInvStep == RoundsInv /\ PacketInv /\ [Next]_vars => PacketInv'
<1> SUFFICES ASSUME RoundsInv, PacketInv, [Next]_vars PROVE PacketInv'
  OBVIOUS
<1>0. TypeOK /\ req \in [Requests -> Request] /\ NoRequest \notin Requests
  BY ConstantsAssumption DEF RoundsInv, TypeOK
<1>a. \A r \in Requests, step \in Steps \ {"replace_write"} :
        [req[r] EXCEPT !.pc = step].pc # "replace_write"
  BY <1>0 DEF Request
<1>b. Idle.pc # "replace_write"
  BY DEF Idle
<1>1. ASSUME NEW a \in Auditors, AssignAuditor(a) PROVE PacketInv'
  BY <1>0, <1>1 DEF AssignAuditor, RowFree, PacketInv, At
<1>2. ASSUME NEW r \in Requests, Begin(r) PROVE PacketInv'
  <2>1. CASE ReplaceLock(r)
    BY <1>0, <2>1 DEF ReplaceLock, RowFree, Starts, Read, Idle, PacketInv, At
  <2>2. CASE ~ReplaceLock(r)
    <3>1. PICK q : req' = [req EXCEPT ![r] = q] /\ q.pc # "replace_write"
      <4>1. CASE StatusRead(r)
        <5>1. PICK u \in Users, to \in Settable :
                req' = [req EXCEPT ![r] =
                          [Idle EXCEPT !.pc = "status_write", !.who = u, !.target = to]]
          BY <4>1 DEF StatusRead
        <5>2. [Idle EXCEPT !.pc = "status_write", !.who = u, !.target = to].pc # "replace_write"
          BY DEF Idle
        <5>3. QED
          BY <5>1, <5>2
      <4>2. CASE EvaluationCheck(r) \/ RevisionCheck(r)
        <5>1. PICK u \in Users, step \in {"eval_save", "revision_read"} :
                req' = [req EXCEPT ![r] = [Idle EXCEPT !.pc = step, !.who = u]]
          BY <4>2 DEF EvaluationCheck, RevisionCheck
        <5>2. [Idle EXCEPT !.pc = step, !.who = u].pc # "replace_write"
          BY DEF Idle
        <5>3. QED
          BY <5>1, <5>2
      <4>3. CASE ResubmitRead(r) \/ ApproveRead(r) \/ FinalizeRead(r)
        BY <4>3, ReadMoves DEF ResubmitRead, ApproveRead, FinalizeRead
      <4>4. QED
        BY <1>2, <2>2, <4>1, <4>2, <4>3 DEF Begin
    <3>2. /\ ~At(r, "replace_write")
          /\ lock' = lock /\ sub' = sub
      BY <1>2, <2>2 DEF Begin, StatusRead, EvaluationCheck, RevisionCheck, ResubmitRead,
         ApproveRead, FinalizeRead, Starts, At
    <3>3. QED
      BY <1>0, <3>1, <3>2, LockUntouched
  <2>3. QED
    BY <2>1, <2>2
<1>3. ASSUME NEW r \in Requests, Continue(r) PROVE PacketInv'
  <2>1. CASE ReplaceWrite(r)
    BY <1>0, <2>1, LockReleased DEF ReplaceWrite
  <2>2. CASE ~ReplaceWrite(r)
    <3>1. PICK q : req' = [req EXCEPT ![r] = q] /\ q.pc # "replace_write"
      <4>1. CASE \/ StatusWrite(r) \/ EvaluationPromote(r) \/ RevisionCommit(r)
                 \/ ResubmitAnnounce(r) \/ ApproveCommit(r) \/ FinalizeWrite(r)
        BY <1>b, <4>1 DEF StatusWrite, EvaluationPromote, RevisionCommit,
           ResubmitAnnounce, ApproveCommit, FinalizeWrite, Finish
      <4>2. CASE EvaluationSave(r) \/ EvaluationRead(r) \/ ResubmitCommit(r) \/ ApproveEval(r)
        <5>1. \/ Finish(r)
              \/ \E step \in Steps \ {"replace_write"} : Go(r, step)
          BY <4>2 DEF EvaluationSave, EvaluationRead, ResubmitCommit, ApproveEval, Steps
        <5>2. CASE Finish(r)
          BY <1>b, <5>2 DEF Finish
        <5>3. CASE \E step \in Steps \ {"replace_write"} : Go(r, step)
          <6>1. PICK step \in Steps \ {"replace_write"} : Go(r, step)
            BY <5>3
          <6>2. req' = [req EXCEPT ![r] = [req[r] EXCEPT !.pc = step]]
            BY <1>0, <6>1 DEF Go
          <6>3. QED
            BY <1>a, <6>2
        <5>4. QED
          BY <5>1, <5>2, <5>3
      <4>3. CASE RevisionRead(r)
        BY <1>b, <4>3, ReadMoves DEF RevisionRead, Finish
      <4>4. CASE ResubmitPending(r)
        <5>1. CASE Finish(r)
          BY <1>b, <5>1 DEF Finish
        <5>2. CASE ~Finish(r)
          <6>1. PICK i \in Unresolved :
                  req' = [req EXCEPT ![r].pending = i, ![r].pc = "resubmit_commit"]
            BY <4>4, <5>2 DEF ResubmitPending
          <6>2. req' = [req EXCEPT ![r] =
                          [req[r] EXCEPT !.pending = i, !.pc = "resubmit_commit"]]
            BY <1>0, <6>1
          <6>3. [req[r] EXCEPT !.pending = i, !.pc = "resubmit_commit"].pc # "replace_write"
            BY <1>0 DEF Request
          <6>4. QED
            BY <6>2, <6>3
        <5>3. QED
          BY <5>1, <5>2
      <4>5. QED
        BY <1>3, <2>2, <4>1, <4>2, <4>3, <4>4 DEF Continue
    <3>2. ~At(r, "replace_write") /\ lock' = lock
      BY <1>3, <2>2 DEF Continue, StatusWrite, EvaluationSave, EvaluationRead,
         EvaluationPromote, RevisionRead, RevisionCommit, ResubmitPending, ResubmitCommit,
         ResubmitAnnounce, ApproveEval, ApproveCommit, FinalizeWrite, At
    <3>3. lock = NoRequest \/ sub' = sub
      BY <1>3, <2>2 DEF Continue, StatusWrite, EvaluationSave, EvaluationRead,
         EvaluationPromote, RevisionRead, RevisionCommit, ResubmitPending, ResubmitCommit,
         ResubmitAnnounce, ApproveEval, ApproveCommit, FinalizeWrite, RowFree
    <3>4. QED
      BY <1>0, <3>1, <3>2, <3>3, LockUntouched
  <2>3. QED
    BY <2>1, <2>2
<1>4. ASSUME NEW r \in Requests, Crash(r) PROVE PacketInv'
  <2>1. CASE At(r, "replace_write")
    <3>1. lock' = NoRequest
      BY <1>4, <2>1 DEF Crash, PacketInv
    <3>2. QED
      BY <1>0, <1>4, <2>1, <3>1, LockReleased DEF Crash
  <2>2. CASE ~At(r, "replace_write")
    <3>1. lock' = lock /\ sub' = sub /\ req' = [req EXCEPT ![r] = Idle]
      BY <1>4, <2>2 DEF Crash, PacketInv, Finish
    <3>2. QED
      BY <1>0, <1>b, <2>2, <3>1, LockUntouched
  <2>3. QED
    BY <2>1, <2>2
<1>5. CASE UNCHANGED vars
  BY <1>5 DEF vars, PacketInv, At
<1>6. QED
  BY <1>1, <1>2, <1>3, <1>4, <1>5 DEF Next

\* A replacement writes back the packet as it is: nobody changed the row
\* since it was read under FOR UPDATE.
THEOREM LockedReadsAreCurrent == Spec => []LockedReadIsCurrent
<1>1. Spec => []PacketInv
  BY PacketInvInit, PacketInvStep, RoundsCorrect, PTL DEF Spec
<1>2. PacketInv => LockedReadIsCurrent
  BY DEF PacketInv, LockedReadIsCurrent
<1>3. QED
  BY <1>1, <1>2, PTL

\* C1: no step changes the documents of an approved or rejected submission:
\* a replacement holds a row it saw open, a resubmission compares the status.
THEOREM TerminalPacketsFrozen == Spec => TerminalPacketFrozen
<1>1. RoundsInv /\ PacketInv /\ [Next]_vars
        => [sub'.docs # sub.docs => sub.status \notin Terminal]_vars
  <2> SUFFICES ASSUME RoundsInv, PacketInv, [Next]_vars, sub'.docs # sub.docs
               PROVE  sub.status \notin Terminal
    OBVIOUS
  <2>0. TypeOK
    BY DEF RoundsInv
  <2>1. PICK r \in Requests : ResubmitCommit(r) \/ ReplaceWrite(r)
    <3>1. ASSUME NEW a \in Auditors, AssignAuditor(a) PROVE FALSE
      BY <2>0, <3>1 DEF AssignAuditor, TypeOK, Submission
    <3>2. ASSUME NEW r \in Requests, Begin(r) PROVE FALSE
      BY <3>2 DEF Begin, StatusRead, EvaluationCheck, RevisionCheck, ResubmitRead,
         ApproveRead, ReplaceLock, FinalizeRead
    <3>3. ASSUME NEW r \in Requests, Continue(r), ~ResubmitCommit(r), ~ReplaceWrite(r)
          PROVE  FALSE
      BY <2>0, <3>3 DEF Continue, StatusWrite, EvaluationSave, EvaluationRead,
         EvaluationPromote, RevisionRead, RevisionCommit, ResubmitPending,
         ResubmitAnnounce, ApproveEval, ApproveCommit, FinalizeWrite, TypeOK, Submission
    <3>4. ASSUME NEW r \in Requests, Crash(r) PROVE FALSE
      BY <3>4 DEF Crash
    <3>5. QED
      BY <3>1, <3>2, <3>3, <3>4 DEF Next, vars
  <2>2. CASE ResubmitCommit(r)
    <3>1. RowUnchanged(r) /\ At(r, "resubmit_commit")
      BY <2>2 DEF ResubmitCommit, ResubmitWrite, ResubmitCommits
    <3>2. QED
      BY <3>1, ResolvedIsCurrent DEF Terminal
  <2>3. CASE ReplaceWrite(r)
    BY <2>3 DEF ReplaceWrite, PacketInv
  <2>4. QED
    BY <2>1, <2>2, <2>3
<1>2. QED
  BY <1>1, PacketInvInit, PacketInvStep, RoundsCorrect, PTL DEF Spec, TerminalPacketFrozen

\* W3-M15: once the submission is approved, no overlapping approval stamps a
\* document or records a review.
THEOREM ApprovalsActOnce == Spec => ApprovedOnce
<1>1. [Next]_vars
        => [sub.status = "approved" => cbApproved' = cbApproved /\ reviews' = reviews]_vars
  <2> SUFFICES ASSUME Next, sub.status = "approved"
               PROVE  cbApproved' = cbApproved /\ reviews' = reviews
    BY DEF vars
  <2>1. CASE \E a \in Auditors : AssignAuditor(a)
    BY <2>1 DEF AssignAuditor
  <2>2. CASE \E r \in Requests : Begin(r)
    BY <2>2 DEF Begin, StatusRead, EvaluationCheck, RevisionCheck, ResubmitRead,
       ApproveRead, ReplaceLock, FinalizeRead
  <2>3. CASE \E r \in Requests : Continue(r)
    BY <2>3 DEF Continue, StatusWrite, EvaluationSave, EvaluationRead,
       EvaluationPromote, RevisionRead, RevisionCommit, ResubmitPending, ResubmitCommit,
       ResubmitAnnounce, ApproveEval, ApproveCommit, ApproveCommits, ReplaceWrite,
       FinalizeWrite
  <2>4. CASE \E r \in Requests : Crash(r)
    BY <2>4 DEF Crash
  <2>5. QED
    BY <2>1, <2>2, <2>3, <2>4 DEF Next
<1>2. QED
  BY <1>1, PTL DEF Spec, ApprovedOnce

-----------------------------------------------------------------------------
(* Where a step leads: the commit of an approval is reached only from its  *)
(* check, and the late announcement of a resubmission only from its commit. *)

Leads(r, q) ==
    /\ q.pc = "approve_commit" => ApproveEval(r) /\ HasScore
    /\ q.pc = "resubmit_announce" =>
          /\ ResubmitCommit(r)
          /\ q = [req[r] EXCEPT !.pc = "resubmit_announce"]

Elsewhere == Steps \ {"approve_commit", "resubmit_announce"}

LEMMA ReadLeads ==
  ASSUME NEW r, NEW u, NEW step \in Elsewhere, Read(r, u, step)
  PROVE  \E q : req' = [req EXCEPT ![r] = q] /\ Leads(r, q)
<1> DEFINE q == [Idle EXCEPT !.pc = step, !.who = u, !.status = sub.status,
                             !.round = sub.round, !.docs = sub.docs]
<1>1. q.pc = step
  BY DEF Idle
<1>2. req' = [req EXCEPT ![r] = q]
  BY DEF Read
<1> HIDE DEF q
<1>. QED
  BY <1>1, <1>2 DEF Leads, Elsewhere

LEMMA FinishLeads ==
  ASSUME NEW r, Finish(r)
  PROVE  \E q : req' = [req EXCEPT ![r] = q] /\ Leads(r, q)
<1>1. Idle.pc = "idle"
  BY DEF Idle
<1>. QED
  BY <1>1 DEF Finish, Leads

LEMMA GoLeads ==
  ASSUME TypeOK, NEW r \in Requests, NEW step \in Elsewhere, Go(r, step)
  PROVE  \E q : req' = [req EXCEPT ![r] = q] /\ Leads(r, q)
<1> DEFINE q == [req[r] EXCEPT !.pc = step]
<1>1. q.pc = step
  BY DEF TypeOK, Request
<1>2. req' = [req EXCEPT ![r] = q]
  BY DEF Go
<1> HIDE DEF q
<1>. QED
  BY <1>1, <1>2 DEF Leads, Elsewhere

LEMMA BeginLeads ==
  ASSUME NEW r \in Requests, Begin(r)
  PROVE  \E q : req' = [req EXCEPT ![r] = q] /\ Leads(r, q)
<1>1. CASE StatusRead(r)
  <2>1. PICK u \in Users, to \in Settable :
          req' = [req EXCEPT ![r] =
                    [Idle EXCEPT !.pc = "status_write", !.who = u, !.target = to]]
    BY <1>1 DEF StatusRead
  <2>2. [Idle EXCEPT !.pc = "status_write", !.who = u, !.target = to].pc = "status_write"
    BY DEF Idle
  <2>. QED
    BY <2>1, <2>2 DEF Leads
<1>2. CASE EvaluationCheck(r) \/ RevisionCheck(r)
  <2>1. PICK u \in Users, step \in {"eval_save", "revision_read"} :
          req' = [req EXCEPT ![r] = [Idle EXCEPT !.pc = step, !.who = u]]
    BY <1>2 DEF EvaluationCheck, RevisionCheck
  <2>2. [Idle EXCEPT !.pc = step, !.who = u].pc = step
    BY DEF Idle
  <2>. QED
    BY <2>1, <2>2 DEF Leads
<1>3. CASE ResubmitRead(r) \/ ApproveRead(r) \/ ReplaceLock(r) \/ FinalizeRead(r)
  BY <1>3, ReadLeads DEF ResubmitRead, ApproveRead, ReplaceLock, FinalizeRead,
     Elsewhere, Steps
<1>. QED
  BY <1>1, <1>2, <1>3 DEF Begin

LEMMA ContinueLeads ==
  ASSUME TypeOK, NEW r \in Requests, Continue(r)
  PROVE  \E q : req' = [req EXCEPT ![r] = q] /\ Leads(r, q)
<1>1. CASE ApproveEval(r)
  <2>1. CASE Finish(r)
    BY <2>1, FinishLeads
  <2>2. CASE HasScore /\ Go(r, "approve_commit")
    <3>1. [req[r] EXCEPT !.pc = "approve_commit"].pc = "approve_commit"
      BY DEF TypeOK, Request
    <3>. QED
      BY <1>1, <2>2, <3>1 DEF Go, Leads
  <2>. QED
    BY <1>1, <2>1, <2>2 DEF ApproveEval
<1>2. CASE ResubmitCommit(r)
  <2>1. CASE Finish(r)
    BY <2>1, FinishLeads
  <2>2. CASE Go(r, "resubmit_announce")
    <3>1. [req[r] EXCEPT !.pc = "resubmit_announce"].pc = "resubmit_announce"
      BY DEF TypeOK, Request
    <3>. QED
      BY <1>2, <2>2, <3>1 DEF Go, Leads
  <2>. QED
    BY <1>2, <2>1, <2>2 DEF ResubmitCommit
<1>3. CASE ResubmitPending(r)
  <2>1. CASE Finish(r)
    BY <2>1, FinishLeads
  <2>2. ASSUME NEW i,
               req' = [req EXCEPT ![r].pending = i, ![r].pc = "resubmit_commit"]
        PROVE  \E q : req' = [req EXCEPT ![r] = q] /\ Leads(r, q)
    <3> DEFINE q == [req[r] EXCEPT !.pending = i, !.pc = "resubmit_commit"]
    <3>1. q.pc = "resubmit_commit"
      BY DEF TypeOK, Request
    <3>2. req' = [req EXCEPT ![r] = q]
      BY <2>2 DEF TypeOK
    <3> HIDE DEF q
    <3>. QED
      BY <3>1, <3>2 DEF Leads
  <2>. QED
    BY <1>3, <2>1, <2>2 DEF ResubmitPending
<1>4. CASE RevisionRead(r)
  BY <1>4, FinishLeads, ReadLeads DEF RevisionRead, Elsewhere, Steps
<1>5. CASE EvaluationSave(r) \/ EvaluationRead(r)
  BY <1>5, FinishLeads, GoLeads DEF EvaluationSave, EvaluationRead, Elsewhere, Steps
<1>6. CASE \/ StatusWrite(r) \/ EvaluationPromote(r) \/ RevisionCommit(r)
           \/ ResubmitAnnounce(r) \/ ApproveCommit(r) \/ ReplaceWrite(r)
           \/ FinalizeWrite(r)
  BY <1>6, FinishLeads DEF StatusWrite, EvaluationPromote, RevisionCommit,
     ResubmitAnnounce, ApproveCommit, ReplaceWrite, FinalizeWrite
<1>. QED
  BY <1>1, <1>2, <1>3, <1>4, <1>5, <1>6 DEF Continue

\* What a step does to what requests remember.
LEMMA StepLeads ==
  ASSUME TypeOK, [Next]_vars
  PROVE  \/ req' = req
         \/ \E r \in Requests : \E q : req' = [req EXCEPT ![r] = q] /\ Leads(r, q)
<1>1. CASE \E a \in Auditors : AssignAuditor(a)
  BY <1>1 DEF AssignAuditor
<1>2. CASE \E r \in Requests : Begin(r)
  BY <1>2, BeginLeads
<1>3. CASE \E r \in Requests : Continue(r)
  BY <1>3, ContinueLeads
<1>4. CASE \E r \in Requests : Crash(r)
  BY <1>4, FinishLeads DEF Crash
<1>5. CASE UNCHANGED vars
  BY <1>5 DEF vars
<1>. QED
  BY <1>1, <1>2, <1>3, <1>4, <1>5 DEF Next

-----------------------------------------------------------------------------
(* W3-M11: an approval has an evaluation behind it. *)

Evaluated == \E u \in Users : evals[u] # "none"

\* An evaluation is there from the check of an approval to its commit, and
\* from then on.
EvaluationInv ==
    /\ sub.status = "approved" => Evaluated
    /\ \A r \in Requests : At(r, "approve_commit") => Evaluated

LEMMA EvaluationInvInit == Init => EvaluationInv
  BY DEF Init, EvaluationInv, At, Idle

\* An evaluation is saved over, never taken back.
LEMMA EvaluationStays == TypeOK /\ Evaluated /\ [Next]_vars => Evaluated'
<1> SUFFICES ASSUME TypeOK, Evaluated, [Next]_vars PROVE Evaluated'
  OBVIOUS
<1>1. CASE \E r \in Requests : EvaluationSave(r)
  <2>1. PICK r \in Requests : EvaluationSave(r)
    BY <1>1
  <2>2. PICK score \in {"unscored", "scored"} :
          evals' = [evals EXCEPT ![req[r].who] = score]
    BY <2>1 DEF EvaluationSave
  <2>3. req[r].who \in Users
    BY DEF TypeOK, Request
  <2>. QED
    BY <2>2, <2>3 DEF TypeOK, Evaluated
<1>2. CASE ~\E r \in Requests : EvaluationSave(r)
  <2>1. evals' = evals
    <3>1. CASE \E a \in Auditors : AssignAuditor(a)
      BY <3>1 DEF AssignAuditor
    <3>2. CASE \E r \in Requests : Begin(r)
      BY <3>2 DEF Begin, StatusRead, EvaluationCheck, RevisionCheck, ResubmitRead,
         ApproveRead, ReplaceLock, FinalizeRead
    <3>3. CASE \E r \in Requests : Continue(r)
      BY <1>2, <3>3 DEF Continue, StatusWrite, EvaluationRead, EvaluationPromote,
         RevisionRead, RevisionCommit, ResubmitPending, ResubmitCommit,
         ResubmitAnnounce, ApproveEval, ApproveCommit, ReplaceWrite, FinalizeWrite
    <3>4. CASE \E r \in Requests : Crash(r)
      BY <3>4 DEF Crash
    <3>5. CASE UNCHANGED vars
      BY <3>5 DEF vars
    <3>. QED
      BY <3>1, <3>2, <3>3, <3>4, <3>5 DEF Next
  <2>. QED
    BY <2>1 DEF Evaluated
<1>. QED
  BY <1>1, <1>2

\* Whoever gets to the commit of an approval found a score.
LEMMA CommitsAfterScore ==
  ASSUME RoundsInv, [Next]_vars, NEW s \in Requests, At(s, "approve_commit")'
  PROVE  At(s, "approve_commit") \/ Evaluated
<1>1. TypeOK /\ req \in [Requests -> Request]
  BY DEF RoundsInv, TypeOK
<1>2. CASE req' = req
  BY <1>2 DEF At
<1>3. ASSUME NEW r \in Requests, NEW q, req' = [req EXCEPT ![r] = q], Leads(r, q)
      PROVE  At(s, "approve_commit") \/ Evaluated
  <2>1. CASE s = r
    BY <1>1, <1>3, <2>1 DEF At, Leads, HasScore, Evaluated
  <2>2. CASE s # r
    BY <1>1, <1>3, <2>2 DEF At
  <2>. QED
    BY <2>1, <2>2
<1>. QED
  BY <1>1, <1>2, <1>3, StepLeads

\* Only the commit of an approval makes a submission approved.
LEMMA ApprovedByCommit ==
  ASSUME RoundsInv, [Next]_vars, sub.status # "approved", sub'.status = "approved"
  PROVE  \E r \in Requests : At(r, "approve_commit")
<1>0. TypeOK /\ sub \in Submission
  BY DEF RoundsInv, TypeOK
<1>1. ASSUME NEW a \in Auditors, AssignAuditor(a) PROVE FALSE
  BY <1>0, <1>1 DEF AssignAuditor, Submission
<1>2. ASSUME NEW r \in Requests, Begin(r) PROVE FALSE
  BY <1>2 DEF Begin, StatusRead, EvaluationCheck, RevisionCheck, ResubmitRead,
     ApproveRead, ReplaceLock, FinalizeRead
<1>3. ASSUME NEW r \in Requests, Continue(r), ~ApproveCommit(r) PROVE FALSE
  <2>1. CASE StatusWrite(r)
    <3>1. req[r].target \in Settable
      BY <2>1 DEF StatusWrite, At, RoundsInv, RequestSound
    <3>. QED
      BY <1>0, <2>1, <3>1 DEF StatusWrite, Settable, Submission
  <2>2. CASE RevisionCommit(r)
    BY <1>0, <2>2 DEF RevisionCommit, Submission
  <2>3. CASE ResubmitCommit(r)
    BY <1>0, <2>3 DEF ResubmitCommit, ResubmitWrite, Submission
  <2>4. CASE ReplaceWrite(r)
    BY <1>0, <2>4 DEF ReplaceWrite, Submission
  <2>. QED
    BY <1>0, <1>3, <2>1, <2>2, <2>3, <2>4 DEF Continue, EvaluationSave, EvaluationRead,
       EvaluationPromote, RevisionRead, ResubmitPending, ResubmitAnnounce,
       ApproveEval, FinalizeWrite, Submission
<1>4. ASSUME NEW r \in Requests, Crash(r) PROVE FALSE
  BY <1>4 DEF Crash
<1>. QED
  BY <1>1, <1>2, <1>3, <1>4 DEF Next, vars, ApproveCommit

\* W3-M11: an approved submission has an evaluation, however the calls that
\* evaluate, assign and approve it interleave.
THEOREM ApprovalsAreEvaluated == Spec => []ApprovedWasEvaluated
<1>1. RoundsInv /\ EvaluationInv /\ [Next]_vars => EvaluationInv'
  <2> SUFFICES ASSUME RoundsInv, EvaluationInv, [Next]_vars PROVE EvaluationInv'
    OBVIOUS
  <2>1. Evaluated => Evaluated'
    BY EvaluationStays DEF RoundsInv
  <2>2. sub'.status = "approved" => Evaluated'
    BY <2>1, ApprovedByCommit DEF EvaluationInv
  <2>3. \A r \in Requests : At(r, "approve_commit")' => Evaluated'
    BY <2>1, CommitsAfterScore DEF EvaluationInv
  <2>. QED
    BY <2>2, <2>3 DEF EvaluationInv
<1>2. EvaluationInv => ApprovedWasEvaluated
  BY DEF EvaluationInv, Evaluated, ApprovedWasEvaluated
<1>. QED
  BY <1>1, <1>2, EvaluationInvInit, RoundsCorrect, PTL DEF Spec

-----------------------------------------------------------------------------
(* A resubmission is audited and announced once per round. *)

Answered(rows, n) == n \in DOMAIN rows /\ rows[n].resolved

Logged(log, n) == \E i \in DOMAIN log : log[i] = n

\* Rounds in the log are answered; a call still to announce its round is the
\* only one to do so, and its round is answered but not in the log.
AnnounceInv ==
    /\ ResubmittedOnce
    /\ \A i \in DOMAIN resubmitLog : Answered(revs, resubmitLog[i])
    /\ \A r \in Requests :
          At(r, "resubmit_announce") =>
             /\ Answered(revs, req[r].round)
             /\ ~Logged(resubmitLog, req[r].round)
             /\ \A s \in Requests \ {r} :
                   At(s, "resubmit_announce") => req[s].round # req[r].round

LEMMA AnnounceInvInit == Init => AnnounceInv
<1> SUFFICES ASSUME Init PROVE AnnounceInv
  OBVIOUS
<1>1. \A r \in Requests : ~At(r, "resubmit_announce")
  BY DEF Init, At, Idle
<1>2. DOMAIN resubmitLog = {}
  BY DEF Init
<1>. QED
  BY <1>1, <1>2 DEF AnnounceInv, ResubmittedOnce, IsInjective

\* An answer is never taken back.
LEMMA AnswerStays ==
  ASSUME RoundsInv, [Next]_vars, NEW n, Answered(revs, n)
  PROVE  Answered(revs', n)
<1>0. TypeOK /\ n \in 1 .. Len(revs) /\ Len(revs) \in Nat /\ revs \in Seq(Revision)
  BY LenProperties DEF RoundsInv, TypeOK, Answered
<1>1. CASE Quiet
  BY <1>1 DEF Quiet, Answered
<1>2. CASE OpensRound
  <2>1. PICK r \in Requests :
          revs' = Append(revs, [round |-> NewRound(r), docs |-> req[r].docs,
                                resolved |-> FALSE])
    BY <1>2 DEF OpensRound
  <2>2. [round |-> NewRound(r), docs |-> req[r].docs, resolved |-> FALSE] \in Revision
    BY <1>0 DEF TypeOK, Request, NewRound, Revision
  <2>3. /\ revs'[n] = revs[n]
        /\ revs' \in Seq(Revision)
        /\ Len(revs') = Len(revs) + 1
    BY <1>0, <2>1, <2>2, AppendProperties
  <2>4. n \in DOMAIN revs'
    BY <1>0, <2>3, LenProperties
  <2>. QED
    BY <2>3, <2>4 DEF Answered
<1>3. CASE ResolvesRound
  <2>1. PICK r \in Requests :
          /\ req[r].pending \in DOMAIN revs
          /\ revs' = [revs EXCEPT ![req[r].pending].resolved = TRUE]
    BY <1>3 DEF ResolvesRound, Unresolved
  <2>. QED
    BY <1>0, <2>1, RevisionResolved DEF Answered
<1>. QED
  BY <1>1, <1>2, <1>3, StepKinds

\* A round appended to the log is new there.
LEMMA LogGrows ==
  ASSUME TypeOK, ResubmittedOnce, NEW n \in Nat, ~Logged(resubmitLog, n),
         resubmitLog' = Append(resubmitLog, n)
  PROVE  /\ ResubmittedOnce'
         /\ \A m : Logged(resubmitLog', m) <=> Logged(resubmitLog, m) \/ m = n
<1>1. /\ resubmitLog \in Seq(Nat)
      /\ DOMAIN resubmitLog = 1 .. Len(resubmitLog)
      /\ Len(resubmitLog) \in Nat
  BY LenProperties DEF TypeOK
<1>2. /\ DOMAIN resubmitLog' = 1 .. Len(resubmitLog) + 1
      /\ \A i \in 1 .. Len(resubmitLog) : resubmitLog'[i] = resubmitLog[i]
      /\ resubmitLog'[Len(resubmitLog) + 1] = n
  <2>1. /\ resubmitLog' \in Seq(Nat)
        /\ Len(resubmitLog') = Len(resubmitLog) + 1
        /\ \A i \in 1 .. Len(resubmitLog) : resubmitLog'[i] = resubmitLog[i]
        /\ resubmitLog'[Len(resubmitLog) + 1] = n
    BY <1>1, AppendProperties
  <2>. QED
    BY <2>1, LenProperties
<1>3. \A i \in 1 .. Len(resubmitLog) + 1 :
        i \in 1 .. Len(resubmitLog) \/ i = Len(resubmitLog) + 1
  BY <1>1
<1>4. ResubmittedOnce'
  BY <1>1, <1>2, <1>3 DEF ResubmittedOnce, IsInjective, Logged
<1>5. \A m : Logged(resubmitLog', m) <=> Logged(resubmitLog, m) \/ m = n
  <2>1. Len(resubmitLog) + 1 \in DOMAIN resubmitLog'
    BY <1>1, <1>2
  <2>2. \A i \in DOMAIN resubmitLog : i \in DOMAIN resubmitLog'
    BY <1>1, <1>2
  <2>. QED
    BY <1>1, <1>2, <1>3, <2>1, <2>2 DEF Logged
<1>. QED
  BY <1>4, <1>5

\* The round a resubmission answers was neither logged nor about to be.
LEMMA FreshAnswer ==
  ASSUME RoundsInv, AnnounceInv, NEW r \in Requests, ResubmitCommit(r),
         ResubmitCommits(r),
         revs' = [revs EXCEPT ![req[r].pending].resolved = TRUE]
  PROVE  /\ req[r].round \in Nat
         /\ ~Logged(resubmitLog, req[r].round)
         /\ \A s \in Requests : At(s, "resubmit_announce") => req[s].round # req[r].round
         /\ Answered(revs', req[r].round)
<1>1. /\ req[r].pending = Len(revs) /\ req[r].pending \in DOMAIN revs
      /\ ~revs[req[r].pending].resolved
  BY ResolvedIsCurrent DEF ResubmitCommits, ResubmitCommit, Unresolved
<1>2. req[r].round = sub.round /\ Len(revs) = sub.round /\ sub.round \in Nat
  BY DEF ResubmitCommits, RowUnchanged, RoundsInv, RoundsNumbered, TypeOK, Submission
<1>3. ~Answered(revs, req[r].round)
  BY <1>1, <1>2 DEF Answered
<1>4. Answered(revs', req[r].round)
  <2>1. /\ DOMAIN revs' = DOMAIN revs
        /\ revs'[req[r].pending].resolved
    <3>1. revs'[req[r].pending] = [revs[req[r].pending] EXCEPT !.resolved = TRUE]
      BY <1>1, RevisionResolved DEF RoundsInv
    <3>2. revs[req[r].pending] \in Revision
      BY <1>1, ElementOfSeq, LenProperties DEF RoundsInv, TypeOK
    <3>. QED
      BY <3>1, <3>2 DEF Revision
  <2>. QED
    BY <1>1, <1>2, <2>1 DEF Answered
<1>. QED
  BY <1>2, <1>3, <1>4 DEF AnnounceInv, Logged

\* A step that neither logs nor begins to announce.
LEMMA SilentStep ==
  ASSUME RoundsInv, AnnounceInv, [Next]_vars, resubmitLog' = resubmitLog,
         \A s \in Requests :
            At(s, "resubmit_announce")' => /\ At(s, "resubmit_announce")
                                           /\ req'[s].round = req[s].round
  PROVE  AnnounceInv'
<1>1. \A n : Logged(resubmitLog', n) <=> Logged(resubmitLog, n)
  BY DEF Logged
<1>2. ResubmittedOnce'
  BY DEF AnnounceInv, ResubmittedOnce, IsInjective
<1>3. \A i \in DOMAIN resubmitLog' : Answered(revs', resubmitLog'[i])
  BY AnswerStays DEF AnnounceInv
<1>4. ASSUME NEW s \in Requests, At(s, "resubmit_announce")'
      PROVE  /\ Answered(revs', req'[s].round)
             /\ ~Logged(resubmitLog', req'[s].round)
             /\ \A p \in Requests \ {s} :
                   At(p, "resubmit_announce")' => req'[p].round # req'[s].round
  <2>1. Answered(revs, req[s].round) /\ ~Logged(resubmitLog, req[s].round)
    BY <1>4 DEF AnnounceInv
  <2>2. Answered(revs', req'[s].round)
    BY <1>4, <2>1, AnswerStays DEF Answered
  <2>. QED
    BY <1>1, <1>4, <2>1, <2>2 DEF AnnounceInv
<1>. QED
  BY <1>2, <1>3, <1>4 DEF AnnounceInv

\* A step of one request that logs its round and ends.
LEMMA LoggingStep ==
  ASSUME RoundsInv, AnnounceInv, [Next]_vars, NEW r \in Requests,
         req[r].round \in Nat, ~Logged(resubmitLog, req[r].round),
         Answered(revs', req[r].round),
         resubmitLog' = Append(resubmitLog, req[r].round), Finish(r),
         \A s \in Requests \ {r} :
            At(s, "resubmit_announce") => req[s].round # req[r].round
  PROVE  AnnounceInv'
<1>0. TypeOK /\ req \in [Requests -> Request]
  BY DEF RoundsInv, TypeOK
<1>1. /\ ResubmittedOnce'
      /\ \A m : Logged(resubmitLog', m) <=> Logged(resubmitLog, m) \/ m = req[r].round
  BY <1>0, LogGrows DEF AnnounceInv
<1>2. \A m : Logged(resubmitLog', m) => Answered(revs', m)
  BY <1>1, AnswerStays DEF AnnounceInv, Logged
<1>3. \A s \in Requests :
         At(s, "resubmit_announce")' => /\ s # r
                                        /\ At(s, "resubmit_announce")
                                        /\ req'[s] = req[s]
  BY <1>0 DEF Finish, At, Idle
<1>4. ASSUME NEW s \in Requests, At(s, "resubmit_announce")'
      PROVE  /\ Answered(revs', req'[s].round)
             /\ ~Logged(resubmitLog', req'[s].round)
             /\ \A p \in Requests \ {s} :
                   At(p, "resubmit_announce")' => req'[p].round # req'[s].round
  <2>1. /\ Answered(revs, req[s].round) /\ ~Logged(resubmitLog, req[s].round)
        /\ req[s].round # req[r].round
    BY <1>3, <1>4 DEF AnnounceInv
  <2>2. Answered(revs', req'[s].round)
    BY <1>3, <1>4, <2>1, AnswerStays DEF Answered
  <2>. QED
    BY <1>1, <1>3, <1>4, <2>1, <2>2 DEF AnnounceInv
<1>5. \A i \in DOMAIN resubmitLog' : Answered(revs', resubmitLog'[i])
  BY <1>2 DEF Logged
<1>. QED
  BY <1>1, <1>4, <1>5 DEF AnnounceInv

LEMMA AnnounceInvStep == RoundsInv /\ AnnounceInv /\ [Next]_vars => AnnounceInv'
<1> SUFFICES ASSUME RoundsInv, AnnounceInv, [Next]_vars PROVE AnnounceInv'
  OBVIOUS
<1>0. TypeOK /\ req \in [Requests -> Request]
  BY DEF RoundsInv, TypeOK
<1>1. ASSUME NEW r \in Requests, ResubmitAnnounce(r) PROVE AnnounceInv'
  <2>1. /\ At(r, "resubmit_announce") /\ Finish(r)
        /\ resubmitLog' = Append(resubmitLog, req[r].round)
        /\ revs' = revs
    BY <1>1 DEF ResubmitAnnounce
  <2>2. /\ Answered(revs, req[r].round)
        /\ ~Logged(resubmitLog, req[r].round)
        /\ \A s \in Requests \ {r} :
              At(s, "resubmit_announce") => req[s].round # req[r].round
    BY <2>1 DEF AnnounceInv
  <2>3. req[r].round \in Nat
    BY <1>0 DEF Request
  <2>. QED
    BY <2>1, <2>2, <2>3, LoggingStep
<1>2. ASSUME NEW r \in Requests, ResubmitCommit(r) PROVE AnnounceInv'
  <2>1. CASE /\ ResubmitCommits(r)
             /\ revs' = [revs EXCEPT ![req[r].pending].resolved = TRUE]
             /\ \/ resubmitLog' = Append(resubmitLog, req[r].round) /\ Finish(r)
                \/ Go(r, "resubmit_announce") /\ resubmitLog' = resubmitLog
    <3>1. /\ req[r].round \in Nat
          /\ ~Logged(resubmitLog, req[r].round)
          /\ \A s \in Requests : At(s, "resubmit_announce") => req[s].round # req[r].round
          /\ Answered(revs', req[r].round)
      BY <1>2, <2>1, FreshAnswer
    <3>2. CASE resubmitLog' = Append(resubmitLog, req[r].round) /\ Finish(r)
      BY <3>1, <3>2, LoggingStep
    <3>3. CASE Go(r, "resubmit_announce") /\ resubmitLog' = resubmitLog
      <4>1. \A s \in Requests \ {r} : req'[s] = req[s]
        BY <1>0, <3>3 DEF Go
      <4>2. req'[r].round = req[r].round
        BY <1>0, <3>3 DEF Go, Request
      <4>3. ResubmittedOnce'
        BY <3>3 DEF AnnounceInv, ResubmittedOnce, IsInjective
      <4>4. \A i \in DOMAIN resubmitLog' : Answered(revs', resubmitLog'[i])
        BY <3>3, AnswerStays DEF AnnounceInv
      <4>5. ASSUME NEW s \in Requests, At(s, "resubmit_announce")'
            PROVE  /\ Answered(revs', req'[s].round)
                   /\ ~Logged(resubmitLog', req'[s].round)
                   /\ \A p \in Requests \ {s} :
                         At(p, "resubmit_announce")' => req'[p].round # req'[s].round
        <5>1. CASE s = r
          BY <3>1, <3>3, <4>1, <4>2, <5>1 DEF At
        <5>2. CASE s # r
          <6>1. /\ Answered(revs, req[s].round) /\ ~Logged(resubmitLog, req[s].round)
                /\ \A p \in Requests \ {s} :
                      At(p, "resubmit_announce") => req[p].round # req[s].round
            BY <4>1, <4>5, <5>2 DEF AnnounceInv, At
          <6>2. Answered(revs', req[s].round)
            BY <6>1, AnswerStays
          <6>3. req[s].round # req[r].round
            BY <3>1, <4>1, <4>5, <5>2 DEF At
          <6>. QED
            BY <3>3, <4>1, <4>2, <5>2, <6>1, <6>2, <6>3 DEF At
        <5>. QED
          BY <5>1, <5>2
      <4>. QED
        BY <4>3, <4>4, <4>5 DEF AnnounceInv
    <3>. QED
      BY <2>1, <3>2, <3>3
  <2>2. CASE Finish(r) /\ resubmitLog' = resubmitLog
    BY <1>0, <2>2, SilentStep DEF Finish, At, Idle
  <2>. QED
    BY <1>2, <2>1, <2>2 DEF ResubmitCommit, ResubmitWrite
<1>3. CASE ~\E r \in Requests : ResubmitAnnounce(r) \/ ResubmitCommit(r)
  <2>1. resubmitLog' = resubmitLog
    <3>1. CASE \E a \in Auditors : AssignAuditor(a)
      BY <3>1 DEF AssignAuditor
    <3>2. CASE \E r \in Requests : Begin(r)
      BY <3>2 DEF Begin, StatusRead, EvaluationCheck, RevisionCheck, ResubmitRead,
         ApproveRead, ReplaceLock, FinalizeRead
    <3>3. CASE \E r \in Requests : Continue(r)
      BY <1>3, <3>3 DEF Continue, StatusWrite, EvaluationSave, EvaluationRead,
         EvaluationPromote, RevisionRead, RevisionCommit, ResubmitPending,
         ApproveEval, ApproveCommit, ReplaceWrite, FinalizeWrite
    <3>4. CASE \E r \in Requests : Crash(r)
      BY <3>4 DEF Crash
    <3>5. CASE UNCHANGED vars
      BY <3>5 DEF vars
    <3>. QED
      BY <3>1, <3>2, <3>3, <3>4, <3>5 DEF Next
  <2>2. ASSUME NEW s \in Requests, At(s, "resubmit_announce")'
        PROVE  At(s, "resubmit_announce") /\ req'[s].round = req[s].round
    <3>1. CASE req' = req
      BY <2>2, <3>1 DEF At
    <3>2. ASSUME NEW r \in Requests, NEW q, req' = [req EXCEPT ![r] = q], Leads(r, q)
          PROVE  At(s, "resubmit_announce") /\ req'[s].round = req[s].round
      BY <1>0, <1>3, <2>2, <3>2 DEF At, Leads
    <3>. QED
      BY <1>0, <3>1, <3>2, StepLeads
  <2>. QED
    BY <2>1, <2>2, SilentStep
<1>. QED
  BY <1>1, <1>2, <1>3

\* However often a resubmission is retried, with a key or without, it is audited
\* and announced at most once per round.
THEOREM ResubmissionsToldOnce == Spec => []ResubmittedOnce
<1>1. AnnounceInv => ResubmittedOnce
  BY DEF AnnounceInv
<1>. QED
  BY <1>1, AnnounceInvInit, AnnounceInvStep, RoundsCorrect, PTL DEF Spec

=============================================================================
