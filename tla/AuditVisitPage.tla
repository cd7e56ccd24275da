--------------------------- MODULE AuditVisitPage ---------------------------
(***************************************************************************)
(* An audit visit on site (app/audits/[id]) and its handlers.  The page    *)
(* shows what is entered before it is stored, sends text some time after   *)
(* it was typed, looks at no answer, and reads the visit again after most  *)
(* commands.  A handler runs in a transaction that holds the visit's row,  *)
(* so it is one step.  The report says what the auditors' evidence was.    *)
(***************************************************************************)
EXTENDS PageCalls

CONSTANT Items   \* of the checklist

Statuses == {"scheduled", "in_progress", "completed", "report_submitted", "report_accepted"}
Results == {None, "given"}    \* conform, a nonconformity, an observation, not applicable
Texts == {None, "typed"}    \* evidence, note or corrective action
Checks == [result : Results, text : Texts]
Blank == [result |-> None, text |-> None]

-----------------------------------------------------------------------------
(* The page *)

Mounted == [visit |-> None, items |-> [i \in Items |-> None], fetching |-> TRUE,
            error |-> FALSE, form |-> FALSE]

Does(kind, arg, p) == Gives(call, Sent(kind, arg), p)

\* A visit with one item, on the page of its auditor or of the owner; without it, it is as it
\* was before its checklist. The timers do not belong to what is mounted. Evidence besides
\* the checklist (nonconformities, photos, signatures, places) is not told apart.
Init ==
  /\ LET items == [i \in Items |-> IF i = CHOOSE x \in Items : TRUE THEN Blank ELSE None]
         shown == [Mounted EXCEPT !.visit = "scheduled", !.items = items, !.fetching = FALSE]
     IN \E owner \in BOOLEAN :
          /\ server = [status |-> "scheduled", items |-> items, more |-> FALSE, report |-> None]
          /\ page = [shown |-> shown, owner |-> owner, timers |-> [i \in Items |-> None]]
  /\ call = [c \in Calls |-> None]
  /\ asked = 0 /\ lost = 0

Usable == page.shown.visit # None /\ ~page.shown.fetching /\ ~page.shown.error
Listed(i) == Usable /\ page.shown.items[i] # None

\* The page is left and opened again: timers that are set go off all the same.
Return ==
  /\ Usable /\ asked < MaxAsked /\ asked' = asked + 1
  /\ Free(call) # {} /\ call' = Put(Unmounted, Sent("visit", None))
  /\ page' = [page EXCEPT !.shown = Mounted]
  /\ UNCHANGED <<server, lost>>

UpdateStatus ==
  \/ Usable /\ page.shown.visit = "scheduled" /\ Does("status", "in_progress", page)
  \/ Usable /\ page.shown.visit = "in_progress" /\ Does("status", "completed", page)

CaptureGPS == Usable /\ Does("evidence", None, page)

UploadSignature ==
  Usable /\ page.shown.visit \in {"in_progress", "completed"} /\ Does("evidence", None, page)

\* Shown at once; the timer starts anew with every key.
UpdateItemField(i) ==
  /\ Listed(i) /\ asked < MaxAsked /\ asked' = asked + 1
  /\ page' = [page EXCEPT !.shown.items[i].text = "typed", !.timers[i] = "typed"]
  /\ UNCHANGED <<server, call, lost>>

\* After 600 ms, wherever the user is by now.
TimerEnds(i) ==
  /\ page.timers[i] # None /\ Free(call) # {}
  /\ Goes(Put(call, Sent("text", [id |-> i, to |-> page.timers[i]])), [page EXCEPT !.timers[i] = None])

SetItemResult(i) ==
  Listed(i) /\ Does("result", [id |-> i, to |-> "given"], [page EXCEPT !.shown.items[i].result = "given"])

DeleteItem(i) == Listed(i) /\ Does("delete", i, page)

OpenForm == Usable /\ ~page.shown.form /\ Turns([page EXCEPT !.shown.form = TRUE])
AddItem == Usable /\ page.shown.form /\ Does("add", None, page)
AddNcr == Usable /\ page.shown.form /\ Does("addNcr", None, page)

\* Offered while no item is shown.
PopulateChecklist ==
  Usable /\ (\A i \in Items : page.shown.items[i] = None) /\ Does("populate", None, page)

UploadItemPhoto(i) == Listed(i) /\ Does("evidence", None, page)

\* On the visit's page, or added to a nonconformity there.
UploadNcrPhoto == Usable /\ server.more /\ Does("evidence", None, page)

GenerateReport == Usable /\ Does("report", None, page)

\* About the certificates of the business, not about the visit.
SubmitDecision == Usable /\ page.owner /\ Does("decision", None, page)

-----------------------------------------------------------------------------
(* The handlers *)

At(c, kinds, stage) == call[c] # None /\ call[c].kind \in kinds /\ call[c].stage = stage
Becomes(c, stage, s) ==
  call' = [call EXCEPT ![c].stage = stage] /\ server' = s /\ UNCHANGED <<page, asked, lost>>

\* Mutant: what has been reported may still be changed.
StillOpen == server.status # "report_accepted"

\* "Submitted or accepted audit evidence is immutable"
Mutable == server.status \notin {"report_submitted", "report_accepted"}

Missing == {i \in Items : server.items[i] = None}
Changes(c, allowed, s) == IF allowed THEN Becomes(c, "ok", s) ELSE Becomes(c, "refused", server)

UpdateVisitStatus(c) ==
  /\ At(c, {"status"}, "sent")
  /\ Changes(c, server.status \notin {"report_submitted", "report_accepted"},
             [server EXCEPT !.status = call[c].arg])

UpdateItem(c) ==
  /\ At(c, {"result", "text"}, "sent")
  /\ LET i == call[c].arg.id  to == call[c].arg.to
     IN Changes(c, Mutable /\ i \notin Missing,
          IF call[c].kind = "result" THEN [server EXCEPT !.items[i].result = to]
          ELSE [server EXCEPT !.items[i].text = to])

RemoveItem(c) ==
  /\ At(c, {"delete"}, "sent")
  /\ Changes(c, Mutable /\ call[c].arg \notin Missing, [server EXCEPT !.items[call[c].arg] = None])

InsertItem(c) ==
  /\ At(c, {"add"}, "sent")
  /\ Changes(c, Mutable /\ Missing # {}, [server EXCEPT !.items[CHOOSE i \in Missing : TRUE] = Blank])

\* All items go, with what was entered of them, and those of the template, if the visit has
\* one, come: here one, under a new identifier.
Populate(c) ==
  /\ At(c, {"populate"}, "sent")
  /\ Changes(c, Mutable /\ Missing # {},
       [server EXCEPT !.items = [i \in Items |-> IF i = CHOOSE x \in Missing : TRUE THEN Blank ELSE None]])

AddEvidence(c) ==
  At(c, {"addNcr", "evidence"}, "sent") /\ Changes(c, Mutable, [server EXCEPT !.more = TRUE])

Evidence == [items |-> server.items, more |-> server.more]
Reported == [server EXCEPT !.status = "report_submitted", !.report = Evidence]

\* By the assigned auditor only; whatever the visit's status has been.
WriteReport(c) == At(c, {"report"}, "sent") /\ Changes(c, Mutable /\ ~page.owner, Reported)

Decide(c) == At(c, {"decision"}, "sent") /\ Changes(c, page.owner, server)

GetVisit(c) == At(c, {"visit"}, "sent") /\ Answers(c, [visit |-> server.status, items |-> server.items], server)

\* The auditor's other device, and the owner who accepts the report.
OthersReport == Mutable /\ server' = Reported /\ UNCHANGED <<page, call, asked, lost>>
AcceptReport ==
  /\ server.status = "report_submitted"
  /\ server' = [server EXCEPT !.status = "report_accepted"] /\ UNCHANGED <<page, call, asked, lost>>

Serves(c) ==
  \/ UpdateVisitStatus(c) \/ UpdateItem(c) \/ RemoveItem(c) \/ InsertItem(c) \/ Populate(c)
  \/ AddEvidence(c) \/ WriteReport(c) \/ Decide(c) \/ GetVisit(c)

-----------------------------------------------------------------------------
(* What follows an answer: the same if it is an error, nothing if it does not come *)

ReadAgain(c, p) == Goes([call EXCEPT ![c] = Sent("visit", None)], p)
Silent(c) == ~Ok(c) /\ Goes(Dropped(c), page)

\* An error that is shown once stays.
GotVisit(c) ==
  /\ Arrived(c) /\ call[c].kind = "visit"
  /\ Goes(Dropped(c),
       IF Ok(c) THEN [page EXCEPT !.shown.fetching = FALSE, !.shown.visit = call[c].answer.visit,
                        !.shown.items = call[c].answer.items]
       ELSE [page EXCEPT !.shown.fetching = FALSE, !.shown.error = TRUE])

GotCommand(c) ==
  /\ Arrived(c)
  /\ call[c].kind \in {"status", "evidence", "populate", "report", "decision"}
  /\ ReadAgain(c, page) \/ Silent(c)

GotAdded(c) ==
  /\ Arrived(c) /\ call[c].kind \in {"add", "addNcr"}
  /\ ReadAgain(c, [page EXCEPT !.shown.form = FALSE]) \/ Silent(c)

GotDeleted(c) ==
  /\ Arrived(c) /\ call[c].kind = "delete"
  /\ Goes(Dropped(c), [page EXCEPT !.shown.items[call[c].arg] = None]) \/ Silent(c)

GotField(c) == Arrived(c) /\ call[c].kind \in {"result", "text"} /\ Goes(Dropped(c), page)

-----------------------------------------------------------------------------
Starts ==
  \/ \E i \in Items : UpdateItemField(i) \/ SetItemResult(i) \/ DeleteItem(i) \/ UploadItemPhoto(i)
  \/ Return \/ UpdateStatus \/ CaptureGPS \/ UploadSignature \/ OpenForm \/ AddItem \/ AddNcr
  \/ PopulateChecklist \/ UploadNcrPhoto \/ GenerateReport \/ SubmitDecision

TimersEnd == \E i \in Items : TimerEnds(i)

Continues(c) ==
  \/ GotVisit(c) \/ GotCommand(c) \/ GotAdded(c) \/ GotDeleted(c) \/ GotField(c) \/ Unheard(c)

Next ==
  \/ Starts \/ TimersEnd \/ OthersReport \/ AcceptReport
  \/ \E c \in Calls : Serves(c) \/ Refuses(c) \/ Loses(c) \/ Continues(c)

-----------------------------------------------------------------------------
(* Properties *)

TypeOK ==
  /\ server.status \in Statuses /\ server.items \in [Items -> Checks \cup {None}]
  /\ server.more \in BOOLEAN
  /\ page.shown.visit \in Statuses \cup {None}
  /\ page.shown.items \in [Items -> Checks \cup {None}] /\ page.timers \in [Items -> Texts]

\* A report that has been submitted, or accepted, stands for the evidence as it is: nothing
\* typed before and sent late, repeated or done by somebody else changes it.
ReportedIsFrozen == server.report # None => server.report = Evidence

\* The visit is loaded, and what was typed has been sent, even if the page was left.
Rests == ~page.shown.fetching /\ \A i \in Items : page.timers[i] = None
=============================================================================
