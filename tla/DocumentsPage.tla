--------------------------- MODULE DocumentsPage ---------------------------
(***************************************************************************)
(* The page "Kho tài liệu" (app/documents/page.tsx) of a signed-in owner,  *)
(* over the library: what it shows, what it offers, the calls it has under *)
(* way and what it does with their answers.  Answers come in any order; a  *)
(* call may be lost on its way or go on without its answer being heard.    *)
(* Colleagues use the same library from elsewhere.                         *)
(***************************************************************************)
EXTENDS DocumentLibrary

CONSTANTS Stored,    \* the statuses a document may have when the page is opened
          Rights,    \* what the user may do: "upload", "edit", "approve", "own"
          MaxAsked   \* bound: commands given on the page and elsewhere

VARIABLES page, asked
vars == <<doc, main, call, faults, died, page, asked>>

NoModal == [kind |-> None, doc |-> None]
Tags == {"no", "promote", "upload", "evaluate", "row", "silent"}

Request(kind, d, other, after) ==
  [from |-> Page, kind |-> kind, doc |-> d, other |-> other, after |-> after,
   stage |-> "sent", answer |-> None]
Asks(kind, after) == Request(kind, None, None, after)

-----------------------------------------------------------------------------
(* Calls *)

Free(calls) == {c \in Calls : calls[c] = None}
Put(calls, k) == [calls EXCEPT ![CHOOSE c \in Free(calls) : TRUE] = k]
Dropped(c) == [call EXCEPT ![c] = None]

\* A row that is no longer drawn loses its buttons and dialogs: what they sent goes on.
RowGone(calls) ==
  [c \in Calls |-> IF calls[c] # None /\ calls[c].after = "row"
                   THEN [calls[c] EXCEPT !.after = "no"] ELSE calls[c]]

Pending(calls, tag) == \E c \in Calls : calls[c] # None /\ calls[c].after = tag

Shows(p) == page' = p

\* fetchDocs(page): the rows give way to a skeleton while it lasts.
Fetching(p) == [p EXCEPT !.fetching = TRUE, !.modal = NoModal, !.acting = FALSE]

\* The page has been loaded.
Init ==
  /\ doc \in [Docs -> [status : {"unused", "pending", "approved"}, evaluating : {FALSE}, tasks : {0},
                       successor : {None}, parent : {None}, artifact : BOOLEAN]]
  /\ \A d \in Docs : doc[d].status \in Stored[d] /\ (doc[d].artifact <=> doc[d].status = "approved")
  /\ \E chosen \in {None} \cup {e \in Docs : There(e)} :
       main = [root \in Docs |-> IF root = chosen THEN [doc |-> root, at |-> 1] ELSE None]
  /\ died = FALSE /\ faults = 0 /\ asked = 0
  /\ page = [list |-> Snapshot("list"), pending |-> Snapshot("pending"),
             history |-> None, historyError |-> FALSE, loadingHistory |-> None,
             reading |-> {}, loadingEval |-> None, promoting |-> None, removing |-> None,
             uploading |-> FALSE, evaluating |-> None, upload |-> "closed", lang |-> None,
             modal |-> NoModal, acting |-> FALSE, fetching |-> FALSE]
  /\ call = [c \in Calls |-> None]

-----------------------------------------------------------------------------
(* What the page offers *)

\* Dialogs cover the page: what lies under them cannot be used.
Clear ==
  /\ page.history = None /\ page.reading = {} /\ page.upload = "closed"
  /\ page.lang = None /\ page.modal = NoModal

Drawn == ~page.fetching /\ page.list # None
Shown(d) == Clear /\ Drawn /\ page.list.doc = d

\* The buttons of a row.
CanEvaluate(d) ==
  Shown(d) /\ "upload" \in Rights /\ page.evaluating # d /\ ~page.list.evaluating
CanOpenDetail(d) == Shown(d) /\ page.loadingEval # d
CanOpenVersions(d) == Shown(d) /\ page.loadingHistory # d
CanOpenHistory ==
  /\ Clear
  /\ \/ Drawn /\ page.loadingHistory = None
     \/ "own" \in Rights /\ page.pending
CanDelete(d) == Shown(d) /\ "own" \in Rights /\ page.removing # d

\* ApprovalActions: one command per status, while none is under way.
Offers(kind, d) ==
  /\ Shown(d) /\ ~page.acting
  /\ \/ kind = "submit" /\ page.list.status = "draft" /\ "edit" \in Rights
     \/ kind \in {"approve", "reject"} /\ page.list.status = "pending" /\ "approve" \in Rights
     \/ kind = "supersede" /\ page.list.status = "approved" /\ "own" \in Rights

\* The history: a version that is not obsolete may be chosen, one at a time and not
\* while the page reports an error.
CanPromote(d) ==
  /\ page.history # None /\ ~page.historyError
  /\ page.promoting = None
  /\ d \in page.history.rows \ (page.history.obsolete \cup {page.history.current})
  /\ "own" \in Rights

\* The drop zone takes one file at a time, for a type that has been chosen.
CanUpload == page.upload = "file" /\ ~page.uploading

-----------------------------------------------------------------------------
(* What the user does *)

Command == asked < MaxAsked /\ asked' = asked + 1 /\ Free(call) # {}
           /\ UNCHANGED <<server, faults>>
Gives(k, p) == Command /\ call' = Put(call, k) /\ Shows(p)

OpenEval(d) ==
  CanOpenDetail(d) /\ Gives(Request("detail", d, None, "no"), [page EXCEPT !.loadingEval = d])

OpenVersionChain(d) ==
  /\ CanOpenVersions(d)
  /\ Gives(Request("versions", d, None, "no"), [page EXCEPT !.loadingHistory = d])

\* Also the reload that an error in the history offers.
OpenHistory ==
  /\ CanOpenHistory \/ (page.history # None /\ page.historyError)
  /\ Gives(Asks("history", "no"), [page EXCEPT !.loadingHistory = "type", !.historyError = FALSE])

\* The dialogs are closed; the history not while a choice is under way.
CloseHistory ==
  /\ page.history # None /\ page.promoting = None
  /\ Shows([page EXCEPT !.history = None])
  /\ UNCHANGED <<server, call, faults, asked>>

CloseReading ==
  /\ \E dialog \in page.reading : Shows([page EXCEPT !.reading = @ \ {dialog}])
  /\ UNCHANGED <<server, call, faults, asked>>

HandlePromote(d) ==
  CanPromote(d) /\ Gives(Request("promote", d, None, "promote"), [page EXCEPT !.promoting = d])

HandleDelete(d) ==
  CanDelete(d) /\ Gives(Request("delete", d, None, "no"), [page EXCEPT !.removing = d])

\* The upload dialog: a type, then a file; it may be closed and opened again at any time.
UploadDialog ==
  /\ "upload" \in Rights
  /\ Clear \/ page.upload # "closed"
  /\ \E step \in {"closed", "type", "file"} \ {page.upload} :
       /\ step = "file" => page.upload = "type"
       /\ step = "type" => page.upload = "closed"
       /\ Shows([page EXCEPT !.upload = step])
  /\ UNCHANGED <<server, call, faults, asked>>

HandleUpload ==
  CanUpload /\ Gives(Asks("upload", "upload"), [page EXCEPT !.uploading = TRUE])

\* The language is chosen in a dialog over the row that asked for it.
ChooseLanguage ==
  /\ \/ \E d \in Docs : CanEvaluate(d) /\ Shows([page EXCEPT !.lang = d])
     \/ page.lang # None /\ Shows([page EXCEPT !.lang = None])
  /\ UNCHANGED <<server, call, faults, asked>>

HandleEvaluate ==
  /\ page.lang # None
  /\ Gives(Request("evaluate", page.lang, None, "evaluate"),
           [page EXCEPT !.lang = None, !.evaluating = page.lang])

HandleSubmit(d) ==
  /\ Offers("submit", d)
  /\ Gives(Request("submit", d, None, "row"), [page EXCEPT !.acting = TRUE])

OpenModal(kind, d) ==
  /\ Offers(kind, d)
  /\ Shows([page EXCEPT !.modal = [kind |-> kind, doc |-> d]])
  /\ UNCHANGED <<server, call, faults, asked>>

CloseModal ==
  /\ page.modal # NoModal
  /\ Shows([page EXCEPT !.modal = NoModal, !.acting = FALSE])
  /\ call' = RowGone(call)
  /\ UNCHANGED <<server, faults, asked>>

ConfirmModal(kind, other) ==
  /\ page.modal.kind = kind /\ ~page.acting
  /\ Gives(Request(kind, page.modal.doc, other, "row"), [page EXCEPT !.acting = TRUE])

ConfirmApprove == ConfirmModal("approve", None)
ConfirmReject == ConfirmModal("reject", None)

\* The identifier of the new version is typed in.
ConfirmSupersede == \E other \in Docs : ConfirmModal("supersede", other)

\* A colleague, or another tab, gives a command that may meet those of the page; one at
\* a time, a bound.
Elsewhere ==
  \E kind \in Writing \ {"upload", "submit"}, d \in Docs, other \in Docs \cup {None} :
    /\ doc[d].status # "unused"
    /\ (other # None) = (kind = "supersede")
    /\ ~\E c \in Calls : call[c] # None /\ call[c].from # Page
    /\ Gives([Request(kind, d, other, "no") EXCEPT !.from = None], page)

-----------------------------------------------------------------------------
(* What the page does with its answers *)

\* Mutant: only the poll that saw the evaluation begin is followed.
PollOnce ==
  /\ page.list # None /\ page.list.evaluating /\ page.evaluating # None
  /\ ~\E c \in Calls : call[c] # None /\ call[c].from = Page /\ call[c].kind = "list"
  /\ Free(call) # {} /\ call' = Put(call, Asks("list", "silent"))
  /\ UNCHANGED <<server, page, faults, asked>>

\* Every five seconds while a shown document is being evaluated; polls that overlap are left out.
Poll ==
  /\ page.list # None /\ page.list.evaluating
  /\ ~\E c \in Calls : call[c] # None /\ call[c].from = Page /\ call[c].kind = "list"
  /\ Free(call) # {} /\ call' = Put(call, Asks("list", "silent"))
  /\ UNCHANGED <<server, page, faults, asked>>

\* An awaited refresh is over when the last of its calls is.
Settled(p, calls, tag) ==
  IF Pending(calls, tag) THEN p
  ELSE CASE tag = "promote" -> [p EXCEPT !.promoting = None]
         [] tag = "upload" -> [p EXCEPT !.uploading = FALSE]
         [] tag = "evaluate" -> [p EXCEPT !.evaluating = None]
         [] OTHER -> p

\* The answer of a list that is not silent ends the skeleton; a row is drawn anew.
GotList(c, ok) ==
  LET k == call[c]
      shown == IF ok THEN [page EXCEPT !.list = k.answer] ELSE page
      sameRow == /\ page.list # None /\ shown.list # None /\ shown.list.doc = page.list.doc
                 /\ shown.list.status # "obsolete"
      p == [shown EXCEPT !.fetching = @ /\ k.after = "silent",
                         !.modal = IF sameRow THEN @ ELSE NoModal, !.acting = @ /\ sameRow]
      calls == IF sameRow THEN Dropped(c) ELSE RowGone(Dropped(c))
  IN Shows(Settled(p, calls, k.after)) /\ call' = calls

GotPending(c, ok) ==
  Shows(Settled(IF ok THEN [page EXCEPT !.pending = call[c].answer] ELSE page,
                Dropped(c), call[c].after))
  /\ call' = Dropped(c)

\* After a choice the lists follow, whatever became of the history.
GotHistory(c, ok) ==
  LET p == [page EXCEPT !.history = IF ok THEN call[c].answer ELSE @,
                        !.historyError = @ \/ ~ok, !.loadingHistory = None]
  IN IF call[c].after = "promote"
     THEN /\ Free(call) # {}
          /\ call' = RowGone(Put(Put(Dropped(c), Asks("list", "promote")), Asks("pending", "promote")))
          /\ Shows(Fetching(p))
     ELSE call' = Dropped(c) /\ Shows(p)

GotPromote(c, ok) ==
  IF ok THEN /\ call' = [call EXCEPT ![c] = Asks("history", "promote")]
             /\ Shows([page EXCEPT !.loadingHistory = "type", !.historyError = FALSE])
        ELSE call' = Dropped(c) /\ Shows([page EXCEPT !.historyError = TRUE, !.promoting = None])

Refetch(c, after, p) ==
  call' = RowGone([call EXCEPT ![c] = Asks("list", after)]) /\ Shows(Fetching(p))

GotDelete(c, ok) ==
  LET p == [page EXCEPT !.removing = None]
  IN IF ok THEN Refetch(c, "no", p) ELSE call' = Dropped(c) /\ Shows(p)

GotUpload(c, ok) ==
  IF ok THEN /\ Free(call) # {}
             /\ call' = RowGone(Put(Put(Dropped(c), Asks("list", "upload")), Asks("pending", "upload")))
             /\ Shows(Fetching([page EXCEPT !.upload = "closed"]))
        ELSE call' = Dropped(c) /\ Shows([page EXCEPT !.uploading = FALSE])

\* Mutant: an evaluation that is not accepted leaves its spinner.
GotEvaluateOk(c, ok) ==
  IF ok THEN call' = [call EXCEPT ![c] = Asks("list", "evaluate")] /\ UNCHANGED page
        ELSE call' = Dropped(c) /\ UNCHANGED page

\* The refresh after an evaluation is silent.
GotEvaluate(c, ok) ==
  IF ok THEN call' = [call EXCEPT ![c] = Asks("list", "evaluate")] /\ UNCHANGED page
        ELSE call' = Dropped(c) /\ Shows([page EXCEPT !.evaluating = None])

GotApproval(c, ok) ==
  LET mine == call[c].after = "row"
      p == [page EXCEPT !.acting = @ /\ ~mine, !.modal = IF mine /\ ok THEN NoModal ELSE @]
  IN IF ok THEN Refetch(c, "no", p) ELSE call' = Dropped(c) /\ Shows(p)

GotDetail(c, ok) ==
  call' = Dropped(c)
  /\ Shows([page EXCEPT !.reading = IF ok THEN @ \cup {"detail"} ELSE @, !.loadingEval = None])

GotVersions(c, ok) ==
  call' = Dropped(c)
  /\ Shows([page EXCEPT !.reading = IF ok THEN @ \cup {"versions"} ELSE @, !.loadingHistory = None])

Got(c, ok) ==
  LET kind == call[c].kind
  IN CASE kind = "list" -> GotList(c, ok)
       [] kind = "pending" -> GotPending(c, ok)
       [] kind = "history" -> GotHistory(c, ok)
       [] kind = "promote" -> GotPromote(c, ok)
       [] kind = "delete" -> GotDelete(c, ok)
       [] kind = "upload" -> GotUpload(c, ok)
       [] kind = "evaluate" -> GotEvaluate(c, ok)
       [] kind = "detail" -> GotDetail(c, ok)
       [] kind = "versions" -> GotVersions(c, ok)
       [] OTHER -> GotApproval(c, ok)

Deliver(c) ==
  /\ call[c] # None /\ call[c].from = Page /\ call[c].stage \in {"ok", "refused"}
  /\ Got(c, call[c].stage = "ok")
  /\ UNCHANGED <<server, faults, asked>>

\* The page hears nothing of its call: the request was lost.
Lost(c) ==
  /\ call[c] # None /\ call[c].from = Page /\ call[c].stage \in {"sent", "ok"}
  /\ Fault
  /\ Got(c, FALSE)
  /\ UNCHANGED <<server, asked>>

\* An answer nobody waits for.
Forgotten(c) ==
  /\ call[c] # None /\ call[c].from # Page /\ call[c].stage \in {"ok", "refused"}
  /\ call' = Dropped(c)
  /\ UNCHANGED <<server, page, faults, asked>>

-----------------------------------------------------------------------------
User ==
  \/ \E d \in Docs :
       \/ OpenEval(d) \/ OpenVersionChain(d) \/ HandlePromote(d) \/ HandleDelete(d) \/ HandleSubmit(d)
       \/ \E kind \in {"approve", "reject", "supersede"} : OpenModal(kind, d)
  \/ ConfirmApprove \/ ConfirmReject \/ ConfirmSupersede \/ CloseModal
  \/ OpenHistory \/ CloseHistory \/ CloseReading
  \/ UploadDialog \/ HandleUpload \/ ChooseLanguage \/ HandleEvaluate

Next ==
  \/ Server /\ UNCHANGED <<page, asked>>
  \/ User \/ Elsewhere \/ Poll
  \/ \E c \in Calls : Deliver(c) \/ Lost(c) \/ Forgotten(c)

\* Fairness: the server works off its calls and evaluations, answers arrive, the
\* interval fires; an answer that brings further calls may find the bound on calls
\* reached again and again, hence SF.  Nobody has to give a command.
Fairness ==
  /\ \A c \in Calls : /\ WF_vars(Handles(c) /\ UNCHANGED <<page, asked>>)
                      /\ SF_vars(Deliver(c)) /\ WF_vars(Forgotten(c))
  /\ \A d \in Docs : WF_vars(Evaluated(d) /\ UNCHANGED <<page, asked>>)
  /\ WF_vars(Poll)

Spec == Init /\ [][Next]_vars
FairSpec == Spec /\ Fairness

-----------------------------------------------------------------------------
(* Properties *)

Pages ==
  [list : Lists \cup {None}, pending : BOOLEAN, history : Histories \cup {None},
   historyError : BOOLEAN, loadingHistory : Docs \cup {None, "type"},
   reading : SUBSET {"detail", "versions"}, loadingEval : Docs \cup {None},
   promoting : Docs \cup {None}, removing : Docs \cup {None}, uploading : BOOLEAN,
   evaluating : Docs \cup {None}, upload : {"closed", "type", "file"}, lang : Docs \cup {None},
   modal : [kind : {None, "approve", "reject", "supersede"}, doc : Docs \cup {None}],
   acting : BOOLEAN, fetching : BOOLEAN]

\* A call names what its handler needs, and its answer is of its kind.
CallOK(k) ==
  /\ k.kind \in Reading \cup Writing /\ k.after \in Tags /\ k.stage \in Stages
  /\ k.kind \in (Writing \ {"upload"}) \cup {"versions", "detail"} => k.doc \in Docs
  /\ k.kind = "supersede" => k.other \in Docs
  /\ k.kind = "promote" /\ k.stage = "read" => k.answer \in Seens
  /\ k.stage = "ok" => CASE k.kind = "list" -> k.answer \in Lists \cup {None}
                         [] k.kind = "pending" -> k.answer \in BOOLEAN
                         [] k.kind = "history" -> k.answer \in Histories
                         [] OTHER -> TRUE

TypeOK ==
  /\ doc \in [Docs -> Documents]
  /\ main \in [Docs -> Selections \cup {None}]
  /\ \A c \in Calls : call[c] # None => CallOK(call[c])
  /\ page \in Pages
  /\ page.modal.kind # None => page.modal.doc \in Docs

\* A version selected as the main one has not been replaced, whatever overlaps: a
\* choice that read it before a supersession is refused after it, and a supersession
\* moves what was selected ("Phiên bản đã thay thế chỉ được xem trong lịch sử").
MainVersionIsLive == \A root \in Chosen(main) : Live(main[root].doc, doc)

\* A document with an official copy of its approval is never deleted, however the
\* deletion overlaps the approval.
ApprovedStays == [][\A d \in Docs : doc[d].artifact => doc'[d].status # "deleted"]_vars

\* Nothing stays busy: every spinner and disabled button of the page is freed, and an
\* evaluation shown as running is shown as over in the end, also when it failed and when
\* answers were lost, unless its worker died.
BusyEnds ==
  []<>(/\ {page.promoting, page.removing, page.evaluating, page.loadingHistory, page.loadingEval}
            = {None}
       /\ ~page.uploading /\ ~page.acting /\ ~page.fetching
       /\ died \/ page.list = None \/ ~page.list.evaluating)
=============================================================================
