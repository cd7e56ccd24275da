---------------------------- MODULE BatchesPage ----------------------------
(***************************************************************************)
(* The production batches of a company (app/supply-chain/batches) and what *)
(* their handlers do for it.  Statements of one handler and another's are  *)
(* interleaved in SupplyBatch; here a handler is one step, but for the     *)
(* creation, whose statements may break off.  A batch has one step, of     *)
(* which the model keeps whether it is done and confirmed.                 *)
(***************************************************************************)
EXTENDS PageCalls

CONSTANTS Batches, Codes

Statuses == {"draft", "in_progress", "completed"}
Rows == [code : Codes \cup {None}, status : Statuses, sealed : BOOLEAN,
         step : {"none", "pending", "completed"}, confirmed : BOOLEAN]
Row(code, status, step, confirmed, sealed) ==
  [code |-> code, status |-> status, step |-> step, confirmed |-> confirmed, sealed |-> sealed]
Filters == {"all", "draft"}
Flags == {"list", "detail", "creating", "assigning"}

-----------------------------------------------------------------------------
(* The page *)

Mounted ==
  [list |-> {}, filter |-> "all", detail |-> None, form |-> None, busy |-> {"list"}]

\* A call carries the filter as it was when its handler was made.
Command(kind, id, what) == Sent(kind, [id |-> id, what |-> what, filter |-> page.filter])
Does(kind, id, what, p) == Gives(call, Command(kind, id, what), p)
Flagged(flag) == [page EXCEPT !.busy = @ \cup {flag}]

\* One batch, at some point of its way, is listed; its dialog, or that of a new
\* batch, may be open.
Init ==
  /\ \E b \in Batches, code \in Codes :
       /\ b = CHOOSE x \in Batches : TRUE
       /\ \E row \in {Row(code, "draft", "pending", FALSE, FALSE),
                      Row(code, "in_progress", "completed", FALSE, FALSE),
                      Row(code, "completed", "completed", TRUE, FALSE),
                      Row(code, "completed", "completed", TRUE, TRUE)} :
            /\ server = [x \in Batches |-> IF x = b THEN row ELSE None]
            /\ LET p == [Mounted EXCEPT !.list = {b}, !.busy = {}]
               IN page \in {p, [p EXCEPT !.detail = [id |-> b, row |-> row]],
                            [p EXCEPT !.form = [code |-> None]]}
  /\ call = [c \in Calls |-> None]
  /\ asked = 0 /\ lost = 0

\* Modal: what is under a dialog cannot be reached.
NoDialog == page.detail = None /\ page.form = None /\ "detail" \notin page.busy
InList(b) == NoDialog /\ "list" \notin page.busy /\ b \in page.list

Filter(f) ==
  /\ NoDialog /\ page.filter # f
  /\ Gives(call, Sent("list", [id |-> None, what |-> None, filter |-> f]),
           [Flagged("list") EXCEPT !.filter = f])

OpenCreate == NoDialog /\ Does("options", None, None, page)

EnterCode(k) ==
  page.form # None /\ page.form.code # k /\ Turns([page EXCEPT !.form.code = k])

HandleCreate ==
  /\ page.form # None /\ "creating" \notin page.busy
  /\ Does("create", None, page.form.code, Flagged("creating"))

CloseDialog == ~NoDialog /\ Turns([page EXCEPT !.detail = None, !.form = None])

OpenDetail(b) ==
  InList(b) /\ Does("detail", b, None, [Flagged("detail") EXCEPT !.detail = None])

\* The answer closes a dialog only if it was open when the button was pressed, which it was not.
DeleteBatch(b) == InList(b) /\ Does("delete", b, None, page)

\* The QR code or the report.
Download(b) == InList(b) /\ Does("file", b, None, page)

\* The dialog shows a batch, as it was read.
Shows(p) == page.detail # None /\ page.form = None /\ "detail" \notin page.busy /\ page.detail.row \in p
InDetail(kind, what, p) == Does(kind, page.detail.id, what, p)

UpdateBatchStatus ==
  \/ Shows({r \in Rows : r.status = "draft"}) /\ InDetail("status", "in_progress", page)
  \/ Shows({r \in Rows : r.status = "in_progress"}) /\ InDetail("status", "completed", page)

Seal ==
  Shows({r \in Rows : r.status = "completed" /\ ~r.sealed}) /\ InDetail("seal", None, page)

Verify == Shows({r \in Rows : r.sealed}) /\ InDetail("file", None, page)

AssignMember ==
  /\ Shows({r \in Rows : ~r.sealed}) /\ "assigning" \notin page.busy
  /\ InDetail("assign", None, Flagged("assigning"))

Open == {r \in Rows : r.step # "none" /\ ~r.confirmed}

\* Done, not done after all, or only the name of who did it.
UpdateStep ==
  /\ Shows(Open)
  /\ \E to \in {None, IF page.detail.row.step = "pending" THEN "completed" ELSE "pending"} :
       InDetail("step", to, page)

UploadPhoto == Shows(Open) /\ InDetail("photo", None, page)
ApproveStep == Shows({r \in Open : r.step = "completed"}) /\ InDetail("confirm", None, page)

-----------------------------------------------------------------------------
(* The handlers *)

At(c, kinds, stage) == call[c] # None /\ call[c].kind \in kinds /\ call[c].stage = stage
Becomes(c, stage, s) ==
  call' = [call EXCEPT ![c].stage = stage] /\ server' = s /\ UNCHANGED <<page, asked, lost>>

Absent == {b \in Batches : server[b] = None}

\* Mutant: codes need not be unique.
AnyCode(code) == TRUE

\* UNIQUE (tenant_id, batch_code); a code that is generated is a new one.
NewCode(code) ==
  code = None \/ \A b \in Batches \ Absent : server[b].code # code

\* The row is there from now on, whatever becomes of the rest.
InsertBatch(c) ==
  /\ At(c, {"create"}, "sent")
  /\ LET code == call[c].arg.what
     IN IF Absent = {} \/ ~NewCode(code) THEN Becomes(c, "refused", server)
        ELSE LET b == CHOOSE b \in Absent : TRUE
             IN /\ call' = [call EXCEPT ![c].stage = "inserted", ![c].arg.id = b]
                /\ server' = [server EXCEPT ![b] = Row(code, "draft", "none", FALSE, FALSE)]
                /\ UNCHANGED <<page, asked, lost>>

\* Its materials and the steps of its process, if the row is still there.
InsertSteps(c) ==
  /\ At(c, {"create"}, "inserted")
  /\ LET b == call[c].arg.id
     IN IF server[b] = None THEN Becomes(c, "refused", server)
        ELSE Becomes(c, "ok", [server EXCEPT ![b].step = "pending"])

BreaksOff(c) == At(c, {"create"}, "inserted") /\ Becomes(c, "refused", server)

Transitions == {<<"draft", "in_progress">>, <<"in_progress", "completed">>}

\* assert_batch_mutable, and what each handler asks for besides
Accepts(c, row) ==
  LET what == call[c].arg.what
  IN /\ row # None /\ ~row.sealed
     /\ CASE call[c].kind = "status" -> row.status = what \/ <<row.status, what>> \in Transitions
          [] call[c].kind \in {"step", "photo"} -> row.step # "none"
          [] call[c].kind = "confirm" -> row.step = "completed"
          [] call[c].kind = "seal" ->
               row.status = "completed" /\ (row.step # "none" => row.step = "completed" /\ row.confirmed)
          [] OTHER -> TRUE

Changed(c, row) ==
  LET what == call[c].arg.what
  IN CASE call[c].kind = "status" -> [row EXCEPT !.status = what]
       [] call[c].kind = "step" /\ what # None -> [row EXCEPT !.step = what]
       [] call[c].kind = "confirm" -> [row EXCEPT !.confirmed = TRUE]
       [] call[c].kind = "seal" -> [row EXCEPT !.sealed = TRUE]
       [] call[c].kind = "delete" -> None
       [] OTHER -> row

Writing == {"status", "step", "photo", "confirm", "seal", "assign", "delete"}

Writes(c) ==
  /\ At(c, Writing, "sent")
  /\ LET b == call[c].arg.id
     IN IF ~Accepts(c, server[b]) THEN Becomes(c, "refused", server)
        ELSE Becomes(c, "ok", [server EXCEPT ![b] = Changed(c, @)])

Reads(c) ==
  /\ At(c, {"list", "detail", "options", "file"}, "sent")
  /\ LET arg == call[c].arg
     IN CASE call[c].kind = "list" ->
               Answers(c, {b \in Batches \ Absent : arg.filter = "all" \/ server[b].status = arg.filter}, server)
          [] call[c].kind = "detail" /\ server[arg.id] = None -> Becomes(c, "refused", server)
          [] call[c].kind = "detail" /\ server[arg.id] # None ->
               Answers(c, [id |-> arg.id, row |-> server[arg.id]], server)
          [] OTHER -> Becomes(c, "ok", server)

Serves(c) == InsertBatch(c) \/ InsertSteps(c) \/ Writes(c) \/ Reads(c)

-----------------------------------------------------------------------------
(* What follows an answer *)

Without(flag) == [page EXCEPT !.busy = @ \ {flag}]
Fetch(c, kind) == [call EXCEPT ![c] = Sent(kind, [call[c].arg EXCEPT !.what = None])]

\* The dialog is opened anew, and the list is read where there is a call left for it.
Reopens(c, p, alsoList) ==
  LET one == Fetch(c, "detail")
      shut == [p EXCEPT !.detail = None, !.busy = @ \cup {"detail"}]
  IN IF alsoList /\ Free(one) # {}
     THEN Goes(Put(one, Sent("list", [call[c].arg EXCEPT !.what = None])), [shut EXCEPT !.busy = @ \cup {"list"}])
     ELSE Goes(one, shut)

GotList(c) ==
  /\ Arrived(c) /\ call[c].kind = "list"
  /\ Goes(Dropped(c), IF Ok(c) THEN [Without("list") EXCEPT !.list = call[c].answer] ELSE Without("list"))

GotDetail(c) ==
  /\ Arrived(c) /\ call[c].kind = "detail"
  /\ Goes(Dropped(c), IF Ok(c) THEN [Without("detail") EXCEPT !.detail = call[c].answer] ELSE Without("detail"))

\* An answer that is an error opens the form all the same; one that does not come does not.
GotOptions(c) ==
  /\ Arrived(c) /\ call[c].kind = "options"
  /\ \/ Goes(Dropped(c), [page EXCEPT !.form = [code |-> None]])
     \/ ~Ok(c) /\ Goes(Dropped(c), page)

GotCreated(c) ==
  /\ Arrived(c) /\ call[c].kind = "create"
  /\ IF Ok(c) THEN Goes(Fetch(c, "list"), [Without("creating") EXCEPT !.form = None, !.busy = @ \cup {"list"}])
     ELSE Goes(Dropped(c), Without("creating"))

GotDeleted(c) ==
  /\ Arrived(c) /\ call[c].kind = "delete"
  /\ IF Ok(c) THEN Goes(Fetch(c, "list"), Flagged("list")) ELSE Goes(Dropped(c), page)

\* Whatever is open now, the batch of the command is shown next.
GotChange(c) ==
  /\ Arrived(c) /\ call[c].kind \in {"status", "step", "photo", "confirm", "seal", "assign"}
  /\ LET p == IF call[c].kind = "assign" THEN Without("assigning") ELSE page
     IN IF Ok(c) THEN Reopens(c, p, call[c].kind \in {"status", "step", "seal"})
        ELSE Goes(Dropped(c), p)

GotFile(c) == Arrived(c) /\ call[c].kind = "file" /\ Goes(Dropped(c), page)

-----------------------------------------------------------------------------
Starts ==
  \/ \E b \in Batches : OpenDetail(b) \/ DeleteBatch(b) \/ Download(b)
  \/ \E f \in Filters : Filter(f)
  \/ \E k \in Codes : EnterCode(k)
  \/ OpenCreate \/ HandleCreate \/ CloseDialog \/ UpdateBatchStatus \/ Seal \/ Verify
  \/ AssignMember \/ UpdateStep \/ UploadPhoto \/ ApproveStep

Continues(c) ==
  \/ GotList(c) \/ GotDetail(c) \/ GotOptions(c) \/ GotCreated(c) \/ GotDeleted(c)
  \/ GotChange(c) \/ GotFile(c) \/ Unheard(c)

Next ==
  \/ Starts
  \/ \E c \in Calls : Serves(c) \/ BreaksOff(c) \/ Refuses(c) \/ Loses(c) \/ Continues(c)

-----------------------------------------------------------------------------
(* Properties *)

TypeOK ==
  /\ server \in [Batches -> Rows \cup {None}]
  /\ page.list \subseteq Batches /\ page.filter \in Filters /\ page.busy \subseteq Flags
  /\ page.detail = None \/ (page.detail.id \in Batches /\ page.detail.row \in Rows)
  /\ page.form = None \/ page.form.code \in Codes \cup {None}

\* A batch that was given a code is created once, however often its creation is tried
\* again after an answer that was lost or a creation that broke off.
CreatedOnce ==
  \A a, b \in Batches \ Absent : a # b /\ server[a].code # None => server[a].code # server[b].code

\* Lists and details finish loading and buttons are freed.
Rests == page.busy = {}
=============================================================================
