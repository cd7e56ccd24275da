------------------------- MODULE AuditPlanningPage -------------------------
(***************************************************************************)
(* Where a certification body prepares its audits: the checklists visits   *)
(* start from (app/audits/templates) and the list of visits (app/audits),  *)
(* with what their handlers do for them.  A checklist is plain, or has the *)
(* clauses, methods and documents of the standard's own one.               *)
(***************************************************************************)
EXTENDS PageCalls

CONSTANTS Checklists, Visits

Details == {"plain", "detailed"}
Flags == {"fetching", "saving", "seeding", "creating", "assigning"}
Dialogs == {None, "checklist", "visit", "assignment"}

-----------------------------------------------------------------------------
(* The pages *)

Mounted(place) ==
  [place |-> place, rows |-> {}, dialog |-> None, edit |-> None, busy |-> {"fetching"}]

Does(kind, arg, p) == Gives(call, Sent(kind, arg), p)
Flagged(flag) == [page EXCEPT !.busy = @ \cup {flag}]

\* Visits are there, and a checklist, or the empty list that offers the standard's own.
Init ==
  /\ \E there \in {{}, {CHOOSE t \in Checklists : TRUE}} :
       /\ server = [t \in Checklists |-> IF t \in there THEN "detailed" ELSE None]
       /\ \/ page = [Mounted("checklists") EXCEPT !.rows = there, !.busy = {}]
          \/ page = [Mounted("visits") EXCEPT !.rows = Visits, !.busy = {}]
  /\ call = [c \in Calls |-> None]
  /\ asked = 0 /\ lost = 0

\* From one page to the other, which fetches its list.
Navigate(place) ==
  /\ page.place # place /\ page.dialog = None
  /\ asked < MaxAsked /\ asked' = asked + 1
  /\ Free(call) # {} /\ call' = Put(Unmounted, Sent(place, None))
  /\ page' = Mounted(place)
  /\ UNCHANGED <<server, lost>>

On(place) == page.place = place /\ page.dialog = None
Listed(row) == "fetching" \notin page.busy /\ row \in page.rows

OpenCreate == On("checklists") /\ Turns([page EXCEPT !.dialog = "checklist", !.edit = None])

OpenEdit(t) ==
  On("checklists") /\ Listed(t) /\ Turns([page EXCEPT !.dialog = "checklist", !.edit = t])

\* The form may be closed while it is being saved, and another opened.
HandleSave ==
  /\ page.dialog = "checklist" /\ "saving" \notin page.busy
  /\ Does("save", page.edit, Flagged("saving"))

HandleDelete(t) == On("checklists") /\ Listed(t) /\ Does("delete", t, page)

\* Offered by a list that is empty.
HandleSeedDefault ==
  /\ On("checklists") /\ page.rows = {} /\ page.busy \cap {"fetching", "seeding"} = {}
  /\ Does("seed", None, Flagged("seeding"))

\* The checklists, or the auditors, to choose from are fetched besides.
OpenVisit == On("visits") /\ Does("options", None, [page EXCEPT !.dialog = "visit"])

HandleCreate ==
  /\ page.dialog = "visit" /\ "creating" \notin page.busy
  /\ Does("create", None, Flagged("creating"))

OpenAssignment(v) ==
  /\ On("visits") /\ Listed(v)
  /\ Does("options", None, [page EXCEPT !.dialog = "assignment", !.edit = v])

HandleAssign ==
  /\ page.dialog = "assignment" /\ "assigning" \notin page.busy
  /\ Does("assign", page.edit, Flagged("assigning"))

CloseDialog == page.dialog # None /\ Turns([page EXCEPT !.dialog = None, !.edit = None])

-----------------------------------------------------------------------------
(* The handlers *)

At(c, kinds, stage) == call[c] # None /\ call[c].kind \in kinds /\ call[c].stage = stage
Becomes(c, stage, s) ==
  call' = [call EXCEPT ![c].stage = stage] /\ server' = s /\ UNCHANGED <<page, asked, lost>>

Stored == {t \in Checklists : server[t] # None}
Inserts(c, detail) ==
  IF Stored = Checklists THEN Becomes(c, "refused", server)
  ELSE Becomes(c, "ok", [server EXCEPT ![CHOOSE t \in Checklists \ Stored : TRUE] = detail])

CreateTemplate(c) ==
  \/ At(c, {"seed"}, "sent") /\ Inserts(c, "detailed")
  \/ At(c, {"save"}, "sent") /\ call[c].arg = None /\ Inserts(c, "plain")

\* The form sends of the items what it shows: their details are gone. One that is not there
\* is not missed.
UpdateTemplate(c) ==
  /\ At(c, {"save"}, "sent") /\ call[c].arg # None
  /\ Becomes(c, "ok", [t \in Checklists |-> IF t = call[c].arg /\ t \in Stored THEN "plain" ELSE server[t]])

DeleteTemplate(c) ==
  At(c, {"delete"}, "sent") /\ Becomes(c, "ok", [server EXCEPT ![call[c].arg] = None])

\* The page names a business by its name and assigns by POST, neither of which is served.
CreateVisit(c) == At(c, {"create"}, "sent") /\ Refuses(c)
AssignVisit(c) == At(c, {"assign"}, "sent") /\ Refuses(c)

Reads(c) ==
  /\ At(c, {"checklists", "visits", "options"}, "sent")
  /\ Answers(c, IF call[c].kind = "checklists" THEN Stored ELSE Visits, server)

Serves(c) ==
  CreateTemplate(c) \/ UpdateTemplate(c) \/ DeleteTemplate(c) \/ CreateVisit(c) \/ AssignVisit(c) \/ Reads(c)

-----------------------------------------------------------------------------
(* What follows an answer *)

Without(flag) == [page EXCEPT !.busy = @ \ {flag}]
Refetch(c, p) ==
  Goes([call EXCEPT ![c] = Sent(page.place, None)], [p EXCEPT !.busy = @ \cup {"fetching"}])

GotRows(c) ==
  /\ Arrived(c) /\ call[c].kind \in {"checklists", "visits"}
  /\ Goes(Dropped(c), IF Ok(c) THEN [Without("fetching") EXCEPT !.rows = call[c].answer] ELSE Without("fetching"))

GotOptions(c) == Arrived(c) /\ call[c].kind = "options" /\ Goes(Dropped(c), page)

\* Whichever form is open now is closed.
GotSaved(c) ==
  /\ Arrived(c) /\ call[c].kind = "save"
  /\ IF Ok(c) THEN Refetch(c, [Without("saving") EXCEPT !.dialog = None, !.edit = None])
     ELSE Goes(Dropped(c), Without("saving"))

GotSeeded(c) ==
  /\ Arrived(c) /\ call[c].kind = "seed"
  /\ IF Ok(c) THEN Refetch(c, Without("seeding")) ELSE Goes(Dropped(c), Without("seeding"))

\* An answer is not looked at; one that does not come is.
GotDeleted(c) ==
  /\ Arrived(c) /\ call[c].kind = "delete"
  /\ Refetch(c, page) \/ (~Ok(c) /\ Goes(Dropped(c), page))

GotAssigned(c) ==
  /\ Arrived(c) /\ call[c].kind = "assign"
  /\ \/ Refetch(c, [Without("assigning") EXCEPT !.dialog = None, !.edit = None])
     \/ Goes(Dropped(c), Without("assigning"))

\* The dialog stays with the error in it.
GotCreated(c) ==
  Arrived(c) /\ call[c].kind = "create" /\ Goes(Dropped(c), Without("creating"))

-----------------------------------------------------------------------------
Starts ==
  \/ \E place \in {"checklists", "visits"} : Navigate(place)
  \/ \E t \in Checklists : OpenEdit(t) \/ HandleDelete(t)
  \/ \E v \in Visits : OpenAssignment(v)
  \/ OpenCreate \/ HandleSave \/ HandleSeedDefault \/ OpenVisit \/ HandleCreate \/ HandleAssign \/ CloseDialog

Continues(c) ==
  \/ GotRows(c) \/ GotOptions(c) \/ GotSaved(c) \/ GotSeeded(c) \/ GotDeleted(c) \/ GotAssigned(c)
  \/ GotCreated(c) \/ Unheard(c)

Next ==
  \/ Starts
  \/ \E c \in Calls : Serves(c) \/ Refuses(c) \/ Loses(c) \/ Continues(c)

-----------------------------------------------------------------------------
(* Properties *)

TypeOK ==
  /\ server \in [Checklists -> Details \cup {None}]
  /\ page.rows \subseteq IF page.place = "visits" THEN Visits ELSE Checklists
  /\ page.dialog \in Dialogs /\ page.busy \subseteq Flags
  /\ page.dialog = "checklist" => page.edit \in Checklists \cup {None}
  /\ page.dialog = "assignment" => page.edit \in Visits

\* Lists finish loading and buttons are freed, also those of commands nobody serves.
Rests == page.busy = {}
=============================================================================
