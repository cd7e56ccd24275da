----------------------------- MODULE AdminPage -----------------------------
(***************************************************************************)
(* The administrator's page (components/AdminPage.tsx): the editor of the  *)
(* evaluation template of a type of documents, which is mounted anew for   *)
(* each type, and the manager of placeholders.  The editor sends back as a *)
(* template whatever body it was given for one, also that of an error.     *)
(***************************************************************************)
EXTENDS PageCalls

CONSTANTS Types,
          Keys, SystemKeys,   \* placeholders; those of the system cannot be changed
          MaxTurns            \* bound: changes of section or type, and of the template

\* What of a template is edited: a criterion, their list, the guidance, the format of a
\* document, its own sections.
Parts == {"criterion", "criteria", "guidance", "format", "sections"}

\* A template is the type it was made for and what was edited last; that of an error is for none.
Templates == [of : Types \cup {None}, edited : Parts \cup {None}]
Flags == {"saving", "uploading", "uploadingTemplate", "deleting"}
Forms == [edit : Keys \cup {None}, key : Keys]

-----------------------------------------------------------------------------
(* Mounting *)

\* The template and the lists of files and revisions are asked for together.
Editor(type, turns) ==
  [section |-> "templates", type |-> type, turns |-> turns, loading |-> TRUE, template |-> None,
   lists |-> None, busy |-> {}, rows |-> {}, form |-> None]

Manager(turns) == [Editor(page.type, turns) EXCEPT !.section = "placeholders"]

Init ==
  /\ \E t \in Types : page = [Editor(t, 0) EXCEPT !.loading = FALSE, !.lists = t,
                                !.template = [of |-> t, edited |-> None]]
  /\ server = [templates |-> [t \in Types |-> [of |-> t, edited |-> None]],
               placeholders |-> SystemKeys]
  /\ call = [c \in Calls |-> None]
  /\ asked = 0 /\ lost = 0

\* Mutant: the editor is not mounted anew for another type.
EditorAgain(type) ==
  <<[c \in Calls |-> call[c]], [Editor(type, page.turns + 1) EXCEPT !.template = page.template]>>

EditorAnew(type) == <<Unmounted, Editor(type, page.turns + 1)>>

\* Another type is chosen, or the section of templates again.
SelectType(t) ==
  /\ page.turns < MaxTurns /\ (page.section # "templates" \/ t # page.type)
  /\ Free(call) # {}
  /\ LET next == EditorAnew(t) IN Goes(Put(next[1], Sent("load", t)), next[2])

SelectPlaceholders ==
  /\ page.turns < MaxTurns /\ page.section = "templates" /\ Free(call) # {}
  /\ Goes(Put(Unmounted, Sent("rows", None)), Manager(page.turns + 1))

-----------------------------------------------------------------------------
(* The editor *)

Edits == page.section = "templates" /\ ~page.loading /\ page.template # None
Does(kind, arg, p) == Gives(call, Sent(kind, arg), p)
Flagged(flag) == [page EXCEPT !.busy = @ \cup {flag}]

\* What was loaded is changed, and sent only when it is saved.
Edit(part) ==
  /\ Edits /\ page.template.edited = None /\ page.turns < MaxTurns
  /\ Turns([page EXCEPT !.template.edited = part, !.turns = @ + 1])

EditCriterion == Edit("criterion")

EditCriteria == Edit("criteria")

EditGuidance == Edit("guidance")

EditFormat == Edit("format")

EditSections == Edit("sections")

Save ==
  /\ Edits /\ "saving" \notin page.busy
  /\ Does("save", [type |-> page.type, template |-> page.template],
          Flagged("saving"))

UploadFile ==
  Edits /\ "uploading" \notin page.busy /\ Does("upload", page.type, Flagged("uploading"))

HandleDeleteFile ==
  /\ Edits /\ page.lists # None /\ "deleting" \notin page.busy
  /\ Does("remove", page.type, Flagged("deleting"))

UploadTpl ==
  /\ Edits /\ "uploadingTemplate" \notin page.busy
  /\ Does("uploadTemplate", page.type, Flagged("uploadingTemplate"))

\* Nothing shows that a template file is being deleted.
DeleteTpl == Edits /\ page.lists # None /\ Does("removeTemplate", page.type, page)

-----------------------------------------------------------------------------
(* The manager of placeholders *)

Manages == page.section = "placeholders"

OpenAdd(k) == Manages /\ page.form = None /\ Turns([page EXCEPT !.form = [edit |-> None, key |-> k]])

OpenEdit(k) ==
  Manages /\ k \in page.rows /\ page.form = None /\ Turns([page EXCEPT !.form = [edit |-> k, key |-> k]])

CloseForm ==
  Manages /\ page.form # None /\ Turns([page EXCEPT !.form = None])

HandleSave ==
  /\ Manages /\ page.form # None /\ "saving" \notin page.busy
  /\ Does("put", page.form, Flagged("saving"))

HandleDelete(k) ==
  Manages /\ k \in page.rows \ SystemKeys /\ page.form = None /\ Does("delete", k, page)

-----------------------------------------------------------------------------
(* The server *)

Commands == {"save", "put", "delete"}

\* The body must name a type: that of an error does not.
Fits(template) == template.of # None

SaveTemplate(c) ==
  /\ call[c].kind = "save" /\ Fits(call[c].arg.template)
  /\ Answers(c, None, [server EXCEPT !.templates[call[c].arg.type] = call[c].arg.template])

\* A key is created once; only what is there, and not the system's, is changed or deleted.
\* What is changed is a label.
CreatePlaceholder(c) ==
  /\ call[c].kind = "put" /\ call[c].arg.edit = None /\ call[c].arg.key \notin server.placeholders
  /\ Answers(c, None, [server EXCEPT !.placeholders = @ \cup {call[c].arg.key}])

UpdatePlaceholder(c) ==
  /\ call[c].kind = "put" /\ call[c].arg.edit \in server.placeholders \ SystemKeys
  /\ Answers(c, None, server)

DeletePlaceholder(c) ==
  /\ call[c].kind = "delete" /\ call[c].arg \in server.placeholders \ SystemKeys
  /\ Answers(c, None, [server EXCEPT !.placeholders = @ \ {call[c].arg}])

Reads(c) ==
  /\ call[c].kind \notin Commands
  /\ Answers(c, IF call[c].kind = "load" THEN server.templates[call[c].arg]
                ELSE IF call[c].kind = "rows" THEN server.placeholders ELSE None, server)

Served(c) ==
  SaveTemplate(c) \/ CreatePlaceholder(c) \/ UpdatePlaceholder(c) \/ DeletePlaceholder(c) \/ Reads(c)

\* What is not served is refused.
Serves(c) == call[c] # None /\ call[c].stage = "sent" /\ (Served(c) \/ Refuses(c))

-----------------------------------------------------------------------------
(* What follows an answer *)

\* The body is the template, also when the answer is an error.
Given(c) == IF Ok(c) THEN call[c].answer ELSE [of |-> None, edited |-> None]

\* An answer without a body leaves none.
GotLoad(c) ==
  /\ Arrived(c) /\ call[c].kind = "load"
  /\ \/ Goes(Dropped(c), [page EXCEPT !.loading = FALSE, !.template = Given(c), !.lists = call[c].arg])
     \/ ~Ok(c) /\ Goes(Dropped(c), [page EXCEPT !.loading = FALSE])

GotLists(c) ==
  /\ Arrived(c) /\ call[c].kind = "lists"
  /\ Goes(Dropped(c), IF Ok(c) THEN [page EXCEPT !.lists = call[c].arg] ELSE page)

\* Whatever the answer was, the editor says that it has saved.
Saved(c) == [page EXCEPT !.busy = @ \ {"saving"}]

GotSave(c) ==
  /\ Arrived(c) /\ call[c].kind = "save"
  /\ Goes(Dropped(c), Saved(c))

FlagOf(kind) ==
  CASE kind = "upload" -> "uploading" [] kind = "remove" -> "deleting"
    [] kind = "uploadTemplate" -> "uploadingTemplate" [] OTHER -> "none"

\* The lists are read again, after a deletion also when it was refused.
GotFile(c) ==
  /\ Arrived(c) /\ call[c].kind \in {"upload", "remove", "uploadTemplate", "removeTemplate"}
  /\ LET p == [page EXCEPT !.busy = @ \ {FlagOf(call[c].kind)}]
     IN \/ (Ok(c) \/ call[c].kind \in {"remove", "removeTemplate"})
           /\ Goes([call EXCEPT ![c] = Sent("lists", call[c].arg)], p)
        \/ ~Ok(c) /\ Goes(Dropped(c), p)

GotRows(c) ==
  /\ Arrived(c) /\ call[c].kind = "rows"
  /\ Goes(Dropped(c), [page EXCEPT !.loading = FALSE, !.rows = IF Ok(c) THEN call[c].answer ELSE @])

\* The form is closed, whichever is open now.
GotPut(c) ==
  /\ Arrived(c) /\ call[c].kind = "put"
  /\ IF Ok(c) THEN Goes([call EXCEPT ![c] = Sent("rows", None)], [Saved(c) EXCEPT !.form = None, !.loading = TRUE])
     ELSE Goes(Dropped(c), Saved(c))

GotDelete(c) ==
  /\ Arrived(c) /\ call[c].kind = "delete"
  /\ \/ Goes([call EXCEPT ![c] = Sent("rows", None)], [page EXCEPT !.loading = TRUE])
     \/ ~Ok(c) /\ Goes(Dropped(c), page)

-----------------------------------------------------------------------------
Starts ==
  \/ \E t \in Types : SelectType(t)
  \/ \E k \in Keys : OpenAdd(k) \/ OpenEdit(k) \/ HandleDelete(k)
  \/ SelectPlaceholders
  \/ EditCriterion \/ EditCriteria \/ EditGuidance \/ EditFormat \/ EditSections
  \/ Save \/ UploadFile \/ HandleDeleteFile \/ UploadTpl \/ DeleteTpl
  \/ CloseForm \/ HandleSave

Continues(c) ==
  \/ GotLoad(c) \/ GotLists(c) \/ GotSave(c) \/ GotFile(c) \/ GotRows(c) \/ GotPut(c) \/ GotDelete(c)
  \/ Unheard(c)

Next == Starts \/ \E c \in Calls : Serves(c) \/ Loses(c) \/ Continues(c)

-----------------------------------------------------------------------------
(* Properties *)

TypeOK ==
  /\ page.type \in Types /\ page.template \in Templates \cup {None}
  /\ page.lists \in Types \cup {None} /\ page.busy \subseteq Flags
  /\ page.form \in Forms \cup {None} /\ page.rows \subseteq Keys
  /\ server.templates \in [Types -> Templates] /\ server.placeholders \subseteq Keys

\* What is kept as the template of a type was loaded for this type and edited as such:
\* never what was loaded for another one, however late its answer, and never the
\* body of an error, which the editor takes for a template.
TemplateOfItsType ==
  /\ \A t \in Types : server.templates[t].of = t
  /\ page.lists # None => page.lists = page.type

\* The editor's buttons are freed and it stops loading.
Rests == page.busy = {} /\ ~page.loading
=============================================================================
