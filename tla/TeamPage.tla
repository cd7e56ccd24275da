------------------------------ MODULE TeamPage ------------------------------
(***************************************************************************)
(* The accounts of a company's members: the owner's page (app/members),    *)
(* the page on which an invited person joins (app/invite), and the         *)
(* handlers, which keep every account twice: as a row and, in Keycloak, as *)
(* an identity.  Requests run in several workers and may break off         *)
(* between their statements, whose effects then stay.                      *)
(***************************************************************************)
EXTENDS PageCalls

CONSTANTS People,      \* by their email addresses
          MaxMembers   \* the seats of a company

Tabs == {"members", "minutes"}
Flags == {"fetching", "inviting", "linking", "saving", "rights", "exporting", "loadingMinutes",
          "uploading", "deleting"}
Stages == {"sent", "counted", "created", "inserted", "identityGone", "ok", "refused"}

-----------------------------------------------------------------------------
(* The pages *)

Mounted ==
  [tab |-> "members", rows |-> {}, dialog |-> "none", editing |-> None, removing |-> None,
   rightsOf |-> None, rightsShown |-> None, busy |-> {"fetching"}, joining |-> {}, joined |-> {}]

Does(kind, arg, p) == Gives(call, Sent(kind, arg), p)
Flagged(flag) == [page EXCEPT !.busy = @ \cup {flag}]

\* A company with members and with links that nobody has used yet; its list is shown.
Init ==
  /\ \E m \in SUBSET People, l \in SUBSET People :
       /\ Cardinality(m) <= MaxMembers
       /\ server = [members |-> m, identities |-> m, links |-> l, used |-> {}, broken |-> {},
                    rights |-> [e \in People |-> e]]
       /\ page = [Mounted EXCEPT !.rows = m, !.busy = {}]
  /\ call = [c \in Calls |-> None]
  /\ asked = 0 /\ lost = 0

NoDialog == page.dialog = "none"

\* The buttons of the header are there while a seat is free, as the list shows it.
OpenInvite(dialog) ==
  /\ NoDialog /\ Cardinality(page.rows) < MaxMembers
  /\ Turns([page EXCEPT !.dialog = dialog])

CloseDialog == page.dialog # "none" /\ Turns([page EXCEPT !.dialog = "none", !.rightsOf = None])

HandleInvite(e) ==
  /\ page.dialog = "invite" /\ "inviting" \notin page.busy
  /\ Does("invite", e, Flagged("inviting"))

CreateLink(e) ==
  /\ page.dialog = "link" /\ "linking" \notin page.busy
  /\ Does("link", e, Flagged("linking"))

Listed == NoDialog /\ page.tab = "members" /\ "fetching" \notin page.busy

StartEdit(m) == Listed /\ m \in page.rows /\ page.editing # m /\ Turns([page EXCEPT !.editing = m])
CancelEdit == Listed /\ page.editing # None /\ Turns([page EXCEPT !.editing = None])

HandleSave ==
  /\ Listed /\ page.editing # None /\ "saving" \notin page.busy
  /\ Does("edit", page.editing, Flagged("saving"))

HandleRemove(m) ==
  /\ Listed /\ m \in page.rows /\ page.editing # m /\ page.removing # m
  /\ Does("remove", m, [page EXCEPT !.removing = m])

HandleExportIHC ==
  /\ NoDialog /\ page.rows # {} /\ "exporting" \notin page.busy
  /\ Does("export", None, Flagged("exporting"))

\* The dialog shows what it showed last until the rights of this member come.
OpenRights(m) ==
  /\ Listed /\ m \in page.rows /\ page.editing # m
  /\ Does("readRights", m, [page EXCEPT !.dialog = "rights", !.rightsOf = m])

SaveRights ==
  /\ page.dialog = "rights" /\ "rights" \notin page.busy
  /\ Does("rights", [of |-> page.rightsOf, from |-> page.rightsShown], Flagged("rights"))

ShowMinutes ==
  /\ NoDialog /\ page.tab = "members"
  /\ Does("minutes", None, [Flagged("loadingMinutes") EXCEPT !.tab = "minutes"])

ShowMembers == NoDialog /\ page.tab = "minutes" /\ Turns([page EXCEPT !.tab = "members"])

HandleUploadMinutes ==
  /\ NoDialog /\ page.tab = "minutes" /\ "uploading" \notin page.busy
  /\ Does("upload", None, Flagged("uploading"))

DeleteMinutes ==
  /\ NoDialog /\ page.tab = "minutes" /\ "deleting" \notin page.busy /\ "loadingMinutes" \notin page.busy
  /\ Does("deleteMinutes", None, Flagged("deleting"))

\* An invited person opens the link and joins; who is shown an error may try again.
Accept(e) ==
  /\ e \in server.links /\ e \notin page.joining \cup page.joined
  /\ Does("accept", e, [page EXCEPT !.joining = @ \cup {e}])

-----------------------------------------------------------------------------
(* The handlers *)

Step(c, stage, s) ==
  call' = [call EXCEPT ![c].stage = stage] /\ server' = s /\ UNCHANGED <<page, asked, lost>>
At(c, kinds, stage) == call[c] # None /\ call[c].kind \in kinds /\ call[c].stage = stage

Joins == {"invite", "accept"}

\* The seats are counted for an invitation only; a link must be unused.
Admits(c) ==
  IF call[c].kind = "invite" THEN Cardinality(server.members) < MaxMembers
  ELSE call[c].arg \in server.links \ server.used

Check(c) ==
  /\ At(c, Joins, "sent")
  /\ IF Admits(c) /\ call[c].arg \notin server.members THEN Step(c, "counted", server)
     ELSE Step(c, "refused", server)

\* Keycloak has one identity for an address.
CreateIdentity(c) ==
  /\ At(c, Joins, "counted")
  /\ IF call[c].arg \in server.identities THEN Step(c, "refused", server)
     ELSE Step(c, "created", [server EXCEPT !.identities = @ \cup {call[c].arg}])

\* Somebody is deleting the row of this address.
RowLocked(e) == \E c \in Calls : At(c, {"remove"}, "identityGone") /\ call[c].arg = e

\* Mutant: an INSERT that fails leaves the identity.
Uncompensated(e) == [server EXCEPT !.broken = @ \ {e}]

\* The identity just created is deleted again.
Compensated(e) == [server EXCEPT !.identities = @ \ {e}]

\* The INSERT waits for a deletion of the address, and fails if there is a row;
\* an accepted link has a statement to go.
InsertRow(c) ==
  /\ At(c, Joins, "created") /\ ~RowLocked(call[c].arg)
  /\ LET e == call[c].arg
     IN IF e \in server.members THEN Step(c, "refused", Compensated(e))
        ELSE Step(c, IF call[c].kind = "accept" THEN "inserted" ELSE "ok",
                  [server EXCEPT !.members = @ \cup {e}, !.rights[e] = e])

MarkUsed(c) ==
  /\ At(c, {"accept"}, "inserted")
  /\ Step(c, "ok", [server EXCEPT !.used = @ \cup {call[c].arg}])

RowFree(e) == e \in server.members /\ ~RowLocked(e)

\* remove_team_account: the row is locked and its deletion tried before Keycloak's, of the
\* identity it names, which one that broke off has deleted; a row gone meanwhile is not found.
DeleteIdentity(c) ==
  /\ At(c, {"remove"}, "sent")
  /\ LET e == call[c].arg
         left == IF e \in server.broken THEN server.identities ELSE server.identities \ {e}
     IN \/ RowFree(e) /\ Step(c, "identityGone", [server EXCEPT !.identities = left])
        \/ e \notin server.members /\ Step(c, "refused", server)

DeleteRow(c) ==
  /\ At(c, {"remove"}, "identityGone")
  /\ LET e == call[c].arg
     IN Step(c, "ok", [server EXCEPT !.members = @ \ {e},
                                     !.broken = IF e \in server.identities THEN @ ELSE @ \ {e}])

\* A link may be made for an address as long as it has no account.
WriteOne(c) ==
  /\ At(c, {"link", "rights"}, "sent")
  /\ LET s == IF call[c].kind = "link"
              THEN [server EXCEPT !.links = @ \cup {call[c].arg}, !.used = @ \ {call[c].arg}]
              ELSE [server EXCEPT !.rights[call[c].arg.of] = call[c].arg.from]
         done == IF call[c].kind = "link"
                 THEN Cardinality(server.members) < MaxMembers /\ call[c].arg \notin server.members
                 ELSE call[c].arg.of \in server.members
     IN IF done THEN Answers(c, None, s) ELSE Step(c, "refused", server)

\* What is read, and what concerns neither rows nor identities.
Reads(c) ==
  /\ At(c, {"list", "readRights", "minutes", "edit", "export", "upload", "deleteMinutes"}, "sent")
  /\ Answers(c, IF call[c].kind = "list" THEN server.members
                ELSE IF call[c].kind = "readRights" THEN server.rights[call[c].arg] ELSE None, server)

\* A worker dies between two statements, or Keycloak fails; a transaction is undone.
BreaksOff(c) ==
  /\ call[c] # None /\ call[c].stage \in {"counted", "created", "inserted", "identityGone"}
  /\ lost < MaxLost /\ lost' = lost + 1
  /\ call' = [call EXCEPT ![c].stage = "refused"]
  /\ server' = IF call[c].stage \in {"created", "identityGone"}
               THEN [server EXCEPT !.broken = @ \cup {call[c].arg}] ELSE server
  /\ UNCHANGED <<page, asked>>

\* The database fails the INSERT.
FailsToInsert(c) ==
  /\ At(c, Joins, "created")
  /\ lost < MaxLost /\ lost' = lost + 1
  /\ call' = [call EXCEPT ![c].stage = "refused"]
  /\ server' = Compensated(call[c].arg)
  /\ UNCHANGED <<page, asked>>

Serves(c) ==
  \/ Check(c) \/ CreateIdentity(c) \/ InsertRow(c) \/ MarkUsed(c)
  \/ DeleteIdentity(c) \/ DeleteRow(c) \/ WriteOne(c) \/ Reads(c)

-----------------------------------------------------------------------------
(* What follows an answer *)

Lists(c, p) == Goes([call EXCEPT ![c] = Sent("list", None)], [p EXCEPT !.busy = @ \cup {"fetching"}])

GotList(c) ==
  /\ Arrived(c) /\ call[c].kind = "list"
  /\ Goes(Dropped(c), [page EXCEPT !.busy = @ \ {"fetching"}, !.rows = IF Ok(c) THEN call[c].answer ELSE @])

GotInvite(c) ==
  /\ Arrived(c) /\ call[c].kind = "invite"
  /\ LET p == [page EXCEPT !.busy = @ \ {"inviting"}]
     IN IF Ok(c) THEN Lists(c, [p EXCEPT !.dialog = IF @ = "invite" THEN "none" ELSE @])
        ELSE Goes(Dropped(c), p)

GotLink(c) ==
  Arrived(c) /\ call[c].kind = "link" /\ Goes(Dropped(c), [page EXCEPT !.busy = @ \ {"linking"}])

Removed(c) == [page EXCEPT !.removing = None]

\* The list is read also after a refusal, but not after a lost call.
GotRemove(c) ==
  /\ Arrived(c) /\ call[c].kind = "remove"
  /\ Lists(c, Removed(c)) \/ (~Ok(c) /\ Goes(Dropped(c), Removed(c)))

GotEdit(c) ==
  /\ Arrived(c) /\ call[c].kind = "edit"
  /\ LET p == [page EXCEPT !.busy = @ \ {"saving"}]
     IN Lists(c, [p EXCEPT !.editing = None]) \/ (~Ok(c) /\ Goes(Dropped(c), p))

\* Whichever member's rights are open now.
GotRights(c) ==
  /\ Arrived(c) /\ call[c].kind = "readRights"
  /\ Goes(Dropped(c), IF Ok(c) THEN [page EXCEPT !.rightsShown = call[c].answer] ELSE page)

GotSavedRights(c) ==
  /\ Arrived(c) /\ call[c].kind = "rights"
  /\ LET p == [page EXCEPT !.busy = @ \ {"rights"}]
         closed == [p EXCEPT !.dialog = IF @ = "rights" THEN "none" ELSE @, !.rightsOf = None]
     IN Goes(Dropped(c), closed) \/ (~Ok(c) /\ Goes(Dropped(c), p))

GotExport(c) ==
  Arrived(c) /\ call[c].kind = "export" /\ Goes(Dropped(c), [page EXCEPT !.busy = @ \ {"exporting"}])

GotMinutes(c) ==
  /\ Arrived(c) /\ call[c].kind = "minutes"
  /\ Goes(Dropped(c), [page EXCEPT !.busy = @ \ {"loadingMinutes"}])

GotMinutesChange(c) ==
  /\ Arrived(c) /\ call[c].kind \in {"upload", "deleteMinutes"}
  /\ LET p == [page EXCEPT !.busy = @ \ {IF call[c].kind = "upload" THEN "uploading" ELSE "deleting"}]
     IN \/ /\ Ok(c) \/ call[c].kind = "deleteMinutes"
           /\ Goes([call EXCEPT ![c] = Sent("minutes", None)], [p EXCEPT !.busy = @ \cup {"loadingMinutes"}])
        \/ ~Ok(c) /\ Goes(Dropped(c), p)

GotAccept(c) ==
  /\ Arrived(c) /\ call[c].kind = "accept"
  /\ Goes(Dropped(c), [page EXCEPT !.joining = @ \ {call[c].arg},
                                   !.joined = IF Ok(c) THEN @ \cup {call[c].arg} ELSE @])

-----------------------------------------------------------------------------
Starts ==
  \/ \E e \in People :
       HandleInvite(e) \/ CreateLink(e) \/ StartEdit(e) \/ HandleRemove(e) \/ OpenRights(e) \/ Accept(e)
  \/ OpenInvite("invite") \/ OpenInvite("link") \/ CloseDialog \/ CancelEdit \/ HandleSave \/ HandleExportIHC
  \/ SaveRights \/ ShowMinutes \/ ShowMembers \/ HandleUploadMinutes \/ DeleteMinutes

Continues(c) ==
  \/ GotList(c) \/ GotInvite(c) \/ GotLink(c) \/ GotRemove(c) \/ GotEdit(c) \/ GotRights(c) \/ GotSavedRights(c)
  \/ GotExport(c) \/ GotMinutes(c) \/ GotMinutesChange(c) \/ GotAccept(c) \/ Unheard(c)

Next ==
  Starts \/ \E c \in Calls : Serves(c) \/ Refuses(c) \/ Loses(c) \/ BreaksOff(c) \/ FailsToInsert(c) \/ Continues(c)

-----------------------------------------------------------------------------
(* Properties *)

TypeOK ==
  /\ page.rows \subseteq People /\ page.busy \subseteq Flags /\ page.tab \in Tabs
  /\ {page.editing, page.removing, page.rightsOf, page.rightsShown} \subseteq People \cup {None}
  /\ server.members \cup server.identities \cup server.links \cup server.used \subseteq People
  /\ \A c \in Calls : call[c] # None => call[c].stage \in Stages

Engaged(e, kinds, stage) == \E c \in Calls : At(c, kinds, stage) /\ call[c].arg = e

\* An account is a row with an identity.  One is without the other only while a handler is
\* between its two statements, or where one broke off there: however invitations, uses of
\* a link and removals of the same address overlap, and whoever compensates.
AccountIsWhole ==
  \A e \in People \ server.broken :
    /\ e \in server.members \ server.identities => Engaged(e, {"remove"}, "identityGone")
    /\ e \in server.identities \ server.members => Engaged(e, Joins, "created")

\* "Đã đạt giới hạn ... thành viên": the seats are never exceeded.
SeatsKept == Cardinality(server.members) <= MaxMembers

\* "Owner sets permissions for a member": nobody is given the rights shown of another member.
RightsOfTheMember == \A e \in People : server.rights[e] \in {e, None}

\* The buttons are freed and lists finish loading.
Rests == page.busy = {} /\ page.removing = None /\ page.joining = {}
=============================================================================
