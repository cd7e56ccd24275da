-------------------------- MODULE SubmissionsPage --------------------------
(***************************************************************************)
(* The page of submissions (app/submissions/page.tsx): the business sees   *)
(* what it has sent, replaces documents, sends and archives; the provider  *)
(* sees what it has received, moves, assigns, evaluates and approves it.   *)
(* The identity behind the page may change while it is open, when another  *)
(* tab signs in: the page is then mounted anew.  Lists, details and the    *)
(* preparation of a submission are numbered requests; other reads are not. *)
(***************************************************************************)
EXTENDS PageCalls

CONSTANTS Users, Role,   \* "business" (an owner) or "provider"
          Subs, Types,
          MaxSwitches    \* bound: changes of the identity

\* How many commands the server has carried out stands for what a list shows.
Lists == [of : Users, commands : Nat]
Details == [of : Subs, by : Users, reloaded : BOOLEAN]

Flags == {"issuing", "saving", "approving", "uploading", "finalizing", "submitting"}
Dialogs == {"certificate", "deadline", "revisions", "submit"}
Reading == {"list", "details", "reload", "setup", "revisions"}

IsBusiness == page.user # None /\ Role[page.user] = "business"
IsProvider == page.user # None /\ Role[page.user] = "provider"

-----------------------------------------------------------------------------
(* The identity *)

\* The page as it is first shown to an identity, with the list under way that it asks for.
\* "round" counts, for a property only, the submissions the page has meant to make.
Mounted(u, round) ==
  [user |-> u, list |-> None, fetching |-> u # None, heard |-> 0,
   expanded |-> None, docs |-> None, loadingDocs |-> FALSE, dialogs |-> {},
   setup |-> None, loadingSetup |-> FALSE, attempt |-> None, round |-> round,
   revisionType |-> None, revisions |-> None, loadingRevisions |-> FALSE,
   updating |-> None, assigning |-> None, busy |-> {}]

\* fetchSubs up to its fetch.
Listing(calls, p) ==
  <<Put(Ignored(calls, {"list"}), Sent("list", p.user)), [p EXCEPT !.fetching = TRUE]>>

\* Mutant: the page stays and only empties itself.
EmptiedFor(u) ==
  LET calls == Ignored(call, {"list", "details", "setup"})
      p == [page EXCEPT !.user = u, !.list = None, !.expanded = None, !.docs = None, !.setup = None,
                        !.dialogs = @ \ {"submit"}, !.attempt = None, !.round = @ + 1]
  IN IF u = None THEN <<calls, p>> ELSE Listing(calls, p)

\* The page is keyed by the identity: another one has a page of its own, and what the
\* former page had under way nobody hears of.
MountedFor(u) ==
  LET p == Mounted(u, page.round + 1)
  IN IF u = None THEN <<Unmounted, p>> ELSE Listing(Unmounted, p)

Follows(next) == Goes(next[1], next[2])

\* Another identity, or none, as the session says.
Switch(u) ==
  /\ u # page.user /\ server.switches < MaxSwitches /\ Free(call) # {}
  /\ LET next == MountedFor(u) IN call' = next[1] /\ page' = next[2]
  /\ server' = [server EXCEPT !.switches = @ + 1]
  /\ UNCHANGED <<asked, lost>>

\* The list is there; a business may have opened the dialog for sending already.
Init ==
  /\ \E u \in Users :
       LET listed == [Mounted(u, 0) EXCEPT !.list = [of |-> u, commands |-> 0], !.fetching = FALSE]
       IN \/ page = listed
          \/ Role[u] = "business" /\ page = [listed EXCEPT !.dialogs = {"submit"}, !.setup = u]
  /\ server = [commands |-> 0, switches |-> 0, slots |-> [t \in Types |-> t],
               keys |-> {}, created |-> {}]
  /\ call = [c \in Calls |-> None]
  /\ asked = 0 /\ lost = 0

-----------------------------------------------------------------------------
(* What the user sees and starts *)

\* A dialog covers the page.
Usable == page.user # None /\ page.dialogs = {}
RowsShown == Usable /\ page.list # None /\ ~page.fetching

\* Mutant: the details are asked for without a number of their own.
ExpandingUnnumbered(calls, p, s, after) ==
  <<Put(calls, Sent("details", <<s, after, p.user>>)),
    [p EXCEPT !.expanded = s, !.docs = None, !.loadingDocs = TRUE]>>

\* loadSubmissionDetails up to its fetches; "after" says who awaits it.
Expanding(calls, p, s, after) ==
  <<Put(Ignored(calls, {"details"}), Sent("details", <<s, after, p.user>>)),
    [p EXCEPT !.expanded = s, !.docs = None, !.loadingDocs = TRUE]>>

Starting(next) ==
  /\ asked < MaxAsked /\ asked' = asked + 1 /\ Free(call) # {}
  /\ call' = next[1] /\ page' = next[2]
  /\ UNCHANGED <<server, lost>>

ToggleExpand(s) ==
  /\ RowsShown
  /\ \/ page.expanded = s /\ Turns([page EXCEPT !.expanded = None])
     \/ page.expanded # s /\ Starting(Expanding(call, page, s, None))

\* What could not be loaded may be asked for again.
RetryDetails(s) ==
  /\ RowsShown /\ page.expanded = s /\ page.docs = None /\ ~page.loadingDocs
  /\ Starting(Expanding(call, page, s, None))

\* A token that is renewed has the list fetched again, and so has a retry.
RenewToken == page.user # None /\ Starting(Listing(call, page))

RetryList ==
  Usable /\ page.list = None /\ ~page.fetching /\ Starting(Listing(call, page))

\* Back to the companies' folders.
BackToFolders ==
  RowsShown /\ IsProvider /\ page.expanded # None /\ Turns([page EXCEPT !.expanded = None])

Does(kind, arg, p) == Gives(call, Sent(kind, arg), p)
Flagged(flag) == [page EXCEPT !.busy = @ \cup {flag}]
Opened(s) == RowsShown /\ page.expanded = s

UpdateStatus(s) ==
  /\ Opened(s) /\ IsProvider /\ page.updating # s
  /\ Does("update", s, [page EXCEPT !.updating = s])

AssignAuditor(s) ==
  /\ Opened(s) /\ IsProvider /\ page.assigning # s
  /\ Does("assign", s, [page EXCEPT !.assigning = s])

SaveEvaluation(s) ==
  Opened(s) /\ IsProvider /\ "saving" \notin page.busy /\ Does("save", s, Flagged("saving"))

ApproveFinal(s) ==
  /\ Opened(s) /\ IsProvider /\ "approving" \notin page.busy
  /\ Does("approve", s, Flagged("approving"))

HandleFinalize(s) ==
  /\ Opened(s) /\ IsBusiness /\ "finalizing" \notin page.busy
  /\ Does("finalize", s, Flagged("finalizing"))

\* A new version is uploaded, then put in the place of the document in the submission.
HandleReupload(s, t) ==
  /\ Opened(s) /\ IsBusiness /\ page.docs # None /\ "uploading" \notin page.busy
  /\ Does("upload", <<s, t, t>>, Flagged("uploading"))

OpenCertificate ==
  /\ RowsShown /\ IsProvider /\ page.expanded = None
  /\ Turns([page EXCEPT !.dialogs = {"certificate"}])

OpenDeadline ==
  /\ RowsShown /\ IsProvider /\ page.expanded # None
  /\ Turns([page EXCEPT !.dialogs = {"deadline"}])

CloseDialog(dialog) ==
  /\ dialog # "submit" /\ dialog \in page.dialogs
  /\ Turns([page EXCEPT !.dialogs = @ \ {dialog},
                        !.revisionType = IF dialog = "revisions" THEN None ELSE @])

\* The dialog for sending stays while it sends.
CloseSubmitModal ==
  /\ "submit" \in page.dialogs /\ "submitting" \notin page.busy
  /\ Goes(Ignored(call, {"setup"}), [page EXCEPT !.dialogs = @ \ {"submit"}])

IssueCertificate ==
  /\ "certificate" \in page.dialogs /\ "issuing" \notin page.busy
  /\ Does("issue", None, Flagged("issuing"))

SetDeadline == "deadline" \in page.dialogs /\ Does("deadline", None, page)

\* The revisions of a document of the expanded submission.
OpenRevisions(t) ==
  /\ RowsShown /\ page.expanded # None /\ page.docs # None
  /\ Does("revisions", t,
          [page EXCEPT !.dialogs = {"revisions"}, !.revisionType = t, !.loadingRevisions = TRUE])

\* A version that is shown takes the place of the document of the type in the title.
SelectRevision ==
  /\ "revisions" \in page.dialogs /\ ~page.loadingRevisions /\ page.revisions # None
  /\ IsBusiness /\ page.expanded # None
  /\ Does("select", <<page.expanded, page.revisionType, page.revisions>>, page)

\* openSubmitModal up to its fetches: what an earlier opening had loaded is cleared.
OpenSubmitModal ==
  /\ IsBusiness
  /\ Usable \/ ("submit" \in page.dialogs /\ ~page.loadingSetup /\ page.setup = None)
  /\ Gives(Ignored(call, {"setup"}), Sent("setup", page.user),
           [page EXCEPT !.dialogs = {"submit"}, !.setup = None, !.loadingSetup = TRUE])

\* Mutant: every attempt has a key of its own.
AttemptAnew(t) == [of |-> <<page.user, t>>, key |-> asked]

\* What is sent, and by whom, has the key of the last attempt if that was the same.
AttemptFor(t) ==
  IF page.attempt # None /\ page.attempt.of = <<page.user, t>> THEN page.attempt
  ELSE [of |-> <<page.user, t>>, key |-> asked]

RoundFor(t) ==
  IF page.attempt = None \/ page.attempt.of = <<page.user, t>> THEN page.round ELSE page.round + 1

HandleSubmit(t) ==
  /\ "submit" \in page.dialogs /\ ~page.loadingSetup /\ page.setup # None
  /\ IsBusiness /\ "submitting" \notin page.busy
  /\ Does("submit", [key |-> AttemptFor(t).key, round |-> RoundFor(t)],
          [Flagged("submitting") EXCEPT !.attempt = AttemptFor(t), !.round = RoundFor(t)])

-----------------------------------------------------------------------------
(* The server *)

\* Reads show what was there.
Reads(c) ==
  /\ call[c] # None /\ call[c].stage = "sent" /\ call[c].kind \in Reading
  /\ Answers(c, server.commands, server)

\* replace-document takes any document of the business for the one it replaces.
Filled(slots, k) ==
  IF k.kind \in {"replace", "select"} THEN [slots EXCEPT ![k.arg[2]] = k.arg[3]] ELSE slots

\* A command is carried out; which the server refuses is the matter of SubmissionWorkflow.
Carries(c) ==
  LET k == call[c]
      submitted == IF k # None /\ k.kind = "submit" THEN {k.arg} ELSE {}
      new == {x \in submitted : x.key \notin server.keys}
  IN /\ k # None /\ k.stage = "sent" /\ k.kind \notin Reading
     /\ Answers(c, server.commands + 1,
          [server EXCEPT !.commands = @ + 1, !.slots = Filled(@, k),
                         !.keys = @ \cup {x.key : x \in submitted}, !.created = @ \cup new])

-----------------------------------------------------------------------------
(* What follows an answer *)

\* Mutant: the number of a list request is not looked at.
GotListAny(c) ==
  /\ Arrived(c) /\ call[c].kind = "list"
  /\ Goes(Dropped(c),
       [page EXCEPT !.fetching = FALSE,
                    !.list = IF Ok(c) THEN [of |-> call[c].arg, commands |-> call[c].answer] ELSE None])

\* fetchSubs: only the last request counts; its failure empties the list.
GotList(c) ==
  /\ Arrived(c) /\ call[c].kind = "list"
  /\ Goes(Dropped(c),
       IF ~call[c].live THEN page
       ELSE [page EXCEPT !.fetching = FALSE,
              !.list = IF Ok(c) THEN [of |-> call[c].arg, commands |-> call[c].answer] ELSE None])

\* loadSubmissionDetails: only the last request counts; whoever awaits one goes on.
GotDetails(c) ==
  /\ Arrived(c) /\ call[c].kind = "details"
  /\ LET shown == IF ~call[c].live THEN page
                  ELSE [page EXCEPT !.loadingDocs = FALSE,
                         !.docs = IF Ok(c) THEN [of |-> call[c].arg[1], by |-> call[c].arg[3], reloaded |-> FALSE]
                                  ELSE @]
     IN Goes(Dropped(c),
          IF call[c].arg[2] # "replace" THEN shown
          ELSE [shown EXCEPT !.busy = @ \ {"uploading"}, !.revisionType = None,
                             !.dialogs = @ \ {"revisions"}])

\* The documents are read again after an evaluation was saved, whatever is expanded now.
GotReload(c) ==
  /\ Arrived(c) /\ call[c].kind = "reload"
  /\ Goes(Dropped(c),
       [page EXCEPT !.busy = @ \ {"saving"},
          !.docs = IF Ok(c) THEN [of |-> call[c].arg[1], by |-> call[c].arg[2], reloaded |-> TRUE]
                   ELSE @])

\* Mutant: the answer is kept as the commands it shows.
GotSetupAsRows(c) ==
  /\ Arrived(c) /\ call[c].kind = "setup"
  /\ Goes(Dropped(c), [page EXCEPT !.loadingSetup = FALSE, !.setup = call[c].answer])

GotSetup(c) ==
  /\ Arrived(c) /\ call[c].kind = "setup"
  /\ Goes(Dropped(c),
       IF ~call[c].live THEN page
       ELSE [page EXCEPT !.loadingSetup = FALSE,
              !.setup = IF Ok(c) THEN call[c].arg ELSE @])

\* The last answer to come is shown, under the title of the last type asked for.
GotRevisions(c) ==
  /\ Arrived(c) /\ call[c].kind = "revisions"
  /\ Goes(Dropped(c),
       [page EXCEPT !.loadingRevisions = FALSE, !.revisions = IF Ok(c) THEN call[c].arg ELSE @])

\* A command's end: the list is fetched, so that it shows what was done.
HeardAndListed(c, p) ==
  LET heard == [p EXCEPT !.heard = IF Ok(c) /\ @ < call[c].answer THEN call[c].answer ELSE @]
  IN Listing(Dropped(c), heard)

FlagOf(kind) ==
  CASE kind = "issue" -> "issuing" [] kind = "approve" -> "approving"
    [] kind = "finalize" -> "finalizing" [] kind = "submit" -> "submitting" [] OTHER -> "saving"

Done(c) == [page EXCEPT !.busy = @ \ {FlagOf(call[c].kind)}]

\* updateStatus and assignAuditor list again also after a refusal, not after a lost call.
GotMoved(c) ==
  /\ Arrived(c) /\ call[c].kind \in {"update", "assign"}
  /\ LET p == IF call[c].kind = "update" THEN [page EXCEPT !.updating = None]
              ELSE [page EXCEPT !.assigning = None]
     IN \/ Follows(HeardAndListed(c, p))
        \/ ~Ok(c) /\ Goes(Dropped(c), p)

\* approveFinal and handleFinalize close the submission.
GotDecided(c) ==
  /\ Arrived(c) /\ call[c].kind \in {"approve", "finalize"}
  /\ IF Ok(c) THEN Follows(HeardAndListed(c, [Done(c) EXCEPT !.expanded = None]))
     ELSE Goes(Dropped(c), Done(c))

GotIssued(c) ==
  /\ Arrived(c) /\ call[c].kind = "issue"
  /\ Goes(Dropped(c), Done(c))

\* setDeadline does not look at the status of the answer.
GotDeadline(c) ==
  /\ Arrived(c) /\ call[c].kind = "deadline"
  /\ \/ Follows(HeardAndListed(c, [page EXCEPT !.dialogs = @ \ {"deadline"}]))
     \/ ~Ok(c) /\ Goes(Dropped(c), page)

GotSubmitted(c) ==
  /\ Arrived(c) /\ call[c].kind = "submit"
  /\ IF Ok(c)
     THEN Follows(HeardAndListed(c, [Done(c) EXCEPT !.dialogs = @ \ {"submit"},
                                                    !.attempt = None, !.round = @ + 1]))
     ELSE Goes(Dropped(c), Done(c))

\* saveEvaluation: the list and the documents of the submission are read again.
GotSaved(c) ==
  /\ Arrived(c) /\ call[c].kind = "save"
  /\ IF Ok(c)
     THEN /\ Free(call) # {}
          /\ LET next == HeardAndListed(c, page)
             IN Goes(Put(next[1], Sent("reload", <<call[c].arg, page.user>>)), next[2])
     ELSE Goes(Dropped(c), Done(c))

\* handleReupload: the second of its calls puts the new document in place.
GotUploaded(c) ==
  /\ Arrived(c) /\ call[c].kind = "upload"
  /\ IF Ok(c) THEN Goes([call EXCEPT ![c] = Sent("replace", call[c].arg)], page)
     ELSE Goes(Dropped(c), [page EXCEPT !.busy = @ \ {"uploading"}])

\* Mutant: a replacement that is refused leaves its button disabled.
GotReplacedStill(c) ==
  /\ Arrived(c) /\ call[c].kind = "replace"
  /\ IF Ok(c) THEN Follows(Expanding(Dropped(c), page, call[c].arg[1], "replace"))
     ELSE Goes(Dropped(c), page)

\* The submission is expanded again, whatever is expanded now.
GotReplaced(c) ==
  /\ Arrived(c) /\ call[c].kind = "replace"
  /\ IF Ok(c) THEN Follows(Expanding(Dropped(c), page, call[c].arg[1], "replace"))
     ELSE Goes(Dropped(c), [page EXCEPT !.busy = @ \ {"uploading"}])

GotSelected(c) ==
  /\ Arrived(c) /\ call[c].kind = "select"
  /\ IF Ok(c)
     THEN Follows(Expanding(Dropped(c),
            [page EXCEPT !.dialogs = @ \ {"revisions"}, !.revisionType = None], call[c].arg[1], None))
     ELSE Goes(Dropped(c), page)

-----------------------------------------------------------------------------
Starts ==
  \/ \E s \in Subs :
       \/ ToggleExpand(s) \/ RetryDetails(s) \/ UpdateStatus(s) \/ AssignAuditor(s)
       \/ SaveEvaluation(s) \/ ApproveFinal(s) \/ HandleFinalize(s)
       \/ \E t \in Types : HandleReupload(s, t)
  \/ \E t \in Types : OpenRevisions(t) \/ HandleSubmit(t)
  \/ \E d \in Dialogs : CloseDialog(d)
  \/ RenewToken \/ RetryList \/ BackToFolders \/ OpenCertificate \/ IssueCertificate \/ OpenDeadline \/ SetDeadline
  \/ SelectRevision \/ OpenSubmitModal \/ CloseSubmitModal

Serves(c) == Reads(c) \/ Carries(c)

Continues(c) ==
  \/ GotList(c) \/ GotDetails(c) \/ GotReload(c) \/ GotSetup(c) \/ GotRevisions(c) \/ GotMoved(c)
  \/ GotDecided(c) \/ GotIssued(c) \/ GotDeadline(c) \/ GotSubmitted(c) \/ GotSaved(c)
  \/ GotUploaded(c) \/ GotReplaced(c) \/ GotSelected(c) \/ Unheard(c)

Next ==
  \/ Starts \/ \E u \in Users \cup {None} : Switch(u)
  \/ \E c \in Calls : Serves(c) \/ Refuses(c) \/ Loses(c) \/ Continues(c)

-----------------------------------------------------------------------------
(* Properties *)

TypeOK ==
  /\ page.user \in Users \cup {None} /\ page.list \in Lists \cup {None}
  /\ {page.expanded, page.updating, page.assigning} \subseteq Subs \cup {None}
  /\ page.docs \in Details \cup {None} /\ page.setup \in Users \cup {None}
  /\ {page.revisionType, page.revisions} \subseteq Types \cup {None}
  /\ page.dialogs \subseteq Dialogs /\ page.busy \subseteq Flags
  /\ page.heard \in Nat
  /\ server.slots \in [Types -> Types]
  /\ \A c \in Calls : call[c] # None => call[c].stage \in {"sent", "ok", "refused"}

\* The list that is shown covers every command the page has been told of: an answer
\* asked for before a command never takes the place of the one asked for after it.
ListCoversOwnCommands ==
  page.list # None /\ ~page.fetching => page.list.commands >= page.heard

\* Under a new identity nothing is shown of what the one before had asked for, however
\* late it arrives: list, documents and what a submission is made from.
NothingOfPreviousIdentity ==
  /\ page.list # None => page.list.of = page.user
  /\ page.setup # None => page.setup = page.user
  /\ page.docs # None => page.docs.by = page.user

\* The documents shown are those of the expanded submission, unless an evaluation was
\* saved meanwhile: its reload is not numbered.
DetailsBelongToExpanded ==
  page.docs # None /\ page.expanded # None /\ ~page.docs.reloaded => page.docs.of = page.expanded

\* A submission meant once is made once, however often it is retried after lost
\* answers and however late the lost call reaches the server.
SubmittedOnce == \A x, y \in server.created : x.round = y.round => x = y

\* "Business replaces an old document in a submission with a new revision": the
\* document of a type is only replaced by one of the type.
ReplacedByRevision ==
  \A t \in Types : server.slots[t] = t

\* Lists, documents and dialogs finish loading and every button is freed.
Rests ==
  \/ page.user = None
  \/ /\ page.busy = {} /\ page.updating = None /\ page.assigning = None
     /\ ~page.fetching /\ ~page.loadingRevisions
     /\ page.expanded # None => ~page.loadingDocs
     /\ "submit" \in page.dialogs => ~page.loadingSetup
=============================================================================
