----------------------------- MODULE UploadPage -----------------------------
(***************************************************************************)
(* The page on which a document is evaluated (app/upload/page.tsx).  The   *)
(* report is shown, kept with those of earlier versions of the file in the *)
(* browser's storage, and reviewed by an auditor whose review the server   *)
(* keeps under the file's name.  What the page shows outlives it in the    *)
(* session storage.  Keys of the storage name the identity; guests, who    *)
(* have no keys, are left out.                                             *)
(***************************************************************************)
EXTENDS PageCalls, Sequences

CONSTANTS Users,
          Role,           \* "provider", who also reviews, or "business"
          MayAnalyze,     \* who may upload: providers, owners, and members with the right
          Files,
          MaxVersions,    \* the versions kept of a file
          MaxSwitches     \* bound: the page is left and mounted again

Reports == [of : Files, no : Nat]
Phases == {"idle", "analyzing", "done"}
Unkept == [versions |-> <<>>, report |-> None]

-----------------------------------------------------------------------------
(* The page and what outlives it *)

Empty(u) ==
  [user |-> u, phase |-> "idle", typed |-> FALSE, file |-> None, report |-> None,
   versions |-> <<>>, previous |-> None, existing |-> None,
   rewriting |-> FALSE, rewritten |-> FALSE, review |-> None, saved |-> FALSE]

\* Mutant: only the report is kept.
KeptReport(p) ==
  [file |-> None, typed |-> p.typed, report |-> p.report, versions |-> p.versions,
   existing |-> p.existing]

\* What the effect writes to the session storage once a report is there.
Kept(p) ==
  [file |-> p.file, typed |-> p.typed, report |-> p.report, versions |-> p.versions,
   existing |-> p.existing]

\* A page that is mounted starts from what was kept for its identity.
Restored(u, kept) ==
  IF kept = None THEN Empty(u)
  ELSE [Empty(u) EXCEPT !.phase = "done", !.file = kept.file, !.typed = kept.typed,
          !.report = kept.report, !.versions = kept.versions, !.existing = kept.existing]

\* Whatever changes while a report is shown is written to the session storage.
Shows(p, s) ==
  /\ page' = p
  /\ server' = IF p.phase = "done" THEN [s EXCEPT !.session[p.user] = Kept(p)] ELSE s

Nothing ==
  [analyses |-> 0, switches |-> 0, reviews |-> [x \in Users \X Files |-> None],
   stored |-> [x \in Users \X Files |-> Unkept], session |-> [u \in Users |-> None]]

\* A file may have been evaluated before.
Evaluated(u, f) ==
  LET report == [of |-> f, no |-> 1]
  IN [Nothing EXCEPT !.analyses = 1, !.stored[<<u, f>>] = [versions |-> <<1>>, report |-> report],
        !.session[u] = [file |-> f, typed |-> TRUE, report |-> report, versions |-> <<1>>, existing |-> None]]

Init ==
  /\ \E u \in Users :
       /\ server \in {Nothing} \cup {Evaluated(u, f) : f \in IF u \in MayAnalyze THEN Files ELSE {}}
       /\ page = Restored(u, server.session[u])
  /\ call = [c \in Calls |-> None]
  /\ asked = 0 /\ lost = 0

Forgotten(s) ==
  [s EXCEPT !.stored = [x \in Users \X Files |-> Unkept], !.session = [u \in Users |-> None]]

\* The page is left and opened again, or mounted anew for another identity, for which
\* the storage is emptied.
Remount(u) ==
  /\ server.switches < MaxSwitches
  /\ LET s == IF u = page.user THEN server ELSE Forgotten(server)
     IN /\ page' = Restored(u, s.session[u])
        /\ server' = [s EXCEPT !.switches = @ + 1]
  /\ call' = Unmounted
  /\ UNCHANGED <<asked, lost>>

-----------------------------------------------------------------------------
(* What the user starts *)

SelectDocType ==
  page.phase = "idle" /\ ~page.typed /\ Turns([page EXCEPT !.typed = TRUE])

Stored(f) == server.stored[<<page.user, f>>]

\* onDrop: the page is cleared, the earlier versions of the file are looked up.
Cleared(f) ==
  [page EXCEPT !.phase = "analyzing", !.file = f, !.report = None, !.existing = None,
               !.rewritten = FALSE, !.saved = FALSE,
               !.previous = Stored(f).report, !.versions = Stored(f).versions]

\* A file dropped by who may not analyze, or before its type is chosen, is not taken.
OnDrop(f) ==
  /\ page.phase = "idle" /\ page.user \in MayAnalyze /\ page.typed
  /\ Gives(call, Sent("evaluate", [of |-> f, earlier |-> Stored(f).versions]), Cleared(f))

SuggestRewrite ==
  /\ page.phase = "done" /\ ~page.rewriting /\ ~page.rewritten
  /\ Gives(call, Sent("rewrite", None), [page EXCEPT !.rewriting = TRUE])

\* The tab of the auditor.
Reviews == page.phase = "done" /\ Role[page.user] = "provider"

\* What is entered there is about the report shown.
EditReview == Reviews /\ page.review # page.report /\ Turns([page EXCEPT !.review = page.report])

SaveReview ==
  /\ Reviews /\ page.file # None /\ page.review # None
  /\ Gives(call, Sent("review", [of |-> <<page.user, page.file>>, content |-> page.review]), page)

\* Mutant: the form is kept for the next file.
FinishedWithForm == [Empty(page.user) EXCEPT !.rewriting = page.rewriting, !.review = page.review]

\* "Hoàn thành": what was kept is removed and the page is as at first; a rewrite that
\* is under way stays so.
Finished == [Empty(page.user) EXCEPT !.rewriting = page.rewriting, !.saved = page.saved]

Finish ==
  /\ page.phase = "done"
  /\ page' = Finished
  /\ server' = [server EXCEPT !.session[page.user] = None]
  /\ UNCHANGED <<call, asked, lost>>

\* The history of the file is deleted; the report stays on the page.
ClearHistory ==
  /\ page.phase = "done" /\ page.versions # <<>>
  /\ Shows([page EXCEPT !.versions = <<>>, !.previous = None],
           [server EXCEPT !.stored[<<page.user, page.file>>] = Unkept])
  /\ UNCHANGED <<call, asked, lost>>

-----------------------------------------------------------------------------
(* The server *)

\* A review replaces the one before; a file has one in each company.
Serves(c) ==
  /\ call[c] # None /\ call[c].stage = "sent"
  /\ \/ /\ call[c].kind = "evaluate"
        /\ Answers(c, [of |-> call[c].arg.of, no |-> server.analyses + 1],
                   [server EXCEPT !.analyses = @ + 1])
     \/ call[c].kind = "rewrite" /\ Answers(c, None, server)
     \/ /\ call[c].kind = "review"
        /\ Answers(c, None, [server EXCEPT !.reviews[call[c].arg.of] = call[c].arg.content])
     \/ call[c].kind = "existing" /\ Answers(c, server.reviews[call[c].arg], server)

-----------------------------------------------------------------------------
(* What follows an answer *)

\* The report waits a moment before it is shown.
GotEvaluation(c) ==
  /\ Arrived(c) /\ call[c].kind = "evaluate"
  /\ IF Ok(c)
     THEN Goes([call EXCEPT ![c] = [@ EXCEPT !.kind = "settle", !.stage = "ok"]], page)
     ELSE Goes(Dropped(c), [page EXCEPT !.phase = "idle"])

\* Mutant: the report is written before the list of versions.
VersionsAppended(report, earlier) ==
  LET updated == Append(earlier, report.no)
  IN [versions |-> SubSeq(updated, 1, IF Len(updated) < MaxVersions THEN Len(updated) ELSE MaxVersions),
      report |-> report]

\* saveFileVersion: the newest version first, the oldest given up.
Versioned(report, earlier) ==
  LET updated == <<report.no>> \o earlier
  IN [versions |-> SubSeq(updated, 1, IF Len(updated) < MaxVersions THEN Len(updated) ELSE MaxVersions),
      report |-> report]

\* The timer runs out: the report is shown and kept, and its review is asked for.
Settled(c) ==
  /\ Arrived(c) /\ call[c].kind = "settle"
  /\ LET report == call[c].answer
         entry == Versioned(report, call[c].arg.earlier)
     IN /\ call' = [call EXCEPT ![c] = Sent("existing", <<page.user, report.of>>)]
        /\ Shows([page EXCEPT !.report = report, !.phase = "done", !.versions = entry.versions],
                 [server EXCEPT !.stored[<<page.user, report.of>>] = entry])
  /\ UNCHANGED <<asked, lost>>

\* Whatever file is shown now.
GotExisting(c) ==
  /\ Arrived(c) /\ call[c].kind = "existing"
  /\ Shows(IF Ok(c) /\ call[c].answer # None THEN [page EXCEPT !.existing = call[c].answer] ELSE page,
           server)
  /\ call' = Dropped(c)
  /\ UNCHANGED <<asked, lost>>

\* A rewrite, or that there is none, is shown beside its issue of the report shown now.
GotRewrite(c) ==
  /\ Arrived(c) /\ call[c].kind = "rewrite"
  /\ Goes(Dropped(c), [page EXCEPT !.rewriting = FALSE, !.rewritten = TRUE])

GotReview(c) ==
  /\ Arrived(c) /\ call[c].kind = "review"
  /\ Goes(Dropped(c), IF Ok(c) THEN [page EXCEPT !.saved = TRUE] ELSE page)

-----------------------------------------------------------------------------
Starts ==
  \/ SelectDocType \/ SuggestRewrite \/ EditReview \/ SaveReview \/ Finish \/ ClearHistory
  \/ \E f \in Files : OnDrop(f)
  \/ \E u \in Users : Remount(u)

Continues(c) ==
  \/ GotEvaluation(c) \/ Settled(c) \/ GotExisting(c) \/ GotRewrite(c) \/ GotReview(c) \/ Unheard(c)

Next ==
  \/ Starts
  \/ \E c \in Calls : Serves(c) \/ Refuses(c) \/ (Loses(c) /\ call[c].kind # "settle") \/ Continues(c)

-----------------------------------------------------------------------------
(* Properties *)

TypeOK ==
  /\ page.user \in Users /\ page.phase \in Phases
  /\ page.file \in Files \cup {None}
  /\ {page.report, page.previous, page.existing, page.review} \subseteq Reports \cup {None}
  /\ \A x \in Users \X Files : server.reviews[x] \in Reports \cup {None}
  /\ Len(page.versions) <= MaxVersions

\* The comparison with the version before, shown beside a report.
Compared == page.report # None /\ page.previous # None

\* The report shown, or restored after the page was left, is about the file named
\* above it and compared with an earlier one of this file, and under an identity nothing
\* of another one is kept.
ReportOfItsFile ==
  /\ page.report # None => page.report.of = page.file
  /\ Compared => page.previous.of = page.file /\ page.previous.no < page.report.no
  /\ \A x \in Users \X Files : server.stored[x] # Unkept => x[1] = page.user
  /\ \A u \in Users : server.session[u] # None => u = page.user

\* What is compared with next time is the newest of the versions kept, which are never
\* those of another file.
NewestVersionKept ==
  \A x \in Users \X Files :
    LET kept == server.stored[x]
    IN kept # Unkept => kept.report.of = x[2] /\ kept.report.no = Head(kept.versions)

\* A review is kept under the name of the file its issues were found in, although the
\* form is the same for all files.
ReviewUnderItsFile ==
  \A x \in Users \X Files : server.reviews[x] # None => server.reviews[x].of = x[2]

\* An analysis and a rewrite come to an end.
Rests == page.phase # "analyzing" /\ ~page.rewriting
=============================================================================
