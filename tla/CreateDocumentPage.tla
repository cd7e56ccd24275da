------------------------ MODULE CreateDocumentPage ------------------------
(***************************************************************************)
(* Documents made from templates (app/create-document), by itself or for a *)
(* dossier named in the address, and downloaded one file after the other.  *)
(* Only the dossier's answer is dropped once it is no longer asked for.    *)
(* What fills the templates is not told apart: company, date, language.    *)
(***************************************************************************)
EXTENDS PageCalls

CONSTANTS
    Types,        \* of documents
    Standards, Dossiers,
    StandardOf,   \* the standard of a dossier
    Required,     \* the types of documents a standard asks for
    PdfOnly,      \* types whose template is not a DOCX
    Wired         \* types the page knows the data of the PDF for

Formats == {"docx", "pdf"}
MaxSelected == 3

-----------------------------------------------------------------------------
(* The page *)

\* Selection, dossier and all are there from the start; the rest is loaded.
Mounted ==
  [dossier |-> None, context |-> None, error |-> FALSE, code |-> None, standard |-> None,
   loading |-> FALSE, step |-> 1, selected |-> {}, format |-> "docx",
   run |-> None, chosen |-> {}, made |-> {}, generated |-> FALSE]

\* A standard has been picked of those of the industry; files may be ready to be made.
Init ==
  /\ \E s \in Standards :
       \/ page = [Mounted EXCEPT !.code = s, !.standard = s]
       \/ \E ts \in SUBSET Required[s] \ {{}}, f \in Formats :
            page = [Mounted EXCEPT !.code = s, !.standard = s, !.selected = ts, !.step = 2, !.format = f]
  /\ server = None
  /\ call = [c \in Calls |-> None]
  /\ asked = 0 /\ lost = 0

Does(kind, arg, p) == Gives(call, Sent(kind, arg), p)

\* Everything the page shows is behind the loading of its data and of the dossier.
Usable == ~page.loading /\ (page.dossier # None => page.context # None)

Offered == IF page.standard = None THEN Types ELSE Required[page.standard]

\* Mutant: whatever was asked for last is not told apart from what was asked before.
AllOfThem(calls) == calls

\* Only the one of the address counts: the answer to what was asked before is dropped.
OnlyNewest(calls) == Ignored(calls, {"dossier"})

\* Another dossier in the address, or none. Two things are fetched; one that finds no call
\* left counts as failed.
Navigate(d) ==
  /\ page.dossier # d
  /\ LET first == IF d # None THEN Sent("dossier", d) ELSE Sent("standard", page.code)
         p == [page EXCEPT !.dossier = d, !.context = None, !.error = FALSE,
                 !.selected = {}, !.generated = FALSE]
         calls == Put(OnlyNewest(call), first)
     IN /\ asked < MaxAsked /\ asked' = asked + 1
        /\ Free(call) # {}
        /\ d = None => page.code # None
        /\ IF Free(calls) = {} THEN call' = calls /\ page' = p
           ELSE call' = Put(calls, Sent("data", d)) /\ page' = [p EXCEPT !.loading = TRUE]
        /\ UNCHANGED <<server, lost>>

\* Without a dossier; what was selected stays.
PickStandard(s) ==
  /\ Usable /\ page.dossier = None /\ page.code # s
  /\ Does("standard", s, [page EXCEPT !.code = s])

ToggleTemplate(t) ==
  /\ Usable /\ page.step = 1 /\ t \in Offered
  /\ t \notin page.selected => Cardinality(page.selected) < MaxSelected
  /\ Turns([page EXCEPT !.selected = IF t \in @ THEN @ \ {t} ELSE @ \cup {t}])

NextStep ==
  Usable /\ page.step = 1 /\ page.selected # {} /\ Turns([page EXCEPT !.step = 2])

ChooseFormat(f) == Usable /\ page.step = 2 /\ page.format # f /\ Turns([page EXCEPT !.format = f])

\* What is being made goes on.
Back ==
  Usable /\ page.step = 2 /\ Turns([page EXCEPT !.step = 1, !.generated = FALSE])

\* A PDF is asked for where there is nothing else, or where it is wished for and its data known.
Kind(t, format) == IF (t \in PdfOnly \/ format = "pdf") /\ t \in Wired THEN "pdf" ELSE "docx"

\* Files are made one by one; what they are is settled when the button is pressed.
HandleGenerate ==
  /\ Usable /\ page.step = 2 /\ page.run = None
  /\ LET p == [page EXCEPT !.chosen = page.selected, !.made = {}, !.generated = FALSE]
     IN IF page.selected = {} THEN Turns([p EXCEPT !.generated = TRUE])
        ELSE \E t \in page.selected :
               Does(Kind(t, page.format), t, [p EXCEPT !.run = page.format])

-----------------------------------------------------------------------------
(* The server, of which everything is read *)

At(c, kinds, stage) == call[c] # None /\ call[c].kind \in kinds /\ call[c].stage = stage

\* A template in DOCX is there unless it is PDF only; the renderer may be switched off.
Reads(c) ==
  /\ At(c, {"dossier", "data", "standard", "docx", "pdf"}, "sent")
  /\ IF call[c].kind = "docx" /\ call[c].arg \in PdfOnly THEN Refuses(c)
     ELSE \E answer \in IF call[c].kind = "pdf" THEN {"file", "missing"} ELSE {None} :
            Answers(c, answer, server)

Serves(c) == Reads(c)

-----------------------------------------------------------------------------
(* What follows an answer *)

GotDossier(c) ==
  /\ Arrived(c) /\ call[c].kind = "dossier"
  /\ Goes(Dropped(c),
       IF ~call[c].live THEN page
       ELSE IF ~Ok(c) THEN [page EXCEPT !.error = TRUE]
       ELSE LET s == StandardOf[call[c].arg]
            IN [page EXCEPT !.context = call[c].arg, !.code = s, !.standard = s])

\* The default standard is picked if there was no dossier when the data was asked for; with no
\* dossier by now, its types are fetched.
GotData(c) ==
  /\ Arrived(c) /\ call[c].kind = "data"
  /\ LET p == [page EXCEPT !.loading = FALSE]
     IN IF ~Ok(c) \/ call[c].arg # None THEN Goes(Dropped(c), p)
        ELSE \E s \in Standards :
               Goes(IF page.dossier = None /\ s # page.code
                    THEN [call EXCEPT ![c] = Sent("standard", s)] ELSE Dropped(c),
                    [p EXCEPT !.code = s])

GotStandard(c) ==
  /\ Arrived(c) /\ call[c].kind = "standard"
  /\ Goes(Dropped(c), IF Ok(c) THEN [page EXCEPT !.standard = call[c].arg] ELSE page)

Ended(p, told) == [p EXCEPT !.run = None, !.generated = told]
Saved(c) == page.made \cup {<<call[c].arg, call[c].kind>>}
Todo(made) == page.chosen \ {m[1] : m \in made}

\* A file is saved and the next one begun, or all of them are done.
GotFile(c) ==
  /\ Arrived(c) /\ call[c].kind \in {"docx", "pdf"} /\ Ok(c)
  /\ call[c].answer # "missing"
  /\ LET p == [page EXCEPT !.made = Saved(c)]
     IN \/ Todo(Saved(c)) = {} /\ Goes(Dropped(c), Ended(p, TRUE))
        \/ \E t \in Todo(Saved(c)) : Goes([call EXCEPT ![c] = Sent(Kind(t, page.run), t)], p)

\* A PDF that cannot be rendered is a DOCX instead.
FallsBack(c) ==
  /\ Arrived(c) /\ call[c].kind = "pdf" /\ Ok(c) /\ call[c].answer = "missing"
  /\ Goes([call EXCEPT ![c] = Sent("docx", call[c].arg)], page)

\* Mutant: the end is told as a success all the same.
SaysDone(c) ==
  /\ Arrived(c) /\ call[c].kind \in {"docx", "pdf"} /\ ~Ok(c)
  /\ Goes(Dropped(c), Ended(page, TRUE))

\* The first that fails ends it.
GivesUp(c) ==
  /\ Arrived(c) /\ call[c].kind \in {"docx", "pdf"} /\ ~Ok(c)
  /\ Goes(Dropped(c), Ended(page, FALSE))

-----------------------------------------------------------------------------
Starts ==
  \/ \E d \in Dossiers \cup {None} : Navigate(d)
  \/ \E s \in Standards : PickStandard(s)
  \/ \E t \in Types : ToggleTemplate(t)
  \/ \E f \in Formats : ChooseFormat(f)
  \/ NextStep \/ Back \/ HandleGenerate

Continues(c) ==
  \/ GotDossier(c) \/ GotData(c) \/ GotStandard(c) \/ GotFile(c) \/ FallsBack(c) \/ GivesUp(c)
  \/ Unheard(c)

Next ==
  \/ Starts
  \/ \E c \in Calls : Serves(c) \/ Refuses(c) \/ Loses(c) \/ Continues(c)

-----------------------------------------------------------------------------
(* Properties *)

TypeOK ==
  /\ page.dossier \in Dossiers \cup {None} /\ page.context \in Dossiers \cup {None}
  /\ page.code \in Standards \cup {None} /\ page.standard \in Standards \cup {None}
  /\ page.selected \in SUBSET Types /\ page.format \in Formats
  /\ page.made \subseteq Types \X Formats /\ page.run \in Formats \cup {None}

\* However often the address changes while dossiers are on their way, the one shown is
\* the one of the address.
ContextOfTheAddress == page.context \in {None, page.dossier}

\* Success is told only when every file that was chosen has been saved, as a PDF or as a
\* DOCX in its place.
AllOfThemMade == page.generated => page.chosen \subseteq {m[1] : m \in page.made}

\* The types offered for a dossier are those of its standard.
OfferedForTheDossier == page.context # None => page.standard = StandardOf[page.context]

\* The page is loaded, and what is being made ends.
Rests == ~page.loading /\ page.run = None
=============================================================================
