----------------------------- MODULE ClientPages -----------------------------
(***************************************************************************)
(* The pages of the web client that keep commands and answers in flight:   *)
(* the browser is at one of them, which shares with the others only the    *)
(* way it deals with its calls.  Whatever a page has started is answered,  *)
(* refused or lost, and the continuation of an await runs once its promise *)
(* is settled; users need not do anything.                                 *)
(***************************************************************************)
EXTENDS PageCalls, Sequences

CONSTANTS Users, Role, MayAnalyze,     \* who uses the pages
          Subs, Types, Files, Keys, SystemKeys, People,
          Suppliers, Materials, Categories, Batches, Codes, Items, Checklists, Visits,
          Standards, Dossiers, StandardOf, Required, PdfOnly, Wired,   \* what is made of templates
          MaxVersions, MaxMembers,
          MaxSwitches, MaxTurns        \* bounds, see the pages

ASSUME RoleAssumption == Role \in [Users -> {"business", "provider"}]
ASSUME AnalystsAssumption == MayAnalyze \subseteq Users
ASSUME SystemAssumption == SystemKeys \subseteq Keys
ASSUME StandardsAssumption == StandardOf \in [Dossiers -> Standards] /\ Required \in [Standards -> SUBSET Types]
ASSUME TemplatesAssumption == PdfOnly \cup Wired \subseteq Types
ASSUME BoundsAssumption == MaxVersions \in Nat \ {0} /\ MaxMembers \in Nat
ASSUME NoneAssumption == None \notin UNION {Users, Subs, Types, Files, Keys, People, Suppliers, Materials,
                                       Categories, Batches, Codes, Items, Checklists, Visits,
                                       Standards, Dossiers}

VARIABLE at   \* the page the browser is at
vars == <<at, pagevars>>

Submissions == INSTANCE SubmissionsPage
Upload == INSTANCE UploadPage
Admin == INSTANCE AdminPage
Team == INSTANCE TeamPage
Supply == INSTANCE SuppliersPage
Batch == INSTANCE BatchesPage
Creation == INSTANCE CreateDocumentPage
Visit == INSTANCE AuditVisitPage
Planning == INSTANCE AuditPlanningPage

ASSUME SomeAssumption == {} \notin {Suppliers, Materials, Categories, Checklists}
ASSUME NothingAssumption ==
  /\ None \notin {"checklist", "assignment"}
  /\ None \notin [kind : {"invite", "accept", "remove"}, arg : People, live : BOOLEAN, heard : BOOLEAN,
                  stage : Team!Stages, answer : {None}]
  /\ None \notin [of : Users \X Types, key : Nat]

Init ==
  \/ at = "submissions" /\ Submissions!Init
  \/ at = "upload" /\ Upload!Init
  \/ at = "admin" /\ Admin!Init
  \/ at = "team" /\ Team!Init
  \/ at = "suppliers" /\ Supply!Init
  \/ at = "batches" /\ Batch!Init
  \/ at = "create" /\ Creation!Init
  \/ at = "visit" /\ Visit!Init
  \/ at = "planning" /\ Planning!Init

Next ==
  /\ \/ at = "submissions" /\ Submissions!Next
     \/ at = "upload" /\ Upload!Next
     \/ at = "admin" /\ Admin!Next
     \/ at = "team" /\ Team!Next
     \/ at = "suppliers" /\ Supply!Next
     \/ at = "batches" /\ Batch!Next
     \/ at = "create" /\ Creation!Next
     \/ at = "visit" /\ Visit!Next
     \/ at = "planning" /\ Planning!Next
  /\ UNCHANGED at

Serves(c) ==
  /\ \/ at = "submissions" /\ Submissions!Serves(c)
     \/ at = "upload" /\ Upload!Serves(c)
     \/ at = "admin" /\ Admin!Serves(c)
     \/ at = "team" /\ Team!Serves(c)
     \/ at = "suppliers" /\ Supply!Serves(c)
     \/ at = "batches" /\ Batch!Serves(c)
     \/ at = "create" /\ Creation!Serves(c)
     \/ at = "visit" /\ Visit!Serves(c)
     \/ at = "planning" /\ Planning!Serves(c)
  /\ UNCHANGED at

Continues(c) ==
  /\ \/ at = "submissions" /\ Submissions!Continues(c)
     \/ at = "upload" /\ Upload!Continues(c)
     \/ at = "admin" /\ Admin!Continues(c)
     \/ at = "team" /\ Team!Continues(c)
     \/ at = "suppliers" /\ Supply!Continues(c)
     \/ at = "batches" /\ Batch!Continues(c)
     \/ at = "create" /\ Creation!Continues(c)
     \/ at = "visit" /\ Visit!Continues(c)
     \/ at = "planning" /\ Planning!Continues(c)
  /\ UNCHANGED at

\* Timers that have been set go off.
TimersEnd == at = "visit" /\ Visit!TimersEnd /\ UNCHANGED at

\* Every call is answered, what awaits an answer runs, and so do timers.
Fairness ==
  /\ \A c \in Calls : WF_vars(Serves(c)) /\ SF_vars(Continues(c))
  /\ WF_vars(TimersEnd)

Spec == Init /\ [][Next]_vars
FairSpec == Spec /\ Fairness

-----------------------------------------------------------------------------
(* Properties: those of the pages, see there *)

TypeOK ==
  /\ at = "submissions" => Submissions!TypeOK
  /\ at = "upload" => Upload!TypeOK
  /\ at = "admin" => Admin!TypeOK
  /\ at = "team" => Team!TypeOK
  /\ at = "suppliers" => Supply!TypeOK
  /\ at = "batches" => Batch!TypeOK
  /\ at = "create" => Creation!TypeOK
  /\ at = "visit" => Visit!TypeOK
  /\ at = "planning" => Planning!TypeOK

\* What a page shows belongs to the identity, the row or the file it is shown under,
\* and is no older than what the page was told before.
ShownBelongs ==
  /\ at = "submissions" => /\ Submissions!NothingOfPreviousIdentity
                           /\ Submissions!DetailsBelongToExpanded
                           /\ Submissions!ListCoversOwnCommands
  /\ at = "upload" => Upload!ReportOfItsFile
  /\ at = "create" => Creation!ContextOfTheAddress /\ Creation!AllOfThemMade

\* What a page has kept, by the browser or the server, was made for what it is kept under,
\* and stays what it was when others relied on it.
KeptBelongs ==
  /\ at = "upload" => Upload!NewestVersionKept /\ Upload!ReviewUnderItsFile
  /\ at = "admin" => Admin!TemplateOfItsType
  /\ at = "suppliers" => Supply!MaterialWithinScope /\ Supply!DeletesOfTheOpen
  /\ at = "visit" => Visit!ReportedIsFrozen

\* A command meant once and retried after a lost answer acts once.
ActsOnce ==
  /\ at = "submissions" => Submissions!SubmittedOnce
  /\ at = "batches" => Batch!CreatedOnce

\* Rows and identities part only where a handler broke off.
AccountIsWhole == at = "team" => Team!AccountIsWhole

\* Nothing stays busy: whatever fails or is lost, lists finish loading, dialogs and
\* buttons are freed.
BusyEnds ==
  []<>(/\ at = "submissions" => Submissions!Rests
       /\ at = "upload" => Upload!Rests
       /\ at = "admin" => Admin!Rests
       /\ at = "team" => Team!Rests
       /\ at = "suppliers" => Supply!Rests
       /\ at = "batches" => Batch!Rests
       /\ at = "create" => Creation!Rests
       /\ at = "visit" => Visit!Rests
       /\ at = "planning" => Planning!Rests)
=============================================================================
