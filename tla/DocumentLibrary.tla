-------------------------- MODULE DocumentLibrary --------------------------
(***************************************************************************)
(* The document library of one business at the server: the files uploaded  *)
(* for one document type, their approval, the chains that versions form,   *)
(* the main version selected per chain and the evaluations running in the  *)
(* background.  A call checks what it read in one statement and writes in a *)
(* later transaction; a transaction whose row locks keep others out is one *)
(* step.                                                                   *)
(***************************************************************************)
EXTENDS Naturals, FiniteSets

CONSTANTS Docs, Calls, None,
          Page,        \* the origin of the calls of the page that is modelled
          MaxFaults    \* bound: calls lost or failing, workers dying


VARIABLES doc,    \* table documents
          main,   \* table document_current_versions, by root document
          call,   \* the calls under way
          faults, died
server == <<doc, main, died>>

Statuses == {"unused", "deleted", "draft", "pending", "approved", "obsolete"}
Reading == {"list", "pending", "history", "versions", "detail"}
Writing == {"upload", "promote", "evaluate", "delete", "submit", "approve", "reject", "supersede"}

ASSUME NoneAssumption == None \notin Docs \cup Writing

Stages == {"sent", "read", "ok", "refused"}

\* What the tables hold, and what the reads answer.
Documents == [status : Statuses, evaluating : BOOLEAN, tasks : Nat,
              successor : Docs \cup {None}, parent : Docs \cup {None}, artifact : BOOLEAN]
Selections == [doc : Docs, at : Nat]
Lists == [doc : Docs, status : Statuses, evaluating : BOOLEAN]
Histories == [current : Docs \cup {None}, rows : SUBSET Docs, obsolete : SUBSET Docs]
Seens == [representative : Docs \cup {None},
          parents : UNION {[D -> Docs \cup {None}] : D \in SUBSET Docs}]

There(d) == doc[d].status \notin {"unused", "deleted"}

-----------------------------------------------------------------------------
(* Version chains *)

\* The ancestors of a document along the parents p, itself included.
Ancestry(d, p) ==
  LET up[n \in 0 .. Cardinality(Docs)] ==
        IF n = 0 THEN {d} ELSE up[n - 1] \cup {p[e] : e \in up[n - 1] \cap DOMAIN p}
  IN up[Cardinality(Docs)] \cap Docs

Parents == [d \in Docs |-> doc[d].parent]

\* The top of the chain, if it has one: a cycle has none.
Roots(d, p) == {e \in Ancestry(d, p) : p[e] = None}

\* The chains with a main version, and of these the one selected last.
Chosen(rows) == {root \in Docs : rows[root] # None}
Last(rows) == {root \in Chosen(rows) : \A other \in Chosen(rows) : rows[other].at <= rows[root].at}

\* TYPE_REPRESENTATIVE_SQL: the selection made last.
Newest(rows) ==
  IF Last(rows) = {} THEN [doc |-> None, at |-> 0] ELSE rows[CHOOSE root \in Last(rows) : TRUE]
Representative(rows) == Newest(rows).doc

\* What select_current_version asks of its document.
Live(d, docs) ==
  docs[d].status \notin {"unused", "deleted", "obsolete"} /\ docs[d].successor = None

\* The row of d's chain is written, as the newest selection unless d is the one already.
Select(d, rows, p, seen) ==
  LET root == CHOOSE e \in Roots(d, p) : TRUE
  IN IF seen = d /\ rows[root] # None /\ rows[root].doc = d THEN rows
     ELSE [rows EXCEPT ![root] = [doc |-> d, at |-> Newest(rows).at + 1]]

\* UNIQUE (tenant_id, current_document_id)
UniqueKept(d, rows, p) ==
  \A root \in Chosen(rows) : rows[root].doc = d => root \in Roots(d, p)

-----------------------------------------------------------------------------
(* What the reads answer *)

\* The file that stands for the type in the list, the files without a main version,
\* and every file of the type with the one selected.
Snapshot(kind) ==
  LET current == Representative(main)
  IN CASE kind = "list" ->
            IF current = None THEN None
            ELSE [doc |-> current, status |-> doc[current].status,
                  evaluating |-> doc[current].evaluating]
       [] kind = "pending" -> current = None /\ \E d \in Docs : There(d)
       [] kind = "history" ->
            [current |-> current, rows |-> {d \in Docs : There(d)},
             obsolete |-> {d \in Docs : doc[d].status = "obsolete"}]
       [] OTHER -> None

Answer(c, result) == call' = [call EXCEPT ![c].stage = "ok", ![c].answer = result]
Refuse(c) == call' = [call EXCEPT ![c].stage = "refused"]
Checked(c, seen) == call' = [call EXCEPT ![c].stage = "read", ![c].answer = seen]

Reads(c) ==
  /\ call[c] # None /\ call[c].stage = "sent" /\ call[c].kind \in Reading
  /\ IF call[c].kind \in {"versions", "detail"} /\ ~There(call[c].doc)
     THEN Refuse(c) ELSE Answer(c, Snapshot(call[c].kind))
  /\ UNCHANGED <<server, faults>>

-----------------------------------------------------------------------------
(* Commands: what is checked first *)

\* The status a command must find.
Expected(kind) ==
  CASE kind = "submit" -> {"draft"}
    [] kind \in {"approve", "reject"} -> {"pending"}
    [] kind = "supersede" -> {"approved"}
    [] OTHER -> Statuses \ {"unused", "deleted"}

Referenced(d) == doc[d].artifact \/ \E e \in Docs : There(e) /\ doc[e].parent = d

Accepts(k) ==
  /\ doc[k.doc].status \in Expected(k.kind)
  /\ k.kind = "supersede" => k.other # k.doc /\ doc[k.other].status = "approved"
  /\ k.kind = "delete" => ~Referenced(k.doc)
  /\ k.kind = "promote" => Live(k.doc, doc) /\ Roots(k.doc, Parents) # {}

\* The selections of one type are serialised by an advisory lock.
LockFree == \A c \in Calls : call[c] # None => ~(call[c].kind = "promote" /\ call[c].stage = "read")

Seen(k) ==
  IF k.kind = "promote"
  THEN [representative |-> Representative(main),
        parents |-> [d \in Ancestry(k.doc, Parents) |-> doc[d].parent]]
  ELSE None

Check(c) ==
  /\ call[c] # None /\ call[c].stage = "sent" /\ call[c].kind \in Writing \ {"upload"}
  /\ call[c].kind = "promote" => LockFree
  /\ IF ~Accepts(call[c]) THEN Refuse(c)
     ELSE IF call[c].kind = "evaluate" /\ doc[call[c].doc].evaluating THEN Answer(c, None)
     ELSE Checked(c, Seen(call[c]))
  /\ UNCHANGED <<server, faults>>

-----------------------------------------------------------------------------
(* Commands: what is written *)

Writes(c, kind) == call[c] # None /\ call[c].stage = "read" /\ call[c].kind = kind

\* A new file never becomes the main version by itself. When the bounded set of
\* documents is used up, or the file is not acceptable, it is refused.
Upload(c) ==
  /\ call[c] # None /\ call[c].kind = "upload" /\ call[c].stage = "sent"
  /\ \/ \E d \in Docs :
          /\ doc[d].status = "unused"
          /\ doc' = [doc EXCEPT ![d].status = "draft"]
          /\ Answer(c, None)
     \/ /\ \A d \in Docs : doc[d].status # "unused"
        /\ UNCHANGED doc
        /\ Refuse(c)
  /\ UNCHANGED <<main, died, faults>>

\* The three transitions of an approval; a row that is gone is not changed, and has no copy to make.
Transition(c, kind, status) ==
  LET d == call[c].doc
  IN /\ Writes(c, kind)
     /\ IF There(d)
        THEN /\ doc' = [doc EXCEPT ![d].status = status,
                                   ![d].artifact = @ \/ kind = "approve"]
             /\ Answer(c, None)
        ELSE UNCHANGED doc /\ (IF kind = "approve" THEN Refuse(c) ELSE Answer(c, None))
     /\ UNCHANGED <<main, died, faults>>

Submit(c) == Transition(c, "submit", "pending")
Approve(c) == Transition(c, "approve", "approved")
Reject(c) == Transition(c, "reject", "draft")

\* Mutant: the main version stays when a new version takes its place.
SelectionsKept(old, new, docs) == main

\* The selections of the old version, or of the chain the new one headed, go to the new
\* one; None stands for a refusal.
Reselected(old, new, docs) ==
  LET p == [d \in Docs |-> docs[d].parent]
      kept == [root \in Docs |->
                 IF main[root] # None /\ (main[root].doc = old \/ root = new) THEN None ELSE main[root]]
  IN IF kept = main THEN main
     ELSE IF Live(new, docs) /\ Roots(new, p) # {} /\ UniqueKept(new, kept, p)
          THEN Select(new, kept, p, Representative(kept))
     ELSE None

Supersede(c) ==
  LET old == call[c].doc  new == call[c].other
      docs == [doc EXCEPT ![old].successor = new,
                          ![old].status = IF doc[old].successor = None THEN "obsolete" ELSE @,
                          ![new].parent = old]
      rows == Reselected(old, new, docs)
  IN /\ Writes(c, "supersede")
     /\ rows # main => LockFree
     /\ IF There(old) /\ There(new) /\ rows # None
        THEN doc' = docs /\ main' = rows /\ Answer(c, None)
        ELSE UNCHANGED <<doc, main>> /\ Refuse(c)
     /\ UNCHANGED <<died, faults>>

\* The lineage is locked and compared with what was read.
Promote(c) ==
  LET d == call[c].doc  seen == call[c].answer
  IN /\ Writes(c, "promote")
     /\ IF /\ Live(d, doc)
           /\ \A e \in DOMAIN seen.parents : There(e) /\ doc[e].parent = seen.parents[e]
           /\ UniqueKept(d, main, Parents)
        THEN main' = Select(d, main, Parents, seen.representative) /\ Answer(c, None)
        ELSE UNCHANGED main /\ Refuse(c)
     /\ UNCHANGED <<doc, died, faults>>

\* Mutant: the foreign keys are left to the check made before.
DeletableAsChecked(d) == There(d)

\* The foreign keys on documents and the trigger on their children.
Deletable(d) ==
  /\ There(d) /\ ~Referenced(d)
  /\ \A root \in Chosen(main) : d \notin {root, main[root].doc}

Delete(c) ==
  LET d == call[c].doc
  IN /\ Writes(c, "delete")
     /\ IF Deletable(d)
        THEN /\ doc' = [e \in Docs |->
                  IF e = d THEN [doc[d] EXCEPT !.status = "deleted"]
                  ELSE IF doc[e].successor = d THEN [doc[e] EXCEPT !.successor = None] ELSE doc[e]]
             /\ Answer(c, None)
        ELSE /\ UNCHANGED doc
             /\ IF There(d) THEN Refuse(c) ELSE Answer(c, None)
     /\ UNCHANGED <<main, died, faults>>

\* The row is marked and the work left to a task of this process.
Evaluate(c) ==
  LET d == call[c].doc
  IN /\ Writes(c, "evaluate")
     /\ doc' = IF There(d) THEN [doc EXCEPT ![d].evaluating = TRUE, ![d].tasks = @ + 1] ELSE doc
     /\ Answer(c, None)
     /\ UNCHANGED <<main, died, faults>>

\* Mutant: a task stores its result, and its failure to store it, one after the other.
EvaluatedTwice(d) ==
  /\ doc[d].evaluating
  /\ doc' = [doc EXCEPT ![d].tasks = @ - 1, ![d].evaluating = @ /\ doc[d].tasks > 0]
  /\ UNCHANGED <<main, died, call, faults>>

\* _run_evaluate_background stores its result, or only the status when it failed.
Evaluated(d) ==
  /\ doc[d].tasks > 0
  /\ doc' = [doc EXCEPT ![d].tasks = @ - 1, ![d].evaluating = FALSE]
  /\ UNCHANGED <<main, died, call, faults>>

-----------------------------------------------------------------------------
(* Faults *)

Fault == faults < MaxFaults /\ faults' = faults + 1

\* An error of the server, or a deadlock of two transactions that the database ends.
ServerFails(c) ==
  /\ call[c] # None /\ call[c].stage \in {"sent", "read"} /\ Fault
  /\ Refuse(c)
  /\ UNCHANGED server

\* A worker dies with its evaluations; their marks stay.
WorkerDies ==
  /\ \E d \in Docs : doc[d].tasks > 0
  /\ Fault
  /\ doc' = [d \in Docs |-> [doc[d] EXCEPT !.tasks = 0]]
  /\ died' = TRUE
  /\ UNCHANGED <<main, call>>

Handles(c) ==
  \/ Reads(c) \/ Check(c) \/ Upload(c) \/ Submit(c) \/ Approve(c) \/ Reject(c)
  \/ Supersede(c) \/ Promote(c) \/ Delete(c) \/ Evaluate(c)

Server ==
  \/ \E c \in Calls : Handles(c) \/ ServerFails(c)
  \/ \E d \in Docs : Evaluated(d)
  \/ WorkerDies

=============================================================================
