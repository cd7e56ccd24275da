--------------------------- MODULE DocumentsProofs ---------------------------
(***************************************************************************)
(* Proofs about DocumentLibrary and DocumentsPage, for any number of       *)
(* documents, calls and commands: what the page and a colleague do to the  *)
(* main versions and to approved documents.                                *)
(***************************************************************************)
EXTENDS DocumentsPage, TLAPS

\* A record of a call, whatever its fields hold.
Shape(k) == DOMAIN k = {"from", "kind", "doc", "other", "after", "stage", "answer"}

CallsOK(calls) ==
  /\ calls = [c \in Calls |-> calls[c]]
  /\ \A c \in Calls : calls[c] # None => Shape(calls[c]) /\ CallOK(calls[c])

\* An official copy is only there of a document that is.
CopiesStay == \A d \in Docs : doc[d].artifact => doc[d].status # "deleted"

DocumentsInv == TypeOK /\ CallsOK(call) /\ MainVersionIsLive /\ CopiesStay

-----------------------------------------------------------------------------
(* Calls *)

\* A call is put in the place of another, or of none.
LEMMA ReplacedOK ==
  ASSUME NEW calls, CallsOK(calls), NEW c, NEW k, k = None \/ (Shape(k) /\ CallOK(k))
  PROVE  CallsOK([calls EXCEPT ![c] = k])
<1> DEFINE after == [calls EXCEPT ![c] = k]
<1>1. after = [x \in Calls |-> after[x]]
  BY DEF CallsOK
<1>2. \A x \in Calls : after[x] = IF x = c THEN k ELSE calls[x]
  BY DEF CallsOK
<1>. QED
  BY <1>1, <1>2 DEF CallsOK

LEMMA PutOK ==
  ASSUME NEW calls, CallsOK(calls), NEW k, Shape(k), CallOK(k)
  PROVE  CallsOK(Put(calls, k))
BY ReplacedOK DEF Put

LEMMA DroppedOK == ASSUME CallsOK(call), NEW c PROVE CallsOK(Dropped(c))
BY ReplacedOK DEF Dropped

\* A row that is gone leaves the calls as they are but for what is to follow them.
LEMMA RowGoneOK == ASSUME NEW calls, CallsOK(calls) PROVE CallsOK(RowGone(calls))
<1> DEFINE after == RowGone(calls)
<1>1. after = [x \in Calls |-> after[x]]
  BY DEF RowGone
<1>2. ASSUME NEW c \in Calls, after[c] # None PROVE Shape(after[c]) /\ CallOK(after[c])
  <2>1. calls[c] # None /\ Shape(calls[c]) /\ CallOK(calls[c])
    BY <1>2 DEF RowGone, CallsOK
  <2>2. after[c] = calls[c] \/ after[c] = [calls[c] EXCEPT !.after = "no"]
    BY DEF RowGone
  <2>. QED
    BY <2>1, <2>2 DEF Shape, CallOK, Tags
<1>. QED
  BY <1>1, <1>2 DEF CallsOK

\* What the server does to a call it works on.
LEMMA RefusedOK ==
  ASSUME CallsOK(call), NEW c \in Calls, call[c] # None, Refuse(c)
  PROVE  CallsOK(call')
<1> DEFINE k == [call[c] EXCEPT !.stage = "refused"]
<1>1. Shape(call[c]) /\ CallOK(call[c])
  BY DEF CallsOK
<1>2. Shape(k) /\ CallOK(k)
  BY <1>1 DEF Shape, CallOK, Stages
<1>3. call' = [call EXCEPT ![c] = k]
  BY DEF Refuse, CallsOK
<1>. QED
  BY <1>2, <1>3, ReplacedOK

\* An answer of the kind of the call.
Fits(k, result) ==
  CASE k.kind = "list" -> result \in Lists \cup {None}
    [] k.kind = "pending" -> result \in BOOLEAN
    [] k.kind = "history" -> result \in Histories
    [] OTHER -> TRUE

LEMMA AnsweredOK ==
  ASSUME CallsOK(call), NEW c \in Calls, call[c] # None,
         NEW result, Fits(call[c], result), Answer(c, result)
  PROVE  CallsOK(call')
<1> DEFINE k == [[call[c] EXCEPT !.stage = "ok"] EXCEPT !.answer = result]
<1>1. Shape(call[c]) /\ CallOK(call[c])
  BY DEF CallsOK
<1>2. Shape(k) /\ CallOK(k)
  BY <1>1 DEF Shape, CallOK, Stages, Fits
<1>3. call' = [call EXCEPT ![c] = k]
  BY <1>1 DEF Answer, CallsOK, Shape
<1>. QED
  BY <1>2, <1>3, ReplacedOK

LEMMA CheckedOK ==
  ASSUME CallsOK(call), NEW c \in Calls, call[c] # None,
         NEW seen, call[c].kind = "promote" => seen \in Seens, Checked(c, seen)
  PROVE  CallsOK(call')
<1> DEFINE k == [[call[c] EXCEPT !.stage = "read"] EXCEPT !.answer = seen]
<1>1. Shape(call[c]) /\ CallOK(call[c])
  BY DEF CallsOK
<1>2. Shape(k) /\ CallOK(k)
  BY <1>1 DEF Shape, CallOK, Stages
<1>3. call' = [call EXCEPT ![c] = k]
  BY <1>1 DEF Checked, CallsOK, Shape
<1>. QED
  BY <1>2, <1>3, ReplacedOK

-----------------------------------------------------------------------------
(* The server *)

\* The newest of the selections is of a document, if there are any.
LEMMA NewestTyped ==
  ASSUME main \in [Docs -> Selections \cup {None}]
  PROVE  Newest(main).doc \in Docs \cup {None}
<1>1. CASE Last(main) = {}
  BY <1>1 DEF Newest
<1>2. CASE Last(main) # {}
  <2>1. PICK root \in Last(main) : Newest(main) = main[root]
    BY <1>2 DEF Newest
  <2>2. main[root] \in Selections
    BY <2>1 DEF Last, Chosen
  <2>. QED
    BY <2>1, <2>2 DEF Selections
<1>. QED
  BY <1>1, <1>2

LEMMA NewestAt ==
  ASSUME NEW rows, rows \in [Docs -> Selections \cup {None}]
  PROVE  Newest(rows).at \in Nat
<1>1. CASE Last(rows) = {}
  BY <1>1 DEF Newest
<1>2. CASE Last(rows) # {}
  <2>1. PICK root \in Last(rows) : Newest(rows) = rows[root]
    BY <1>2 DEF Newest
  <2>2. rows[root] \in Selections
    BY <2>1 DEF Last, Chosen
  <2>. QED
    BY <2>1, <2>2 DEF Selections
<1>. QED
  BY <1>1, <1>2

\* What the reads answer is of their kind.
LEMMA SnapshotFits ==
  ASSUME TypeOK, NEW k, CallOK(k), k.kind \in Reading
  PROVE  Fits(k, Snapshot(k.kind))
<1> DEFINE current == Newest(main).doc
<1>1. current \in Docs \cup {None}
  BY NewestTyped DEF TypeOK
<1>2. CASE k.kind = "list"
  <2>1. current # None => doc[current] \in Documents
    BY <1>1 DEF TypeOK
  <2>. QED
    BY <1>1, <1>2, <2>1 DEF Fits, Snapshot, Representative, Lists, Documents
<1>3. CASE k.kind = "pending"
  BY <1>3 DEF Fits, Snapshot
<1>4. CASE k.kind = "history"
  BY <1>1, <1>4 DEF Fits, Snapshot, Representative, Histories
<1>5. CASE k.kind \notin {"list", "pending", "history"}
  BY <1>5 DEF Fits
<1>. QED
  BY <1>2, <1>3, <1>4, <1>5

\* What a promotion has read of its chain.
LEMMA SeenTyped ==
  ASSUME TypeOK, NEW k, k.kind = "promote"
  PROVE  Seen(k) \in Seens
<1> DEFINE D == Ancestry(k.doc, Parents)
<1>1. D \in SUBSET Docs
  BY DEF Ancestry
<1>2. [d \in D |-> doc[d].parent] \in [D -> Docs \cup {None}]
  <2> SUFFICES ASSUME NEW d \in D PROVE doc[d].parent \in Docs \cup {None}
    OBVIOUS
  <2>1. doc[d] \in Documents
    BY <1>1 DEF TypeOK
  <2>. QED
    BY <2>1 DEF Documents
<1> HIDE DEF D
<1>3. [d \in D |-> doc[d].parent] \in UNION {[E -> Docs \cup {None}] : E \in SUBSET Docs}
  BY <1>1, <1>2
<1>4. Representative(main) \in Docs \cup {None}
  BY NewestTyped DEF TypeOK, Representative
<1>. QED
  BY <1>3, <1>4 DEF Seen, Seens, D

-----------------------------------------------------------------------------
(* The tables *)

TablesOK ==
  /\ doc \in [Docs -> Documents]
  /\ main \in [Docs -> Selections \cup {None}]
  /\ MainVersionIsLive
  /\ CopiesStay

\* A step keeps the tables in order, and what is approved.
TablesKept == TablesOK' /\ \A d \in Docs : doc[d].artifact => doc'[d].status # "deleted"

LEMMA NothingStored ==
  ASSUME TablesOK, UNCHANGED <<doc, main>>
  PROVE  TablesKept
BY DEF TablesKept, TablesOK, MainVersionIsLive, CopiesStay, Live, Chosen

\* Versions that do not end, and are not replaced, leave the main versions live.
LEMMA OneChanges ==
  ASSUME TablesOK, UNCHANGED main, NEW d, NEW row,
         doc' = [doc EXCEPT ![d] = row],
         d \in Docs => /\ row \in Documents
                       /\ doc[d].artifact \/ row.artifact => row.status # "deleted"
                       /\ Live(d, doc) => /\ row.status \notin {"unused", "deleted", "obsolete"}
                                          /\ row.successor = None
  PROVE  TablesKept
<1>1. doc' \in [Docs -> Documents]
  BY DEF TablesOK
<1>2. \A e \in Docs : doc'[e] = IF e = d THEN row ELSE doc[e]
  BY DEF TablesOK
<1>3. MainVersionIsLive'
  <2> SUFFICES ASSUME NEW root \in Docs, main[root] # None
               PROVE  Live(main[root].doc, doc')
    BY DEF MainVersionIsLive, Chosen
  <2>1. main[root].doc \in Docs /\ Live(main[root].doc, doc)
    BY DEF TablesOK, MainVersionIsLive, Chosen, Selections
  <2>. QED
    BY <1>2, <2>1 DEF Live
<1>4. CopiesStay' /\ \A e \in Docs : doc[e].artifact => doc'[e].status # "deleted"
  BY <1>2 DEF TablesOK, CopiesStay
<1>. QED
  BY <1>1, <1>3, <1>4 DEF TablesKept, TablesOK

\* An upload fills a row that was free; no main version is of it.
LEMMA UploadKeeps ==
  ASSUME TablesOK, NEW c, Upload(c)
  PROVE  TablesKept
<1>1. CASE UNCHANGED doc
  BY <1>1, NothingStored DEF Upload
<1>2. CASE \E d \in Docs : doc[d].status = "unused" /\ doc' = [doc EXCEPT ![d].status = "draft"]
  <2>1. PICK d \in Docs : doc[d].status = "unused" /\ doc' = [doc EXCEPT ![d].status = "draft"]
    BY <1>2
  <2> DEFINE row == [doc[d] EXCEPT !.status = "draft"]
  <2>2. row \in Documents /\ row.status = "draft"
    BY DEF TablesOK, Documents, Statuses
  <2>3. doc' = [doc EXCEPT ![d] = row]
    BY <2>1 DEF TablesOK
  <2>. QED
    BY <2>1, <2>2, <2>3, OneChanges DEF Upload, Live
<1>. QED
  BY <1>1, <1>2 DEF Upload

LEMMA TransitionKeeps ==
  ASSUME TablesOK, NEW c, NEW kind, NEW status \in {"pending", "approved", "draft"},
         Transition(c, kind, status)
  PROVE  TablesKept
<1> DEFINE d == call[c].doc
<1>1. CASE UNCHANGED doc
  BY <1>1, NothingStored DEF Transition
<1>2. CASE ~UNCHANGED doc
  <2> DEFINE row == [doc[d] EXCEPT !.status = status, !.artifact = @ \/ kind = "approve"]
  <2>1. doc' = [doc EXCEPT ![d].status = status, ![d].artifact = @ \/ kind = "approve"]
    BY <1>2 DEF Transition
  <2>2. doc' = [doc EXCEPT ![d] = row]
    BY <2>1 DEF TablesOK
  <2>3. ASSUME d \in Docs
        PROVE  row \in Documents /\ row.status = status /\ row.successor = doc[d].successor
    <3>1. doc[d] \in Documents /\ (doc[d].artifact \/ kind = "approve") \in BOOLEAN
      BY <2>3 DEF TablesOK
    <3>. QED
      BY <3>1 DEF Documents, Statuses
  <2>. QED
    BY <2>2, <2>3, OneChanges DEF Transition, Live
<1>. QED
  BY <1>1, <1>2

LEMMA EvaluateKeeps ==
  ASSUME TablesOK, NEW c, Evaluate(c)
  PROVE  TablesKept
<1> DEFINE d == call[c].doc
<1>1. CASE ~There(d)
  BY <1>1, NothingStored DEF Evaluate
<1>2. CASE There(d)
  <2> DEFINE row == [doc[d] EXCEPT !.evaluating = TRUE, !.tasks = @ + 1]
  <2>1. doc' = [doc EXCEPT ![d].evaluating = TRUE, ![d].tasks = @ + 1]
    BY <1>2 DEF Evaluate
  <2>2. doc' = [doc EXCEPT ![d] = row]
    BY <2>1 DEF TablesOK
  <2>3. ASSUME d \in Docs
        PROVE  /\ row \in Documents /\ row.status = doc[d].status
               /\ row.successor = doc[d].successor /\ row.artifact = doc[d].artifact
    <3>1. doc[d] \in Documents
      BY <2>3 DEF TablesOK
    <3>2. doc[d].tasks + 1 \in Nat
      BY <3>1 DEF Documents
    <3>. QED
      BY <3>1, <3>2 DEF Documents
  <2>4. UNCHANGED main
    BY DEF Evaluate
  <2> HIDE DEF row
  <2>. QED
    BY <1>2, <2>2, <2>3, <2>4, OneChanges DEF Live, There
<1>. QED
  BY <1>1, <1>2

LEMMA EvaluatedKeeps ==
  ASSUME TablesOK, NEW d \in Docs, Evaluated(d)
  PROVE  TablesKept
<1> DEFINE row == [doc[d] EXCEPT !.tasks = @ - 1, !.evaluating = FALSE]
<1>1. doc' = [doc EXCEPT ![d] = row]
  BY DEF Evaluated, TablesOK
<1>2. doc[d] \in Documents /\ doc[d].tasks - 1 \in Nat
  BY DEF TablesOK, Documents, Evaluated
<1>3. /\ row \in Documents /\ row.status = doc[d].status
      /\ row.successor = doc[d].successor /\ row.artifact = doc[d].artifact
  BY <1>2 DEF Documents
<1>4. UNCHANGED main /\ (doc[d].artifact => doc[d].status # "deleted")
  BY DEF Evaluated, TablesOK, CopiesStay
<1> HIDE DEF row
<1>. QED
  BY <1>1, <1>3, <1>4, OneChanges DEF Live

\* A death takes the tasks and leaves the rows.
LEMMA WorkerDiesKeeps ==
  ASSUME TablesOK, WorkerDies
  PROVE  TablesKept
<1>1. doc' = [d \in Docs |-> [doc[d] EXCEPT !.tasks = 0]] /\ UNCHANGED main
  BY DEF WorkerDies
<1>2. ASSUME NEW d \in Docs
      PROVE  /\ doc'[d] \in Documents /\ doc'[d].status = doc[d].status
             /\ doc'[d].successor = doc[d].successor /\ doc'[d].artifact = doc[d].artifact
  BY <1>1 DEF TablesOK, Documents
<1>3. doc' \in [Docs -> Documents]
  BY <1>1, <1>2
<1>4. MainVersionIsLive'
  <2> SUFFICES ASSUME NEW root \in Docs, main[root] # None
               PROVE  Live(main[root].doc, doc')
    BY <1>1 DEF MainVersionIsLive, Chosen
  <2>1. main[root].doc \in Docs /\ Live(main[root].doc, doc)
    BY DEF TablesOK, MainVersionIsLive, Chosen, Selections
  <2>. QED
    BY <1>2, <2>1 DEF Live
<1>. QED
  BY <1>1, <1>2, <1>3, <1>4 DEF TablesKept, TablesOK, CopiesStay

\* A selection writes one row, of a document that is typed as one, over rows that are.
LEMMA SelectTyped ==
  ASSUME NEW rows, rows \in [Docs -> Selections \cup {None}], NEW d \in Docs, NEW p, NEW seen
  PROVE  /\ Select(d, rows, p, seen) \in [Docs -> Selections \cup {None}]
         /\ \A root \in Docs : Select(d, rows, p, seen)[root] # rows[root] =>
              Select(d, rows, p, seen)[root] \in Selections /\ Select(d, rows, p, seen)[root].doc = d
<1> DEFINE root == CHOOSE e \in Roots(d, p) : TRUE
           row == [doc |-> d, at |-> Newest(rows).at + 1]
<1>1. row \in Selections /\ row.doc = d
  BY NewestAt DEF Selections
<1>2. Select(d, rows, p, seen) \in {rows, [rows EXCEPT ![root] = row]}
  BY DEF Select
<1> HIDE DEF root, row
<1>. QED
  BY <1>1, <1>2

\* The representative's chain: what was replaced is nowhere a main version any more.
LEMMA SupersedeKeeps ==
  ASSUME TablesOK, NEW c, call[c].doc \in Docs, call[c].other \in Docs, Supersede(c)
  PROVE  TablesKept
<1> DEFINE old == call[c].doc
           new == call[c].other
           docs == [doc EXCEPT ![old].successor = new,
                               ![old].status = IF doc[old].successor = None THEN "obsolete" ELSE @,
                               ![new].parent = old]
           rows == Reselected(old, new, docs)
<1>1. CASE UNCHANGED <<doc, main>>
  BY <1>1, NothingStored
<1>2. CASE There(old) /\ There(new) /\ rows # None /\ doc' = docs /\ main' = rows
  <2>1. docs \in [Docs -> Documents]
    <3>1. "obsolete" \in Statuses
      BY DEF Statuses
    <3>. QED
      BY <3>1 DEF TablesOK, Documents
  <2>2. ASSUME NEW d \in Docs
        PROVE  /\ docs[d].artifact = doc[d].artifact
               /\ docs[d].status = doc[d].status \/ (d = old /\ docs[d].status = "obsolete")
               /\ d # old => docs[d].successor = doc[d].successor
    BY DEF TablesOK, Documents
  <2> DEFINE kept == [root \in Docs |->
                        IF main[root] # None /\ (main[root].doc = old \/ root = new) THEN None ELSE main[root]]
  <2>3. kept \in [Docs -> Selections \cup {None}]
    BY DEF TablesOK
  <2>4. \/ kept = main /\ rows = main
        \/ Live(new, docs) /\ \E p, seen : rows = Select(new, kept, p, seen)
    BY <1>2 DEF Reselected
  <2> HIDE DEF docs
  <2>5. ASSUME NEW root \in Docs, kept[root] # None
        PROVE  kept[root].doc \in Docs /\ Live(kept[root].doc, docs)
    <3>1. kept[root] = main[root] /\ main[root] # None /\ main[root].doc # old
      BY <2>5
    <3>2. main[root].doc \in Docs /\ Live(main[root].doc, doc)
      BY <3>1 DEF TablesOK, MainVersionIsLive, Chosen, Selections
    <3>. QED
      BY <2>2, <3>1, <3>2 DEF Live
  <2> HIDE DEF kept, rows
  <2>6. main' \in [Docs -> Selections \cup {None}]
    BY <1>2, <2>3, <2>4, SelectTyped
  <2>7. ASSUME NEW root \in Docs, main'[root] # None
        PROVE  Live(main'[root].doc, doc')
    <3>1. CASE main'[root] = kept[root]
      BY <1>2, <2>5, <2>7, <3>1
    <3>2. CASE main'[root] # kept[root]
      BY <1>2, <2>3, <2>4, <3>2, SelectTyped
    <3>. QED
      BY <3>1, <3>2
  <2>8. MainVersionIsLive'
    BY <2>7 DEF MainVersionIsLive, Chosen
  <2>9. CopiesStay' /\ \A d \in Docs : doc[d].artifact => doc'[d].status # "deleted"
    BY <1>2, <2>2 DEF TablesOK, CopiesStay
  <2>. QED
    BY <1>2, <2>1, <2>6, <2>8, <2>9 DEF TablesKept, TablesOK
<1>. QED
  BY <1>1, <1>2 DEF Supersede

\* A promotion compares, under the locks, what it read.
LEMMA PromoteKeeps ==
  ASSUME TablesOK, NEW c, call[c].doc \in Docs, Promote(c)
  PROVE  TablesKept
<1> DEFINE d == call[c].doc
           rows == Select(d, main, Parents, call[c].answer.representative)
<1>1. UNCHANGED doc /\ (UNCHANGED main \/ (Live(d, doc) /\ main' = rows))
  BY DEF Promote
<1>2. CASE UNCHANGED main
  BY <1>1, <1>2, NothingStored
<1>3. CASE Live(d, doc) /\ main' = rows
  <2>1. /\ rows \in [Docs -> Selections \cup {None}]
        /\ \A root \in Docs : rows[root] # main[root] => rows[root] \in Selections /\ rows[root].doc = d
    BY SelectTyped DEF TablesOK
  <2> HIDE DEF rows
  <2>2. MainVersionIsLive'
    <3> SUFFICES ASSUME NEW root \in Docs, rows[root] # None PROVE Live(rows[root].doc, doc)
      BY <1>1, <1>3 DEF MainVersionIsLive, Chosen, Live
    <3>. QED
      BY <1>3, <2>1 DEF TablesOK, MainVersionIsLive, Chosen
  <2>. QED
    BY <1>1, <1>3, <2>1, <2>2 DEF TablesKept, TablesOK, CopiesStay
<1>. QED
  BY <1>1, <1>2, <1>3

\* Neither a main version nor a document with an official copy can be deleted.
LEMMA DeleteKeeps ==
  ASSUME TablesOK, NEW c, call[c].doc \in Docs, Delete(c)
  PROVE  TablesKept
<1> DEFINE d == call[c].doc
<1>1. CASE UNCHANGED doc
  BY <1>1, NothingStored DEF Delete
<1>2. CASE /\ Deletable(d)
           /\ doc' = [e \in Docs |->
                  IF e = d THEN [doc[d] EXCEPT !.status = "deleted"]
                  ELSE IF doc[e].successor = d THEN [doc[e] EXCEPT !.successor = None] ELSE doc[e]]
  <2>1. ASSUME NEW e \in Docs
        PROVE  /\ doc'[e] \in Documents /\ doc'[e].artifact = doc[e].artifact
               /\ doc'[e].status = IF e = d THEN "deleted" ELSE doc[e].status
               /\ doc'[e].successor \in {doc[e].successor, None}
    <3>1. doc[e] \in Documents /\ "deleted" \in Statuses
      BY DEF TablesOK, Statuses
    <3>. QED
      BY <1>2, <3>1 DEF Documents
  <2>2. doc' \in [Docs -> Documents]
    BY <1>2, <2>1
  <2>3. ~doc[d].artifact /\ \A root \in Chosen(main) : d # main[root].doc
    BY <1>2 DEF Deletable, Referenced
  <2>4. UNCHANGED main
    BY DEF Delete
  <2>5. MainVersionIsLive'
    <3> SUFFICES ASSUME NEW root \in Docs, main[root] # None
                 PROVE  Live(main[root].doc, doc')
      BY <2>4 DEF MainVersionIsLive, Chosen
    <3>1. main[root].doc \in Docs /\ Live(main[root].doc, doc) /\ main[root].doc # d
      BY <2>3 DEF TablesOK, MainVersionIsLive, Chosen, Selections
    <3>. QED
      BY <2>1, <3>1 DEF Live
  <2>6. CopiesStay' /\ \A e \in Docs : doc[e].artifact => doc'[e].status # "deleted"
    BY <2>1, <2>3 DEF TablesOK, CopiesStay
  <2>. QED
    BY <2>2, <2>4, <2>5, <2>6 DEF TablesKept, TablesOK
<1>. QED
  BY <1>1, <1>2 DEF Delete

\* Every step of the server, the calls included.
ServerKept == TablesKept /\ CallsOK(call')

LEMMA HandlesKeeps ==
  ASSUME TypeOK, TablesOK, CallsOK(call), NEW c \in Calls, Handles(c)
  PROVE  ServerKept
<1>1. call[c] # None => CallOK(call[c])
  BY DEF CallsOK
<1>2. CASE Reads(c)
  <2>1. Fits(call[c], Snapshot(call[c].kind))
    BY <1>1, <1>2, SnapshotFits DEF Reads
  <2>. QED
    BY <1>2, <2>1, NothingStored, RefusedOK, AnsweredOK DEF Reads, server, ServerKept
<1>3. CASE Check(c)
  <2>1. call[c] # None /\ call[c].kind \in Writing /\ UNCHANGED <<doc, main>>
    BY <1>3 DEF Check, server
  <2>2. call[c].kind = "promote" => Seen(call[c]) \in Seens
    BY SeenTyped
  <2>3. call[c].kind = "evaluate" => Fits(call[c], None)
    BY DEF Fits
  <2>4. Refuse(c) \/ (call[c].kind = "evaluate" /\ Answer(c, None)) \/ Checked(c, Seen(call[c]))
    BY <1>3 DEF Check
  <2>5. CallsOK(call')
    BY <2>1, <2>2, <2>3, <2>4, RefusedOK, AnsweredOK, CheckedOK
  <2>. QED
    BY <2>1, <2>5, NothingStored DEF ServerKept
<1>4. ASSUME call[c] # None, call[c].kind \in Writing, Refuse(c) \/ Answer(c, None)
      PROVE  CallsOK(call')
  <2>1. Fits(call[c], None)
    BY <1>4 DEF Fits, Writing
  <2>. QED
    BY <1>4, <2>1, RefusedOK, AnsweredOK
<1>5. CASE Upload(c)
  <2>1. CallsOK(call')
    BY <1>4, <1>5 DEF Upload, Writing
  <2>. QED
    BY <1>5, <2>1, UploadKeeps DEF ServerKept
<1>6. ASSUME NEW kind \in {"submit", "approve", "reject"},
             NEW status \in {"pending", "approved", "draft"}, Transition(c, kind, status)
      PROVE  ServerKept
  <2>1. CallsOK(call')
    BY <1>4, <1>6 DEF Transition, Writes, Writing
  <2>. QED
    BY <1>6, <2>1, TransitionKeeps DEF ServerKept
<1>7. CASE Supersede(c)
  <2>1. call[c] # None /\ call[c].kind = "supersede" /\ (Refuse(c) \/ Answer(c, None))
    BY <1>7 DEF Supersede, Writes
  <2>2. CallsOK(call')
    BY <1>4, <2>1 DEF Writing
  <2>3. call[c].doc \in Docs /\ call[c].other \in Docs
    BY <1>1, <2>1 DEF CallOK, Writing
  <2>. QED
    BY <1>7, <2>2, <2>3, SupersedeKeeps DEF ServerKept
<1>8. CASE Promote(c)
  <2>1. call[c] # None /\ call[c].kind = "promote" /\ (Refuse(c) \/ Answer(c, None))
    BY <1>8 DEF Promote, Writes
  <2>2. CallsOK(call')
    BY <1>4, <2>1 DEF Writing
  <2>3. call[c].doc \in Docs
    BY <1>1, <2>1 DEF CallOK, Writing
  <2>. QED
    BY <1>8, <2>2, <2>3, PromoteKeeps DEF ServerKept
<1>9. CASE Delete(c)
  <2>1. call[c] # None /\ call[c].kind = "delete" /\ (Refuse(c) \/ Answer(c, None))
    BY <1>9 DEF Delete, Writes
  <2>2. CallsOK(call')
    BY <1>4, <2>1 DEF Writing
  <2>3. call[c].doc \in Docs
    BY <1>1, <2>1 DEF CallOK, Writing
  <2>. QED
    BY <1>9, <2>2, <2>3, DeleteKeeps DEF ServerKept
<1>10. CASE Evaluate(c)
  <2>1. CallsOK(call')
    BY <1>4, <1>10 DEF Evaluate, Writes, Writing
  <2>. QED
    BY <1>10, <2>1, EvaluateKeeps DEF ServerKept
<1>. QED
  BY <1>2, <1>3, <1>5, <1>6, <1>7, <1>8, <1>9, <1>10 DEF Handles, Submit, Approve, Reject

LEMMA ServerKeeps ==
  ASSUME TypeOK, TablesOK, CallsOK(call), Server
  PROVE  ServerKept
<1>1. ASSUME NEW c \in Calls, Handles(c) PROVE ServerKept
  BY <1>1, HandlesKeeps
<1>2. ASSUME NEW c \in Calls, ServerFails(c) PROVE ServerKept
  BY <1>2, NothingStored, RefusedOK DEF ServerFails, server, ServerKept
<1>3. ASSUME NEW d \in Docs, Evaluated(d) PROVE ServerKept
  <2>1. UNCHANGED call
    BY <1>3 DEF Evaluated
  <2>. QED
    BY <1>3, <2>1, EvaluatedKeeps DEF ServerKept
<1>4. CASE WorkerDies
  <2>1. UNCHANGED call
    BY <1>4 DEF WorkerDies
  <2>. QED
    BY <1>4, <2>1, WorkerDiesKeeps DEF ServerKept
<1>. QED
  BY <1>1, <1>2, <1>3, <1>4 DEF Server

-----------------------------------------------------------------------------
(* The page *)

PageOK(p) == p \in Pages /\ (p.modal.kind # None => p.modal.doc \in Docs)

Modals == [kind : {None, "approve", "reject", "supersede"}, doc : Docs \cup {None}]

\* A field of the page is replaced by a value of its kind.
LEMMA PageFields ==
  ASSUME NEW p, PageOK(p)
  PROVE  /\ \A x \in Lists \cup {None} : PageOK([p EXCEPT !.list = x])
         /\ \A x \in BOOLEAN : PageOK([p EXCEPT !.pending = x])
         /\ \A x \in Histories \cup {None} : PageOK([p EXCEPT !.history = x])
         /\ \A x \in BOOLEAN : PageOK([p EXCEPT !.historyError = x])
         /\ \A x \in Docs \cup {None, "type"} : PageOK([p EXCEPT !.loadingHistory = x])
         /\ \A x \in SUBSET {"detail", "versions"} : PageOK([p EXCEPT !.reading = x])
         /\ \A x \in Docs \cup {None} : PageOK([p EXCEPT !.loadingEval = x])
         /\ \A x \in Docs \cup {None} : PageOK([p EXCEPT !.promoting = x])
         /\ \A x \in Docs \cup {None} : PageOK([p EXCEPT !.removing = x])
         /\ \A x \in BOOLEAN : PageOK([p EXCEPT !.uploading = x])
         /\ \A x \in Docs \cup {None} : PageOK([p EXCEPT !.evaluating = x])
         /\ \A x \in {"closed", "type", "file"} : PageOK([p EXCEPT !.upload = x])
         /\ \A x \in Docs \cup {None} : PageOK([p EXCEPT !.lang = x])
         /\ \A x \in BOOLEAN : PageOK([p EXCEPT !.acting = x])
         /\ \A x \in BOOLEAN : PageOK([p EXCEPT !.fetching = x])
         /\ \A m \in Modals : (m.kind # None => m.doc \in Docs) => PageOK([p EXCEPT !.modal = m])
<1>1. \A x \in Lists \cup {None} : PageOK([p EXCEPT !.list = x])
  BY DEF PageOK, Pages
<1>2. \A x \in BOOLEAN : PageOK([p EXCEPT !.pending = x])
  BY DEF PageOK, Pages
<1>3. \A x \in Histories \cup {None} : PageOK([p EXCEPT !.history = x])
  BY DEF PageOK, Pages
<1>4. \A x \in BOOLEAN : PageOK([p EXCEPT !.historyError = x])
  BY DEF PageOK, Pages
<1>5. \A x \in Docs \cup {None, "type"} : PageOK([p EXCEPT !.loadingHistory = x])
  BY DEF PageOK, Pages
<1>6. \A x \in SUBSET {"detail", "versions"} : PageOK([p EXCEPT !.reading = x])
  BY DEF PageOK, Pages
<1>7. \A x \in Docs \cup {None} : PageOK([p EXCEPT !.loadingEval = x])
  BY DEF PageOK, Pages
<1>8. \A x \in Docs \cup {None} : PageOK([p EXCEPT !.promoting = x])
  BY DEF PageOK, Pages
<1>9. \A x \in Docs \cup {None} : PageOK([p EXCEPT !.removing = x])
  BY DEF PageOK, Pages
<1>10. \A x \in BOOLEAN : PageOK([p EXCEPT !.uploading = x])
  BY DEF PageOK, Pages
<1>11. \A x \in Docs \cup {None} : PageOK([p EXCEPT !.evaluating = x])
  BY DEF PageOK, Pages
<1>12. \A x \in {"closed", "type", "file"} : PageOK([p EXCEPT !.upload = x])
  BY DEF PageOK, Pages
<1>13. \A x \in Docs \cup {None} : PageOK([p EXCEPT !.lang = x])
  BY DEF PageOK, Pages
<1>14. \A x \in BOOLEAN : PageOK([p EXCEPT !.acting = x])
  BY DEF PageOK, Pages
<1>15. \A x \in BOOLEAN : PageOK([p EXCEPT !.fetching = x])
  BY DEF PageOK, Pages
<1>16. \A m \in Modals : (m.kind # None => m.doc \in Docs) => PageOK([p EXCEPT !.modal = m])
  BY DEF PageOK, Pages, Modals
<1>. QED
  BY <1>1, <1>2, <1>3, <1>4, <1>5, <1>6, <1>7, <1>8,
     <1>9, <1>10, <1>11, <1>12, <1>13, <1>14, <1>15, <1>16

\* A step of the page or of somebody elsewhere: it stores nothing.
PageKept == UNCHANGED <<doc, main>> /\ CallsOK(call') /\ PageOK(page')

\* What goes out: a call of its kind, of a document where it needs one.
Sendable(k) ==
  /\ Shape(k) /\ k.stage = "sent"
  /\ k.kind \in Reading \cup Writing /\ k.after \in Tags
  /\ k.kind \in (Writing \ {"upload"}) \cup {"versions", "detail"} => k.doc \in Docs
  /\ k.kind = "supersede" => k.other \in Docs

LEMMA SendableOK == ASSUME NEW k, Sendable(k) PROVE Shape(k) /\ CallOK(k)
BY DEF Sendable, CallOK, Stages

LEMMA RequestSendable ==
  ASSUME NEW kind \in Reading \cup Writing, NEW d, NEW other, NEW after \in Tags,
         kind \in (Writing \ {"upload"}) \cup {"versions", "detail"} => d \in Docs,
         kind = "supersede" => other \in Docs
  PROVE  Sendable(Request(kind, d, other, after))
BY DEF Sendable, Request, Shape

LEMMA AsksSendable ==
  ASSUME NEW kind \in {"list", "pending", "history", "upload"}, NEW after \in Tags
  PROVE  Sendable(Asks(kind, after))
BY RequestSendable DEF Asks, Reading, Writing

LEMMA GivesKeeps ==
  ASSUME CallsOK(call), NEW k, Sendable(k), NEW p, PageOK(p), Gives(k, p)
  PROVE  PageKept
BY SendableOK, PutOK DEF Gives, Command, Shows, server, PageKept

\* A change of the page alone.
LEMMA ShowsKeeps ==
  ASSUME CallsOK(call), NEW p, PageOK(p), Shows(p), UNCHANGED <<server, call>>
  PROVE  PageKept
BY DEF Shows, server, PageKept

\* What the user does keeps page and calls in order.
LEMMA UserKeeps ==
  ASSUME CallsOK(call), PageOK(page), User
  PROVE  PageKept
<1>1. ASSUME NEW d \in Docs, OpenEval(d) PROVE PageKept
  <2>1. Sendable(Request("detail", d, None, "no"))
    BY RequestSendable DEF Reading, Tags
  <2>2. PageOK([page EXCEPT !.loadingEval = d])
    BY PageFields
  <2>. QED
    BY <1>1, <2>1, <2>2, GivesKeeps DEF OpenEval
<1>2. ASSUME NEW d \in Docs, OpenVersionChain(d) PROVE PageKept
  <2>1. Sendable(Request("versions", d, None, "no"))
    BY RequestSendable DEF Reading, Tags
  <2>2. PageOK([page EXCEPT !.loadingHistory = d])
    BY PageFields
  <2>. QED
    BY <1>2, <2>1, <2>2, GivesKeeps DEF OpenVersionChain
<1>3. ASSUME NEW d \in Docs, HandlePromote(d) PROVE PageKept
  <2>1. Sendable(Request("promote", d, None, "promote"))
    BY RequestSendable DEF Writing, Tags
  <2>2. PageOK([page EXCEPT !.promoting = d])
    BY PageFields
  <2>. QED
    BY <1>3, <2>1, <2>2, GivesKeeps DEF HandlePromote
<1>4. ASSUME NEW d \in Docs, HandleDelete(d) PROVE PageKept
  <2>1. Sendable(Request("delete", d, None, "no"))
    BY RequestSendable DEF Writing, Tags
  <2>2. PageOK([page EXCEPT !.removing = d])
    BY PageFields
  <2>. QED
    BY <1>4, <2>1, <2>2, GivesKeeps DEF HandleDelete
<1>5. ASSUME NEW d \in Docs, HandleSubmit(d) PROVE PageKept
  <2>1. Sendable(Request("submit", d, None, "row"))
    BY RequestSendable DEF Writing, Tags
  <2>2. PageOK([page EXCEPT !.acting = TRUE])
    BY PageFields
  <2>. QED
    BY <1>5, <2>1, <2>2, GivesKeeps DEF HandleSubmit
<1>6. ASSUME NEW d \in Docs, NEW kind \in {"approve", "reject", "supersede"}, OpenModal(kind, d)
      PROVE  PageKept
  <2>1. [kind |-> kind, doc |-> d] \in Modals
    BY DEF Modals
  <2>2. PageOK([page EXCEPT !.modal = [kind |-> kind, doc |-> d]])
    BY <2>1, PageFields
  <2>. QED
    BY <1>6, <2>2, ShowsKeeps DEF OpenModal
<1>7. ASSUME NEW kind \in {"approve", "reject", "supersede"}, NEW other,
             kind = "supersede" => other \in Docs, ConfirmModal(kind, other)
      PROVE  PageKept
  <2>1. page.modal.doc \in Docs
    BY <1>7, NoneAssumption DEF ConfirmModal, PageOK, Writing
  <2>2. Sendable(Request(kind, page.modal.doc, other, "row"))
    BY <1>7, <2>1, RequestSendable DEF Writing, Tags
  <2>3. PageOK([page EXCEPT !.acting = TRUE])
    BY PageFields
  <2>. QED
    BY <1>7, <2>2, <2>3, GivesKeeps DEF ConfirmModal
<1>8. CASE CloseModal
  <2>1. PageOK([page EXCEPT !.modal = NoModal, !.acting = FALSE])
    <3> DEFINE p == [page EXCEPT !.modal = NoModal]
    <3>1. PageOK(p)
      BY PageFields DEF NoModal, Modals
    <3>2. PageOK([p EXCEPT !.acting = FALSE])
      BY <3>1, PageFields
    <3>. QED
      BY <3>2
  <2>. QED
    BY <1>8, <2>1, RowGoneOK DEF CloseModal, Shows, server, PageKept
<1>9. CASE OpenHistory
  <2>1. Sendable(Asks("history", "no"))
    BY AsksSendable DEF Tags
  <2>2. PageOK([page EXCEPT !.loadingHistory = "type", !.historyError = FALSE])
    <3> DEFINE p == [page EXCEPT !.loadingHistory = "type"]
    <3>1. PageOK(p)
      BY PageFields
    <3>2. PageOK([p EXCEPT !.historyError = FALSE])
      BY <3>1, PageFields
    <3>. QED
      BY <3>2
  <2>. QED
    BY <1>9, <2>1, <2>2, GivesKeeps DEF OpenHistory
<1>10. CASE CloseHistory
  <2>1. PageOK([page EXCEPT !.history = None])
    BY PageFields
  <2>. QED
    BY <1>10, <2>1, ShowsKeeps DEF CloseHistory
<1>11. CASE CloseReading
  <2>1. PICK dialog \in page.reading : Shows([page EXCEPT !.reading = @ \ {dialog}])
    BY <1>11 DEF CloseReading
  <2>2. PageOK([page EXCEPT !.reading = @ \ {dialog}])
    <3>1. page.reading \ {dialog} \in SUBSET {"detail", "versions"}
      BY DEF PageOK, Pages
    <3>. QED
      BY <3>1 DEF PageOK, Pages
  <2>. QED
    BY <1>11, <2>1, <2>2, ShowsKeeps DEF CloseReading
<1>12. CASE UploadDialog
  <2>1. PICK step \in {"closed", "type", "file"} : Shows([page EXCEPT !.upload = step])
    BY <1>12 DEF UploadDialog
  <2>2. PageOK([page EXCEPT !.upload = step])
    BY PageFields
  <2>. QED
    BY <1>12, <2>1, <2>2, ShowsKeeps DEF UploadDialog
<1>13. CASE HandleUpload
  <2>1. Sendable(Asks("upload", "upload"))
    BY AsksSendable DEF Tags
  <2>2. PageOK([page EXCEPT !.uploading = TRUE])
    BY PageFields
  <2>. QED
    BY <1>13, <2>1, <2>2, GivesKeeps DEF HandleUpload
<1>14. CASE ChooseLanguage
  <2>1. PICK d \in Docs \cup {None} : Shows([page EXCEPT !.lang = d])
    BY <1>14 DEF ChooseLanguage
  <2>2. PageOK([page EXCEPT !.lang = d])
    BY PageFields
  <2>. QED
    BY <1>14, <2>1, <2>2, ShowsKeeps DEF ChooseLanguage
<1>15. CASE HandleEvaluate
  <2>1. page.lang \in Docs
    BY <1>15 DEF HandleEvaluate, PageOK, Pages
  <2>2. Sendable(Request("evaluate", page.lang, None, "evaluate"))
    BY <2>1, RequestSendable DEF Writing, Tags
  <2>3. PageOK([page EXCEPT !.lang = None, !.evaluating = page.lang])
    <3> DEFINE p == [page EXCEPT !.lang = None]
    <3>1. PageOK(p)
      BY PageFields
    <3>2. PageOK([p EXCEPT !.evaluating = page.lang])
      BY <2>1, <3>1, PageFields
    <3>. QED
      BY <3>2
  <2>. QED
    BY <1>15, <2>2, <2>3, GivesKeeps DEF HandleEvaluate
<1>. QED
  BY <1>1, <1>2, <1>3, <1>4, <1>5, <1>6, <1>7, <1>8, <1>9, <1>10, <1>11, <1>12, <1>13, <1>14,
     <1>15 DEF User, ConfirmApprove, ConfirmReject, ConfirmSupersede
LEMMA ElsewhereKeeps ==
  ASSUME CallsOK(call), PageOK(page), Elsewhere
  PROVE  PageKept
<1>1. PICK kind \in Writing \ {"upload", "submit"}, d \in Docs, other \in Docs \cup {None} :
        /\ (other # None) = (kind = "supersede")
        /\ Gives([Request(kind, d, other, "no") EXCEPT !.from = None], page)
  BY DEF Elsewhere
<1> DEFINE k == [Request(kind, d, other, "no") EXCEPT !.from = None]
<1>2. Sendable(k)
  <2>1. Sendable(Request(kind, d, other, "no"))
    BY <1>1, RequestSendable DEF Tags
  <2>. QED
    BY <2>1 DEF Sendable, Shape
<1>. QED
  BY <1>1, <1>2, GivesKeeps

LEMMA PollKeeps ==
  ASSUME CallsOK(call), PageOK(page), Poll
  PROVE  PageKept
<1>1. Sendable(Asks("list", "silent"))
  BY AsksSendable DEF Tags
<1>. QED
  BY <1>1, SendableOK, PutOK DEF Poll, server, PageKept

-----------------------------------------------------------------------------
(* The answers *)

\* What an answer leaves behind.
Kept == CallsOK(call') /\ PageOK(page')

LEMMA SettledOK ==
  ASSUME NEW p, PageOK(p), NEW calls, NEW tag
  PROVE  PageOK(Settled(p, calls, tag))
BY PageFields DEF Settled

LEMMA FetchingOK ==
  ASSUME NEW p, PageOK(p)
  PROVE  PageOK(Fetching(p))
<1> DEFINE q == [p EXCEPT !.fetching = TRUE]
           r == [q EXCEPT !.modal = NoModal]
<1>1. PageOK(q)
  BY PageFields
<1>2. PageOK(r)
  BY <1>1, PageFields DEF NoModal, Modals
<1>3. PageOK([r EXCEPT !.acting = FALSE])
  BY <1>2, PageFields
<1>. QED
  BY <1>3 DEF Fetching

\* A call is followed by another, or by the two lists.
LEMMA FollowedOK ==
  ASSUME CallsOK(call), NEW c, NEW kind \in {"list", "pending", "history", "upload"}, NEW after \in Tags
  PROVE  CallsOK([call EXCEPT ![c] = Asks(kind, after)])
BY AsksSendable, SendableOK, ReplacedOK

LEMMA ListsAskedOK ==
  ASSUME CallsOK(call), NEW c, NEW after \in Tags
  PROVE  CallsOK(RowGone(Put(Put(Dropped(c), Asks("list", after)), Asks("pending", after))))
<1>1. CallsOK(Dropped(c))
  BY DroppedOK
<1>2. CallsOK(Put(Dropped(c), Asks("list", after)))
  BY <1>1, AsksSendable, SendableOK, PutOK
<1>3. CallsOK(Put(Put(Dropped(c), Asks("list", after)), Asks("pending", after)))
  BY <1>2, AsksSendable, SendableOK, PutOK
<1>. QED
  BY <1>3, RowGoneOK

LEMMA RefetchKept ==
  ASSUME CallsOK(call), NEW c, NEW after \in Tags, NEW p, PageOK(p), Refetch(c, after, p)
  PROVE  Kept
BY FollowedOK, RowGoneOK, FetchingOK DEF Refetch, Shows, Kept

LEMMA DroppedKept ==
  ASSUME CallsOK(call), NEW c, NEW p, PageOK(p), call' = Dropped(c), Shows(p)
  PROVE  Kept
BY DroppedOK DEF Shows, Kept

\* A row that is drawn anew takes its dialog and its buttons along.
LEMMA GotListKept ==
  ASSUME CallsOK(call), PageOK(page), NEW c \in Calls, NEW ok \in BOOLEAN,
         ok => call[c].answer \in Lists \cup {None}, GotList(c, ok)
  PROVE  Kept
<1> DEFINE k == call[c]
           shown == IF ok THEN [page EXCEPT !.list = k.answer] ELSE page
           sameRow == /\ page.list # None /\ shown.list # None /\ shown.list.doc = page.list.doc
                      /\ shown.list.status # "obsolete"
           p == [shown EXCEPT !.fetching = @ /\ k.after = "silent",
                              !.modal = IF sameRow THEN @ ELSE NoModal, !.acting = @ /\ sameRow]
           calls == IF sameRow THEN Dropped(c) ELSE RowGone(Dropped(c))
<1>1. PageOK(shown)
  BY PageFields
<1>2. CallsOK(calls)
  BY DroppedOK, RowGoneOK
<1>3. Shows(Settled(p, calls, k.after)) /\ call' = calls
  BY DEF GotList
<1> HIDE DEF calls
<1>4. PageOK(p)
  <2> DEFINE fetching == shown.fetching /\ k.after = "silent"
             modal == IF sameRow THEN shown.modal ELSE NoModal
             acting == shown.acting /\ sameRow
             q == [shown EXCEPT !.fetching = fetching]
             r == [q EXCEPT !.modal = modal]
  <2>1. fetching \in BOOLEAN /\ acting \in BOOLEAN
    OBVIOUS
  <2>2. modal \in Modals /\ (modal.kind # None => modal.doc \in Docs)
    BY <1>1 DEF PageOK, Pages, Modals, NoModal
  <2>3. p = [r EXCEPT !.acting = acting]
    OBVIOUS
  <2> HIDE DEF fetching, modal, acting, shown, p
  <2>4. PageOK(q)
    BY <1>1, <2>1, PageFields
  <2>5. PageOK(r)
    BY <2>2, <2>4, PageFields
  <2>. QED
    BY <2>1, <2>3, <2>5, PageFields
<1> HIDE DEF p
<1>. QED
  BY <1>2, <1>3, <1>4, SettledOK DEF Shows, Kept

LEMMA GotPendingKept ==
  ASSUME CallsOK(call), PageOK(page), NEW c \in Calls, NEW ok \in BOOLEAN,
         ok => call[c].answer \in BOOLEAN, GotPending(c, ok)
  PROVE  Kept
<1> DEFINE p == IF ok THEN [page EXCEPT !.pending = call[c].answer] ELSE page
<1>1. PageOK(p)
  BY PageFields
<1>. QED
  BY <1>1, SettledOK, DroppedOK DEF GotPending, Shows, Kept

LEMMA GotHistoryKept ==
  ASSUME CallsOK(call), PageOK(page), NEW c \in Calls, NEW ok \in BOOLEAN,
         ok => call[c].answer \in Histories, GotHistory(c, ok)
  PROVE  Kept
<1> DEFINE history == IF ok THEN call[c].answer ELSE page.history
           error == page.historyError \/ ~ok
           q == [page EXCEPT !.history = history]
           r == [q EXCEPT !.historyError = error]
           p == [r EXCEPT !.loadingHistory = None]
<1>1. history \in Histories \cup {None} /\ error \in BOOLEAN
  BY DEF PageOK, Pages
<1>2. \/ call' = RowGone(Put(Put(Dropped(c), Asks("list", "promote")), Asks("pending", "promote")))
         /\ Shows(Fetching(p))
      \/ call' = Dropped(c) /\ Shows(p)
  BY DEF GotHistory
<1> HIDE DEF history, error
<1>3. PageOK(q)
  BY <1>1, PageFields
<1>4. PageOK(r)
  BY <1>1, <1>3, PageFields
<1>5. PageOK(p)
  BY <1>4, PageFields
<1> HIDE DEF p
<1>. QED
  BY <1>2, <1>5, ListsAskedOK, FetchingOK, DroppedKept DEF Shows, Kept, Tags

LEMMA GotPromoteKept ==
  ASSUME CallsOK(call), PageOK(page), NEW c \in Calls, NEW ok \in BOOLEAN, GotPromote(c, ok)
  PROVE  Kept
<1>1. PageOK([page EXCEPT !.loadingHistory = "type", !.historyError = FALSE])
  <2> DEFINE p == [page EXCEPT !.loadingHistory = "type"]
  <2>1. PageOK(p)
    BY PageFields
  <2>2. PageOK([p EXCEPT !.historyError = FALSE])
    BY <2>1, PageFields
  <2>. QED
    BY <2>2
<1>2. PageOK([page EXCEPT !.historyError = TRUE, !.promoting = None])
  <2> DEFINE p == [page EXCEPT !.historyError = TRUE]
  <2>1. PageOK(p)
    BY PageFields
  <2>2. PageOK([p EXCEPT !.promoting = None])
    BY <2>1, PageFields
  <2>. QED
    BY <2>2
<1>3. CallsOK([call EXCEPT ![c] = Asks("history", "promote")])
  BY FollowedOK DEF Tags
<1>. QED
  BY <1>1, <1>2, <1>3, DroppedOK DEF GotPromote, Shows, Kept

LEMMA GotDeleteKept ==
  ASSUME CallsOK(call), PageOK(page), NEW c \in Calls, NEW ok \in BOOLEAN, GotDelete(c, ok)
  PROVE  Kept
<1> DEFINE p == [page EXCEPT !.removing = None]
<1>1. PageOK(p)
  BY PageFields
<1>2. Refetch(c, "no", p) \/ (call' = Dropped(c) /\ Shows(p))
  BY DEF GotDelete
<1> HIDE DEF p
<1>. QED
  BY <1>1, <1>2, RefetchKept, DroppedKept DEF Tags

LEMMA GotUploadKept ==
  ASSUME CallsOK(call), PageOK(page), NEW c \in Calls, NEW ok \in BOOLEAN, GotUpload(c, ok)
  PROVE  Kept
<1> DEFINE p == [page EXCEPT !.upload = "closed"]
           q == [page EXCEPT !.uploading = FALSE]
<1>1. PageOK(p) /\ PageOK(q)
  BY PageFields
<1>2. \/ call' = RowGone(Put(Put(Dropped(c), Asks("list", "upload")), Asks("pending", "upload")))
         /\ Shows(Fetching(p))
      \/ call' = Dropped(c) /\ Shows(q)
  BY DEF GotUpload
<1> HIDE DEF p, q
<1>. QED
  BY <1>1, <1>2, ListsAskedOK, FetchingOK, DroppedKept DEF Shows, Kept, Tags

LEMMA GotEvaluateKept ==
  ASSUME CallsOK(call), PageOK(page), NEW c \in Calls, NEW ok \in BOOLEAN, GotEvaluate(c, ok)
  PROVE  Kept
<1>1. PageOK([page EXCEPT !.evaluating = None])
  BY PageFields
<1>2. CallsOK([call EXCEPT ![c] = Asks("list", "evaluate")])
  BY FollowedOK DEF Tags
<1>. QED
  BY <1>1, <1>2, DroppedOK DEF GotEvaluate, Shows, Kept

LEMMA GotApprovalKept ==
  ASSUME CallsOK(call), PageOK(page), NEW c \in Calls, NEW ok \in BOOLEAN, GotApproval(c, ok)
  PROVE  Kept
<1> DEFINE mine == call[c].after = "row"
           acting == page.acting /\ ~mine
           modal == IF mine /\ ok THEN NoModal ELSE page.modal
           q == [page EXCEPT !.acting = acting]
           p == [q EXCEPT !.modal = modal]
<1>1. acting \in BOOLEAN
  OBVIOUS
<1>2. modal \in Modals /\ (modal.kind # None => modal.doc \in Docs)
  BY DEF PageOK, Pages, Modals, NoModal
<1>3. Refetch(c, "no", p) \/ (call' = Dropped(c) /\ Shows(p))
  BY DEF GotApproval
<1> HIDE DEF acting, modal
<1>4. PageOK(q)
  BY <1>1, PageFields
<1>5. PageOK(p)
  BY <1>2, <1>4, PageFields
<1> HIDE DEF p
<1>. QED
  BY <1>3, <1>5, RefetchKept, DroppedKept DEF Tags

LEMMA GotDetailKept ==
  ASSUME CallsOK(call), PageOK(page), NEW c \in Calls, NEW ok \in BOOLEAN, GotDetail(c, ok)
  PROVE  Kept
<1> DEFINE reading == IF ok THEN page.reading \cup {"detail"} ELSE page.reading
           q == [page EXCEPT !.reading = reading]
           p == [q EXCEPT !.loadingEval = None]
<1>1. reading \in SUBSET {"detail", "versions"}
  BY DEF PageOK, Pages
<1>2. call' = Dropped(c) /\ Shows(p)
  BY DEF GotDetail
<1> HIDE DEF reading
<1>3. PageOK(q)
  BY <1>1, PageFields
<1>4. PageOK(p)
  BY <1>3, PageFields
<1>. QED
  BY <1>2, <1>4, DroppedKept

LEMMA GotVersionsKept ==
  ASSUME CallsOK(call), PageOK(page), NEW c \in Calls, NEW ok \in BOOLEAN, GotVersions(c, ok)
  PROVE  Kept
<1> DEFINE reading == IF ok THEN page.reading \cup {"versions"} ELSE page.reading
           q == [page EXCEPT !.reading = reading]
           p == [q EXCEPT !.loadingHistory = None]
<1>1. reading \in SUBSET {"detail", "versions"}
  BY DEF PageOK, Pages
<1>2. call' = Dropped(c) /\ Shows(p)
  BY DEF GotVersions
<1> HIDE DEF reading
<1>3. PageOK(q)
  BY <1>1, PageFields
<1>4. PageOK(p)
  BY <1>3, PageFields
<1>. QED
  BY <1>2, <1>4, DroppedKept

\* An answer is of the kind of its call; one that was lost counts as a refusal.
LEMMA GotKept ==
  ASSUME CallsOK(call), PageOK(page), NEW c \in Calls, call[c] # None, NEW ok \in BOOLEAN,
         ok => call[c].stage = "ok", Got(c, ok)
  PROVE  Kept
<1> DEFINE kind == call[c].kind
<1>1. CallOK(call[c])
  BY DEF CallsOK
<1>2. CASE kind = "list"
  BY <1>1, <1>2, GotListKept DEF Got, CallOK
<1>3. CASE kind = "pending"
  BY <1>1, <1>3, GotPendingKept DEF Got, CallOK
<1>4. CASE kind = "history"
  BY <1>1, <1>4, GotHistoryKept DEF Got, CallOK
<1>5. CASE kind = "promote"
  BY <1>5, GotPromoteKept DEF Got
<1>6. CASE kind = "delete"
  BY <1>6, GotDeleteKept DEF Got
<1>7. CASE kind = "upload"
  BY <1>7, GotUploadKept DEF Got
<1>8. CASE kind = "evaluate"
  BY <1>8, GotEvaluateKept DEF Got
<1>9. CASE kind = "detail"
  BY <1>9, GotDetailKept DEF Got
<1>10. CASE kind = "versions"
  BY <1>10, GotVersionsKept DEF Got
<1>11. CASE kind \notin {"list", "pending", "history", "promote", "delete", "upload", "evaluate",
                         "detail", "versions"}
  BY <1>11, GotApprovalKept DEF Got
<1>. QED
  BY <1>2, <1>3, <1>4, <1>5, <1>6, <1>7, <1>8, <1>9, <1>10, <1>11

LEMMA AnswersKeep ==
  ASSUME CallsOK(call), PageOK(page), NEW c \in Calls, Deliver(c) \/ Lost(c) \/ Forgotten(c)
  PROVE  PageKept
<1>1. CASE Deliver(c)
  BY <1>1, GotKept DEF Deliver, Kept, PageKept, server
<1>2. CASE Lost(c)
  BY <1>2, GotKept DEF Lost, Kept, PageKept, server
<1>3. CASE Forgotten(c)
  BY <1>3, DroppedOK DEF Forgotten, PageKept, server
<1>. QED
  BY <1>1, <1>2, <1>3
-----------------------------------------------------------------------------
(* The whole *)

LEMMA InitDocumentsInv == Init => DocumentsInv
<1> SUFFICES ASSUME Init PROVE DocumentsInv
  OBVIOUS
<1>1. PICK chosen \in {None} \cup {e \in Docs : There(e)} :
        main = [root \in Docs |-> IF root = chosen THEN [doc |-> root, at |-> 1] ELSE None]
  BY DEF Init
<1>2. /\ doc \in [Docs -> Documents]
      /\ \A d \in Docs : /\ doc[d].status \in {"unused", "pending", "approved"}
                         /\ doc[d].successor = None
  <2> DEFINE Fresh == [status : {"unused", "pending", "approved"}, evaluating : {FALSE}, tasks : {0},
                       successor : {None}, parent : {None}, artifact : BOOLEAN]
  <2>1. doc \in [Docs -> Fresh]
    BY DEF Init
  <2>2. ASSUME NEW row \in Fresh
        PROVE  /\ row \in Documents /\ row.successor = None
               /\ row.status \in {"unused", "pending", "approved"}
    <3>1. /\ row.status \in {"unused", "pending", "approved"} /\ row.evaluating = FALSE
          /\ row.tasks = 0 /\ row.successor = None /\ row.parent = None
      OBVIOUS
    <3>2. row.status \in Statuses
      BY <3>1 DEF Statuses
    <3>3. row.evaluating \in BOOLEAN /\ row.artifact \in BOOLEAN
      BY <3>1, Zenon
    <3>4. row.tasks \in Nat
      BY <3>1
    <3>5. row = [status |-> row.status, evaluating |-> row.evaluating, tasks |-> row.tasks,
                 successor |-> row.successor, parent |-> row.parent, artifact |-> row.artifact]
      OBVIOUS
    <3> HIDE DEF Fresh
    <3>6. row \in Documents
      BY <3>1, <3>2, <3>3, <3>5, <3>4, Zenon DEF Documents
    <3>. QED
      BY <3>1, <3>6
  <2> HIDE DEF Fresh
  <2>. QED
    BY <2>1, <2>2
<1>3. main \in [Docs -> Selections \cup {None}]
  BY <1>1 DEF Selections
<1>4. MainVersionIsLive
  <2> SUFFICES ASSUME NEW root \in Docs, main[root] # None
               PROVE  Live(main[root].doc, doc)
    BY DEF MainVersionIsLive, Chosen
  <2>1. root = chosen /\ main[root].doc = root
    BY <1>1
  <2>2. There(root)
    BY <2>1, NoneAssumption, <1>1
  <2>. QED
    BY <1>2, <2>1, <2>2 DEF Live, There
<1>5. CopiesStay
  BY <1>2 DEF CopiesStay
<1>6. CallsOK(call)
  BY DEF Init, CallsOK
<1>7. Snapshot("list") \in Lists \cup {None} /\ Snapshot("pending") \in BOOLEAN
  <2> DEFINE current == Newest(main).doc
  <2>1. current \in Docs \cup {None}
    BY <1>3, NewestTyped
  <2>2. current # None => doc[current] \in Documents
    BY <1>2, <2>1
  <2> HIDE DEF current
  <2>3. Representative(main) = current
    BY DEF Representative, current
  <2>. QED
    BY <2>1, <2>2, <2>3 DEF Snapshot, Lists, Documents
<1>8. PageOK(page)
  BY <1>7, NoneAssumption DEF Init, PageOK, Pages, NoModal
<1>. QED
  BY <1>2, <1>3, <1>4, <1>5, <1>6, <1>8 DEF DocumentsInv, TypeOK, CallsOK, PageOK

\* Every step keeps the invariant, and no approved document is lost by it.
LEMMA NextDocumentsInv ==
  ASSUME DocumentsInv, [Next]_vars
  PROVE  DocumentsInv' /\ \A d \in Docs : doc[d].artifact => doc'[d].status # "deleted"
<1>1. TypeOK /\ TablesOK /\ CallsOK(call) /\ PageOK(page)
  BY DEF DocumentsInv, TypeOK, TablesOK, PageOK
<1>2. ASSUME TablesKept, CallsOK(call'), PageOK(page')
      PROVE  DocumentsInv' /\ \A d \in Docs : doc[d].artifact => doc'[d].status # "deleted"
  BY <1>2 DEF TablesKept, TablesOK, DocumentsInv, TypeOK, CallsOK, PageOK, MainVersionIsLive, CopiesStay
<1>3. CASE Server /\ UNCHANGED <<page, asked>>
  BY <1>1, <1>2, <1>3, ServerKeeps DEF ServerKept
<1>4. CASE User
  BY <1>1, <1>2, <1>4, UserKeeps, NothingStored DEF PageKept
<1>5. CASE Elsewhere
  BY <1>1, <1>2, <1>5, ElsewhereKeeps, NothingStored DEF PageKept
<1>6. CASE Poll
  BY <1>1, <1>2, <1>6, PollKeeps, NothingStored DEF PageKept
<1>7. ASSUME NEW c \in Calls, Deliver(c) \/ Lost(c) \/ Forgotten(c)
      PROVE  DocumentsInv' /\ \A d \in Docs : doc[d].artifact => doc'[d].status # "deleted"
  BY <1>1, <1>2, <1>7, AnswersKeep, NothingStored DEF PageKept
<1>8. CASE UNCHANGED vars
  BY <1>1, <1>2, <1>8, NothingStored DEF vars
<1>. QED
  BY <1>3, <1>4, <1>5, <1>6, <1>7, <1>8 DEF Next

\* The invariant the others follow from: typed tables, calls and page, live main versions,
\* and official copies only of documents that are there, in every reachable state.
THEOREM DocumentsInvariant == Spec => []DocumentsInv
<1>1. DocumentsInv /\ [Next]_vars => DocumentsInv'
  BY NextDocumentsInv
<1>. QED
  BY InitDocumentsInv, <1>1, PTL DEF Spec

\* The types of the tables, of the calls on their way and of the page, whatever is asked in
\* whatever order and whichever answers are lost (documents/page.tsx and its routes).
THEOREM DocumentsTyped == Spec => []TypeOK
<1>1. DocumentsInv => TypeOK
  BY DEF DocumentsInv
<1>. QED
  BY DocumentsInvariant, <1>1, PTL

\* No number of owners choosing, superseding and deleting at once leaves a replaced, obsolete
\* or deleted version selected as the main one (select_current_version).
THEOREM MainVersionsLive == Spec => []MainVersionIsLive
<1>1. DocumentsInv => MainVersionIsLive
  BY DEF DocumentsInv
<1>. QED
  BY DocumentsInvariant, <1>1, PTL

\* A document with the official copy of its approval is never deleted, however a deletion
\* overlaps the approval (the foreign keys behind delete_document).
THEOREM ApprovedDocumentsStay == Spec => ApprovedStays
<1>1. DocumentsInv /\ [Next]_vars => [\A d \in Docs : doc[d].artifact => doc'[d].status # "deleted"]_vars
  BY NextDocumentsInv
<1>. QED
  BY DocumentsInvariant, <1>1, PTL DEF Spec, ApprovedStays
=============================================================================
