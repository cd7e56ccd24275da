-------------------------- MODULE ClientPagesProofs --------------------------
(***************************************************************************)
(* Proofs about ClientPages, for any number of users, files, batches and   *)
(* calls under way: what each page shows and keeps belongs to what it is   *)
(* shown or kept under, whatever order answers come in and whichever calls *)
(* are lost.                                                               *)
(*                                                                         *)
(* Each page has an inductive invariant of its own, which says what calls  *)
(* it may have under way (...Sends), what it may show (...Shown), what the *)
(* handlers may have stored (...Stored) and what the three have in common. *)
(***************************************************************************)
EXTENDS ClientPages, TLAPS

\* The calls under way, of a set of calls.
Table(Good) == [Calls -> Good \cup {None}]

\* Calls of this set may be refused, ignored, or have nobody left who awaits them.
Lasting(Good) ==
  \A k \in Good : /\ [k EXCEPT !.stage = "refused"] \in Good
                  /\ [k EXCEPT !.heard = FALSE] \in Good
                  /\ [k EXCEPT !.live = FALSE] \in Good

LEMMA FreeChosen ==
  ASSUME NEW calls, Free(calls) # {}
  PROVE  (CHOOSE c \in Free(calls) : TRUE) \in Free(calls)
OBVIOUS

\* A call goes where none was.
LEMMA PutCall ==
  ASSUME NEW Good, NEW calls \in Table(Good), NEW k \in Good, Free(calls) # {}
  PROVE  /\ Put(calls, k) \in Table(Good)
         /\ \E c \in Calls : calls[c] = None /\ Put(calls, k) = [calls EXCEPT ![c] = k]
<1> DEFINE c == CHOOSE x \in Free(calls) : TRUE
<1>1. c \in Calls /\ calls[c] = None
  BY FreeChosen DEF Free
<1> HIDE DEF c
<1>2. Put(calls, k) = [calls EXCEPT ![c] = k]
  BY DEF Put, c
<1>. QED
  BY <1>1, <1>2 DEF Table

LEMMA DroppedCall ==
  ASSUME NEW Good, call \in Table(Good), NEW c \in Calls
  PROVE  Dropped(c) \in Table(Good) /\ \A x \in Calls : Dropped(c)[x] = IF x = c THEN None ELSE call[x]
BY DEF Dropped, Table

LEMMA UnmountedCalls ==
  ASSUME NEW Good, Lasting(Good), call \in Table(Good)
  PROVE  /\ Unmounted \in Table(Good)
         /\ \A x \in Calls : \/ call[x] = None /\ Unmounted[x] = None
                             \/ call[x] # None /\ call[x] \in Good /\ Unmounted[x] = [call[x] EXCEPT !.heard = FALSE]
<1>1. \A x \in Calls : Unmounted[x] = IF call[x] = None THEN None ELSE [call[x] EXCEPT !.heard = FALSE]
  BY DEF Unmounted
<1>2. \A x \in Calls : call[x] # None => call[x] \in Good /\ [call[x] EXCEPT !.heard = FALSE] \in Good
  BY DEF Table, Lasting
<1>3. Unmounted = [x \in Calls |-> Unmounted[x]]
  BY DEF Unmounted
<1>4. \A x \in Calls : Unmounted[x] \in Good \cup {None}
  BY <1>1, <1>2
<1>5. Unmounted \in Table(Good)
  BY <1>3, <1>4 DEF Table
<1>6. ASSUME NEW x \in Calls
      PROVE  \/ call[x] = None /\ Unmounted[x] = None
             \/ call[x] # None /\ call[x] \in Good /\ Unmounted[x] = [call[x] EXCEPT !.heard = FALSE]
  <2>1. Unmounted[x] = IF call[x] = None THEN None ELSE [call[x] EXCEPT !.heard = FALSE]
    BY <1>1
  <2>. QED
    BY <1>2, <2>1
<1>. QED
  BY <1>5, <1>6

LEMMA IgnoredCalls ==
  ASSUME NEW Good, Lasting(Good), NEW calls \in Table(Good), NEW kinds
  PROVE  /\ Ignored(calls, kinds) \in Table(Good)
         /\ \A x \in Calls : Ignored(calls, kinds)[x] \in {calls[x], [calls[x] EXCEPT !.live = FALSE]}
BY DEF Ignored, Table, Lasting

LEMMA RefusedCall ==
  ASSUME NEW Good, Lasting(Good), call \in Table(Good), NEW c \in Calls, Refuses(c)
  PROVE  /\ call' \in Table(Good)
         /\ call[c] \in Good /\ call[c].stage = "sent"
         /\ call' = [call EXCEPT ![c] = [call[c] EXCEPT !.stage = "refused"]]
<1>1. call[c] \in Good
  BY DEF Refuses, Table
<1>2. [call[c] EXCEPT !.stage = "refused"] \in Good
  BY <1>1 DEF Lasting
<1>3. call' = [call EXCEPT ![c] = [call[c] EXCEPT !.stage = "refused"]]
  BY DEF Refuses, Table
<1>. QED
  BY <1>1, <1>2, <1>3 DEF Refuses, Table

LEMMA LostCall ==
  ASSUME NEW Good, Lasting(Good), call \in Table(Good), NEW c \in Calls, Loses(c)
  PROVE  /\ call' \in Table(Good)
         /\ call[c] \in Good /\ call[c].stage \in {"sent", "ok"}
         /\ UNCHANGED <<page, server, asked>>
         /\ \A x \in Calls :
              \/ call'[x] = call[x]
              \/ x = c /\ call'[x] = [call[c] EXCEPT !.stage = "refused"]
              \/ /\ call[x] = None \/ x = c
                 /\ call[c].stage = "sent"
                 /\ call'[x] = [call[c] EXCEPT !.heard = FALSE]
<1> DEFINE k == [call[c] EXCEPT !.stage = "refused"]
           h == [call[c] EXCEPT !.heard = FALSE]
           failed == [call EXCEPT ![c].stage = "refused"]
<1>1. call[c] \in Good /\ call[c].stage \in {"sent", "ok"} /\ UNCHANGED <<page, server, asked>>
  BY DEF Loses, Table
<1>2. k \in Good /\ h \in Good
  BY <1>1 DEF Lasting
<1>3. failed = [call EXCEPT ![c] = k]
  BY DEF Table
<1>4. failed \in Table(Good) /\ \A x \in Calls : failed[x] = IF x = c THEN k ELSE call[x]
  BY <1>2, <1>3 DEF Table
<1>5. CASE call' = failed
  BY <1>1, <1>4, <1>5
<1>6. CASE call' # failed
  <2>1. /\ call[c].stage = "sent" /\ Free(call) # {}
        /\ call' = Put(failed, h)
    BY <1>6 DEF Loses
  <2>2. call[c] # None
    BY DEF Loses
  <2>3. PICK d \in Free(call) : TRUE
    BY <2>1
  <2>4. d \in Calls /\ call[d] = None /\ d # c
    BY <2>2, <2>3 DEF Free
  <2>5. d \in Free(failed)
    BY <1>4, <2>4 DEF Free
  <2> HIDE DEF failed, k, h
  <2>6. Free(failed) # {} /\ failed \in Table(Good) /\ h \in Good
    BY <1>2, <1>4, <2>5
  <2>7. call' \in Table(Good)
    BY <2>1, <2>6, PutCall
  <2>8. PICK x \in Calls : failed[x] = None /\ call' = [failed EXCEPT ![x] = h]
    BY <2>1, <2>6, PutCall
  <2>9. \A y \in Calls : call'[y] = IF y = x THEN h ELSE failed[y]
    BY <2>6, <2>8 DEF Table
  <2>10. ASSUME NEW y \in Calls
         PROVE  \/ call'[y] = call[y]
                \/ y = c /\ call'[y] = k
                \/ (call[y] = None \/ y = c) /\ call'[y] = h
    <3>1. failed[y] = IF y = c THEN k ELSE call[y]
      BY <1>4
    <3>. QED
      BY <2>8, <2>9, <3>1
  <2>. QED
    BY <1>1, <2>1, <2>7, <2>10 DEF k, h
<1>. QED
  BY <1>5, <1>6

\* What a page and its handlers hold, each by itself.
Fits(Good, Shown, Stored) == call \in Table(Good) /\ page \in Shown /\ server \in Stored

LEMMA PageTurns ==
  ASSUME NEW CONSTANT Good, NEW CONSTANT Shown, NEW CONSTANT Stored, Fits(Good, Shown, Stored),
         NEW p \in Shown, Turns(p)
  PROVE  Fits(Good, Shown, Stored)' /\ server' = server
BY DEF Fits, Turns

LEMMA PageGives ==
  ASSUME NEW CONSTANT Good, NEW CONSTANT Shown, NEW CONSTANT Stored, Fits(Good, Shown, Stored),
         NEW k \in Good, NEW p \in Shown, Gives(call, k, p)
  PROVE  Fits(Good, Shown, Stored)' /\ server' = server
BY PutCall DEF Fits, Gives

\* After an answer another call, or none, takes the place of the call.
LEMMA PageGoes ==
  ASSUME NEW CONSTANT Good, NEW CONSTANT Shown, NEW CONSTANT Stored, Fits(Good, Shown, Stored),
         NEW c \in Calls, NEW k \in Good \cup {None}, NEW p \in Shown, Goes([call EXCEPT ![c] = k], p)
  PROVE  Fits(Good, Shown, Stored)' /\ server' = server
BY DEF Fits, Goes, Table

LEMMA PageDrops ==
  ASSUME NEW CONSTANT Good, NEW CONSTANT Shown, NEW CONSTANT Stored, Fits(Good, Shown, Stored),
         NEW c \in Calls, NEW p \in Shown, Goes(Dropped(c), p)
  PROVE  Fits(Good, Shown, Stored)' /\ server' = server
BY PageGoes DEF Dropped

LEMMA PageRefuses ==
  ASSUME NEW CONSTANT Good, NEW CONSTANT Shown, NEW CONSTANT Stored, Fits(Good, Shown, Stored),
         Lasting(Good), NEW c \in Calls, Refuses(c)
  PROVE  Fits(Good, Shown, Stored)' /\ server' = server
BY RefusedCall DEF Fits, Refuses

LEMMA PageLoses ==
  ASSUME NEW CONSTANT Good, NEW CONSTANT Shown, NEW CONSTANT Stored, Fits(Good, Shown, Stored),
         Lasting(Good), NEW c \in Calls, Loses(c)
  PROVE  Fits(Good, Shown, Stored)' /\ server' = server
BY LostCall DEF Fits

\* A handler is done with a call, or does a step of it.
LEMMA PageServes ==
  ASSUME NEW CONSTANT Good, NEW CONSTANT Shown, NEW CONSTANT Stored, Fits(Good, Shown, Stored),
         NEW c \in Calls, NEW k \in Good, call' = [call EXCEPT ![c] = k],
         NEW s \in Stored, server' = s, page' = page
  PROVE  Fits(Good, Shown, Stored)'
BY DEF Fits, Table

\* The calls with another stage, and another answer.
LEMMA StageOf ==
  ASSUME NEW Good, call \in Table(Good), NEW c \in Calls, NEW stage
  PROVE  [call EXCEPT ![c].stage = stage] = [call EXCEPT ![c] = [call[c] EXCEPT !.stage = stage]]
BY DEF Table

LEMMA AnswerOf ==
  ASSUME NEW Good, call \in Table(Good), NEW c \in Calls, NEW result, NEW s, Answers(c, result, s)
  PROVE  /\ call' = [call EXCEPT ![c] = [call[c] EXCEPT !.stage = "ok", !.answer = result]]
         /\ server' = s /\ page' = page
BY DEF Table, Answers

-----------------------------------------------------------------------------
\* The team: what the calls under way still have to do with a person explains where
\* rows and identities part.

\* Team deals with its calls as PageCalls says.
LEMMA TeamCalls ==
  /\ \A kind, arg : Team!Sent(kind, arg) = Sent(kind, arg)
  /\ \A calls : Team!Free(calls) = Free(calls)
  /\ \A calls, k : Team!Put(calls, k) = Put(calls, k)
  /\ \A calls, kinds : Team!Ignored(calls, kinds) = Ignored(calls, kinds)
  /\ Team!Unmounted = Unmounted
  /\ \A c : Team!Dropped(c) = Dropped(c)
  /\ \A calls, k, p : Team!Gives(calls, k, p) <=> Gives(calls, k, p)
  /\ \A p : Team!Turns(p) <=> Turns(p)
  /\ \A calls, p : Team!Goes(calls, p) <=> Goes(calls, p)
  /\ \A c : (Team!Arrived(c) <=> Arrived(c)) /\ (Team!Ok(c) <=> Ok(c))
  /\ \A c, result, s : Team!Answers(c, result, s) <=> Answers(c, result, s)
  /\ \A c : (Team!Refuses(c) <=> Refuses(c)) /\ (Team!Loses(c) <=> Loses(c))
  /\ \A c : Team!Unheard(c) <=> Unheard(c)
BY DEF Sent, Team!Sent, Free, Team!Free, Put, Team!Put, Ignored, Team!Ignored, Unmounted, Team!Unmounted,
       Dropped, Team!Dropped, Gives, Team!Gives, Turns, Team!Turns, Goes, Team!Goes, Arrived, Team!Arrived,
       Ok, Team!Ok, Answers, Team!Answers, Refuses, Team!Refuses, Loses, Team!Loses, Unheard, Team!Unheard

Nobody == People \cup {None}
TeamMails == {"invite", "accept", "link", "edit", "remove", "readRights"}
TeamKinds == TeamMails \cup {"rights", "list", "export", "minutes", "upload", "deleteMinutes"}
TeamRights == [of : Nobody, from : Nobody]

TeamSends ==
  {k \in [kind : TeamKinds, arg : Nobody \cup TeamRights, live : BOOLEAN, heard : BOOLEAN,
          stage : Team!Stages, answer : Nobody \cup SUBSET People] :
     /\ k.kind \in TeamMails => k.arg \in People
     /\ k.kind = "rights" => k.arg \in TeamRights
     /\ k.kind \in Team!Joins \cup {"remove"} => k.answer = None
     /\ k.kind = "list" /\ k.stage = "ok" => k.answer \in SUBSET People
     /\ k.kind = "readRights" /\ k.stage = "ok" => k.answer \in Nobody
     /\ k.stage \in {"counted", "created", "inserted"} => k.kind \in Team!Joins
     /\ k.stage = "identityGone" => k.kind = "remove"}

TeamShown ==
  [tab : Team!Tabs, rows : SUBSET People, dialog : {"none", "invite", "link", "rights"},
   editing : Nobody, removing : Nobody, rightsOf : Nobody, rightsShown : Nobody,
   busy : SUBSET Team!Flags, joining : SUBSET People, joined : SUBSET People]

TeamStored ==
  [members : SUBSET People, identities : SUBSET People, links : SUBSET People, used : SUBSET People,
   broken : SUBSET People, rights : [People -> Nobody]]

\* Between its two statements a handler that makes, or deletes, an account.
Creates(c) == Team!At(c, Team!Joins, "created")
Deletes(c) == Team!At(c, {"remove"}, "identityGone")

Creating(e) == \E c \in Calls : Creates(c) /\ call[c].arg = e
Deleting(e) == \E c \in Calls : Deletes(c) /\ call[c].arg = e

\* One handler at a time has created the identity of an address, which is there, and one
\* holds its row.  Of an account nobody broke off, a row stands beside an identity just
\* created only while it is being deleted.
Engagement(e) ==
  /\ \A c, d \in Calls : /\ (Creates(c) /\ Creates(d)) \/ (Deletes(c) /\ Deletes(d))
                         /\ call[c].arg = e /\ call[d].arg = e
       => c = d
  /\ Creating(e) => e \in server.identities /\ (e \in server.members \ server.broken => Deleting(e))
  /\ Deleting(e) => e \in server.members /\ (e \in server.identities \ server.broken => Creating(e))
  /\ e \in server.members \ (server.identities \cup server.broken) => Deleting(e)
  /\ e \in server.identities \ (server.members \cup server.broken) => Creating(e)

Engagements == \A e \in People : Engagement(e)

TeamInv ==
  /\ call \in Table(TeamSends) /\ page \in TeamShown /\ server \in TeamStored
  /\ Engagements

\* Calls of the page may be refused, ignored, or left by whoever awaited them.
LEMMA TeamLasting == Lasting(TeamSends)
<1> SUFFICES ASSUME NEW k \in TeamSends
             PROVE  /\ [k EXCEPT !.stage = "refused"] \in TeamSends
                    /\ [k EXCEPT !.heard = FALSE] \in TeamSends
                    /\ [k EXCEPT !.live = FALSE] \in TeamSends
  BY Zenon DEF Lasting
<1>1. [k EXCEPT !.stage = "refused"] \in TeamSends
  BY DEF TeamSends, Team!Stages
<1>2. [k EXCEPT !.heard = FALSE] \in TeamSends
  BY DEF TeamSends
<1>3. [k EXCEPT !.live = FALSE] \in TeamSends
  BY DEF TeamSends
<1>. QED
  BY <1>1, <1>2, <1>3

\* The page as it is first seen.
LEMMA TeamInit == Team!Init => TeamInv
<1> SUFFICES ASSUME Team!Init PROVE TeamInv
  OBVIOUS
<1>1. call \in Table(TeamSends) /\ \A c \in Calls : call[c] = None
  BY DEF Team!Init, Table
<1>2. PICK m \in SUBSET People, l \in SUBSET People :
        /\ server = [members |-> m, identities |-> m, links |-> l, used |-> {}, broken |-> {},
                     rights |-> [e \in People |-> e]]
        /\ page = [Team!Mounted EXCEPT !.rows = m, !.busy = {}]
  BY Zenon DEF Team!Init
<1>3. server \in TeamStored /\ server.members = server.identities
  BY <1>2 DEF TeamStored, Nobody
<1>4. page \in TeamShown
  BY <1>2 DEF TeamShown, Team!Mounted, Nobody, Team!Tabs, Team!Flags
<1>5. Engagements
  BY <1>1, <1>3 DEF Engagements, Engagement, Creating, Deleting, Creates, Deletes, Team!At
<1>. QED
  BY <1>1, <1>3, <1>4, <1>5 DEF TeamInv

\* What befalls a handler of one address leaves the other addresses alone.
LEMMA TeamElsewhere ==
  ASSUME TeamInv, NEW e \in People, Engagement(e)',
         \A x \in Calls : \/ call'[x] = call[x]
                          \/ /\ Creates(x) \/ Deletes(x) => call[x].arg = e
                             /\ Creates(x)' \/ Deletes(x)' => call'[x].arg = e,
         \A p \in People \ {e} : /\ p \in server'.members <=> p \in server.members
                                 /\ p \in server'.identities <=> p \in server.identities
                                 /\ p \in server'.broken <=> p \in server.broken
  PROVE  Engagements'
<1> SUFFICES ASSUME NEW p \in People \ {e} PROVE Engagement(p)'
  BY DEF Engagements
<1>1. \A x \in Calls : /\ (Creates(x) /\ call[x].arg = p)' <=> (Creates(x) /\ call[x].arg = p)
                       /\ (Deletes(x) /\ call[x].arg = p)' <=> (Deletes(x) /\ call[x].arg = p)
  BY DEF Creates, Deletes, Team!At
<1>2. (Creating(p)' <=> Creating(p)) /\ (Deleting(p)' <=> Deleting(p))
  BY <1>1 DEF Creating, Deleting
<1>3. Engagement(p)
  BY DEF TeamInv, Engagements
<1>. QED
  BY <1>1, <1>2, <1>3 DEF Engagement

\* Nothing happens to the handlers between their statements, nor to the accounts.
LEMMA TeamAside ==
  ASSUME TeamInv,
         \A x \in Calls : call'[x] = call[x] \/ ~(Creates(x) \/ Deletes(x) \/ Creates(x)' \/ Deletes(x)'),
         server'.members = server.members, server'.identities = server.identities,
         server'.broken = server.broken
  PROVE  Engagements'
<1> SUFFICES ASSUME NEW p \in People PROVE Engagement(p)'
  BY DEF Engagements
<1>1. \A x \in Calls : /\ (Creates(x) /\ call[x].arg = p)' <=> (Creates(x) /\ call[x].arg = p)
                       /\ (Deletes(x) /\ call[x].arg = p)' <=> (Deletes(x) /\ call[x].arg = p)
  BY DEF Creates, Deletes, Team!At
<1>2. (Creating(p)' <=> Creating(p)) /\ (Deleting(p)' <=> Deleting(p))
  BY <1>1 DEF Creating, Deleting
<1>3. Engagement(p)
  BY DEF TeamInv, Engagements
<1>. QED
  BY <1>1, <1>2, <1>3 DEF Engagement

\* What the page sends is one of its calls.
LEMMA TeamNew ==
  ASSUME NEW kind, NEW arg,
         \/ kind \in TeamMails /\ arg \in People
         \/ kind = "rights" /\ arg \in TeamRights
         \/ kind \in {"list", "export", "minutes", "upload", "deleteMinutes"} /\ arg = None
  PROVE  Sent(kind, arg) \in TeamSends /\ Sent(kind, arg).stage = "sent"
BY DEF Sent, TeamSends, TeamKinds, TeamMails, Team!Stages, Team!Joins, Nobody

LEMMA TeamTurns ==
  ASSUME TeamInv, NEW p \in TeamShown, Turns(p)
  PROVE  TeamInv'
<1>1. call' = call /\ server' = server /\ page' = p
  BY DEF Turns
<1>2. Engagements'
  BY <1>1, TeamAside
<1>. QED
  BY <1>1, <1>2 DEF TeamInv

LEMMA TeamGives ==
  ASSUME TeamInv, NEW k \in TeamSends, k.stage = "sent", NEW p \in TeamShown, Gives(call, k, p)
  PROVE  TeamInv'
<1>1. call' = Put(call, k) /\ Free(call) # {} /\ page' = p /\ server' = server
  BY DEF Gives
<1>2. PICK c \in Calls : call[c] = None /\ call' = [call EXCEPT ![c] = k]
  BY <1>1, PutCall DEF TeamInv
<1>3. call' \in Table(TeamSends) /\ \A x \in Calls : call'[x] = IF x = c THEN k ELSE call[x]
  BY <1>2 DEF TeamInv, Table
<1>4. Engagements'
  <2>1. ~(Creates(c) \/ Deletes(c) \/ Creates(c)' \/ Deletes(c)')
    BY <1>2, <1>3 DEF Creates, Deletes, Team!At
  <2>. QED
    BY <1>1, <1>3, <2>1, TeamAside
<1>. QED
  BY <1>1, <1>3, <1>4 DEF TeamInv

\* After an answer another call, or none, takes the place of the call.
LEMMA TeamGoes ==
  ASSUME TeamInv, NEW c \in Calls, call[c].stage \in {"ok", "refused"}, NEW k \in TeamSends \cup {None}, k # None => k.stage = "sent",
         NEW p \in TeamShown, Goes([call EXCEPT ![c] = k], p)
  PROVE  TeamInv'
<1>1. call' = [call EXCEPT ![c] = k] /\ page' = p /\ server' = server
  BY DEF Goes
<1>2. call' \in Table(TeamSends) /\ \A x \in Calls : call'[x] = IF x = c THEN k ELSE call[x]
  BY <1>1 DEF TeamInv, Table
<1>3. ~(Creates(c) \/ Deletes(c) \/ Creates(c)' \/ Deletes(c)')
  BY <1>2 DEF Creates, Deletes, Team!At
<1>4. Engagements'
  BY <1>1, <1>2, <1>3, TeamAside
<1>. QED
  BY <1>1, <1>2, <1>4 DEF TeamInv

\* The pages
LEMMA TeamStarts == TeamInv /\ Team!Starts => TeamInv'
<1> SUFFICES ASSUME TeamInv, Team!Starts PROVE TeamInv'
  OBVIOUS
<1> USE TeamCalls, TeamTurns, TeamGives, TeamNew DEF Team!Does
<1>1. page \in TeamShown
  BY DEF TeamInv
<1>2. ASSUME NEW flag \in Team!Flags PROVE Team!Flagged(flag) \in TeamShown
  BY <1>1 DEF TeamShown, Team!Flagged
<1>3. ASSUME NEW e \in People, Team!HandleInvite(e) PROVE TeamInv'
  BY <1>2, <1>3 DEF Team!HandleInvite, Team!Flags, TeamMails
<1>4. ASSUME NEW e \in People, Team!CreateLink(e) PROVE TeamInv'
  BY <1>2, <1>4 DEF Team!CreateLink, Team!Flags, TeamMails
<1>5. ASSUME NEW e \in People, Team!StartEdit(e) PROVE TeamInv'
  <2>1. [page EXCEPT !.editing = e] \in TeamShown
    BY <1>1 DEF TeamShown, Nobody
  <2>. QED
    BY <1>5, <2>1 DEF Team!StartEdit
<1>6. ASSUME NEW e \in People, Team!HandleRemove(e) PROVE TeamInv'
  <2>1. [page EXCEPT !.removing = e] \in TeamShown
    BY <1>1 DEF TeamShown, Nobody
  <2>. QED
    BY <1>6, <2>1 DEF Team!HandleRemove, TeamMails
<1>7. ASSUME NEW e \in People, Team!OpenRights(e) PROVE TeamInv'
  <2>1. [page EXCEPT !.dialog = "rights", !.rightsOf = e] \in TeamShown
    BY <1>1 DEF TeamShown, Nobody
  <2>. QED
    BY <1>7, <2>1 DEF Team!OpenRights, TeamMails
<1>8. ASSUME NEW e \in People, Team!Accept(e) PROVE TeamInv'
  <2>1. [page EXCEPT !.joining = @ \cup {e}] \in TeamShown
    BY <1>1 DEF TeamShown
  <2>. QED
    BY <1>8, <2>1 DEF Team!Accept, TeamMails
<1>9. ASSUME NEW dialog \in {"invite", "link"}, Team!OpenInvite(dialog) PROVE TeamInv'
  <2>1. [page EXCEPT !.dialog = dialog] \in TeamShown
    BY <1>1 DEF TeamShown
  <2>. QED
    BY <1>9, <2>1 DEF Team!OpenInvite
<1>10. ASSUME Team!CloseDialog PROVE TeamInv'
  <2>1. [page EXCEPT !.dialog = "none", !.rightsOf = None] \in TeamShown
    BY <1>1 DEF TeamShown, Nobody
  <2>. QED
    BY <1>10, <2>1 DEF Team!CloseDialog
<1>11. ASSUME Team!CancelEdit PROVE TeamInv'
  <2>1. [page EXCEPT !.editing = None] \in TeamShown
    BY <1>1 DEF TeamShown, Nobody
  <2>. QED
    BY <1>11, <2>1 DEF Team!CancelEdit
<1>12. ASSUME Team!HandleSave PROVE TeamInv'
  <2>1. page.editing \in People
    BY <1>1, <1>12 DEF TeamShown, Team!HandleSave, Nobody
  <2>. QED
    BY <1>2, <1>12, <2>1 DEF Team!HandleSave, Team!Flags, TeamMails
<1>13. ASSUME Team!HandleExportIHC PROVE TeamInv'
  BY <1>2, <1>13 DEF Team!HandleExportIHC, Team!Flags
<1>14. ASSUME Team!SaveRights PROVE TeamInv'
  <2>1. [of |-> page.rightsOf, from |-> page.rightsShown] \in TeamRights
    BY <1>1 DEF TeamShown, TeamRights
  <2>. QED
    BY <1>2, <1>14, <2>1 DEF Team!SaveRights, Team!Flags
<1>15. ASSUME Team!ShowMinutes PROVE TeamInv'
  <2>1. [Team!Flagged("loadingMinutes") EXCEPT !.tab = "minutes"] \in TeamShown
    BY <1>2 DEF TeamShown, Team!Flags, Team!Tabs
  <2>. QED
    BY <1>15, <2>1 DEF Team!ShowMinutes
<1>16. ASSUME Team!ShowMembers PROVE TeamInv'
  <2>1. [page EXCEPT !.tab = "members"] \in TeamShown
    BY <1>1 DEF TeamShown, Team!Tabs
  <2>. QED
    BY <1>16, <2>1 DEF Team!ShowMembers
<1>17. ASSUME Team!HandleUploadMinutes \/ Team!DeleteMinutes PROVE TeamInv'
  BY <1>2, <1>17 DEF Team!HandleUploadMinutes, Team!DeleteMinutes, Team!Flags
<1>. QED
  BY <1>3, <1>4, <1>5, <1>6, <1>7, <1>8, <1>9, <1>10, <1>11, <1>12, <1>13, <1>14, <1>15, <1>16, <1>17
     DEF Team!Starts

\* A handler does a step, or breaks off.
LEMMA TeamStep ==
  ASSUME TeamInv, NEW c \in Calls, call[c] # None, NEW stage \in Team!Stages,
         stage \in {"counted", "created", "inserted"} => call[c].kind \in Team!Joins,
         stage = "identityGone" => call[c].kind = "remove",
         stage = "ok" => call[c].kind \notin {"list", "readRights"},
         call' = [call EXCEPT ![c].stage = stage]
  PROVE  /\ call[c] \in TeamSends /\ call' \in Table(TeamSends)
         /\ \A x \in Calls : x # c => call'[x] = call[x]
         /\ Creates(c)' <=> stage = "created"
         /\ Deletes(c)' <=> stage = "identityGone"
         /\ call'[c].arg = call[c].arg
<1> DEFINE k == [call[c] EXCEPT !.stage = stage]
<1>1. call[c] \in TeamSends
  BY DEF TeamInv, Table
<1>2. k \in TeamSends
  BY <1>1 DEF TeamSends, Team!Stages, Team!Joins
<1>3. call' = [call EXCEPT ![c] = k]
  BY DEF TeamInv, Table
<1>4. k.stage = stage /\ k.arg = call[c].arg /\ k.kind = call[c].kind
  BY <1>1 DEF TeamSends
<1>5. stage \in {"created", "identityGone"} => k # None
  <2> SUFFICES ASSUME stage \in {"created", "identityGone"} PROVE k # None
    OBVIOUS
  <2>1. k.kind \in {"invite", "accept", "remove"}
    BY <1>4 DEF Team!Joins
  <2>2. k.arg \in People /\ k.answer = None
    BY <1>2, <2>1 DEF TeamSends, TeamMails, Team!Joins
  <2>3. k \in [kind : {"invite", "accept", "remove"}, arg : People, live : BOOLEAN, heard : BOOLEAN,
               stage : Team!Stages, answer : {None}]
    <3> HIDE DEF k
    <3>. QED
      BY <1>2, <2>1, <2>2 DEF TeamSends
  <2>. QED
    BY <2>3, NothingAssumption
<1> HIDE DEF k
<1>6. call' \in Table(TeamSends) /\ call'[c] = k /\ \A x \in Calls : x # c => call'[x] = call[x]
  BY <1>2, <1>3 DEF TeamInv, Table
<1>7. Creates(c)' <=> stage = "created"
  BY <1>4, <1>5, <1>6 DEF Creates, Team!At
<1>8. Deletes(c)' <=> stage = "identityGone"
  BY <1>4, <1>5, <1>6 DEF Deletes, Team!At
<1>. QED
  BY <1>1, <1>4, <1>6, <1>7, <1>8

\* It is enough to look at the address of the handler.
LEMMA TeamHandler ==
  ASSUME TeamInv, NEW c \in Calls, Team!At(c, Team!Joins \cup {"remove"}, call[c].stage), NEW stage \in Team!Stages,
         stage \in {"counted", "created", "inserted"} => call[c].kind \in Team!Joins,
         stage = "identityGone" => call[c].kind = "remove",
         call' = [call EXCEPT ![c].stage = stage], page' = page,
         server' \in TeamStored,
         \A p \in People \ {call[c].arg} : /\ p \in server'.members <=> p \in server.members
                                           /\ p \in server'.identities <=> p \in server.identities
                                           /\ p \in server'.broken <=> p \in server.broken,
         LET e == call[c].arg
             others == {x \in Calls \ {c} : call[x].arg = e}
             creating == stage = "created" \/ \E x \in others : Creates(x)
             deleting == stage = "identityGone" \/ \E x \in others : Deletes(x)
         IN /\ stage = "created" => \A x \in others : ~Creates(x)
            /\ stage = "identityGone" => \A x \in others : ~Deletes(x)
            /\ creating => e \in server'.identities /\ (e \in server'.members \ server'.broken => deleting)
            /\ deleting => e \in server'.members /\ (e \in server'.identities \ server'.broken => creating)
            /\ e \in server'.members \ (server'.identities \cup server'.broken) => deleting
            /\ e \in server'.identities \ (server'.members \cup server'.broken) => creating
  PROVE  TeamInv'
<1>1. call[c] # None /\ call[c].kind \in Team!Joins \cup {"remove"}
  BY DEF Team!At
<1>2. /\ call[c] \in TeamSends /\ call' \in Table(TeamSends) /\ call'[c].arg = call[c].arg
      /\ \A x \in Calls : x # c => call'[x] = call[x]
      /\ Creates(c)' <=> stage = "created"
      /\ Deletes(c)' <=> stage = "identityGone"
  BY <1>1, TeamStep DEF Team!Joins
<1>3. PICK e \in People : e = call[c].arg
  BY <1>1, <1>2 DEF TeamSends, TeamMails, Team!Joins
<1>4. \A x \in Calls : x # c => (Creates(x)' <=> Creates(x)) /\ (Deletes(x)' <=> Deletes(x))
  BY <1>2 DEF Creates, Deletes, Team!At
<1>5. Creating(e)' <=> stage = "created" \/ \E x \in Calls \ {c} : call[x].arg = e /\ Creates(x)
  BY <1>2, <1>3, <1>4 DEF Creating, Creates, Team!At
<1>6. Deleting(e)' <=> stage = "identityGone" \/ \E x \in Calls \ {c} : call[x].arg = e /\ Deletes(x)
  BY <1>2, <1>3, <1>4 DEF Deleting, Deletes, Team!At
<1>7. Engagement(e)'
  <2>1. ASSUME NEW x \in Calls, NEW y \in Calls, (Creates(x)' /\ Creates(y)') \/ (Deletes(x)' /\ Deletes(y)'),
               call'[x].arg = e, call'[y].arg = e
        PROVE  x = y
    <3>1. CASE x # c /\ y # c
      BY <1>2, <1>3, <1>4, <2>1, <3>1 DEF TeamInv, Engagements, Engagement
    <3>2. CASE x = c \/ y = c
      BY <1>2, <1>4, <2>1, <3>2
    <3>. QED
      BY <3>1, <3>2
  <2>. QED
    BY <1>3, <1>5, <1>6, <2>1 DEF Engagement
<1>8. Engagements'
  BY <1>2, <1>3, <1>4, <1>7, TeamElsewhere
<1>. QED
  BY <1>2, <1>8 DEF TeamInv

\* The handlers
LEMMA TeamAt ==
  ASSUME TeamInv, NEW c \in Calls, NEW stage, Team!At(c, Team!Joins \cup {"remove"}, stage)
  PROVE  /\ Team!At(c, Team!Joins \cup {"remove"}, call[c].stage) /\ call[c].stage = stage
         /\ call[c].kind \in Team!Joins \cup {"remove"}
         /\ call[c].arg \in People /\ Engagement(call[c].arg)
<1>1. call[c] \in TeamSends /\ call[c].kind \in Team!Joins \cup {"remove"} /\ call[c].stage = stage
  BY DEF TeamInv, Table, Team!At
<1>2. call[c].arg \in People
  BY <1>1 DEF TeamSends, TeamMails, Team!Joins
<1>. QED
  BY <1>1, <1>2 DEF TeamInv, Engagements, Team!At

LEMMA TeamCheck == ASSUME TeamInv, NEW c \in Calls, Team!Check(c) PROVE TeamInv'
<1>1. PICK stage \in {"counted", "refused"} :
        call' = [call EXCEPT ![c].stage = stage] /\ server' = server /\ page' = page
  BY DEF Team!Check, Team!Step
<1>2. Team!At(c, Team!Joins \cup {"remove"}, "sent") /\ call[c].kind \in Team!Joins
  BY DEF Team!Check, Team!At
<1>3. PICK e \in People : e = call[c].arg /\ Engagement(e)
  BY <1>2, TeamAt
<1>4. ~Creates(c) /\ ~Deletes(c)
  BY <1>2 DEF Creates, Deletes, Team!At
<1>. QED
  BY <1>1, <1>2, <1>3, <1>4, TeamHandler, TeamAt DEF Engagement, Creating, Deleting, Team!Stages, TeamInv

LEMMA TeamCreateIdentity == ASSUME TeamInv, NEW c \in Calls, Team!CreateIdentity(c) PROVE TeamInv'
<1>1. Team!At(c, Team!Joins \cup {"remove"}, "counted") /\ call[c].kind \in Team!Joins
  BY DEF Team!CreateIdentity, Team!At
<1>2. PICK e \in People : e = call[c].arg /\ Engagement(e)
  BY <1>1, TeamAt
<1>3. ~Creates(c) /\ ~Deletes(c)
  BY <1>1 DEF Creates, Deletes, Team!At
<1>4. CASE e \in server.identities
  <2>1. call' = [call EXCEPT ![c].stage = "refused"] /\ server' = server /\ page' = page
    BY <1>2, <1>4 DEF Team!CreateIdentity, Team!Step
  <2>. QED
    BY <1>1, <1>2, <1>3, <2>1, TeamHandler, TeamAt DEF Engagement, Creating, Deleting, Team!Stages, TeamInv
<1>5. CASE e \notin server.identities
  <2>1. /\ call' = [call EXCEPT ![c].stage = "created"] /\ page' = page
        /\ server' = [server EXCEPT !.identities = @ \cup {e}]
    BY <1>2, <1>5 DEF Team!CreateIdentity, Team!Step
  <2>2. /\ server' \in TeamStored /\ server'.identities = server.identities \cup {e}
        /\ server'.members = server.members /\ server'.broken = server.broken
    BY <2>1 DEF TeamInv, TeamStored
  <2>. QED
    BY <1>1, <1>2, <1>3, <1>5, <2>1, <2>2, TeamHandler, TeamAt DEF Engagement, Creating, Deleting, Team!Stages
<1>. QED
  BY <1>4, <1>5

LEMMA TeamInsertRow == ASSUME TeamInv, NEW c \in Calls, Team!InsertRow(c) PROVE TeamInv'
<1>1. Team!At(c, Team!Joins \cup {"remove"}, "created") /\ call[c].kind \in Team!Joins /\ Creates(c)
  BY DEF Team!InsertRow, Team!At, Creates
<1>2. PICK e \in People : e = call[c].arg /\ Engagement(e)
  BY <1>1, TeamAt
<1>3. ~Deletes(c) /\ ~Deleting(e)
  BY <1>1, <1>2 DEF Deletes, Deleting, Team!At, Team!InsertRow, Team!RowLocked
<1>4. \A x \in Calls \ {c} : Creates(x) => call[x].arg # e
  BY <1>1, <1>2 DEF Engagement
<1>5. server \in TeamStored
  BY DEF TeamInv
<1>6. CASE e \in server.members
  <2>1. call' = [call EXCEPT ![c].stage = "refused"] /\ server' = [server EXCEPT !.identities = @ \ {e}] /\ page' = page
    BY <1>2, <1>6 DEF Team!InsertRow, Team!Step, Team!Compensated
  <2>2. /\ server' \in TeamStored /\ server'.identities = server.identities \ {e}
        /\ server'.members = server.members /\ server'.broken = server.broken
    BY <1>5, <2>1 DEF TeamStored
  <2>3. e \in server.broken
    BY <1>1, <1>2, <1>3, <1>6 DEF Engagement, Creating
  <2>. QED
    BY <1>1, <1>2, <1>3, <1>4, <2>1, <2>2, <2>3, TeamHandler, TeamAt DEF Deleting, Team!Stages
<1>7. CASE e \notin server.members
  <2>1. PICK stage \in {"inserted", "ok"} :
          /\ call' = [call EXCEPT ![c].stage = stage] /\ page' = page
          /\ server' = [server EXCEPT !.members = @ \cup {e}, !.rights[e] = e]
    BY <1>2, <1>7 DEF Team!InsertRow, Team!Step
  <2>2. [server.rights EXCEPT ![e] = e] \in [People -> Nobody]
    BY <1>5 DEF TeamStored, Nobody
  <2>3. /\ server' \in TeamStored /\ server'.members = server.members \cup {e}
        /\ server'.identities = server.identities /\ server'.broken = server.broken
    BY <1>5, <2>1, <2>2 DEF TeamStored
  <2>4. e \in server.identities
    BY <1>1, <1>2 DEF Engagement, Creating
  <2>. QED
    BY <1>1, <1>2, <1>3, <1>4, <2>1, <2>3, <2>4, TeamHandler, TeamAt DEF Deleting, Team!Stages
<1>. QED
  BY <1>6, <1>7

LEMMA TeamMarkUsed == ASSUME TeamInv, NEW c \in Calls, Team!MarkUsed(c) PROVE TeamInv'
<1>1. Team!At(c, Team!Joins \cup {"remove"}, "inserted") /\ call[c].kind \in Team!Joins
  BY DEF Team!MarkUsed, Team!At, Team!Joins
<1>2. PICK e \in People : e = call[c].arg /\ Engagement(e)
  BY <1>1, TeamAt
<1>3. ~Creates(c) /\ ~Deletes(c)
  BY <1>1 DEF Creates, Deletes, Team!At
<1>4. call' = [call EXCEPT ![c].stage = "ok"] /\ server' = [server EXCEPT !.used = @ \cup {e}] /\ page' = page
  BY <1>2 DEF Team!MarkUsed, Team!Step
<1>5. /\ server' \in TeamStored /\ server'.identities = server.identities
      /\ server'.members = server.members /\ server'.broken = server.broken
  BY <1>4 DEF TeamInv, TeamStored
<1>. QED
  BY <1>1, <1>2, <1>3, <1>4, <1>5, TeamHandler, TeamAt DEF Engagement, Creating, Deleting, Team!Stages

LEMMA TeamDeleteIdentity == ASSUME TeamInv, NEW c \in Calls, Team!DeleteIdentity(c) PROVE TeamInv'
<1>1. Team!At(c, Team!Joins \cup {"remove"}, "sent") /\ call[c].kind = "remove"
  BY DEF Team!DeleteIdentity, Team!At
<1>2. PICK e \in People : e = call[c].arg /\ Engagement(e)
  BY <1>1, TeamAt
<1>3. ~Creates(c) /\ ~Deletes(c)
  BY <1>1 DEF Creates, Deletes, Team!At
<1>4. server \in TeamStored
  BY DEF TeamInv
<1>5. CASE call' = [call EXCEPT ![c].stage = "refused"] /\ server' = server /\ page' = page
  BY <1>1, <1>2, <1>3, <1>4, <1>5, TeamHandler, TeamAt DEF Engagement, Creating, Deleting, Team!Stages
<1>6. ASSUME NEW left \in {server.identities, server.identities \ {e}},
             left = IF e \in server.broken THEN server.identities ELSE server.identities \ {e},
             Team!RowFree(e),
             call' = [call EXCEPT ![c].stage = "identityGone"],
             server' = [server EXCEPT !.identities = left], page' = page
      PROVE  TeamInv'
  <2>1. /\ server' \in TeamStored /\ server'.identities = left
        /\ server'.members = server.members /\ server'.broken = server.broken
    BY <1>4, <1>6 DEF TeamStored
  <2>2. e \in server.members /\ ~Deleting(e)
    BY <1>6 DEF Team!RowFree, Team!RowLocked, Deleting, Deletes
  <2>3. \A x \in Calls : Creates(x) /\ call[x].arg = e => e \in server.broken /\ e \in server.identities
    BY <2>2 DEF Creating, Engagement, TeamInv, Engagements
  <2>4. (\E x \in Calls \ {c} : call[x].arg = e /\ Creates(x)) <=> Creating(e)
    BY <1>3 DEF Creating
  <2>5. \A x \in Calls \ {c} : call[x].arg = e => ~Deletes(x)
    BY <2>2 DEF Deleting
  <2>6. e \notin left \ server.broken
    BY <1>6
  <2>7. Creating(e) => e \in left /\ e \in server.broken
    BY <1>6, <2>3 DEF Creating
  <2>8. Team!At(c, Team!Joins \cup {"remove"}, call[c].stage)
    BY <1>1, TeamAt
  <2>9. e \in left \ (server.members \cup server.broken) => Creating(e)
    BY <2>6
  <2>. QED
    BY <1>1, <1>2, <1>6, <2>1, <2>2, <2>4, <2>5, <2>6, <2>7, <2>8, TeamHandler DEF Team!Stages
<1>. QED
  BY <1>2, <1>5, <1>6 DEF Team!DeleteIdentity, Team!Step

LEMMA TeamDeleteRow == ASSUME TeamInv, NEW c \in Calls, Team!DeleteRow(c) PROVE TeamInv'
<1>1. Team!At(c, Team!Joins \cup {"remove"}, "identityGone") /\ call[c].kind = "remove" /\ Deletes(c) /\ ~Creates(c)
  BY DEF Team!DeleteRow, Team!At, Deletes, Creates
<1>2. PICK e \in People : e = call[c].arg /\ Engagement(e)
  BY <1>1, TeamAt
<1>3. \A x \in Calls \ {c} : Deletes(x) => call[x].arg # e
  BY <1>1, <1>2 DEF Engagement
<1>4. /\ call' = [call EXCEPT ![c].stage = "ok"] /\ page' = page
      /\ server' = [server EXCEPT !.members = @ \ {e},
                                  !.broken = IF e \in server.identities THEN @ ELSE @ \ {e}]
  BY <1>2 DEF Team!DeleteRow, Team!Step
<1>5. /\ server' \in TeamStored /\ server'.identities = server.identities
      /\ server'.members = server.members \ {e}
      /\ server'.broken = IF e \in server.identities THEN server.broken ELSE server.broken \ {e}
  BY <1>4 DEF TeamInv, TeamStored
<1>6. (\E x \in Calls \ {c} : call[x].arg = e /\ Creates(x)) <=> Creating(e)
  BY <1>1 DEF Creating
<1>7. Deleting(e)
  BY <1>1, <1>2 DEF Deleting
<1>8. Creating(e) => e \in server.identities
  BY <1>2 DEF Engagement
<1>9. e \in server.identities \ (server'.members \cup server'.broken) => Creating(e)
  BY <1>2, <1>5, <1>7 DEF Engagement
<1>10. Team!At(c, Team!Joins \cup {"remove"}, call[c].stage)
  BY <1>1, TeamAt
<1>11. \A p \in People \ {e} : /\ p \in server'.members <=> p \in server.members
                               /\ p \in server'.identities <=> p \in server.identities
                               /\ p \in server'.broken <=> p \in server.broken
  BY <1>5
<1>12. e \notin server'.members
  BY <1>5
<1>. QED
  BY Zenon, <1>1, <1>2, <1>3, <1>4, <1>5, <1>6, <1>8, <1>9, <1>10, <1>11, <1>12, TeamHandler DEF Team!Stages

LEMMA TeamBreaksOff == ASSUME TeamInv, NEW c \in Calls, Team!BreaksOff(c) PROVE TeamInv'
<1>1. Team!At(c, Team!Joins \cup {"remove"}, call[c].stage)
  BY DEF TeamInv, Table, Team!BreaksOff, TeamSends, Team!At
<1>2. PICK e \in People : e = call[c].arg /\ Engagement(e)
  BY <1>1, TeamAt
<1>3. call' = [call EXCEPT ![c].stage = "refused"] /\ page' = page
  BY DEF Team!BreaksOff
<1>4. CASE call[c].stage \in {"created", "identityGone"}
  <2>1. server' = [server EXCEPT !.broken = @ \cup {e}]
    BY <1>2, <1>4 DEF Team!BreaksOff
  <2>2. /\ server' \in TeamStored /\ server'.identities = server.identities
        /\ server'.members = server.members /\ server'.broken = server.broken \cup {e}
    BY <2>1 DEF TeamInv, TeamStored
  <2>. QED
    BY <1>1, <1>2, <1>3, <2>1, <2>2, TeamHandler, TeamAt DEF Engagement, Creating, Deleting, Team!Stages
<1>5. CASE call[c].stage \notin {"created", "identityGone"}
  <2>1. server' = server /\ ~Creates(c) /\ ~Deletes(c)
    BY <1>5 DEF Team!BreaksOff, Creates, Deletes, Team!At
  <2>. QED
    BY <1>1, <1>2, <1>3, <2>1, TeamHandler, TeamAt DEF Engagement, Creating, Deleting, Team!Stages, TeamInv
<1>. QED
  BY <1>4, <1>5

LEMMA TeamFailsToInsert == ASSUME TeamInv, NEW c \in Calls, Team!FailsToInsert(c) PROVE TeamInv'
<1>1. Team!At(c, Team!Joins \cup {"remove"}, "created") /\ call[c].kind \in Team!Joins /\ Creates(c) /\ ~Deletes(c)
  BY DEF Team!FailsToInsert, Team!At, Creates, Deletes
<1>2. PICK e \in People : e = call[c].arg /\ Engagement(e)
  BY <1>1, TeamAt
<1>3. \A x \in Calls \ {c} : Creates(x) => call[x].arg # e
  BY <1>1, <1>2 DEF Engagement
<1>4. /\ call' = [call EXCEPT ![c].stage = "refused"] /\ page' = page
      /\ server' = [server EXCEPT !.identities = @ \ {e}]
  BY <1>2 DEF Team!FailsToInsert, Team!Compensated
<1>5. /\ server' \in TeamStored /\ server'.identities = server.identities \ {e}
      /\ server'.members = server.members /\ server'.broken = server.broken
  BY <1>4 DEF TeamInv, TeamStored
<1>6. (\E x \in Calls \ {c} : call[x].arg = e /\ Deletes(x)) <=> Deleting(e)
  BY <1>1 DEF Deleting
<1>7. e \in server.members \ server.broken => Deleting(e)
  BY <1>1, <1>2 DEF Engagement, Creating
<1>. QED
  BY <1>1, <1>2, <1>3, <1>4, <1>5, <1>6, <1>7, TeamHandler, TeamAt DEF Engagement, Team!Stages

LEMMA TeamAnswers ==
  ASSUME TeamInv, NEW c \in Calls, call[c].stage = "sent",
         NEW k \in TeamSends, k.stage \in {"ok", "refused"}, call' = [call EXCEPT ![c] = k],
         NEW s \in TeamStored, server' = s, page' = page,
         s.members = server.members, s.identities = server.identities, s.broken = server.broken
  PROVE  TeamInv'
<1>1. call' \in Table(TeamSends) /\ \A x \in Calls : call'[x] = IF x = c THEN k ELSE call[x]
  BY DEF TeamInv, Table
<1>2. ~(Creates(c) \/ Deletes(c) \/ Creates(c)' \/ Deletes(c)')
  BY <1>1 DEF Creates, Deletes, Team!At
<1>3. Engagements'
  BY <1>1, <1>2, TeamAside
<1>. QED
  BY <1>1, <1>3 DEF TeamInv

LEMMA TeamRefused ==
  ASSUME TeamInv, NEW c \in Calls, call[c] # None, call[c].stage = "sent",
         call' = [call EXCEPT ![c].stage = "refused"], server' = server, page' = page
  PROVE  TeamInv'
<1> DEFINE k == [call[c] EXCEPT !.stage = "refused"]
<1>1. call[c] \in TeamSends
  BY DEF TeamInv, Table
<1>2. k \in TeamSends
  BY <1>1, TeamLasting DEF Lasting
<1>3. call' = [call EXCEPT ![c] = k] /\ k.stage = "refused"
  BY <1>1 DEF TeamInv, Table, TeamSends
<1> HIDE DEF k
<1>4. server \in TeamStored
  BY DEF TeamInv
<1>. QED
  BY <1>2, <1>3, <1>4, TeamAnswers

LEMMA TeamWriteOne == ASSUME TeamInv, NEW c \in Calls, Team!WriteOne(c) PROVE TeamInv'
<1>1. call[c] # None /\ call[c] \in TeamSends /\ call[c].stage = "sent" /\ call[c].kind \in {"link", "rights"}
  BY DEF Team!WriteOne, Team!At, TeamInv, Table
<1> DEFINE k == [call[c] EXCEPT !.stage = "ok", !.answer = None]
<1>2. k \in TeamSends /\ k.stage = "ok"
  BY <1>1 DEF TeamSends, TeamMails, Team!Stages, Team!Joins, Nobody
<1>3. [call EXCEPT ![c].stage = "ok", ![c].answer = None] = [call EXCEPT ![c] = k]
  BY DEF TeamInv, Table
<1> HIDE DEF k
<1>4. server \in TeamStored
  BY DEF TeamInv
<1>5. CASE call' = [call EXCEPT ![c].stage = "refused"] /\ server' = server /\ page' = page
  BY <1>1, <1>5, TeamRefused
<1>6. ASSUME call[c].kind = "link",
             Answers(c, None, [server EXCEPT !.links = @ \cup {call[c].arg}, !.used = @ \ {call[c].arg}])
      PROVE  TeamInv'
  <2>1. call[c].arg \in People
    BY <1>1, <1>6 DEF TeamSends, TeamMails
  <2>2. /\ call' = [call EXCEPT ![c] = k] /\ page' = page
        /\ server' = [server EXCEPT !.links = @ \cup {call[c].arg}, !.used = @ \ {call[c].arg}]
    BY <1>3, <1>6 DEF Answers
  <2>3. /\ server' \in TeamStored /\ server'.identities = server.identities
        /\ server'.members = server.members /\ server'.broken = server.broken
    BY <1>4, <2>1, <2>2 DEF TeamStored
  <2>. QED
    BY <1>1, <1>2, <2>2, <2>3, TeamAnswers
<1>7. ASSUME call[c].kind = "rights",
             Answers(c, None, [server EXCEPT !.rights[call[c].arg.of] = call[c].arg.from])
      PROVE  TeamInv'
  <2>1. call[c].arg.from \in Nobody
    BY <1>1, <1>7 DEF TeamSends, TeamRights
  <2>2. /\ call' = [call EXCEPT ![c] = k] /\ page' = page
        /\ server' = [server EXCEPT !.rights[call[c].arg.of] = call[c].arg.from]
    BY <1>3, <1>7 DEF Answers
  <2>3. [server.rights EXCEPT ![call[c].arg.of] = call[c].arg.from] \in [People -> Nobody]
    BY <1>4, <2>1 DEF TeamStored
  <2>4. /\ server' \in TeamStored /\ server'.identities = server.identities
        /\ server'.members = server.members /\ server'.broken = server.broken
    BY <1>4, <2>2, <2>3 DEF TeamStored
  <2>. QED
    BY <1>1, <1>2, <2>2, <2>4, TeamAnswers
<1>. QED
  BY <1>1, <1>5, <1>6, <1>7, TeamCalls DEF Team!WriteOne, Team!Step

LEMMA TeamReads == ASSUME TeamInv, NEW c \in Calls, Team!Reads(c) PROVE TeamInv'
<1>1. /\ call[c] # None /\ call[c] \in TeamSends /\ call[c].stage = "sent"
      /\ call[c].kind \in {"list", "readRights", "minutes", "edit", "export", "upload", "deleteMinutes"}
  BY DEF Team!Reads, Team!At, TeamInv, Table
<1>2. server \in TeamStored
  BY DEF TeamInv
<1>3. PICK answer :
        /\ answer = IF call[c].kind = "list" THEN server.members
                    ELSE IF call[c].kind = "readRights" THEN server.rights[call[c].arg] ELSE None
        /\ Answers(c, answer, server)
  BY TeamCalls DEF Team!Reads
<1>4. /\ call[c].kind = "list" => answer \in SUBSET People
      /\ call[c].kind # "list" => answer \in Nobody
  BY <1>1, <1>2, <1>3 DEF TeamSends, TeamMails, TeamStored, Nobody
<1> DEFINE k == [call[c] EXCEPT !.stage = "ok", !.answer = answer]
<1>5. k \in TeamSends /\ k.stage = "ok"
  BY <1>1, <1>4 DEF TeamSends, TeamMails, Team!Stages, Team!Joins
<1>6. call' = [call EXCEPT ![c] = k] /\ server' = server /\ page' = page
  BY <1>3 DEF Answers, TeamInv, Table
<1> HIDE DEF k
<1>. QED
  BY <1>1, <1>2, <1>5, <1>6, TeamAnswers

LEMMA TeamLoses == ASSUME TeamInv, NEW c \in Calls, Team!Loses(c) PROVE TeamInv'
<1>1. Loses(c)
  BY TeamCalls
<1>2. /\ call' \in Table(TeamSends)
      /\ call[c] \in TeamSends /\ call[c].stage \in {"sent", "ok"}
      /\ UNCHANGED <<page, server, asked>>
      /\ \A x \in Calls :
           \/ call'[x] = call[x]
           \/ x = c /\ call'[x] = [call[c] EXCEPT !.stage = "refused"]
           \/ /\ call[x] = None \/ x = c
              /\ call[c].stage = "sent"
              /\ call'[x] = [call[c] EXCEPT !.heard = FALSE]
  BY <1>1, TeamLasting, LostCall DEF TeamInv
<1>3. ASSUME NEW x \in Calls, call'[x] # call[x]
      PROVE  ~(Creates(x) \/ Deletes(x) \/ Creates(x)' \/ Deletes(x)')
  <2>1. CASE x = c /\ call'[x] = [call[c] EXCEPT !.stage = "refused"]
    BY <1>2, <2>1 DEF Creates, Deletes, Team!At, TeamSends
  <2>2. CASE (call[x] = None \/ x = c) /\ call[c].stage = "sent" /\ call'[x] = [call[c] EXCEPT !.heard = FALSE]
    BY <1>2, <2>2 DEF Creates, Deletes, Team!At, TeamSends
  <2>. QED
    BY <1>2, <1>3, <2>1, <2>2
<1>4. Engagements'
  BY <1>2, <1>3, TeamAside
<1>. QED
  BY <1>2, <1>4 DEF TeamInv

LEMMA TeamContinues == ASSUME TeamInv, NEW c \in Calls, Team!Continues(c) PROVE TeamInv'
<1>1. page \in TeamShown
  BY DEF TeamInv
<1>2. Sent("list", None) \in TeamSends /\ Sent("minutes", None) \in TeamSends
      /\ Sent("list", None).stage = "sent" /\ Sent("minutes", None).stage = "sent"
  BY TeamNew
<1>3. call[c] # None /\ call[c].stage \in {"ok", "refused"} /\ call[c] \in TeamSends
  BY TeamCalls DEF TeamInv, Table, Arrived, Unheard, Team!Continues, Team!GotList, Team!GotInvite, Team!GotLink,
     Team!GotRemove, Team!GotEdit, Team!GotRights, Team!GotSavedRights, Team!GotExport, Team!GotMinutes,
     Team!GotMinutesChange, Team!GotAccept
<1>4. ASSUME NEW p \in TeamShown, Goes(Dropped(c), p) PROVE TeamInv'
  BY <1>3, <1>4, TeamGoes DEF Dropped
<1>5. ASSUME NEW p \in TeamShown, Team!Lists(c, p) PROVE TeamInv'
  <2>1. [p EXCEPT !.busy = @ \cup {"fetching"}] \in TeamShown
    BY DEF TeamShown, Team!Flags
  <2>. QED
    BY <1>2, <1>3, <1>5, <2>1, TeamGoes, TeamCalls DEF Team!Lists
<1>6. ASSUME NEW flag PROVE [page EXCEPT !.busy = @ \ {flag}] \in TeamShown
  BY <1>1 DEF TeamShown
<1> USE TeamCalls
<1>7. CASE Team!GotList(c)
  <2>1. Ok(c) => call[c].answer \in SUBSET People
    BY <1>3, <1>7 DEF Team!GotList, Ok, TeamSends
  <2>2. [page EXCEPT !.busy = @ \ {"fetching"}, !.rows = IF Ok(c) THEN call[c].answer ELSE @] \in TeamShown
    BY <1>1, <2>1 DEF TeamShown
  <2>. QED
    BY <1>4, <1>7, <2>2 DEF Team!GotList
<1>8. CASE Team!GotInvite(c)
  <2> DEFINE p == [page EXCEPT !.busy = @ \ {"inviting"}]
  <2>1. p \in TeamShown
    BY <1>6
  <2>2. [p EXCEPT !.dialog = IF @ = "invite" THEN "none" ELSE @] \in TeamShown
    BY <1>1 DEF TeamShown
  <2>3. \/ Team!Lists(c, [p EXCEPT !.dialog = IF @ = "invite" THEN "none" ELSE @])
        \/ Goes(Dropped(c), p)
    BY <1>8 DEF Team!GotInvite
  <2> HIDE DEF p
  <2>. QED
    BY <1>4, <1>5, <2>1, <2>2, <2>3
<1>9. CASE Team!GotLink(c)
  BY <1>4, <1>6, <1>9 DEF Team!GotLink
<1>10. CASE Team!GotRemove(c)
  <2>1. [page EXCEPT !.removing = None] \in TeamShown
    BY <1>1 DEF TeamShown, Nobody
  <2>. QED
    BY <1>4, <1>5, <1>10, <2>1 DEF Team!GotRemove, Team!Removed
<1>11. CASE Team!GotEdit(c)
  <2> DEFINE p == [page EXCEPT !.busy = @ \ {"saving"}]
  <2>1. p \in TeamShown
    BY <1>6
  <2>2. [p EXCEPT !.editing = None] \in TeamShown
    BY <1>1 DEF TeamShown, Nobody
  <2>3. Team!Lists(c, [p EXCEPT !.editing = None]) \/ Goes(Dropped(c), p)
    BY <1>11 DEF Team!GotEdit
  <2> HIDE DEF p
  <2>. QED
    BY <1>4, <1>5, <2>1, <2>2, <2>3
<1>12. CASE Team!GotRights(c)
  <2>1. Ok(c) => call[c].answer \in Nobody
    BY <1>3, <1>12 DEF Team!GotRights, Ok, TeamSends
  <2>2. Ok(c) => [page EXCEPT !.rightsShown = call[c].answer] \in TeamShown
    BY <1>1, <2>1 DEF TeamShown
  <2>. QED
    BY <1>1, <1>4, <1>12, <2>2 DEF Team!GotRights
<1>13. CASE Team!GotSavedRights(c)
  <2> DEFINE p == [page EXCEPT !.busy = @ \ {"rights"}]
             closed == [p EXCEPT !.dialog = IF @ = "rights" THEN "none" ELSE @, !.rightsOf = None]
  <2>1. p \in TeamShown
    BY <1>6
  <2>2. closed \in TeamShown
    BY <1>1 DEF TeamShown, Nobody
  <2>3. Goes(Dropped(c), closed) \/ Goes(Dropped(c), p)
    BY <1>13 DEF Team!GotSavedRights
  <2> HIDE DEF p, closed
  <2>. QED
    BY <1>4, <2>1, <2>2, <2>3
<1>14. CASE Team!GotExport(c)
  BY <1>4, <1>6, <1>14 DEF Team!GotExport
<1>15. CASE Team!GotMinutes(c)
  BY <1>4, <1>6, <1>15 DEF Team!GotMinutes
<1>16. CASE Team!GotMinutesChange(c)
  <2>1. PICK flag : LET p == [page EXCEPT !.busy = @ \ {flag}] IN
          \/ Goes([call EXCEPT ![c] = Sent("minutes", None)], [p EXCEPT !.busy = @ \cup {"loadingMinutes"}])
          \/ Goes(Dropped(c), p)
    BY Zenon, <1>16 DEF Team!GotMinutesChange
  <2> DEFINE p == [page EXCEPT !.busy = @ \ {flag}]
  <2>2. p \in TeamShown
    BY <1>6
  <2>3. [p EXCEPT !.busy = @ \cup {"loadingMinutes"}] \in TeamShown
    BY <1>1 DEF TeamShown, Team!Flags
  <2>4. \/ Goes([call EXCEPT ![c] = Sent("minutes", None)], [p EXCEPT !.busy = @ \cup {"loadingMinutes"}])
        \/ Goes(Dropped(c), p)
    BY <2>1
  <2> HIDE DEF p
  <2>. QED
    BY <1>2, <1>3, <1>4, <2>2, <2>3, <2>4, TeamGoes
<1>17. CASE Team!GotAccept(c)
  <2>1. call[c].arg \in People
    BY <1>3, <1>17 DEF Team!GotAccept, TeamSends, TeamMails
  <2>2. [page EXCEPT !.joining = @ \ {call[c].arg},
                     !.joined = IF Ok(c) THEN @ \cup {call[c].arg} ELSE @] \in TeamShown
    BY <1>1, <2>1 DEF TeamShown
  <2>. QED
    BY <1>4, <1>17, <2>2 DEF Team!GotAccept
<1>18. CASE Team!Unheard(c)
  BY <1>1, <1>4, <1>18 DEF Unheard
<1>. QED
  BY <1>7, <1>8, <1>9, <1>10, <1>11, <1>12, <1>13, <1>14, <1>15, <1>16, <1>17, <1>18 DEF Team!Continues

\* Whatever happens on the page.
LEMMA TeamNext == TeamInv /\ Team!Next => TeamInv'
<1> SUFFICES ASSUME TeamInv, Team!Next PROVE TeamInv'
  OBVIOUS
<1>1. ASSUME NEW c \in Calls, Team!Serves(c) PROVE TeamInv'
  BY <1>1, TeamCheck, TeamCreateIdentity, TeamInsertRow, TeamMarkUsed, TeamDeleteIdentity, TeamDeleteRow,
     TeamWriteOne, TeamReads DEF Team!Serves
<1>2. ASSUME NEW c \in Calls, Team!Refuses(c) PROVE TeamInv'
  BY <1>2, TeamRefused, TeamCalls DEF Refuses
<1>. QED
  BY <1>1, <1>2, TeamStarts, TeamLoses, TeamBreaksOff, TeamFailsToInsert, TeamContinues DEF Team!Next

\* What is checked of the page follows.
LEMMA TeamHolds == TeamInv => Team!TypeOK /\ Team!AccountIsWhole
<1> SUFFICES ASSUME TeamInv PROVE Team!TypeOK /\ Team!AccountIsWhole
  OBVIOUS
<1>1. \A c \in Calls : call[c] # None => call[c] \in TeamSends
  BY DEF TeamInv, Table
<1>2. Team!TypeOK
  BY <1>1 DEF TeamInv, TeamSends, TeamShown, TeamStored, Nobody, Team!TypeOK
<1>3. Team!AccountIsWhole
  BY DEF TeamInv, Engagements, Engagement, Creating, Deleting, Creates, Deletes, Team!AccountIsWhole, Team!Engaged
<1>. QED
  BY <1>2, <1>3

-----------------------------------------------------------------------------
\* Batches: a batch that is there was created by the call that named it, and no other
\* call that names it is still to create one.

\* Batch deals with its calls as PageCalls says.
LEMMA BatchCalls ==
  /\ \A kind, arg : Batch!Sent(kind, arg) = Sent(kind, arg)
  /\ \A calls : Batch!Free(calls) = Free(calls)
  /\ \A calls, k : Batch!Put(calls, k) = Put(calls, k)
  /\ \A calls, kinds : Batch!Ignored(calls, kinds) = Ignored(calls, kinds)
  /\ Batch!Unmounted = Unmounted
  /\ \A c : Batch!Dropped(c) = Dropped(c)
  /\ \A calls, k, p : Batch!Gives(calls, k, p) <=> Gives(calls, k, p)
  /\ \A p : Batch!Turns(p) <=> Turns(p)
  /\ \A calls, p : Batch!Goes(calls, p) <=> Goes(calls, p)
  /\ \A c : (Batch!Arrived(c) <=> Arrived(c)) /\ (Batch!Ok(c) <=> Ok(c))
  /\ \A c, result, s : Batch!Answers(c, result, s) <=> Answers(c, result, s)
  /\ \A c : (Batch!Refuses(c) <=> Refuses(c)) /\ (Batch!Loses(c) <=> Loses(c))
  /\ \A c : Batch!Unheard(c) <=> Unheard(c)
BY DEF Sent, Batch!Sent, Free, Batch!Free, Put, Batch!Put, Ignored, Batch!Ignored, Unmounted, Batch!Unmounted,
       Dropped, Batch!Dropped, Gives, Batch!Gives, Turns, Batch!Turns, Goes, Batch!Goes, Arrived, Batch!Arrived,
       Ok, Batch!Ok, Answers, Batch!Answers, Refuses, Batch!Refuses, Loses, Batch!Loses, Unheard, Batch!Unheard

BatchOne == {"detail", "delete", "file", "status", "seal", "assign", "step", "photo", "confirm"}
BatchArgs ==
  [id : Batches \cup {None}, what : Codes \cup Batch!Statuses \cup {"pending", None}, filter : Batch!Filters]
BatchRead == [id : Batches, row : Batch!Rows]

BatchSends ==
  {k \in [kind : BatchOne \cup {"list", "options", "create"}, arg : BatchArgs, live : BOOLEAN, heard : BOOLEAN,
          stage : {"sent", "inserted", "ok", "refused"}, answer : {None} \cup BatchRead \cup SUBSET Batches] :
     /\ k.kind \in BatchOne \/ k.stage = "inserted" => k.arg.id \in Batches
     /\ k.kind = "create" => k.arg.what \in Codes \cup {None}
     /\ k.kind = "status" => k.arg.what \in Batch!Statuses
     /\ k.kind = "step" => k.arg.what \in {"pending", "completed", None}
     /\ k.kind = "list" /\ k.stage = "ok" => k.answer \in SUBSET Batches
     /\ k.kind = "detail" /\ k.stage = "ok" => k.answer \in BatchRead}

BatchShown ==
  [list : SUBSET Batches, filter : Batch!Filters, detail : BatchRead \cup {None},
   form : [code : Codes \cup {None}] \cup {None}, busy : SUBSET Batch!Flags]

BatchStored == [Batches -> Batch!Rows \cup {None}]
BatchFits == Fits(BatchSends, BatchShown, BatchStored)
BatchInv == BatchFits /\ Batch!CreatedOnce

\* Calls of the page may be refused, ignored, or left by whoever awaited them.
LEMMA BatchLasting == Lasting(BatchSends)
<1> SUFFICES ASSUME NEW k \in BatchSends
             PROVE  /\ [k EXCEPT !.stage = "refused"] \in BatchSends
                    /\ [k EXCEPT !.heard = FALSE] \in BatchSends
                    /\ [k EXCEPT !.live = FALSE] \in BatchSends
  BY Zenon DEF Lasting
<1>1. [k EXCEPT !.stage = "refused"] \in BatchSends
  BY DEF BatchSends
<1>2. [k EXCEPT !.heard = FALSE] \in BatchSends
  BY DEF BatchSends
<1>3. [k EXCEPT !.live = FALSE] \in BatchSends
  BY DEF BatchSends
<1>. QED
  BY <1>1, <1>2, <1>3

\* The page as it is first seen.
LEMMA BatchInit == Batch!Init => BatchInv
<1> SUFFICES ASSUME Batch!Init PROVE BatchInv
  OBVIOUS
<1>1. call \in Table(BatchSends)
  BY DEF Batch!Init, Table
<1> DEFINE FirstRows(code) ==
     {Batch!Row(code, "draft", "pending", FALSE, FALSE), Batch!Row(code, "in_progress", "completed", FALSE, FALSE),
      Batch!Row(code, "completed", "completed", TRUE, FALSE), Batch!Row(code, "completed", "completed", TRUE, TRUE)}
<1>5. \A code \in Codes : FirstRows(code) \subseteq Batch!Rows
  BY DEF Batch!Rows, Batch!Row, Batch!Statuses
<1>2. PICK b \in Batches, row \in Batch!Rows :
        /\ server = [x \in Batches |-> IF x = b THEN row ELSE None]
        /\ LET p == [Batch!Mounted EXCEPT !.list = {b}, !.busy = {}]
           IN page \in {p, [p EXCEPT !.detail = [id |-> b, row |-> row]], [p EXCEPT !.form = [code |-> None]]}
  BY Zenon, <1>5 DEF Batch!Init
<1>3. server \in BatchStored /\ Batch!CreatedOnce
  BY <1>2 DEF BatchStored, Batch!CreatedOnce, Batch!Absent
<1>4. page \in BatchShown
  <2> DEFINE p == [Batch!Mounted EXCEPT !.list = {b}, !.busy = {}]
  <2>1. p \in BatchShown
    BY DEF BatchShown, Batch!Mounted, Batch!Filters, Batch!Flags
  <2>2. [p EXCEPT !.detail = [id |-> b, row |-> row]] \in BatchShown
    BY <2>1 DEF BatchShown, BatchRead
  <2>3. [p EXCEPT !.form = [code |-> None]] \in BatchShown
    BY <2>1 DEF BatchShown
  <2>. QED
    BY <1>2, <2>1, <2>2, <2>3
<1>. QED
  BY <1>1, <1>3, <1>4 DEF BatchInv, BatchFits, Fits

\* What is done on the page leaves the batches alone.
LEMMA BatchAside ==
  ASSUME BatchInv, BatchFits', server' = server
  PROVE  BatchInv'
BY DEF BatchInv, Batch!CreatedOnce, Batch!Absent

LEMMA BatchTurns == ASSUME BatchInv, NEW p \in BatchShown, Turns(p) PROVE BatchInv'
BY BatchAside, PageTurns DEF BatchInv, BatchFits

LEMMA BatchGives ==
  ASSUME BatchInv, NEW k \in BatchSends, NEW p \in BatchShown, Gives(call, k, p) PROVE BatchInv'
BY BatchAside, PageGives DEF BatchInv, BatchFits

LEMMA BatchGoes ==
  ASSUME BatchInv, NEW c \in Calls, NEW k \in BatchSends, NEW p \in BatchShown, Goes([call EXCEPT ![c] = k], p)
  PROVE  BatchInv'
BY BatchAside, PageGoes DEF BatchInv, BatchFits

LEMMA BatchDrops ==
  ASSUME BatchInv, NEW c \in Calls, NEW p \in BatchShown, Goes(Dropped(c), p) PROVE BatchInv'
BY BatchAside, PageDrops DEF BatchInv, BatchFits

\* What the page sends is one of its calls.
LEMMA BatchNew ==
  ASSUME NEW kind, NEW arg \in BatchArgs,
         \/ kind \in BatchOne \ {"status", "step"} /\ arg.id \in Batches
         \/ kind = "status" /\ arg.id \in Batches /\ arg.what \in Batch!Statuses
         \/ kind = "step" /\ arg.id \in Batches /\ arg.what \in {"pending", "completed", None}
         \/ kind \in {"list", "options"}
         \/ kind = "create" /\ arg.what \in Codes \cup {None}
  PROVE  Sent(kind, arg) \in BatchSends
BY DEF Sent, BatchSends, BatchOne

\* The page
LEMMA BatchStarts == BatchInv /\ Batch!Starts => BatchInv'
<1> SUFFICES ASSUME BatchInv, Batch!Starts PROVE BatchInv'
  OBVIOUS
<1> USE BatchCalls
<1>1. page \in BatchShown
  BY DEF BatchInv, BatchFits, Fits
<1>2. ASSUME NEW flag \in Batch!Flags PROVE Batch!Flagged(flag) \in BatchShown
  BY <1>1 DEF BatchShown, Batch!Flagged
<1>3. ASSUME NEW kind, NEW id \in Batches \cup {None}, NEW what \in Codes \cup Batch!Statuses \cup {"pending", None},
             \/ kind \in BatchOne \ {"status", "step"} /\ id \in Batches
             \/ kind = "status" /\ id \in Batches /\ what \in Batch!Statuses
             \/ kind = "step" /\ id \in Batches /\ what \in {"pending", "completed", None}
             \/ kind = "options"
             \/ kind = "create" /\ what \in Codes \cup {None},
             NEW p \in BatchShown, Batch!Does(kind, id, what, p)
      PROVE  BatchInv'
  <2> DEFINE arg == [id |-> id, what |-> what, filter |-> page.filter]
  <2>1. arg \in BatchArgs
    BY <1>1 DEF BatchArgs, BatchShown
  <2>2. Sent(kind, arg) \in BatchSends
    BY <1>3, <2>1, BatchNew
  <2>. QED
    BY <1>3, <2>2, BatchGives DEF Batch!Does, Batch!Command
<1>4. ASSUME NEW kind, NEW what \in Codes \cup Batch!Statuses \cup {"pending", None}, NEW p, NEW s,
             Batch!Shows(s), Batch!InDetail(kind, what, p)
      PROVE  page.detail \in BatchRead /\ page.detail.id \in Batches /\ Batch!Does(kind, page.detail.id, what, p)
  BY <1>1, <1>4 DEF Batch!InDetail, Batch!Shows, BatchShown, BatchRead
<1>5. ASSUME NEW f \in Batch!Filters, Batch!Filter(f) PROVE BatchInv'
  <2>1. [id |-> None, what |-> None, filter |-> f] \in BatchArgs
    BY DEF BatchArgs
  <2>2. [Batch!Flagged("list") EXCEPT !.filter = f] \in BatchShown
    BY <1>2 DEF BatchShown, Batch!Flags
  <2>. QED
    BY <1>5, <2>1, <2>2, BatchNew, BatchGives DEF Batch!Filter
<1>6. CASE Batch!OpenCreate
  BY <1>1, <1>3, <1>6 DEF Batch!OpenCreate
<1>7. ASSUME NEW k \in Codes, Batch!EnterCode(k) PROVE BatchInv'
  <2>1. [page EXCEPT !.form.code = k] \in BatchShown
    BY <1>1, <1>7 DEF BatchShown, Batch!EnterCode
  <2>. QED
    BY <1>7, <2>1, BatchTurns DEF Batch!EnterCode
<1>8. CASE Batch!HandleCreate
  <2>1. page.form.code \in Codes \cup {None}
    BY <1>1, <1>8 DEF Batch!HandleCreate, BatchShown
  <2>. QED
    BY <1>2, <1>3, <1>8, <2>1 DEF Batch!HandleCreate, Batch!Flags
<1>9. CASE Batch!CloseDialog
  <2>1. [page EXCEPT !.detail = None, !.form = None] \in BatchShown
    BY <1>1 DEF BatchShown
  <2>. QED
    BY <1>9, <2>1, BatchTurns DEF Batch!CloseDialog
<1>10. ASSUME NEW b \in Batches, Batch!OpenDetail(b) \/ Batch!DeleteBatch(b) \/ Batch!Download(b) PROVE BatchInv'
  <2>1. [Batch!Flagged("detail") EXCEPT !.detail = None] \in BatchShown
    BY <1>2 DEF BatchShown, Batch!Flags
  <2>. QED
    BY <1>1, <1>3, <1>10, <2>1 DEF Batch!OpenDetail, Batch!DeleteBatch, Batch!Download, BatchOne
<1>11. CASE Batch!UpdateBatchStatus
  BY <1>1, <1>3, <1>4, <1>11 DEF Batch!UpdateBatchStatus, Batch!Statuses
<1>12. CASE Batch!Seal \/ Batch!Verify \/ Batch!UploadPhoto \/ Batch!ApproveStep
  BY <1>1, <1>3, <1>4, <1>12 DEF Batch!Seal, Batch!Verify, Batch!UploadPhoto, Batch!ApproveStep, BatchOne
<1>13. CASE Batch!AssignMember
  BY <1>2, <1>3, <1>4, <1>13 DEF Batch!AssignMember, BatchOne, Batch!Flags
<1>14. CASE Batch!UpdateStep
  <2>1. PICK to \in {None, "pending", "completed"} :
          Batch!Shows(Batch!Open) /\ Batch!InDetail("step", to, page)
    BY <1>14 DEF Batch!UpdateStep
  <2>. QED
    BY <1>1, <1>3, <1>4, <2>1 DEF Batch!Statuses
<1>. QED
  BY <1>5, <1>6, <1>7, <1>8, <1>9, <1>10, <1>11, <1>12, <1>13, <1>14 DEF Batch!Starts

\* The handlers
LEMMA BatchAt ==
  ASSUME BatchInv, NEW c \in Calls, NEW kinds, NEW stage, Batch!At(c, kinds, stage)
  PROVE  /\ call[c] \in BatchSends /\ call[c].kind \in kinds /\ call[c].stage = stage
         /\ call \in Table(BatchSends) /\ server \in BatchStored
BY DEF BatchInv, BatchFits, Fits, Table, Batch!At

LEMMA BatchBecomes ==
  ASSUME BatchInv, NEW c \in Calls, call[c] \in BatchSends, NEW stage \in {"ok", "refused"},
         stage = "ok" => call[c].kind \notin {"list", "detail"},
         NEW s \in BatchStored, Batch!Becomes(c, stage, s)
  PROVE  BatchFits' /\ server' = s
<1> DEFINE k == [call[c] EXCEPT !.stage = stage]
<1>1. k \in BatchSends
  BY DEF BatchSends
<1>2. call' = [call EXCEPT ![c] = k] /\ server' = s /\ page' = page
  BY StageOf DEF Batch!Becomes, BatchInv, BatchFits, Fits
<1> HIDE DEF k
<1>. QED
  BY <1>1, <1>2, PageServes DEF BatchInv, BatchFits

LEMMA BatchRefused ==
  ASSUME BatchInv, NEW c \in Calls, call[c] \in BatchSends, Batch!Becomes(c, "refused", server)
  PROVE  BatchInv'
<1>1. server \in BatchStored
  BY DEF BatchInv, BatchFits, Fits
<1>. QED
  BY <1>1, BatchBecomes, BatchAside

LEMMA BatchInsertBatch == ASSUME BatchInv, NEW c \in Calls, Batch!InsertBatch(c) PROVE BatchInv'
<1>1. /\ call[c] \in BatchSends /\ call[c].kind = "create" /\ call[c].stage = "sent"
      /\ call \in Table(BatchSends) /\ server \in BatchStored
  BY BatchAt DEF Batch!InsertBatch
<1>2. CASE Batch!Becomes(c, "refused", server)
  BY <1>1, <1>2, BatchRefused
<1>3. CASE ~Batch!Becomes(c, "refused", server)
  <2> DEFINE code == call[c].arg.what
             row == Batch!Row(code, "draft", "none", FALSE, FALSE)
  <2>1. PICK b \in Batch!Absent :
          /\ call' = [call EXCEPT ![c].stage = "inserted", ![c].arg.id = b]
          /\ server' = [server EXCEPT ![b] = row] /\ page' = page /\ Batch!NewCode(code)
    <3>1. Batch!Absent # {} => (CHOOSE b \in Batch!Absent : TRUE) \in Batch!Absent
      OBVIOUS
    <3>. QED
      BY <1>3, <3>1 DEF Batch!InsertBatch
  <2>2. code \in Codes \cup {None}
    BY <1>1 DEF BatchSends
  <2>3. row \in Batch!Rows /\ row.code = code
    BY <2>2 DEF Batch!Row, Batch!Rows, Batch!Statuses
  <2> DEFINE k == [call[c] EXCEPT !.stage = "inserted", !.arg.id = b]
  <2>4. k \in BatchSends
    <3>1. [call[c].arg EXCEPT !.id = b] \in BatchArgs /\ [call[c].arg EXCEPT !.id = b].id = b
          /\ [call[c].arg EXCEPT !.id = b].what = code
      BY <1>1, <2>1 DEF BatchSends, BatchArgs, Batch!Absent
    <3> DEFINE arg == [call[c].arg EXCEPT !.id = b]
    <3>2. k = [call[c] EXCEPT !.stage = "inserted", !.arg = arg]
      BY <1>1 DEF BatchSends
    <3> HIDE DEF arg, code
    <3>3. arg \in BatchArgs /\ arg.id \in Batches /\ arg.what \in Codes \cup {None}
      BY <2>2, <3>1 DEF arg, Batch!Absent
    <3>4. [call[c] EXCEPT !.stage = "inserted", !.arg = arg] \in BatchSends
      BY <1>1, <3>3 DEF BatchSends, BatchOne
    <3>. QED
      BY <3>2, <3>4
  <2>5. call' = [call EXCEPT ![c] = k]
    BY <1>1, <2>1 DEF Table
  <2> HIDE DEF k, row, code
  <2>6. server' \in BatchStored /\ \A x \in Batches : server'[x] = IF x = b THEN row ELSE server[x]
    BY <1>1, <2>1, <2>3 DEF BatchStored, Batch!Absent
  <2>7. BatchFits'
    BY <2>1, <2>4, <2>5, <2>6, PageServes DEF BatchInv, BatchFits
  <2>8. Batch!CreatedOnce'
    BY <2>1, <2>3, <2>6 DEF Batch!CreatedOnce, Batch!Absent, Batch!NewCode, BatchInv
  <2>. QED
    BY <2>7, <2>8 DEF BatchInv
<1>. QED
  BY <1>2, <1>3

\* A row keeps its code as long as it is there.
LEMMA BatchKeeps ==
  ASSUME BatchInv, BatchFits',
         \A b \in Batches : server'[b] # None => server[b] # None /\ server'[b].code = server[b].code
  PROVE  BatchInv'
BY DEF BatchInv, Batch!CreatedOnce, Batch!Absent

LEMMA BatchInsertSteps == ASSUME BatchInv, NEW c \in Calls, Batch!InsertSteps(c) PROVE BatchInv'
<1>1. /\ call[c] \in BatchSends /\ call[c].kind = "create" /\ call[c].stage = "inserted"
      /\ call \in Table(BatchSends) /\ server \in BatchStored
  BY BatchAt DEF Batch!InsertSteps
<1>2. CASE Batch!Becomes(c, "refused", server)
  BY <1>1, <1>2, BatchRefused
<1>3. CASE ~Batch!Becomes(c, "refused", server)
  <2>1. PICK b \in Batches : server[b] # None /\ Batch!Becomes(c, "ok", [server EXCEPT ![b].step = "pending"])
    BY <1>1, <1>3 DEF Batch!InsertSteps, BatchSends
  <2> DEFINE row == [server[b] EXCEPT !.step = "pending"]
  <2>2. row \in Batch!Rows /\ row.code = server[b].code
    BY <1>1, <2>1 DEF BatchStored, Batch!Rows
  <2>3. [server EXCEPT ![b].step = "pending"] = [server EXCEPT ![b] = row]
    BY <1>1 DEF BatchStored
  <2> HIDE DEF row
  <2> DEFINE s == [server EXCEPT ![b] = row]
  <2>4. s \in BatchStored /\ \A x \in Batches : s[x] = IF x = b THEN row ELSE server[x]
    BY <1>1, <2>2 DEF BatchStored
  <2>5. Batch!Becomes(c, "ok", s)
    BY <2>1, <2>3
  <2> HIDE DEF s
  <2>6. BatchFits' /\ server' = s
    BY <1>1, <2>4, <2>5, BatchBecomes
  <2>. QED
    BY <2>1, <2>2, <2>4, <2>6, BatchKeeps
<1>. QED
  BY <1>2, <1>3

LEMMA BatchWrites == ASSUME BatchInv, NEW c \in Calls, Batch!Writes(c) PROVE BatchInv'
<1>1. /\ call[c] \in BatchSends /\ call[c].kind \in Batch!Writing /\ call[c].stage = "sent"
      /\ call \in Table(BatchSends) /\ server \in BatchStored
  BY BatchAt DEF Batch!Writes
<1>2. CASE Batch!Becomes(c, "refused", server)
  BY <1>1, <1>2, BatchRefused
<1>3. CASE ~Batch!Becomes(c, "refused", server)
  <2>1. PICK b \in Batches : Batch!Accepts(c, server[b])
                             /\ Batch!Becomes(c, "ok", [server EXCEPT ![b] = Batch!Changed(c, @)])
    BY <1>1, <1>3 DEF Batch!Writes, BatchSends, BatchOne, Batch!Writing
  <2>2. server[b] # None /\ server[b] \in Batch!Rows
    BY <1>1, <2>1 DEF Batch!Accepts, BatchStored
  <2>3. Batch!Changed(c, server[b]) \in Batch!Rows \cup {None}
        /\ (Batch!Changed(c, server[b]) # None => Batch!Changed(c, server[b]).code = server[b].code)
    BY <1>1, <2>2 DEF Batch!Changed, Batch!Rows, Batch!Statuses, BatchSends, Batch!Writing
  <2> DEFINE s == [server EXCEPT ![b] = Batch!Changed(c, server[b])]
  <2>4. s \in BatchStored /\ \A x \in Batches : s[x] = IF x = b THEN Batch!Changed(c, server[b]) ELSE server[x]
    BY <1>1, <2>3 DEF BatchStored
  <2>5. Batch!Becomes(c, "ok", s)
    BY <2>1
  <2> HIDE DEF s
  <2>6. BatchFits' /\ server' = s
    BY <1>1, <2>4, <2>5, BatchBecomes DEF Batch!Writing
  <2>. QED
    BY <2>2, <2>3, <2>4, <2>6, BatchKeeps
<1>. QED
  BY <1>2, <1>3

LEMMA BatchReads == ASSUME BatchInv, NEW c \in Calls, Batch!Reads(c) PROVE BatchInv'
<1>1. /\ call[c] \in BatchSends /\ call[c].kind \in {"list", "detail", "options", "file"} /\ call[c].stage = "sent"
      /\ call \in Table(BatchSends) /\ server \in BatchStored
  BY BatchAt DEF Batch!Reads
<1>2. CASE Batch!Becomes(c, "refused", server)
  BY <1>1, <1>2, BatchRefused
<1>3. CASE Batch!Becomes(c, "ok", server) /\ call[c].kind \in {"options", "file"}
  BY <1>1, <1>3, BatchBecomes, BatchAside
<1>4. ASSUME NEW answer, Answers(c, answer, server),
             \/ call[c].kind = "list" /\ answer \in SUBSET Batches
             \/ call[c].kind = "detail" /\ answer \in BatchRead
      PROVE  BatchInv'
  <2> DEFINE k == [call[c] EXCEPT !.stage = "ok", !.answer = answer]
  <2>1. k \in BatchSends
    <3>1. answer \in {None} \cup BatchRead \cup SUBSET Batches
      <4>1. answer \in SUBSET Batches \/ answer \in BatchRead
        BY <1>4
      <4> HIDE DEF k
      <4>. QED
        BY ONLY <4>1
    <3>2. k.kind = call[c].kind /\ k.stage = "ok" /\ k.arg = call[c].arg /\ k.answer = answer
      BY <1>1 DEF BatchSends
    <3>3. k \in [kind : BatchOne \cup {"list", "options", "create"}, arg : BatchArgs, live : BOOLEAN,
                 heard : BOOLEAN, stage : {"sent", "inserted", "ok", "refused"},
                 answer : {None} \cup BatchRead \cup SUBSET Batches]
      BY <1>1, <3>1 DEF BatchSends
    <3> HIDE DEF k
    <3>4. call[c].arg.id \in Batches \/ call[c].kind = "list"
      BY <1>1, <1>4 DEF BatchSends, BatchOne
    <3>. QED
      BY <1>4, <3>2, <3>3, <3>4 DEF BatchSends, BatchOne
  <2>2. call' = [call EXCEPT ![c] = k] /\ server' = server /\ page' = page
    BY Zenon, <1>1, <1>4, AnswerOf
  <2> HIDE DEF k
  <2>3. BatchFits'
    BY <1>1, <2>1, <2>2, PageServes DEF BatchInv, BatchFits
  <2>. QED
    BY <2>2, <2>3, BatchAside
<1>5. CASE call[c].kind = "list"
  <2>1. PICK answer \in SUBSET Batches : Answers(c, answer, server)
    BY <1>5, BatchCalls DEF Batch!Reads
  <2>. QED
    BY <1>4, <1>5, <2>1
<1>6. CASE call[c].kind = "detail" /\ server[call[c].arg.id] # None
  <2>1. [id |-> call[c].arg.id, row |-> server[call[c].arg.id]] \in BatchRead
    BY <1>1, <1>6 DEF BatchSends, BatchOne, BatchRead, BatchStored
  <2>2. Answers(c, [id |-> call[c].arg.id, row |-> server[call[c].arg.id]], server)
    BY <1>6, BatchCalls DEF Batch!Reads
  <2>. QED
    BY <1>4, <1>6, <2>1, <2>2
<1>. QED
  BY <1>1, <1>2, <1>3, <1>5, <1>6, BatchCalls DEF Batch!Reads

LEMMA BatchBreaksOff == ASSUME BatchInv, NEW c \in Calls, Batch!BreaksOff(c) PROVE BatchInv'
BY BatchAt, BatchRefused DEF Batch!BreaksOff

\* What follows an answer
LEMMA BatchContinues == ASSUME BatchInv, NEW c \in Calls, Batch!Continues(c) PROVE BatchInv'
<1>1. page \in BatchShown /\ call \in Table(BatchSends)
  BY DEF BatchInv, BatchFits, Fits
<1>2. call[c] # None /\ call[c] \in BatchSends
  BY <1>1, BatchCalls DEF Table, Arrived, Unheard, Batch!Continues, Batch!GotList, Batch!GotDetail,
     Batch!GotOptions, Batch!GotCreated, Batch!GotDeleted, Batch!GotChange, Batch!GotFile
<1>3. ASSUME NEW flag PROVE Batch!Without(flag) \in BatchShown
  BY <1>1 DEF BatchShown, Batch!Without
<1> DEFINE arg == [call[c].arg EXCEPT !.what = None]
<1>4. arg \in BatchArgs /\ arg.id = call[c].arg.id
  BY <1>2 DEF BatchSends, BatchArgs
<1>5. ASSUME NEW kind, kind = "list" \/ (kind = "detail" /\ call[c].arg.id \in Batches)
      PROVE  \E k \in BatchSends : Batch!Fetch(c, kind) = [call EXCEPT ![c] = k]
  <2> HIDE DEF arg
  <2>1. Sent(kind, arg) \in BatchSends
    BY <1>4, <1>5, BatchNew DEF BatchOne
  <2>. QED
    BY <2>1, BatchCalls DEF Batch!Fetch, arg
<1> HIDE DEF arg
<1>6. ASSUME NEW p \in BatchShown, Goes(Batch!Fetch(c, "list"), p) PROVE BatchInv'
  BY <1>5, <1>6, BatchGoes
<1>7. ASSUME NEW p \in BatchShown, Goes(Dropped(c), p) PROVE BatchInv'
  BY <1>7, BatchDrops
<1> USE BatchCalls
<1>8. CASE Batch!GotList(c)
  <2>1. Ok(c) => call[c].answer \in SUBSET Batches
    BY <1>2, <1>8 DEF Batch!GotList, Ok, BatchSends
  <2>2. Ok(c) => [Batch!Without("list") EXCEPT !.list = call[c].answer] \in BatchShown
    BY <1>3, <2>1 DEF BatchShown
  <2>. QED
    BY <1>3, <1>7, <1>8, <2>2 DEF Batch!GotList
<1>9. CASE Batch!GotDetail(c)
  <2>1. Ok(c) => call[c].answer \in BatchRead
    BY <1>2, <1>9 DEF Batch!GotDetail, Ok, BatchSends
  <2>2. Ok(c) => [Batch!Without("detail") EXCEPT !.detail = call[c].answer] \in BatchShown
    BY <1>3, <2>1 DEF BatchShown
  <2>. QED
    BY <1>3, <1>7, <1>9, <2>2 DEF Batch!GotDetail
<1>10. CASE Batch!GotOptions(c)
  <2>1. [page EXCEPT !.form = [code |-> None]] \in BatchShown
    BY <1>1 DEF BatchShown
  <2>. QED
    BY <1>1, <1>7, <1>10, <2>1 DEF Batch!GotOptions
<1>11. CASE Batch!GotCreated(c)
  <2>1. [Batch!Without("creating") EXCEPT !.form = None, !.busy = @ \cup {"list"}] \in BatchShown
    BY <1>3 DEF BatchShown, Batch!Flags
  <2>. QED
    BY <1>3, <1>6, <1>7, <1>11, <2>1 DEF Batch!GotCreated
<1>12. CASE Batch!GotDeleted(c)
  <2>1. Batch!Flagged("list") \in BatchShown
    BY <1>1 DEF BatchShown, Batch!Flagged, Batch!Flags
  <2>. QED
    BY <1>1, <1>6, <1>7, <1>12, <2>1 DEF Batch!GotDeleted
<1>13. CASE Batch!GotChange(c)
  <2>1. call[c].arg.id \in Batches
    BY <1>2, <1>13 DEF Batch!GotChange, BatchSends, BatchOne
  <2> DEFINE next == IF call[c].kind = "assign" THEN Batch!Without("assigning") ELSE page
             both == call[c].kind \in {"status", "step", "seal"}
  <2>0. next \in BatchShown /\ (Batch!Reopens(c, next, both) \/ Goes(Dropped(c), next))
    BY <1>1, <1>3, <1>13 DEF Batch!GotChange
  <2>2. PICK p \in BatchShown, alsoList \in BOOLEAN :
          Batch!Reopens(c, p, alsoList) \/ Goes(Dropped(c), p)
    <3>1. both \in BOOLEAN
      OBVIOUS
    <3> HIDE DEF next, both
    <3>. QED
      BY <2>0, <3>1
  <2> DEFINE shut == [p EXCEPT !.detail = None, !.busy = @ \cup {"detail"}]
  <2>3. shut \in BatchShown /\ [shut EXCEPT !.busy = @ \cup {"list"}] \in BatchShown
    BY DEF BatchShown, Batch!Flags
  <2>4. PICK k \in BatchSends : Batch!Fetch(c, "detail") = [call EXCEPT ![c] = k]
    BY <1>5, <2>1
  <2> DEFINE one == Batch!Fetch(c, "detail")
  <2>5. one \in Table(BatchSends)
    BY <1>1, <2>4 DEF Table
  <2>6. Sent("list", arg) \in BatchSends
    BY <1>4, BatchNew
  <2>7. \/ Goes(Dropped(c), p)
        \/ Goes(one, shut)
        \/ Free(one) # {} /\ Goes(Put(one, Sent("list", arg)), [shut EXCEPT !.busy = @ \cup {"list"}])
    BY <2>2 DEF Batch!Reopens, arg
  <2> HIDE DEF shut
  <2>8. CASE Goes(one, shut)
    BY <2>3, <2>4, <2>8, BatchGoes
  <2>9. CASE Free(one) # {} /\ Goes(Put(one, Sent("list", arg)), [shut EXCEPT !.busy = @ \cup {"list"}])
    <3> HIDE DEF one
    <3>1. Put(one, Sent("list", arg)) \in Table(BatchSends)
      BY <2>5, <2>6, <2>9, PutCall
    <3>2. BatchFits' /\ server' = server
      BY <2>3, <2>9, <3>1 DEF Goes, BatchFits, Fits, BatchInv
    <3>. QED
      BY <3>2, BatchAside
  <2>. QED
    BY <1>7, <2>7, <2>8, <2>9
<1>14. CASE Batch!GotFile(c)
  BY <1>1, <1>7, <1>14 DEF Batch!GotFile
<1>15. CASE Batch!Unheard(c)
  BY <1>1, <1>7, <1>15 DEF Unheard
<1>. QED
  BY <1>8, <1>9, <1>10, <1>11, <1>12, <1>13, <1>14, <1>15 DEF Batch!Continues

\* Whatever happens on the page.
LEMMA BatchNext == BatchInv /\ Batch!Next => BatchInv'
<1> SUFFICES ASSUME BatchInv, Batch!Next PROVE BatchInv'
  OBVIOUS
<1>1. ASSUME NEW c \in Calls, Batch!Serves(c) PROVE BatchInv'
  BY <1>1, BatchInsertBatch, BatchInsertSteps, BatchWrites, BatchReads DEF Batch!Serves
<1>2. ASSUME NEW c \in Calls, Batch!Refuses(c) \/ Batch!Loses(c) PROVE BatchInv'
  BY <1>2, BatchCalls, BatchLasting, PageRefuses, PageLoses, BatchAside DEF BatchInv, BatchFits
<1>. QED
  BY <1>1, <1>2, BatchStarts, BatchBreaksOff, BatchContinues DEF Batch!Next

\* What is checked of the page follows.
LEMMA BatchHolds == BatchInv => Batch!TypeOK /\ Batch!CreatedOnce
BY DEF BatchInv, BatchFits, Fits, BatchShown, BatchStored, BatchRead, Batch!TypeOK

-----------------------------------------------------------------------------
\* The planning of audits: calls and page are of one place, which stays.

\* Planning deals with its calls as PageCalls says.
LEMMA PlanningCalls ==
  /\ \A kind, arg : Planning!Sent(kind, arg) = Sent(kind, arg)
  /\ \A calls : Planning!Free(calls) = Free(calls)
  /\ \A calls, k : Planning!Put(calls, k) = Put(calls, k)
  /\ \A calls, kinds : Planning!Ignored(calls, kinds) = Ignored(calls, kinds)
  /\ Planning!Unmounted = Unmounted
  /\ \A c : Planning!Dropped(c) = Dropped(c)
  /\ \A calls, k, p : Planning!Gives(calls, k, p) <=> Gives(calls, k, p)
  /\ \A p : Planning!Turns(p) <=> Turns(p)
  /\ \A calls, p : Planning!Goes(calls, p) <=> Goes(calls, p)
  /\ \A c : (Planning!Arrived(c) <=> Arrived(c)) /\ (Planning!Ok(c) <=> Ok(c))
  /\ \A c, result, s : Planning!Answers(c, result, s) <=> Answers(c, result, s)
  /\ \A c : (Planning!Refuses(c) <=> Refuses(c)) /\ (Planning!Loses(c) <=> Loses(c))
  /\ \A c : Planning!Unheard(c) <=> Unheard(c)
BY DEF Sent, Planning!Sent, Free, Planning!Free, Put, Planning!Put, Ignored, Planning!Ignored, Unmounted, Planning!Unmounted,
       Dropped, Planning!Dropped, Gives, Planning!Gives, Turns, Planning!Turns, Goes, Planning!Goes, Arrived, Planning!Arrived,
       Ok, Planning!Ok, Answers, Planning!Answers, Refuses, Planning!Refuses, Loses, Planning!Loses, Unheard, Planning!Unheard

Places == {"checklists", "visits"}
PlanningRows(place) == IF place = "visits" THEN Visits ELSE Checklists

\* At one of its two pages, whose list is the only one awaited there.
PlanningSends(place) ==
  {k \in [kind : Places \cup {"save", "delete", "seed", "options", "create", "assign"},
          arg : Checklists \cup Visits \cup {None}, live : BOOLEAN, heard : BOOLEAN,
          stage : {"sent", "ok", "refused"}, answer : {None} \cup SUBSET (Checklists \cup Visits)] :
     /\ k.kind = "save" => k.arg \in Checklists \cup {None}
     /\ k.kind = "delete" => k.arg \in Checklists
     /\ k.kind \in Places /\ k.stage = "ok" => k.answer \in SUBSET PlanningRows(k.kind)
     /\ k.kind \in Places /\ k.heard => k.kind = place}

PlanningShown(place) ==
  {p \in [place : {place}, rows : SUBSET PlanningRows(place), dialog : Planning!Dialogs,
          edit : Checklists \cup Visits \cup {None}, busy : SUBSET Planning!Flags] :
     /\ p.dialog = "checklist" => p.edit \in Checklists \cup {None}
     /\ p.dialog = "assignment" => p.edit \in Visits}

PlanningStored == [Checklists -> Planning!Details \cup {None}]
PlanningFits(place) == Fits(PlanningSends(place), PlanningShown(place), PlanningStored)
PlanningInv == \E place \in Places : PlanningFits(place)

\* Calls of the page may be refused, ignored, or left by whoever awaited them.
LEMMA PlanningLasting == ASSUME NEW place \in Places PROVE Lasting(PlanningSends(place))
<1> SUFFICES ASSUME NEW k \in PlanningSends(place)
             PROVE  /\ [k EXCEPT !.stage = "refused"] \in PlanningSends(place)
                    /\ [k EXCEPT !.heard = FALSE] \in PlanningSends(place)
                    /\ [k EXCEPT !.live = FALSE] \in PlanningSends(place)
  BY Zenon DEF Lasting
<1>1. [k EXCEPT !.stage = "refused"] \in PlanningSends(place)
  BY DEF PlanningSends
<1>2. [k EXCEPT !.heard = FALSE] \in PlanningSends(place)
  BY DEF PlanningSends
<1>3. [k EXCEPT !.live = FALSE] \in PlanningSends(place)
  BY DEF PlanningSends
<1>. QED
  BY <1>1, <1>2, <1>3

\* What the page sends is one of its calls.
LEMMA PlanningNew ==
  ASSUME NEW place \in Places, NEW kind, NEW arg \in Checklists \cup Visits \cup {None},
         \/ kind \in {"seed", "options", "create", "assign", place}
         \/ kind = "save" /\ arg \in Checklists \cup {None}
         \/ kind = "delete" /\ arg \in Checklists
  PROVE  Sent(kind, arg) \in PlanningSends(place)
BY DEF Sent, PlanningSends, Places

LEMMA PlanningMounted == ASSUME NEW place \in Places PROVE Planning!Mounted(place) \in PlanningShown(place)
BY NothingAssumption DEF PlanningShown, Planning!Mounted, Planning!Dialogs, Planning!Flags

\* The page as it is first seen.
LEMMA PlanningInit == Planning!Init => PlanningInv
<1> SUFFICES ASSUME Planning!Init PROVE PlanningInv
  OBVIOUS
<1>1. call = [c \in Calls |-> None]
  BY DEF Planning!Init
<1>2. \A place \in Places : call \in Table(PlanningSends(place))
  BY <1>1 DEF Table
<1>3. PICK there \in {{}, {CHOOSE t \in Checklists : TRUE}} :
        /\ server = [t \in Checklists |-> IF t \in there THEN "detailed" ELSE None]
        /\ \/ page = [Planning!Mounted("checklists") EXCEPT !.rows = there, !.busy = {}]
           \/ page = [Planning!Mounted("visits") EXCEPT !.rows = Visits, !.busy = {}]
  BY DEF Planning!Init
<1>4. server \in PlanningStored
  BY <1>3 DEF PlanningStored, Planning!Details
<1>5. there \in SUBSET Checklists
  BY <1>3, SomeAssumption
<1>6. /\ [Planning!Mounted("checklists") EXCEPT !.rows = there, !.busy = {}] \in PlanningShown("checklists")
      /\ [Planning!Mounted("visits") EXCEPT !.rows = Visits, !.busy = {}] \in PlanningShown("visits")
  BY <1>5, NothingAssumption DEF PlanningShown, Planning!Mounted, Planning!Dialogs, Planning!Flags, PlanningRows
<1>. QED
  BY <1>2, <1>3, <1>4, <1>6 DEF PlanningInv, PlanningFits, Fits, Places

\* The pages
LEMMA PlanningNavigates ==
  ASSUME NEW place \in Places, PlanningFits(place), NEW to \in Places, Planning!Navigate(to) PROVE PlanningFits(to)'
<1>1. /\ Free(call) # {} /\ call' = Put(Unmounted, Sent(to, None))
      /\ page' = Planning!Mounted(to) /\ server' = server
  BY PlanningCalls DEF Planning!Navigate
<1>2. call \in Table(PlanningSends(place)) /\ server \in PlanningStored
  BY DEF PlanningFits, Fits
<1>3. /\ Unmounted \in Table(PlanningSends(place))
      /\ \A x \in Calls : \/ call[x] = None /\ Unmounted[x] = None
                          \/ call[x] # None /\ call[x] \in PlanningSends(place) /\ Unmounted[x] = [call[x] EXCEPT !.heard = FALSE]
  BY <1>2, PlanningLasting, UnmountedCalls
<1>4. ASSUME NEW k \in PlanningSends(place) PROVE [k EXCEPT !.heard = FALSE] \in PlanningSends(to)
  BY DEF PlanningSends
<1>5. Unmounted \in Table(PlanningSends(to))
  <2>1. \A x \in Calls : Unmounted[x] \in PlanningSends(to) \cup {None}
    BY <1>3, <1>4
  <2>. QED
    BY <1>3, <2>1 DEF Table
<1>6. Free(Unmounted) # {}
  BY <1>1, <1>3 DEF Free
<1>7. call' \in Table(PlanningSends(to))
  BY <1>1, <1>5, <1>6, PlanningNew, PutCall
<1>. QED
  BY <1>1, <1>2, <1>7, PlanningMounted DEF PlanningFits, Fits

LEMMA PlanningStarts == PlanningInv /\ Planning!Starts => PlanningInv'
<1> SUFFICES ASSUME NEW place \in Places, PlanningFits(place), Planning!Starts
             PROVE  \E at1 \in Places : PlanningFits(at1)'
  BY DEF PlanningInv
<1>1. ASSUME NEW to \in Places, Planning!Navigate(to) PROVE \E at1 \in Places : PlanningFits(at1)'
  BY <1>1, PlanningNavigates
<1> USE PlanningCalls DEF Planning!Does
<1>2. page \in PlanningShown(place)
  BY DEF PlanningFits, Fits
<1>3. ASSUME NEW p \in PlanningShown(place), Turns(p) PROVE PlanningFits(place)'
  BY <1>3, PageTurns DEF PlanningFits
<1>4. ASSUME NEW k \in PlanningSends(place), NEW p \in PlanningShown(place), Gives(call, k, p)
      PROVE  PlanningFits(place)'
  BY <1>4, PageGives DEF PlanningFits
<1>5. ASSUME NEW flag \in Planning!Flags PROVE Planning!Flagged(flag) \in PlanningShown(place)
  BY <1>2 DEF PlanningShown, Planning!Flagged
<1>6. CASE Planning!OpenCreate
  <2>1. [page EXCEPT !.dialog = "checklist", !.edit = None] \in PlanningShown(place)
    BY <1>2 DEF PlanningShown, Planning!Dialogs
  <2>. QED
    BY <1>3, <1>6, <2>1 DEF Planning!OpenCreate
<1>7. ASSUME NEW t \in Checklists, Planning!OpenEdit(t) PROVE PlanningFits(place)'
  <2>1. [page EXCEPT !.dialog = "checklist", !.edit = t] \in PlanningShown(place)
    BY <1>2 DEF PlanningShown, Planning!Dialogs
  <2>. QED
    BY <1>3, <1>7, <2>1 DEF Planning!OpenEdit
<1>8. CASE Planning!HandleSave
  <2>1. page.edit \in Checklists \cup {None}
    BY <1>2, <1>8 DEF PlanningShown, Planning!HandleSave
  <2>. QED
    BY <1>4, <1>5, <1>8, <2>1, PlanningNew DEF Planning!HandleSave, Planning!Flags
<1>9. ASSUME NEW t \in Checklists, Planning!HandleDelete(t) PROVE PlanningFits(place)'
  BY <1>2, <1>4, <1>9, PlanningNew DEF Planning!HandleDelete
<1>10. CASE Planning!HandleSeedDefault
  BY <1>4, <1>5, <1>10, PlanningNew DEF Planning!HandleSeedDefault, Planning!Flags
<1>11. CASE Planning!OpenVisit
  <2>1. [page EXCEPT !.dialog = "visit"] \in PlanningShown(place)
    BY <1>2 DEF PlanningShown, Planning!Dialogs
  <2>. QED
    BY <1>4, <1>11, <2>1, PlanningNew DEF Planning!OpenVisit
<1>12. CASE Planning!HandleCreate
  BY <1>4, <1>5, <1>12, PlanningNew DEF Planning!HandleCreate, Planning!Flags
<1>13. ASSUME NEW v \in Visits, Planning!OpenAssignment(v) PROVE PlanningFits(place)'
  <2>1. [page EXCEPT !.dialog = "assignment", !.edit = v] \in PlanningShown(place)
    BY <1>2 DEF PlanningShown, Planning!Dialogs
  <2>. QED
    BY <1>4, <1>13, <2>1, PlanningNew DEF Planning!OpenAssignment
<1>14. CASE Planning!HandleAssign
  <2>1. page.edit \in Visits
    BY <1>2, <1>14 DEF PlanningShown, Planning!HandleAssign
  <2>. QED
    BY <1>4, <1>5, <1>14, <2>1, PlanningNew DEF Planning!HandleAssign, Planning!Flags
<1>15. CASE Planning!CloseDialog
  <2>1. [page EXCEPT !.dialog = None, !.edit = None] \in PlanningShown(place)
    BY <1>2, NothingAssumption DEF PlanningShown, Planning!Dialogs
  <2>. QED
    BY <1>3, <1>15, <2>1 DEF Planning!CloseDialog
<1>. QED
  BY <1>1, <1>6, <1>7, <1>8, <1>9, <1>10, <1>11, <1>12, <1>13, <1>14, <1>15 DEF Planning!Starts, Places

\* The handlers
LEMMA PlanningServes ==
  ASSUME NEW place \in Places, PlanningFits(place), NEW c \in Calls, Planning!Serves(c) PROVE PlanningFits(place)'
<1>1. call \in Table(PlanningSends(place)) /\ server \in PlanningStored
  BY DEF PlanningFits, Fits
<1>2. call[c] # None /\ call[c] \in PlanningSends(place)
  BY <1>1, PlanningCalls DEF Table, Planning!Serves, Planning!CreateTemplate, Planning!UpdateTemplate,
     Planning!DeleteTemplate, Planning!CreateVisit, Planning!AssignVisit, Planning!Reads, Planning!At
<1>3. ASSUME NEW stage \in {"ok", "refused"}, call[c].kind \notin Places, NEW s \in PlanningStored,
             Planning!Becomes(c, stage, s)
      PROVE  PlanningFits(place)'
  <2> DEFINE k == [call[c] EXCEPT !.stage = stage]
  <2>1. k \in PlanningSends(place)
    BY <1>2, <1>3 DEF PlanningSends
  <2>2. call' = [call EXCEPT ![c] = k] /\ server' = s /\ page' = page
    BY <1>1, <1>3, StageOf DEF Planning!Becomes
  <2> HIDE DEF k
  <2>. QED
    BY <2>1, <2>2, PageServes DEF PlanningFits
<1>4. ASSUME NEW detail \in Planning!Details, call[c].kind \notin Places, Planning!Inserts(c, detail)
      PROVE  PlanningFits(place)'
  <2>1. \A t : [server EXCEPT ![t] = detail] \in PlanningStored
    BY <1>1 DEF PlanningStored
  <2>. QED
    BY <1>1, <1>3, <1>4, <2>1 DEF Planning!Inserts
<1>5. CASE Planning!CreateTemplate(c)
  BY <1>4, <1>5 DEF Planning!CreateTemplate, Planning!At, Planning!Details, Places
<1>6. CASE Planning!UpdateTemplate(c)
  <2>1. [t \in Checklists |-> IF t = call[c].arg /\ t \in Planning!Stored THEN "plain" ELSE server[t]] \in PlanningStored
    BY <1>1 DEF PlanningStored, Planning!Details
  <2>. QED
    BY <1>3, <1>6, <2>1 DEF Planning!UpdateTemplate, Planning!At, Places
<1>7. CASE Planning!DeleteTemplate(c)
  <2>1. [server EXCEPT ![call[c].arg] = None] \in PlanningStored
    BY <1>1 DEF PlanningStored
  <2>. QED
    BY <1>3, <1>7, <2>1 DEF Planning!DeleteTemplate, Planning!At, Places
<1>8. CASE Planning!CreateVisit(c) \/ Planning!AssignVisit(c)
  BY <1>8, PlanningCalls, PlanningLasting, PageRefuses DEF Planning!CreateVisit, Planning!AssignVisit, PlanningFits
<1>9. CASE Planning!Reads(c)
  <2>1. PICK answer \in SUBSET (Checklists \cup Visits) :
          /\ Answers(c, answer, server)
          /\ answer = IF call[c].kind = "checklists" THEN Planning!Stored ELSE Visits
    BY <1>9, PlanningCalls DEF Planning!Reads, Planning!Stored
  <2> DEFINE k == [call[c] EXCEPT !.stage = "ok", !.answer = answer]
  <2>4. call[c].kind \in Places => answer \in SUBSET PlanningRows(call[c].kind)
    BY <2>1 DEF PlanningRows, Places, Planning!Stored
  <2>2. k \in PlanningSends(place)
    BY Zenon, <1>2, <2>1, <2>4 DEF PlanningSends
  <2>3. call' = [call EXCEPT ![c] = k] /\ server' = server /\ page' = page
    BY Zenon, <1>1, <2>1, AnswerOf
  <2> HIDE DEF k
  <2>. QED
    BY <1>1, <2>2, <2>3, PageServes DEF PlanningFits
<1>. QED
  BY <1>5, <1>6, <1>7, <1>8, <1>9 DEF Planning!Serves

LEMMA PlanningContinues ==
  ASSUME NEW place \in Places, PlanningFits(place), NEW c \in Calls, Planning!Continues(c) PROVE PlanningFits(place)'
<1>1. page \in PlanningShown(place) /\ call \in Table(PlanningSends(place)) /\ page.place = place
  BY DEF PlanningFits, Fits, PlanningShown
<1>2. call[c] # None /\ call[c] \in PlanningSends(place)
  BY <1>1, PlanningCalls DEF Table, Arrived, Unheard, Planning!Continues, Planning!GotRows, Planning!GotOptions,
     Planning!GotSaved, Planning!GotSeeded, Planning!GotDeleted, Planning!GotAssigned, Planning!GotCreated
<1>3. ASSUME NEW flag PROVE Planning!Without(flag) \in PlanningShown(place)
  BY <1>1 DEF PlanningShown, Planning!Without
<1>4. ASSUME NEW p \in PlanningShown(place), Goes(Dropped(c), p) PROVE PlanningFits(place)'
  BY <1>4, PageDrops DEF PlanningFits
<1> USE PlanningCalls
<1>5. ASSUME NEW p \in PlanningShown(place), Planning!Refetch(c, p) PROVE PlanningFits(place)'
  <2>1. [p EXCEPT !.busy = @ \cup {"fetching"}] \in PlanningShown(place)
    BY DEF PlanningShown, Planning!Flags
  <2>2. Sent(page.place, None) \in PlanningSends(place)
    BY <1>1, PlanningNew
  <2>. QED
    BY <1>5, <2>1, <2>2, PageGoes DEF Planning!Refetch, PlanningFits
<1>6. ASSUME NEW p \in PlanningShown(place) PROVE [p EXCEPT !.dialog = None, !.edit = None] \in PlanningShown(place)
  BY NothingAssumption DEF PlanningShown, Planning!Dialogs
<1>7. CASE Planning!GotRows(c)
  <2>1. Ok(c) => call[c].answer \in SUBSET PlanningRows(place)
    BY <1>2, <1>7 DEF Planning!GotRows, Ok, Arrived, PlanningSends, Places
  <2>2. Ok(c) => [Planning!Without("fetching") EXCEPT !.rows = call[c].answer] \in PlanningShown(place)
    BY <1>3, <2>1 DEF PlanningShown
  <2>. QED
    BY <1>3, <1>4, <1>7, <2>2 DEF Planning!GotRows
<1>8. CASE Planning!GotOptions(c)
  BY <1>1, <1>4, <1>8 DEF Planning!GotOptions
<1>9. CASE Planning!GotSaved(c)
  BY Zenon, <1>3, <1>4, <1>5, <1>6, <1>9 DEF Planning!GotSaved
<1>10. CASE Planning!GotSeeded(c)
  BY <1>3, <1>4, <1>5, <1>10 DEF Planning!GotSeeded
<1>11. CASE Planning!GotDeleted(c)
  BY <1>1, <1>4, <1>5, <1>11 DEF Planning!GotDeleted
<1>12. CASE Planning!GotAssigned(c)
  BY Zenon, <1>3, <1>4, <1>5, <1>6, <1>12 DEF Planning!GotAssigned
<1>13. CASE Planning!GotCreated(c)
  BY <1>3, <1>4, <1>13 DEF Planning!GotCreated
<1>14. CASE Planning!Unheard(c)
  BY <1>1, <1>4, <1>14 DEF Unheard
<1>. QED
  BY <1>7, <1>8, <1>9, <1>10, <1>11, <1>12, <1>13, <1>14 DEF Planning!Continues

\* Whatever happens on the page.
LEMMA PlanningNext == PlanningInv /\ Planning!Next => PlanningInv'
<1> SUFFICES ASSUME NEW place \in Places, PlanningFits(place), Planning!Next PROVE PlanningInv'
  BY DEF PlanningInv
<1>1. PlanningInv
  BY DEF PlanningInv
<1>2. ASSUME NEW c \in Calls, Planning!Refuses(c) \/ Planning!Loses(c) PROVE PlanningFits(place)'
  BY <1>2, PlanningCalls, PlanningLasting, PageRefuses, PageLoses DEF PlanningFits
<1>3. PlanningFits(place)' => PlanningInv'
  BY DEF PlanningInv
<1>. QED
  BY <1>1, <1>2, <1>3, PlanningStarts, PlanningServes, PlanningContinues DEF Planning!Next

\* What is checked of the page follows.
LEMMA PlanningHolds == PlanningInv => Planning!TypeOK
BY DEF PlanningInv, PlanningFits, Fits, PlanningShown, PlanningStored, PlanningRows, Planning!TypeOK

-----------------------------------------------------------------------------
\* The visit: from the report on, what it was made of no longer changes.

\* Visit deals with its calls as PageCalls says.
LEMMA VisitCalls ==
  /\ \A kind, arg : Visit!Sent(kind, arg) = Sent(kind, arg)
  /\ \A calls : Visit!Free(calls) = Free(calls)
  /\ \A calls, k : Visit!Put(calls, k) = Put(calls, k)
  /\ \A calls, kinds : Visit!Ignored(calls, kinds) = Ignored(calls, kinds)
  /\ Visit!Unmounted = Unmounted
  /\ \A c : Visit!Dropped(c) = Dropped(c)
  /\ \A calls, k, p : Visit!Gives(calls, k, p) <=> Gives(calls, k, p)
  /\ \A p : Visit!Turns(p) <=> Turns(p)
  /\ \A calls, p : Visit!Goes(calls, p) <=> Goes(calls, p)
  /\ \A c : (Visit!Arrived(c) <=> Arrived(c)) /\ (Visit!Ok(c) <=> Ok(c))
  /\ \A c, result, s : Visit!Answers(c, result, s) <=> Answers(c, result, s)
  /\ \A c : (Visit!Refuses(c) <=> Refuses(c)) /\ (Visit!Loses(c) <=> Loses(c))
  /\ \A c : Visit!Unheard(c) <=> Unheard(c)
BY DEF Sent, Visit!Sent, Free, Visit!Free, Put, Visit!Put, Ignored, Visit!Ignored, Unmounted, Visit!Unmounted,
       Dropped, Visit!Dropped, Gives, Visit!Gives, Turns, Visit!Turns, Goes, Visit!Goes, Arrived, Visit!Arrived,
       Ok, Visit!Ok, Answers, Visit!Answers, Refuses, Visit!Refuses, Loses, Visit!Loses, Unheard, Visit!Unheard

VisitItems == [Items -> Visit!Checks \cup {None}]
VisitRead == [visit : Visit!Statuses, items : VisitItems]
VisitEntries == [id : Items, to : {"given", "typed"}]
VisitPlain == {"visit", "evidence", "add", "addNcr", "populate", "report", "decision"}

VisitSends ==
  {k \in [kind : VisitPlain \cup {"status", "result", "text", "delete"},
          arg : {None} \cup Visit!Statuses \cup Items \cup VisitEntries, live : BOOLEAN, heard : BOOLEAN,
          stage : {"sent", "ok", "refused"}, answer : {None} \cup VisitRead] :
     /\ k.kind = "status" => k.arg \in {"in_progress", "completed"}
     /\ k.kind = "result" => k.arg \in VisitEntries /\ k.arg.to = "given"
     /\ k.kind = "text" => k.arg \in VisitEntries /\ k.arg.to = "typed"
     /\ k.kind = "delete" => k.arg \in Items
     /\ k.kind = "visit" /\ k.stage = "ok" => k.answer \in VisitRead}

VisitMounted ==
  [visit : Visit!Statuses \cup {None}, items : VisitItems, fetching : BOOLEAN, error : BOOLEAN, form : BOOLEAN]
VisitShown == [shown : VisitMounted, owner : BOOLEAN, timers : [Items -> Visit!Texts]]

\* A visit is reported when its report is there, which says what is there.
VisitStored ==
  {s \in [status : Visit!Statuses, items : VisitItems, more : BOOLEAN,
          report : {None} \cup [items : VisitItems, more : BOOLEAN]] :
     s.report # None => /\ s.status \in {"report_submitted", "report_accepted"}
                        /\ s.report = [items |-> s.items, more |-> s.more]}

VisitInv == Fits(VisitSends, VisitShown, VisitStored)

\* Calls of the page may be refused, ignored, or left by whoever awaited them.
LEMMA VisitLasting == Lasting(VisitSends)
<1> SUFFICES ASSUME NEW k \in VisitSends
             PROVE  /\ [k EXCEPT !.stage = "refused"] \in VisitSends
                    /\ [k EXCEPT !.heard = FALSE] \in VisitSends
                    /\ [k EXCEPT !.live = FALSE] \in VisitSends
  BY Zenon DEF Lasting
<1>1. [k EXCEPT !.stage = "refused"] \in VisitSends
  BY DEF VisitSends
<1>2. [k EXCEPT !.heard = FALSE] \in VisitSends
  BY DEF VisitSends
<1>3. [k EXCEPT !.live = FALSE] \in VisitSends
  BY DEF VisitSends
<1>. QED
  BY <1>1, <1>2, <1>3

\* What the page sends is one of its calls.
LEMMA VisitNew ==
  ASSUME NEW kind, NEW arg,
         \/ kind \in VisitPlain /\ arg = None
         \/ kind = "status" /\ arg \in {"in_progress", "completed"}
         \/ kind = "result" /\ arg \in VisitEntries /\ arg.to = "given"
         \/ kind = "text" /\ arg \in VisitEntries /\ arg.to = "typed"
         \/ kind = "delete" /\ arg \in Items
  PROVE  Sent(kind, arg) \in VisitSends
BY DEF Sent, VisitSends, VisitPlain, Visit!Statuses

LEMMA VisitBlank == Visit!Blank \in Visit!Checks
BY DEF Visit!Blank, Visit!Checks, Visit!Results, Visit!Texts

\* The page as it is first seen.
LEMMA VisitInit == Visit!Init => VisitInv
<1> SUFFICES ASSUME Visit!Init PROVE VisitInv
  OBVIOUS
<1>1. call \in Table(VisitSends)
  BY DEF Visit!Init, Table
<1> DEFINE items == [i \in Items |-> IF i = CHOOSE x \in Items : TRUE THEN Visit!Blank ELSE None]
           shown == [Visit!Mounted EXCEPT !.visit = "scheduled", !.items = items, !.fetching = FALSE]
<1>2. PICK owner \in BOOLEAN :
        /\ server = [status |-> "scheduled", items |-> items, more |-> FALSE, report |-> None]
        /\ page = [shown |-> shown, owner |-> owner, timers |-> [i \in Items |-> None]]
  BY Zenon DEF Visit!Init
<1>3. items \in VisitItems
  BY VisitBlank DEF VisitItems
<1> HIDE DEF items
<1>4. shown \in VisitMounted
  BY <1>3 DEF Visit!Mounted, VisitMounted, Visit!Statuses
<1> HIDE DEF shown
<1>5. page \in VisitShown
  BY <1>2, <1>4 DEF VisitShown, Visit!Texts
<1>6. server \in VisitStored
  BY <1>2, <1>3 DEF VisitStored, Visit!Statuses
<1>. QED
  BY <1>1, <1>5, <1>6 DEF VisitInv, Fits

\* The page
LEMMA VisitStarts == VisitInv /\ Visit!Starts => VisitInv'
<1> SUFFICES ASSUME VisitInv, Visit!Starts PROVE VisitInv'
  OBVIOUS
<1> USE VisitCalls DEF Visit!Does
<1>1. page \in VisitShown /\ call \in Table(VisitSends) /\ server \in VisitStored /\ page.shown \in VisitMounted
  BY DEF VisitInv, Fits, VisitShown
<1>2. ASSUME NEW p \in VisitShown, Turns(p) PROVE VisitInv'
  BY <1>2, PageTurns DEF VisitInv
<1>3. ASSUME NEW k \in VisitSends, NEW p \in VisitShown, Gives(call, k, p) PROVE VisitInv'
  BY <1>3, PageGives DEF VisitInv
<1>4. ASSUME NEW i \in Items, Visit!UpdateItemField(i) PROVE VisitInv'
  <2> DEFINE check == [page.shown.items[i] EXCEPT !.text = "typed"]
             items == [page.shown.items EXCEPT ![i] = check]
             shown == [page.shown EXCEPT !.items = items]
             timers == [page.timers EXCEPT ![i] = "typed"]
  <2>1. page' = [page EXCEPT !.shown.items[i].text = "typed", !.timers[i] = "typed"]
        /\ server' = server /\ call' = call
    BY <1>4 DEF Visit!UpdateItemField
  <2>2. page.shown.items[i] \in Visit!Checks
    BY <1>1, <1>4 DEF Visit!UpdateItemField, Visit!Listed, VisitMounted, VisitItems
  <2>3. check \in Visit!Checks
    BY <2>2 DEF Visit!Checks, Visit!Texts
  <2> HIDE DEF check
  <2>4. items \in VisitItems
    BY <1>1, <2>3 DEF VisitItems, VisitMounted
  <2> HIDE DEF items
  <2>5. shown \in VisitMounted
    BY <1>1, <2>4 DEF VisitMounted
  <2>6. timers \in [Items -> Visit!Texts]
    BY <1>1 DEF VisitShown, Visit!Texts
  <2>7. page' = [page EXCEPT !.shown = shown, !.timers = timers]
    BY <1>1, <2>1 DEF VisitShown, VisitMounted, VisitItems, items, check
  <2> HIDE DEF shown, timers
  <2>8. page' \in VisitShown
    BY <1>1, <2>5, <2>6, <2>7 DEF VisitShown
  <2>. QED
    BY <1>1, <2>1, <2>8 DEF VisitInv, Fits
<1>5. ASSUME NEW i \in Items, Visit!SetItemResult(i) PROVE VisitInv'
  <2> DEFINE check == [page.shown.items[i] EXCEPT !.result = "given"]
             items == [page.shown.items EXCEPT ![i] = check]
             shown == [page.shown EXCEPT !.items = items]
             p == [page EXCEPT !.shown.items[i].result = "given"]
  <2>1. page.shown.items[i] \in Visit!Checks
    BY <1>1, <1>5 DEF Visit!SetItemResult, Visit!Listed, VisitMounted, VisitItems
  <2>2. check \in Visit!Checks
    BY <2>1 DEF Visit!Checks, Visit!Results
  <2> HIDE DEF check
  <2>3. items \in VisitItems
    BY <1>1, <2>2 DEF VisitItems, VisitMounted
  <2> HIDE DEF items
  <2>4. shown \in VisitMounted
    BY <1>1, <2>3 DEF VisitMounted
  <2>5. p = [page EXCEPT !.shown = shown]
    BY <1>1 DEF VisitShown, VisitMounted, VisitItems, items, check
  <2> HIDE DEF shown
  <2>6. p \in VisitShown
    BY <1>1, <2>4, <2>5 DEF VisitShown
  <2> HIDE DEF p
  <2>7. [id |-> i, to |-> "given"] \in VisitEntries /\ [id |-> i, to |-> "given"].to = "given"
    BY DEF VisitEntries
  <2>8. Gives(call, Sent("result", [id |-> i, to |-> "given"]), p)
    BY <1>5 DEF Visit!SetItemResult, p
  <2>9. Sent("result", [id |-> i, to |-> "given"]) \in VisitSends
    BY <2>7, VisitNew
  <2>. QED
    BY <1>3, <2>6, <2>8, <2>9
<1>6. ASSUME NEW i \in Items, Visit!DeleteItem(i) \/ Visit!UploadItemPhoto(i) PROVE VisitInv'
  BY <1>1, <1>3, <1>6, VisitNew DEF Visit!DeleteItem, Visit!UploadItemPhoto, VisitPlain
<1>7. CASE Visit!Return
  <2>1. Free(call) # {} /\ call' = Put(Unmounted, Sent("visit", None))
        /\ page' = [page EXCEPT !.shown = Visit!Mounted] /\ server' = server
    BY <1>7 DEF Visit!Return
  <2>2. Unmounted \in Table(VisitSends) /\ Free(Unmounted) # {}
    BY <1>1, <2>1, VisitLasting, UnmountedCalls DEF Free
  <2>3. Sent("visit", None) \in VisitSends
    BY VisitNew DEF VisitPlain
  <2>4. call' \in Table(VisitSends)
    BY <2>1, <2>2, <2>3, PutCall
  <2>5. Visit!Mounted \in VisitMounted
    BY DEF Visit!Mounted, VisitMounted, VisitItems
  <2>6. page' \in VisitShown
    BY <1>1, <2>1, <2>5 DEF VisitShown
  <2>. QED
    BY <1>1, <2>1, <2>4, <2>6 DEF VisitInv, Fits
<1>8. CASE Visit!UpdateStatus
  BY <1>1, <1>3, <1>8, VisitNew DEF Visit!UpdateStatus
<1>9. CASE \/ Visit!CaptureGPS \/ Visit!UploadSignature \/ Visit!AddItem \/ Visit!AddNcr \/ Visit!PopulateChecklist
           \/ Visit!UploadNcrPhoto \/ Visit!GenerateReport \/ Visit!SubmitDecision
  BY <1>1, <1>3, <1>9, VisitNew DEF VisitPlain, Visit!CaptureGPS, Visit!UploadSignature, Visit!AddItem,
     Visit!AddNcr, Visit!PopulateChecklist, Visit!UploadNcrPhoto, Visit!GenerateReport, Visit!SubmitDecision
<1>10. CASE Visit!OpenForm
  <2>1. [page EXCEPT !.shown.form = TRUE] \in VisitShown
    BY <1>1 DEF VisitShown, VisitMounted
  <2>. QED
    BY <1>2, <1>10, <2>1 DEF Visit!OpenForm
<1>. QED
  BY <1>4, <1>5, <1>6, <1>7, <1>8, <1>9, <1>10 DEF Visit!Starts

LEMMA VisitTimer == ASSUME VisitInv, NEW i \in Items, Visit!TimerEnds(i) PROVE VisitInv'
<1>1. page \in VisitShown /\ call \in Table(VisitSends) /\ server \in VisitStored
  BY DEF VisitInv, Fits
<1> DEFINE arg == [id |-> i, to |-> page.timers[i]]
<1>2. arg \in VisitEntries /\ arg.to = "typed"
  BY <1>1 DEF Visit!TimerEnds, VisitEntries, VisitShown, Visit!Texts
<1>3. /\ Free(call) # {} /\ call' = Put(call, Sent("text", arg))
      /\ page' = [page EXCEPT !.timers[i] = None] /\ server' = server
  BY VisitCalls DEF Visit!TimerEnds, Goes
<1> HIDE DEF arg
<1>4. call' \in Table(VisitSends)
  BY <1>1, <1>2, <1>3, VisitNew, PutCall
<1>5. page' \in VisitShown
  BY <1>1, <1>3 DEF VisitShown, Visit!Texts
<1>. QED
  BY <1>1, <1>3, <1>4, <1>5 DEF VisitInv, Fits

\* The handlers
LEMMA VisitBecomes ==
  ASSUME VisitInv, NEW c \in Calls, call[c] \in VisitSends, NEW stage \in {"ok", "refused"},
         stage = "ok" => call[c].kind # "visit", NEW s \in VisitStored, Visit!Becomes(c, stage, s)
  PROVE  VisitInv'
<1> DEFINE k == [call[c] EXCEPT !.stage = stage]
<1>1. k \in VisitSends
  BY DEF VisitSends
<1>2. call' = [call EXCEPT ![c] = k] /\ server' = s /\ page' = page
  BY StageOf DEF Visit!Becomes, VisitInv, Fits
<1> HIDE DEF k
<1>. QED
  BY <1>1, <1>2, PageServes DEF VisitInv

\* What is changed has not been reported.
LEMMA VisitChanges ==
  ASSUME VisitInv, NEW c \in Calls, call[c] \in VisitSends, call[c].kind # "visit",
         NEW allowed, NEW s, allowed => s \in VisitStored, Visit!Changes(c, allowed, s)
  PROVE  VisitInv'
<1>1. server \in VisitStored
  BY DEF VisitInv, Fits
<1>. QED
  BY <1>1, VisitBecomes DEF Visit!Changes

LEMMA VisitReported ==
  ASSUME server \in VisitStored PROVE Visit!Reported \in VisitStored
BY DEF VisitStored, Visit!Reported, Visit!Evidence, Visit!Statuses

LEMMA VisitServes == ASSUME VisitInv, NEW c \in Calls, Visit!Serves(c) PROVE VisitInv'
<1>1. call \in Table(VisitSends) /\ server \in VisitStored
  BY DEF VisitInv, Fits
<1>2. call[c] # None /\ call[c] \in VisitSends
  BY <1>1 DEF Table, Visit!Serves, Visit!UpdateVisitStatus, Visit!UpdateItem, Visit!RemoveItem, Visit!InsertItem,
     Visit!Populate, Visit!AddEvidence, Visit!WriteReport, Visit!Decide, Visit!GetVisit, Visit!At
<1>3. Visit!Mutable => server.report = None
  BY <1>1 DEF Visit!Mutable, VisitStored
<1>4. ASSUME Visit!Mutable, NEW items \in VisitItems PROVE [server EXCEPT !.items = items] \in VisitStored
  BY <1>1, <1>3, <1>4 DEF VisitStored
<1>5. server.items \in VisitItems
  BY <1>1 DEF VisitStored
<1>6. CASE Visit!UpdateVisitStatus(c)
  <2>1. call[c].arg \in Visit!Statuses
    BY <1>2, <1>6 DEF Visit!UpdateVisitStatus, Visit!At, VisitSends, Visit!Statuses
  <2>2. server.status \notin {"report_submitted", "report_accepted"}
           => [server EXCEPT !.status = call[c].arg] \in VisitStored
    BY <1>1, <2>1 DEF VisitStored
  <2>. QED
    BY <1>2, <1>6, <2>2, VisitChanges DEF Visit!UpdateVisitStatus, Visit!At
<1>7. CASE Visit!UpdateItem(c)
  <2>1. call[c].arg \in VisitEntries /\ call[c].kind \in {"result", "text"} /\ call[c].arg.id \in Items
    BY <1>2, <1>7 DEF Visit!UpdateItem, Visit!At, VisitSends, VisitEntries
  <2>2. PICK i \in Items, to \in {call[c].arg.to} : i = call[c].arg.id
    BY <2>1
  <2>3. CASE call[c].kind = "result"
    <3>1. to = "given"
      BY <1>2, <2>2, <2>3 DEF VisitSends
    <3>2. ASSUME Visit!Mutable /\ i \notin Visit!Missing PROVE [server EXCEPT !.items[i].result = to] \in VisitStored
      <4>1. server.items[i] \in Visit!Checks
        BY <1>5, <3>2 DEF Visit!Missing, VisitItems
      <4>2. [server.items[i] EXCEPT !.result = to] \in Visit!Checks
        BY <3>1, <4>1 DEF Visit!Checks, Visit!Results
      <4> DEFINE items == [server.items EXCEPT ![i] = [server.items[i] EXCEPT !.result = to]]
      <4>3. items \in VisitItems
        BY <1>5, <4>2 DEF VisitItems
      <4>4. [server EXCEPT !.items[i].result = to] = [server EXCEPT !.items = items]
        BY <1>1, <1>5 DEF VisitStored, VisitItems
      <4> HIDE DEF items
      <4>. QED
        BY <1>4, <3>2, <4>3, <4>4
    <3>. QED
      BY <1>2, <1>7, <2>2, <2>3, <3>2, VisitChanges DEF Visit!UpdateItem
  <2>4. CASE call[c].kind = "text"
    <3>1. to = "typed"
      BY <1>2, <2>2, <2>4 DEF VisitSends
    <3>2. ASSUME Visit!Mutable /\ i \notin Visit!Missing PROVE [server EXCEPT !.items[i].text = to] \in VisitStored
      <4>1. server.items[i] \in Visit!Checks
        BY <1>5, <3>2 DEF Visit!Missing, VisitItems
      <4>2. [server.items[i] EXCEPT !.text = to] \in Visit!Checks
        BY <3>1, <4>1 DEF Visit!Checks, Visit!Texts
      <4> DEFINE items == [server.items EXCEPT ![i] = [server.items[i] EXCEPT !.text = to]]
      <4>3. items \in VisitItems
        BY <1>5, <4>2 DEF VisitItems
      <4>4. [server EXCEPT !.items[i].text = to] = [server EXCEPT !.items = items]
        BY <1>1, <1>5 DEF VisitStored, VisitItems
      <4> HIDE DEF items
      <4>. QED
        BY <1>4, <3>2, <4>3, <4>4
    <3>. QED
      BY <1>2, <1>7, <2>2, <2>4, <3>2, VisitChanges DEF Visit!UpdateItem
  <2>. QED
    BY <2>1, <2>3, <2>4
<1>8. CASE Visit!RemoveItem(c)
  <2>1. [server.items EXCEPT ![call[c].arg] = None] \in VisitItems
    BY <1>5 DEF VisitItems
  <2>2. [server EXCEPT !.items[call[c].arg] = None] = [server EXCEPT !.items = [server.items EXCEPT ![call[c].arg] = None]]
    BY <1>1 DEF VisitStored
  <2>. QED
    BY <1>2, <1>4, <1>8, <2>1, <2>2, VisitChanges DEF Visit!RemoveItem, Visit!At
<1>9. CASE Visit!InsertItem(c)
  <2> DEFINE i == CHOOSE i \in Visit!Missing : TRUE
  <2>1. [server.items EXCEPT ![i] = Visit!Blank] \in VisitItems
    BY <1>5, VisitBlank DEF VisitItems
  <2>2. [server EXCEPT !.items[i] = Visit!Blank] = [server EXCEPT !.items = [server.items EXCEPT ![i] = Visit!Blank]]
    BY <1>1 DEF VisitStored
  <2>. QED
    BY <1>2, <1>4, <1>9, <2>1, <2>2, VisitChanges DEF Visit!InsertItem, Visit!At
<1>10. CASE Visit!Populate(c)
  <2> DEFINE items == [i \in Items |-> IF i = CHOOSE x \in Visit!Missing : TRUE THEN Visit!Blank ELSE None]
  <2>1. items \in VisitItems
    BY VisitBlank DEF VisitItems
  <2>2. Visit!Changes(c, Visit!Mutable /\ Visit!Missing # {}, [server EXCEPT !.items = items])
    BY <1>10 DEF Visit!Populate
  <2> HIDE DEF items
  <2>. QED
    BY <1>2, <1>4, <1>10, <2>1, <2>2, VisitChanges DEF Visit!Populate, Visit!At
<1>11. CASE Visit!AddEvidence(c)
  <2>1. Visit!Mutable => [server EXCEPT !.more = TRUE] \in VisitStored
    BY <1>1, <1>3 DEF VisitStored
  <2>. QED
    BY <1>2, <1>11, <2>1, VisitChanges DEF Visit!AddEvidence, Visit!At
<1>12. CASE Visit!WriteReport(c)
  BY <1>1, <1>2, <1>12, VisitReported, VisitChanges DEF Visit!WriteReport, Visit!At
<1>13. CASE Visit!Decide(c)
  BY <1>1, <1>2, <1>13, VisitChanges DEF Visit!Decide, Visit!At
<1>14. CASE Visit!GetVisit(c)
  <2> DEFINE answer == [visit |-> server.status, items |-> server.items]
             k == [call[c] EXCEPT !.stage = "ok", !.answer = answer]
  <2>1. answer \in VisitRead
    BY <1>1 DEF VisitRead, VisitStored
  <2>2. call' = [call EXCEPT ![c] = k] /\ server' = server /\ page' = page
    BY Zenon, <1>1, <1>14, VisitCalls, AnswerOf DEF Visit!GetVisit
  <2> HIDE DEF answer
  <2>3. k \in VisitSends
    BY <1>2, <2>1 DEF VisitSends
  <2> HIDE DEF k
  <2>. QED
    BY <1>1, <2>2, <2>3, PageServes DEF VisitInv
<1>. QED
  BY <1>6, <1>7, <1>8, <1>9, <1>10, <1>11, <1>12, <1>13, <1>14 DEF Visit!Serves

\* What follows an answer
LEMMA VisitContinues == ASSUME VisitInv, NEW c \in Calls, Visit!Continues(c) PROVE VisitInv'
<1>1. page \in VisitShown /\ call \in Table(VisitSends) /\ page.shown \in VisitMounted
  BY DEF VisitInv, Fits, VisitShown
<1>2. call[c] # None /\ call[c] \in VisitSends
  BY <1>1, VisitCalls DEF Table, Arrived, Unheard, Visit!Continues, Visit!GotVisit, Visit!GotCommand,
     Visit!GotAdded, Visit!GotDeleted, Visit!GotField
<1>3. ASSUME NEW p \in VisitShown, Goes(Dropped(c), p) PROVE VisitInv'
  BY <1>3, PageDrops DEF VisitInv
<1> USE VisitCalls
<1>4. ASSUME NEW p \in VisitShown, Visit!ReadAgain(c, p) PROVE VisitInv'
  <2>1. Sent("visit", None) \in VisitSends
    BY VisitNew DEF VisitPlain
  <2>. QED
    BY <1>4, <2>1, PageGoes DEF Visit!ReadAgain, VisitInv
<1>5. ASSUME Visit!Silent(c) PROVE VisitInv'
  BY <1>1, <1>3, <1>5 DEF Visit!Silent
<1>6. CASE Visit!GotVisit(c)
  <2>1. CASE Ok(c)
    <3>1. call[c].answer \in VisitRead
      BY <1>2, <1>6, <2>1 DEF Visit!GotVisit, Ok, VisitSends
    <3>2. PICK visit \in Visit!Statuses, items \in VisitItems :
            visit = call[c].answer.visit /\ items = call[c].answer.items
      BY <3>1 DEF VisitRead
    <3>3. [page EXCEPT !.shown.fetching = FALSE, !.shown.visit = visit, !.shown.items = items] \in VisitShown
      BY <1>1 DEF VisitShown, VisitMounted
    <3>. QED
      BY <1>3, <1>6, <2>1, <3>2, <3>3 DEF Visit!GotVisit
  <2>2. CASE ~Ok(c)
    <3>1. [page EXCEPT !.shown.fetching = FALSE, !.shown.error = TRUE] \in VisitShown
      BY <1>1 DEF VisitShown, VisitMounted
    <3>. QED
      BY <1>3, <1>6, <2>2, <3>1 DEF Visit!GotVisit
  <2>. QED
    BY <2>1, <2>2
<1>7. CASE Visit!GotCommand(c)
  BY <1>1, <1>4, <1>5, <1>7 DEF Visit!GotCommand
<1>8. CASE Visit!GotAdded(c)
  <2>1. [page EXCEPT !.shown.form = FALSE] \in VisitShown
    BY <1>1 DEF VisitShown, VisitMounted
  <2>. QED
    BY <1>4, <1>5, <1>8, <2>1 DEF Visit!GotAdded
<1>9. CASE Visit!GotDeleted(c)
  <2> DEFINE items == [page.shown.items EXCEPT ![call[c].arg] = None]
             shown == [page.shown EXCEPT !.items = items]
             p == [page EXCEPT !.shown.items[call[c].arg] = None]
  <2>1. items \in VisitItems
    BY <1>1 DEF VisitMounted, VisitItems
  <2>2. shown \in VisitMounted
    BY <1>1, <2>1 DEF VisitMounted
  <2>3. p = [page EXCEPT !.shown = shown]
    BY <1>1 DEF VisitShown, VisitMounted
  <2> HIDE DEF shown
  <2>4. p \in VisitShown
    BY <1>1, <2>2, <2>3 DEF VisitShown
  <2>5. Goes(Dropped(c), p) \/ Visit!Silent(c)
    BY <1>9 DEF Visit!GotDeleted
  <2> HIDE DEF p
  <2>. QED
    BY <1>3, <1>5, <2>4, <2>5
<1>10. CASE Visit!GotField(c)
  BY <1>1, <1>3, <1>10 DEF Visit!GotField
<1>11. CASE Visit!Unheard(c)
  BY <1>1, <1>3, <1>11 DEF Unheard
<1>. QED
  BY <1>6, <1>7, <1>8, <1>9, <1>10, <1>11 DEF Visit!Continues

\* Whatever happens on the page.
LEMMA VisitNext == VisitInv /\ Visit!Next => VisitInv'
<1> SUFFICES ASSUME VisitInv, Visit!Next PROVE VisitInv'
  OBVIOUS
<1>1. page \in VisitShown /\ call \in Table(VisitSends) /\ server \in VisitStored
  BY DEF VisitInv, Fits
<1>2. ASSUME NEW c \in Calls, Visit!Refuses(c) \/ Visit!Loses(c) PROVE VisitInv'
  BY <1>2, VisitCalls, VisitLasting, PageRefuses, PageLoses DEF VisitInv
<1>3. CASE Visit!OthersReport
  BY <1>1, <1>3, VisitReported DEF Visit!OthersReport, VisitInv, Fits
<1>4. CASE Visit!AcceptReport
  <2>1. [server EXCEPT !.status = "report_accepted"] \in VisitStored
    BY <1>1, <1>4 DEF Visit!AcceptReport, VisitStored, Visit!Statuses
  <2>. QED
    BY <1>1, <1>4, <2>1 DEF Visit!AcceptReport, VisitInv, Fits
<1>. QED
  BY <1>2, <1>3, <1>4, VisitStarts, VisitTimer, VisitServes, VisitContinues DEF Visit!Next, Visit!TimersEnd

\* What is checked of the page follows.
LEMMA VisitHolds == VisitInv => Visit!TypeOK /\ Visit!ReportedIsFrozen
BY DEF VisitInv, Fits, VisitShown, VisitMounted, VisitStored, VisitItems, Visit!TypeOK, Visit!ReportedIsFrozen,
       Visit!Evidence

-----------------------------------------------------------------------------
\* The administration of templates: the editor and the calls it awaits are of one type.

\* Admin deals with its calls as PageCalls says.
LEMMA AdminCalls ==
  /\ \A kind, arg : Admin!Sent(kind, arg) = Sent(kind, arg)
  /\ \A calls : Admin!Free(calls) = Free(calls)
  /\ \A calls, k : Admin!Put(calls, k) = Put(calls, k)
  /\ \A calls, kinds : Admin!Ignored(calls, kinds) = Ignored(calls, kinds)
  /\ Admin!Unmounted = Unmounted
  /\ \A c : Admin!Dropped(c) = Dropped(c)
  /\ \A calls, k, p : Admin!Gives(calls, k, p) <=> Gives(calls, k, p)
  /\ \A p : Admin!Turns(p) <=> Turns(p)
  /\ \A calls, p : Admin!Goes(calls, p) <=> Goes(calls, p)
  /\ \A c : (Admin!Arrived(c) <=> Arrived(c)) /\ (Admin!Ok(c) <=> Ok(c))
  /\ \A c, result, s : Admin!Answers(c, result, s) <=> Answers(c, result, s)
  /\ \A c : (Admin!Refuses(c) <=> Refuses(c)) /\ (Admin!Loses(c) <=> Loses(c))
  /\ \A c : Admin!Unheard(c) <=> Unheard(c)
BY DEF Sent, Admin!Sent, Free, Admin!Free, Put, Admin!Put, Ignored, Admin!Ignored, Unmounted, Admin!Unmounted,
       Dropped, Admin!Dropped, Gives, Admin!Gives, Turns, Admin!Turns, Goes, Admin!Goes, Arrived, Admin!Arrived,
       Ok, Admin!Ok, Answers, Admin!Answers, Refuses, Admin!Refuses, Loses, Admin!Loses, Unheard, Admin!Unheard

AdminFiles == {"upload", "remove", "uploadTemplate", "removeTemplate"}
AdminTyped == AdminFiles \cup {"load", "lists"}
AdminSaves == [type : Types, template : Admin!Templates]

\* What is awaited concerns the type that is chosen; what is saved is of its type, or the body
\* of an error.
AdminSends(type) ==
  {k \in [kind : AdminTyped \cup {"save", "rows", "put", "delete"},
          arg : {None} \cup Types \cup AdminSaves \cup Admin!Forms \cup Keys, live : BOOLEAN, heard : BOOLEAN,
          stage : {"sent", "ok", "refused"}, answer : {None} \cup Admin!Templates \cup SUBSET Keys] :
     /\ k.kind \in AdminTyped => k.arg \in Types /\ (k.heard => k.arg = type)
     /\ k.kind = "save" => k.arg \in AdminSaves /\ k.arg.template.of \in {k.arg.type, None}
     /\ k.kind = "put" => k.arg \in Admin!Forms
     /\ k.kind = "delete" => k.arg \in Keys
     /\ k.kind = "load" /\ k.stage = "ok" => k.answer \in Admin!Templates /\ k.answer.of = k.arg
     /\ k.kind = "rows" /\ k.stage = "ok" => k.answer \in SUBSET Keys}

AdminShown(type) ==
  {p \in [section : {"templates", "placeholders"}, type : {type}, turns : Nat, loading : BOOLEAN,
          template : Admin!Templates \cup {None}, lists : {type, None}, busy : SUBSET Admin!Flags,
          rows : SUBSET Keys, form : Admin!Forms \cup {None}] :
     p.template # None => p.template.of \in {type, None}}

AdminStored ==
  {s \in [templates : [Types -> Admin!Templates], placeholders : SUBSET Keys] :
     \A t \in Types : s.templates[t].of = t}

AdminFits(type) == Fits(AdminSends(type), AdminShown(type), AdminStored)
AdminInv == \E type \in Types : AdminFits(type)

\* Calls of the page may be refused, ignored, or left by whoever awaited them.
LEMMA AdminLasting == ASSUME NEW type \in Types PROVE Lasting(AdminSends(type))
<1> SUFFICES ASSUME NEW k \in AdminSends(type)
             PROVE  /\ [k EXCEPT !.stage = "refused"] \in AdminSends(type)
                    /\ [k EXCEPT !.heard = FALSE] \in AdminSends(type)
                    /\ [k EXCEPT !.live = FALSE] \in AdminSends(type)
  BY Zenon DEF Lasting
<1>1. [k EXCEPT !.stage = "refused"] \in AdminSends(type)
  BY DEF AdminSends
<1>2. [k EXCEPT !.heard = FALSE] \in AdminSends(type)
  BY DEF AdminSends
<1>3. [k EXCEPT !.live = FALSE] \in AdminSends(type)
  BY DEF AdminSends
<1>. QED
  BY <1>1, <1>2, <1>3

\* What the page sends is one of its calls.
LEMMA AdminNew ==
  ASSUME NEW type \in Types, NEW kind, NEW arg,
         \/ kind \in AdminTyped /\ arg = type
         \/ kind = "save" /\ arg \in AdminSaves /\ arg.template.of \in {arg.type, None}
         \/ kind = "put" /\ arg \in Admin!Forms
         \/ kind = "delete" /\ arg \in Keys
         \/ kind = "rows" /\ arg = None
  PROVE  Sent(kind, arg) \in AdminSends(type)
<1>1. arg \in {None} \cup Types \cup AdminSaves \cup Admin!Forms \cup Keys
  OBVIOUS
<1>. QED
  BY <1>1 DEF Sent, AdminSends, AdminTyped, AdminFiles

LEMMA AdminEditor ==
  ASSUME NEW type \in Types, NEW turns \in Nat PROVE Admin!Editor(type, turns) \in AdminShown(type)
BY DEF Admin!Editor, AdminShown

\* The page as it is first seen.
LEMMA AdminInit == Admin!Init => AdminInv
<1> SUFFICES ASSUME Admin!Init PROVE AdminInv
  OBVIOUS
<1>1. PICK t \in Types : page = [Admin!Editor(t, 0) EXCEPT !.loading = FALSE, !.lists = t,
                                   !.template = [of |-> t, edited |-> None]]
  BY Zenon DEF Admin!Init
<1>2. call \in Table(AdminSends(t))
  BY DEF Admin!Init, Table
<1>3. [of |-> t, edited |-> None] \in Admin!Templates
  BY DEF Admin!Templates
<1>4. page \in AdminShown(t)
  BY <1>1, <1>3 DEF AdminShown, Admin!Editor
<1>5. server \in AdminStored
  BY SystemAssumption DEF Admin!Init, AdminStored, Admin!Templates
<1>. QED
  BY <1>2, <1>4, <1>5 DEF AdminInv, AdminFits, Fits

\* Mounted anew, the page hears of nothing that was asked for before.
LEMMA AdminUnmounted ==
  ASSUME NEW type \in Types, AdminFits(type), NEW t \in Types, NEW k \in AdminSends(t), NEW p \in AdminShown(t),
         Free(call) # {}, Goes(Put(Unmounted, k), p)
  PROVE  AdminFits(t)'
<1>1. call \in Table(AdminSends(type)) /\ server \in AdminStored
  BY DEF AdminFits, Fits
<1>2. /\ Unmounted \in Table(AdminSends(type))
      /\ \A x \in Calls : \/ call[x] = None /\ Unmounted[x] = None
                          \/ call[x] # None /\ call[x] \in AdminSends(type)
                             /\ Unmounted[x] = [call[x] EXCEPT !.heard = FALSE]
  BY <1>1, AdminLasting, UnmountedCalls
<1>3. ASSUME NEW x \in AdminSends(type) PROVE [x EXCEPT !.heard = FALSE] \in AdminSends(t)
  <2> DEFINE left == [x EXCEPT !.heard = FALSE]
  <2>1. left \in AdminSends(type)
    BY AdminLasting DEF Lasting
  <2>2. left.heard = FALSE
    BY DEF AdminSends
  <2> HIDE DEF left
  <2>3. left \in AdminSends(t)
    BY <2>1, <2>2 DEF AdminSends
  <2>. QED
    BY <2>3 DEF left
<1>4. Unmounted \in Table(AdminSends(t))
  <2>1. \A x \in Calls : Unmounted[x] \in AdminSends(t) \cup {None}
    BY <1>2, <1>3
  <2>. QED
    BY <1>2, <2>1 DEF Table
<1>5. Free(Unmounted) # {}
  BY <1>1, <1>2 DEF Free
<1>6. Put(Unmounted, k) \in Table(AdminSends(t))
  BY <1>4, <1>5, PutCall
<1>. QED
  BY <1>1, <1>6 DEF Goes, AdminFits, Fits

\* The page
LEMMA AdminStarts == AdminInv /\ Admin!Starts => AdminInv'
<1> SUFFICES ASSUME NEW type \in Types, AdminFits(type), Admin!Starts
             PROVE  \E t \in Types : AdminFits(t)'
  BY DEF AdminInv
<1> USE AdminCalls DEF Admin!Does
<1>1. /\ page \in AdminShown(type) /\ page.type = type /\ page.turns \in Nat /\ page.turns + 1 \in Nat
      /\ page.template # None => page.template \in Admin!Templates /\ page.template.of \in {type, None}
      /\ page.form # None => page.form \in Admin!Forms
  BY DEF AdminFits, Fits, AdminShown
<1>2. ASSUME NEW t \in Types, Admin!SelectType(t) PROVE AdminFits(t)'
  <2>1. Sent("load", t) \in AdminSends(t)
    BY AdminNew DEF AdminTyped
  <2>2. Free(call) # {} /\ Goes(Put(Unmounted, Sent("load", t)), Admin!Editor(t, page.turns + 1))
    BY <1>2 DEF Admin!SelectType, Admin!EditorAnew
  <2>. QED
    BY <1>1, <2>1, <2>2, AdminEditor, AdminUnmounted
<1>3. CASE Admin!SelectPlaceholders
  <2>1. Sent("rows", None) \in AdminSends(type)
    BY AdminNew
  <2>2. Free(call) # {} /\ Goes(Put(Unmounted, Sent("rows", None)), Admin!Manager(page.turns + 1))
    BY <1>3 DEF Admin!SelectPlaceholders
  <2>3. Admin!Manager(page.turns + 1) \in AdminShown(type)
    BY <1>1, AdminEditor DEF Admin!Manager, AdminShown
  <2>. QED
    BY <2>1, <2>2, <2>3, AdminUnmounted
<1>4. ASSUME NEW p \in AdminShown(type), Turns(p) PROVE AdminFits(type)'
  BY <1>4, PageTurns DEF AdminFits
<1>5. ASSUME NEW k \in AdminSends(type), NEW p \in AdminShown(type), Gives(call, k, p) PROVE AdminFits(type)'
  BY <1>5, PageGives DEF AdminFits
<1>6. ASSUME NEW flag \in Admin!Flags PROVE Admin!Flagged(flag) \in AdminShown(type)
  BY <1>1 DEF AdminShown, Admin!Flagged
<1>7. ASSUME NEW part \in Admin!Parts, Admin!Edit(part) PROVE AdminFits(type)'
  <2> DEFINE template == [page.template EXCEPT !.edited = part]
  <2>1. template \in Admin!Templates /\ template.of \in {type, None}
    BY <1>1, <1>7 DEF Admin!Edit, Admin!Edits, Admin!Templates
  <2>2. [page EXCEPT !.template.edited = part, !.turns = @ + 1] = [page EXCEPT !.template = template, !.turns = page.turns + 1]
    BY <1>1 DEF AdminShown
  <2> HIDE DEF template
  <2>3. [page EXCEPT !.template = template, !.turns = page.turns + 1] \in AdminShown(type)
    BY <1>1, <2>1 DEF AdminShown
  <2>. QED
    BY <1>4, <1>7, <2>2, <2>3 DEF Admin!Edit
<1>8. CASE \/ Admin!EditCriterion \/ Admin!EditCriteria \/ Admin!EditGuidance \/ Admin!EditFormat
           \/ Admin!EditSections
  BY <1>7, <1>8 DEF Admin!EditCriterion, Admin!EditCriteria, Admin!EditGuidance, Admin!EditFormat,
     Admin!EditSections, Admin!Parts
<1>9. CASE Admin!Save
  <2> DEFINE arg == [type |-> page.type, template |-> page.template]
  <2>1. arg \in AdminSaves /\ arg.template.of \in {arg.type, None}
    BY <1>1, <1>9 DEF Admin!Save, Admin!Edits, AdminSaves
  <2>2. Gives(call, Sent("save", arg), Admin!Flagged("saving"))
    BY <1>9 DEF Admin!Save
  <2> HIDE DEF arg
  <2>. QED
    BY <1>5, <1>6, <2>1, <2>2, AdminNew DEF Admin!Flags
<1>10. CASE Admin!UploadFile \/ Admin!HandleDeleteFile \/ Admin!UploadTpl \/ Admin!DeleteTpl
  BY <1>1, <1>5, <1>6, <1>10, AdminNew DEF Admin!UploadFile, Admin!HandleDeleteFile, Admin!UploadTpl,
     Admin!DeleteTpl, Admin!Flags, AdminTyped, AdminFiles
<1>11. ASSUME NEW k \in Keys, NEW e \in {k, None} PROVE [page EXCEPT !.form = [edit |-> e, key |-> k]] \in AdminShown(type)
  <2>1. [edit |-> e, key |-> k] \in Admin!Forms
    BY DEF Admin!Forms
  <2>. QED
    BY <1>1, <2>1 DEF AdminShown
<1>12. ASSUME NEW k \in Keys, Admin!OpenAdd(k) \/ Admin!OpenEdit(k) PROVE AdminFits(type)'
  BY <1>4, <1>11, <1>12 DEF Admin!OpenAdd, Admin!OpenEdit
<1>13. ASSUME NEW k \in Keys, Admin!HandleDelete(k) PROVE AdminFits(type)'
  BY <1>1, <1>5, <1>13, AdminNew DEF Admin!HandleDelete
<1>14. CASE Admin!CloseForm
  <2>1. [page EXCEPT !.form = None] \in AdminShown(type)
    BY <1>1 DEF AdminShown
  <2>. QED
    BY <1>4, <1>14, <2>1 DEF Admin!CloseForm
<1>15. CASE Admin!HandleSave
  <2>1. page.form \in Admin!Forms
    BY <1>1, <1>15 DEF Admin!HandleSave
  <2>. QED
    BY <1>5, <1>6, <1>15, <2>1, AdminNew DEF Admin!HandleSave, Admin!Flags
<1>. QED
  BY <1>2, <1>3, <1>8, <1>9, <1>10, <1>12, <1>13, <1>14, <1>15 DEF Admin!Starts

\* The server
LEMMA AdminServes ==
  ASSUME NEW type \in Types, AdminFits(type), NEW c \in Calls, Admin!Serves(c) PROVE AdminFits(type)'
<1>1. call \in Table(AdminSends(type)) /\ server \in AdminStored
  BY DEF AdminFits, Fits
<1>2. call[c] # None /\ call[c] \in AdminSends(type)
  BY <1>1 DEF Table, Admin!Serves
<1>3. ASSUME NEW answer, NEW s \in AdminStored, Answers(c, answer, s),
             [call[c] EXCEPT !.stage = "ok", !.answer = answer] \in AdminSends(type)
      PROVE  AdminFits(type)'
  BY Zenon, <1>1, <1>3, AnswerOf, PageServes DEF AdminFits
<1>4. call[c].kind \notin {"load", "rows"} => [call[c] EXCEPT !.stage = "ok", !.answer = None] \in AdminSends(type)
  BY <1>2 DEF AdminSends
<1> USE AdminCalls
<1>5. CASE Admin!SaveTemplate(c)
  <2> DEFINE template == call[c].arg.template
             t == call[c].arg.type
             s == [server EXCEPT !.templates[t] = template]
  <2>1. t \in Types /\ template \in Admin!Templates /\ template.of = t
    BY <1>2, <1>5 DEF Admin!SaveTemplate, Admin!Fits, AdminSends, AdminSaves
  <2>2. Answers(c, None, s)
    BY <1>5 DEF Admin!SaveTemplate
  <2> HIDE DEF template, t
  <2>3. s \in AdminStored
    <3> DEFINE templates == [server.templates EXCEPT ![t] = template]
    <3>1. templates \in [Types -> Admin!Templates] /\ \A x \in Types : templates[x].of = x
      BY <1>1, <2>1 DEF AdminStored
    <3>2. s = [server EXCEPT !.templates = templates]
      BY <1>1 DEF AdminStored
    <3> HIDE DEF templates
    <3>. QED
      BY <1>1, <3>1, <3>2 DEF AdminStored
  <2> HIDE DEF s
  <2>. QED
    BY Zenon, <1>3, <1>4, <1>5, <2>2, <2>3 DEF Admin!SaveTemplate
<1>6. CASE Admin!CreatePlaceholder(c)
  <2>1. call[c].arg.key \in Keys
    BY <1>2, <1>6 DEF Admin!CreatePlaceholder, AdminSends, Admin!Forms
  <2>2. [server EXCEPT !.placeholders = @ \cup {call[c].arg.key}] \in AdminStored
    BY <1>1, <2>1 DEF AdminStored
  <2>. QED
    BY Zenon, <1>3, <1>4, <1>6, <2>2 DEF Admin!CreatePlaceholder
<1>7. CASE Admin!UpdatePlaceholder(c)
  BY Zenon, <1>1, <1>3, <1>4, <1>7 DEF Admin!UpdatePlaceholder
<1>8. CASE Admin!DeletePlaceholder(c)
  <2>1. [server EXCEPT !.placeholders = @ \ {call[c].arg}] \in AdminStored
    BY <1>1 DEF AdminStored
  <2>. QED
    BY Zenon, <1>3, <1>4, <1>8, <2>1 DEF Admin!DeletePlaceholder
<1>9. CASE Admin!Reads(c)
  <2> DEFINE answer == IF call[c].kind = "load" THEN server.templates[call[c].arg]
                       ELSE IF call[c].kind = "rows" THEN server.placeholders ELSE None
             k == [call[c] EXCEPT !.stage = "ok", !.answer = answer]
  <2>1. Answers(c, answer, server)
    BY <1>9 DEF Admin!Reads
  <2>2. CASE call[c].kind = "load"
    <3>1. answer \in Admin!Templates /\ answer.of = call[c].arg
      BY <1>1, <1>2, <2>2 DEF AdminSends, AdminTyped, AdminStored
    <3> HIDE DEF answer
    <3>2. k \in AdminSends(type)
      BY <1>2, <2>2, <3>1 DEF AdminSends
    <3>. QED
      BY Zenon, <1>1, <1>3, <2>1, <3>2
  <2>3. CASE call[c].kind = "rows"
    <3>1. answer \in SUBSET Keys
      BY <1>1, <2>3 DEF AdminStored
    <3> HIDE DEF answer
    <3>2. k \in AdminSends(type)
      BY <1>2, <2>3, <3>1 DEF AdminSends
    <3>. QED
      BY Zenon, <1>1, <1>3, <2>1, <3>2
  <2>4. CASE call[c].kind \notin {"load", "rows"}
    BY Zenon, <1>1, <1>3, <1>4, <2>1, <2>4
  <2>. QED
    BY <2>2, <2>3, <2>4
<1>10. CASE Admin!Refuses(c)
  BY <1>10, AdminLasting, PageRefuses DEF AdminFits
<1>. QED
  BY <1>5, <1>6, <1>7, <1>8, <1>9, <1>10 DEF Admin!Serves, Admin!Served

\* What follows an answer
LEMMA AdminContinues ==
  ASSUME NEW type \in Types, AdminFits(type), NEW c \in Calls, Admin!Continues(c) PROVE AdminFits(type)'
<1>1. page \in AdminShown(type) /\ call \in Table(AdminSends(type)) /\ page.type = type
  BY DEF AdminFits, Fits, AdminShown
<1>2. call[c] # None /\ call[c] \in AdminSends(type)
  BY <1>1, AdminCalls DEF Table, Arrived, Unheard, Admin!Continues, Admin!GotLoad, Admin!GotLists,
     Admin!GotSave, Admin!GotFile, Admin!GotRows, Admin!GotPut, Admin!GotDelete
<1>3. ASSUME NEW p \in AdminShown(type), Goes(Dropped(c), p) PROVE AdminFits(type)'
  BY <1>3, PageDrops DEF AdminFits
<1>4. ASSUME NEW k \in AdminSends(type), NEW p \in AdminShown(type), Goes([call EXCEPT ![c] = k], p)
      PROVE  AdminFits(type)'
  BY <1>4, PageGoes DEF AdminFits
<1>5. ASSUME NEW flag PROVE [page EXCEPT !.busy = @ \ {flag}] \in AdminShown(type)
  BY <1>1 DEF AdminShown
<1>6. Sent("rows", None) \in AdminSends(type)
  BY AdminNew
<1> USE AdminCalls
<1>7. CASE Admin!GotLoad(c)
  <2>1. call[c].kind = "load" /\ call[c].arg = type
    BY <1>2, <1>7 DEF Admin!GotLoad, Arrived, AdminSends, AdminTyped
  <2>2. Admin!Given(c) \in Admin!Templates /\ Admin!Given(c).of \in {type, None}
    BY <1>2, <2>1 DEF Admin!Given, Ok, AdminSends, Admin!Templates
  <2>3. [page EXCEPT !.loading = FALSE, !.template = Admin!Given(c), !.lists = call[c].arg] \in AdminShown(type)
    BY <1>1, <2>1, <2>2 DEF AdminShown
  <2>4. [page EXCEPT !.loading = FALSE] \in AdminShown(type)
    BY <1>1 DEF AdminShown
  <2>. QED
    BY <1>3, <1>7, <2>3, <2>4 DEF Admin!GotLoad
<1>8. CASE Admin!GotLists(c)
  <2>1. call[c].arg = type
    BY <1>2, <1>8 DEF Admin!GotLists, Arrived, AdminSends, AdminTyped
  <2>2. [page EXCEPT !.lists = call[c].arg] \in AdminShown(type)
    BY <1>1, <2>1 DEF AdminShown
  <2>. QED
    BY <1>1, <1>3, <1>8, <2>2 DEF Admin!GotLists
<1>9. CASE Admin!GotSave(c)
  BY <1>3, <1>5, <1>9 DEF Admin!GotSave, Admin!Saved
<1>10. CASE Admin!GotFile(c)
  <2>1. call[c].arg = type
    BY <1>2, <1>10 DEF Admin!GotFile, Arrived, AdminSends, AdminTyped, AdminFiles
  <2>2. Sent("lists", type) \in AdminSends(type)
    BY AdminNew DEF AdminTyped
  <2> DEFINE p == [page EXCEPT !.busy = @ \ {Admin!FlagOf(call[c].kind)}]
  <2>3. p \in AdminShown(type)
    BY <1>5
  <2>4. Goes([call EXCEPT ![c] = Sent("lists", type)], p) \/ Goes(Dropped(c), p)
    BY <1>10, <2>1 DEF Admin!GotFile
  <2> HIDE DEF p
  <2>. QED
    BY <1>3, <1>4, <2>2, <2>3, <2>4
<1>11. CASE Admin!GotRows(c)
  <2>1. Ok(c) => call[c].answer \in SUBSET Keys
    BY <1>2, <1>11 DEF Admin!GotRows, Ok, AdminSends
  <2>2. [page EXCEPT !.loading = FALSE, !.rows = IF Ok(c) THEN call[c].answer ELSE @] \in AdminShown(type)
    BY <1>1, <2>1 DEF AdminShown
  <2>. QED
    BY <1>3, <1>11, <2>2 DEF Admin!GotRows
<1>12. CASE Admin!GotPut(c)
  <2>1. Admin!Saved(c) \in AdminShown(type)
    BY <1>5 DEF Admin!Saved
  <2>2. [Admin!Saved(c) EXCEPT !.form = None, !.loading = TRUE] \in AdminShown(type)
    BY <2>1 DEF AdminShown
  <2>. QED
    BY <1>3, <1>4, <1>6, <1>12, <2>1, <2>2 DEF Admin!GotPut
<1>13. CASE Admin!GotDelete(c)
  <2>1. [page EXCEPT !.loading = TRUE] \in AdminShown(type)
    BY <1>1 DEF AdminShown
  <2>. QED
    BY <1>1, <1>3, <1>4, <1>6, <1>13, <2>1 DEF Admin!GotDelete
<1>14. CASE Admin!Unheard(c)
  BY <1>1, <1>3, <1>14 DEF Unheard
<1>. QED
  BY <1>7, <1>8, <1>9, <1>10, <1>11, <1>12, <1>13, <1>14 DEF Admin!Continues

\* Whatever happens on the page.
LEMMA AdminNext == AdminInv /\ Admin!Next => AdminInv'
<1> SUFFICES ASSUME NEW type \in Types, AdminFits(type), Admin!Next PROVE AdminInv'
  BY DEF AdminInv
<1>1. AdminInv
  BY DEF AdminInv
<1>2. ASSUME NEW c \in Calls, Admin!Loses(c) PROVE AdminFits(type)'
  BY <1>2, AdminCalls, AdminLasting, PageLoses DEF AdminFits
<1>3. AdminFits(type)' => AdminInv'
  BY DEF AdminInv
<1>. QED
  BY <1>1, <1>2, <1>3, AdminStarts, AdminServes, AdminContinues DEF Admin!Next

\* What is checked of the page follows.
LEMMA AdminHolds == AdminInv => Admin!TypeOK /\ Admin!TemplateOfItsType
BY DEF AdminInv, AdminFits, Fits, AdminShown, AdminStored, Admin!TypeOK, Admin!TemplateOfItsType

-----------------------------------------------------------------------------
\* The creation of documents: what is loaded is of one address.

\* Creation deals with its calls as PageCalls says.
LEMMA CreationCalls ==
  /\ \A kind, arg : Creation!Sent(kind, arg) = Sent(kind, arg)
  /\ \A calls : Creation!Free(calls) = Free(calls)
  /\ \A calls, k : Creation!Put(calls, k) = Put(calls, k)
  /\ \A calls, kinds : Creation!Ignored(calls, kinds) = Ignored(calls, kinds)
  /\ Creation!Unmounted = Unmounted
  /\ \A c : Creation!Dropped(c) = Dropped(c)
  /\ \A calls, k, p : Creation!Gives(calls, k, p) <=> Gives(calls, k, p)
  /\ \A p : Creation!Turns(p) <=> Turns(p)
  /\ \A calls, p : Creation!Goes(calls, p) <=> Goes(calls, p)
  /\ \A c : (Creation!Arrived(c) <=> Arrived(c)) /\ (Creation!Ok(c) <=> Ok(c))
  /\ \A c, result, s : Creation!Answers(c, result, s) <=> Answers(c, result, s)
  /\ \A c : (Creation!Refuses(c) <=> Refuses(c)) /\ (Creation!Loses(c) <=> Loses(c))
  /\ \A c : Creation!Unheard(c) <=> Unheard(c)
BY DEF Sent, Creation!Sent, Free, Creation!Free, Put, Creation!Put, Ignored, Creation!Ignored, Unmounted, Creation!Unmounted,
       Dropped, Creation!Dropped, Gives, Creation!Gives, Turns, Creation!Turns, Goes, Creation!Goes, Arrived, Creation!Arrived,
       Ok, Creation!Ok, Answers, Creation!Answers, Refuses, Creation!Refuses, Loses, Creation!Loses, Unheard, Creation!Unheard

Addresses == Dossiers \cup {None}
FileKinds == {"docx", "pdf"}

\* With the address as it is: what counts as the newest request for a dossier is for it.
CreationSends(d) ==
  {k \in [kind : FileKinds \cup {"dossier", "data", "standard"}, arg : Addresses \cup Standards \cup Types,
          live : BOOLEAN, heard : BOOLEAN, stage : {"sent", "ok", "refused"}, answer : {None, "file", "missing"}] :
     /\ k.kind = "dossier" => k.arg \in Dossiers /\ (k.live => k.arg = d)
     /\ k.kind = "standard" => k.arg \in Standards
     /\ k.kind \in FileKinds => k.arg \in Types}

CreationShown(d) ==
  {p \in [dossier : {d}, context : {d, None}, error : BOOLEAN, code : Standards \cup {None},
          standard : Standards \cup {None}, loading : BOOLEAN, step : {1, 2}, selected : SUBSET Types,
          format : Creation!Formats, run : Creation!Formats \cup {None}, chosen : SUBSET Types,
          made : SUBSET (Types \X Creation!Formats), generated : BOOLEAN] :
     p.generated => p.chosen \subseteq {m[1] : m \in p.made}}

CreationFits(d) == Fits(CreationSends(d), CreationShown(d), {None})
CreationInv == \E d \in Addresses : CreationFits(d)

\* Calls of the page may be refused, ignored, or left by whoever awaited them.
LEMMA CreationLasting == ASSUME NEW d \in Addresses PROVE Lasting(CreationSends(d))
<1> SUFFICES ASSUME NEW k \in CreationSends(d)
             PROVE  /\ [k EXCEPT !.stage = "refused"] \in CreationSends(d)
                    /\ [k EXCEPT !.heard = FALSE] \in CreationSends(d)
                    /\ [k EXCEPT !.live = FALSE] \in CreationSends(d)
  BY Zenon DEF Lasting
<1>1. [k EXCEPT !.stage = "refused"] \in CreationSends(d)
  BY DEF CreationSends
<1>2. [k EXCEPT !.heard = FALSE] \in CreationSends(d)
  BY DEF CreationSends
<1>3. [k EXCEPT !.live = FALSE] \in CreationSends(d)
  BY DEF CreationSends
<1>. QED
  BY <1>1, <1>2, <1>3

\* What the page sends is one of its calls.
LEMMA CreationNew ==
  ASSUME NEW d \in Addresses, NEW kind, NEW arg,
         \/ kind = "dossier" /\ arg = d /\ d \in Dossiers
         \/ kind = "data" /\ arg \in Addresses
         \/ kind = "standard" /\ arg \in Standards
         \/ kind \in FileKinds /\ arg \in Types
  PROVE  Sent(kind, arg) \in CreationSends(d)
<1>1. arg \in Addresses \cup Standards \cup Types
  OBVIOUS
<1>. QED
  BY <1>1 DEF Sent, CreationSends, FileKinds

\* The page as it is first seen.
LEMMA CreationInit == Creation!Init => CreationInv
<1> SUFFICES ASSUME Creation!Init PROVE CreationInv
  OBVIOUS
<1>1. PICK s \in Standards :
        \/ page = [Creation!Mounted EXCEPT !.code = s, !.standard = s]
        \/ \E ts \in SUBSET Required[s] \ {{}}, f \in Creation!Formats :
             page = [Creation!Mounted EXCEPT !.code = s, !.standard = s, !.selected = ts, !.step = 2, !.format = f]
  BY Zenon DEF Creation!Init
<1>2. call \in Table(CreationSends(None)) /\ server = None
  BY Zenon DEF Creation!Init, Table
<1>3. [Creation!Mounted EXCEPT !.code = s, !.standard = s] \in CreationShown(None)
  BY DEF Creation!Mounted, CreationShown, Creation!Formats
<1>4. ASSUME NEW ts \in SUBSET Required[s], NEW f \in Creation!Formats
      PROVE  [Creation!Mounted EXCEPT !.code = s, !.standard = s, !.selected = ts, !.step = 2, !.format = f]
               \in CreationShown(None)
  <2>1. ts \in SUBSET Types
    BY StandardsAssumption
  <2>. QED
    BY <2>1 DEF Creation!Mounted, CreationShown, Creation!Formats
<1>5. page \in CreationShown(None)
  <2>1. CASE page = [Creation!Mounted EXCEPT !.code = s, !.standard = s]
    BY <1>3, <2>1
  <2>2. CASE \E ts \in SUBSET Required[s] \ {{}}, f \in Creation!Formats :
               page = [Creation!Mounted EXCEPT !.code = s, !.standard = s, !.selected = ts, !.step = 2, !.format = f]
    <3>1. PICK ts \in SUBSET Required[s] \ {{}}, f \in Creation!Formats :
            page = [Creation!Mounted EXCEPT !.code = s, !.standard = s, !.selected = ts, !.step = 2, !.format = f]
      BY Zenon, <2>2
    <3>2. ts \in SUBSET Required[s]
      OBVIOUS
    <3>. QED
      BY Zenon, <1>4, <3>1, <3>2
  <2>. QED
    BY Zenon, <1>1, <2>1, <2>2
<1>. QED
  BY <1>2, <1>5 DEF CreationInv, CreationFits, Fits, Addresses

\* The page
LEMMA CreationNavigates ==
  ASSUME NEW d \in Addresses, CreationFits(d), NEW to \in Addresses, Creation!Navigate(to) PROVE CreationFits(to)'
<1> DEFINE first == IF to # None THEN Sent("dossier", to) ELSE Sent("standard", page.code)
           p == [page EXCEPT !.dossier = to, !.context = None, !.error = FALSE, !.selected = {}, !.generated = FALSE]
           newest == Ignored(call, {"dossier"})
           calls == Put(newest, first)
<1>1. /\ Free(call) # {} /\ server' = server
      /\ to = None => page.code # None
      /\ \/ call' = calls /\ page' = p
         \/ /\ Free(calls) # {} /\ call' = Put(calls, Sent("data", to))
            /\ page' = [p EXCEPT !.loading = TRUE]
  BY CreationCalls DEF Creation!Navigate, Creation!OnlyNewest
<1>2. page \in CreationShown(d) /\ call \in Table(CreationSends(d)) /\ server \in {None}
  BY DEF CreationFits, Fits
<1>3. p \in CreationShown(to) /\ [p EXCEPT !.loading = TRUE] \in CreationShown(to)
  BY <1>2 DEF CreationShown
<1>4. first \in CreationSends(to)
  <2>1. to = None => page.code \in Standards
    BY <1>1, <1>2 DEF CreationShown
  <2>. QED
    BY <2>1, CreationNew DEF Addresses
<1> HIDE DEF first
<1>5. ASSUME NEW k \in CreationSends(d)
      PROVE  IF k.kind \in {"dossier"} THEN [k EXCEPT !.live = FALSE] \in CreationSends(to) ELSE k \in CreationSends(to)
  <2>1. CASE k.kind = "dossier"
    <3> DEFINE x == [k EXCEPT !.live = FALSE]
    <3>1. x \in CreationSends(d)
      BY CreationLasting DEF Lasting
    <3>2. x.live = FALSE
      BY DEF CreationSends
    <3> HIDE DEF x
    <3>3. x \in CreationSends(to)
      BY <3>1, <3>2 DEF CreationSends
    <3>. QED
      BY <2>1, <3>3 DEF x
  <2>2. CASE k.kind # "dossier"
    BY <2>2 DEF CreationSends
  <2>. QED
    BY <2>1, <2>2
<1>6. newest \in Table(CreationSends(to)) /\ Free(newest) # {}
  <2>1. \A x \in Calls : newest[x] = IF call[x] # None /\ call[x].kind \in {"dossier"}
                                     THEN [call[x] EXCEPT !.live = FALSE] ELSE call[x]
    BY DEF Ignored
  <2>2. \A x \in Calls : newest[x] \in CreationSends(to) \cup {None}
    BY <1>2, <1>5, <2>1 DEF Table
  <2>3. newest = [x \in Calls |-> newest[x]]
    BY DEF Ignored
  <2> HIDE DEF newest
  <2>4. newest \in Table(CreationSends(to))
    BY <2>2, <2>3 DEF Table
  <2>5. Free(newest) # {}
    BY <1>1, <2>1 DEF Free
  <2>. QED
    BY <2>4, <2>5
<1> HIDE DEF newest
<1>7. calls \in Table(CreationSends(to))
  BY <1>4, <1>6, PutCall
<1> HIDE DEF calls
<1>8. Sent("data", to) \in CreationSends(to)
  BY CreationNew
<1>9. Free(calls) # {} => Put(calls, Sent("data", to)) \in Table(CreationSends(to))
  BY <1>7, <1>8, PutCall
<1> HIDE DEF p
<1>. QED
  BY <1>1, <1>2, <1>3, <1>7, <1>9 DEF CreationFits, Fits

LEMMA CreationStarts == CreationInv /\ Creation!Starts => CreationInv'
<1> SUFFICES ASSUME NEW d \in Addresses, CreationFits(d), Creation!Starts
             PROVE  \E a \in Addresses : CreationFits(a)'
  BY DEF CreationInv
<1>1. page \in CreationShown(d)
  BY DEF CreationFits, Fits
<1>2. ASSUME NEW to \in Addresses, Creation!Navigate(to) PROVE CreationFits(to)'
  BY <1>2, CreationNavigates
<1>3. ASSUME NEW p \in CreationShown(d), Turns(p) PROVE CreationFits(d)'
  BY <1>3, PageTurns DEF CreationFits
<1>4. ASSUME NEW k \in CreationSends(d), NEW p \in CreationShown(d), Gives(call, k, p) PROVE CreationFits(d)'
  BY <1>4, PageGives DEF CreationFits
<1> USE CreationCalls DEF Creation!Does
<1>5. ASSUME NEW s \in Standards, Creation!PickStandard(s) PROVE CreationFits(d)'
  <2>1. [page EXCEPT !.code = s] \in CreationShown(d)
    BY <1>1 DEF CreationShown
  <2>. QED
    BY <1>4, <1>5, <2>1, CreationNew DEF Creation!PickStandard
<1>6. ASSUME NEW t \in Types, Creation!ToggleTemplate(t) PROVE CreationFits(d)'
  <2>1. [page EXCEPT !.selected = IF t \in @ THEN @ \ {t} ELSE @ \cup {t}] \in CreationShown(d)
    BY <1>1 DEF CreationShown
  <2>. QED
    BY <1>3, <1>6, <2>1 DEF Creation!ToggleTemplate
<1>7. ASSUME NEW f \in Creation!Formats, Creation!ChooseFormat(f) PROVE CreationFits(d)'
  <2>1. [page EXCEPT !.format = f] \in CreationShown(d)
    BY <1>1 DEF CreationShown
  <2>. QED
    BY <1>3, <1>7, <2>1 DEF Creation!ChooseFormat
<1>8. CASE Creation!NextStep \/ Creation!Back
  <2>1. [page EXCEPT !.step = 2] \in CreationShown(d) /\ [page EXCEPT !.step = 1, !.generated = FALSE] \in CreationShown(d)
    BY <1>1 DEF CreationShown
  <2>. QED
    BY <1>3, <1>8, <2>1 DEF Creation!NextStep, Creation!Back
<1>9. CASE Creation!HandleGenerate
  <2> DEFINE p == [page EXCEPT !.chosen = page.selected, !.made = {}, !.generated = FALSE]
  <2>1. p \in CreationShown(d) /\ p.chosen = page.selected
    BY <1>1 DEF CreationShown
  <2>2. page.selected = {} => [p EXCEPT !.generated = TRUE] \in CreationShown(d)
    BY <1>1 DEF CreationShown
  <2>3. [p EXCEPT !.run = page.format] \in CreationShown(d)
    BY <1>1 DEF CreationShown
  <2>4. \/ page.selected = {} /\ Turns([p EXCEPT !.generated = TRUE])
        \/ \E t \in page.selected : Gives(call, Sent(Creation!Kind(t, page.format), t), [p EXCEPT !.run = page.format])
    BY <1>9 DEF Creation!HandleGenerate
  <2> HIDE DEF p
  <2>5. ASSUME NEW t \in page.selected PROVE Sent(Creation!Kind(t, page.format), t) \in CreationSends(d)
    BY <1>1, CreationNew DEF CreationShown, Creation!Kind, FileKinds
  <2>. QED
    BY <1>3, <1>4, <2>2, <2>3, <2>4, <2>5
<1>. QED
  BY <1>2, <1>5, <1>6, <1>7, <1>8, <1>9 DEF Creation!Starts, Addresses

\* The server, of which everything is read
LEMMA CreationServes ==
  ASSUME NEW d \in Addresses, CreationFits(d), NEW c \in Calls, Creation!Serves(c) PROVE CreationFits(d)'
<1>1. call \in Table(CreationSends(d)) /\ server \in {None}
  BY DEF CreationFits, Fits
<1>2. call[c] # None /\ call[c] \in CreationSends(d)
  BY <1>1 DEF Table, Creation!Serves, Creation!Reads, Creation!At
<1>3. CASE Refuses(c)
  BY <1>3, CreationLasting, PageRefuses DEF CreationFits
<1>4. ASSUME NEW answer \in {None, "file", "missing"}, Answers(c, answer, server) PROVE CreationFits(d)'
  <2>1. [call[c] EXCEPT !.stage = "ok", !.answer = answer] \in CreationSends(d)
    BY <1>2 DEF CreationSends
  <2>. QED
    BY Zenon, <1>1, <1>4, <2>1, AnswerOf, PageServes DEF CreationFits
<1>. QED
  BY <1>3, <1>4, CreationCalls DEF Creation!Serves, Creation!Reads

\* What follows an answer
LEMMA CreationContinues ==
  ASSUME NEW d \in Addresses, CreationFits(d), NEW c \in Calls, Creation!Continues(c) PROVE CreationFits(d)'
<1>1. page \in CreationShown(d) /\ call \in Table(CreationSends(d)) /\ page.dossier = d
  BY DEF CreationFits, Fits, CreationShown
<1>2. call[c] # None /\ call[c] \in CreationSends(d)
  BY Zenon, <1>1, CreationCalls DEF Table, Arrived, Unheard, Creation!Continues, Creation!GotDossier, Creation!GotData,
     Creation!GotStandard, Creation!GotFile, Creation!FallsBack, Creation!GivesUp
<1>3. ASSUME NEW p \in CreationShown(d), Goes(Dropped(c), p) PROVE CreationFits(d)'
  BY <1>3, PageDrops DEF CreationFits
<1>4. ASSUME NEW k \in CreationSends(d), NEW p \in CreationShown(d), Goes([call EXCEPT ![c] = k], p)
      PROVE  CreationFits(d)'
  BY <1>4, PageGoes DEF CreationFits
<1>5. ASSUME NEW told \in BOOLEAN, NEW p \in CreationShown(d), told => p.chosen \subseteq {m[1] : m \in p.made}
      PROVE  Creation!Ended(p, told) \in CreationShown(d)
  BY <1>5 DEF CreationShown, Creation!Ended
<1> USE CreationCalls
<1>6. CASE Creation!GotDossier(c)
  <2>1. call[c].kind = "dossier" /\ call[c].arg \in Dossiers /\ (call[c].live => call[c].arg = d)
    BY <1>2, <1>6 DEF Creation!GotDossier, CreationSends
  <2>2. StandardOf[call[c].arg] \in Standards
    BY <2>1, StandardsAssumption
  <2> DEFINE s == StandardOf[call[c].arg]
             p == [page EXCEPT !.context = call[c].arg, !.code = s, !.standard = s]
  <2>3. call[c].live => p \in CreationShown(d)
    BY <1>1, <2>1, <2>2 DEF CreationShown
  <2>4. [page EXCEPT !.error = TRUE] \in CreationShown(d)
    BY <1>1 DEF CreationShown
  <2>5. \/ Goes(Dropped(c), page) \/ Goes(Dropped(c), [page EXCEPT !.error = TRUE])
        \/ call[c].live /\ Goes(Dropped(c), p)
    BY <1>6 DEF Creation!GotDossier
  <2> HIDE DEF p
  <2>. QED
    BY <1>1, <1>3, <2>3, <2>4, <2>5
<1>7. CASE Creation!GotData(c)
  <2> DEFINE p == [page EXCEPT !.loading = FALSE]
  <2>1. p \in CreationShown(d)
    BY <1>1 DEF CreationShown
  <2>2. ASSUME NEW s \in Standards PROVE [p EXCEPT !.code = s] \in CreationShown(d)
    BY <2>1 DEF CreationShown
  <2>3. \/ Goes(Dropped(c), p)
        \/ \E s \in Standards : \/ Goes(Dropped(c), [p EXCEPT !.code = s])
                                \/ Goes([call EXCEPT ![c] = Sent("standard", s)], [p EXCEPT !.code = s])
    BY Zenon, <1>7 DEF Creation!GotData
  <2> HIDE DEF p
  <2>4. ASSUME NEW s \in Standards PROVE Sent("standard", s) \in CreationSends(d)
    BY CreationNew
  <2>. QED
    BY <1>3, <1>4, <2>1, <2>2, <2>3, <2>4
<1>8. CASE Creation!GotStandard(c)
  <2>1. call[c].arg \in Standards
    BY <1>2, <1>8 DEF Creation!GotStandard, CreationSends
  <2>2. [page EXCEPT !.standard = call[c].arg] \in CreationShown(d)
    BY <1>1, <2>1 DEF CreationShown
  <2>. QED
    BY <1>1, <1>3, <1>8, <2>2 DEF Creation!GotStandard
<1>9. CASE Creation!GotFile(c)
  <2>1. call[c].arg \in Types /\ call[c].kind \in Creation!Formats
    BY <1>2, <1>9 DEF Creation!GotFile, CreationSends, FileKinds, Creation!Formats
  <2> DEFINE made == Creation!Saved(c)
             p == [page EXCEPT !.made = made]
  <2>2. made \in SUBSET (Types \X Creation!Formats) /\ page.made \subseteq made
    BY <1>1, <2>1 DEF CreationShown, Creation!Saved
  <2>3. \/ Creation!Todo(made) = {} /\ Goes(Dropped(c), Creation!Ended(p, TRUE))
        \/ \E t \in Creation!Todo(made) : Goes([call EXCEPT ![c] = Sent(Creation!Kind(t, page.run), t)], p)
    BY <1>9 DEF Creation!GotFile
  <2> HIDE DEF made
  <2>4. p \in CreationShown(d) /\ p.chosen = page.chosen /\ p.made = made
    BY <1>1, <2>2 DEF CreationShown
  <2>5. Creation!Todo(made) = {} => Creation!Ended(p, TRUE) \in CreationShown(d)
    <3>1. Creation!Todo(made) = {} => p.chosen \subseteq {m[1] : m \in p.made}
      BY <2>4 DEF Creation!Todo
    <3> HIDE DEF p
    <3>. QED
      BY <1>5, <2>4, <3>1
  <2>6. ASSUME NEW t \in Creation!Todo(made) PROVE Sent(Creation!Kind(t, page.run), t) \in CreationSends(d)
    <3>1. t \in Types
      BY <1>1 DEF CreationShown, Creation!Todo
    <3>2. Creation!Kind(t, page.run) \in FileKinds
      BY DEF Creation!Kind, FileKinds
    <3>. QED
      BY <3>1, <3>2, CreationNew
  <2> HIDE DEF p
  <2>. QED
    BY <1>3, <1>4, <2>3, <2>4, <2>5, <2>6
<1>10. CASE Creation!FallsBack(c)
  <2>1. call[c].arg \in Types
    BY <1>2, <1>10 DEF Creation!FallsBack, CreationSends, FileKinds
  <2>2. Sent("docx", call[c].arg) \in CreationSends(d)
    BY <2>1, CreationNew DEF FileKinds
  <2>. QED
    BY <1>1, <1>4, <1>10, <2>2 DEF Creation!FallsBack
<1>11. CASE Creation!GivesUp(c)
  BY <1>1, <1>3, <1>5, <1>11 DEF Creation!GivesUp
<1>12. CASE Creation!Unheard(c)
  BY <1>1, <1>3, <1>12 DEF Unheard
<1>. QED
  BY <1>6, <1>7, <1>8, <1>9, <1>10, <1>11, <1>12 DEF Creation!Continues

\* Whatever happens on the page.
LEMMA CreationNext == CreationInv /\ Creation!Next => CreationInv'
<1> SUFFICES ASSUME NEW d \in Addresses, CreationFits(d), Creation!Next PROVE CreationInv'
  BY DEF CreationInv
<1>1. CreationInv
  BY DEF CreationInv
<1>2. ASSUME NEW c \in Calls, Creation!Refuses(c) \/ Creation!Loses(c) PROVE CreationFits(d)'
  BY <1>2, CreationCalls, CreationLasting, PageRefuses, PageLoses DEF CreationFits
<1>3. CreationFits(d)' => CreationInv'
  BY DEF CreationInv
<1>. QED
  BY <1>1, <1>2, <1>3, CreationStarts, CreationServes, CreationContinues DEF Creation!Next

\* What is checked of the page follows.
LEMMA CreationHolds ==
  CreationInv => Creation!TypeOK /\ Creation!ContextOfTheAddress /\ Creation!AllOfThemMade
BY DEF CreationInv, CreationFits, Fits, CreationShown, Addresses, Creation!TypeOK, Creation!ContextOfTheAddress,
       Creation!AllOfThemMade

-----------------------------------------------------------------------------
\* Suppliers and materials: "held" are the approvals handlers have relied on.

\* Supply deals with its calls as PageCalls says.
LEMMA SupplyCalls ==
  /\ \A kind, arg : Supply!Sent(kind, arg) = Sent(kind, arg)
  /\ \A calls : Supply!Free(calls) = Free(calls)
  /\ \A calls, k : Supply!Put(calls, k) = Put(calls, k)
  /\ \A calls, kinds : Supply!Ignored(calls, kinds) = Ignored(calls, kinds)
  /\ Supply!Unmounted = Unmounted
  /\ \A c : Supply!Dropped(c) = Dropped(c)
  /\ \A calls, k, p : Supply!Gives(calls, k, p) <=> Gives(calls, k, p)
  /\ \A p : Supply!Turns(p) <=> Turns(p)
  /\ \A calls, p : Supply!Goes(calls, p) <=> Goes(calls, p)
  /\ \A c : (Supply!Arrived(c) <=> Arrived(c)) /\ (Supply!Ok(c) <=> Ok(c))
  /\ \A c, result, s : Supply!Answers(c, result, s) <=> Answers(c, result, s)
  /\ \A c : (Supply!Refuses(c) <=> Refuses(c)) /\ (Supply!Loses(c) <=> Loses(c))
  /\ \A c : Supply!Unheard(c) <=> Unheard(c)
BY DEF Sent, Supply!Sent, Free, Supply!Free, Put, Supply!Put, Ignored, Supply!Ignored, Unmounted, Supply!Unmounted,
       Dropped, Supply!Dropped, Gives, Supply!Gives, Turns, Supply!Turns, Goes, Supply!Goes, Arrived, Supply!Arrived,
       Ok, Supply!Ok, Answers, Supply!Answers, Refuses, Supply!Refuses, Loses, Supply!Loses, Unheard, Supply!Unheard

SupplyPlain == {"materials", "suppliers", "alert", "alerts", "saveSupplier", "portal"}
SupplyOfOne == {"deleteSupplier", "verify", "invite", "certs"}
SupplyKinds == SupplyPlain \cup SupplyOfOne \cup
               {"eligible", "saveMaterial", "deleteMaterial", "upload", "deleteCert", "portalUpload"}
SupplyForms == [edit : Materials \cup {None}, category : Categories, supplier : Suppliers]
SupplyCerts == Suppliers \X Supply!Kinds
SupplyRows == [id : Materials, supplier : Suppliers, category : Categories]
SupplyLists == [all : SUBSET Suppliers, verifiable : SUBSET Suppliers, eligible : SUBSET Suppliers]

SupplyRecords ==
  [kind : SupplyKinds,
   arg : {None} \cup Suppliers \cup Materials \cup Categories \cup SupplyForms \cup SupplyCerts
           \cup [cert : SupplyCerts, of : Suppliers],
   live : BOOLEAN, heard : BOOLEAN, stage : Supply!Stages,
   answer : {None} \cup SupplyLists \cup (SUBSET SupplyRows) \cup (SUBSET Suppliers) \cup (SUBSET SupplyCerts)]

\* A material that was looked at is of a supplier held eligible for its category.
SupplySends(held) ==
  {k \in SupplyRecords :
     /\ k.kind \in SupplyOfOne => k.arg \in Suppliers
     /\ k.kind = "eligible" => k.arg \in Categories
     /\ k.kind = "deleteMaterial" => k.arg \in Materials
     /\ k.kind \in {"upload", "portalUpload"} => k.arg \in SupplyCerts
     /\ k.kind = "saveMaterial" => k.arg \in SupplyForms
     /\ k.kind = "deleteCert" => k.arg \in [cert : SupplyCerts, of : Suppliers]
     /\ k.kind = "saveMaterial" /\ k.stage = "looked" => <<k.arg.supplier, k.arg.category>> \in held
     /\ k.kind = "deleteCert" /\ k.stage \in {"looked", "ok"} => k.arg.cert[1] = k.arg.of
     /\ k.kind = "materials" /\ k.stage = "ok" => k.answer \in SUBSET SupplyRows
     /\ k.kind = "suppliers" /\ k.stage = "ok" => k.answer \in SupplyLists
     /\ k.kind = "eligible" /\ k.stage = "ok" => k.answer \in SUBSET Suppliers
     /\ k.kind = "certs" /\ k.stage = "ok" => k.answer \in SUBSET SupplyCerts}

SupplyShown ==
  [suppliers : SUBSET Suppliers, verifiable : SUBSET Suppliers, eligible : SUBSET Suppliers,
   materials : SUBSET SupplyRows, form : Supply!Forms \cup {None}, supplierForm : BOOLEAN,
   certsOf : Suppliers \cup {None}, certs : SUBSET SupplyCerts, inviting : Suppliers \cup {None},
   busy : SUBSET Supply!Flags]

\* What is held is held until its supplier is gone, or the certification body has ended it.
SupplyStored(held) ==
  {s \in [suppliers : SUBSET Suppliers, certs : SUBSET SupplyCerts, verified : SUBSET Suppliers,
          invited : SUBSET Suppliers, eligible : SUBSET (Suppliers \X Categories),
          ended : SUBSET (Suppliers \X Categories),
          material : [Materials -> [supplier : Suppliers, category : Categories] \cup {None}]] :
     /\ s.verified \subseteq s.suppliers /\ s.invited \subseteq s.suppliers
     /\ \A x \in held : x[1] \in s.suppliers => x \in s.eligible \cup s.ended
     /\ \A m \in Materials : s.material[m] # None =>
          /\ s.material[m].supplier \in s.suppliers
          /\ <<s.material[m].supplier, s.material[m].category>> \in s.eligible \cup s.ended}

SupplyFits(held) == Fits(SupplySends(held), SupplyShown, SupplyStored(held))
SupplyInv == \E held \in SUBSET (Suppliers \X Categories) : SupplyFits(held)

\* Calls of the page may be refused, ignored, or left by whoever awaited them.
LEMMA SupplyLasting == ASSUME NEW held PROVE Lasting(SupplySends(held))
<1> SUFFICES ASSUME NEW k \in SupplySends(held)
             PROVE  /\ [k EXCEPT !.stage = "refused"] \in SupplySends(held)
                    /\ [k EXCEPT !.heard = FALSE] \in SupplySends(held)
                    /\ [k EXCEPT !.live = FALSE] \in SupplySends(held)
  BY Zenon DEF Lasting
<1>1. [k EXCEPT !.stage = "refused"] \in SupplySends(held)
  BY DEF SupplySends, SupplyRecords, Supply!Stages
<1>2. [k EXCEPT !.heard = FALSE] \in SupplySends(held)
  <2> DEFINE x == [k EXCEPT !.heard = FALSE]
  <2>1. x \in SupplyRecords
    BY DEF SupplySends, SupplyRecords
  <2>2. x.kind = k.kind /\ x.arg = k.arg /\ x.stage = k.stage /\ x.answer = k.answer
    BY DEF SupplySends, SupplyRecords
  <2> HIDE DEF x
  <2>3. x \in SupplySends(held)
    BY <2>1, <2>2 DEF SupplySends
  <2>. QED
    BY <2>3 DEF x
<1>3. [k EXCEPT !.live = FALSE] \in SupplySends(held)
  <2> DEFINE x == [k EXCEPT !.live = FALSE]
  <2>1. x \in SupplyRecords
    BY DEF SupplySends, SupplyRecords
  <2>2. x.kind = k.kind /\ x.arg = k.arg /\ x.stage = k.stage /\ x.answer = k.answer
    BY DEF SupplySends, SupplyRecords
  <2> HIDE DEF x
  <2>3. x \in SupplySends(held)
    BY <2>1, <2>2 DEF SupplySends
  <2>. QED
    BY <2>3 DEF x
<1>. QED
  BY <1>1, <1>2, <1>3

\* What the page sends is one of its calls.
LEMMA SupplyNew ==
  ASSUME NEW held, NEW kind, NEW arg,
         \/ kind \in SupplyPlain /\ arg = None
         \/ kind \in SupplyOfOne /\ arg \in Suppliers
         \/ kind = "eligible" /\ arg \in Categories
         \/ kind = "deleteMaterial" /\ arg \in Materials
         \/ kind \in {"upload", "portalUpload"} /\ arg \in SupplyCerts
         \/ kind = "saveMaterial" /\ arg \in SupplyForms
         \/ kind = "deleteCert" /\ arg \in [cert : SupplyCerts, of : Suppliers]
  PROVE  Sent(kind, arg) \in SupplySends(held)
<1>1. arg \in {None} \cup Suppliers \cup Materials \cup Categories \cup SupplyForms \cup SupplyCerts
                \cup [cert : SupplyCerts, of : Suppliers]
  OBVIOUS
<1>2. kind \in SupplyKinds
  BY DEF SupplyKinds, SupplyPlain, SupplyOfOne
<1>. QED
  BY <1>1, <1>2 DEF Sent, SupplySends, SupplyRecords, SupplyPlain, SupplyOfOne, Supply!Stages

\* The page as it is first seen.
LEMMA SupplyInit == Supply!Init => SupplyInv
<1> SUFFICES ASSUME Supply!Init PROVE SupplyFits({})
  BY DEF SupplyInv
<1> DEFINE s == CHOOSE s \in Suppliers : TRUE
           g == CHOOSE g \in Categories : TRUE
           m == CHOOSE m \in Materials : TRUE
           row == [supplier |-> s, category |-> g]
<1>1. s \in Suppliers /\ g \in Categories /\ m \in Materials
  BY SomeAssumption
<1> HIDE DEF s, g, m
<1>2. PICK used \in BOOLEAN :
        /\ server = [suppliers |-> Suppliers, certs |-> {<<s, "halal_cert">>}, verified |-> {},
                     invited |-> {}, eligible |-> {<<s, g>>}, ended |-> {},
                     material |-> [x \in Materials |-> IF used /\ x = m THEN row ELSE None]]
        /\ page = [Supply!Mounted EXCEPT !.suppliers = Suppliers, !.verifiable = {s}, !.busy = {},
                     !.eligible = {s}, !.certs = {<<s, "halal_cert">>},
                     !.materials = IF used THEN {[id |-> m, supplier |-> s, category |-> g]} ELSE {}]
  BY Zenon DEF Supply!Init, s, g, m
<1>3. call \in Table(SupplySends({}))
  BY DEF Supply!Init, Table
<1>4. {<<s, "halal_cert">>} \in SUBSET SupplyCerts /\ {<<s, g>>} \in SUBSET (Suppliers \X Categories)
  BY <1>1 DEF SupplyCerts, Supply!Kinds
<1>5. (IF used THEN {[id |-> m, supplier |-> s, category |-> g]} ELSE {}) \in SUBSET SupplyRows
  BY <1>1 DEF SupplyRows
<1>6. page \in SupplyShown
  BY <1>1, <1>2, <1>4, <1>5 DEF SupplyShown, Supply!Mounted
<1>7. [x \in Materials |-> IF used /\ x = m THEN row ELSE None]
        \in [Materials -> [supplier : Suppliers, category : Categories] \cup {None}]
  BY <1>1
<1>8. server \in SupplyStored({})
  BY <1>1, <1>2, <1>4, <1>7 DEF SupplyStored
<1>. QED
  BY <1>3, <1>6, <1>8 DEF SupplyFits, Fits

\* The page
LEMMA SupplyStarts ==
  ASSUME NEW held, SupplyFits(held), Supply!Starts PROVE SupplyFits(held)'
<1>1. /\ page \in SupplyShown /\ server \in SupplyStored(held)
      /\ page.form # None => page.form \in Supply!Forms
      /\ page.materials \subseteq SupplyRows /\ page.certs \subseteq SupplyCerts
      /\ page.certsOf \in Suppliers \cup {None}
  BY DEF SupplyFits, Fits, SupplyShown
<1>2. ASSUME NEW p \in SupplyShown, Turns(p) PROVE SupplyFits(held)'
  <2>. QED
    BY <1>2, PageTurns DEF SupplyFits
<1>3. ASSUME NEW k \in SupplySends(held), NEW p \in SupplyShown, Gives(call, k, p) PROVE SupplyFits(held)'
  BY <1>3, PageGives DEF SupplyFits
<1>4. ASSUME NEW flag \in Supply!Flags PROVE Supply!Flagged(flag) \in SupplyShown
  BY <1>1 DEF SupplyShown, Supply!Flagged
<1> USE SupplyCalls DEF Supply!Does
<1>5. CASE Supply!Search \/ Supply!UpdateRiskAlert \/ Supply!SaveSupplier
  BY <1>3, <1>4, <1>5, SupplyNew DEF Supply!Search, Supply!UpdateRiskAlert, Supply!SaveSupplier,
     Supply!Flags, SupplyPlain
<1>6. ASSUME NEW form \in Supply!Forms, Supply!OpenForm(form) PROVE SupplyFits(held)'
  <2>1. [page EXCEPT !.form = form] \in SupplyShown
    BY <1>1 DEF SupplyShown
  <2>2. form.category \in Categories
    BY DEF Supply!Forms
  <2>. QED
    BY <1>3, <1>6, <2>1, <2>2, SupplyNew DEF Supply!OpenForm
<1>7. CASE Supply!OpenMatCreate
  <2>1. PICK g \in Categories : Supply!OpenForm([edit |-> None, category |-> g, supplier |-> None])
    BY <1>7 DEF Supply!OpenMatCreate
  <2>2. [edit |-> None, category |-> g, supplier |-> None] \in Supply!Forms
    BY DEF Supply!Forms
  <2>. QED
    BY <1>6, <2>1, <2>2
<1>8. ASSUME NEW m \in Materials, Supply!OpenMatEdit(m) PROVE SupplyFits(held)'
  <2>1. PICK row \in page.materials :
          Supply!OpenForm([edit |-> m, category |-> row.category, supplier |-> row.supplier])
    BY <1>8 DEF Supply!OpenMatEdit
  <2>2. [edit |-> m, category |-> row.category, supplier |-> row.supplier] \in Supply!Forms
    BY <1>1, <2>1 DEF Supply!Forms, SupplyRows
  <2>. QED
    BY <1>6, <2>1, <2>2
<1>9. ASSUME NEW form \in Supply!Forms PROVE [page EXCEPT !.form = form] \in SupplyShown
  BY <1>1 DEF SupplyShown
<1>10. ASSUME NEW g \in Categories, Supply!ChooseCategory(g) PROVE SupplyFits(held)'
  <2> DEFINE form == [page.form EXCEPT !.category = g]
  <2>1. form \in Supply!Forms
    BY <1>1, <1>10 DEF Supply!ChooseCategory, Supply!Forms
  <2>2. [page EXCEPT !.form.category = g] = [page EXCEPT !.form = form]
    BY <1>1 DEF SupplyShown
  <2> HIDE DEF form
  <2>. QED
    BY <1>3, <1>9, <1>10, <2>1, <2>2, SupplyNew DEF Supply!ChooseCategory
<1>11. ASSUME NEW s \in Suppliers, Supply!ChooseSupplier(s) PROVE SupplyFits(held)'
  <2> DEFINE form == [page.form EXCEPT !.supplier = s]
  <2>1. form \in Supply!Forms
    BY <1>1, <1>11 DEF Supply!ChooseSupplier, Supply!Forms
  <2>2. [page EXCEPT !.form.supplier = s] = [page EXCEPT !.form = form]
    BY <1>1 DEF SupplyShown
  <2> HIDE DEF form
  <2>. QED
    BY <1>2, <1>9, <1>11, <2>1, <2>2 DEF Supply!ChooseSupplier
<1>12. CASE Supply!SaveMaterial
  <2>1. page.form \in SupplyForms
    BY <1>1, <1>12 DEF Supply!SaveMaterial, Supply!Forms, SupplyForms
  <2>. QED
    BY <1>3, <1>4, <1>12, <2>1, SupplyNew DEF Supply!SaveMaterial, Supply!Flags
<1>13. ASSUME NEW m \in Materials, Supply!DeleteMaterial(m) PROVE SupplyFits(held)'
  BY <1>1, <1>3, <1>13, SupplyNew DEF Supply!DeleteMaterial
<1>14. CASE Supply!OpenSupplierForm
  <2>1. [page EXCEPT !.supplierForm = TRUE] \in SupplyShown
    BY <1>1 DEF SupplyShown
  <2>. QED
    BY <1>2, <1>14, <2>1 DEF Supply!OpenSupplierForm
<1>15. ASSUME NEW s \in Suppliers, Supply!DeleteSupplier(s) \/ Supply!VerifySupplier(s) PROVE SupplyFits(held)'
  BY <1>1, <1>3, <1>15, SupplyNew DEF Supply!DeleteSupplier, Supply!VerifySupplier, SupplyOfOne
<1>16. ASSUME NEW s \in Suppliers, Supply!SendInvite(s) PROVE SupplyFits(held)'
  <2>1. [page EXCEPT !.inviting = s] \in SupplyShown
    BY <1>1 DEF SupplyShown
  <2>. QED
    BY <1>3, <1>16, <2>1, SupplyNew DEF Supply!SendInvite, SupplyOfOne
<1>17. ASSUME NEW s \in Suppliers, Supply!OpenCerts(s) PROVE SupplyFits(held)'
  <2>1. [Supply!Flagged("certs") EXCEPT !.certsOf = s] \in SupplyShown
    BY <1>4 DEF SupplyShown, Supply!Flags
  <2>. QED
    BY <1>3, <1>17, <2>1, SupplyNew DEF Supply!OpenCerts, SupplyOfOne
<1>18. CASE Supply!UploadCert
  <2>1. PICK kind \in Supply!Kinds : Gives(call, Sent("upload", <<page.certsOf, kind>>), Supply!Flagged("uploading"))
    BY <1>18 DEF Supply!UploadCert
  <2>2. <<page.certsOf, kind>> \in SupplyCerts
    BY <1>1, <1>18 DEF Supply!UploadCert, SupplyCerts
  <2>. QED
    BY <1>3, <1>4, <2>1, <2>2, SupplyNew DEF Supply!Flags
<1>19. ASSUME NEW x \in page.certs, Supply!DeleteCert(x) PROVE SupplyFits(held)'
  <2>1. [cert |-> x, of |-> page.certsOf] \in [cert : SupplyCerts, of : Suppliers]
    BY <1>1, <1>19 DEF Supply!DeleteCert
  <2>. QED
    BY <1>1, <1>3, <1>19, <2>1, SupplyNew DEF Supply!DeleteCert
<1>20. CASE Supply!CloseDialog
  <2>1. [page EXCEPT !.form = None, !.supplierForm = FALSE, !.certsOf = None] \in SupplyShown
    BY <1>1 DEF SupplyShown
  <2>. QED
    BY <1>2, <1>20, <2>1 DEF Supply!CloseDialog
<1>21. ASSUME NEW s \in Suppliers, Supply!PortalUpload(s) PROVE SupplyFits(held)'
  <2>1. <<s, "halal_cert">> \in SupplyCerts
    BY DEF SupplyCerts, Supply!Kinds
  <2>. QED
    BY <1>3, <1>4, <1>21, <2>1, SupplyNew DEF Supply!PortalUpload, Supply!Flags
<1>. QED
  BY <1>5, <1>7, <1>8, <1>10, <1>11, <1>12, <1>13, <1>14, <1>15, <1>16, <1>17, <1>18, <1>19, <1>20, <1>21
     DEF Supply!Starts

\* A handler goes on to another stage, or changes what is held.
LEMMA SupplyBecomes ==
  ASSUME NEW held, SupplyFits(held), NEW c \in Calls, call[c] # None, NEW stage, NEW s \in SupplyStored(held),
         Supply!Becomes(c, stage, s), [call[c] EXCEPT !.stage = stage] \in SupplySends(held)
  PROVE  SupplyFits(held)'
<1>1. call \in Table(SupplySends(held))
  BY DEF SupplyFits, Fits
<1>2. call' = [call EXCEPT ![c] = [call[c] EXCEPT !.stage = stage]]
  BY <1>1, StageOf DEF Supply!Becomes
<1>. QED
  BY <1>2, PageServes DEF Supply!Becomes, SupplyFits

LEMMA SupplyStage ==
  ASSUME NEW held, NEW k \in SupplySends(held), NEW stage \in Supply!Stages,
         stage = "ok" => k.kind \notin {"materials", "suppliers", "eligible", "certs"},
         k.kind = "saveMaterial" /\ stage = "looked" => <<k.arg.supplier, k.arg.category>> \in held,
         k.kind = "deleteCert" /\ stage \in {"looked", "ok"} => k.arg.cert[1] = k.arg.of
  PROVE  [k EXCEPT !.stage = stage] \in SupplySends(held)
<1> DEFINE x == [k EXCEPT !.stage = stage]
<1>1. x \in SupplyRecords
  BY DEF SupplySends, SupplyRecords
<1>2. x.kind = k.kind /\ x.arg = k.arg /\ x.stage = stage /\ x.answer = k.answer
  BY DEF SupplySends, SupplyRecords
<1> HIDE DEF x
<1>3. x \in SupplySends(held)
  BY <1>1, <1>2 DEF SupplySends
<1>. QED
  BY <1>3 DEF x

\* The server
LEMMA SupplyServes ==
  ASSUME NEW held \in SUBSET (Suppliers \X Categories), SupplyFits(held), NEW c \in Calls,
         call[c] # None, Supply!Serves(c) \/ Supply!Refuses(c)
  PROVE  SupplyInv'
<1>1. call \in Table(SupplySends(held)) /\ server \in SupplyStored(held)
  BY DEF SupplyFits, Fits
<1>2. call[c] \in SupplySends(held)
  BY <1>1 DEF Table
<1>3. SupplyFits(held)' => SupplyInv'
  BY DEF SupplyInv
<1>4. ASSUME NEW stage \in Supply!Stages, NEW s \in SupplyStored(held), Supply!Becomes(c, stage, s),
             [call[c] EXCEPT !.stage = stage] \in SupplySends(held)
      PROVE  SupplyInv'
  BY <1>3, <1>4, SupplyBecomes
<1>5. [call[c] EXCEPT !.stage = "refused"] \in SupplySends(held)
  BY <1>2, SupplyLasting DEF Lasting
<1>6. \A s : Supply!Becomes(c, "refused", s) /\ s = server => SupplyInv'
  BY <1>1, <1>4, <1>5 DEF Supply!Stages
<1>7. \A s \in SupplyStored(held) :
        Supply!Becomes(c, "ok", s) /\ call[c].kind \notin {"materials", "suppliers", "eligible", "certs"}
          /\ (call[c].kind = "deleteCert" => call[c].arg.cert[1] = call[c].arg.of)
        => SupplyInv'
  BY <1>2, <1>4, SupplyStage DEF Supply!Stages
<1>8. CASE Supply!Look(c)
  <2>1. CASE ~Supply!Passes(c)
    BY <1>6, <1>8, <2>1 DEF Supply!Look
  <2>2. CASE Supply!Passes(c) /\ call[c].kind = "saveMaterial"
    <3> DEFINE pair == <<call[c].arg.supplier, call[c].arg.category>>
    <3>0. PICK more : more = held \cup {pair}
      OBVIOUS
    <3>1. call[c].arg \in SupplyForms
      BY <1>2, <2>2 DEF SupplySends
    <3>2. pair \in Suppliers \X Categories /\ pair \in server.eligible
      BY <2>2, <3>1 DEF Supply!Passes, Supply!EligibleFor, SupplyForms
    <3>3. more \in SUBSET (Suppliers \X Categories)
      BY <3>0, <3>2
    <3>4. SupplySends(held) \subseteq SupplySends(more)
      BY <3>0 DEF SupplySends
    <3>5. server \in SupplyStored(more)
      BY <1>1, <3>0, <3>2 DEF SupplyStored
    <3>6. SupplyFits(more)
      BY <3>4, <3>5 DEF SupplyFits, Fits, Table
    <3>7. call[c] \in SupplySends(more) /\ pair \in more
      BY <1>2, <3>0, <3>4
    <3> HIDE DEF pair
    <3>8. [call[c] EXCEPT !.stage = "looked"] \in SupplySends(more)
      BY <2>2, <3>7, SupplyStage DEF Supply!Stages, pair
    <3>9. Supply!Becomes(c, "looked", server)
      BY <1>8, <2>2 DEF Supply!Look
    <3>10. SupplyFits(more)'
      BY <3>5, <3>6, <3>8, <3>9, SupplyBecomes
    <3>. QED
      BY <3>3, <3>10 DEF SupplyInv
  <2>3. CASE Supply!Passes(c) /\ call[c].kind # "saveMaterial"
    <3>1. call[c].kind = "deleteCert" => call[c].arg.cert[1] = call[c].arg.of
      BY <2>3 DEF Supply!Passes, Supply!CertOf
    <3>2. [call[c] EXCEPT !.stage = "looked"] \in SupplySends(held)
      BY <1>2, <2>3, <3>1, SupplyStage DEF Supply!Stages
    <3>. QED
      BY <1>1, <1>4, <1>8, <2>3, <3>2 DEF Supply!Look, Supply!Stages
  <2>. QED
    BY <2>1, <2>2, <2>3
<1>9. CASE Supply!WriteMaterial(c)
  <2> DEFINE form == call[c].arg
             free == IF form.edit # None THEN {m \in {form.edit} : server.material[m] # None}
                     ELSE {m \in Materials : server.material[m] = None}
             row == [supplier |-> form.supplier, category |-> form.category]
             m == CHOOSE m \in free : TRUE
             s == [server EXCEPT !.material[m] = row]
  <2>1. call[c].kind = "saveMaterial" /\ call[c].stage = "looked"
    BY <1>9 DEF Supply!WriteMaterial, Supply!At
  <2>2. form \in SupplyForms /\ <<form.supplier, form.category>> \in held
    BY <1>2, <2>1 DEF SupplySends
  <2>3. \/ Supply!Becomes(c, "refused", server)
        \/ form.supplier \in server.suppliers /\ free # {} /\ Supply!Becomes(c, "ok", s)
    BY <1>9 DEF Supply!WriteMaterial
  <2>4. ASSUME form.supplier \in server.suppliers, free # {}
        PROVE  s \in SupplyStored(held)
    <3>1. m \in free
      BY <2>4
    <3>2. free \subseteq Materials
      BY <2>2 DEF SupplyForms
    <3> HIDE DEF free, m
    <3> DEFINE material == [server.material EXCEPT ![m] = row]
    <3>3. row \in [supplier : Suppliers, category : Categories] /\ row.supplier \in server.suppliers
          /\ <<row.supplier, row.category>> \in server.eligible \cup server.ended
      BY <1>1, <2>2, <2>4 DEF SupplyStored, SupplyForms
    <3>4. server.material \in [Materials -> [supplier : Suppliers, category : Categories] \cup {None}]
      BY <1>1 DEF SupplyStored
    <3> HIDE DEF row, form
    <3>5. material \in [Materials -> [supplier : Suppliers, category : Categories] \cup {None}]
          /\ \A x \in Materials : material[x] = row \/ material[x] = server.material[x]
      BY <3>1, <3>2, <3>3, <3>4
    <3>6. s = [server EXCEPT !.material = material]
      BY <1>1 DEF SupplyStored
    <3> HIDE DEF material
    <3>7. [server EXCEPT !.material = material] \in SupplyStored(held)
      <4>1. \A x \in Materials : material[x] # None =>
              /\ material[x].supplier \in server.suppliers
              /\ <<material[x].supplier, material[x].category>> \in server.eligible \cup server.ended
        BY <1>1, <3>3, <3>5 DEF SupplyStored
      <4>. QED
        BY <1>1, <3>5, <4>1 DEF SupplyStored
    <3>. QED
      BY <3>6, <3>7
  <2> HIDE DEF s, free
  <2>. QED
    BY <1>6, <1>7, <2>1, <2>3, <2>4
<1>10. CASE Supply!WriteVerified(c)
  <2>1. call[c].kind = "verify"
    BY <1>10 DEF Supply!WriteVerified, Supply!At
  <2>2. CASE call[c].arg \in server.suppliers \ server.verified
    <3>1. [server EXCEPT !.verified = @ \cup {call[c].arg}] \in SupplyStored(held)
      BY <1>1, <2>2 DEF SupplyStored
    <3>. QED
      BY <1>7, <1>10, <2>1, <2>2, <3>1 DEF Supply!WriteVerified
  <2>3. CASE call[c].arg \notin server.suppliers \ server.verified
    BY <1>6, <1>10, <2>3 DEF Supply!WriteVerified
  <2>. QED
    BY <2>2, <2>3
<1>11. CASE Supply!WriteInvite(c)
  <2>1. call[c].kind = "invite"
    BY <1>11 DEF Supply!WriteInvite, Supply!At
  <2>2. [server EXCEPT !.invited = @ \cup ({call[c].arg} \cap server.suppliers)] \in SupplyStored(held)
    BY <1>1 DEF SupplyStored
  <2>. QED
    BY <1>7, <1>11, <2>1, <2>2 DEF Supply!WriteInvite
<1>12. CASE Supply!WriteCert(c)
  <2>1. call[c].kind \in {"upload", "portalUpload"}
    BY <1>12 DEF Supply!WriteCert, Supply!At
  <2>2. call[c].arg \in SupplyCerts
    BY <1>2, <2>1 DEF SupplySends
  <2>3. [server EXCEPT !.certs = @ \cup {call[c].arg}] \in SupplyStored(held)
    BY <1>1, <2>2 DEF SupplyStored
  <2>. QED
    BY <1>6, <1>7, <1>12, <2>1, <2>3 DEF Supply!WriteCert
<1>13. CASE Supply!WriteDeletion(c)
  <2>1. call[c].kind = "deleteCert" /\ call[c].stage = "looked"
    BY <1>13 DEF Supply!WriteDeletion, Supply!At
  <2>2. call[c].arg.cert[1] = call[c].arg.of
    BY <1>2, <2>1 DEF SupplySends
  <2>3. [server EXCEPT !.certs = @ \ {call[c].arg.cert}] \in SupplyStored(held)
    BY <1>1 DEF SupplyStored
  <2>. QED
    BY <1>7, <1>13, <2>1, <2>2, <2>3 DEF Supply!WriteDeletion
<1>14. CASE Supply!DropSupplier(c)
  <2> DEFINE gone == call[c].arg
             named == \E m \in Materials : server.material[m] # None /\ server.material[m].supplier = gone
             s == [server EXCEPT !.suppliers = @ \ {gone}, !.verified = @ \ {gone}, !.invited = @ \ {gone},
                     !.certs = {x \in @ : x[1] # gone}, !.eligible = {x \in @ : x[1] # gone}]
  <2>1. call[c].kind = "deleteSupplier"
    BY <1>14 DEF Supply!DropSupplier, Supply!At
  <2>2. CASE named
    <3>. QED
      BY <1>6, <1>14, <2>2 DEF Supply!DropSupplier
  <2>3. CASE ~named
    <3>1. Supply!Becomes(c, "ok", s)
      BY <1>14, <2>3 DEF Supply!DropSupplier
    <3>2. s \in SupplyStored(held)
      <4> HIDE DEF gone
      <4>1. \A m \in Materials : server.material[m] # None =>
              /\ server.material[m].supplier \in server.suppliers \ {gone}
              /\ <<server.material[m].supplier, server.material[m].category>>
                   \in {x \in server.eligible : x[1] # gone} \cup server.ended
        BY <1>1, <2>3 DEF SupplyStored
      <4>2. \A x \in held : x[1] \in server.suppliers \ {gone} =>
              x \in {y \in server.eligible : y[1] # gone} \cup server.ended
        BY <1>1 DEF SupplyStored
      <4>. QED
        BY Zenon, <1>1, <4>1, <4>2 DEF SupplyStored
    <3> HIDE DEF s
    <3>. QED
      BY <1>7, <2>1, <3>1, <3>2
  <2>. QED
    BY <2>2, <2>3
<1>15. CASE Supply!DropMaterial(c)
  <2> DEFINE m == call[c].arg
             s == [server EXCEPT !.material[m] = None]
  <2>1. call[c].kind = "deleteMaterial"
    BY <1>15 DEF Supply!DropMaterial, Supply!At
  <2>2. m \in Materials
    BY <1>2, <2>1 DEF SupplySends
  <2>3. s \in SupplyStored(held)
    <3> HIDE DEF m
    <3> DEFINE material == [server.material EXCEPT ![m] = None]
    <3>1. material \in [Materials -> [supplier : Suppliers, category : Categories] \cup {None}]
          /\ \A x \in Materials : material[x] = None \/ material[x] = server.material[x]
      BY <1>1 DEF SupplyStored
    <3>2. s = [server EXCEPT !.material = material]
      BY <1>1 DEF SupplyStored
    <3> HIDE DEF material
    <3>3. [server EXCEPT !.material = material] \in SupplyStored(held)
      BY <1>1, <3>1 DEF SupplyStored
    <3>. QED
      BY <3>2, <3>3
  <2>4. Supply!Becomes(c, "ok", s) \/ Supply!Becomes(c, "refused", s)
    BY <1>15 DEF Supply!DropMaterial
  <2> HIDE DEF s
  <2>5. CASE Supply!Becomes(c, "ok", s)
    BY <1>7, <2>1, <2>3, <2>5
  <2>6. CASE Supply!Becomes(c, "refused", s)
    BY <1>4, <1>5, <2>3, <2>6 DEF Supply!Stages
  <2>. QED
    BY <2>4, <2>5, <2>6
<1>16. CASE Supply!Reads(c)
  <2> DEFINE kind == call[c].kind
             all == [all |-> server.suppliers,
                     verifiable |-> {x[1] : x \in server.certs} \ server.verified,
                     eligible |-> {x[1] : x \in server.eligible}]
             answer == CASE kind = "materials" -> Supply!MaterialRows
                         [] kind = "suppliers" -> all
                         [] kind = "eligible" -> {s \in Suppliers : <<s, call[c].arg>> \in server.eligible}
                         [] kind = "certs" -> {x \in server.certs : x[1] = call[c].arg}
                         [] OTHER -> None
  <2>1. kind \notin {"saveMaterial", "deleteCert"} /\ Answers(c, answer, server)
    BY <1>16, SupplyCalls DEF Supply!Reads, Supply!At
  <2>2. Supply!MaterialRows \in SUBSET SupplyRows
    BY <1>1 DEF Supply!MaterialRows, SupplyRows, SupplyStored
  <2>3. server.suppliers \in SUBSET Suppliers /\ server.certs \in SUBSET SupplyCerts
        /\ server.eligible \in SUBSET (Suppliers \X Categories)
    BY <1>1 DEF SupplyStored
  <2>4. all \in SupplyLists
    <3>1. {x[1] : x \in server.certs} \in SUBSET Suppliers
      BY <2>3 DEF SupplyCerts
    <3>2. {x[1] : x \in server.eligible} \in SUBSET Suppliers
      BY <2>3
    <3>. QED
      BY <2>3, <3>1, <3>2 DEF SupplyLists
  <2>5. {x \in server.certs : x[1] = call[c].arg} \in SUBSET SupplyCerts
    BY <2>3
  <2>6. /\ kind = "materials" => answer \in SUBSET SupplyRows
        /\ kind = "suppliers" => answer \in SupplyLists
        /\ kind = "eligible" => answer \in SUBSET Suppliers
        /\ kind = "certs" => answer \in SUBSET SupplyCerts
        /\ kind \notin {"materials", "suppliers", "eligible", "certs"} => answer = None
    <3> HIDE DEF all
    <3>. QED
      BY <2>2, <2>4, <2>5
  <2> HIDE DEF answer
  <2> DEFINE k == [call[c] EXCEPT !.stage = "ok", !.answer = answer]
  <2>7. k \in SupplyRecords
    <3>1. answer \in {None} \cup SupplyLists \cup (SUBSET SupplyRows) \cup (SUBSET Suppliers) \cup (SUBSET SupplyCerts)
      BY <2>6
    <3>. QED
      BY <1>2, <3>1 DEF SupplySends, SupplyRecords, Supply!Stages
  <2>8. k.kind = kind /\ k.arg = call[c].arg /\ k.stage = "ok" /\ k.answer = answer
    BY <1>2 DEF SupplySends, SupplyRecords
  <2>9. call' = [call EXCEPT ![c] = k] /\ server' = server /\ page' = page
    BY Zenon, <1>1, <2>1, AnswerOf
  <2> HIDE DEF k
  <2>10. k \in SupplySends(held)
    BY <1>2, <2>1, <2>6, <2>7, <2>8 DEF SupplySends
  <2>11. SupplyFits(held)'
    BY <1>1, <2>9, <2>10, PageServes DEF SupplyFits
  <2>. QED
    BY <1>3, <2>11
<1>17. CASE Supply!Refuses(c)
  <2>1. SupplyFits(held)'
    BY <1>17, SupplyCalls, SupplyLasting, PageRefuses DEF SupplyFits
  <2>. QED
    BY <1>3, <2>1
<1>. QED
  BY <1>8, <1>9, <1>10, <1>11, <1>12, <1>13, <1>14, <1>15, <1>16, <1>17 DEF Supply!Serves

\* What follows an answer
LEMMA SupplyContinues ==
  ASSUME NEW held, SupplyFits(held), NEW c \in Calls, Supply!Continues(c) PROVE SupplyFits(held)'
<1>1. page \in SupplyShown /\ call \in Table(SupplySends(held)) /\ server \in SupplyStored(held)
  BY DEF SupplyFits, Fits
<1>2. call[c] # None /\ call[c] \in SupplySends(held)
  BY <1>1, SupplyCalls DEF Table, Arrived, Unheard, Supply!Continues, Supply!GotRows, Supply!GotEligible,
     Supply!GotSavedMaterial, Supply!GotDeletedMaterial, Supply!GotSupplier, Supply!GotVerified,
     Supply!GotInvite, Supply!GotCertChange, Supply!GotAlert, Supply!GotPortalUpload
<1>3. ASSUME NEW p \in SupplyShown, Goes(Dropped(c), p) PROVE SupplyFits(held)'
  BY <1>3, PageDrops DEF SupplyFits
<1>4. ASSUME NEW kind, NEW arg, NEW p \in SupplyShown, Supply!Refetch(c, kind, arg, p),
             \/ kind \in SupplyPlain /\ arg = None
             \/ kind = "certs" /\ arg \in Suppliers
      PROVE  SupplyFits(held)'
  <2>1. Sent(kind, arg) \in SupplySends(held)
    BY <1>4, SupplyNew DEF SupplyOfOne
  <2>. QED
    BY <1>4, <2>1, SupplyCalls, PageGoes DEF Supply!Refetch, SupplyFits
<1>5. ASSUME NEW flag PROVE Supply!Without(flag) \in SupplyShown
  BY <1>1 DEF SupplyShown, Supply!Without
<1>6. ASSUME NEW flag \in Supply!Flags, NEW p \in SupplyShown PROVE [p EXCEPT !.busy = @ \cup {flag}] \in SupplyShown
  BY DEF SupplyShown
<1>7. ASSUME NEW flag \in Supply!Flags PROVE Supply!Flagged(flag) \in SupplyShown
  BY <1>1, <1>6 DEF Supply!Flagged
<1> USE SupplyCalls
<1>8. CASE Supply!GotRows(c)
  <2> DEFINE kind == call[c].kind
             p == Supply!Without(kind)
  <2>1. p \in SupplyShown
    BY <1>5
  <2>2. /\ kind \in {"materials", "suppliers", "certs", "alerts", "portal"}
        /\ Goes(Dropped(c),
             IF ~Ok(c) THEN p
             ELSE CASE kind = "materials" -> [p EXCEPT !.materials = call[c].answer]
                    [] kind = "suppliers" -> [p EXCEPT !.suppliers = call[c].answer.all,
                                                       !.verifiable = call[c].answer.verifiable,
                                                       !.eligible = call[c].answer.eligible]
                    [] kind = "certs" -> [p EXCEPT !.certs = call[c].answer]
                    [] OTHER -> p)
    BY <1>8 DEF Supply!GotRows
  <2> HIDE DEF p
  <2>3. CASE ~Ok(c) \/ kind \notin {"materials", "suppliers", "certs"}
    BY <1>3, <2>1, <2>2, <2>3
  <2>4. CASE Ok(c) /\ kind = "materials"
    <3>1. [p EXCEPT !.materials = call[c].answer] \in SupplyShown
      BY <1>2, <2>1, <2>4 DEF Ok, SupplySends, SupplyShown
    <3>. QED
      BY <1>3, <2>2, <2>4, <3>1
  <2>5. CASE Ok(c) /\ kind = "suppliers"
    <3>1. call[c].answer \in SupplyLists
      BY <1>2, <2>5 DEF Ok, SupplySends
    <3>2. [p EXCEPT !.suppliers = call[c].answer.all, !.verifiable = call[c].answer.verifiable,
                    !.eligible = call[c].answer.eligible] \in SupplyShown
      BY <2>1, <3>1 DEF SupplyLists, SupplyShown
    <3>. QED
      BY <1>3, <2>2, <2>5, <3>2
  <2>6. CASE Ok(c) /\ kind = "certs"
    <3>1. [p EXCEPT !.certs = call[c].answer] \in SupplyShown
      BY <1>2, <2>1, <2>6 DEF Ok, SupplySends, SupplyShown
    <3>. QED
      BY <1>3, <2>2, <2>6, <3>1
  <2>. QED
    BY <2>3, <2>4, <2>5, <2>6
<1>9. CASE Supply!GotEligible(c)
  <2>1. Ok(c) => [page EXCEPT !.eligible = call[c].answer] \in SupplyShown
    BY <1>1, <1>2, <1>9 DEF Supply!GotEligible, Ok, SupplySends, SupplyShown
  <2>. QED
    BY <1>1, <1>3, <1>9, <2>1 DEF Supply!GotEligible
<1>10. CASE Supply!GotSavedMaterial(c)
  <2> DEFINE p == Supply!Without("savingMaterial")
  <2>1. p \in SupplyShown
    BY <1>5
  <2>2. \/ Supply!Refetch(c, "materials", None, [p EXCEPT !.form = None, !.busy = @ \cup {"materials"}])
        \/ Goes(Dropped(c), p)
    BY <1>10 DEF Supply!GotSavedMaterial
  <2> HIDE DEF p
  <2>3. [p EXCEPT !.form = None, !.busy = @ \cup {"materials"}] \in SupplyShown
    BY <2>1 DEF SupplyShown, Supply!Flags
  <2>. QED
    BY <1>3, <1>4, <2>1, <2>2, <2>3 DEF SupplyPlain
<1>11. CASE Supply!GotDeletedMaterial(c)
  BY <1>1, <1>3, <1>4, <1>7, <1>11 DEF Supply!GotDeletedMaterial, Supply!Flags, SupplyPlain
<1>12. ASSUME NEW p \in SupplyShown, Supply!RefetchBoth(c, p) PROVE SupplyFits(held)'
  <2> DEFINE one == [call EXCEPT ![c] = Sent("suppliers", None)]
  <2>1. Sent("suppliers", None) \in SupplySends(held) /\ Sent("materials", None) \in SupplySends(held)
    BY SupplyNew DEF SupplyPlain
  <2>2. one \in Table(SupplySends(held))
    BY <1>1, <2>1 DEF Table
  <2>3. [p EXCEPT !.busy = @ \cup {"suppliers", "materials"}] \in SupplyShown
    BY DEF SupplyShown, Supply!Flags
  <2>4. [p EXCEPT !.busy = @ \cup {"suppliers"}] \in SupplyShown
    BY <1>6 DEF Supply!Flags
  <2>5. \/ Goes(one, [p EXCEPT !.busy = @ \cup {"suppliers"}])
        \/ Free(one) # {} /\ Goes(Put(one, Sent("materials", None)), [p EXCEPT !.busy = @ \cup {"suppliers", "materials"}])
    BY <1>12 DEF Supply!RefetchBoth
  <2> HIDE DEF one
  <2>6. \E q \in SupplyShown, calls \in Table(SupplySends(held)) : Goes(calls, q)
    BY <2>1, <2>2, <2>3, <2>4, <2>5, PutCall
  <2>. QED
    BY <1>1, <2>6 DEF Goes, SupplyFits, Fits
<1>13. CASE Supply!GotSupplier(c)
  <2> DEFINE p == Supply!Without("savingSupplier")
  <2>1. p \in SupplyShown
    BY <1>5
  <2>2. \/ Goes(Dropped(c), p) \/ Goes(Dropped(c), page)
        \/ Supply!RefetchBoth(c, [p EXCEPT !.supplierForm = FALSE]) \/ Supply!RefetchBoth(c, page)
    BY <1>13 DEF Supply!GotSupplier
  <2> HIDE DEF p
  <2>3. [p EXCEPT !.supplierForm = FALSE] \in SupplyShown
    BY <2>1 DEF SupplyShown
  <2>. QED
    BY <1>1, <1>3, <1>12, <2>1, <2>2, <2>3
<1>14. CASE Supply!GotVerified(c)
  BY <1>1, <1>3, <1>4, <1>7, <1>14 DEF Supply!GotVerified, Supply!Flags, SupplyPlain
<1>15. CASE Supply!GotInvite(c)
  <2>1. [page EXCEPT !.inviting = None] \in SupplyShown
    BY <1>1 DEF SupplyShown
  <2>. QED
    BY <1>3, <1>15, <2>1 DEF Supply!GotInvite
<1>16. CASE Supply!GotCertChange(c)
  <2> DEFINE p == IF call[c].kind = "upload" THEN Supply!Without("uploading") ELSE page
             s == IF call[c].kind = "upload" THEN call[c].arg[1] ELSE call[c].arg.of
  <2>1. p \in SupplyShown
    BY <1>1, <1>5
  <2>2. s \in Suppliers
    BY <1>2, <1>16 DEF Supply!GotCertChange, SupplySends, SupplyCerts
  <2>3. \/ Supply!Refetch(c, "certs", s, [p EXCEPT !.certsOf = s, !.busy = @ \cup {"certs"}])
        \/ Goes(Dropped(c), p)
    BY <1>16 DEF Supply!GotCertChange
  <2> HIDE DEF p, s
  <2>4. [p EXCEPT !.certsOf = s, !.busy = @ \cup {"certs"}] \in SupplyShown
    BY <2>1, <2>2 DEF SupplyShown, Supply!Flags
  <2>. QED
    BY <1>3, <1>4, <2>1, <2>2, <2>3, <2>4
<1>17. CASE Supply!GotAlert(c)
  BY <1>3, <1>4, <1>5, <1>6, <1>17 DEF Supply!GotAlert, Supply!Flags, SupplyPlain
<1>18. CASE Supply!GotPortalUpload(c)
  BY <1>3, <1>4, <1>5, <1>6, <1>18 DEF Supply!GotPortalUpload, Supply!Flags, SupplyPlain
<1>19. CASE Supply!Unheard(c)
  BY <1>1, <1>3, <1>19 DEF Unheard
<1>. QED
  BY <1>8, <1>9, <1>10, <1>11, <1>13, <1>14, <1>15, <1>16, <1>17, <1>18, <1>19 DEF Supply!Continues

\* Whatever happens on the page.
LEMMA SupplyNext == SupplyInv /\ Supply!Next => SupplyInv'
<1> SUFFICES ASSUME NEW held \in SUBSET (Suppliers \X Categories), SupplyFits(held), Supply!Next PROVE SupplyInv'
  BY DEF SupplyInv
<1>1. SupplyFits(held)' => SupplyInv'
  BY DEF SupplyInv
<1>2. ASSUME NEW c \in Calls, Supply!Loses(c) PROVE SupplyFits(held)'
  BY <1>2, SupplyCalls, SupplyLasting, PageLoses DEF SupplyFits
<1>3. ASSUME NEW c \in Calls, Supply!Serves(c) \/ Supply!Refuses(c) PROVE SupplyInv'
  <2>1. call[c] # None
    BY <1>3, SupplyCalls DEF Refuses, Supply!Serves, Supply!Look, Supply!WriteMaterial, Supply!WriteVerified,
       Supply!WriteInvite, Supply!WriteCert, Supply!WriteDeletion, Supply!DropSupplier, Supply!DropMaterial,
       Supply!Reads, Supply!At
  <2>. QED
    BY <1>3, <2>1, SupplyServes
<1>4. CASE Supply!EligibilityEnds
  <2>1. PICK x \in server.eligible :
          server' = [server EXCEPT !.eligible = @ \ {x}, !.ended = @ \cup {x}]
    BY Zenon, <1>4 DEF Supply!EligibilityEnds
  <2>2. server \in SupplyStored(held)
    BY DEF SupplyFits, Fits
  <2>3. server' \in SupplyStored(held)
    BY <2>1, <2>2 DEF SupplyStored
  <2>4. UNCHANGED <<page, call>>
    BY <1>4 DEF Supply!EligibilityEnds
  <2>. QED
    BY <1>1, <2>3, <2>4 DEF SupplyFits, Fits
<1>. QED
  BY <1>1, <1>2, <1>3, <1>4, SupplyStarts, SupplyContinues DEF Supply!Next

\* What is checked of the page follows.
LEMMA SupplyHolds ==
  SupplyInv => Supply!TypeOK /\ Supply!MaterialWithinScope /\ Supply!DeletesOfTheOpen
<1> SUFFICES ASSUME NEW held, SupplyFits(held)
             PROVE  Supply!TypeOK /\ Supply!MaterialWithinScope /\ Supply!DeletesOfTheOpen
  BY DEF SupplyInv
<1>1. page \in SupplyShown /\ call \in Table(SupplySends(held)) /\ server \in SupplyStored(held)
  BY DEF SupplyFits, Fits
<1>2. \A c \in Calls : call[c] # None => call[c] \in SupplySends(held)
  BY <1>1 DEF Table
<1>3. Supply!TypeOK
  BY <1>1, <1>2 DEF Supply!TypeOK, SupplyShown, SupplyStored, SupplySends, SupplyRecords, SupplyCerts
<1>4. Supply!MaterialWithinScope
  BY <1>1 DEF Supply!MaterialWithinScope, SupplyStored
<1>5. Supply!DeletesOfTheOpen
  BY <1>2 DEF Supply!DeletesOfTheOpen, Supply!At, SupplySends
<1>. QED
  BY <1>3, <1>4, <1>5

-----------------------------------------------------------------------------
\* The upload: reports carry the number of their analysis, and only one analysis is awaited.

\* Upload deals with its calls as PageCalls says.
LEMMA UploadCalls ==
  /\ \A kind, arg : Upload!Sent(kind, arg) = Sent(kind, arg)
  /\ \A calls : Upload!Free(calls) = Free(calls)
  /\ \A calls, k : Upload!Put(calls, k) = Put(calls, k)
  /\ \A calls, kinds : Upload!Ignored(calls, kinds) = Ignored(calls, kinds)
  /\ Upload!Unmounted = Unmounted
  /\ \A c : Upload!Dropped(c) = Dropped(c)
  /\ \A calls, k, p : Upload!Gives(calls, k, p) <=> Gives(calls, k, p)
  /\ \A p : Upload!Turns(p) <=> Turns(p)
  /\ \A calls, p : Upload!Goes(calls, p) <=> Goes(calls, p)
  /\ \A c : (Upload!Arrived(c) <=> Arrived(c)) /\ (Upload!Ok(c) <=> Ok(c))
  /\ \A c, result, s : Upload!Answers(c, result, s) <=> Answers(c, result, s)
  /\ \A c : (Upload!Refuses(c) <=> Refuses(c)) /\ (Upload!Loses(c) <=> Loses(c))
  /\ \A c : Upload!Unheard(c) <=> Unheard(c)
BY DEF Sent, Upload!Sent, Free, Upload!Free, Put, Upload!Put, Ignored, Upload!Ignored, Unmounted, Upload!Unmounted,
       Dropped, Upload!Dropped, Gives, Upload!Gives, Turns, Upload!Turns, Goes, Upload!Goes, Arrived, Upload!Arrived,
       Ok, Upload!Ok, Answers, Upload!Answers, Refuses, Upload!Refuses, Loses, Upload!Loses, Unheard, Upload!Unheard

UploadKinds == {"evaluate", "settle", "rewrite", "review", "existing"}
UploadVersions == {v \in Seq(Nat) : Len(v) <= MaxVersions}
UploadPlaces == Users \X Files
UploadDrops == [of : Files, earlier : UploadVersions]
UploadReviews == [of : UploadPlaces, content : Upload!Reports]
UploadRecords ==
  [kind : UploadKinds, arg : {None} \cup UploadDrops \cup UploadReviews \cup UploadPlaces,
   live : BOOLEAN, heard : BOOLEAN, stage : {"sent", "ok", "refused"}, answer : {None} \cup Upload!Reports]

\* A report is of the file that was evaluated, a review of the file it is sent for.
UploadSends ==
  {k \in UploadRecords :
     /\ k.kind \in {"evaluate", "settle"} => k.arg \in UploadDrops
     /\ k.kind = "review" => k.arg \in UploadReviews /\ k.arg.of[2] = k.arg.content.of
     /\ k.kind = "existing" => k.arg \in UploadPlaces
     /\ k.kind = "settle" \/ (k.kind = "evaluate" /\ k.stage = "ok") =>
          k.answer \in Upload!Reports /\ k.answer.of = k.arg.of}

\* A report is there when the page is done; it and what it is compared with are of the file.
UploadShown(user) ==
  {p \in [user : {user}, phase : Upload!Phases, typed : BOOLEAN, file : Files \cup {None},
          report : Upload!Reports \cup {None}, versions : UploadVersions,
          previous : Upload!Reports \cup {None}, existing : Upload!Reports \cup {None},
          rewriting : BOOLEAN, rewritten : BOOLEAN, review : Upload!Reports \cup {None}, saved : BOOLEAN] :
     /\ p.report # None => p.phase = "done"
     /\ p.phase = "done" => p.report \in Upload!Reports /\ p.report.of = p.file
     /\ p.previous # None => p.previous.of = p.file /\ (p.phase = "done" => p.previous.no < p.report.no)
     /\ p.review # None => p.phase = "done" /\ p.review.of = p.file}

UploadEntries == [versions : UploadVersions, report : Upload!Reports \cup {None}]
UploadKept ==
  [file : Files, typed : BOOLEAN, report : Upload!Reports, versions : UploadVersions,
   existing : Upload!Reports \cup {None}]

\* An entry that is kept of a file has its newest version first.
UploadEntry(x, entry, analyses) ==
  /\ entry.report \in Upload!Reports /\ entry.report.of = x[2]
  /\ entry.report.no = Head(entry.versions) /\ entry.report.no <= analyses

UploadStored(user) ==
  {s \in [analyses : Nat, switches : Nat, reviews : [UploadPlaces -> Upload!Reports \cup {None}],
          stored : [UploadPlaces -> UploadEntries], session : [Users -> UploadKept \cup {None}]] :
     /\ \A x \in UploadPlaces : s.reviews[x] # None => s.reviews[x].of = x[2]
     /\ \A x \in UploadPlaces :
          s.stored[x] # Upload!Unkept => x[1] = user /\ UploadEntry(x, s.stored[x], s.analyses)
     /\ \A u \in Users : s.session[u] # None => u = user /\ s.session[u].report.of = s.session[u].file}

\* An evaluation somebody waits for is the only one, and of the file the page names; its
\* report comes after the one it will be compared with.
Awaiting(k) == k # None /\ k.heard /\ k.kind \in {"evaluate", "settle"}
Reported(k) == k.kind = "settle" \/ k.stage = "ok"
UploadWaits(calls, p, analyses) ==
  \A x \in Calls : Awaiting(calls[x]) =>
    /\ p.phase = "analyzing" /\ calls[x].arg.of = p.file
    /\ Reported(calls[x]) => calls[x].answer.no <= analyses
    /\ Reported(calls[x]) /\ p.previous # None => p.previous.no < calls[x].answer.no
    /\ \A y \in Calls : Awaiting(calls[y]) => y = x
UploadEarlier(p, s) == p.previous # None => p.previous.no <= s.analyses

UploadFits(user) ==
  /\ Fits(UploadSends, UploadShown(user), UploadStored(user))
  /\ UploadWaits(call, page, server.analyses) /\ UploadEarlier(page, server)
UploadInv == \E user \in Users : UploadFits(user)

LEMMA UploadSame ==
  ASSUME NEW k \in UploadSends, NEW x \in UploadRecords, x.kind = k.kind, x.arg = k.arg, x.answer = k.answer,
         x.stage = "ok" => k.stage = "ok"
  PROVE  x \in UploadSends
BY DEF UploadSends

\* Calls of the page may be refused, ignored, or left by whoever awaited them.
LEMMA UploadLasting == Lasting(UploadSends)
<1> SUFFICES ASSUME NEW k \in UploadSends
             PROVE  /\ [k EXCEPT !.stage = "refused"] \in UploadSends
                    /\ [k EXCEPT !.heard = FALSE] \in UploadSends
                    /\ [k EXCEPT !.live = FALSE] \in UploadSends
  BY Zenon DEF Lasting
<1> DEFINE a == [k EXCEPT !.stage = "refused"]
           b == [k EXCEPT !.heard = FALSE]
           d == [k EXCEPT !.live = FALSE]
<1>1. a \in UploadRecords /\ a.kind = k.kind /\ a.arg = k.arg /\ a.answer = k.answer /\ a.stage = "refused"
  BY DEF UploadSends, UploadRecords
<1>2. b \in UploadRecords /\ b.kind = k.kind /\ b.arg = k.arg /\ b.answer = k.answer /\ b.stage = k.stage
  BY DEF UploadSends, UploadRecords
<1>3. d \in UploadRecords /\ d.kind = k.kind /\ d.arg = k.arg /\ d.answer = k.answer /\ d.stage = k.stage
  BY DEF UploadSends, UploadRecords
<1> HIDE DEF a, b, d
<1>4. a \in UploadSends /\ b \in UploadSends /\ d \in UploadSends
  BY <1>1, <1>2, <1>3, UploadSame
<1>. QED
  BY <1>4 DEF a, b, d

\* What the page sends is one of its calls.
LEMMA UploadNew ==
  ASSUME NEW kind, NEW arg,
         \/ kind = "evaluate" /\ arg \in UploadDrops
         \/ kind = "rewrite" /\ arg = None
         \/ kind = "review" /\ arg \in UploadReviews /\ arg.of[2] = arg.content.of
         \/ kind = "existing" /\ arg \in UploadPlaces
  PROVE  Sent(kind, arg) \in UploadSends
<1>1. Sent(kind, arg) \in UploadRecords
  BY DEF Sent, UploadRecords, UploadKinds
<1>. QED
  BY <1>1 DEF Sent, UploadSends

\* No other evaluation is waited for than before.
LEMMA UploadQuiet ==
  ASSUME NEW calls, NEW p, NEW analyses, UploadWaits(call, page, server.analyses),
         \/ page.phase # "analyzing"
         \/ /\ p.phase = page.phase /\ p.file = page.file /\ p.previous = page.previous
            /\ analyses = server.analyses,
         \A x \in Calls : Awaiting(calls[x]) =>
           /\ Awaiting(call[x]) /\ calls[x].arg = call[x].arg
           /\ Reported(calls[x]) => Reported(call[x]) /\ calls[x].answer = call[x].answer
  PROVE  UploadWaits(calls, p, analyses)
BY DEF UploadWaits

\* The newest version is the first of those that are kept.
LEMMA VersionedKeeps ==
  ASSUME NEW report \in Upload!Reports, NEW earlier \in UploadVersions
  PROVE  /\ Upload!Versioned(report, earlier) \in UploadEntries
         /\ Upload!Versioned(report, earlier).report = report
         /\ Head(Upload!Versioned(report, earlier).versions) = report.no
<1> DEFINE updated == <<report.no>> \o earlier
           n == IF Len(updated) < MaxVersions THEN Len(updated) ELSE MaxVersions
           versions == SubSeq(updated, 1, n)
<1>1. report.no \in Nat /\ earlier \in Seq(Nat)
  BY DEF Upload!Reports, UploadVersions
<1>2. updated \in Seq(Nat) /\ Len(updated) = 1 + Len(earlier) /\ updated[1] = report.no
  BY <1>1
<1>3. n \in 1 .. Len(updated) /\ n <= MaxVersions
  BY <1>1, <1>2, BoundsAssumption
<1> HIDE DEF n, updated
<1>4. versions \in Seq(Nat) /\ Len(versions) = n /\ versions[1] = updated[1]
  BY <1>2, <1>3
<1>5. versions \in UploadVersions /\ Head(versions) = report.no
  BY <1>2, <1>3, <1>4 DEF UploadVersions
<1>. QED
  BY <1>5 DEF Upload!Versioned, updated, n, UploadEntries

LEMMA UploadShows ==
  ASSUME NEW user \in Users, NEW p, NEW s, p \in UploadShown(user), s \in UploadStored(user), Upload!Shows(p, s)
  PROVE  page' = p /\ server' \in UploadStored(user) /\ server'.analyses = s.analyses
<1>1. CASE p.phase # "done"
  BY <1>1 DEF Upload!Shows
<1>2. CASE p.phase = "done"
  <2> DEFINE session == [s.session EXCEPT ![p.user] = Upload!Kept(p)]
  <2>1. p.user = user /\ p.report \in Upload!Reports /\ p.report.of = p.file /\ p.file \in Files
    BY <1>2 DEF UploadShown, Upload!Reports
  <2>2. Upload!Kept(p) \in UploadKept /\ Upload!Kept(p).report.of = Upload!Kept(p).file
    BY <2>1 DEF Upload!Kept, UploadKept, UploadShown
  <2>3. session \in [Users -> UploadKept \cup {None}]
        /\ \A u \in Users : session[u] # None => u = user /\ session[u].report.of = session[u].file
    BY <2>1, <2>2 DEF UploadStored
  <2>4. server' = [s EXCEPT !.session = session]
    BY <1>2 DEF Upload!Shows, UploadStored
  <2> HIDE DEF session
  <2>. QED
    BY <2>3, <2>4 DEF Upload!Shows, UploadStored
<1>. QED
  BY <1>1, <1>2

\* Nobody waits for an evaluation.
LEMMA UploadCalm ==
  ASSUME NEW calls, NEW p, NEW analyses, \A x \in Calls : ~Awaiting(calls[x])
  PROVE  UploadWaits(calls, p, analyses)
BY DEF UploadWaits

LEMMA UploadEmpty ==
  ASSUME NEW user \in Users
  PROVE  Upload!Empty(user) \in UploadShown(user) /\ Upload!Empty(user).previous = None
<1>1. <<>> \in UploadVersions
  BY BoundsAssumption DEF UploadVersions
<1>. QED
  BY <1>1 DEF Upload!Empty, UploadShown, Upload!Phases

\* A page that is opened again shows what was kept.
LEMMA UploadRestored ==
  ASSUME NEW user \in Users, NEW s \in UploadStored(user)
  PROVE  /\ Upload!Restored(user, s.session[user]) \in UploadShown(user)
         /\ Upload!Restored(user, s.session[user]).previous = None
<1> DEFINE kept == s.session[user]
<1>1. CASE kept = None
  BY <1>1, UploadEmpty DEF Upload!Restored
<1>2. CASE kept # None
  <2>1. kept \in UploadKept /\ kept.report.of = kept.file
    BY <1>2 DEF UploadStored
  <2> HIDE DEF kept
  <2>2. Upload!Restored(user, kept) \in UploadShown(user) /\ Upload!Restored(user, kept).previous = None
    BY <1>2, <2>1, UploadEmpty DEF Upload!Restored, UploadShown, Upload!Empty, UploadKept, Upload!Phases
  <2>. QED
    BY <2>2 DEF kept
<1>. QED
  BY <1>1, <1>2

LEMMA UploadNothing ==
  ASSUME NEW user \in Users
  PROVE  Upload!Nothing \in UploadStored(user)
<1>1. Upload!Unkept \in UploadEntries
  BY BoundsAssumption DEF Upload!Unkept, UploadEntries, UploadVersions
<1>. QED
  BY <1>1 DEF Upload!Nothing, UploadStored, UploadPlaces

LEMMA UploadEvaluated ==
  ASSUME NEW user \in Users, NEW f \in Files
  PROVE  Upload!Evaluated(user, f) \in UploadStored(user)
<1> DEFINE report == [of |-> f, no |-> 1]
           entry == [versions |-> <<1>>, report |-> report]
           kept == [file |-> f, typed |-> TRUE, report |-> report, versions |-> <<1>>, existing |-> None]
           stored == [Upload!Nothing.stored EXCEPT ![<<user, f>>] = entry]
           session == [Upload!Nothing.session EXCEPT ![user] = kept]
<1>1. report \in Upload!Reports /\ <<1>> \in UploadVersions /\ Upload!Unkept \in UploadEntries
  BY BoundsAssumption DEF Upload!Reports, UploadVersions, Upload!Unkept, UploadEntries
<1>2. /\ entry \in UploadEntries /\ UploadEntry(<<user, f>>, entry, 1)
      /\ kept \in UploadKept /\ kept.report.of = kept.file
  BY <1>1 DEF UploadEntries, UploadKept, UploadEntry
<1> HIDE DEF entry, kept
<1>3. Upload!Nothing.stored = [x \in UploadPlaces |-> Upload!Unkept] /\ Upload!Nothing.session = [u \in Users |-> None]
  BY DEF Upload!Nothing, UploadPlaces
<1>4. /\ stored \in [UploadPlaces -> UploadEntries]
      /\ \A x \in UploadPlaces : stored[x] # Upload!Unkept => x[1] = user /\ UploadEntry(x, stored[x], 1)
  <2>1. <<user, f>> \in UploadPlaces /\ <<user, f>>[1] = user
    BY DEF UploadPlaces
  <2>. QED
    BY <1>1, <1>2, <1>3, <2>1
<1>5. /\ session \in [Users -> UploadKept \cup {None}]
      /\ \A u \in Users : session[u] # None => u = user /\ session[u].report.of = session[u].file
  BY <1>2, <1>3
<1>6. Upload!Evaluated(user, f) = [Upload!Nothing EXCEPT !.analyses = 1, !.stored = stored, !.session = session]
  BY DEF Upload!Evaluated, Upload!Nothing, entry, kept
<1> HIDE DEF stored, session
<1>7. Upload!Evaluated(user, f) = [analyses |-> 1, switches |-> 0, reviews |-> [x \in UploadPlaces |-> None],
                                   stored |-> stored, session |-> session]
  BY <1>6 DEF Upload!Nothing, UploadPlaces
<1>. QED
  BY <1>4, <1>5, <1>7 DEF UploadStored

\* The page as it is first seen.
LEMMA UploadInit == Upload!Init => UploadInv
<1> SUFFICES ASSUME Upload!Init PROVE UploadInv
  OBVIOUS
<1>1. PICK u \in Users :
        /\ server \in {Upload!Nothing} \cup {Upload!Evaluated(u, f) : f \in IF u \in MayAnalyze THEN Files ELSE {}}
        /\ page = Upload!Restored(u, server.session[u])
  BY DEF Upload!Init
<1>2. server \in UploadStored(u)
  BY <1>1, UploadNothing, UploadEvaluated
<1>3. page \in UploadShown(u) /\ page.previous = None
  BY <1>1, <1>2, UploadRestored
<1>4. call \in Table(UploadSends) /\ \A x \in Calls : ~Awaiting(call[x])
  BY DEF Upload!Init, Table, Awaiting
<1>. QED
  BY <1>2, <1>3, <1>4, UploadCalm DEF UploadInv, UploadFits, Fits, UploadEarlier

\* The user
LEMMA UploadStarts == UploadInv /\ Upload!Starts => UploadInv'
<1> SUFFICES ASSUME NEW user \in Users, UploadFits(user), Upload!Starts
             PROVE  \E u \in Users : UploadFits(u)'
  BY DEF UploadInv
<1>1. /\ page \in UploadShown(user) /\ page.user = user
      /\ call \in Table(UploadSends) /\ server \in UploadStored(user)
      /\ UploadWaits(call, page, server.analyses) /\ UploadEarlier(page, server)
  BY DEF UploadFits, Fits, UploadShown
<1> USE UploadCalls
<1>2. ASSUME NEW p, p \in UploadShown(user), Turns(p), p.phase = page.phase, p.file = page.file, p.previous = page.previous
      PROVE  UploadFits(user)'
  <2>1. page' = p /\ call' = call /\ server' = server
    BY <1>2 DEF Turns
  <2>2. UploadWaits(call, p, server.analyses)
    BY <1>1, <1>2, UploadQuiet
  <2>. QED
    BY <1>1, <1>2, <2>1, <2>2 DEF UploadFits, Fits, UploadEarlier
<1>3. ASSUME NEW k \in UploadSends, NEW p, p \in UploadShown(user), Gives(call, k, p), page.phase = "done",
             k.kind \notin {"evaluate", "settle"}, p.previous = page.previous
      PROVE  UploadFits(user)'
  <2>1. page' = p /\ call' = Put(call, k) /\ server' = server /\ Free(call) # {}
    BY <1>3 DEF Gives
  <2>2. PICK c \in Calls : call[c] = None /\ call' = [call EXCEPT ![c] = k]
    BY <1>1, <2>1, PutCall
  <2>3. call' \in Table(UploadSends)
    BY <1>1, <2>1, PutCall
  <2>4. \A x \in Calls : call'[x] = IF x = c THEN k ELSE call[x]
    BY <1>1, <2>2 DEF Table
  <2>5. \A x \in Calls : ~Awaiting(call'[x])
    BY <1>1, <1>3, <2>4 DEF UploadWaits, Awaiting
  <2>. QED
    BY <1>1, <1>3, <2>1, <2>3, <2>5, UploadCalm DEF UploadFits, Fits, UploadEarlier
<1>4. CASE Upload!SelectDocType
  <2>1. [page EXCEPT !.typed = TRUE] \in UploadShown(user)
    BY <1>1, <1>4 DEF Upload!SelectDocType, UploadShown
  <2>2. /\ [page EXCEPT !.typed = TRUE].phase = page.phase /\ [page EXCEPT !.typed = TRUE].file = page.file
        /\ [page EXCEPT !.typed = TRUE].previous = page.previous
    BY <1>1 DEF UploadShown
  <2>. QED
    BY <1>2, <1>4, <2>1, <2>2 DEF Upload!SelectDocType
<1>5. CASE Upload!SuggestRewrite
  <2>1. [page EXCEPT !.rewriting = TRUE] \in UploadShown(user)
        /\ [page EXCEPT !.rewriting = TRUE].previous = page.previous
    BY <1>1, <1>5 DEF Upload!SuggestRewrite, UploadShown
  <2>2. Sent("rewrite", None) \in UploadSends /\ Sent("rewrite", None).kind \notin {"evaluate", "settle"}
    BY UploadNew DEF Sent
  <2>. QED
    BY <1>3, <1>5, <2>1, <2>2 DEF Upload!SuggestRewrite
<1>6. CASE Upload!EditReview
  <2> DEFINE p == [page EXCEPT !.review = page.report]
  <2>1. p \in UploadShown(user) /\ p.phase = page.phase /\ p.file = page.file /\ p.previous = page.previous
    BY <1>1, <1>6 DEF Upload!EditReview, Upload!Reviews, UploadShown
  <2>2. Turns(p)
    BY <1>6 DEF Upload!EditReview
  <2> HIDE DEF p
  <2>. QED
    BY <1>2, <2>1, <2>2
<1>7. CASE Upload!SaveReview
  <2> DEFINE arg == [of |-> <<page.user, page.file>>, content |-> page.review]
  <2>1. page.phase = "done" /\ Gives(call, Sent("review", arg), page)
    BY <1>7 DEF Upload!SaveReview, Upload!Reviews
  <2>2. page.file \in Files /\ page.review \in Upload!Reports /\ page.review.of = page.file
    BY <1>1, <1>7 DEF Upload!SaveReview, UploadShown
  <2>3. arg \in UploadReviews /\ arg.of[2] = arg.content.of
    BY <1>1, <2>2 DEF UploadReviews, UploadPlaces
  <2> HIDE DEF arg
  <2>4. Sent("review", arg) \in UploadSends /\ Sent("review", arg).kind \notin {"evaluate", "settle"}
    BY <2>3, UploadNew DEF Sent
  <2>. QED
    BY <1>1, <1>3, <2>1, <2>4
<1>8. CASE Upload!Finish
  <2> DEFINE session == [server.session EXCEPT ![page.user] = None]
  <2>1. page' = Upload!Finished /\ call' = call /\ server' = [server EXCEPT !.session = session]
    BY <1>1, <1>8 DEF Upload!Finish, UploadStored
  <2>2. Upload!Finished \in UploadShown(user) /\ Upload!Finished.previous = None
    BY Zenon, <1>1, UploadEmpty DEF Upload!Finished, UploadShown, Upload!Empty
  <2>3. session \in [Users -> UploadKept \cup {None}] /\ \A u \in Users : session[u] = None \/ session[u] = server.session[u]
    BY <1>1 DEF UploadStored
  <2> HIDE DEF session
  <2>4. server' \in UploadStored(user)
    BY <1>1, <2>1, <2>3 DEF UploadStored
  <2>5. UploadWaits(call', page', server'.analyses)
    BY <1>1, <1>8, <2>1, UploadQuiet DEF Upload!Finish
  <2>. QED
    BY <1>1, <2>1, <2>2, <2>4, <2>5 DEF UploadFits, Fits, UploadEarlier
<1>9. CASE Upload!ClearHistory
  <2> DEFINE p == [page EXCEPT !.versions = <<>>, !.previous = None]
             x == <<page.user, page.file>>
             stored == [server.stored EXCEPT ![x] = Upload!Unkept]
             s == [server EXCEPT !.stored = stored]
  <2>1. p \in UploadShown(user) /\ p.previous = None
    <3>1. <<>> \in UploadVersions
      BY BoundsAssumption DEF UploadVersions
    <3>. QED
      BY <1>1, <1>9, <3>1 DEF Upload!ClearHistory, UploadShown
  <2>2. stored \in [UploadPlaces -> UploadEntries]
        /\ \A y \in UploadPlaces : stored[y] = Upload!Unkept \/ stored[y] = server.stored[y]
    <3>1. Upload!Unkept \in UploadEntries
      BY BoundsAssumption DEF Upload!Unkept, UploadEntries, UploadVersions
    <3>. QED
      BY <1>1, <3>1 DEF UploadStored
  <2>3. s = [server EXCEPT !.stored[<<page.user, page.file>>] = Upload!Unkept]
    BY <1>1 DEF UploadStored
  <2>4. Upload!Shows(p, s) /\ call' = call /\ page.phase = "done"
    BY <1>9, <2>3 DEF Upload!ClearHistory
  <2> HIDE DEF stored
  <2>5. s \in UploadStored(user)
    BY <1>1, <2>2 DEF UploadStored
  <2> HIDE DEF s, p
  <2>6. page' = p /\ server' \in UploadStored(user)
    BY <2>1, <2>4, <2>5, UploadShows
  <2>7. UploadWaits(call', page', server'.analyses)
    BY <1>1, <2>4, UploadQuiet
  <2>. QED
    BY <1>1, <2>1, <2>4, <2>6, <2>7 DEF UploadFits, Fits, UploadEarlier
<1>10. ASSUME NEW f \in Files, Upload!OnDrop(f) PROVE UploadFits(user)'
  <2> DEFINE entry == server.stored[<<page.user, f>>]
             arg == [of |-> f, earlier |-> entry.versions]
             k == Sent("evaluate", arg)
             p == Upload!Cleared(f)
  <2>1. page.phase = "idle" /\ Gives(call, k, p)
    BY <1>10 DEF Upload!OnDrop, Upload!Stored
  <2>2. <<user, f>> \in UploadPlaces
    BY DEF UploadPlaces
  <2>3. entry \in UploadEntries /\ (entry.report # None => entry.report \in Upload!Reports /\ entry.report.of = f
          /\ entry.report.no <= server.analyses)
    BY <1>1, <2>2 DEF UploadStored, UploadEntry, Upload!Unkept, UploadEntries
  <2>4. p = [page EXCEPT !.phase = "analyzing", !.file = f, !.report = None, !.existing = None,
               !.rewritten = FALSE, !.saved = FALSE, !.previous = entry.report, !.versions = entry.versions]
    BY DEF Upload!Cleared, Upload!Stored
  <2>5. arg \in UploadDrops /\ arg.of = f
    BY <2>3 DEF UploadDrops, UploadEntries
  <2> HIDE DEF entry, arg, p
  <2>6. k \in UploadSends /\ k.kind = "evaluate" /\ k.arg.of = f /\ k.stage = "sent"
    BY <2>5, UploadNew DEF Sent
  <2>7. /\ p \in UploadShown(user) /\ p.phase = "analyzing" /\ p.file = f
        /\ p.previous # None => p.previous.no <= server.analyses
    <3>1. p.phase = "analyzing" /\ p.file = f /\ p.report = None /\ p.previous = entry.report /\ p.review = None
      BY <1>1, <2>1, <2>4 DEF UploadShown
    <3>2. p \in UploadShown(user)
      BY <1>1, <2>1, <2>3, <2>4 DEF UploadShown, Upload!Phases, UploadEntries
    <3>. QED
      BY <2>3, <3>1, <3>2
  <2> HIDE DEF k
  <2>8. page' = p /\ call' = Put(call, k) /\ server' = server /\ Free(call) # {}
    BY <2>1 DEF Gives
  <2>9. PICK c \in Calls : call[c] = None /\ call' = [call EXCEPT ![c] = k]
    BY <1>1, <2>6, <2>8, PutCall
  <2>10. call' \in Table(UploadSends)
    BY <1>1, <2>6, <2>8, PutCall
  <2>11. \A x \in Calls : call'[x] = IF x = c THEN k ELSE call[x]
    BY <1>1, <2>9 DEF Table
  <2>12. \A x \in Calls : Awaiting(call'[x]) => x = c
    BY <1>1, <2>1, <2>11 DEF UploadWaits
  <2>13. UploadWaits(call', p, server.analyses)
    BY <2>6, <2>7, <2>11, <2>12 DEF UploadWaits, Reported
  <2>. QED
    BY <1>1, <2>7, <2>8, <2>10, <2>13 DEF UploadFits, Fits, UploadEarlier
<1>11. ASSUME NEW u \in Users, Upload!Remount(u) PROVE UploadFits(u)'
  <2>1. /\ Unmounted \in Table(UploadSends)
        /\ \A x \in Calls : \/ call[x] = None /\ Unmounted[x] = None
                            \/ call[x] # None /\ call[x] \in UploadSends
                               /\ Unmounted[x] = [call[x] EXCEPT !.heard = FALSE]
    BY <1>1, UploadLasting, UnmountedCalls
  <2>2. \A x \in Calls : ~Awaiting(Unmounted[x])
    <3>1. \A k \in UploadSends : [k EXCEPT !.heard = FALSE].heard = FALSE
      BY DEF UploadSends, UploadRecords
    <3>. QED
      BY <2>1, <3>1 DEF Awaiting
  <2>3. PICK s : /\ s = IF u = page.user THEN server ELSE Upload!Forgotten(server)
                 /\ page' = Upload!Restored(u, s.session[u])
                 /\ server' = [s EXCEPT !.switches = @ + 1]
    BY <1>11 DEF Upload!Remount
  <2>4. s \in UploadStored(u)
    <3>1. Upload!Unkept \in UploadEntries
      BY BoundsAssumption DEF Upload!Unkept, UploadEntries, UploadVersions
    <3>2. Upload!Forgotten(server) \in UploadStored(u)
      BY <1>1, <3>1 DEF Upload!Forgotten, UploadStored, UploadPlaces
    <3>. QED
      BY <1>1, <2>3, <3>2
  <2>5. page' \in UploadShown(u) /\ page'.previous = None
    BY <2>3, <2>4, UploadRestored
  <2>6. server' \in UploadStored(u)
    BY <2>3, <2>4 DEF UploadStored
  <2>7. call' = Unmounted
    BY <1>11 DEF Upload!Remount
  <2>. QED
    BY <2>1, <2>2, <2>5, <2>6, <2>7, UploadCalm DEF UploadFits, Fits, UploadEarlier
<1>. QED
  BY <1>4, <1>5, <1>6, <1>7, <1>8, <1>9, <1>10, <1>11 DEF Upload!Starts

\* The server
LEMMA UploadServes ==
  ASSUME NEW user \in Users, UploadFits(user), NEW c \in Calls, Upload!Serves(c) PROVE UploadFits(user)'
<1>1. /\ page \in UploadShown(user) /\ call \in Table(UploadSends) /\ server \in UploadStored(user)
      /\ UploadWaits(call, page, server.analyses) /\ UploadEarlier(page, server)
  BY DEF UploadFits, Fits
<1>2. call[c] # None /\ call[c] \in UploadSends /\ call[c].stage = "sent"
  BY <1>1 DEF Upload!Serves, Table
<1> USE UploadCalls
<1>3. ASSUME NEW answer \in {None} \cup Upload!Reports, NEW s, s \in UploadStored(user), Answers(c, answer, s),
             s.analyses >= server.analyses,
             call[c].kind \in {"evaluate", "settle"} =>
               /\ call[c].kind = "evaluate" /\ answer \in Upload!Reports
               /\ answer.of = call[c].arg.of /\ answer.no > server.analyses /\ answer.no <= s.analyses
      PROVE  UploadFits(user)'
  <2> DEFINE k == [call[c] EXCEPT !.stage = "ok", !.answer = answer]
  <2>1. call' = [call EXCEPT ![c] = k] /\ server' = s /\ page' = page
    BY Zenon, <1>1, <1>3, AnswerOf
  <2>2. /\ k \in UploadRecords /\ k.kind = call[c].kind /\ k.arg = call[c].arg /\ k.heard = call[c].heard
        /\ k.stage = "ok" /\ k.answer = answer
    BY <1>2 DEF UploadSends, UploadRecords
  <2> HIDE DEF k
  <2>3. k \in UploadSends
    BY <1>2, <1>3, <2>2 DEF UploadSends
  <2>4. call' \in Table(UploadSends) /\ \A x \in Calls : call'[x] = IF x = c THEN k ELSE call[x]
    BY <1>1, <2>1, <2>3 DEF Table
  <2>5. UploadWaits(call', page, s.analyses)
    <3> SUFFICES ASSUME NEW x \in Calls, Awaiting(call'[x])
                 PROVE  /\ page.phase = "analyzing" /\ call'[x].arg.of = page.file
                        /\ Reported(call'[x]) => call'[x].answer.no <= s.analyses
                        /\ Reported(call'[x]) /\ page.previous # None => page.previous.no < call'[x].answer.no
                        /\ \A y \in Calls : Awaiting(call'[y]) => y = x
      BY DEF UploadWaits
    <3>1. \A y \in Calls : Awaiting(call'[y]) => Awaiting(call[y]) /\ call'[y].arg = call[y].arg
      BY <1>2, <2>2, <2>4 DEF Awaiting
    <3>2. page.phase = "analyzing" /\ call'[x].arg.of = page.file /\ \A y \in Calls : Awaiting(call'[y]) => y = x
      BY <1>1, <3>1 DEF UploadWaits
    <3>3. ASSUME page.previous # None, Reported(call'[x]) PROVE page.previous.no < call'[x].answer.no
      <4>1. CASE x = c
        <5>1. call'[x] = k /\ k.answer = answer /\ answer \in Upload!Reports /\ answer.no > server.analyses
          BY <1>3, <2>2, <2>4, <4>1 DEF Awaiting
        <5>2. page.previous \in Upload!Reports /\ page.previous.no <= server.analyses /\ server.analyses \in Nat
          BY <1>1, <3>3 DEF UploadEarlier, UploadShown, UploadStored
        <5>. QED
          BY <5>1, <5>2 DEF Upload!Reports
      <4>2. CASE x # c
        BY <1>1, <2>4, <3>1, <3>3, <4>2 DEF UploadWaits
      <4>. QED
        BY <4>1, <4>2
    <3>4. ASSUME Reported(call'[x]) PROVE call'[x].answer.no <= s.analyses
      <4>1. CASE x = c
        BY <1>3, <2>2, <2>4, <4>1 DEF Awaiting
      <4>2. CASE x # c
        <5>1. call'[x] = call[x] /\ call[x] \in UploadSends /\ call[x].kind \in {"evaluate", "settle"}
          BY <1>1, <2>4, <4>2 DEF Table, Awaiting
        <5>2. call[x].answer.no \in Nat
          BY <3>4, <5>1 DEF UploadSends, UploadRecords, Reported, Upload!Reports
        <5>3. call[x].answer.no <= server.analyses
          BY <1>1, <3>1, <3>4, <5>1 DEF UploadWaits
        <5>4. server.analyses \in Nat /\ s.analyses \in Nat
          BY <1>1, <1>3 DEF UploadStored
        <5>. QED
          BY <1>3, <5>1, <5>2, <5>3, <5>4
      <4>. QED
        BY <4>1, <4>2
    <3>. QED
      BY <3>2, <3>3, <3>4
  <2>6. UploadEarlier(page, s)
    BY <1>1, <1>3 DEF UploadEarlier, UploadShown, UploadStored, Upload!Reports
  <2>. QED
    BY <1>1, <1>3, <2>1, <2>4, <2>5, <2>6 DEF UploadFits, Fits
<1>4. CASE call[c].kind = "evaluate"
  <2> DEFINE answer == [of |-> call[c].arg.of, no |-> server.analyses + 1]
             s == [server EXCEPT !.analyses = @ + 1]
  <2>1. Answers(c, answer, s)
    BY <1>4 DEF Upload!Serves
  <2>2. server.analyses \in Nat
    BY <1>1 DEF UploadStored
  <2>3. /\ answer \in Upload!Reports /\ answer.of = call[c].arg.of
        /\ answer.no > server.analyses /\ answer.no <= s.analyses
    BY <1>1, <1>2, <1>4, <2>2 DEF UploadSends, UploadDrops, UploadStored, Upload!Reports
  <2>4. s \in UploadStored(user) /\ s.analyses >= server.analyses
    <3>1. s = [server EXCEPT !.analyses = server.analyses + 1]
      OBVIOUS
    <3>2. \A x \in UploadPlaces : server.stored[x] # Upload!Unkept => UploadEntry(x, server.stored[x], server.analyses + 1)
      BY <1>1, <2>2 DEF UploadStored, UploadEntry, Upload!Reports
    <3>. QED
      BY <1>1, <2>2, <3>2 DEF UploadStored
  <2> HIDE DEF answer, s
  <2>. QED
    BY <1>3, <1>4, <2>1, <2>3, <2>4
<1>0. server \in UploadStored(user) /\ server.analyses >= server.analyses
  BY <1>1 DEF UploadStored
<1>5. CASE call[c].kind = "rewrite"
  BY <1>0, <1>3, <1>5 DEF Upload!Serves
<1>6. CASE call[c].kind = "review"
  <2> DEFINE x == call[c].arg.of
             content == call[c].arg.content
             reviews == [server.reviews EXCEPT ![x] = content]
             s == [server EXCEPT !.reviews = reviews]
  <2>1. x \in UploadPlaces /\ content \in Upload!Reports /\ content.of = x[2]
    BY <1>2, <1>6 DEF UploadSends, UploadReviews
  <2>2. Answers(c, None, s)
    <3>1. s = [server EXCEPT !.reviews[call[c].arg.of] = call[c].arg.content]
      BY <1>1 DEF UploadStored
    <3>. QED
      BY <1>6, <3>1 DEF Upload!Serves
  <2> HIDE DEF x, content
  <2>3. reviews \in [UploadPlaces -> Upload!Reports \cup {None}]
        /\ \A y \in UploadPlaces : reviews[y] # None => reviews[y].of = y[2]
    BY <1>1, <2>1 DEF UploadStored
  <2> HIDE DEF reviews
  <2>4. s \in UploadStored(user) /\ s.analyses >= server.analyses
    BY <1>1, <2>3 DEF UploadStored
  <2> HIDE DEF s
  <2>. QED
    BY <1>3, <1>6, <2>2, <2>4
<1>7. CASE call[c].kind = "existing"
  <2>1. server.reviews[call[c].arg] \in {None} \cup Upload!Reports
    BY <1>1, <1>2, <1>7 DEF UploadSends, UploadStored
  <2>. QED
    BY <1>0, <1>3, <1>7, <2>1 DEF Upload!Serves
<1>. QED
  BY <1>4, <1>5, <1>6, <1>7 DEF Upload!Serves

\* What follows an answer
LEMMA UploadContinues ==
  ASSUME NEW user \in Users, UploadFits(user), NEW c \in Calls, Upload!Continues(c) PROVE UploadFits(user)'
<1>1. /\ page \in UploadShown(user) /\ call \in Table(UploadSends) /\ server \in UploadStored(user)
      /\ UploadWaits(call, page, server.analyses) /\ UploadEarlier(page, server) /\ page.user = user
  BY DEF UploadFits, Fits, UploadShown
<1>2. call[c] # None /\ call[c] \in UploadSends
  BY <1>1, UploadCalls DEF Table, Arrived, Unheard, Upload!Continues, Upload!GotEvaluation, Upload!Settled,
     Upload!GotExisting, Upload!GotRewrite, Upload!GotReview
<1> USE UploadCalls
<1>3. /\ Dropped(c) \in Table(UploadSends)
      /\ \A x \in Calls : Awaiting(Dropped(c)[x]) => Dropped(c)[x] = call[x]
  BY <1>1, DroppedCall DEF Awaiting
<1>4. ASSUME NEW p, p \in UploadShown(user), Goes(Dropped(c), p), p.phase = page.phase, p.file = page.file, p.previous = page.previous
      PROVE  UploadFits(user)'
  <2>1. UploadWaits(Dropped(c), p, server.analyses)
    BY <1>1, <1>3, <1>4, UploadQuiet
  <2>. QED
    BY <1>1, <1>3, <1>4, <2>1 DEF Goes, UploadFits, Fits, UploadEarlier
<1>5. CASE Upload!GotEvaluation(c) /\ Ok(c)
  <2> DEFINE k == [call[c] EXCEPT !.kind = "settle", !.stage = "ok"]
  <2>1. call' = [call EXCEPT ![c] = k] /\ page' = page /\ server' = server
    BY <1>1, <1>5 DEF Upload!GotEvaluation, Goes, Table
  <2>2. call[c].kind = "evaluate" /\ call[c].stage = "ok"
    BY <1>5 DEF Upload!GotEvaluation, Ok
  <2>3. /\ k \in UploadRecords /\ k.kind = "settle" /\ k.arg = call[c].arg /\ k.heard = call[c].heard
        /\ k.stage = "ok" /\ k.answer = call[c].answer
    BY <1>2 DEF UploadSends, UploadRecords, UploadKinds
  <2> HIDE DEF k
  <2>4. k \in UploadSends
    BY <1>2, <2>2, <2>3 DEF UploadSends
  <2>5. call' \in Table(UploadSends) /\ \A x \in Calls : call'[x] = IF x = c THEN k ELSE call[x]
    BY <1>1, <2>1, <2>4 DEF Table
  <2>6. UploadWaits(call', page, server.analyses)
    BY <1>1, <1>2, <2>2, <2>3, <2>5, UploadQuiet DEF Awaiting, Reported
  <2>. QED
    BY <1>1, <2>1, <2>5, <2>6 DEF UploadFits, Fits
<1>6. CASE Upload!GotEvaluation(c) /\ ~Ok(c)
  <2>1. Awaiting(call[c]) /\ Goes(Dropped(c), [page EXCEPT !.phase = "idle"])
    BY <1>2, <1>6 DEF Upload!GotEvaluation, Arrived, Awaiting
  <2>2. page.phase = "analyzing"
    BY <1>1, <2>1 DEF UploadWaits
  <2>3. \A x \in Calls : ~Awaiting(Dropped(c)[x])
    <3>1. \A x \in Calls : Awaiting(call[x]) => x = c
      BY <1>1, <2>1 DEF UploadWaits
    <3>2. \A x \in Calls : Dropped(c)[x] = IF x = c THEN None ELSE call[x]
      BY <1>1, DroppedCall
    <3>. QED
      BY <3>1, <3>2 DEF Awaiting
  <2>4. [page EXCEPT !.phase = "idle"] \in UploadShown(user) /\ [page EXCEPT !.phase = "idle"].previous = page.previous
    BY <1>1, <2>2 DEF UploadShown, Upload!Phases
  <2>. QED
    BY <1>1, <1>3, <2>1, <2>3, <2>4, UploadCalm DEF Goes, UploadFits, Fits, UploadEarlier
<1>7. CASE Upload!Settled(c)
  <2> DEFINE report == call[c].answer
             earlier == call[c].arg.earlier
             entry == Upload!Versioned(report, earlier)
             x == <<page.user, report.of>>
             k == Sent("existing", x)
             p == [page EXCEPT !.report = report, !.phase = "done", !.versions = entry.versions]
             stored == [server.stored EXCEPT ![x] = entry]
             s == [server EXCEPT !.stored = stored]
  <2>1. Awaiting(call[c]) /\ call[c].kind = "settle"
    BY <1>2, <1>7 DEF Upload!Settled, Arrived, Awaiting
  <2>2. report \in Upload!Reports /\ report.of = call[c].arg.of /\ earlier \in UploadVersions
    BY <1>2, <2>1 DEF UploadSends, UploadDrops
  <2>3. /\ page.phase = "analyzing" /\ report.of = page.file
        /\ page.previous # None => page.previous.no < report.no
        /\ \A y \in Calls : Awaiting(call[y]) => y = c
    BY <1>1, <2>1, <2>2 DEF UploadWaits, Reported
  <2>4. entry \in UploadEntries /\ entry.report = report /\ Head(entry.versions) = report.no
    BY <2>2, VersionedKeeps
  <2>5. server.analyses \in Nat
    BY <1>1 DEF UploadStored
  <2>6. s = [server EXCEPT !.stored[x] = entry]
    BY <1>1 DEF UploadStored
  <2>7. call' = [call EXCEPT ![c] = k] /\ Upload!Shows(p, s)
    BY <1>7, <2>6 DEF Upload!Settled
  <2>8. x \in UploadPlaces /\ x[1] = user /\ x[2] = report.of
    BY <1>1, <2>2 DEF UploadPlaces, Upload!Reports
  <2>9. report.no <= server.analyses
    BY <1>1, <2>1 DEF UploadWaits, Reported
  <2>10. p.previous = page.previous /\ p.file = page.file
    BY <1>1 DEF UploadShown
  <2> HIDE DEF entry, report, x
  <2>11. p \in UploadShown(user)
    BY <1>1, <2>2, <2>3, <2>4 DEF UploadShown, UploadEntries, Upload!Phases
  <2>12. stored \in [UploadPlaces -> UploadEntries]
         /\ \A y \in UploadPlaces : (y = x /\ stored[y] = entry) \/ stored[y] = server.stored[y]
    BY <1>1, <2>4, <2>8 DEF UploadStored
  <2>13. UploadEntry(x, entry, server.analyses)
    BY <2>2, <2>4, <2>8, <2>9 DEF UploadEntry
  <2> HIDE DEF stored
  <2>14. s \in UploadStored(user) /\ s.analyses = server.analyses
    BY <1>1, <2>8, <2>12, <2>13 DEF UploadStored
  <2> HIDE DEF s, p
  <2>15. page' = p /\ server' \in UploadStored(user) /\ server'.analyses = server.analyses
    BY <2>7, <2>11, <2>14, UploadShows
  <2>16. k \in UploadSends /\ k.kind = "existing"
    BY <2>8, UploadNew DEF Sent
  <2> HIDE DEF k
  <2>17. call' \in Table(UploadSends) /\ \A y \in Calls : call'[y] = IF y = c THEN k ELSE call[y]
    BY <1>1, <2>7, <2>16 DEF Table
  <2>18. \A y \in Calls : ~Awaiting(call'[y])
    BY <2>3, <2>16, <2>17 DEF Awaiting
  <2>. QED
    BY <1>1, <2>10, <2>11, <2>15, <2>17, <2>18, UploadCalm DEF UploadFits, Fits, UploadEarlier
<1>8. CASE Upload!GotExisting(c)
  <2> DEFINE p == IF Ok(c) /\ call[c].answer # None THEN [page EXCEPT !.existing = call[c].answer] ELSE page
  <2>1. call[c].kind = "existing" /\ Upload!Shows(p, server) /\ call' = Dropped(c)
    BY <1>8 DEF Upload!GotExisting
  <2>2. p \in UploadShown(user) /\ p.phase = page.phase /\ p.file = page.file /\ p.previous = page.previous
    <3>1. call[c].answer # None => call[c].answer \in Upload!Reports
      BY <1>2 DEF UploadSends, UploadRecords
    <3>. QED
      BY <1>1, <3>1 DEF UploadShown
  <2> HIDE DEF p
  <2>3. page' = p /\ server' \in UploadStored(user) /\ server'.analyses = server.analyses
    BY <1>1, <2>1, <2>2, UploadShows
  <2>4. UploadWaits(call', p, server.analyses)
    BY <1>1, <1>3, <2>1, <2>2, UploadQuiet
  <2>. QED
    BY <1>1, <1>3, <2>1, <2>2, <2>3, <2>4 DEF UploadFits, Fits, UploadEarlier
<1>9. CASE Upload!GotRewrite(c)
  <2> DEFINE p == [page EXCEPT !.rewriting = FALSE, !.rewritten = TRUE]
  <2>1. p \in UploadShown(user) /\ p.phase = page.phase /\ p.file = page.file /\ p.previous = page.previous
    BY <1>1 DEF UploadShown
  <2>2. Goes(Dropped(c), p)
    BY <1>9 DEF Upload!GotRewrite
  <2> HIDE DEF p
  <2>. QED
    BY <1>4, <2>1, <2>2
<1>10. CASE Upload!GotReview(c)
  <2> DEFINE p == [page EXCEPT !.saved = TRUE]
  <2>1. p \in UploadShown(user) /\ p.phase = page.phase /\ p.file = page.file /\ p.previous = page.previous
    BY <1>1 DEF UploadShown
  <2>2. Goes(Dropped(c), p) \/ Goes(Dropped(c), page)
    BY <1>10 DEF Upload!GotReview
  <2> HIDE DEF p
  <2>. QED
    BY <1>1, <1>4, <2>1, <2>2
<1>11. CASE Upload!Unheard(c)
  BY <1>1, <1>4, <1>11 DEF Unheard
<1>. QED
  BY <1>5, <1>6, <1>7, <1>8, <1>9, <1>10, <1>11 DEF Upload!Continues

\* Whatever happens on the page.
LEMMA UploadNext == UploadInv /\ Upload!Next => UploadInv'
<1> SUFFICES ASSUME NEW user \in Users, UploadFits(user), Upload!Next PROVE UploadInv'
  BY DEF UploadInv
<1>1. UploadInv /\ (UploadFits(user)' => UploadInv')
  BY DEF UploadInv
<1>2. call \in Table(UploadSends) /\ UploadWaits(call, page, server.analyses) /\ UploadEarlier(page, server)
  BY DEF UploadFits, Fits
<1>3. ASSUME NEW c \in Calls, Upload!Refuses(c) \/ Upload!Loses(c) PROVE UploadFits(user)'
  <2>1. Fits(UploadSends, UploadShown(user), UploadStored(user))' /\ page' = page /\ server' = server
    <3>1. Refuses(c) \/ Loses(c)
      BY <1>3, UploadCalls
    <3>2. Fits(UploadSends, UploadShown(user), UploadStored(user))'
      BY <3>1, UploadLasting, PageRefuses, PageLoses DEF UploadFits
    <3>. QED
      BY <3>1, <3>2 DEF Refuses, Loses
  <2>2. \A x \in Calls : Awaiting(call'[x]) =>
          /\ Awaiting(call[x]) /\ call'[x].arg = call[x].arg
          /\ Reported(call'[x]) => Reported(call[x]) /\ call'[x].answer = call[x].answer
    <3> DEFINE r == [call[c] EXCEPT !.stage = "refused"]
               h == [call[c] EXCEPT !.heard = FALSE]
    <3>1. call[c] \in UploadSends /\ call[c] # None
      BY <1>2, <1>3, UploadCalls DEF Refuses, Loses, Table
    <3>2. /\ r.heard = call[c].heard /\ r.kind = call[c].kind /\ r.arg = call[c].arg
          /\ r.answer = call[c].answer /\ r.stage = "refused" /\ h.heard = FALSE
      BY <3>1 DEF UploadSends, UploadRecords
    <3> HIDE DEF r, h
    <3>3. \A x \in Calls : call'[x] = call[x] \/ (x = c /\ call'[x] = r) \/ call'[x] = h
      <4>1. CASE Upload!Refuses(c)
        <5>1. call' = [call EXCEPT ![c] = r]
          BY <1>2, <4>1, UploadCalls, UploadLasting, RefusedCall DEF r
        <5>. QED
          BY <1>2, <5>1 DEF Table
      <4>2. CASE Upload!Loses(c)
        BY <1>2, <4>2, UploadCalls, UploadLasting, LostCall DEF r, h
      <4>. QED
        BY <1>3, <4>1, <4>2
    <3>4. Awaiting(r) => Awaiting(call[c])
      BY <3>1, <3>2 DEF Awaiting
    <3>5. ~Awaiting(h) /\ (Reported(r) => Reported(call[c]))
      BY <3>2 DEF Awaiting, Reported
    <3>. QED
      BY <3>2, <3>3, <3>4, <3>5
  <2>3. UploadWaits(call', page, server.analyses)
    BY <1>2, <2>2, UploadQuiet
  <2>. QED
    BY <1>2, <2>1, <2>3 DEF UploadFits
<1>. QED
  BY <1>1, <1>3, UploadStarts, UploadServes, UploadContinues DEF Upload!Next

\* What is checked of the page follows.
LEMMA UploadHolds ==
  UploadInv => /\ Upload!TypeOK /\ Upload!ReportOfItsFile
               /\ Upload!NewestVersionKept /\ Upload!ReviewUnderItsFile
<1> SUFFICES ASSUME NEW user \in Users, UploadFits(user)
             PROVE  /\ Upload!TypeOK /\ Upload!ReportOfItsFile
                    /\ Upload!NewestVersionKept /\ Upload!ReviewUnderItsFile
  BY DEF UploadInv
<1>1. page \in UploadShown(user) /\ server \in UploadStored(user) /\ page.user = user
  BY DEF UploadFits, Fits, UploadShown
<1>2. Upload!TypeOK
  BY <1>1 DEF Upload!TypeOK, UploadShown, UploadStored, UploadPlaces, UploadVersions
<1>3. Upload!ReportOfItsFile
  BY <1>1 DEF Upload!ReportOfItsFile, Upload!Compared, UploadShown, UploadStored, UploadPlaces
<1>4. Upload!NewestVersionKept
  BY <1>1 DEF Upload!NewestVersionKept, UploadStored, UploadEntry, UploadPlaces
<1>5. Upload!ReviewUnderItsFile
  BY <1>1 DEF Upload!ReviewUnderItsFile, UploadStored, UploadPlaces
<1>. QED
  BY <1>2, <1>3, <1>4, <1>5

-----------------------------------------------------------------------------
\* Submissions: a world is what calls, page and handlers have in common.

\* Submissions deals with its calls as PageCalls says.
LEMMA SubCalls ==
  /\ \A kind, arg : Submissions!Sent(kind, arg) = Sent(kind, arg)
  /\ \A calls : Submissions!Free(calls) = Free(calls)
  /\ \A calls, k : Submissions!Put(calls, k) = Put(calls, k)
  /\ \A calls, kinds : Submissions!Ignored(calls, kinds) = Ignored(calls, kinds)
  /\ Submissions!Unmounted = Unmounted
  /\ \A c : Submissions!Dropped(c) = Dropped(c)
  /\ \A calls, k, p : Submissions!Gives(calls, k, p) <=> Gives(calls, k, p)
  /\ \A p : Submissions!Turns(p) <=> Turns(p)
  /\ \A calls, p : Submissions!Goes(calls, p) <=> Goes(calls, p)
  /\ \A c : (Submissions!Arrived(c) <=> Arrived(c)) /\ (Submissions!Ok(c) <=> Ok(c))
  /\ \A c, result, s : Submissions!Answers(c, result, s) <=> Answers(c, result, s)
  /\ \A c : (Submissions!Refuses(c) <=> Refuses(c)) /\ (Submissions!Loses(c) <=> Loses(c))
  /\ \A c : Submissions!Unheard(c) <=> Unheard(c)
BY DEF Sent, Submissions!Sent, Free, Submissions!Free, Put, Submissions!Put, Ignored, Submissions!Ignored, Unmounted, Submissions!Unmounted,
       Dropped, Submissions!Dropped, Gives, Submissions!Gives, Turns, Submissions!Turns, Goes, Submissions!Goes, Arrived, Submissions!Arrived,
       Ok, Submissions!Ok, Answers, Submissions!Answers, Refuses, Submissions!Refuses, Loses, Submissions!Loses, Unheard, Submissions!Unheard

SubOfOne == {"update", "assign", "save", "approve", "finalize"}
SubPlain == {"issue", "deadline"}
SubPuts == {"upload", "replace", "select"}
SubKinds == Submissions!Reading \cup SubOfOne \cup SubPlain \cup SubPuts \cup {"submit"}
SubDetails == Subs \X {None, "replace"} \X Users
SubReloads == Subs \X Users
SubSlots == Subs \X (Types \cup {None}) \X Types
SubMade == [key : Nat, round : Nat]
SubAttempts == [of : Users \X Types, key : Nat]

\* What calls, page and handlers have in common; "made" are the keys and rounds of what was,
\* or may be, submitted.
SubWorlds ==
  {w \in [user : Users \cup {None}, expanded : Subs \cup {None}, heard : Nat, commands : Nat, made : SUBSET SubMade] :
     /\ w.heard <= w.commands
     /\ \A x, y \in w.made : x.round = y.round => x = y}

SubRecords ==
  [kind : SubKinds,
   arg : {None} \cup Users \cup Subs \cup Types \cup SubDetails \cup SubReloads \cup SubSlots \cup SubMade,
   live : BOOLEAN, heard : BOOLEAN, stage : {"sent", "ok", "refused"}, answer : {None} \cup Nat]

SubTyped(kind, arg) ==
  /\ kind \in {"list", "setup"} => arg \in Users
  /\ kind = "details" => arg \in SubDetails
  /\ kind = "reload" => arg \in SubReloads
  /\ kind = "revisions" => arg \in Types
  /\ kind \in SubOfOne => arg \in Subs
  /\ kind \in SubPuts => arg \in SubSlots

\* Reads somebody awaits are of the identity; the last details asked for are those of the
\* submission expanded, if one is; the last list shows what the page has heard of.
SubSends(w) ==
  {k \in SubRecords :
     /\ SubTyped(k.kind, k.arg)
     /\ k.kind = "submit" => k.arg \in w.made
     /\ k.stage = "ok" => k.answer \in 0 .. w.commands
     /\ k.heard => w.user \in Users
     /\ k.heard /\ k.kind \in {"list", "setup"} => k.arg = w.user
     /\ k.heard /\ k.kind = "details" => k.arg[3] = w.user
     /\ k.heard /\ k.kind = "reload" => k.arg[2] = w.user
     /\ k.heard /\ k.live /\ k.kind = "details" => w.expanded \in {None, k.arg[1]}
     /\ k.heard /\ k.live /\ k.kind = "list" /\ k.stage = "ok" => k.answer >= w.heard}

SubPages ==
  [user : Users \cup {None}, list : Submissions!Lists \cup {None}, fetching : BOOLEAN, heard : Nat,
   expanded : Subs \cup {None}, docs : Submissions!Details \cup {None}, loadingDocs : BOOLEAN,
   dialogs : SUBSET Submissions!Dialogs, setup : Users \cup {None}, loadingSetup : BOOLEAN,
   attempt : SubAttempts \cup {None}, round : Nat, revisionType : Types \cup {None},
   revisions : Types \cup {None}, loadingRevisions : BOOLEAN, updating : Subs \cup {None},
   assigning : Subs \cup {None}, busy : SUBSET Submissions!Flags]

SubShown(w) ==
  {p \in SubPages :
     /\ p.user = w.user /\ p.heard = w.heard /\ p.expanded = w.expanded
     /\ p.user = None => p.dialogs = {}
     /\ p.list # None => p.list.of = p.user /\ (~p.fetching => p.list.commands >= p.heard)
     /\ p.setup # None => p.setup = p.user
     /\ p.docs # None =>
          p.docs.by = p.user /\ (p.expanded # None /\ ~p.docs.reloaded => p.docs.of = p.expanded)
     /\ p.attempt # None => [key |-> p.attempt.key, round |-> p.round] \in w.made
     /\ \A x \in w.made : x.round <= p.round /\ (p.attempt = None => x.round < p.round)}

SubStored(w) ==
  [commands : {w.commands}, switches : Nat, slots : [Types -> Types], keys : SUBSET Nat, created : SUBSET w.made]

SubFits(w) == Fits(SubSends(w), SubShown(w), SubStored(w))
SubInv == asked \in Nat /\ \E w \in SubWorlds : SubFits(w)

\* Calls of the page may be refused, ignored, or left by whoever awaited them.
LEMMA SubLasting == ASSUME NEW w PROVE Lasting(SubSends(w))
<1> SUFFICES ASSUME NEW k \in SubSends(w)
             PROVE  /\ [k EXCEPT !.stage = "refused"] \in SubSends(w)
                    /\ [k EXCEPT !.heard = FALSE] \in SubSends(w)
                    /\ [k EXCEPT !.live = FALSE] \in SubSends(w)
  BY Zenon DEF Lasting
<1> DEFINE a == [k EXCEPT !.stage = "refused"]
           b == [k EXCEPT !.heard = FALSE]
           d == [k EXCEPT !.live = FALSE]
<1>1. a \in SubRecords /\ a.kind = k.kind /\ a.arg = k.arg /\ a.answer = k.answer /\ a.stage = "refused"
      /\ a.live = k.live /\ a.heard = k.heard
  BY DEF SubSends, SubRecords
<1>2. b \in SubRecords /\ b.kind = k.kind /\ b.arg = k.arg /\ b.answer = k.answer /\ b.stage = k.stage
      /\ b.live = k.live /\ ~b.heard
  BY DEF SubSends, SubRecords
<1>3. d \in SubRecords /\ d.kind = k.kind /\ d.arg = k.arg /\ d.answer = k.answer /\ d.stage = k.stage
      /\ ~d.live /\ d.heard = k.heard
  BY DEF SubSends, SubRecords
<1> HIDE DEF a, b, d
<1>4. a \in SubSends(w)
  BY <1>1 DEF SubSends
<1>5. b \in SubSends(w)
  BY <1>2 DEF SubSends
<1>6. d \in SubSends(w)
  BY <1>3 DEF SubSends
<1>. QED
  BY <1>4, <1>5, <1>6 DEF a, b, d

\* What the page sends is one of its calls.
LEMMA SubNew ==
  ASSUME NEW w, w.user \in Users, NEW kind \in SubKinds, NEW arg, SubTyped(kind, arg),
         kind \in SubPlain => arg = None,
         kind = "submit" => arg \in w.made /\ arg \in SubMade,
         kind \in {"list", "setup"} => arg = w.user,
         kind = "details" => arg[3] = w.user /\ w.expanded = arg[1],
         kind = "reload" => arg[2] = w.user
  PROVE  Sent(kind, arg) \in SubSends(w)
<1>1. arg \in {None} \cup Users \cup Subs \cup Types \cup SubDetails \cup SubReloads \cup SubSlots \cup SubMade
  BY DEF SubTyped, SubKinds, Submissions!Reading, SubOfOne, SubPuts
<1>2. Sent(kind, arg) \in SubRecords
  BY <1>1 DEF Sent, SubRecords
<1>. QED
  BY <1>2 DEF Sent, SubSends

\* No submission is expanded, or more was made.
LEMMA SubGrows ==
  ASSUME NEW w \in SubWorlds, NEW v \in SubWorlds, v.user = w.user, v.heard = w.heard,
         v.expanded \in {w.expanded, None}, v.commands >= w.commands, w.made \subseteq v.made
  PROVE  SubSends(w) \subseteq SubSends(v)
<1> SUFFICES ASSUME NEW k \in SubSends(w) PROVE k \in SubSends(v)
  OBVIOUS
<1>1. k.stage = "ok" => k.answer \in 0 .. v.commands
  BY DEF SubSends, SubWorlds
<1>. QED
  BY <1>1 DEF SubSends

\* What is ignored may be of a list, or of a submission, that is not the last.
LEMMA SubIgnored ==
  ASSUME NEW w \in SubWorlds, NEW v \in SubWorlds, v.user = w.user, v.commands = w.commands, v.made = w.made,
         NEW kind, v.expanded = w.expanded \/ kind = "details", v.heard = w.heard \/ kind = "list",
         NEW calls \in Table(SubSends(w))
  PROVE  /\ Ignored(calls, {kind}) \in Table(SubSends(v))
         /\ Free(calls) \subseteq Free(Ignored(calls, {kind}))
<1> DEFINE next == Ignored(calls, {kind})
<1>1. ASSUME NEW x \in Calls, calls[x] # None PROVE next[x] \in SubSends(v)
  <2>1. calls[x] \in SubSends(w)
    BY <1>1 DEF Table
  <2>2. CASE calls[x].kind # kind
    <3>1. next[x] = calls[x]
      BY <2>2 DEF Ignored
    <3>2. calls[x] \in SubSends(v)
      BY <2>1, <2>2 DEF SubSends
    <3>. QED
      BY <3>1, <3>2
  <2>3. CASE calls[x].kind = kind
    <3> DEFINE k == [calls[x] EXCEPT !.live = FALSE]
    <3>1. next[x] = k
      BY <1>1, <2>3 DEF Ignored
    <3>2. k \in SubSends(w)
      BY <2>1, SubLasting DEF Lasting
    <3>3. ~k.live
      BY <2>1 DEF SubSends, SubRecords
    <3> HIDE DEF k
    <3>4. k \in SubSends(v)
      BY <3>2, <3>3 DEF SubSends
    <3>. QED
      BY <3>1, <3>4
  <2>. QED
    BY <2>2, <2>3
<1>2. \A x \in Calls : calls[x] = None => next[x] = None
  BY DEF Ignored
<1>3. next = [x \in Calls |-> next[x]]
  BY DEF Ignored
<1> HIDE DEF next
<1>4. next \in Table(SubSends(v))
  <2>1. \A x \in Calls : next[x] \in SubSends(v) \cup {None}
    BY <1>1, <1>2
  <2>. QED
    BY <1>3, <2>1 DEF Table
<1>. QED
  BY <1>2, <1>4 DEF Free, next

\* One field of a world at a time.
LEMMA SubWorld ==
  ASSUME NEW w \in SubWorlds
  PROVE  /\ \A s \in Subs \cup {None} : \E v \in SubWorlds :
              /\ v.user = w.user /\ v.expanded = s /\ v.heard = w.heard
              /\ v.commands = w.commands /\ v.made = w.made
         /\ \A h \in Nat : h <= w.commands => \E v \in SubWorlds :
              /\ v.user = w.user /\ v.expanded = w.expanded /\ v.heard = h
              /\ v.commands = w.commands /\ v.made = w.made
         /\ \A u \in Users \cup {None} : \E v \in SubWorlds :
              /\ v.user = u /\ v.expanded = None /\ v.heard = 0
              /\ v.commands = w.commands /\ v.made = w.made
         /\ \E v \in SubWorlds :
              /\ v.user = w.user /\ v.expanded = w.expanded /\ v.heard = w.heard
              /\ v.commands = w.commands + 1 /\ v.made = w.made
<1> DEFINE World(u, s, h, n) == [user |-> u, expanded |-> s, heard |-> h, commands |-> n, made |-> w.made]
<1>1. ASSUME NEW u \in Users \cup {None}, NEW s \in Subs \cup {None}, NEW h \in Nat, NEW n \in Nat, h <= n
      PROVE  World(u, s, h, n) \in SubWorlds
  BY <1>1 DEF SubWorlds
<1>2. \A u, s, h, n : /\ World(u, s, h, n).user = u /\ World(u, s, h, n).expanded = s
                      /\ World(u, s, h, n).heard = h /\ World(u, s, h, n).commands = n
                      /\ World(u, s, h, n).made = w.made
  OBVIOUS
<1> HIDE DEF World
<1>3. /\ w.user \in Users \cup {None} /\ w.expanded \in Subs \cup {None} /\ w.heard \in Nat /\ w.commands \in Nat
      /\ w.heard <= w.commands
  BY DEF SubWorlds
<1>4. ASSUME NEW s \in Subs \cup {None} PROVE World(w.user, s, w.heard, w.commands) \in SubWorlds
  BY <1>1, <1>3
<1>5. ASSUME NEW h \in Nat, h <= w.commands PROVE World(w.user, w.expanded, h, w.commands) \in SubWorlds
  BY <1>1, <1>3, <1>5
<1>6. ASSUME NEW u \in Users \cup {None} PROVE World(u, None, 0, w.commands) \in SubWorlds
  BY <1>1, <1>3
<1>7. World(w.user, w.expanded, w.heard, w.commands + 1) \in SubWorlds
  <2>1. w.commands + 1 \in Nat /\ w.heard <= w.commands + 1
    BY <1>3
  <2>. QED
    BY <1>1, <1>3, <2>1
<1>8. \A s \in Subs \cup {None} : \E v \in SubWorlds :
        /\ v.user = w.user /\ v.expanded = s /\ v.heard = w.heard /\ v.commands = w.commands /\ v.made = w.made
  BY <1>2, <1>4
<1>9. \A h \in Nat : h <= w.commands => \E v \in SubWorlds :
        /\ v.user = w.user /\ v.expanded = w.expanded /\ v.heard = h /\ v.commands = w.commands /\ v.made = w.made
  BY <1>2, <1>5
<1>10. \A u \in Users \cup {None} : \E v \in SubWorlds :
         /\ v.user = u /\ v.expanded = None /\ v.heard = 0 /\ v.commands = w.commands /\ v.made = w.made
  BY <1>2, <1>6
<1>11. \E v \in SubWorlds :
         /\ v.user = w.user /\ v.expanded = w.expanded /\ v.heard = w.heard
         /\ v.commands = w.commands + 1 /\ v.made = w.made
  BY <1>2, <1>7
<1>. QED
  BY <1>8, <1>9, <1>10, <1>11

\* The same handlers, whatever the page shows.
LEMMA SubStoredSame ==
  ASSUME NEW w, NEW v, v.commands = w.commands, v.made = w.made PROVE SubStored(v) = SubStored(w)
BY DEF SubStored

\* A list is asked for, maybe after more was heard.
LEMMA SubListing ==
  ASSUME NEW w \in SubWorlds, NEW v \in SubWorlds, w.user \in Users,
         v.user = w.user, v.expanded = w.expanded, v.commands = w.commands, v.made = w.made,
         NEW calls \in Table(SubSends(w)), Free(calls) # {},
         NEW p, p.user = w.user, [p EXCEPT !.fetching = TRUE] \in SubShown(v)
  PROVE  /\ Submissions!Listing(calls, p)[1] \in Table(SubSends(v))
         /\ Submissions!Listing(calls, p)[2] \in SubShown(v)
<1> DEFINE next == Ignored(calls, {"list"})
           k == Sent("list", p.user)
<1>1. next \in Table(SubSends(v)) /\ Free(next) # {}
  BY SubIgnored
<1>2. k \in SubSends(v)
  BY SubNew DEF SubTyped, SubKinds, Submissions!Reading, SubOfOne, SubPlain, SubPuts
<1> HIDE DEF next, k
<1>3. Put(next, k) \in Table(SubSends(v))
  BY <1>1, <1>2, PutCall
<1>4. Submissions!Listing(calls, p)[1] = Put(next, k) /\ Submissions!Listing(calls, p)[2] = [p EXCEPT !.fetching = TRUE]
  BY SubCalls DEF Submissions!Listing, next, k
<1>. QED
  BY <1>3, <1>4

\* Details are asked for.
LEMMA SubExpanding ==
  ASSUME NEW w \in SubWorlds, NEW v \in SubWorlds, NEW s \in Subs, NEW after \in {None, "replace"}, w.user \in Users,
         v.user = w.user, v.expanded = s, v.heard = w.heard, v.commands = w.commands, v.made = w.made,
         NEW calls \in Table(SubSends(w)), Free(calls) # {}, NEW p \in SubShown(w)
  PROVE  /\ Submissions!Expanding(calls, p, s, after)[1] \in Table(SubSends(v))
         /\ Submissions!Expanding(calls, p, s, after)[2] \in SubShown(v)
<1> DEFINE next == Ignored(calls, {"details"})
           k == Sent("details", <<s, after, p.user>>)
           q == [p EXCEPT !.expanded = s, !.docs = None, !.loadingDocs = TRUE]
<1>1. next \in Table(SubSends(v)) /\ Free(next) # {}
  BY SubIgnored
<1>2. p.user = w.user
  BY DEF SubShown
<1>3. k \in SubSends(v)
  BY <1>2, SubNew DEF SubTyped, SubDetails, SubKinds, Submissions!Reading, SubOfOne, SubPlain, SubPuts
<1>4. q \in SubShown(v)
  <2>0. p \in SubPages
    BY DEF SubShown
  <2>1. q \in SubPages
    BY Zenon, <2>0 DEF SubPages
  <2>2. /\ q.user = p.user /\ q.heard = p.heard /\ q.expanded = s /\ q.dialogs = p.dialogs /\ q.list = p.list
        /\ q.fetching = p.fetching /\ q.setup = p.setup /\ q.docs = None /\ q.attempt = p.attempt /\ q.round = p.round
    BY <2>0 DEF SubPages
  <2> HIDE DEF q
  <2>. QED
    BY <2>1, <2>2 DEF SubShown
<1> HIDE DEF next, k, q
<1>5. Put(next, k) \in Table(SubSends(v))
  BY <1>1, <1>3, PutCall
<1>6. Submissions!Expanding(calls, p, s, after)[1] = Put(next, k) /\ Submissions!Expanding(calls, p, s, after)[2] = q
  BY SubCalls DEF Submissions!Expanding, next, k, q
<1>. QED
  BY <1>4, <1>5, <1>6

\* The page as it is mounted.
LEMMA SubEmpty ==
  ASSUME NEW u \in Users \cup {None}, NEW n \in Nat
  PROVE  /\ Submissions!Mounted(u, n) \in SubPages
         /\ u = None => Submissions!Mounted(u, n).fetching = FALSE
         /\ Submissions!Mounted(u, n).user = u /\ Submissions!Mounted(u, n).heard = 0
         /\ Submissions!Mounted(u, n).expanded = None /\ Submissions!Mounted(u, n).dialogs = {}
         /\ Submissions!Mounted(u, n).list = None /\ Submissions!Mounted(u, n).setup = None
         /\ Submissions!Mounted(u, n).docs = None /\ Submissions!Mounted(u, n).attempt = None
         /\ Submissions!Mounted(u, n).round = n
<1>1. Submissions!Mounted(u, n) \in SubPages
  BY SMTT(60) DEF Submissions!Mounted, SubPages
<1>. QED
  BY <1>1 DEF Submissions!Mounted

\* The page as it is first seen.
LEMMA SubInit == Submissions!Init => SubInv
<1> SUFFICES ASSUME Submissions!Init PROVE SubInv
  OBVIOUS
<1>1. PICK u \in Users :
        LET listed == [Submissions!Mounted(u, 0) EXCEPT !.list = [of |-> u, commands |-> 0], !.fetching = FALSE]
        IN \/ page = listed
           \/ Role[u] = "business" /\ page = [listed EXCEPT !.dialogs = {"submit"}, !.setup = u]
  BY Zenon DEF Submissions!Init
<1> DEFINE w == [user |-> u, expanded |-> None, heard |-> 0, commands |-> 0, made |-> {}]
<1>2. w \in SubWorlds /\ u # None
  BY NoneAssumption DEF SubWorlds
<1>3. call \in Table(SubSends(w)) /\ asked \in Nat
  BY DEF Submissions!Init, Table
<1>4. server \in SubStored(w)
  BY DEF Submissions!Init, SubStored
<1>5. page \in SubPages
  <2> DEFINE mounted == Submissions!Mounted(u, 0)
             listed == [mounted EXCEPT !.list = [of |-> u, commands |-> 0], !.fetching = FALSE]
  <2>1. mounted \in SubPages /\ [of |-> u, commands |-> 0] \in Submissions!Lists
    BY SubEmpty DEF Submissions!Lists
  <2>2. page = listed \/ page = [listed EXCEPT !.dialogs = {"submit"}, !.setup = u]
    BY <1>1
  <2> HIDE DEF mounted
  <2>3. listed \in SubPages
    BY <2>1 DEF SubPages
  <2> HIDE DEF listed
  <2>4. [listed EXCEPT !.dialogs = {"submit"}, !.setup = u] \in SubPages
    BY <2>3 DEF SubPages, Submissions!Dialogs
  <2>. QED
    BY <2>2, <2>3, <2>4
<1>6. /\ page.user = u /\ page.heard = 0 /\ page.expanded = None /\ page.list = [of |-> u, commands |-> 0]
      /\ page.setup \in {u, None} /\ page.docs = None /\ page.attempt = None
  BY Zenon, <1>1 DEF Submissions!Mounted
<1>7. page \in SubShown(w)
  BY <1>2, <1>5, <1>6 DEF SubShown
<1>. QED
  BY <1>2, <1>3, <1>4, <1>7 DEF SubInv, SubFits, Fits

\* A page mounted for an identity, or for none.
LEMMA SubMounted ==
  ASSUME NEW w \in SubWorlds, NEW p \in SubShown(w), NEW v \in SubWorlds,
         v.expanded = None, v.heard = 0, v.made = w.made, NEW fetching \in BOOLEAN
  PROVE  [Submissions!Mounted(v.user, p.round + 1) EXCEPT !.fetching = fetching] \in SubShown(v)
<1> DEFINE q == [Submissions!Mounted(v.user, p.round + 1) EXCEPT !.fetching = fetching]
<1>1. p.round + 1 \in Nat /\ v.user \in Users \cup {None}
  BY DEF SubShown, SubPages, SubWorlds
<1>2. /\ q \in SubPages
      /\ q.user = v.user /\ q.heard = 0 /\ q.expanded = None /\ q.dialogs = {} /\ q.list = None
      /\ q.setup = None /\ q.docs = None /\ q.attempt = None /\ q.round = p.round + 1
  <2> DEFINE mounted == Submissions!Mounted(v.user, p.round + 1)
  <2>1. /\ mounted \in SubPages
        /\ mounted.user = v.user /\ mounted.heard = 0 /\ mounted.expanded = None /\ mounted.dialogs = {}
        /\ mounted.list = None /\ mounted.setup = None /\ mounted.docs = None /\ mounted.attempt = None
        /\ mounted.round = p.round + 1
    BY <1>1, SubEmpty
  <2> HIDE DEF mounted
  <2>2. q \in SubPages
    BY <2>1 DEF SubPages, mounted
  <2>. QED
    BY <2>1, <2>2 DEF SubPages, mounted
<1>3. \A x \in v.made : x.round < p.round + 1
  BY DEF SubShown, SubPages, SubWorlds, SubMade
<1> HIDE DEF q
<1>4. q \in SubShown(v)
  BY <1>1, <1>2, <1>3 DEF SubShown, SubWorlds, SubMade, SubPages
<1>. QED
  BY <1>4 DEF q

LEMMA SubSwitch == ASSUME SubInv, NEW u \in Users \cup {None}, Submissions!Switch(u) PROVE SubInv'
<1>1. PICK w \in SubWorlds : SubFits(w)
  BY DEF SubInv
<1>2. PICK v \in SubWorlds : v.user = u /\ v.expanded = None /\ v.heard = 0 /\ v.commands = w.commands /\ v.made = w.made
  BY SubWorld
<1>3. call \in Table(SubSends(w)) /\ page \in SubShown(w) /\ server \in SubStored(w)
  BY <1>1 DEF SubFits, Fits
<1>4. /\ Unmounted \in Table(SubSends(w))
      /\ \A x \in Calls : \/ call[x] = None /\ Unmounted[x] = None
                          \/ call[x] # None /\ call[x] \in SubSends(w)
                             /\ Unmounted[x] = [call[x] EXCEPT !.heard = FALSE]
  BY <1>3, SubLasting, UnmountedCalls
<1>5. ASSUME NEW x \in SubSends(w) PROVE [x EXCEPT !.heard = FALSE] \in SubSends(v)
  <2> DEFINE k == [x EXCEPT !.heard = FALSE]
  <2>1. k \in SubSends(w)
    BY SubLasting DEF Lasting
  <2>2. ~k.heard
    BY DEF SubSends, SubRecords
  <2> HIDE DEF k
  <2>3. k \in SubSends(v)
    BY <1>2, <2>1, <2>2 DEF SubSends
  <2>. QED
    BY <2>3 DEF k
<1>6. Unmounted \in Table(SubSends(v))
  <2>1. \A x \in Calls : Unmounted[x] \in SubSends(v) \cup {None}
    BY <1>4, <1>5
  <2>. QED
    BY <1>4, <2>1 DEF Table
<1>7. Free(Unmounted) # {}
  BY <1>4, SubCalls DEF Submissions!Switch, Free
<1>8. server' \in SubStored(v)
  BY <1>2, <1>3 DEF Submissions!Switch, SubStored
<1>9. call' = Submissions!MountedFor(u)[1] /\ page' = Submissions!MountedFor(u)[2] /\ asked' = asked
  BY DEF Submissions!Switch
<1> DEFINE p == Submissions!Mounted(u, page.round + 1)
<1>10. call' \in Table(SubSends(v)) /\ page' \in SubShown(v)
  <2>1. CASE u = None
    <3>1. call' = Unmounted /\ page' = p
      BY <1>9, <2>1, SubCalls DEF Submissions!MountedFor
    <3>2. [p EXCEPT !.fetching = FALSE] = p
      <4>1. page.round + 1 \in Nat
        BY <1>3 DEF SubShown, SubPages
      <4>2. p \in SubPages /\ p.fetching = FALSE
        BY Zenon, <2>1, <4>1, SubEmpty
      <4>. QED
        BY <4>2 DEF SubPages
    <3>3. [p EXCEPT !.fetching = FALSE] \in SubShown(v)
      BY <1>2, <1>3, SubMounted
    <3> HIDE DEF p
    <3>. QED
      BY <1>6, <3>1, <3>2, <3>3
  <2>2. CASE u # None
    <3>1. call' = Submissions!Listing(Unmounted, p)[1] /\ page' = Submissions!Listing(Unmounted, p)[2]
      BY <1>9, <2>2, SubCalls DEF Submissions!MountedFor
    <3>2. p.user = u
      BY DEF Submissions!Mounted
    <3>3. [p EXCEPT !.fetching = TRUE] \in SubShown(v)
      BY <1>2, <1>3, SubMounted
    <3> HIDE DEF p
    <3>. QED
      BY <1>2, <1>6, <1>7, <2>2, <3>1, <3>2, <3>3, SubListing
  <2>. QED
    BY <2>1, <2>2
<1>11. SubFits(v)'
  BY <1>8, <1>10 DEF SubFits, Fits
<1>. QED
  BY <1>9, <1>11 DEF SubInv

\* What nothing else on the page depends on may change.
LEMMA SubTouched ==
  ASSUME NEW w, NEW p \in SubShown(w), NEW q \in SubPages,
         q.user = p.user, q.heard = p.heard, q.expanded = p.expanded, q.list = p.list, q.fetching = p.fetching,
         q.setup \in {p.setup, None}, q.docs = p.docs, q.attempt = p.attempt, q.round = p.round,
         q.user # None \/ q.dialogs = {}
  PROVE  q \in SubShown(w)
BY DEF SubShown

\* A submission is closed.
LEMMA SubClosed ==
  ASSUME NEW w \in SubWorlds, NEW p \in SubShown(w), NEW v \in SubWorlds,
         v.user = w.user, v.expanded = None, v.heard = w.heard, v.commands = w.commands, v.made = w.made
  PROVE  [p EXCEPT !.expanded = None] \in SubShown(v)
<1> DEFINE q == [p EXCEPT !.expanded = None]
<1>1. p \in SubPages
  BY DEF SubShown
<1>2. /\ q \in SubPages /\ q.user = p.user /\ q.heard = p.heard /\ q.expanded = None /\ q.dialogs = p.dialogs
      /\ q.list = p.list /\ q.fetching = p.fetching /\ q.setup = p.setup /\ q.docs = p.docs
      /\ q.attempt = p.attempt /\ q.round = p.round
  <2>1. q \in SubPages
    BY <1>1 DEF SubPages
  <2>. QED
    BY <1>1, <2>1 DEF SubPages
<1> HIDE DEF q
<1>3. q \in SubShown(v)
  BY <1>2 DEF SubShown
<1>. QED
  BY <1>3 DEF q

LEMMA SubStarts == ASSUME SubInv, Submissions!Starts PROVE SubInv'
<1>1. PICK w \in SubWorlds : SubFits(w)
  BY DEF SubInv
<1>2. /\ call \in Table(SubSends(w)) /\ page \in SubShown(w) /\ server \in SubStored(w) /\ asked \in Nat
      /\ page \in SubPages /\ page.user = w.user /\ page.expanded = w.expanded
      /\ page.user = None => page.dialogs = {}
  BY <1>1 DEF SubInv, SubFits, Fits, SubShown
<1> USE SubCalls DEF Submissions!Does
<1>3. w.user \in Users
  <2>1. page.user # None
    BY Zenon, <1>2 DEF Submissions!Starts, Submissions!ToggleExpand, Submissions!RetryDetails, Submissions!UpdateStatus,
       Submissions!AssignAuditor, Submissions!SaveEvaluation, Submissions!ApproveFinal, Submissions!HandleFinalize,
       Submissions!HandleReupload, Submissions!OpenRevisions, Submissions!HandleSubmit, Submissions!CloseDialog,
       Submissions!RenewToken, Submissions!RetryList, Submissions!BackToFolders, Submissions!OpenCertificate,
       Submissions!IssueCertificate, Submissions!OpenDeadline, Submissions!SetDeadline, Submissions!SelectRevision,
       Submissions!OpenSubmitModal, Submissions!CloseSubmitModal, Submissions!Opened, Submissions!RowsShown,
       Submissions!Usable, Submissions!IsBusiness
  <2>. QED
    BY <1>2, <2>1 DEF SubWorlds
<1>4. ASSUME NEW p \in SubShown(w), Turns(p) PROVE SubInv'
  <2>1. SubFits(w)'
    BY <1>1, <1>4, PageTurns DEF SubFits
  <2>. QED
    BY <1>2, <1>4, <2>1 DEF Turns, SubInv
<1>5. ASSUME NEW k \in SubSends(w), NEW p \in SubShown(w), Gives(call, k, p) PROVE SubInv'
  <2>1. SubFits(w)'
    BY <1>1, <1>5, PageGives DEF SubFits
  <2>. QED
    BY <1>2, <1>5, <2>1 DEF Gives, SubInv
<1>6. ASSUME NEW flag \in Submissions!Flags PROVE Submissions!Flagged(flag) \in SubShown(w)
  <2> DEFINE q == [page EXCEPT !.busy = @ \cup {flag}]
  <2>1. /\ q \in SubPages /\ q.user = page.user /\ q.heard = page.heard /\ q.expanded = page.expanded
        /\ q.list = page.list /\ q.fetching = page.fetching /\ q.setup = page.setup /\ q.docs = page.docs
        /\ q.attempt = page.attempt /\ q.round = page.round
    <3>1. q \in SubPages
      BY <1>2 DEF SubPages
    <3>. QED
      BY <1>2, <3>1 DEF SubPages
  <2> HIDE DEF q
  <2>2. q \in SubShown(w)
    BY <1>2, <1>3, <2>1, SubTouched, NoneAssumption
  <2>. QED
    BY <2>2 DEF Submissions!Flagged, q
<1>7. ASSUME NEW kind \in SubOfOne, NEW s \in Subs PROVE Sent(kind, s) \in SubSends(w)
  <2>1. kind \in SubKinds /\ kind \notin SubPlain \cup SubPuts \cup {"submit", "list", "setup", "details", "reload", "revisions"}
    BY <1>7 DEF SubKinds, SubOfOne, SubPlain, SubPuts
  <2>. QED
    BY <1>3, <2>1, SubNew DEF SubTyped
<1>8. ASSUME NEW s \in Subs, Submissions!Starting(Submissions!Expanding(call, page, s, None)) PROVE SubInv'
  <2>1. PICK v \in SubWorlds : /\ v.user = w.user /\ v.expanded = s /\ v.heard = w.heard
                               /\ v.commands = w.commands /\ v.made = w.made
    BY SubWorld
  <2>2. Free(call) # {} /\ asked' = asked + 1 /\ server' = server
        /\ call' = Submissions!Expanding(call, page, s, None)[1] /\ page' = Submissions!Expanding(call, page, s, None)[2]
    BY <1>8 DEF Submissions!Starting
  <2>3. call' \in Table(SubSends(v)) /\ page' \in SubShown(v)
    BY <1>2, <1>3, <2>1, <2>2, SubExpanding
  <2>4. server' \in SubStored(v)
    BY <1>2, <2>1, <2>2, SubStoredSame
  <2>5. SubFits(v)'
    BY <2>3, <2>4 DEF SubFits, Fits
  <2>. QED
    BY <1>2, <2>2, <2>5 DEF SubInv
<1>9. ASSUME Turns([page EXCEPT !.expanded = None]) PROVE SubInv'
  <2>1. PICK v \in SubWorlds : /\ v.user = w.user /\ v.expanded = None /\ v.heard = w.heard
                               /\ v.commands = w.commands /\ v.made = w.made
    BY SubWorld
  <2>2. page' = [page EXCEPT !.expanded = None] /\ call' = call /\ server' = server /\ asked' = asked
    BY <1>9 DEF Turns
  <2>3. page' \in SubShown(v)
    BY <1>2, <2>1, <2>2, SubClosed
  <2>4. call' \in Table(SubSends(v))
    <3>1. SubSends(w) \subseteq SubSends(v)
      BY <2>1, SubGrows DEF SubWorlds
    <3>. QED
      BY <1>2, <2>2, <3>1 DEF Table
  <2>5. server' \in SubStored(v)
    BY <1>2, <2>1, <2>2, SubStoredSame
  <2>6. SubFits(v)'
    BY <2>3, <2>4, <2>5 DEF SubFits, Fits
  <2>. QED
    BY <1>2, <2>2, <2>6 DEF SubInv
<1>10. ASSUME Submissions!Starting(Submissions!Listing(call, page)) PROVE SubInv'
  <2>1. Free(call) # {} /\ asked' = asked + 1 /\ server' = server
        /\ call' = Submissions!Listing(call, page)[1] /\ page' = Submissions!Listing(call, page)[2]
    BY <1>10 DEF Submissions!Starting
  <2> DEFINE q == [page EXCEPT !.fetching = TRUE]
  <2>2. /\ q \in SubPages /\ q.user = page.user /\ q.heard = page.heard /\ q.expanded = page.expanded
        /\ q.list = page.list /\ q.fetching = TRUE /\ q.setup = page.setup /\ q.docs = page.docs
        /\ q.attempt = page.attempt /\ q.round = page.round /\ q.dialogs = page.dialogs
    <3>1. q \in SubPages
      BY <1>2 DEF SubPages
    <3>. QED
      BY <1>2, <3>1 DEF SubPages
  <2> HIDE DEF q
  <2>3. q \in SubShown(w)
    BY <1>2, <2>2 DEF SubShown
  <2>4. call' \in Table(SubSends(w)) /\ page' \in SubShown(w)
    BY <1>2, <1>3, <2>1, <2>3, SubListing DEF q
  <2>5. SubFits(w)'
    BY <1>2, <2>1, <2>4 DEF SubFits, Fits
  <2>. QED
    BY <1>2, <2>1, <2>5 DEF SubInv
<1>11. ASSUME NEW s \in Subs, \/ Submissions!ToggleExpand(s) \/ Submissions!RetryDetails(s) \/ Submissions!UpdateStatus(s)
                              \/ Submissions!AssignAuditor(s) \/ Submissions!SaveEvaluation(s)
                              \/ Submissions!ApproveFinal(s) \/ Submissions!HandleFinalize(s)
       PROVE  SubInv'
  <2>1. CASE Submissions!ToggleExpand(s)
    BY <1>8, <1>9, <2>1 DEF Submissions!ToggleExpand
  <2>2. CASE Submissions!RetryDetails(s)
    BY <1>8, <2>2 DEF Submissions!RetryDetails
  <2>3. CASE Submissions!UpdateStatus(s)
    <3> DEFINE q == [page EXCEPT !.updating = s]
    <3>1. /\ q \in SubPages /\ q.user = page.user /\ q.heard = page.heard /\ q.expanded = page.expanded
          /\ q.list = page.list /\ q.fetching = page.fetching /\ q.setup = page.setup /\ q.docs = page.docs
          /\ q.attempt = page.attempt /\ q.round = page.round
      <4>1. q \in SubPages
        BY <1>2 DEF SubPages
      <4>. QED
        BY <1>2, <4>1 DEF SubPages
    <3>2. Gives(call, Sent("update", s), q)
      BY <2>3 DEF Submissions!UpdateStatus
    <3> HIDE DEF q
    <3>3. q \in SubShown(w)
      BY <1>2, <1>3, <3>1, SubTouched, NoneAssumption
    <3>. QED
      BY <1>5, <1>7, <3>2, <3>3 DEF SubOfOne
  <2>4. CASE Submissions!AssignAuditor(s)
    <3> DEFINE q == [page EXCEPT !.assigning = s]
    <3>1. /\ q \in SubPages /\ q.user = page.user /\ q.heard = page.heard /\ q.expanded = page.expanded
          /\ q.list = page.list /\ q.fetching = page.fetching /\ q.setup = page.setup /\ q.docs = page.docs
          /\ q.attempt = page.attempt /\ q.round = page.round
      <4>1. q \in SubPages
        BY <1>2 DEF SubPages
      <4>. QED
        BY <1>2, <4>1 DEF SubPages
    <3>2. Gives(call, Sent("assign", s), q)
      BY <2>4 DEF Submissions!AssignAuditor
    <3> HIDE DEF q
    <3>3. q \in SubShown(w)
      BY <1>2, <1>3, <3>1, SubTouched, NoneAssumption
    <3>. QED
      BY <1>5, <1>7, <3>2, <3>3 DEF SubOfOne
  <2>5. CASE Submissions!SaveEvaluation(s) \/ Submissions!ApproveFinal(s) \/ Submissions!HandleFinalize(s)
    BY <1>5, <1>6, <1>7, <2>5 DEF Submissions!SaveEvaluation, Submissions!ApproveFinal,
       Submissions!HandleFinalize, Submissions!Flags, SubOfOne
  <2>. QED
    BY <1>11, <2>1, <2>2, <2>3, <2>4, <2>5
<1>12. ASSUME NEW s \in Subs, NEW t \in Types, Submissions!HandleReupload(s, t) PROVE SubInv'
  <2>1. Sent("upload", <<s, t, t>>) \in SubSends(w)
    BY <1>3, SubNew DEF SubTyped, SubSlots, SubKinds, Submissions!Reading, SubOfOne, SubPlain, SubPuts
  <2>. QED
    BY <1>5, <1>6, <1>12, <2>1 DEF Submissions!HandleReupload, Submissions!Flags
<1>13. ASSUME NEW t \in Types, Submissions!OpenRevisions(t) PROVE SubInv'
  <2>1. Sent("revisions", t) \in SubSends(w)
    BY <1>3, SubNew DEF SubTyped, SubKinds, Submissions!Reading, SubOfOne, SubPlain, SubPuts
  <2> DEFINE q == [page EXCEPT !.dialogs = {"revisions"}, !.revisionType = t, !.loadingRevisions = TRUE]
  <2>2. /\ q \in SubPages /\ q.user = page.user /\ q.heard = page.heard /\ q.expanded = page.expanded
        /\ q.list = page.list /\ q.fetching = page.fetching /\ q.setup = page.setup /\ q.docs = page.docs
        /\ q.attempt = page.attempt /\ q.round = page.round
    <3>1. q \in SubPages
      BY <1>2 DEF SubPages, Submissions!Dialogs
    <3>. QED
      BY <1>2, <3>1 DEF SubPages
  <2>3. Gives(call, Sent("revisions", t), q)
    BY <1>13 DEF Submissions!OpenRevisions
  <2> HIDE DEF q
  <2>4. q \in SubShown(w)
    BY <1>2, <1>3, <2>2, SubTouched, NoneAssumption
  <2>. QED
    BY <1>5, <2>1, <2>3, <2>4
<1>14. CASE Submissions!OpenCertificate
  <2> DEFINE q == [page EXCEPT !.dialogs = {"certificate"}]
  <2>1. /\ q \in SubPages /\ q.user = page.user /\ q.heard = page.heard /\ q.expanded = page.expanded
        /\ q.list = page.list /\ q.fetching = page.fetching /\ q.setup = page.setup /\ q.docs = page.docs
        /\ q.attempt = page.attempt /\ q.round = page.round
    <3>1. q \in SubPages
      BY <1>2 DEF SubPages, Submissions!Dialogs
    <3>. QED
      BY <1>2, <3>1 DEF SubPages
  <2>2. Turns(q)
    BY <1>14 DEF Submissions!OpenCertificate
  <2> HIDE DEF q
  <2>3. q \in SubShown(w)
    BY <1>2, <1>3, <2>1, SubTouched, NoneAssumption
  <2>. QED
    BY <1>4, <2>2, <2>3
<1>15. CASE Submissions!OpenDeadline
  <2> DEFINE q == [page EXCEPT !.dialogs = {"deadline"}]
  <2>1. /\ q \in SubPages /\ q.user = page.user /\ q.heard = page.heard /\ q.expanded = page.expanded
        /\ q.list = page.list /\ q.fetching = page.fetching /\ q.setup = page.setup /\ q.docs = page.docs
        /\ q.attempt = page.attempt /\ q.round = page.round
    <3>1. q \in SubPages
      BY <1>2 DEF SubPages, Submissions!Dialogs
    <3>. QED
      BY <1>2, <3>1 DEF SubPages
  <2>2. Turns(q)
    BY <1>15 DEF Submissions!OpenDeadline
  <2> HIDE DEF q
  <2>3. q \in SubShown(w)
    BY <1>2, <1>3, <2>1, SubTouched, NoneAssumption
  <2>. QED
    BY <1>4, <2>2, <2>3
<1>16. ASSUME NEW d \in Submissions!Dialogs, Submissions!CloseDialog(d) PROVE SubInv'
  <2> DEFINE dialogs == page.dialogs \ {d}
             type == IF d = "revisions" THEN None ELSE page.revisionType
             q == [page EXCEPT !.dialogs = dialogs, !.revisionType = type]
  <2>0. dialogs \in SUBSET Submissions!Dialogs /\ type \in Types \cup {None}
    BY <1>2 DEF SubPages
  <2>1. /\ q \in SubPages /\ q.user = page.user /\ q.heard = page.heard /\ q.expanded = page.expanded
        /\ q.list = page.list /\ q.fetching = page.fetching /\ q.setup = page.setup /\ q.docs = page.docs
        /\ q.attempt = page.attempt /\ q.round = page.round
    <3> HIDE DEF dialogs, type
    <3>1. q \in SubPages
      BY <1>2, <2>0 DEF SubPages
    <3>. QED
      BY <1>2, <3>1 DEF SubPages
  <2>2. Turns(q)
    BY <1>16 DEF Submissions!CloseDialog
  <2> HIDE DEF q
  <2>3. q \in SubShown(w)
    BY <1>2, <1>3, <2>1, SubTouched, NoneAssumption
  <2>. QED
    BY <1>4, <2>2, <2>3
<1>17. CASE Submissions!CloseSubmitModal
  <2> DEFINE q == [page EXCEPT !.dialogs = @ \ {"submit"}]
  <2>1. /\ q \in SubPages /\ q.user = page.user /\ q.heard = page.heard /\ q.expanded = page.expanded
        /\ q.list = page.list /\ q.fetching = page.fetching /\ q.setup = page.setup /\ q.docs = page.docs
        /\ q.attempt = page.attempt /\ q.round = page.round
    <3>1. q \in SubPages
      BY <1>2 DEF SubPages
    <3>. QED
      BY <1>2, <3>1 DEF SubPages
  <2>2. Goes(Ignored(call, {"setup"}), q)
    BY <1>17 DEF Submissions!CloseSubmitModal
  <2> HIDE DEF q
  <2>3. q \in SubShown(w)
    BY <1>2, <1>3, <2>1, SubTouched, NoneAssumption
  <2>4. Ignored(call, {"setup"}) \in Table(SubSends(w))
    BY <1>2, SubIgnored
  <2>. QED
    BY <1>2, <2>2, <2>3, <2>4 DEF Goes, SubInv, SubFits, Fits
<1>18. ASSUME NEW kind \in SubPlain PROVE Sent(kind, None) \in SubSends(w)
  BY <1>3, SubNew DEF SubTyped, SubKinds, Submissions!Reading, SubOfOne, SubPlain, SubPuts
<1>19. CASE Submissions!IssueCertificate \/ Submissions!SetDeadline
  BY <1>2, <1>5, <1>6, <1>18, <1>19 DEF Submissions!IssueCertificate, Submissions!SetDeadline, Submissions!Flags, SubPlain
<1>20. CASE Submissions!SelectRevision
  <2>1. page.expanded \in Subs /\ page.revisionType \in Types \cup {None} /\ page.revisions \in Types
    BY <1>2, <1>20 DEF Submissions!SelectRevision, SubPages
  <2>2. <<page.expanded, page.revisionType, page.revisions>> \in SubSlots
    BY <2>1 DEF SubSlots
  <2>3. Sent("select", <<page.expanded, page.revisionType, page.revisions>>) \in SubSends(w)
    BY <1>3, <2>2, SubNew DEF SubTyped, SubKinds, Submissions!Reading, SubOfOne, SubPlain, SubPuts
  <2>. QED
    BY <1>2, <1>5, <1>20, <2>3 DEF Submissions!SelectRevision
<1>21. CASE Submissions!OpenSubmitModal
  <2> DEFINE q == [page EXCEPT !.dialogs = {"submit"}, !.setup = None, !.loadingSetup = TRUE]
             next == Ignored(call, {"setup"})
             k == Sent("setup", page.user)
  <2>1. /\ q \in SubPages /\ q.user = page.user /\ q.heard = page.heard /\ q.expanded = page.expanded
        /\ q.list = page.list /\ q.fetching = page.fetching /\ q.setup = None /\ q.docs = page.docs
        /\ q.attempt = page.attempt /\ q.round = page.round
    <3>1. q \in SubPages
      BY <1>2 DEF SubPages, Submissions!Dialogs
    <3>. QED
      BY <1>2, <3>1 DEF SubPages
  <2>2. Gives(next, k, q)
    BY <1>21 DEF Submissions!OpenSubmitModal
  <2>3. k \in SubSends(w)
    BY <1>2, <1>3, SubNew DEF SubTyped, SubKinds, Submissions!Reading, SubOfOne, SubPlain, SubPuts
  <2>4. next \in Table(SubSends(w))
    BY <1>2, SubIgnored
  <2> HIDE DEF q, next, k
  <2>5. q \in SubShown(w)
    BY <1>2, <1>3, <2>1, SubTouched, NoneAssumption
  <2>6. call' \in Table(SubSends(w)) /\ page' = q /\ server' = server /\ asked' = asked + 1
    BY <2>2, <2>3, <2>4, PutCall DEF Gives
  <2>. QED
    BY <1>2, <2>5, <2>6 DEF SubInv, SubFits, Fits
<1>22. ASSUME NEW t \in Types, Submissions!HandleSubmit(t) PROVE SubInv'
  <2> DEFINE a == Submissions!AttemptFor(t)
             r == Submissions!RoundFor(t)
             flagged == Submissions!Flagged("submitting")
             q == [flagged EXCEPT !.attempt = a, !.round = r]
  <2>1. PICK x : x = [key |-> a.key, round |-> r]
    OBVIOUS
  <2>2. PICK v : v = [user |-> w.user, expanded |-> w.expanded, heard |-> w.heard, commands |-> w.commands,
                      made |-> w.made \cup {x}]
    OBVIOUS
  <2>3. Gives(call, Sent("submit", x), q)
    BY <1>22, <2>1 DEF Submissions!HandleSubmit
  <2>4. page.attempt # None => page.attempt \in SubAttempts
    BY <1>2 DEF SubPages
  <2>5. page.round \in Nat /\ \A y \in w.made : y.round <= page.round /\ (page.attempt = None => y.round < page.round)
        /\ y.round \in Nat
    BY <1>2 DEF SubShown, SubPages, SubWorlds, SubMade
  <2>6. a \in SubAttempts /\ r \in Nat /\ r >= page.round
    <3>1. [of |-> <<page.user, t>>, key |-> asked] \in SubAttempts
      BY <1>2, <1>3 DEF SubAttempts
    <3>. QED
      BY <2>4, <2>5, <3>1 DEF Submissions!AttemptFor, Submissions!RoundFor
  <2>7. \/ x \in w.made /\ r = page.round
        \/ \A y \in w.made : y.round < r
    <3>1. CASE page.attempt # None /\ page.attempt.of = <<page.user, t>>
      <4>1. a = page.attempt /\ r = page.round
        BY <3>1 DEF Submissions!AttemptFor, Submissions!RoundFor
      <4>. QED
        BY <1>2, <2>1, <3>1, <4>1 DEF SubShown
    <3>2. CASE page.attempt = None
      <4>1. r = page.round
        BY <3>2 DEF Submissions!RoundFor
      <4>. QED
        BY <2>5, <3>2, <4>1
    <3>3. CASE page.attempt # None /\ page.attempt.of # <<page.user, t>>
      <4>1. r = page.round + 1
        BY <3>3 DEF Submissions!RoundFor
      <4>. QED
        BY <2>5, <4>1
    <3>. QED
      BY <3>1, <3>2, <3>3
  <2>8. a # None
    <3>1. a \in [of : Users \X Types, key : Nat]
      BY <2>6 DEF SubAttempts
    <3>. QED
      BY <3>1, NothingAssumption
  <2>9. x \in SubMade /\ x.round = r /\ x.key = a.key
    BY <2>1, <2>6 DEF SubMade, SubAttempts
  <2>10. flagged \in SubShown(w) /\ flagged \in SubPages /\ flagged.user = page.user
    BY <1>2, <1>6 DEF SubShown, Submissions!Flags
  <2> HIDE DEF a, r, flagged
  <2>11. /\ q \in SubPages /\ q.user = flagged.user /\ q.heard = flagged.heard /\ q.expanded = flagged.expanded
         /\ q.list = flagged.list /\ q.fetching = flagged.fetching /\ q.setup = flagged.setup /\ q.docs = flagged.docs
         /\ q.attempt = a /\ q.round = r /\ q.dialogs = flagged.dialogs
    <3>1. q \in SubPages
      BY <2>6, <2>10 DEF SubPages
    <3>. QED
      BY <2>6, <2>10, <3>1 DEF SubPages
  <2> HIDE DEF q
  <2>12. v \in SubWorlds
    <3>1. \A y \in w.made : y.round = x.round => y = x
      BY <2>5, <2>6, <2>7, <2>9 DEF SubWorlds
    <3>. QED
      BY <2>2, <2>9, <3>1 DEF SubWorlds
  <2>13. q \in SubShown(v)
    <3>1. \A y \in v.made : y.round <= r
      BY <2>2, <2>5, <2>6, <2>9
    <3>2. [key |-> a.key, round |-> r] \in v.made
      BY <2>1, <2>2 DEF a, r
    <3>. QED
      BY <2>2, <2>8, <2>10, <2>11, <3>1, <3>2 DEF SubShown
  <2>14. SubSends(w) \subseteq SubSends(v)
    BY <2>2, <2>12, SubGrows DEF SubWorlds
  <2>15. call \in Table(SubSends(v))
    BY <1>2, <2>14 DEF Table
  <2>16. Sent("submit", x) \in SubSends(v)
    BY <1>3, <2>2, <2>9, SubNew DEF SubTyped, SubKinds, Submissions!Reading, SubOfOne, SubPlain, SubPuts
  <2>17. server \in SubStored(v)
    BY <1>2, <2>2 DEF SubStored
  <2>18. call' \in Table(SubSends(v)) /\ page' = q /\ server' = server /\ asked' = asked + 1
    BY <2>3, <2>15, <2>16, PutCall DEF Gives
  <2>. QED
    BY <1>2, <2>12, <2>13, <2>17, <2>18 DEF SubInv, SubFits, Fits
<1>23. CASE Submissions!RenewToken \/ Submissions!RetryList
  BY <1>10, <1>23 DEF Submissions!RenewToken, Submissions!RetryList
<1>24. CASE Submissions!BackToFolders
  BY <1>9, <1>24 DEF Submissions!BackToFolders
<1>. QED
  BY <1>11, <1>12, <1>13, <1>14, <1>15, <1>16, <1>17, <1>19, <1>20, <1>21, <1>22, <1>23, <1>24 DEF Submissions!Starts

\* What an answer may change of a page without touching what depends on anything.
LEMMA SubMinor ==
  ASSUME NEW w, w.user \in Users, NEW p \in SubShown(w), NEW b \in SUBSET Submissions!Flags,
         NEW d \in SUBSET Submissions!Dialogs, NEW r \in Types \cup {None}
  PROVE
    /\ [p EXCEPT !.busy = b] \in SubShown(w)
    /\ [p EXCEPT !.dialogs = d] \in SubShown(w)
    /\ [p EXCEPT !.updating = None] \in SubShown(w)
    /\ [p EXCEPT !.assigning = None] \in SubShown(w)
    /\ [p EXCEPT !.loadingRevisions = FALSE, !.revisions = r] \in SubShown(w)
    /\ [p EXCEPT !.dialogs = d, !.revisionType = None] \in SubShown(w)
    /\ [p EXCEPT !.busy = b, !.revisionType = None, !.dialogs = d] \in SubShown(w)
<1>1. p \in SubPages /\ p.user # None
  BY NoneAssumption DEF SubShown
<1>2. [p EXCEPT !.busy = b] \in SubShown(w)
  <2> DEFINE q == [p EXCEPT !.busy = b]
  <2>1. q \in SubPages
    BY <1>1 DEF SubPages
  <2>2. /\ q.user = p.user /\ q.heard = p.heard /\ q.expanded = p.expanded /\ q.list = p.list
        /\ q.fetching = p.fetching /\ q.setup = p.setup /\ q.docs = p.docs /\ q.attempt = p.attempt /\ q.round = p.round
    BY <1>1, <2>1 DEF SubPages
  <2> HIDE DEF q
  <2>3. q \in SubShown(w)
    BY <1>1, <2>1, <2>2, SubTouched
  <2>. QED
    BY <2>3 DEF q
<1>3. [p EXCEPT !.dialogs = d] \in SubShown(w)
  <2> DEFINE q == [p EXCEPT !.dialogs = d]
  <2>1. q \in SubPages
    BY <1>1 DEF SubPages
  <2>2. /\ q.user = p.user /\ q.heard = p.heard /\ q.expanded = p.expanded /\ q.list = p.list
        /\ q.fetching = p.fetching /\ q.setup = p.setup /\ q.docs = p.docs /\ q.attempt = p.attempt /\ q.round = p.round
    BY <1>1, <2>1 DEF SubPages
  <2> HIDE DEF q
  <2>3. q \in SubShown(w)
    BY <1>1, <2>1, <2>2, SubTouched
  <2>. QED
    BY <2>3 DEF q
<1>4. [p EXCEPT !.updating = None] \in SubShown(w)
  <2> DEFINE q == [p EXCEPT !.updating = None]
  <2>1. q \in SubPages
    BY <1>1 DEF SubPages
  <2>2. /\ q.user = p.user /\ q.heard = p.heard /\ q.expanded = p.expanded /\ q.list = p.list
        /\ q.fetching = p.fetching /\ q.setup = p.setup /\ q.docs = p.docs /\ q.attempt = p.attempt /\ q.round = p.round
    BY <1>1, <2>1 DEF SubPages
  <2> HIDE DEF q
  <2>3. q \in SubShown(w)
    BY <1>1, <2>1, <2>2, SubTouched
  <2>. QED
    BY <2>3 DEF q
<1>5. [p EXCEPT !.assigning = None] \in SubShown(w)
  <2> DEFINE q == [p EXCEPT !.assigning = None]
  <2>1. q \in SubPages
    BY <1>1 DEF SubPages
  <2>2. /\ q.user = p.user /\ q.heard = p.heard /\ q.expanded = p.expanded /\ q.list = p.list
        /\ q.fetching = p.fetching /\ q.setup = p.setup /\ q.docs = p.docs /\ q.attempt = p.attempt /\ q.round = p.round
    BY <1>1, <2>1 DEF SubPages
  <2> HIDE DEF q
  <2>3. q \in SubShown(w)
    BY <1>1, <2>1, <2>2, SubTouched
  <2>. QED
    BY <2>3 DEF q
<1>6. [p EXCEPT !.loadingRevisions = FALSE, !.revisions = r] \in SubShown(w)
  <2> DEFINE q == [p EXCEPT !.loadingRevisions = FALSE, !.revisions = r]
  <2>1. q \in SubPages
    BY Zenon, <1>1 DEF SubPages
  <2>2. /\ q.user = p.user /\ q.heard = p.heard /\ q.expanded = p.expanded /\ q.list = p.list
        /\ q.fetching = p.fetching /\ q.setup = p.setup /\ q.docs = p.docs /\ q.attempt = p.attempt /\ q.round = p.round
    BY <1>1, <2>1 DEF SubPages
  <2> HIDE DEF q
  <2>3. q \in SubShown(w)
    BY <1>1, <2>1, <2>2, SubTouched
  <2>. QED
    BY <2>3 DEF q
<1>7. [p EXCEPT !.dialogs = d, !.revisionType = None] \in SubShown(w)
  <2> DEFINE q == [p EXCEPT !.dialogs = d, !.revisionType = None]
  <2>1. q \in SubPages
    BY <1>1 DEF SubPages
  <2>2. /\ q.user = p.user /\ q.heard = p.heard /\ q.expanded = p.expanded /\ q.list = p.list
        /\ q.fetching = p.fetching /\ q.setup = p.setup /\ q.docs = p.docs /\ q.attempt = p.attempt /\ q.round = p.round
    BY <1>1, <2>1 DEF SubPages
  <2> HIDE DEF q
  <2>3. q \in SubShown(w)
    BY <1>1, <2>1, <2>2, SubTouched
  <2>. QED
    BY <2>3 DEF q
<1>8. [p EXCEPT !.busy = b, !.revisionType = None, !.dialogs = d] \in SubShown(w)
  <2> DEFINE q == [p EXCEPT !.busy = b, !.revisionType = None, !.dialogs = d]
  <2>1. q \in SubPages
    BY <1>1 DEF SubPages
  <2>2. /\ q.user = p.user /\ q.heard = p.heard /\ q.expanded = p.expanded /\ q.list = p.list
        /\ q.fetching = p.fetching /\ q.setup = p.setup /\ q.docs = p.docs /\ q.attempt = p.attempt /\ q.round = p.round
    BY <1>1, <2>1 DEF SubPages
  <2> HIDE DEF q
  <2>3. q \in SubShown(w)
    BY <1>1, <2>1, <2>2, SubTouched
  <2>. QED
    BY <2>3 DEF q
<1>. QED
  BY <1>2, <1>3, <1>4, <1>5, <1>6, <1>7, <1>8

\* A call of this world gets its answer.
LEMMA SubAnswered ==
  ASSUME NEW w \in SubWorlds, NEW k \in SubSends(w), NEW n \in w.heard .. w.commands
  PROVE  [k EXCEPT !.stage = "ok", !.answer = n] \in SubSends(w)
<1> DEFINE x == [k EXCEPT !.stage = "ok", !.answer = n]
<1>1. n \in Nat /\ n \in 0 .. w.commands /\ n >= w.heard
  BY DEF SubWorlds
<1>2. /\ x \in SubRecords /\ x.kind = k.kind /\ x.arg = k.arg /\ x.live = k.live /\ x.heard = k.heard
      /\ x.stage = "ok" /\ x.answer = n
  BY <1>1 DEF SubSends, SubRecords
<1> HIDE DEF x
<1>3. x \in SubSends(w)
  BY <1>1, <1>2 DEF SubSends
<1>. QED
  BY <1>3 DEF x

\* The server
LEMMA SubServes == ASSUME SubInv, NEW c \in Calls, Submissions!Serves(c) PROVE SubInv'
<1>1. PICK w \in SubWorlds : SubFits(w)
  BY DEF SubInv
<1>2. call \in Table(SubSends(w)) /\ page \in SubShown(w) /\ server \in SubStored(w) /\ asked \in Nat
  BY <1>1 DEF SubInv, SubFits, Fits
<1>3. server.commands = w.commands /\ w.commands \in Nat /\ w.heard \in Nat /\ w.heard <= w.commands
  BY <1>2 DEF SubStored, SubWorlds
<1>4. call[c] \in SubSends(w)
  BY <1>2 DEF Table, Submissions!Serves, Submissions!Reads, Submissions!Carries
<1> USE SubCalls
<1>5. CASE Submissions!Reads(c)
  <2>1. Answers(c, server.commands, server) /\ asked' = asked
    BY <1>5 DEF Submissions!Reads, Answers
  <2>2. call' = [call EXCEPT ![c] = [call[c] EXCEPT !.stage = "ok", !.answer = server.commands]]
        /\ server' = server /\ page' = page
    BY Zenon, <1>2, <2>1, AnswerOf
  <2>3. [call[c] EXCEPT !.stage = "ok", !.answer = server.commands] \in SubSends(w)
    <3>1. server.commands \in w.heard .. w.commands
      BY <1>3
    <3>. QED
      BY Zenon, <1>4, <3>1, SubAnswered
  <2>4. SubFits(w)'
    BY <1>1, <1>2, <2>2, <2>3, PageServes DEF SubFits
  <2>. QED
    BY <1>2, <2>1, <2>4 DEF SubInv
<1>6. CASE Submissions!Carries(c)
  <2>1. PICK v \in SubWorlds : /\ v.user = w.user /\ v.expanded = w.expanded /\ v.heard = w.heard
                               /\ v.commands = w.commands + 1 /\ v.made = w.made
    BY SubWorld
  <2> DEFINE k == call[c]
             submitted == IF k # None /\ k.kind = "submit" THEN {k.arg} ELSE {}
             new == {x \in submitted : x.key \notin server.keys}
             s == [server EXCEPT !.commands = @ + 1, !.slots = Submissions!Filled(@, k),
                     !.keys = @ \cup {x.key : x \in submitted}, !.created = @ \cup new]
             slots == Submissions!Filled(server.slots, k)
             keys == server.keys \cup {x.key : x \in submitted}
             created == server.created \cup new
  <2>2. Answers(c, server.commands + 1, s) /\ asked' = asked
    BY <1>6 DEF Submissions!Carries, Answers
  <2>3. SubSends(w) \subseteq SubSends(v)
    BY <1>3, <2>1, SubGrows
  <2>4. call \in Table(SubSends(v)) /\ k \in SubSends(v)
    BY <1>2, <1>4, <2>3 DEF Table
  <2>5. [k EXCEPT !.stage = "ok", !.answer = server.commands + 1] \in SubSends(v)
    <3>1. server.commands + 1 \in v.heard .. v.commands
      BY <1>3, <2>1
    <3> HIDE DEF k
    <3>. QED
      BY Zenon, <2>4, <3>1, SubAnswered
  <2>6. submitted \subseteq w.made /\ w.made \subseteq SubMade
    BY <1>4 DEF SubSends, SubWorlds
  <2>7. slots \in [Types -> Types]
    <3>1. k.kind \in {"replace", "select"} => k.arg \in SubSlots
      BY <1>4 DEF SubSends, SubTyped, SubPuts
    <3>2. server.slots \in [Types -> Types]
      BY <1>2 DEF SubStored
    <3> HIDE DEF k
    <3>. QED
      BY <3>1, <3>2 DEF Submissions!Filled, SubSlots
  <2> HIDE DEF submitted
  <2>8. keys \in SUBSET Nat /\ created \in SUBSET v.made
    BY <1>2, <2>1, <2>6 DEF SubStored, SubMade
  <2>9. s = [server EXCEPT !.commands = server.commands + 1, !.slots = slots, !.keys = keys, !.created = created]
    OBVIOUS
  <2> HIDE DEF slots, keys, created, new, s
  <2>10. s \in SubStored(v)
    BY <1>2, <2>1, <2>7, <2>8, <2>9 DEF SubStored
  <2>11. call' = [call EXCEPT ![c] = [k EXCEPT !.stage = "ok", !.answer = server.commands + 1]]
         /\ server' = s /\ page' = page
    BY Zenon, <1>2, <2>2, AnswerOf
  <2>12. call' \in Table(SubSends(v)) /\ server' \in SubStored(v)
    BY <2>4, <2>5, <2>10, <2>11 DEF Table
  <2>13. page' \in SubShown(v)
    BY <1>2, <2>1, <2>11 DEF SubShown
  <2>14. SubFits(v)'
    BY <2>12, <2>13 DEF SubFits, Fits
  <2>. QED
    BY <1>2, <2>2, <2>14 DEF SubInv
<1>. QED
  BY <1>5, <1>6 DEF Submissions!Serves

\* A command's end: what is heard of it, and the list asked for again.
LEMMA SubHeard ==
  ASSUME NEW w \in SubWorlds, w.user \in Users, call \in Table(SubSends(w)), NEW c \in Calls, call[c] \in SubSends(w),
         NEW p \in SubShown(w)
  PROVE  \E v \in SubWorlds :
           /\ v.user = w.user /\ v.expanded = w.expanded /\ v.commands = w.commands /\ v.made = w.made
           /\ Submissions!HeardAndListed(c, p)[1] \in Table(SubSends(v))
           /\ Submissions!HeardAndListed(c, p)[2] \in SubShown(v)
<1> DEFINE h == IF Ok(c) /\ p.heard < call[c].answer THEN call[c].answer ELSE p.heard
           q == [p EXCEPT !.heard = h]
<1>1. p \in SubPages /\ p.user = w.user /\ p.heard = w.heard
  BY DEF SubShown
<1>2. h \in Nat /\ h <= w.commands
  <2>1. Ok(c) => call[c].answer \in 0 .. w.commands
    BY DEF Ok, SubSends
  <2>2. w.heard \in Nat /\ w.commands \in Nat /\ w.heard <= w.commands
    BY DEF SubWorlds
  <2>. QED
    BY <1>1, <2>1, <2>2
<1>3. PICK v \in SubWorlds : /\ v.user = w.user /\ v.expanded = w.expanded /\ v.heard = h
                             /\ v.commands = w.commands /\ v.made = w.made
  BY <1>2, SubWorld
<1> HIDE DEF h
<1>4. q.user = p.user /\ [q EXCEPT !.fetching = TRUE] = [p EXCEPT !.heard = h, !.fetching = TRUE]
  BY <1>1 DEF SubPages
<1> DEFINE r == [p EXCEPT !.heard = h, !.fetching = TRUE]
<1>5. r \in SubPages
  BY <1>1, <1>2 DEF SubPages
<1>6. /\ r.user = p.user /\ r.heard = h /\ r.expanded = p.expanded /\ r.list = p.list /\ r.fetching = TRUE
      /\ r.setup = p.setup /\ r.docs = p.docs /\ r.attempt = p.attempt /\ r.round = p.round /\ r.dialogs = p.dialogs
  BY <1>1, <1>5 DEF SubPages
<1> HIDE DEF r
<1>7. r \in SubShown(v)
  BY <1>3, <1>5, <1>6 DEF SubShown
<1>8. Dropped(c) \in Table(SubSends(w)) /\ Free(Dropped(c)) # {}
  BY DroppedCall DEF Free
<1>9. Submissions!HeardAndListed(c, p) = Submissions!Listing(Dropped(c), q)
  BY SubCalls DEF Submissions!HeardAndListed, h
<1> HIDE DEF q
<1>10. /\ Submissions!Listing(Dropped(c), q)[1] \in Table(SubSends(v))
       /\ Submissions!Listing(Dropped(c), q)[2] \in SubShown(v)
  BY <1>1, <1>3, <1>4, <1>7, <1>8, SubListing DEF r
<1>. QED
  BY <1>3, <1>9, <1>10

\* Of two calls that are free one is left when another goes out.
LEMMA PutOneOfTwo ==
  ASSUME NEW calls, NEW x \in Free(calls), NEW y \in Free(calls), x # y, DOMAIN calls = Calls, NEW k
  PROVE  Free(Put(calls, k)) # {}
<1> DEFINE e == CHOOSE z \in Free(calls) : TRUE
<1>1. Put(calls, k) = [calls EXCEPT ![e] = k]
  BY DEF Put
<1>2. PICK z \in Free(calls) : z # e
  OBVIOUS
<1> HIDE DEF e
<1>3. z \in Calls /\ Put(calls, k)[z] = None
  BY <1>1, <1>2 DEF Free
<1>. QED
  BY <1>3 DEF Free

\* A submission that has been made: the next one is another.
LEMMA SubForgotten ==
  ASSUME NEW p \in SubPages, NEW d \in SUBSET Submissions!Dialogs, NEW n \in Nat
  PROVE  [p EXCEPT !.dialogs = d, !.attempt = None, !.round = n] \in SubPages
<1>1. [p EXCEPT !.attempt = None] \in SubPages
  BY DEF SubPages
<1> DEFINE e == [p EXCEPT !.attempt = None]
<1>2. [e EXCEPT !.dialogs = d] \in SubPages
  <2> HIDE DEF e
  <2>. QED
    BY <1>1 DEF SubPages, e
<1> DEFINE f == [e EXCEPT !.dialogs = d]
<1>3. [f EXCEPT !.round = n] \in SubPages
  <2> HIDE DEF f
  <2>. QED
    BY <1>2 DEF SubPages, f
<1>4. [f EXCEPT !.round = n] = [p EXCEPT !.dialogs = d, !.attempt = None, !.round = n]
  OBVIOUS
<1>. QED
  BY <1>3, <1>4

\* What an answer may be shown as.
LEMMA SubListed ==
  ASSUME NEW p \in SubPages, NEW l \in Submissions!Lists \cup {None}
  PROVE  [p EXCEPT !.fetching = FALSE, !.list = l] \in SubPages
<1> DEFINE e == [p EXCEPT !.fetching = FALSE]
<1>1. e \in SubPages
  BY DEF SubPages
<1> HIDE DEF e
<1>2. [e EXCEPT !.list = l] \in SubPages
  BY <1>1 DEF SubPages
<1>3. [e EXCEPT !.list = l] = [p EXCEPT !.fetching = FALSE, !.list = l]
  BY DEF e
<1>. QED
  BY <1>2, <1>3

LEMMA SubDetailed ==
  ASSUME NEW p \in SubPages, NEW d \in Submissions!Details \cup {None}, NEW b \in SUBSET Submissions!Flags
  PROVE  /\ [p EXCEPT !.loadingDocs = FALSE, !.docs = d] \in SubPages
         /\ [p EXCEPT !.busy = b, !.docs = d] \in SubPages
<1> DEFINE e == [p EXCEPT !.loadingDocs = FALSE]
           f == [p EXCEPT !.busy = b]
<1>1. e \in SubPages
  BY DEF SubPages
<1>2. f \in SubPages
  BY DEF SubPages
<1> HIDE DEF e, f
<1>3. [e EXCEPT !.docs = d] \in SubPages
  BY <1>1 DEF SubPages
<1>4. [f EXCEPT !.docs = d] \in SubPages
  BY <1>2 DEF SubPages
<1>5. /\ [e EXCEPT !.docs = d] = [p EXCEPT !.loadingDocs = FALSE, !.docs = d]
      /\ [f EXCEPT !.docs = d] = [p EXCEPT !.busy = b, !.docs = d]
  BY DEF e, f
<1>. QED
  BY <1>3, <1>4, <1>5

LEMMA SubPrepared ==
  ASSUME NEW p \in SubPages, NEW u \in Users \cup {None}
  PROVE  [p EXCEPT !.loadingSetup = FALSE, !.setup = u] \in SubPages
<1> DEFINE e == [p EXCEPT !.loadingSetup = FALSE]
<1>1. e \in SubPages
  BY DEF SubPages
<1> HIDE DEF e
<1>2. [e EXCEPT !.setup = u] \in SubPages
  BY <1>1 DEF SubPages
<1>3. [e EXCEPT !.setup = u] = [p EXCEPT !.loadingSetup = FALSE, !.setup = u]
  BY DEF e
<1>. QED
  BY <1>2, <1>3

\* What follows an answer
LEMMA SubContinues == ASSUME SubInv, NEW c \in Calls, Submissions!Continues(c) PROVE SubInv'
<1>1. PICK w \in SubWorlds : SubFits(w)
  BY DEF SubInv
<1>2. /\ call \in Table(SubSends(w)) /\ page \in SubShown(w) /\ server \in SubStored(w) /\ asked \in Nat
      /\ page \in SubPages /\ page.user = w.user /\ page.expanded = w.expanded /\ page.heard = w.heard
  BY <1>1 DEF SubInv, SubFits, Fits, SubShown
<1>3. call[c] \in SubSends(w)
  BY <1>2, SubCalls DEF Table, Submissions!Continues, Submissions!GotList, Submissions!GotDetails, Submissions!GotReload,
     Submissions!GotSetup, Submissions!GotRevisions, Submissions!GotMoved, Submissions!GotDecided,
     Submissions!GotIssued, Submissions!GotDeadline, Submissions!GotSubmitted, Submissions!GotSaved,
     Submissions!GotUploaded, Submissions!GotReplaced, Submissions!GotSelected, Arrived, Unheard
<1>4. Arrived(c) => w.user \in Users /\ w.user # None /\ call[c].heard
  BY <1>3, NoneAssumption DEF Arrived, SubSends
<1>5. ASSUME NEW p \in SubShown(w), Goes(Dropped(c), p) PROVE SubInv'
  <2>1. SubFits(w)'
    BY <1>1, <1>5, PageDrops DEF SubFits
  <2>. QED
    BY <1>2, <1>5, <2>1 DEF Goes, SubInv
<1>6. ASSUME Arrived(c), NEW p \in SubShown(w), Submissions!Follows(Submissions!HeardAndListed(c, p)) PROVE SubInv'
  <2>1. PICK v \in SubWorlds :
          /\ v.user = w.user /\ v.expanded = w.expanded /\ v.commands = w.commands /\ v.made = w.made
          /\ Submissions!HeardAndListed(c, p)[1] \in Table(SubSends(v))
          /\ Submissions!HeardAndListed(c, p)[2] \in SubShown(v)
    BY <1>2, <1>3, <1>4, <1>6, SubHeard
  <2>2. /\ call' = Submissions!HeardAndListed(c, p)[1] /\ page' = Submissions!HeardAndListed(c, p)[2]
        /\ server' = server /\ asked' = asked
    BY <1>6, SubCalls DEF Submissions!Follows, Goes
  <2>3. server' \in SubStored(v)
    BY <1>2, <2>1, <2>2, SubStoredSame
  <2>4. SubFits(v)'
    BY <2>1, <2>2, <2>3 DEF SubFits, Fits
  <2>. QED
    BY <1>2, <2>2, <2>4 DEF SubInv
<1>7. ASSUME Arrived(c), NEW s \in Subs, NEW after \in {None, "replace"}, NEW p \in SubShown(w),
             Submissions!Follows(Submissions!Expanding(Dropped(c), p, s, after))
      PROVE  SubInv'
  <2>1. PICK v \in SubWorlds : /\ v.user = w.user /\ v.expanded = s /\ v.heard = w.heard
                               /\ v.commands = w.commands /\ v.made = w.made
    BY SubWorld
  <2>2. /\ call' = Submissions!Expanding(Dropped(c), p, s, after)[1]
        /\ page' = Submissions!Expanding(Dropped(c), p, s, after)[2]
        /\ server' = server /\ asked' = asked
    BY <1>7, SubCalls DEF Submissions!Follows, Goes
  <2>3. Dropped(c) \in Table(SubSends(w)) /\ Free(Dropped(c)) # {}
    BY <1>2, DroppedCall DEF Free
  <2>4. call' \in Table(SubSends(v)) /\ page' \in SubShown(v)
    BY <1>4, <1>7, <2>1, <2>2, <2>3, SubExpanding
  <2>5. server' \in SubStored(v)
    BY <1>2, <2>1, <2>2, SubStoredSame
  <2>6. SubFits(v)'
    BY <2>4, <2>5 DEF SubFits, Fits
  <2>. QED
    BY <1>2, <2>2, <2>6 DEF SubInv
<1>8. CASE Submissions!GotList(c)
  <2>1. Arrived(c) /\ call[c].kind = "list" /\ w.user \in Users
    BY <1>4, <1>8, SubCalls DEF Submissions!GotList
  <2>2. CASE ~call[c].live
    BY <1>2, <1>5, <1>8, <2>2, SubCalls DEF Submissions!GotList
  <2>3. CASE call[c].live
    <3> DEFINE list == IF Ok(c) THEN [of |-> call[c].arg, commands |-> call[c].answer] ELSE None
               q == [page EXCEPT !.fetching = FALSE, !.list = list]
    <3>1. Goes(Dropped(c), q)
      BY <1>8, <2>3, SubCalls DEF Submissions!GotList
    <3>2. call[c].arg = w.user /\ (Ok(c) => call[c].answer \in 0 .. w.commands /\ call[c].answer >= w.heard)
      BY <1>3, <1>4, <2>1, <2>3 DEF SubSends, Ok
    <3>3. list # None => list \in Submissions!Lists /\ list.of = w.user /\ list.commands >= w.heard
      BY <2>1, <3>2 DEF Submissions!Lists, SubWorlds
    <3> HIDE DEF list
    <3>4. /\ q \in SubPages /\ q.user = page.user /\ q.heard = page.heard /\ q.expanded = page.expanded
          /\ q.list = list /\ q.fetching = FALSE /\ q.setup = page.setup /\ q.docs = page.docs
          /\ q.attempt = page.attempt /\ q.round = page.round /\ q.dialogs = page.dialogs
      <4>1. q \in SubPages
        BY Zenon, <1>2, <3>3, SubListed
      <4>. QED
        BY <1>2, <4>1 DEF SubPages
    <3> HIDE DEF q
    <3>5. q \in SubShown(w)
      BY <1>2, <3>3, <3>4 DEF SubShown
    <3>. QED
      BY <1>5, <3>1, <3>5
  <2>. QED
    BY <2>2, <2>3
<1>9. CASE Submissions!GotDetails(c)
  <2>1. Arrived(c) /\ call[c].kind = "details" /\ w.user \in Users
    BY <1>4, <1>9, SubCalls DEF Submissions!GotDetails
  <2>2. call[c].arg \in SubDetails /\ call[c].arg[3] = w.user /\ (call[c].live => w.expanded \in {None, call[c].arg[1]})
    BY <1>3, <1>4, <2>1 DEF SubSends, SubTyped
  <2> DEFINE made == [of |-> call[c].arg[1], by |-> call[c].arg[3], reloaded |-> FALSE]
             docs == IF Ok(c) THEN made ELSE page.docs
             q == [page EXCEPT !.loadingDocs = FALSE, !.docs = docs]
             shown == IF ~call[c].live THEN page ELSE q
  <2>3. made \in Submissions!Details /\ made.by = w.user /\ made.of = call[c].arg[1] /\ ~made.reloaded
    BY <2>1, <2>2 DEF SubDetails, Submissions!Details
  <2> HIDE DEF made
  <2>4. docs \in Submissions!Details \cup {None} /\ docs \in {made, page.docs}
    BY <1>2, <2>3 DEF SubPages
  <2> HIDE DEF docs
  <2>5. /\ q \in SubPages /\ q.user = page.user /\ q.heard = page.heard /\ q.expanded = page.expanded
        /\ q.list = page.list /\ q.fetching = page.fetching /\ q.setup = page.setup /\ q.docs = docs
        /\ q.attempt = page.attempt /\ q.round = page.round /\ q.dialogs = page.dialogs
    <3>1. q \in SubPages
      BY Zenon, <1>2, <2>4, SubDetailed
    <3>. QED
      BY <1>2, <3>1 DEF SubPages
  <2>6. Goes(Dropped(c), IF call[c].arg[2] # "replace" THEN shown
                         ELSE [shown EXCEPT !.busy = @ \ {"uploading"}, !.revisionType = None,
                                            !.dialogs = @ \ {"revisions"}])
    BY <1>9, SubCalls DEF Submissions!GotDetails, made, docs
  <2> HIDE DEF q
  <2>7. call[c].live => q \in SubShown(w)
    BY <1>2, <2>2, <2>3, <2>4, <2>5 DEF SubShown
  <2>8. shown \in SubShown(w)
    BY <1>2, <2>7
  <2> HIDE DEF shown
  <2>9. [shown EXCEPT !.busy = @ \ {"uploading"}, !.revisionType = None, !.dialogs = @ \ {"revisions"}] \in SubShown(w)
    <3>1. shown.busy \ {"uploading"} \in SUBSET Submissions!Flags
          /\ shown.dialogs \ {"revisions"} \in SUBSET Submissions!Dialogs
      BY <2>8 DEF SubShown, SubPages
    <3>. QED
      BY Zenon, <2>1, <2>8, <3>1, SubMinor
  <2>. QED
    BY <1>5, <2>6, <2>8, <2>9
<1>10. CASE Submissions!GotReload(c)
  <2>1. Arrived(c) /\ call[c].kind = "reload" /\ w.user \in Users
    BY <1>4, <1>10, SubCalls DEF Submissions!GotReload
  <2>2. call[c].arg \in SubReloads /\ call[c].arg[2] = w.user
    BY <1>3, <1>4, <2>1 DEF SubSends, SubTyped
  <2> DEFINE made == [of |-> call[c].arg[1], by |-> call[c].arg[2], reloaded |-> TRUE]
             docs == IF Ok(c) THEN made ELSE page.docs
             busy == page.busy \ {"saving"}
             q == [page EXCEPT !.busy = busy, !.docs = docs]
  <2>3. made \in Submissions!Details /\ made.by = w.user /\ made.reloaded
    BY <2>1, <2>2 DEF SubReloads, Submissions!Details
  <2> HIDE DEF made
  <2>4. docs \in Submissions!Details \cup {None} /\ docs \in {made, page.docs} /\ busy \in SUBSET Submissions!Flags
    BY <1>2, <2>3 DEF SubPages
  <2>5. Goes(Dropped(c), q)
    BY <1>10, SubCalls DEF Submissions!GotReload, made
  <2> HIDE DEF docs, busy
  <2>6. /\ q \in SubPages /\ q.user = page.user /\ q.heard = page.heard /\ q.expanded = page.expanded
        /\ q.list = page.list /\ q.fetching = page.fetching /\ q.setup = page.setup /\ q.docs = docs
        /\ q.attempt = page.attempt /\ q.round = page.round /\ q.dialogs = page.dialogs
    <3>1. q \in SubPages
      BY Zenon, <1>2, <2>4, SubDetailed
    <3>. QED
      BY <1>2, <3>1 DEF SubPages
  <2> HIDE DEF q
  <2>7. q \in SubShown(w)
    BY <1>2, <2>3, <2>4, <2>6 DEF SubShown
  <2>. QED
    BY <1>5, <2>5, <2>7
<1>11. CASE Submissions!GotSetup(c)
  <2>1. Arrived(c) /\ call[c].kind = "setup" /\ w.user \in Users
    BY <1>4, <1>11, SubCalls DEF Submissions!GotSetup
  <2>2. call[c].arg = w.user
    BY <1>3, <1>4, <2>1 DEF SubSends
  <2>3. CASE ~call[c].live
    BY <1>2, <1>5, <1>11, <2>3, SubCalls DEF Submissions!GotSetup
  <2>4. CASE call[c].live
    <3> DEFINE setup == IF Ok(c) THEN call[c].arg ELSE page.setup
               q == [page EXCEPT !.loadingSetup = FALSE, !.setup = setup]
    <3>1. Goes(Dropped(c), q)
      BY <1>11, <2>4, SubCalls DEF Submissions!GotSetup
    <3>2. setup \in Users \cup {None} /\ setup \in {page.user, page.setup}
      BY <1>2, <2>1, <2>2 DEF SubPages
    <3> HIDE DEF setup
    <3>3. /\ q \in SubPages /\ q.user = page.user /\ q.heard = page.heard /\ q.expanded = page.expanded
          /\ q.list = page.list /\ q.fetching = page.fetching /\ q.setup = setup /\ q.docs = page.docs
          /\ q.attempt = page.attempt /\ q.round = page.round /\ q.dialogs = page.dialogs
      <4>1. q \in SubPages
        BY Zenon, <1>2, <3>2, SubPrepared
      <4>. QED
        BY <1>2, <4>1 DEF SubPages
    <3> HIDE DEF q
    <3>4. q \in SubShown(w)
      BY <1>2, <3>2, <3>3 DEF SubShown
    <3>. QED
      BY <1>5, <3>1, <3>4
  <2>. QED
    BY <2>3, <2>4
<1>12. CASE Submissions!GotRevisions(c)
  <2>1. Arrived(c) /\ call[c].kind = "revisions" /\ w.user \in Users
    BY <1>4, <1>12, SubCalls DEF Submissions!GotRevisions
  <2>2. call[c].arg \in Types
    BY <1>3, <2>1 DEF SubSends, SubTyped
  <2> DEFINE r == IF Ok(c) THEN call[c].arg ELSE page.revisions
  <2>3. r \in Types \cup {None}
    BY <1>2, <2>2 DEF SubPages
  <2>4. Goes(Dropped(c), [page EXCEPT !.loadingRevisions = FALSE, !.revisions = r])
    BY <1>12, SubCalls DEF Submissions!GotRevisions
  <2> HIDE DEF r
  <2>5. [page EXCEPT !.loadingRevisions = FALSE, !.revisions = r] \in SubShown(w)
    BY Zenon, <1>2, <2>1, <2>3, SubMinor
  <2>. QED
    BY <1>5, <2>4, <2>5
<1>13. CASE Submissions!GotMoved(c)
  <2> DEFINE p == IF call[c].kind = "update" THEN [page EXCEPT !.updating = None] ELSE [page EXCEPT !.assigning = None]
  <2>1. Arrived(c)
    BY <1>13, SubCalls DEF Submissions!GotMoved
  <2>2. p \in SubShown(w)
    BY Zenon, <1>2, <1>4, <2>1, SubMinor
  <2>3. Submissions!Follows(Submissions!HeardAndListed(c, p)) \/ Goes(Dropped(c), p)
    BY <1>13, SubCalls DEF Submissions!GotMoved
  <2>. QED
    BY <1>5, <1>6, <2>1, <2>2, <2>3
<1>14. ASSUME Arrived(c) PROVE Submissions!Done(c) \in SubShown(w)
  <2> DEFINE busy == page.busy \ {Submissions!FlagOf(call[c].kind)}
  <2>1. busy \in SUBSET Submissions!Flags
    BY <1>2 DEF SubPages
  <2>2. Submissions!Done(c) = [page EXCEPT !.busy = busy]
    BY SubCalls DEF Submissions!Done
  <2> HIDE DEF busy
  <2>. QED
    BY Zenon, <1>2, <1>4, <1>14, <2>1, <2>2, SubMinor
<1>15. CASE Submissions!GotDecided(c)
  <2>1. Arrived(c)
    BY <1>15, SubCalls DEF Submissions!GotDecided
  <2>2. CASE ~Ok(c)
    BY <1>5, <1>14, <1>15, <2>1, <2>2, SubCalls DEF Submissions!GotDecided
  <2>3. CASE Ok(c)
    <3> DEFINE p == [Submissions!Done(c) EXCEPT !.expanded = None]
    <3>1. PICK u \in SubWorlds : /\ u.user = w.user /\ u.expanded = None /\ u.heard = w.heard
                                 /\ u.commands = w.commands /\ u.made = w.made
      BY SubWorld
    <3>2. p \in SubShown(u)
      BY <1>14, <2>1, <3>1, SubClosed
    <3>3. SubSends(w) \subseteq SubSends(u)
      BY <3>1, SubGrows DEF SubWorlds
    <3>4. call \in Table(SubSends(u)) /\ call[c] \in SubSends(u) /\ u.user \in Users
      BY <1>2, <1>3, <1>4, <2>1, <3>1, <3>3 DEF Table
    <3>5. Submissions!Follows(Submissions!HeardAndListed(c, p))
      BY <1>15, <2>3, SubCalls DEF Submissions!GotDecided
    <3> HIDE DEF p
    <3>6. PICK v \in SubWorlds :
            /\ v.user = u.user /\ v.expanded = u.expanded /\ v.commands = u.commands /\ v.made = u.made
            /\ Submissions!HeardAndListed(c, p)[1] \in Table(SubSends(v))
            /\ Submissions!HeardAndListed(c, p)[2] \in SubShown(v)
      BY <3>2, <3>4, SubHeard
    <3>7. /\ call' = Submissions!HeardAndListed(c, p)[1] /\ page' = Submissions!HeardAndListed(c, p)[2]
          /\ server' = server /\ asked' = asked
      BY <3>5, SubCalls DEF Submissions!Follows, Goes
    <3>8. server' \in SubStored(v)
      BY <1>2, <3>1, <3>6, <3>7, SubStoredSame
    <3>9. SubFits(v)'
      BY <3>6, <3>7, <3>8 DEF SubFits, Fits
    <3>. QED
      BY <1>2, <3>7, <3>9 DEF SubInv
  <2>. QED
    BY <2>2, <2>3
<1>16. CASE Submissions!GotIssued(c)
  BY <1>5, <1>14, <1>16, SubCalls DEF Submissions!GotIssued
<1>17. CASE Submissions!GotDeadline(c)
  <2> DEFINE dialogs == page.dialogs \ {"deadline"}
             p == [page EXCEPT !.dialogs = dialogs]
  <2>1. Arrived(c) /\ dialogs \in SUBSET Submissions!Dialogs
    BY <1>2, <1>17, SubCalls DEF Submissions!GotDeadline, SubPages
  <2>2. Submissions!Follows(Submissions!HeardAndListed(c, p)) \/ Goes(Dropped(c), page)
    BY <1>17, SubCalls DEF Submissions!GotDeadline
  <2> HIDE DEF dialogs
  <2>3. p \in SubShown(w)
    BY Zenon, <1>2, <1>4, <2>1, SubMinor
  <2>. QED
    BY <1>2, <1>5, <1>6, <2>1, <2>2, <2>3
<1>18. CASE Submissions!GotSubmitted(c)
  <2>1. Arrived(c)
    BY <1>18, SubCalls DEF Submissions!GotSubmitted
  <2>2. CASE ~Ok(c)
    BY <1>5, <1>14, <1>18, <2>1, <2>2, SubCalls DEF Submissions!GotSubmitted
  <2>3. CASE Ok(c)
    <3> DEFINE d == Submissions!Done(c)
               dialogs == d.dialogs \ {"submit"}
               round == d.round + 1
               q == [d EXCEPT !.dialogs = dialogs, !.attempt = None, !.round = round]
    <3>1. Submissions!Follows(Submissions!HeardAndListed(c, q))
      BY <1>18, <2>3, SubCalls DEF Submissions!GotSubmitted
    <3>2. d \in SubShown(w) /\ d \in SubPages
      BY <1>14, <2>1 DEF SubShown
    <3> HIDE DEF d
    <3>3. dialogs \in SUBSET Submissions!Dialogs /\ round \in Nat /\ d.round \in Nat /\ round = d.round + 1
          /\ (d.user = None => dialogs = {})
      BY <3>2 DEF SubPages, SubShown
    <3> HIDE DEF dialogs, round
    <3>4. /\ q \in SubPages /\ q.user = d.user /\ q.heard = d.heard /\ q.expanded = d.expanded
          /\ q.list = d.list /\ q.fetching = d.fetching /\ q.setup = d.setup /\ q.docs = d.docs
          /\ q.attempt = None /\ q.round = round /\ q.dialogs = dialogs
      <4>1. dialogs \in SUBSET Submissions!Dialogs /\ round \in Nat /\ d \in SubPages
        BY <3>2, <3>3
      <4>5. q \in SubPages
        BY Zenon, <4>1, SubForgotten DEF q
      <4>. QED
        BY <3>2, <4>5 DEF SubPages, q
    <3> HIDE DEF q
    <3>5. \A x \in w.made : x.round < round
      <4>1. ASSUME NEW x \in w.made PROVE x.round <= d.round /\ x.round \in Nat
        BY <3>2 DEF SubShown, SubWorlds, SubMade
      <4>. QED
        BY <3>3, <4>1
    <3>6. \A x \in w.made : x.round <= round
      BY <3>3, <3>5 DEF SubWorlds, SubMade
    <3>7. q \in SubShown(w)
      BY <3>2, <3>3, <3>4, <3>5, <3>6 DEF SubShown
    <3>. QED
      BY <1>6, <2>1, <3>1, <3>7
  <2>. QED
    BY <2>2, <2>3
<1>19. CASE Submissions!GotSaved(c)
  <2>1. Arrived(c) /\ call[c].kind = "save" /\ w.user \in Users
    BY <1>4, <1>19, SubCalls DEF Submissions!GotSaved
  <2>2. CASE ~Ok(c)
    BY <1>5, <1>14, <1>19, <2>1, <2>2, SubCalls DEF Submissions!GotSaved
  <2>3. CASE Ok(c)
    <3> DEFINE next == Submissions!HeardAndListed(c, page)
               k == Sent("reload", <<call[c].arg, page.user>>)
    <3>1. Free(call) # {} /\ Goes(Put(next[1], k), next[2])
      BY <1>19, <2>3, SubCalls DEF Submissions!GotSaved
    <3>2. PICK v \in SubWorlds :
            /\ v.user = w.user /\ v.expanded = w.expanded /\ v.commands = w.commands /\ v.made = w.made
            /\ next[1] \in Table(SubSends(v)) /\ next[2] \in SubShown(v)
      BY <1>2, <1>3, <2>1, SubHeard
    <3>3. Free(next[1]) # {}
      <4> DEFINE calls == Ignored(Dropped(c), {"list"})
                 p == [page EXCEPT !.heard = IF Ok(c) /\ @ < call[c].answer THEN call[c].answer ELSE @]
      <4>1. next[1] = Put(calls, Sent("list", p.user))
        BY SubCalls DEF Submissions!HeardAndListed, Submissions!Listing
      <4> HIDE DEF p
      <4>2. DOMAIN calls = Calls
        BY DEF Ignored
      <4>3. PICK d \in Free(call) : TRUE
        BY <3>1
      <4>4. d \in Calls /\ d # c
        BY <2>1, <4>3 DEF Free, Arrived
      <4>5. Dropped(c)[c] = None /\ Dropped(c)[d] = None
        BY <1>2, <4>3, <4>4, DroppedCall DEF Free
      <4>6. c \in Free(calls) /\ d \in Free(calls)
        BY <4>4, <4>5 DEF Free, Ignored
      <4> HIDE DEF calls, next
      <4>. QED
        BY <4>1, <4>2, <4>4, <4>6, PutOneOfTwo
    <3>4. k \in SubSends(v)
      <4>1. call[c].arg \in Subs
        BY <1>3, <2>1 DEF SubSends, SubTyped, SubOfOne
      <4>2. <<call[c].arg, page.user>> \in SubReloads
        BY <1>2, <2>1, <4>1 DEF SubReloads
      <4>. QED
        BY <1>2, <2>1, <3>2, <4>2, SubNew DEF SubTyped, SubKinds, Submissions!Reading, SubOfOne, SubPlain, SubPuts
    <3> HIDE DEF next, k
    <3>5. call' \in Table(SubSends(v)) /\ page' \in SubShown(v) /\ server' = server /\ asked' = asked
      BY <3>1, <3>2, <3>3, <3>4, PutCall DEF Goes
    <3>6. server' \in SubStored(v)
      BY <1>2, <3>2, <3>5, SubStoredSame
    <3>7. SubFits(v)'
      BY <3>5, <3>6 DEF SubFits, Fits
    <3>. QED
      BY <1>2, <3>5, <3>7 DEF SubInv
  <2>. QED
    BY <2>2, <2>3
<1>20. ASSUME NEW flag, Arrived(c) PROVE [page EXCEPT !.busy = @ \ {flag}] \in SubShown(w)
  <2>1. page.busy \ {flag} \in SUBSET Submissions!Flags
    BY <1>2 DEF SubPages
  <2>. QED
    BY Zenon, <1>2, <1>4, <1>20, <2>1, SubMinor
<1>21. CASE Submissions!GotUploaded(c)
  <2>1. Arrived(c) /\ call[c].kind = "upload"
    BY <1>21, SubCalls DEF Submissions!GotUploaded
  <2>2. CASE ~Ok(c)
    BY <1>5, <1>20, <1>21, <2>1, <2>2, SubCalls DEF Submissions!GotUploaded
  <2>3. CASE Ok(c)
    <3> DEFINE k == Sent("replace", call[c].arg)
    <3>1. Goes([call EXCEPT ![c] = k], page)
      BY <1>21, <2>3, SubCalls DEF Submissions!GotUploaded
    <3>2. call[c].arg \in SubSlots
      BY <1>3, <2>1 DEF SubSends, SubTyped, SubPuts
    <3>3. k \in SubSends(w)
      BY <1>4, <2>1, <3>2, SubNew DEF SubTyped, SubKinds, Submissions!Reading, SubOfOne, SubPlain, SubPuts
    <3> HIDE DEF k
    <3>4. SubFits(w)' /\ asked' = asked
      BY <1>1, <1>2, <3>1, <3>3, PageGoes DEF SubFits, Goes
    <3>. QED
      BY <1>2, <3>4 DEF SubInv
  <2>. QED
    BY <2>2, <2>3
<1>22. CASE Submissions!GotReplaced(c)
  <2>1. Arrived(c) /\ call[c].kind = "replace" /\ call[c].arg[1] \in Subs
    BY <1>3, <1>22, SubCalls DEF Submissions!GotReplaced, SubSends, SubTyped, SubPuts, SubSlots
  <2>2. CASE ~Ok(c)
    BY <1>5, <1>20, <1>22, <2>1, <2>2, SubCalls DEF Submissions!GotReplaced
  <2>3. CASE Ok(c)
    BY <1>2, <1>7, <1>22, <2>1, <2>3, SubCalls DEF Submissions!GotReplaced
  <2>. QED
    BY <2>2, <2>3
<1>23. CASE Submissions!GotSelected(c)
  <2>1. Arrived(c) /\ call[c].kind = "select" /\ call[c].arg[1] \in Subs
    BY <1>3, <1>23, SubCalls DEF Submissions!GotSelected, SubSends, SubTyped, SubPuts, SubSlots
  <2>2. CASE ~Ok(c)
    BY <1>2, <1>5, <1>23, <2>1, <2>2, SubCalls DEF Submissions!GotSelected
  <2>3. CASE Ok(c)
    <3> DEFINE dialogs == page.dialogs \ {"revisions"}
               p == [page EXCEPT !.dialogs = dialogs, !.revisionType = None]
    <3>1. dialogs \in SUBSET Submissions!Dialogs
      BY <1>2 DEF SubPages
    <3>2. Submissions!Follows(Submissions!Expanding(Dropped(c), p, call[c].arg[1], None))
      BY <1>23, <2>3, SubCalls DEF Submissions!GotSelected
    <3> HIDE DEF dialogs
    <3>3. p \in SubShown(w)
      BY Zenon, <1>2, <1>4, <2>1, <3>1, SubMinor
    <3>. QED
      BY <1>7, <2>1, <3>2, <3>3
  <2>. QED
    BY <2>2, <2>3
<1>24. CASE Unheard(c)
  BY <1>2, <1>5, <1>24 DEF Unheard
<1>. QED
  BY <1>8, <1>9, <1>10, <1>11, <1>12, <1>13, <1>15, <1>16, <1>17, <1>18, <1>19, <1>21, <1>22, <1>23, <1>24, SubCalls
     DEF Submissions!Continues

\* Whatever happens on the page.
LEMMA SubNext == ASSUME SubInv, Submissions!Next PROVE SubInv'
<1>1. PICK w \in SubWorlds : SubFits(w)
  BY DEF SubInv
<1>2. asked \in Nat
  BY DEF SubInv
<1>3. ASSUME NEW c \in Calls, Refuses(c) PROVE SubInv'
  <2>1. SubFits(w)'
    BY <1>1, <1>3, PageRefuses, SubLasting DEF SubFits
  <2>. QED
    BY <1>2, <1>3, <2>1 DEF SubInv, Refuses
<1>4. ASSUME NEW c \in Calls, Loses(c) PROVE SubInv'
  <2>1. SubFits(w)'
    BY <1>1, <1>4, PageLoses, SubLasting DEF SubFits
  <2>. QED
    BY <1>2, <1>4, <2>1 DEF SubInv, Loses
<1>. QED
  BY <1>3, <1>4, SubCalls, SubStarts, SubSwitch, SubServes, SubContinues DEF Submissions!Next

\* What is checked of the page follows.
LEMMA SubHolds ==
  ASSUME SubInv
  PROVE  /\ Submissions!TypeOK /\ Submissions!NothingOfPreviousIdentity /\ Submissions!DetailsBelongToExpanded
         /\ Submissions!ListCoversOwnCommands /\ Submissions!SubmittedOnce
<1>1. PICK w \in SubWorlds : SubFits(w)
  BY DEF SubInv
<1>2. call \in Table(SubSends(w)) /\ page \in SubShown(w) /\ page \in SubPages /\ server \in SubStored(w)
  BY <1>1 DEF SubFits, Fits, SubShown
<1>3. Submissions!TypeOK
  <2>1. \A c \in Calls : call[c] # None => call[c].stage \in {"sent", "ok", "refused"}
    BY <1>2 DEF Table, SubSends, SubRecords
  <2>2. server.slots \in [Types -> Types]
    BY <1>2 DEF SubStored
  <2>. QED
    BY <1>2, <2>1, <2>2 DEF Submissions!TypeOK, SubPages
<1>4. Submissions!NothingOfPreviousIdentity /\ Submissions!DetailsBelongToExpanded /\ Submissions!ListCoversOwnCommands
  BY <1>2 DEF SubShown, Submissions!NothingOfPreviousIdentity, Submissions!DetailsBelongToExpanded,
     Submissions!ListCoversOwnCommands
<1>5. Submissions!SubmittedOnce
  BY <1>2 DEF SubStored, SubWorlds, Submissions!SubmittedOnce
<1>. QED
  BY <1>3, <1>4, <1>5

-----------------------------------------------------------------------------
\* The browser at one of the pages, which holds what its page promises.

Pages == {"submissions", "upload", "admin", "team", "suppliers", "batches", "create", "visit", "planning"}

ClientPagesInv ==
  /\ at \in Pages
  /\ at = "submissions" => SubInv
  /\ at = "upload" => UploadInv
  /\ at = "admin" => AdminInv
  /\ at = "team" => TeamInv
  /\ at = "suppliers" => SupplyInv
  /\ at = "batches" => BatchInv
  /\ at = "create" => CreationInv
  /\ at = "visit" => VisitInv
  /\ at = "planning" => PlanningInv

LEMMA ClientPagesInit == Init => ClientPagesInv
<1> USE DEF ClientPagesInv, Pages
<1>1. at = "submissions" /\ Submissions!Init => ClientPagesInv
  BY SubInit
<1>2. at = "upload" /\ Upload!Init => ClientPagesInv
  BY UploadInit
<1>3. at = "admin" /\ Admin!Init => ClientPagesInv
  BY AdminInit
<1>4. at = "team" /\ Team!Init => ClientPagesInv
  BY TeamInit
<1>5. at = "suppliers" /\ Supply!Init => ClientPagesInv
  BY SupplyInit
<1>6. at = "batches" /\ Batch!Init => ClientPagesInv
  BY BatchInit
<1>7. at = "create" /\ Creation!Init => ClientPagesInv
  BY CreationInit
<1>8. at = "visit" /\ Visit!Init => ClientPagesInv
  BY VisitInit
<1>9. at = "planning" /\ Planning!Init => ClientPagesInv
  BY PlanningInit
<1>. QED
  BY <1>1, <1>2, <1>3, <1>4, <1>5, <1>6, <1>7, <1>8, <1>9 DEF Init

\* What the browser does not see changes nothing of what the page holds.
LEMMA ClientPagesStutters == ClientPagesInv /\ UNCHANGED vars => ClientPagesInv'
<1> SUFFICES ASSUME ClientPagesInv, UNCHANGED vars PROVE ClientPagesInv'
  OBVIOUS
<1>1. at' = at /\ page' = page /\ server' = server /\ call' = call /\ asked' = asked
  BY DEF vars, pagevars
<1>2. SubInv => SubInv'
  BY <1>1 DEF SubInv, SubFits, Fits
<1>3. UploadInv => UploadInv'
  BY <1>1 DEF UploadInv, UploadFits, Fits
<1>4. AdminInv => AdminInv'
  BY <1>1 DEF AdminInv, AdminFits, Fits
<1>5. TeamInv => TeamInv'
  BY <1>1 DEF TeamInv, Engagements, Engagement, Creating, Deleting, Creates, Deletes, Team!At
<1>6. SupplyInv => SupplyInv'
  BY <1>1 DEF SupplyInv, SupplyFits, Fits
<1>7. BatchInv => BatchInv'
  BY <1>1 DEF BatchInv, BatchFits, Fits, Batch!CreatedOnce, Batch!Absent
<1>8. CreationInv => CreationInv'
  BY <1>1 DEF CreationInv, CreationFits, Fits
<1>9. VisitInv => VisitInv'
  BY <1>1 DEF VisitInv, Fits
<1>10. PlanningInv => PlanningInv'
  BY <1>1 DEF PlanningInv, PlanningFits, Fits
<1>. QED
  BY <1>1, <1>2, <1>3, <1>4, <1>5, <1>6, <1>7, <1>8, <1>9, <1>10 DEF ClientPagesInv, Pages

LEMMA ClientPagesStep == ClientPagesInv /\ [Next]_vars => ClientPagesInv'
<1> SUFFICES ASSUME ClientPagesInv, Next PROVE ClientPagesInv'
  BY ClientPagesStutters
<1>1. at' = at /\ at \in Pages
  BY DEF Next, ClientPagesInv
<1>2. CASE at = "submissions"
  BY <1>1, <1>2, SubNext DEF Next, ClientPagesInv
<1>3. CASE at = "upload"
  BY <1>1, <1>3, UploadNext DEF Next, ClientPagesInv
<1>4. CASE at = "admin"
  BY <1>1, <1>4, AdminNext DEF Next, ClientPagesInv
<1>5. CASE at = "team"
  BY <1>1, <1>5, TeamNext DEF Next, ClientPagesInv
<1>6. CASE at = "suppliers"
  BY <1>1, <1>6, SupplyNext DEF Next, ClientPagesInv
<1>7. CASE at = "batches"
  BY <1>1, <1>7, BatchNext DEF Next, ClientPagesInv
<1>8. CASE at = "create"
  BY <1>1, <1>8, CreationNext DEF Next, ClientPagesInv
<1>9. CASE at = "visit"
  BY <1>1, <1>9, VisitNext DEF Next, ClientPagesInv
<1>10. CASE at = "planning"
  BY <1>1, <1>10, PlanningNext DEF Next, ClientPagesInv
<1>. QED
  BY <1>1, <1>2, <1>3, <1>4, <1>5, <1>6, <1>7, <1>8, <1>9, <1>10 DEF Pages

\* A page stays what it was mounted as: every reachable state is one its invariant allows.
THEOREM PagesHold == Spec => []ClientPagesInv
BY ClientPagesInit, ClientPagesStep, PTL DEF Spec

\* Whatever the pages have asked for, in whatever order it is answered, what they show and
\* what the handlers hold is of its type.
THEOREM PagesTyped == Spec => []TypeOK
<1>1. ClientPagesInv => TypeOK
  BY SubHolds, UploadHolds, AdminHolds, TeamHolds, SupplyHolds, BatchHolds, CreationHolds, VisitHolds, PlanningHolds DEF ClientPagesInv, TypeOK
<1>. QED
  BY <1>1, PagesHold, PTL

\* Lists, documents, reports and templates that are shown belong to the identity, the
\* submission, the file or the address they are shown under, and a list is never older
\* than what the page was told of its own commands.
THEOREM PagesShowBelongs == Spec => []ShownBelongs
<1>1. ClientPagesInv => ShownBelongs
  BY SubHolds, UploadHolds, CreationHolds DEF ClientPagesInv, ShownBelongs
<1>. QED
  BY <1>1, PagesHold, PTL

\* Versions, reviews, templates, materials and visit reports that are kept were made for
\* what they are kept under, and stay what others relied on.
THEOREM PagesKeepBelongs == Spec => []KeptBelongs
<1>1. ClientPagesInv => KeptBelongs
  BY UploadHolds, AdminHolds, SupplyHolds, VisitHolds DEF ClientPagesInv, KeptBelongs
<1>. QED
  BY <1>1, PagesHold, PTL

\* A submission or a batch meant once is made once, however many of its calls are lost
\* and retried.
THEOREM PagesActOnce == Spec => []ActsOnce
<1>1. ClientPagesInv => ActsOnce
  BY SubHolds, BatchHolds DEF ClientPagesInv, ActsOnce
<1>. QED
  BY <1>1, PagesHold, PTL

\* A member of the team without an identity, or an identity without its member, is one
\* whose handler broke off or is still under way.
THEOREM TeamAccountsWhole == Spec => []AccountIsWhole
<1>1. ClientPagesInv => AccountIsWhole
  BY TeamHolds DEF ClientPagesInv, AccountIsWhole
<1>. QED
  BY <1>1, PagesHold, PTL

==============================================================================
