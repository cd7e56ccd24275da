--------------------------- MODULE WebSessionProofs ---------------------------
(***************************************************************************)
(* Proofs about WebSession, for any number of tabs, users, tokens and      *)
(* sign-ins: what a tab shows, and what is stored, belongs to one user.    *)
(***************************************************************************)
EXTENDS WebSession, TLAPS

StoreOK(store) ==
  /\ store \in Stores
  /\ store.profile # None => store.token # None /\ store.profile.user = Owner[store.token]

\* What is shown belongs to the token it is shown for, and to the one worked with.
ShownOK(shown, active) ==
  /\ (shown.token = None) <=> (shown.user = None)
  /\ shown.user # None =>
       /\ shown.user.user = Owner[shown.token]
       /\ active.user = shown.user
       /\ Owner[active.token] = Owner[shown.token] /\ Roles[active.token] = Roles[shown.token]

\* A read that counts is of the token worked with; a refresh also of the one shown.
ReadOK(doc) ==
  doc.read # None =>
    /\ doc.active.token = doc.read.token
    /\ doc.read.kind = "refresh" => doc.shown.token = doc.read.token

DocOK(doc) == doc \in Held /\ ShownOK(doc.shown, doc.active) /\ ReadOK(doc)

\* The strengthening of SessionInv that the steps preserve.
TabsInv ==
  /\ StoreOK(local)
  /\ session = [t \in Tabs |-> session[t]] /\ \A t \in Tabs : StoreOK(session[t])
  /\ tab = [t \in Tabs |-> tab[t]] /\ \A t \in Tabs : DocOK(tab[t])
  /\ rights \in [Users -> 0 .. MaxRights]
  /\ logins \in 0 .. MaxLogins
  /\ turns \in 0 .. MaxTurns

-----------------------------------------------------------------------------
(* Documents *)

\* A document in order that shows, and works with, what another does, at a place.
Alike(new, doc, place) ==
  DocOK(new) /\ new.shown = doc.shown /\ new.active = doc.active /\ new.place = place

\* A field that says nothing of the session is replaced by a value of its kind.
LEMMA Fields ==
  ASSUME NEW doc, DocOK(doc)
  PROVE  /\ \A x \in BOOLEAN : Alike([doc EXCEPT !.open = x], doc, doc.place)
         /\ \A x \in Places : Alike([doc EXCEPT !.place = x], doc, x)
         /\ \A x \in BOOLEAN : Alike([doc EXCEPT !.loading = x], doc, doc.place)
         /\ \A x \in Logins \cup {None} : Alike([doc EXCEPT !.login = x], doc, doc.place)
         /\ \A x \in {"no", "purge", "redirect"} : Alike([doc EXCEPT !.leaving = x], doc, doc.place)
         /\ \A x \in {"no", "asked", "away"} : Alike([doc EXCEPT !.sso = x], doc, doc.place)
         /\ \A x \in BOOLEAN : Alike([doc EXCEPT !.replaced = x], doc, doc.place)
         /\ \A x \in SUBSET {"token", "profile", "session"} : Alike([doc EXCEPT !.events = x], doc, doc.place)
         /\ Alike([doc EXCEPT !.read = None], doc, doc.place)
<1>1. \A x \in BOOLEAN : Alike([doc EXCEPT !.open = x], doc, doc.place)
  BY DEF Alike, DocOK, Held, ReadOK
<1>2. \A x \in Places : Alike([doc EXCEPT !.place = x], doc, x)
  BY DEF Alike, DocOK, Held, ReadOK
<1>3. \A x \in BOOLEAN : Alike([doc EXCEPT !.loading = x], doc, doc.place)
  BY DEF Alike, DocOK, Held, ReadOK
<1>4. \A x \in Logins \cup {None} : Alike([doc EXCEPT !.login = x], doc, doc.place)
  BY DEF Alike, DocOK, Held, ReadOK
<1>5. \A x \in {"no", "purge", "redirect"} : Alike([doc EXCEPT !.leaving = x], doc, doc.place)
  BY DEF Alike, DocOK, Held, ReadOK
<1>6. \A x \in {"no", "asked", "away"} : Alike([doc EXCEPT !.sso = x], doc, doc.place)
  BY DEF Alike, DocOK, Held, ReadOK
<1>7. \A x \in BOOLEAN : Alike([doc EXCEPT !.replaced = x], doc, doc.place)
  BY DEF Alike, DocOK, Held, ReadOK
<1>8. \A x \in SUBSET {"token", "profile", "session"} : Alike([doc EXCEPT !.events = x], doc, doc.place)
  BY DEF Alike, DocOK, Held, ReadOK
<1>9. Alike([doc EXCEPT !.read = None], doc, doc.place)
  BY DEF Alike, DocOK, Held, ReadOK
<1>. QED
  BY <1>1, <1>2, <1>3, <1>4, <1>5, <1>6, <1>7, <1>8, <1>9

LEMMA RegeneratedOK ==
  ASSUME NEW doc, DocOK(doc)
  PROVE  Alike(Regenerated(doc), doc, doc.place) /\ Regenerated(doc).read = None
<1>1. Alike([doc EXCEPT !.read = None], doc, doc.place)
  BY Fields
<1>. QED
  BY <1>1 DEF Regenerated, DocOK, Held

LEMMA ResequencedOK ==
  ASSUME NEW doc, DocOK(doc)
  PROVE  Alike(Resequenced(doc), doc, doc.place) /\ Resequenced(doc).read = doc.read
<1> DEFINE replaced == doc.replaced \/ (doc.login # None /\ doc.login.kind = "callback")
           q == [doc EXCEPT !.login = None]
           r == [q EXCEPT !.leaving = "no"]
<1>1. replaced \in BOOLEAN
  BY DEF DocOK, Held
<1>2. Resequenced(doc) = [r EXCEPT !.replaced = replaced]
  BY DEF Resequenced
<1> HIDE DEF replaced
<1>3. Alike(q, doc, doc.place)
  BY Fields DEF Alike
<1>4. Alike(r, doc, doc.place)
  BY <1>3, Fields DEF Alike
<1>5. Alike([r EXCEPT !.replaced = replaced], doc, doc.place)
  BY <1>1, <1>4, Fields DEF Alike
<1>6. [r EXCEPT !.replaced = replaced].read = doc.read
  BY DEF DocOK, Held
<1>. QED
  BY <1>2, <1>5, <1>6

LEMMA SignedOutOK ==
  ASSUME NEW doc, DocOK(doc), doc.read = None
  PROVE  /\ DocOK(SignedOut(doc)) /\ SignedOut(doc).read = None
         /\ SignedOut(doc).shown = NoAuth /\ SignedOut(doc).active = NoAuth
         /\ SignedOut(doc).place = doc.place
<1>1. NoAuth \in Auths /\ ShownOK(NoAuth, NoAuth)
  BY DEF NoAuth, Auths, ShownOK
<1>2. SignedOut(doc) \in Held /\ SignedOut(doc).read = None
      /\ SignedOut(doc).shown = NoAuth /\ SignedOut(doc).active = NoAuth
      /\ SignedOut(doc).place = doc.place
  BY <1>1 DEF SignedOut, DocOK, Held
<1>. QED
  BY <1>1, <1>2 DEF DocOK, ReadOK

LEMMA HiddenOK ==
  ASSUME NEW doc, DocOK(doc)
  PROVE  DocOK(Hidden(doc)) /\ Hidden(doc).shown = NoAuth /\ Hidden(doc).place = doc.place
<1> DEFINE q == SignedOut(Regenerated(Resequenced(doc)))
           r == [q EXCEPT !.open = FALSE]
<1>1. DocOK(q) /\ q.shown = NoAuth /\ q.place = doc.place
  BY ResequencedOK, RegeneratedOK, SignedOutOK DEF Alike
<1> HIDE DEF q
<1>2. DocOK(r) /\ r.shown = NoAuth /\ r.place = doc.place
  BY <1>1, Fields DEF Alike
<1> HIDE DEF r
<1>3. Alike([r EXCEPT !.loading = TRUE], r, r.place)
  BY <1>2, Fields
<1>. QED
  BY <1>2, <1>3 DEF Hidden, q, r, Alike

LEMMA FreshOK == ASSUME NEW place \in Places PROVE DocOK(Fresh(place)) /\ Fresh(place).shown = NoAuth
<1>1. NoAuth \in Auths /\ ShownOK(NoAuth, NoAuth)
  BY DEF NoAuth, Auths, ShownOK
<1>2. Fresh(place) \in Held
  BY <1>1 DEF Fresh, Held
<1>. QED
  BY <1>1, <1>2 DEF DocOK, ReadOK, Fresh

-----------------------------------------------------------------------------
(* Synchronisation *)

\* What a document finds outside itself.
StoresOK ==
  StoreOK(local) /\ (\A t \in Tabs : StoreOK(session[t])) /\ rights \in [Users -> 0 .. MaxRights]

LEMMA StoredTyped ==
  ASSUME StoresOK, NEW t \in Tabs
  PROVE  Stored(t) \in Tokens \cup {None}
<1>1. local \in Stores /\ session[t] \in Stores
  BY DEF StoresOK, StoreOK
<1>. QED
  BY <1>1 DEF Stored, Stores

\* A document follows what is stored: it shows what it showed, or nothing.
LEMMA SynchronizedOK ==
  ASSUME StoresOK, NEW t \in Tabs, NEW doc, DocOK(doc), NEW force \in BOOLEAN
  PROVE  LET new == Synchronized(t, doc, force)
         IN DocOK(new) /\ new.shown \in {doc.shown, NoAuth} /\ new.place = doc.place
<1> DEFINE stored == Stored(t)
           new == Synchronized(t, doc, force)
           turned == IF stored # doc.active.token THEN Resequenced(doc) ELSE doc
           read == [kind |-> "sync", token |-> stored, since |-> rights[Owner[stored]]]
           asked == [turned EXCEPT !.read = read]
<1>1. DocOK(turned) /\ turned.shown = doc.shown /\ turned.active = doc.active /\ turned.place = doc.place
  BY ResequencedOK DEF Alike
<1>2. CASE stored = None
  <2> DEFINE q == IF doc.active.token # None THEN Resequenced(doc) ELSE doc
             r == SignedOut(Regenerated(q))
  <2>1. DocOK(q) /\ q.place = doc.place
    BY ResequencedOK DEF Alike
  <2>2. DocOK(r) /\ r.shown = NoAuth /\ r.place = doc.place
    BY <2>1, RegeneratedOK, SignedOutOK DEF Alike
  <2>3. new = [r EXCEPT !.loading = FALSE]
    BY <1>2 DEF Synchronized
  <2> HIDE DEF r, new
  <2>4. Alike([r EXCEPT !.loading = FALSE], r, r.place)
    BY <2>2, Fields
  <2>. QED
    BY <2>2, <2>3, <2>4 DEF Alike, new
<1>3. CASE stored # None /\ new = doc
  BY <1>3
<1>4. CASE stored # None /\ new # doc
  <2>1. stored \in Tokens /\ Owner[stored] \in Users
    BY <1>4, StoredTyped, OwnerAssumption
  <2>2. read \in Reads
    BY <2>1 DEF StoresOK, Reads
  <2>3. new = IF SameIdentity(doc, stored) THEN [asked EXCEPT !.active.token = stored]
              ELSE [asked EXCEPT !.active = [token |-> stored, user |-> None],
                                 !.shown = NoAuth, !.loading = TRUE]
    BY <1>4 DEF Synchronized
  <2> HIDE DEF turned
  <2>4. CASE SameIdentity(doc, stored)
    <3> DEFINE active == [doc.active EXCEPT !.token = stored]
    <3>1. active \in Auths /\ active.token = stored /\ active.user = doc.active.user
      BY <2>1 DEF DocOK, Held, Auths
    <3>2. ShownOK(doc.shown, active)
      BY <2>1, <2>4, <3>1 DEF SameIdentity, DocOK, ShownOK
    <3>3. new = [asked EXCEPT !.active = active]
      BY <1>1, <2>3, <2>4 DEF DocOK, Held
    <3> HIDE DEF active
    <3>4. /\ new \in Held /\ new.active = active /\ new.shown = doc.shown /\ new.read = read
          /\ new.place = doc.place
      BY <1>1, <2>2, <3>1, <3>3 DEF DocOK, Held
    <3>. QED
      BY <3>1, <3>2, <3>4 DEF DocOK, ReadOK
  <2>5. CASE ~SameIdentity(doc, stored)
    <3> DEFINE active == [token |-> stored, user |-> None]
    <3>1. active \in Auths /\ NoAuth \in Auths /\ ShownOK(NoAuth, active)
      BY <2>1 DEF Auths, NoAuth, ShownOK
    <3>2. new = [asked EXCEPT !.active = active, !.shown = NoAuth, !.loading = TRUE]
      BY <2>3, <2>5
    <3>3. active.token = stored
      OBVIOUS
    <3> HIDE DEF active
    <3>4. /\ new \in Held /\ new.active = active /\ new.shown = NoAuth /\ new.read = read
          /\ new.place = doc.place
      BY <1>1, <2>2, <3>1, <3>2 DEF DocOK, Held
    <3>. QED
      BY <3>1, <3>3, <3>4 DEF DocOK, ReadOK
  <2>. QED
    BY <2>4, <2>5
<1>. QED
  BY <1>2, <1>3, <1>4

-----------------------------------------------------------------------------
(* Steps *)

\* What a step does to what the tabs show: a token that starts to be shown is the one
\* stored, and a portal that is entered is the user's own.
ShownStored ==
  \A t \in Tabs : tab'[t].shown.token \notin {None, tab[t].shown.token} =>
                    tab'[t].shown.token = Stored(t)'
Landed ==
  \A t \in Tabs : tab'[t].shown.token # None /\ tab'[t].place # tab[t].place
       /\ tab'[t].place \in {"business", "provider"} =>
         Portal[tab'[t].shown.user.user] = tab'[t].place

\* A step keeps storages and documents in order, and what they show.
Kept ==
  /\ StoreOK(local')
  /\ session' = [t \in Tabs |-> session'[t]] /\ \A t \in Tabs : StoreOK(session'[t])
  /\ tab' = [t \in Tabs |-> tab'[t]] /\ \A t \in Tabs : DocOK(tab'[t])
  /\ ShownStored /\ Landed

\* What a tab may become when l and s are stored.
MayBecome(t, l, s, doc) ==
  /\ DocOK(doc)
  /\ \/ doc.shown.token \in {None, tab[t].shown.token}
     \/ doc.shown.token = IF l.token # None THEN l.token ELSE s.token
  /\ \/ doc.shown.token = None
     \/ doc.place \notin {"business", "provider"} \ {tab[t].place}
     \/ Portal[doc.shown.user.user] = doc.place

LEMMA CommitKeeps ==
  ASSUME TabsInv, NEW t \in Tabs, NEW l, StoreOK(l), NEW s, StoreOK(s),
         NEW doc, MayBecome(t, l, s, doc), Commit(t, l, s, doc)
  PROVE  Kept
<1>1. StoreOK(local')
  BY DEF Commit
<1>2. session' = [u \in Tabs |-> session'[u]] /\ \A u \in Tabs : StoreOK(session'[u])
  BY DEF Commit, TabsInv
<1>3. tab' = [u \in Tabs |-> tab'[u]]
  BY DEF Commit
<1>4. tab'[t] = doc
  BY DEF Commit
<1>5. ASSUME NEW u \in Tabs, u # t
      PROVE  DocOK(tab'[u]) /\ tab'[u].shown = tab[u].shown /\ tab'[u].place = tab[u].place
  <2> DEFINE events == tab[u].events \cup {k \in {"token", "profile"} : l[k] # local[k]}
  <2>1. DocOK(tab[u])
    BY DEF TabsInv
  <2>2. events \in SUBSET {"token", "profile", "session"}
    BY <2>1 DEF DocOK, Held
  <2>3. tab'[u] = tab[u] \/ tab'[u] = [tab[u] EXCEPT !.events = events]
    BY <1>5 DEF Commit
  <2> HIDE DEF events
  <2>4. Alike([tab[u] EXCEPT !.events = events], tab[u], tab[u].place)
    BY <2>1, <2>2, Fields
  <2>. QED
    BY <2>1, <2>3, <2>4 DEF Alike
<1>6. \A u \in Tabs : DocOK(tab'[u])
  BY <1>4, <1>5 DEF MayBecome
<1>7. ShownStored
  <2>1. Stored(t)' = IF l.token # None THEN l.token ELSE s.token
    BY DEF Stored, Commit, TabsInv
  <2>. QED
    BY <1>4, <1>5, <2>1 DEF ShownStored, MayBecome
<1>8. Landed
  BY <1>4, <1>5 DEF Landed, MayBecome
<1>. QED
  BY <1>1, <1>2, <1>3, <1>6, <1>7, <1>8 DEF Kept

\* A document that shows what it showed, or nothing, and enters no portal.
Tidy(t, doc) ==
  /\ DocOK(doc) /\ doc.shown \in {tab[t].shown, NoAuth}
  /\ doc.place \notin {"business", "provider"} \ {tab[t].place}

LEMMA InDocumentKeeps ==
  ASSUME TabsInv, NEW t \in Tabs, NEW doc, Tidy(t, doc), InDocument(t, doc)
  PROVE  Kept
<1>1. tab' = [tab EXCEPT ![t] = doc] /\ UNCHANGED <<local, session>>
  BY DEF InDocument
<1>2. \A u \in Tabs : tab'[u] = IF u = t THEN doc ELSE tab[u]
  BY <1>1 DEF TabsInv
<1>3. tab' = [u \in Tabs |-> tab'[u]]
  BY <1>1 DEF TabsInv
<1>4. ShownStored /\ Landed
  BY <1>2 DEF ShownStored, Landed, Tidy, NoAuth
<1>. QED
  BY <1>1, <1>2, <1>3, <1>4 DEF Kept, TabsInv, Tidy

LEMMA PurgeKeeps ==
  ASSUME TabsInv, NEW t \in Tabs, NEW doc, Tidy(t, doc), Purge(t, doc)
  PROVE  Kept
<1> DEFINE events == doc.events \cup {"session"}
           new == [doc EXCEPT !.events = events]
<1>1. events \in SUBSET {"token", "profile", "session"}
  BY DEF Tidy, DocOK, Held
<1>2. Commit(t, NoStore, NoStore, new)
  BY DEF Purge
<1>3. StoreOK(NoStore)
  BY DEF StoreOK, NoStore, Stores
<1> HIDE DEF events
<1>4. Alike(new, doc, doc.place)
  BY <1>1, Fields DEF Tidy
<1> HIDE DEF new
<1>5. MayBecome(t, NoStore, NoStore, new)
  BY <1>4 DEF MayBecome, Alike, Tidy, NoAuth
<1>. QED
  BY <1>2, <1>3, <1>5, CommitKeeps

LEMMA TabOK == ASSUME TabsInv, NEW t \in Tabs PROVE DocOK(tab[t]) /\ Tidy(t, tab[t])
BY DEF TabsInv, Tidy

\* Events, timers and the browser's comings and goings.
LEMMA BrowserKeeps ==
  ASSUME TabsInv, NEW t \in Tabs,
         OnStorage(t) \/ OnInterval(t) \/ OnFocus(t) \/ OnPageHide(t) \/ OnPageShow(t) \/ Load(t)
  PROVE  Kept
<1>0. DocOK(tab[t])
  BY TabOK
<1>1. ASSUME NEW doc, DocOK(doc), doc.shown \in {tab[t].shown, NoAuth},
             doc.place \notin {"business", "provider"} \ {tab[t].place},
             NEW force \in BOOLEAN, InDocument(t, Synchronized(t, doc, force))
      PROVE  Kept
  <2> DEFINE new == Synchronized(t, doc, force)
  <2>1. DocOK(new) /\ new.shown \in {doc.shown, NoAuth} /\ new.place = doc.place
    BY <1>1, SynchronizedOK DEF TabsInv, StoresOK
  <2> HIDE DEF new
  <2>2. Tidy(t, new)
    BY <1>1, <2>1 DEF Tidy
  <2>. QED
    BY <1>1, <2>2, InDocumentKeeps DEF new
<1>2. CASE OnStorage(t)
  <2>1. PICK k \in tab[t].events :
          InDocument(t, Synchronized(t, [tab[t] EXCEPT !.events = @ \ {k}], k = "profile"))
    BY <1>2 DEF OnStorage
  <2> DEFINE events == tab[t].events \ {k}
             doc == [tab[t] EXCEPT !.events = events]
  <2>2. events \in SUBSET {"token", "profile", "session"}
    BY <1>0 DEF DocOK, Held
  <2> HIDE DEF events
  <2>3. Alike(doc, tab[t], tab[t].place)
    BY <1>0, <2>2, Fields
  <2>4. InDocument(t, Synchronized(t, doc, k = "profile"))
    BY <2>1 DEF events
  <2> HIDE DEF doc
  <2>5. (k = "profile") \in BOOLEAN
    OBVIOUS
  <2>. QED
    BY <1>1, <2>3, <2>4, <2>5 DEF Alike
<1>3. CASE OnInterval(t) \/ OnFocus(t)
  BY <1>0, <1>1, <1>3 DEF OnInterval, OnFocus
<1>4. CASE OnPageHide(t)
  <2> DEFINE h == Hidden(tab[t])
             doc == [h EXCEPT !.sso = "no"]
  <2>1. DocOK(h) /\ h.shown = NoAuth /\ h.place = tab[t].place
    BY <1>0, HiddenOK
  <2> HIDE DEF h
  <2>2. Alike(doc, h, h.place)
    BY <2>1, Fields
  <2>3. InDocument(t, doc)
    BY <1>4 DEF OnPageHide, h
  <2> HIDE DEF doc
  <2>4. Tidy(t, doc)
    BY <2>1, <2>2 DEF Tidy, Alike
  <2>. QED
    BY <2>3, <2>4, InDocumentKeeps
<1>5. CASE OnPageShow(t)
  <2> DEFINE q == [tab[t] EXCEPT !.open = TRUE]
             doc == [q EXCEPT !.sso = "no"]
  <2>1. Alike(q, tab[t], tab[t].place)
    BY <1>0, Fields
  <2>2. Alike(doc, q, q.place)
    BY <2>1, Fields DEF Alike
  <2>3. InDocument(t, Synchronized(t, doc, TRUE))
    BY <1>5 DEF OnPageShow
  <2> HIDE DEF doc, q
  <2>. QED
    BY <1>1, <2>1, <2>2, <2>3 DEF Alike
<1>6. CASE Load(t)
  <2>1. PICK place \in {"out", "deletion", "callback"} :
          InDocument(t, Synchronized(t, Fresh(place), FALSE))
    BY <1>6 DEF Load
  <2>2. DocOK(Fresh(place)) /\ Fresh(place).shown = NoAuth
    BY FreshOK DEF Places
  <2>3. Fresh(place).place = place
    BY DEF Fresh
  <2>. QED
    BY <1>1, <2>1, <2>2, <2>3
<1>. QED
  BY <1>2, <1>3, <1>4, <1>5, <1>6

\* What /auth/me answers, if it answers, is a profile.
LEMMA AnswersTyped ==
  ASSUME TabsInv, NEW call, call.token \in Tokens, call.since \in 0 .. MaxRights
  PROVE  Answers(call) \subseteq Profiles \cup {None}
<1>1. Owner[call.token] \in Users
  BY OwnerAssumption
<1>2. \A u \in Users : rights[u] \in 0 .. MaxRights
  BY DEF TabsInv
<1>3. call.since .. rights[Owner[call.token]] \subseteq 0 .. MaxRights
  BY <1>1, <1>2, BoundsAssumption
<1>. QED
  BY <1>1, <1>2, <1>3 DEF Answers, Profiles

\* The profile of a stored token is kept beside it.
LEMMA WithProfileKeeps ==
  ASSUME TabsInv, NEW t \in Tabs, NEW token \in Tokens, Stored(t) = token,
         NEW profile \in Profiles, Matches(token, profile),
         NEW doc, DocOK(doc), doc.shown.token = token, doc.place = tab[t].place,
         WithProfile(t, token, profile, doc)
  PROVE  Kept
<1>1. /\ StoreOK(local) /\ StoreOK(session[t])
      /\ token # None /\ profile.user = Owner[token]
  BY NoneAssumption DEF TabsInv, Matches
<1>2. CASE local.token = token
  <2> DEFINE l == [local EXCEPT !.profile = profile]
  <2>1. StoreOK(l) /\ l.token = token
    BY <1>1, <1>2 DEF StoreOK, Stores
  <2>2. Commit(t, l, session[t], doc)
    BY <1>2 DEF WithProfile
  <2> HIDE DEF l
  <2>3. MayBecome(t, l, session[t], doc)
    BY <1>1, <2>1 DEF MayBecome
  <2>. QED
    BY <1>1, <2>1, <2>2, <2>3, CommitKeeps
<1>3. CASE local.token # token
  <2> DEFINE s == [session[t] EXCEPT !.profile = profile]
  <2>1. local.token = None /\ session[t].token = token
    BY <1>3 DEF Stored
  <2>2. StoreOK(s) /\ s.token = token
    BY <1>1, <2>1 DEF StoreOK, Stores
  <2>3. Commit(t, local, s, doc)
    BY <1>3 DEF WithProfile
  <2> HIDE DEF s
  <2>4. MayBecome(t, local, s, doc)
    BY <2>1, <2>2 DEF MayBecome
  <2>. QED
    BY <1>1, <2>2, <2>3, <2>4, CommitKeeps
<1>. QED
  BY <1>2, <1>3

\* The answer to a read of the stored session.
LEMMA SyncKeeps == ASSUME TabsInv, NEW t \in Tabs, SyncAnswered(t) PROVE Kept
<1> DEFINE read == tab[t].read
           q == Regenerated(tab[t])
           doc == [q EXCEPT !.loading = FALSE]
<1>0. read # None /\ read.kind = "sync" /\ read \in Reads
  BY TabOK DEF SyncAnswered, DocOK, Held
<1>1. Alike(q, tab[t], tab[t].place) /\ q.read = None
  BY TabOK, RegeneratedOK
<1>2. Alike(doc, tab[t], tab[t].place) /\ doc.read = None
  <2> HIDE DEF q
  <2>1. Alike(doc, q, q.place)
    BY <1>1, Fields DEF Alike
  <2>2. doc.read = None
    BY <1>1 DEF Alike, DocOK, Held
  <2>. QED
    BY <1>1, <2>1, <2>2 DEF Alike
<1>3. \/ InDocument(t, doc)
      \/ /\ Stored(t) = read.token
         /\ \E answer \in Answers(read) :
              LET auth == [token |-> read.token, user |-> answer]
              IN IF Matches(read.token, answer)
                 THEN WithProfile(t, read.token, answer, [doc EXCEPT !.active = auth, !.shown = auth])
                 ELSE Purge(t, SignedOut(doc))
  BY DEF SyncAnswered
<1> HIDE DEF doc, q
<1>4. Tidy(t, doc)
  BY <1>2 DEF Tidy, Alike
<1>5. CASE InDocument(t, doc)
  BY <1>4, <1>5, InDocumentKeeps
<1>6. CASE Purge(t, SignedOut(doc))
  <2>1. Tidy(t, SignedOut(doc))
    BY <1>2, SignedOutOK DEF Tidy, Alike
  <2>. QED
    BY <1>6, <2>1, PurgeKeeps
<1>7. ASSUME Stored(t) = read.token, NEW answer \in Answers(read), Matches(read.token, answer),
             WithProfile(t, read.token, answer,
               [doc EXCEPT !.active = [token |-> read.token, user |-> answer],
                           !.shown = [token |-> read.token, user |-> answer]])
      PROVE  Kept
  <2> DEFINE auth == [token |-> read.token, user |-> answer]
             new == [doc EXCEPT !.active = auth, !.shown = auth]
  <2>1. read.token \in Tokens /\ read.token # None /\ answer \in Profiles
    BY <1>0, <1>7, AnswersTyped, NoneAssumption DEF Reads, Matches
  <2>2. auth \in Auths /\ auth.token = read.token /\ ShownOK(auth, auth)
    BY <1>7, <2>1 DEF Auths, ShownOK, Matches
  <2> HIDE DEF auth
  <2>3. /\ new \in Held /\ new.shown = auth /\ new.active = auth /\ new.read = None
        /\ new.place = tab[t].place
    BY <1>2, <2>2 DEF Alike, DocOK, Held
  <2>4. WithProfile(t, read.token, answer, new)
    BY <1>7 DEF auth
  <2> HIDE DEF new
  <2>5. DocOK(new) /\ new.shown.token = read.token
    BY <2>2, <2>3 DEF DocOK, ReadOK
  <2>. QED
    BY <1>7, <2>1, <2>3, <2>4, <2>5, WithProfileKeeps
<1>. QED
  BY <1>3, <1>5, <1>6, <1>7

\* A refresh changes the profile of what is shown, not whose it is.
LEMMA RefreshKeeps == ASSUME TabsInv, NEW t \in Tabs, RefreshProfile(t) \/ RefreshAnswered(t) PROVE Kept
<1>0. DocOK(tab[t]) /\ tab[t] \in Held
  BY TabOK DEF DocOK
<1>1. CASE RefreshProfile(t)
  <2> DEFINE token == tab[t].shown.token
             read == [kind |-> "refresh", token |-> token, since |-> rights[Owner[token]]]
             doc == [tab[t] EXCEPT !.read = read]
  <2>1. token \in Tokens /\ tab[t].active.token = token
    BY <1>0, <1>1 DEF RefreshProfile, Held, Auths
  <2>2. read \in Reads
    BY <2>1, OwnerAssumption DEF TabsInv, Reads
  <2>3. read.token = token
    OBVIOUS
  <2>4. InDocument(t, doc)
    BY <1>1 DEF RefreshProfile
  <2> HIDE DEF read
  <2>5. /\ doc \in Held /\ doc.read = read /\ doc.shown = tab[t].shown
        /\ doc.active = tab[t].active /\ doc.place = tab[t].place
    BY <1>0, <2>2 DEF Held
  <2> HIDE DEF doc
  <2>6. Tidy(t, doc)
    BY <1>0, <2>1, <2>3, <2>5 DEF Tidy, DocOK, ReadOK
  <2>. QED
    BY <2>4, <2>6, InDocumentKeeps
<1>2. CASE RefreshAnswered(t)
  <2> DEFINE read == tab[t].read
             doc == Regenerated(tab[t])
  <2>1. read # None /\ read.kind = "refresh" /\ read \in Reads
    BY <1>0, <1>2 DEF RefreshAnswered, Held
  <2>2. Alike(doc, tab[t], tab[t].place) /\ doc.read = None
    BY <1>0, RegeneratedOK
  <2>3. \/ InDocument(t, doc)
        \/ /\ tab[t].active.token = read.token /\ Stored(t) = read.token
           /\ \E answer \in Answers(read) :
                /\ Matches(read.token, answer)
                /\ WithProfile(t, read.token, answer,
                     [doc EXCEPT !.active.user = answer, !.shown.user = answer])
    BY <1>2 DEF RefreshAnswered
  <2> HIDE DEF doc
  <2>4. CASE InDocument(t, doc)
    <3>1. Tidy(t, doc)
      BY <2>2 DEF Tidy, Alike
    <3>. QED
      BY <2>4, <3>1, InDocumentKeeps
  <2>5. ASSUME Stored(t) = read.token, NEW answer \in Answers(read), Matches(read.token, answer),
               WithProfile(t, read.token, answer,
                 [doc EXCEPT !.active.user = answer, !.shown.user = answer])
        PROVE  Kept
    <3> DEFINE auth == [token |-> read.token, user |-> answer]
               new == [doc EXCEPT !.active = auth, !.shown = auth]
    <3>1. read.token \in Tokens /\ read.token # None /\ answer \in Profiles
      BY <2>1, <2>5, AnswersTyped, NoneAssumption DEF Reads, Matches
    <3>2. auth \in Auths /\ auth.token = read.token /\ ShownOK(auth, auth)
      BY <2>5, <3>1 DEF Auths, ShownOK, Matches
    <3>3. tab[t].shown.token = read.token /\ tab[t].active.token = read.token
      BY <1>0, <2>1 DEF DocOK, ReadOK
    <3>4. doc.shown \in Auths /\ doc.active \in Auths
      BY <2>2 DEF Alike, DocOK, Held
    <3>5. /\ [doc.active EXCEPT !.user = answer] = auth
          /\ [doc.shown EXCEPT !.user = answer] = auth
      BY <2>2, <3>3, <3>4 DEF Alike, Auths
    <3>6. [doc EXCEPT !.active.user = answer, !.shown.user = answer] = new
      BY <2>2, <3>5 DEF Alike, DocOK, Held
    <3>7. WithProfile(t, read.token, answer, new)
      BY <2>5, <3>6
    <3> HIDE DEF auth
    <3>8. /\ new \in Held /\ new.shown = auth /\ new.active = auth /\ new.read = None
          /\ new.place = tab[t].place
      BY <2>2, <3>2 DEF Alike, DocOK, Held
    <3> HIDE DEF new
    <3>9. DocOK(new) /\ new.shown.token = read.token
      BY <3>2, <3>8 DEF DocOK, ReadOK
    <3>. QED
      BY <2>5, <3>1, <3>7, <3>8, <3>9, WithProfileKeeps
  <2>. QED
    BY <2>3, <2>4, <2>5
<1>. QED
  BY <1>1, <1>2

LEMMA SameRead ==
  ASSUME NEW doc, DocOK(doc), NEW x
  PROVE  /\ [doc EXCEPT !.login = x].read = doc.read
         /\ [doc EXCEPT !.loading = x].read = doc.read
         /\ [doc EXCEPT !.place = x].read = doc.read
BY DEF DocOK, Held

\* A new session is stored, shown and taken to its own portal.
LEMMA SaveKeeps ==
  ASSUME TabsInv, NEW t \in Tabs, NEW token \in Tokens, NEW profile \in Profiles,
         profile.user = Owner[token], NEW remember \in BOOLEAN, NEW place \in Places,
         place \in {"business", "provider"} => Portal[profile.user] = place,
         Save(t, token, profile, remember, place)
  PROVE  Kept
<1> DEFINE kept == [token |-> token, profile |-> profile]
           auth == [token |-> token, user |-> profile]
           n == Regenerated(tab[t])
           q == [n EXCEPT !.login = None]
           r == [q EXCEPT !.loading = FALSE]
           p == [r EXCEPT !.place = place]
           doc == [p EXCEPT !.active = auth, !.shown = auth]
<1>1. token # None /\ StoreOK(kept) /\ StoreOK(NoStore) /\ auth \in Auths /\ ShownOK(auth, auth)
  BY NoneAssumption, NothingAssumption DEF StoreOK, Stores, NoStore, Auths, ShownOK
<1>2. DocOK(n) /\ n.read = None
  BY TabOK, RegeneratedOK DEF Alike
<1>3. Commit(t, kept, NoStore, doc) \/ Commit(t, NoStore, kept, doc)
  BY DEF Save
<1> HIDE DEF n
<1>4. DocOK(q) /\ q.read = None
  <2>1. Alike(q, n, n.place)
    BY <1>2, Fields
  <2>2. q.read = n.read
    BY <1>2, SameRead
  <2>. QED
    BY <1>2, <2>1, <2>2 DEF Alike
<1> HIDE DEF q
<1>5. DocOK(r) /\ r.read = None
  BY <1>4, Fields, SameRead DEF Alike
<1> HIDE DEF r
<1>6. DocOK(p) /\ p.read = None /\ p.place = place
  BY <1>5, Fields, SameRead DEF Alike
<1>7. auth.token = token /\ auth.user = profile
  OBVIOUS
<1> HIDE DEF p, auth
<1>8. doc \in Held /\ doc.shown = auth /\ doc.active = auth /\ doc.read = None /\ doc.place = place
  BY <1>1, <1>6 DEF DocOK, Held
<1> HIDE DEF doc
<1>9. DocOK(doc)
  BY <1>1, <1>8 DEF DocOK, ReadOK
<1>10. NoStore.token = None /\ kept.token = token
  BY DEF NoStore
<1> HIDE DEF kept
<1>11. MayBecome(t, kept, NoStore, doc) /\ MayBecome(t, NoStore, kept, doc)
  BY <1>1, <1>7, <1>8, <1>9, <1>10 DEF MayBecome
<1>. QED
  BY <1>1, <1>3, <1>11, CommitKeeps

\* Sign-ins that start, and leave the browser's document.
LEMMA StartLoginKeeps ==
  ASSUME TabsInv, NEW t \in Tabs, NEW login \in Logins, StartLogin(t, login)
  PROVE  Kept
<1> DEFINE q == Regenerated(Resequenced(tab[t]))
           doc == [q EXCEPT !.login = login]
<1>1. Alike(q, tab[t], tab[t].place)
  BY TabOK, ResequencedOK, RegeneratedOK DEF Alike
<1>2. InDocument(t, doc)
  BY DEF StartLogin
<1> HIDE DEF q
<1>3. Alike(doc, q, q.place)
  BY <1>1, Fields DEF Alike
<1> HIDE DEF doc
<1>4. Tidy(t, doc)
  BY <1>1, <1>3 DEF Tidy, Alike
<1>. QED
  BY <1>2, <1>4, InDocumentKeeps

LEMMA SubmitKeeps ==
  ASSUME TabsInv, NEW t \in Tabs, NEW portal \in {"business", "provider"}, SubmitForm(t, portal)
  PROVE  Kept
<1>1. PICK token \in Tokens, remember \in BOOLEAN :
        StartLogin(t, [kind |-> portal, token |-> token, remember |-> remember,
                       since |-> rights[Owner[token]]])
  BY DEF SubmitForm
<1>2. rights[Owner[token]] \in 0 .. MaxRights
  BY OwnerAssumption DEF TabsInv
<1>. QED
  BY <1>1, <1>2, StartLoginKeeps DEF Logins

LEMMA LeaveKeeps ==
  ASSUME TabsInv, NEW t \in Tabs, LoginRedirect(t) \/ LeaveForKeycloak(t) \/ LoginCallback(t)
  PROVE  Kept
<1>0. DocOK(tab[t])
  BY TabOK
<1>1. CASE LoginRedirect(t)
  <2> DEFINE doc == [tab[t] EXCEPT !.sso = "asked"]
  <2>1. Alike(doc, tab[t], tab[t].place)
    BY <1>0, Fields
  <2>2. Purge(t, doc)
    BY <1>1 DEF LoginRedirect
  <2> HIDE DEF doc
  <2>3. Tidy(t, doc)
    BY <2>1 DEF Tidy, Alike
  <2>. QED
    BY <2>2, <2>3, PurgeKeeps
<1>2. CASE LeaveForKeycloak(t)
  <2> DEFINE h == Hidden(tab[t])
             doc == [h EXCEPT !.sso = "away"]
  <2>1. DocOK(h) /\ h.shown = NoAuth /\ h.place = tab[t].place
    BY <1>0, HiddenOK
  <2>2. InDocument(t, doc)
    BY <1>2 DEF LeaveForKeycloak
  <2> HIDE DEF h
  <2>3. Alike(doc, h, h.place)
    BY <2>1, Fields
  <2> HIDE DEF doc
  <2>4. Tidy(t, doc)
    BY <2>1, <2>3 DEF Tidy, Alike
  <2>. QED
    BY <2>2, <2>4, InDocumentKeeps
<1>3. CASE LoginCallback(t)
  <2> DEFINE doc == [tab[t] EXCEPT !.place = "out"]
  <2>1. CASE Purge(t, doc)
    <3>1. Alike(doc, tab[t], "out")
      BY <1>0, Fields DEF Places
    <3> HIDE DEF doc
    <3>2. Tidy(t, doc)
      BY <3>1 DEF Tidy, Alike
    <3>. QED
      BY <2>1, <3>2, PurgeKeeps
  <2>2. ASSUME NEW token \in Tokens,
               StartLogin(t, [kind |-> "callback", token |-> token, remember |-> TRUE,
                              since |-> rights[Owner[token]]])
        PROVE  Kept
    <3>1. rights[Owner[token]] \in 0 .. MaxRights
      BY OwnerAssumption DEF TabsInv
    <3>. QED
      BY <2>2, <3>1, StartLoginKeeps DEF Logins
  <2>. QED
    BY <1>3, <2>1, <2>2 DEF LoginCallback
<1>. QED
  BY <1>1, <1>2, <1>3

\* A user is never sent to another portal.
LEMMA ReturnsHome ==
  ASSUME NEW user \in Users, NEW requested \in (Places \ {"callback", "deletion"}) \cup {None}
  PROVE  /\ ReturnTo(requested, user) \in Places
         /\ ReturnTo(requested, user) \in {"business", "provider"} =>
              Portal[user] = ReturnTo(requested, user)
<1>1. Portal[user] \in {"business", "provider", "admin"}
  BY PortalAssumption
<1>. QED
  BY <1>1 DEF ReturnTo, Places

\* The answers to sign-ins.
LEMMA LoginsKeep ==
  ASSUME TabsInv, NEW t \in Tabs, LoginAnswered(t) \/ CallbackAnswered(t) \/ CallbackReplaced(t)
  PROVE  Kept
<1> DEFINE login == tab[t].login
           doc == [tab[t] EXCEPT !.login = None]
<1>0. DocOK(tab[t]) /\ tab[t].login \in Logins \cup {None}
  BY TabOK DEF DocOK, Held
<1>1. Alike(doc, tab[t], tab[t].place)
  BY <1>0, Fields
<1>2. ASSUME login # None, NEW answer \in Answers(login), Matches(login.token, answer)
      PROVE  /\ login.token \in Tokens /\ login.remember \in BOOLEAN /\ answer \in Profiles
             /\ answer.user = Owner[login.token] /\ answer.user \in Users
  <2>1. login \in Logins
    BY <1>0, <1>2
  <2>2. answer \in Profiles
    BY <1>2, <2>1, AnswersTyped DEF Logins, Matches
  <2>. QED
    BY <1>2, <2>1, <2>2 DEF Logins, Matches, Profiles
<1>3. CASE LoginAnswered(t)
  <2>1. login # None /\ login.kind # "callback"
    BY <1>3 DEF LoginAnswered
  <2>2. login.kind \in {"business", "provider"}
    BY <1>0, <2>1 DEF Logins
  <2>3. PICK answer \in Answers(login) :
          \/ /\ Matches(login.token, answer) /\ Portal[answer.user] = login.kind
             /\ Save(t, login.token, answer, login.remember, login.kind)
          \/ InDocument(t, doc)
    BY <1>3 DEF LoginAnswered, PortalAnswers
  <2> HIDE DEF doc
  <2>4. CASE InDocument(t, doc)
    BY <1>1, <2>4, InDocumentKeeps DEF Tidy, Alike
  <2>5. CASE /\ Matches(login.token, answer) /\ Portal[answer.user] = login.kind
             /\ Save(t, login.token, answer, login.remember, login.kind)
    BY <1>2, <2>1, <2>2, <2>5, SaveKeeps DEF Places
  <2>. QED
    BY <2>3, <2>4, <2>5
<1>4. CASE CallbackAnswered(t)
  <2> DEFINE out == [doc EXCEPT !.place = "out"]
             gone == [SignedOut(Regenerated(doc)) EXCEPT !.place = "out"]
  <2>1. login # None
    BY <1>4 DEF CallbackAnswered
  <2>2. PICK answer \in Answers(login) :
          \/ Purge(t, out) \/ Purge(t, gone)
          \/ /\ Matches(login.token, answer)
             /\ \E requested \in (Places \ {"callback", "deletion"}) \cup {None} :
                  Save(t, login.token, answer, TRUE, ReturnTo(requested, answer.user))
    BY <1>4 DEF CallbackAnswered
  <2> HIDE DEF doc
  <2>3. CASE Purge(t, out)
    <3>1. Alike(out, doc, "out")
      BY <1>1, Fields DEF Alike, Places
    <3> HIDE DEF out
    <3>2. Tidy(t, out)
      BY <1>1, <3>1 DEF Tidy, Alike
    <3>. QED
      BY <2>3, <3>2, PurgeKeeps
  <2>4. CASE Purge(t, gone)
    <3> DEFINE q == SignedOut(Regenerated(doc))
    <3>1. DocOK(q) /\ q.shown = NoAuth
      BY <1>1, RegeneratedOK, SignedOutOK DEF Alike
    <3> HIDE DEF q
    <3>2. Alike([q EXCEPT !.place = "out"], q, "out")
      BY <3>1, Fields DEF Places
    <3>3. Tidy(t, gone)
      BY <3>1, <3>2 DEF Tidy, Alike, q
    <3>. QED
      BY <2>4, <3>3, PurgeKeeps
  <2>5. ASSUME Matches(login.token, answer),
               NEW requested \in (Places \ {"callback", "deletion"}) \cup {None},
               Save(t, login.token, answer, TRUE, ReturnTo(requested, answer.user))
        PROVE  Kept
    BY <1>2, <2>1, <2>5, ReturnsHome, SaveKeeps
  <2>. QED
    BY <2>2, <2>3, <2>4, <2>5
<1>5. CASE CallbackReplaced(t)
  <2> DEFINE q == [tab[t] EXCEPT !.replaced = FALSE]
             new == [q EXCEPT !.place = "out"]
  <2>1. Alike(q, tab[t], tab[t].place)
    BY <1>0, Fields
  <2>2. Purge(t, new)
    BY <1>5 DEF CallbackReplaced
  <2> HIDE DEF q
  <2>3. Alike(new, q, "out")
    BY <2>1, Fields DEF Alike, Places
  <2> HIDE DEF new
  <2>4. Tidy(t, new)
    BY <2>1, <2>3 DEF Tidy, Alike
  <2>. QED
    BY <2>2, <2>4, PurgeKeeps
<1>. QED
  BY <1>3, <1>4, <1>5

\* Signing out, and closing the account.
LEMMA LogoutKeeps ==
  ASSUME TabsInv, NEW t \in Tabs,
         Logout(t) \/ ConfirmDeletion(t) \/ LogoutPurge(t) \/ LogoutRedirect(t)
  PROVE  Kept
<1>0. DocOK(tab[t])
  BY TabOK
<1>1. CASE Logout(t)
  <2> DEFINE q == SignedOut(Regenerated(Resequenced(tab[t])))
             r == [q EXCEPT !.loading = FALSE]
             doc == [r EXCEPT !.leaving = "purge"]
  <2>1. DocOK(q) /\ q.shown = NoAuth /\ q.place = tab[t].place
    BY <1>0, ResequencedOK, RegeneratedOK, SignedOutOK DEF Alike
  <2>2. Commit(t, NoStore, NoStore, doc)
    BY <1>1 DEF Logout
  <2> HIDE DEF q
  <2>3. Alike(r, q, q.place)
    BY <2>1, Fields
  <2> HIDE DEF r
  <2>4. Alike(doc, r, r.place)
    BY <2>3, Fields DEF Alike
  <2> HIDE DEF doc
  <2>5. StoreOK(NoStore)
    BY DEF StoreOK, NoStore, Stores
  <2>6. MayBecome(t, NoStore, NoStore, doc)
    BY <2>1, <2>3, <2>4 DEF MayBecome, Alike, NoAuth
  <2>. QED
    BY <2>2, <2>5, <2>6, CommitKeeps
<1>2. CASE ConfirmDeletion(t)
  <2> DEFINE doc == [tab[t] EXCEPT !.place = "out"]
  <2>1. Alike(doc, tab[t], "out")
    BY <1>0, Fields DEF Places
  <2>2. Purge(t, doc)
    BY <1>2 DEF ConfirmDeletion
  <2> HIDE DEF doc
  <2>3. Tidy(t, doc)
    BY <2>1 DEF Tidy, Alike
  <2>. QED
    BY <2>2, <2>3, PurgeKeeps
<1>3. ASSUME NEW leaving \in {"no", "redirect"},
             InDocument(t, [tab[t] EXCEPT !.leaving = leaving])
             \/ Purge(t, [tab[t] EXCEPT !.leaving = leaving])
      PROVE  Kept
  <2> DEFINE doc == [tab[t] EXCEPT !.leaving = leaving]
  <2>1. Alike(doc, tab[t], tab[t].place)
    BY <1>0, Fields
  <2> HIDE DEF doc
  <2>2. Tidy(t, doc)
    BY <2>1 DEF Tidy, Alike
  <2>. QED
    BY <1>3, <2>2, InDocumentKeeps, PurgeKeeps DEF doc
<1>4. CASE InDocument(t, Hidden(tab[t]))
  <2>1. Tidy(t, Hidden(tab[t]))
    BY <1>0, HiddenOK DEF Tidy
  <2>. QED
    BY <1>4, <2>1, InDocumentKeeps
<1>. QED
  BY <1>1, <1>2, <1>3, <1>4 DEF LogoutPurge, LogoutRedirect

-----------------------------------------------------------------------------
(* The whole *)

\* The bounds are kept, and the permissions at the server.
Counted ==
  /\ rights' \in [Users -> 0 .. MaxRights]
  /\ logins' \in 0 .. MaxLogins
  /\ turns' \in 0 .. MaxTurns

LEMMA StepCounted == ASSUME TabsInv, NEW t \in Tabs, Step(t) PROVE Counted
<1>1. \/ UNCHANGED <<rights, logins, turns>>
      \/ Turn /\ UNCHANGED rights
      \/ CountLogin
  BY DEF Step, OnStorage, OnInterval, OnFocus, OnPageHide, OnPageShow, Load, SyncAnswered,
         RefreshProfile, RefreshAnswered, LoginBusiness, LoginProvider, SubmitForm, LoginRedirect,
         LeaveForKeycloak, LoginCallback, LoginAnswered, CallbackAnswered, CallbackReplaced, Logout,
         ConfirmDeletion, LogoutPurge, LogoutRedirect
<1>2. CASE UNCHANGED <<rights, logins, turns>>
  BY <1>2 DEF TabsInv, Counted
<1>3. CASE Turn /\ UNCHANGED rights
  BY <1>3, BoundsAssumption DEF TabsInv, Counted, Turn
<1>4. CASE CountLogin
  BY <1>4, BoundsAssumption DEF TabsInv, Counted, CountLogin
<1>. QED
  BY <1>1, <1>2, <1>3, <1>4

LEMMA NothingMoves ==
  ASSUME TabsInv, UNCHANGED <<local, session, tab>>
  PROVE  Kept
BY DEF TabsInv, Kept, ShownStored, Landed

\* The tabs, opened on a session left by an earlier visit, confirm it first.
LEMMA InitTabsInv == Init => TabsInv
<1> SUFFICES ASSUME Init PROVE TabsInv
  OBVIOUS
<1>1. rights \in [Users -> 0 .. MaxRights] /\ logins \in 0 .. MaxLogins /\ turns \in 0 .. MaxTurns
  BY BoundsAssumption DEF Init
<1>2. StoreOK(NoStore)
  BY DEF StoreOK, NoStore, Stores
<1>3. StoreOK(local)
  <2>1. ASSUME NEW k \in Tokens PROVE StoreOK([token |-> k, profile |-> [user |-> Owner[k], rights |-> 0]])
    <3>1. Owner[k] \in Users /\ 0 \in 0 .. MaxRights /\ k # None
      BY OwnerAssumption, BoundsAssumption, NoneAssumption
    <3>2. [user |-> Owner[k], rights |-> 0] \in Profiles
      BY <3>1 DEF Profiles
    <3>. QED
      BY <3>1, <3>2 DEF StoreOK, Stores
  <2>. QED
    BY <1>2, <2>1 DEF Init
<1>4. session = [t \in Tabs |-> session[t]] /\ \A t \in Tabs : StoreOK(session[t])
  BY <1>2 DEF Init
<1>5. tab = [t \in Tabs |-> tab[t]]
  BY DEF Init
<1>6. ASSUME NEW t \in Tabs PROVE DocOK(tab[t])
  <2>1. tab[t] = Synchronized(t, Fresh("out"), FALSE)
    BY DEF Init
  <2>2. DocOK(Fresh("out"))
    BY FreshOK DEF Places
  <2>. QED
    BY <1>1, <1>3, <1>4, <2>1, <2>2, SynchronizedOK DEF StoresOK
<1>. QED
  BY <1>1, <1>3, <1>4, <1>5, <1>6 DEF TabsInv

\* Every step keeps the invariant, and what tabs show.
LEMMA NextTabsInv == TabsInv /\ [Next]_vars => TabsInv' /\ ShownStored /\ Landed
<1> SUFFICES ASSUME TabsInv, [Next]_vars PROVE TabsInv' /\ ShownStored /\ Landed
  OBVIOUS
<1>1. ASSUME Kept, Counted PROVE TabsInv' /\ ShownStored /\ Landed
  BY <1>1 DEF Kept, Counted, TabsInv
<1>2. ASSUME NEW t \in Tabs, Step(t) PROVE TabsInv' /\ ShownStored /\ Landed
  <2>1. Kept
    BY <1>2, BrowserKeeps, SyncKeeps, RefreshKeeps, SubmitKeeps, LeaveKeeps, LoginsKeep, LogoutKeeps
       DEF Step, LoginBusiness, LoginProvider
  <2>. QED
    BY <1>1, <1>2, <2>1, StepCounted
<1>3. ASSUME NEW u \in Users, ChangeRights(u) PROVE TabsInv' /\ ShownStored /\ Landed
  <2>1. rights[u] + 1 \in 0 .. MaxRights
    BY <1>3, BoundsAssumption DEF ChangeRights, TabsInv
  <2>2. turns' \in 0 .. MaxTurns /\ UNCHANGED logins
    BY <1>3, BoundsAssumption DEF ChangeRights, Turn, TabsInv
  <2>3. rights' \in [Users -> 0 .. MaxRights]
    BY <1>3, <2>1 DEF ChangeRights, TabsInv
  <2>4. Kept
    BY <1>3, NothingMoves DEF ChangeRights
  <2>. QED
    BY <1>1, <2>2, <2>3, <2>4 DEF Counted, TabsInv
<1>4. CASE UNCHANGED vars
  <2>1. Kept /\ Counted
    BY <1>4, NothingMoves DEF vars, Counted, TabsInv
  <2>. QED
    BY <1>1, <2>1
<1>. QED
  BY <1>2, <1>3, <1>4 DEF Next

\* The invariant the others follow from: every tab shows one user beside a token of
\* theirs, works with the same identity, and counts only reads of the token it works with.
THEOREM TabsCorrect == Spec => []TabsInv
<1>1. TabsInv /\ [Next]_vars => TabsInv'
  BY NextTabsInv
<1>. QED
  BY InitTabsInv, <1>1, PTL DEF Spec

\* UserAuthContext.tsx: however storage events, slow answers and sign-ins of other tabs
\* fall together, a token shown or stored never stands beside another user's profile.
THEOREM SessionsCorrect == Spec => []SessionInv
<1>1. TabsInv => SessionInv
  <2> SUFFICES ASSUME TabsInv PROVE SessionInv
    OBVIOUS
  <2>1. local \in Stores /\ session \in [Tabs -> Stores] /\ tab \in [Tabs -> Held]
    BY DEF TabsInv, StoreOK, DocOK
  <2>2. ShownMatchesToken
    BY DEF TabsInv, DocOK, ShownOK, ShownMatchesToken
  <2>3. ProfileBesideToken
    BY DEF TabsInv, StoreOK, ProfileBesideToken
  <2>. QED
    BY <2>1, <2>2, <2>3 DEF SessionInv, TypeOK, TabsInv
<1>. QED
  BY <1>1, TabsCorrect, PTL

\* synchronize, refreshProfile, _saveSession: a tab that starts to show a token shows the
\* one stored at that moment, so a late answer never brings an old session back.
THEOREM ShownIsStored == Spec => ShowsWhatIsStored
<1>1. TabsInv /\ [Next]_vars =>
        [\A t \in Tabs : tab'[t].shown.token \notin {None, tab[t].shown.token} =>
           tab'[t].shown.token = Stored(t)']_vars
  BY NextTabsInv DEF ShownStored
<1>. QED
  BY <1>1, TabsCorrect, PTL DEF Spec, ShowsWhatIsStored

\* resolvePostLoginReturnTo and the forms of the portals: nobody lands in another portal.
THEOREM LandsAtHome == Spec => LandsInOwnPortal
<1>1. TabsInv /\ [Next]_vars =>
        [\A t \in Tabs : tab'[t].shown.token # None /\ tab'[t].place # tab[t].place
           /\ tab'[t].place \in {"business", "provider"} =>
             Portal[tab'[t].shown.user.user] = tab'[t].place]_vars
  BY NextTabsInv DEF Landed
<1>. QED
  BY <1>1, TabsCorrect, PTL DEF Spec, LandsInOwnPortal

-----------------------------------------------------------------------------
(* A newer session is kept *)

\* A callback that is exchanging its code is on its page, and no session has replaced it.
CallbackOK(doc) ==
  doc.login # None /\ doc.login.kind = "callback" => doc.place = "callback" /\ ~doc.replaced
CallbacksOK == \A t \in Tabs : CallbackOK(tab[t])

\* A document at the place of another, with its sign-in or none.
Signs(new, doc) ==
  /\ new.login \in {doc.login, None} /\ new.place = doc.place
  /\ new.login # None => new.replaced = doc.replaced

LEMMA SignsOK == ASSUME NEW doc, CallbackOK(doc), NEW new, Signs(new, doc) PROVE CallbackOK(new)
BY DEF CallbackOK, Signs

LEMMA OperatorsSign ==
  ASSUME NEW doc \in Held
  PROVE  /\ Signs(Regenerated(doc), doc) /\ Regenerated(doc) \in Held
         /\ Signs(Resequenced(doc), doc) /\ Resequenced(doc) \in Held
         /\ Resequenced(doc).login = None
         /\ Signs(SignedOut(doc), doc) /\ SignedOut(doc) \in Held
         /\ Hidden(doc).login = None
<1>1. NoAuth \in Auths
  BY DEF NoAuth, Auths
<1>2. Regenerated(doc) \in Held /\ Signs(Regenerated(doc), doc)
  BY DEF Regenerated, Held, Signs
<1>3. Resequenced(doc) \in Held /\ Signs(Resequenced(doc), doc) /\ Resequenced(doc).login = None
  BY DEF Resequenced, Held, Signs
<1>4. \A d \in Held : SignedOut(d) \in Held /\ Signs(SignedOut(d), d) /\ SignedOut(d).login = d.login
  BY <1>1 DEF SignedOut, Held, Signs
<1>5. \A d \in Held : Regenerated(d) \in Held /\ Regenerated(d).login = d.login
  BY DEF Regenerated, Held
<1>6. \A d \in Held : [d EXCEPT !.open = FALSE, !.loading = TRUE].login = d.login
  BY DEF Held
<1>. QED
  BY <1>2, <1>3, <1>4, <1>5, <1>6 DEF Hidden

LEMMA SynchronizedSigns ==
  ASSUME NEW t \in Tabs, NEW doc \in Held, NEW force \in BOOLEAN
  PROVE  Signs(Synchronized(t, doc, force), doc)
<1> DEFINE stored == Stored(t)
           new == Synchronized(t, doc, force)
           turned == IF stored # doc.active.token THEN Resequenced(doc) ELSE doc
           read == [kind |-> "sync", token |-> stored, since |-> rights[Owner[stored]]]
           asked == [turned EXCEPT !.read = read]
<1>1. \A d \in Held : [d EXCEPT !.loading = FALSE].login = d.login
                      /\ [d EXCEPT !.loading = FALSE].place = d.place
                      /\ [d EXCEPT !.loading = FALSE].replaced = d.replaced
  BY DEF Held
<1>2. CASE stored = None
  <2> DEFINE q == IF doc.active.token # None THEN Resequenced(doc) ELSE doc
             r == SignedOut(Regenerated(q))
  <2>0. Signs(doc, doc)
    BY DEF Signs
  <2>1. q \in Held /\ Signs(q, doc)
    BY <2>0, OperatorsSign
  <2>2. new = [r EXCEPT !.loading = FALSE]
    BY <1>2 DEF Synchronized
  <2> HIDE DEF q
  <2>3. r \in Held /\ Signs(r, doc)
    BY <2>1, OperatorsSign DEF Signs
  <2> HIDE DEF r, new
  <2>. QED
    BY <1>1, <2>2, <2>3 DEF Signs, new
<1>3. CASE stored # None /\ new = doc
  BY <1>3 DEF Signs
<1>4. CASE stored # None /\ new # doc
  <2>0. Signs(doc, doc)
    BY DEF Signs
  <2>1. turned \in Held /\ Signs(turned, doc)
    BY <2>0, OperatorsSign
  <2>2. \/ new = [asked EXCEPT !.active.token = stored]
        \/ new = [asked EXCEPT !.active = [token |-> stored, user |-> None],
                               !.shown = NoAuth, !.loading = TRUE]
    BY <1>4 DEF Synchronized
  <2> HIDE DEF turned, read, new
  <2>3. new.login = turned.login /\ new.place = turned.place /\ new.replaced = turned.replaced
    BY <2>1, <2>2 DEF Held
  <2>. QED
    BY <2>1, <2>3 DEF Signs, new
<1>. QED
  BY <1>2, <1>3, <1>4

\* What excuses a tab that turns into doc for taking the stored token away.
Excused(t, doc) ==
  \/ tab[t].active.token = local.token
  \/ doc.leaving = "purge" \/ doc.sso = "asked"
  \/ tab[t].place \in {"callback", "deletion"}
  \/ tab[t].login # None /\ doc.shown.token = tab[t].login.token

\* A step keeps the callbacks in order, and takes a stored token away only if excused.
Spares ==
  /\ CallbacksOK'
  /\ local.token # None /\ local'.token = None => \E t \in Tabs : Excused(t, tab'[t])

LEMMA CommitSpares ==
  ASSUME TabsInv, CallbacksOK, NEW t \in Tabs, NEW l, NEW s, NEW doc, CallbackOK(doc),
         local.token # None /\ l.token = None => Excused(t, doc), Commit(t, l, s, doc)
  PROVE  Spares
<1>1. tab'[t] = doc /\ local' = l
  BY DEF Commit
<1>2. ASSUME NEW u \in Tabs, u # t PROVE CallbackOK(tab'[u])
  <2>1. tab[u] \in Held /\ CallbackOK(tab[u])
    BY DEF TabsInv, DocOK, CallbacksOK
  <2>2. \/ tab'[u] = tab[u]
        \/ tab'[u] = [tab[u] EXCEPT !.events = @ \cup {k \in {"token", "profile"} : l[k] # local[k]}]
    BY <1>2 DEF Commit
  <2>. QED
    BY <2>1, <2>2 DEF Held, CallbackOK
<1>. QED
  BY <1>1, <1>2 DEF Spares, CallbacksOK

LEMMA InDocumentSpares ==
  ASSUME TabsInv, CallbacksOK, NEW t \in Tabs, NEW doc, CallbackOK(doc), InDocument(t, doc)
  PROVE  Spares
<1>1. local' = local /\ \A u \in Tabs : tab'[u] = IF u = t THEN doc ELSE tab[u]
  BY DEF InDocument, TabsInv
<1>. QED
  BY <1>1 DEF Spares, CallbacksOK

LEMMA PurgeSpares ==
  ASSUME TabsInv, CallbacksOK, NEW t \in Tabs, NEW doc \in Held, CallbackOK(doc),
         local.token # None => Excused(t, doc), Purge(t, doc)
  PROVE  Spares
<1> DEFINE new == [doc EXCEPT !.events = @ \cup {"session"}]
<1>1. Commit(t, NoStore, NoStore, new)
  BY DEF Purge
<1>2. /\ new.leaving = doc.leaving /\ new.sso = doc.sso /\ new.shown = doc.shown
      /\ CallbackOK(new)
  BY DEF Held, CallbackOK
<1> HIDE DEF new
<1>3. local.token # None => Excused(t, new)
  BY <1>2 DEF Excused
<1>. QED
  BY <1>1, <1>2, <1>3, CommitSpares

LEMMA WithProfileSpares ==
  ASSUME TabsInv, CallbacksOK, NEW t \in Tabs, NEW token, NEW profile, NEW doc, CallbackOK(doc),
         WithProfile(t, token, profile, doc)
  PROVE  Spares
<1>1. local \in Stores /\ [local EXCEPT !.profile = profile].token = local.token
  BY DEF TabsInv, StoreOK, Stores
<1>. QED
  BY <1>1, CommitSpares DEF WithProfile

\* Events, timers and the browser's comings and goings.
LEMMA BrowserSpares ==
  ASSUME TabsInv, CallbacksOK, NEW t \in Tabs,
         OnStorage(t) \/ OnInterval(t) \/ OnFocus(t) \/ OnPageHide(t) \/ OnPageShow(t) \/ Load(t)
  PROVE  Spares
<1>0. tab[t] \in Held /\ CallbackOK(tab[t])
  BY DEF TabsInv, DocOK, CallbacksOK
<1>1. ASSUME NEW doc \in Held, CallbackOK(doc), NEW force \in BOOLEAN,
             InDocument(t, Synchronized(t, doc, force))
      PROVE  Spares
  BY <1>1, SynchronizedSigns, SignsOK, InDocumentSpares
<1>2. CASE OnStorage(t)
  <2>1. PICK k \in tab[t].events :
          InDocument(t, Synchronized(t, [tab[t] EXCEPT !.events = @ \ {k}], k = "profile"))
    BY <1>2 DEF OnStorage
  <2> DEFINE doc == [tab[t] EXCEPT !.events = @ \ {k}]
  <2>2. doc \in Held /\ CallbackOK(doc)
    BY <1>0 DEF Held, CallbackOK
  <2>. QED
    BY <1>1, <2>1, <2>2
<1>3. CASE OnInterval(t) \/ OnFocus(t)
  BY <1>0, <1>1, <1>3 DEF OnInterval, OnFocus
<1>4. CASE OnPageHide(t)
  <2>1. Hidden(tab[t]).login = None /\ Hidden(tab[t]) \in Held
    BY <1>0, OperatorsSign, HiddenOK DEF TabsInv, DocOK
  <2>2. CallbackOK([Hidden(tab[t]) EXCEPT !.sso = "no"])
    BY <2>1 DEF Held, CallbackOK
  <2>. QED
    BY <1>4, <2>2, InDocumentSpares DEF OnPageHide
<1>5. CASE OnPageShow(t)
  <2> DEFINE doc == [tab[t] EXCEPT !.open = TRUE, !.sso = "no"]
  <2>1. doc \in Held /\ CallbackOK(doc)
    BY <1>0 DEF Held, CallbackOK
  <2>. QED
    BY <1>1, <1>5, <2>1 DEF OnPageShow
<1>6. CASE Load(t)
  <2>1. PICK place \in {"out", "deletion", "callback"} :
          InDocument(t, Synchronized(t, Fresh(place), FALSE))
    BY <1>6 DEF Load
  <2>2. Fresh(place) \in Held /\ CallbackOK(Fresh(place))
    BY FreshOK DEF Places, DocOK, Fresh, CallbackOK
  <2>. QED
    BY <1>1, <2>1, <2>2
<1>. QED
  BY <1>2, <1>3, <1>4, <1>5, <1>6

\* The answers to reads: a refusal only empties the storages of the token it was read for.
LEMMA ReadsSpare ==
  ASSUME TabsInv, CallbacksOK, NEW t \in Tabs,
         SyncAnswered(t) \/ RefreshProfile(t) \/ RefreshAnswered(t)
  PROVE  Spares
<1> DEFINE read == tab[t].read
           doc == Regenerated(tab[t])
<1>0. tab[t] \in Held /\ CallbackOK(tab[t]) /\ ReadOK(tab[t])
  BY DEF TabsInv, DocOK, CallbacksOK
<1>1. doc \in Held /\ CallbackOK(doc)
  BY <1>0, OperatorsSign, SignsOK
<1> HIDE DEF doc
<1>2. CASE SyncAnswered(t)
  <2> DEFINE done == [doc EXCEPT !.loading = FALSE]
  <2>1. done \in Held /\ CallbackOK(done)
    BY <1>1 DEF Held, CallbackOK
  <2>2. \/ InDocument(t, done)
        \/ /\ Stored(t) = read.token /\ read # None
           /\ Purge(t, SignedOut(done))
        \/ \E answer \in Answers(read) :
             LET auth == [token |-> read.token, user |-> answer]
             IN WithProfile(t, read.token, answer, [done EXCEPT !.active = auth, !.shown = auth])
    BY <1>2 DEF SyncAnswered, doc
  <2> HIDE DEF done
  <2>3. CASE Stored(t) = read.token /\ read # None /\ Purge(t, SignedOut(done))
    <3>1. SignedOut(done) \in Held /\ CallbackOK(SignedOut(done))
      BY <2>1, OperatorsSign, SignsOK
    <3>2. local.token # None => tab[t].active.token = local.token
      BY <1>0, <2>3 DEF ReadOK, Stored
    <3>. QED
      BY <2>3, <3>1, <3>2, PurgeSpares DEF Excused
  <2>4. ASSUME NEW answer \in Answers(read), NEW auth,
               WithProfile(t, read.token, answer, [done EXCEPT !.active = auth, !.shown = auth])
        PROVE  Spares
    <3>1. CallbackOK([done EXCEPT !.active = auth, !.shown = auth])
      BY <2>1 DEF Held, CallbackOK
    <3>. QED
      BY <2>4, <3>1, WithProfileSpares
  <2>. QED
    BY <2>1, <2>2, <2>3, <2>4, InDocumentSpares
<1>3. CASE RefreshProfile(t)
  <2>1. PICK x : InDocument(t, [tab[t] EXCEPT !.read = x])
    BY <1>3 DEF RefreshProfile
  <2>2. CallbackOK([tab[t] EXCEPT !.read = x])
    BY <1>0 DEF Held, CallbackOK
  <2>. QED
    BY <2>1, <2>2, InDocumentSpares
<1>4. CASE RefreshAnswered(t)
  <2>1. \/ InDocument(t, doc)
        \/ \E answer \in Answers(read) :
             WithProfile(t, read.token, answer,
               [doc EXCEPT !.active.user = answer, !.shown.user = answer])
    BY <1>4 DEF RefreshAnswered, doc
  <2>2. ASSUME NEW answer \in Answers(read),
               WithProfile(t, read.token, answer,
                 [doc EXCEPT !.active.user = answer, !.shown.user = answer])
        PROVE  Spares
    <3>1. CallbackOK([doc EXCEPT !.active.user = answer, !.shown.user = answer])
      BY <1>1 DEF Held, CallbackOK
    <3>. QED
      BY <2>2, <3>1, WithProfileSpares
  <2>. QED
    BY <1>1, <2>1, <2>2, InDocumentSpares
<1>. QED
  BY <1>2, <1>3, <1>4

\* A new session takes the place of the one stored, or of one it is not to outlive.
LEMMA SaveSpares ==
  ASSUME TabsInv, CallbacksOK, NEW t \in Tabs, NEW token \in Tokens, NEW profile,
         NEW remember \in BOOLEAN, NEW place, Save(t, token, profile, remember, place),
         remember \/ (tab[t].login # None /\ tab[t].login.token = token)
  PROVE  Spares
<1> DEFINE kept == [token |-> token, profile |-> profile]
           auth == [token |-> token, user |-> profile]
           q == Regenerated(tab[t])
           doc == [q EXCEPT !.login = None, !.loading = FALSE, !.place = place,
                            !.active = auth, !.shown = auth]
<1>1. token # None /\ kept.token = token /\ auth.token = token
  BY NoneAssumption
<1>2. IF remember THEN Commit(t, kept, NoStore, doc) ELSE Commit(t, NoStore, kept, doc)
  BY DEF Save
<1>3. q \in Held
  BY OperatorsSign DEF TabsInv, DocOK
<1> HIDE DEF q, auth, kept
<1>4. doc.login = None /\ doc.shown = auth
  BY <1>3 DEF Held
<1> HIDE DEF doc
<1>5. CallbackOK(doc)
  BY <1>4 DEF CallbackOK
<1>6. CASE remember
  BY <1>1, <1>2, <1>5, <1>6, CommitSpares
<1>7. CASE ~remember
  <2>1. Excused(t, doc)
    BY <1>1, <1>4, <1>7 DEF Excused
  <2>. QED
    BY <1>2, <1>5, <1>7, <2>1, CommitSpares
<1>. QED
  BY <1>6, <1>7

\* Sign-ins that start, and leave the browser's document.
LEMMA StartsSpare ==
  ASSUME TabsInv, CallbacksOK, NEW t \in Tabs,
         LoginBusiness(t) \/ LoginProvider(t) \/ LoginRedirect(t) \/ LeaveForKeycloak(t)
           \/ LoginCallback(t)
  PROVE  Spares
<1>0. tab[t] \in Held /\ CallbackOK(tab[t])
  BY DEF TabsInv, DocOK, CallbacksOK
<1>1. ASSUME NEW login, StartLogin(t, login),
             login.kind # "callback"
               \/ (tab[t].place = "callback" /\ tab[t].login = None /\ ~tab[t].replaced)
      PROVE  Spares
  <2> DEFINE r == Resequenced(tab[t])
             q == Regenerated(r)
             doc == [q EXCEPT !.login = login]
  <2>1. r \in Held /\ r.place = tab[t].place /\ (tab[t].login = None => r.replaced = tab[t].replaced)
    BY <1>0 DEF Resequenced, Held
  <2>2. q \in Held /\ q.place = r.place /\ q.replaced = r.replaced
    BY <2>1 DEF Regenerated, Held
  <2>3. InDocument(t, doc)
    BY <1>1 DEF StartLogin
  <2> HIDE DEF q, r
  <2>4. doc.login = login /\ doc.place = q.place /\ doc.replaced = q.replaced
    BY <2>2 DEF Held
  <2> HIDE DEF doc
  <2>5. CallbackOK(doc)
    BY <1>1, <2>1, <2>2, <2>4 DEF CallbackOK
  <2>. QED
    BY <2>3, <2>5, InDocumentSpares
<1>2. CASE LoginBusiness(t) \/ LoginProvider(t)
  <2>1. PICK portal \in {"business", "provider"}, token \in Tokens, remember \in BOOLEAN :
          StartLogin(t, [kind |-> portal, token |-> token, remember |-> remember,
                         since |-> rights[Owner[token]]])
    BY <1>2 DEF LoginBusiness, LoginProvider, SubmitForm
  <2>. QED
    BY <1>1, <2>1
<1>3. CASE LoginRedirect(t)
  <2> DEFINE doc == [tab[t] EXCEPT !.sso = "asked"]
  <2>1. doc \in Held /\ CallbackOK(doc) /\ doc.sso = "asked"
    BY <1>0 DEF Held, CallbackOK
  <2>2. Purge(t, doc)
    BY <1>3 DEF LoginRedirect
  <2> HIDE DEF doc
  <2>. QED
    BY <2>1, <2>2, PurgeSpares DEF Excused
<1>4. CASE LeaveForKeycloak(t)
  <2>1. Hidden(tab[t]).login = None /\ Hidden(tab[t]) \in Held
    BY <1>0, OperatorsSign, HiddenOK DEF TabsInv, DocOK
  <2>2. CallbackOK([Hidden(tab[t]) EXCEPT !.sso = "away"])
    BY <2>1 DEF Held, CallbackOK
  <2>. QED
    BY <1>4, <2>2, InDocumentSpares DEF LeaveForKeycloak
<1>5. CASE LoginCallback(t)
  <2> DEFINE doc == [tab[t] EXCEPT !.place = "out"]
  <2>1. tab[t].place = "callback" /\ tab[t].login = None /\ ~tab[t].replaced
    BY <1>5 DEF LoginCallback
  <2>2. \/ Purge(t, doc)
        \/ \E login : StartLogin(t, login)
    BY <1>5 DEF LoginCallback
  <2>3. doc \in Held /\ CallbackOK(doc)
    BY <1>0, <2>1 DEF Held, CallbackOK, Places
  <2> HIDE DEF doc
  <2>4. CASE Purge(t, doc)
    BY <2>1, <2>3, <2>4, PurgeSpares DEF Excused
  <2>. QED
    BY <1>1, <2>1, <2>2, <2>4
<1>. QED
  BY <1>2, <1>3, <1>4, <1>5

\* The answers to sign-ins.
LEMMA LoginsSpare ==
  ASSUME TabsInv, CallbacksOK, NEW t \in Tabs,
         LoginAnswered(t) \/ CallbackAnswered(t) \/ CallbackReplaced(t)
  PROVE  Spares
<1> DEFINE login == tab[t].login
           doc == [tab[t] EXCEPT !.login = None]
<1>0. tab[t] \in Held /\ CallbackOK(tab[t]) /\ login \in Logins \cup {None}
  BY DEF TabsInv, DocOK, CallbacksOK, Held
<1>1. doc \in Held /\ doc.login = None /\ CallbackOK(doc)
  BY <1>0 DEF Held, CallbackOK
<1>2. login # None => login.token \in Tokens /\ login.remember \in BOOLEAN
  BY <1>0 DEF Logins
<1>3. CASE LoginAnswered(t)
  <2>1. login # None
    BY <1>3 DEF LoginAnswered
  <2>2. \/ \E answer : Save(t, login.token, answer, login.remember, login.kind)
        \/ InDocument(t, doc)
    BY <1>3 DEF LoginAnswered
  <2> HIDE DEF doc
  <2>. QED
    BY <1>1, <1>2, <2>1, <2>2, SaveSpares, InDocumentSpares
<1>4. CASE CallbackAnswered(t)
  <2> DEFINE out == [doc EXCEPT !.place = "out"]
             q == SignedOut(Regenerated(doc))
             gone == [q EXCEPT !.place = "out"]
  <2>1. login # None /\ tab[t].place = "callback"
    BY <1>0, <1>4 DEF CallbackAnswered, CallbackOK
  <2>2. \/ Purge(t, out) \/ Purge(t, gone)
        \/ \E answer, place : Save(t, login.token, answer, TRUE, place)
    BY <1>4 DEF CallbackAnswered
  <2> HIDE DEF doc
  <2>3. out \in Held /\ CallbackOK(out)
    BY <1>1 DEF Held, CallbackOK, Places
  <2>4. q \in Held /\ q.login = None
    BY <1>1, OperatorsSign DEF Signs
  <2> HIDE DEF q
  <2>5. gone \in Held /\ CallbackOK(gone)
    BY <2>4 DEF Held, CallbackOK, Places
  <2> HIDE DEF out, gone
  <2>6. CASE Purge(t, out)
    BY <2>1, <2>3, <2>6, PurgeSpares DEF Excused
  <2>7. CASE Purge(t, gone)
    BY <2>1, <2>5, <2>7, PurgeSpares DEF Excused
  <2>. QED
    BY <1>2, <2>1, <2>2, <2>6, <2>7, SaveSpares
<1>5. CASE CallbackReplaced(t)
  <2> DEFINE new == [tab[t] EXCEPT !.replaced = FALSE, !.place = "out"]
  <2>1. tab[t].place = "callback" /\ tab[t].replaced /\ Purge(t, new)
    BY <1>5 DEF CallbackReplaced
  <2>2. new \in Held /\ CallbackOK(new)
    BY <1>0, <2>1 DEF Held, CallbackOK, Places
  <2> HIDE DEF new
  <2>. QED
    BY <2>1, <2>2, PurgeSpares DEF Excused
<1>. QED
  BY <1>3, <1>4, <1>5

\* Signing out, and closing the account: what follows the import finds no token, or stops.
LEMMA LogoutSpares ==
  ASSUME TabsInv, CallbacksOK, NEW t \in Tabs,
         Logout(t) \/ ConfirmDeletion(t) \/ LogoutPurge(t) \/ LogoutRedirect(t)
  PROVE  Spares
<1>0. tab[t] \in Held /\ CallbackOK(tab[t])
  BY DEF TabsInv, DocOK, CallbacksOK
<1>1. CASE Logout(t)
  <2> DEFINE r == Resequenced(tab[t])
             q == SignedOut(Regenerated(r))
             doc == [q EXCEPT !.loading = FALSE, !.leaving = "purge"]
  <2>1. r \in Held /\ r.login = None
    BY <1>0, OperatorsSign
  <2> HIDE DEF r
  <2>2. q \in Held /\ q.login = None
    BY <2>1, OperatorsSign DEF Signs
  <2>3. Commit(t, NoStore, NoStore, doc)
    BY <1>1 DEF Logout, r
  <2> HIDE DEF q
  <2>4. CallbackOK(doc) /\ doc.leaving = "purge"
    BY <2>2 DEF Held, CallbackOK
  <2> HIDE DEF doc
  <2>. QED
    BY <2>3, <2>4, CommitSpares DEF Excused
<1>2. CASE ConfirmDeletion(t)
  <2> DEFINE doc == [tab[t] EXCEPT !.place = "out"]
  <2>1. tab[t].place = "deletion" /\ Purge(t, doc)
    BY <1>2 DEF ConfirmDeletion
  <2>2. doc \in Held /\ CallbackOK(doc)
    BY <1>0, <2>1 DEF Held, CallbackOK, Places
  <2> HIDE DEF doc
  <2>. QED
    BY <2>1, <2>2, PurgeSpares DEF Excused
<1>3. \A x \in {"no", "redirect"} : LET doc == [tab[t] EXCEPT !.leaving = x]
                                    IN doc \in Held /\ CallbackOK(doc)
  BY <1>0 DEF Held, CallbackOK
<1>4. CASE LogoutPurge(t)
  <2>1. \/ InDocument(t, [tab[t] EXCEPT !.leaving = "no"])
        \/ Stored(t) = None /\ Purge(t, [tab[t] EXCEPT !.leaving = "redirect"])
    BY <1>4 DEF LogoutPurge
  <2>2. Stored(t) = None => local.token = None
    BY DEF Stored
  <2>. QED
    BY <1>3, <2>1, <2>2, InDocumentSpares, PurgeSpares
<1>5. CASE LogoutRedirect(t)
  <2>1. CallbackOK(Hidden(tab[t]))
    BY <1>0, OperatorsSign DEF CallbackOK
  <2>. QED
    BY <1>3, <1>5, <2>1, InDocumentSpares DEF LogoutRedirect
<1>. QED
  BY <1>1, <1>2, <1>4, <1>5

LEMMA NextSpares == TabsInv /\ CallbacksOK /\ [Next]_vars => Spares
<1> SUFFICES ASSUME TabsInv, CallbacksOK, [Next]_vars PROVE Spares
  OBVIOUS
<1>1. ASSUME NEW t \in Tabs, Step(t) PROVE Spares
  BY <1>1, BrowserSpares, ReadsSpare, StartsSpare, LoginsSpare, LogoutSpares DEF Step
<1>2. CASE UNCHANGED <<local, session, tab>>
  BY <1>2 DEF Spares, CallbacksOK
<1>. QED
  BY <1>1, <1>2 DEF Next, ChangeRights, vars

LEMMA InitCallbacksOK == Init => CallbacksOK
<1> SUFFICES ASSUME Init, NEW t \in Tabs PROVE CallbackOK(tab[t])
  BY DEF CallbacksOK
<1>1. Fresh("out") \in Held /\ CallbackOK(Fresh("out"))
  BY FreshOK DEF Places, DocOK, Fresh, CallbackOK
<1>2. tab[t] = Synchronized(t, Fresh("out"), FALSE)
  BY DEF Init
<1>. QED
  BY <1>1, <1>2, SynchronizedSigns, SignsOK

\* logout, synchronize, loginViaKeycloak: apart from what a user asks for and a callback that
\* fails, only a tab that had taken a token up removes it: late answers erase no newer session.
THEOREM NewerSessionsStay == Spec => NewerSessionKept
<1>1. TabsInv /\ CallbacksOK /\ [Next]_vars => CallbacksOK'
  BY NextSpares DEF Spares
<1>2. TabsInv /\ CallbacksOK /\ [Next]_vars =>
        [local.token # None /\ local'.token = None =>
           \E t \in Tabs : \/ tab[t].active.token = local.token
                           \/ tab'[t].leaving = "purge" \/ tab'[t].sso = "asked"
                           \/ tab[t].place \in {"callback", "deletion"}
                           \/ tab[t].login # None /\ tab'[t].shown.token = tab[t].login.token]_vars
  BY NextSpares DEF Spares, Excused
<1>. QED
  BY InitCallbacksOK, <1>1, <1>2, TabsCorrect, PTL DEF Spec, NewerSessionKept
=============================================================================
