---------------------------- MODULE WebSession ----------------------------
(***************************************************************************)
(* The signed-in session of the AMINRA web client: the tabs of one browser,*)
(* the application token in the storage they share (localStorage) or keep  *)
(* for themselves (sessionStorage), the reads of /auth/me that confirm a   *)
(* token, and the sign-ins and sign-outs of each tab.  A handler runs to   *)
(* its next await in one step; what is awaited comes back in another.      *)
(*                                                                         *)
(* A read carries the generation it was started in and is ignored once the *)
(* generation moves on: the model keeps the one read that still counts.  A *)
(* sign-in and the end of a sign-out carry the login sequence in the same  *)
(* way.                                                                    *)
(***************************************************************************)
EXTENDS Naturals, FiniteSets

CONSTANTS Tabs, Users, Tokens,
          None,
          Owner,       \* the user whose sub and e-mail the token's claims carry
          Roles,       \* the realm roles in the token's claims
          Portal,      \* the portal of a user: "business", "provider", "admin"
          MaxLogins,   \* bound: sign-ins started
          MaxTurns,    \* bound: times a tab is focused, left or refreshed, or permissions change
          MaxRights    \* bound: changes of a user's permissions

ASSUME OwnerAssumption == Owner \in [Tokens -> Users]
ASSUME PortalAssumption == Portal \in [Users -> {"business", "provider", "admin"}]
ASSUME NoneAssumption == None \notin Users \cup Tokens
ASSUME BoundsAssumption == {MaxLogins, MaxTurns, MaxRights} \subseteq Nat

VARIABLES local,     \* localStorage: the token and the profile beside it
          session,   \* the sessionStorage of each tab
          tab,       \* what each tab's document holds
          rights,    \* server: the permissions of each user, as a version
          logins, turns
vars == <<local, session, tab, rights, logins, turns>>

Profiles == [user : Users, rights : 0 .. MaxRights]
NoStore == [token |-> None, profile |-> None]
NoAuth == [token |-> None, user |-> None]
Places == {"out", "callback", "deletion", "business", "provider", "admin"}

Stores == [token : Tokens \cup {None}, profile : Profiles \cup {None}]
Auths == [token : Tokens \cup {None}, user : Profiles \cup {None}]
Reads == [kind : {"sync", "refresh"}, token : Tokens, since : 0 .. MaxRights]
Logins == [kind : {"business", "provider", "callback"}, token : Tokens, remember : BOOLEAN,
           since : 0 .. MaxRights]

ASSUME NothingAssumption == None \notin Profiles \cup Reads \cup Logins

Held == [open : BOOLEAN, place : Places, shown : Auths, active : Auths, loading : BOOLEAN,
         read : Reads \cup {None}, login : Logins \cup {None},
         leaving : {"no", "purge", "redirect"}, sso : {"no", "asked", "away"}, replaced : BOOLEAN,
         events : SUBSET {"token", "profile", "session"}]

TypeOK ==
  /\ local \in Stores
  /\ session \in [Tabs -> Stores]
  /\ tab \in [Tabs -> Held]
  /\ rights \in [Users -> 0 .. MaxRights]
  /\ logins \in 0 .. MaxLogins
  /\ turns \in 0 .. MaxTurns

-----------------------------------------------------------------------------
(* Storage *)

\* readApplicationToken: localStorage first, then this tab's own storage.
Stored(t) == IF local.token # None THEN local.token ELSE session[t].token

\* A tab writes both storages and its own document; the other tabs hear of the
\* keys of localStorage whose value changed.
Commit(t, l, s, doc) ==
  /\ local' = l
  /\ session' = [session EXCEPT ![t] = s]
  /\ tab' = [u \in Tabs |->
       IF u = t THEN doc
       ELSE IF tab[u].open
            THEN [tab[u] EXCEPT !.events = @ \cup {k \in {"token", "profile"} : l[k] # local[k]}]
            ELSE tab[u]]

\* removeKeys on both storages; the notification comes after the caches are gone.
Purge(t, doc) == Commit(t, NoStore, NoStore, [doc EXCEPT !.events = @ \cup {"session"}])

InDocument(t, doc) == tab' = [tab EXCEPT ![t] = doc] /\ UNCHANGED <<local, session>>

-----------------------------------------------------------------------------
(* What a document does to itself *)

\* generation.current += 1: whatever read was under way no longer counts.
Regenerated(doc) == [doc EXCEPT !.read = None]

\* loginSequence.current += 1: a sign-in under way will find itself replaced,
\* the end of a sign-out will stop.
Resequenced(doc) ==
  [doc EXCEPT !.login = None, !.leaving = "no",
              !.replaced = @ \/ (doc.login # None /\ doc.login.kind = "callback")]

SignedOut(doc) == [doc EXCEPT !.active = NoAuth, !.shown = NoAuth]

\* The stored token carries the identity and the roles already shown.
SameIdentity(doc, token) ==
  /\ doc.active.user # None
  /\ Owner[token] = doc.active.user.user
  /\ Roles[token] = Roles[doc.active.token]

\* Mutant: any profile will do.
MatchesAnything(token, profile) == profile # None

\* assertKeycloakIdentityMatchesProfile
Matches(token, profile) == profile # None /\ profile.user = Owner[token]

\* synchronize(force) up to its fetch.
Synchronized(t, doc, force) ==
  LET stored == Stored(t)
      turned == IF stored # doc.active.token THEN Resequenced(doc) ELSE doc
  IN IF stored = None
     THEN [SignedOut(Regenerated(IF doc.active.token # None THEN Resequenced(doc) ELSE doc))
             EXCEPT !.loading = FALSE]
     ELSE IF ~force /\ stored = doc.active.token THEN doc
     ELSE LET asked == [turned EXCEPT !.read = [kind |-> "sync", token |-> stored,
                                                      since |-> rights[Owner[stored]]]]
          IN IF SameIdentity(doc, stored)
             THEN [asked EXCEPT !.active.token = stored]
             ELSE [asked EXCEPT !.active = [token |-> stored, user |-> None],
                                !.shown = NoAuth, !.loading = TRUE]

\* pagehide: everything under way stops counting before the browser cancels it.
Hidden(doc) ==
  [SignedOut(Regenerated(Resequenced(doc))) EXCEPT !.open = FALSE, !.loading = TRUE]

\* The document as the browser builds it, before its first synchronize().
Fresh(place) ==
  [open |-> TRUE, place |-> place, shown |-> NoAuth, active |-> NoAuth, loading |-> TRUE,
   read |-> None, login |-> None, leaving |-> "no", sso |-> "no", replaced |-> FALSE, events |-> {}]

\* The tabs are opened on what an earlier visit left in localStorage.
Init ==
  /\ rights = [u \in Users |-> 0]
  /\ local \in {NoStore} \cup
       {[token |-> k, profile |-> [user |-> Owner[k], rights |-> 0]] : k \in Tokens}
  /\ session = [t \in Tabs |-> NoStore]
  /\ tab = [t \in Tabs |-> Synchronized(t, Fresh("out"), FALSE)]
  /\ logins = 0 /\ turns = 0

-----------------------------------------------------------------------------
(* Synchronisation with the storage *)

\* A storage event of another tab or the session event of this one.
OnStorage(t) ==
  \E k \in tab[t].events :
    LET doc == [tab[t] EXCEPT !.events = @ \ {k}]
    IN /\ tab[t].open
       /\ InDocument(t, Synchronized(t, doc, k = "profile"))
       /\ UNCHANGED <<rights, logins, turns>>

\* Mutant: the interval looks only at the stored token.
OnIntervalUnforced(t) ==
  /\ tab[t].open /\ tab[t].active.token # None /\ tab[t].read = None
  /\ InDocument(t, Synchronized(t, tab[t], FALSE))
  /\ UNCHANGED <<rights, logins, turns>>

\* The ten-second interval; a read ends within five, so none is under way.
OnInterval(t) ==
  /\ tab[t].open /\ tab[t].active.token # None /\ tab[t].read = None
  /\ InDocument(t, Synchronized(t, tab[t], TRUE))
  /\ UNCHANGED <<rights, logins, turns>>

Turn == turns < MaxTurns /\ turns' = turns + 1 /\ UNCHANGED logins

\* The window is focused or becomes visible.
OnFocus(t) ==
  /\ tab[t].open
  /\ Turn /\ UNCHANGED rights
  /\ InDocument(t, Synchronized(t, tab[t], TRUE))

\* The document is left.
OnPageHide(t) ==
  /\ tab[t].open
  /\ Turn /\ UNCHANGED rights
  /\ InDocument(t, [Hidden(tab[t]) EXCEPT !.sso = "no"])

\* The browser brings the document back as it was.
OnPageShow(t) ==
  /\ ~tab[t].open
  /\ InDocument(t, Synchronized(t, [tab[t] EXCEPT !.open = TRUE, !.sso = "no"], TRUE))
  /\ UNCHANGED <<rights, logins, turns>>

\* Another document is loaded in the tab: after a sign-in at Keycloak, the callback.
Load(t) ==
  /\ ~tab[t].open
  /\ \E place \in {"out", "deletion"} \cup (IF tab[t].sso = "away" THEN {"callback"} ELSE {}) :
       InDocument(t, Synchronized(t, Fresh(place), FALSE))
  /\ UNCHANGED <<rights, logins, turns>>

-----------------------------------------------------------------------------
(* The server *)

\* /auth/me answers with the profile of the token's owner as it was at some moment
\* of the call, with somebody else's (a gateway's mix-up the client guards
\* against), or not: None stands for a refusal, a failure and a timeout.
Answers(call) ==
  {[user |-> u, rights |-> n] : u \in {Owner[call.token]}, n \in call.since .. rights[Owner[call.token]]}
  \cup {[user |-> u, rights |-> rights[u]] : u \in Users \ {Owner[call.token]}} \cup {None}

ChangeRights(u) ==
  /\ rights[u] < MaxRights
  /\ Turn
  /\ rights' = [rights EXCEPT ![u] = @ + 1]
  /\ UNCHANGED <<local, session, tab>>

-----------------------------------------------------------------------------
(* The answer to a read *)

\* Mutant: the profile always goes to localStorage.
WithProfileInLocal(t, token, profile, doc) ==
  Commit(t, [local EXCEPT !.profile = profile], session[t], doc)

\* The storage the token is in takes the profile.
WithProfile(t, token, profile, doc) ==
  IF local.token = token
  THEN Commit(t, [local EXCEPT !.profile = profile], session[t], doc)
  ELSE Commit(t, local, [session[t] EXCEPT !.profile = profile], doc)

\* Mutant: the answer is applied without looking at what is stored now.
SyncAnsweredUnchecked(t) ==
  LET read == tab[t].read
      doc  == [Regenerated(tab[t]) EXCEPT !.loading = FALSE]
  IN /\ read # None /\ read.kind = "sync"
     /\ \E answer \in Answers(read) :
          LET auth == [token |-> read.token, user |-> answer]
          IN IF Matches(read.token, answer)
             THEN WithProfile(t, read.token, answer, [doc EXCEPT !.active = auth, !.shown = auth])
             ELSE Purge(t, SignedOut(doc))
     /\ UNCHANGED <<rights, logins, turns>>

\* synchronize(), after its fetch.
SyncAnswered(t) ==
  LET read == tab[t].read
      doc  == [Regenerated(tab[t]) EXCEPT !.loading = FALSE]
  IN /\ read # None /\ read.kind = "sync"
     /\ \/ Stored(t) # read.token /\ InDocument(t, doc)
        \/ /\ Stored(t) = read.token
           /\ \E answer \in Answers(read) :
                LET auth == [token |-> read.token, user |-> answer]
                IN IF Matches(read.token, answer)
                   THEN WithProfile(t, read.token, answer,
                                    [doc EXCEPT !.active = auth, !.shown = auth])
                   ELSE Purge(t, SignedOut(doc))
     /\ UNCHANGED <<rights, logins, turns>>

\* refreshProfile(): asked for by a page of the signed-in user.
RefreshProfile(t) ==
  /\ tab[t].open /\ tab[t].shown.token # None /\ tab[t].active.token = tab[t].shown.token
  /\ Turn /\ UNCHANGED rights
  /\ InDocument(t, [tab[t] EXCEPT
       !.read = [kind |-> "refresh", token |-> tab[t].shown.token,
                since |-> rights[Owner[tab[t].shown.token]]]])

RefreshAnswered(t) ==
  LET read == tab[t].read
      doc  == Regenerated(tab[t])
  IN /\ read # None /\ read.kind = "refresh"
     /\ \/ InDocument(t, doc)
        \/ /\ tab[t].active.token = read.token /\ Stored(t) = read.token
           /\ \E answer \in Answers(read) :
                /\ Matches(read.token, answer)
                /\ WithProfile(t, read.token, answer,
                     [doc EXCEPT !.active.user = answer, !.shown.user = answer])
     /\ UNCHANGED <<rights, logins, turns>>

-----------------------------------------------------------------------------
(* Signing in *)

CountLogin == logins < MaxLogins /\ logins' = logins + 1 /\ UNCHANGED <<rights, turns>>

StartLogin(t, login) ==
  InDocument(t, [Regenerated(Resequenced(tab[t])) EXCEPT !.login = login])

\* The form is disabled while a stored session is being confirmed and while its own
\* call is out (a replaced call frees it when its answer comes, here at once).
FormEnabled(t) ==
  /\ tab[t].open /\ tab[t].place \notin {"callback", "deletion"}
  /\ ~tab[t].loading /\ tab[t].login = None

SubmitForm(t, portal) ==
  \E token \in Tokens, remember \in BOOLEAN :
    /\ FormEnabled(t)
    /\ CountLogin
    /\ StartLogin(t, [kind |-> portal, token |-> token, remember |-> remember,
                      since |-> rights[Owner[token]]])

LoginBusiness(t) == SubmitForm(t, "business")
LoginProvider(t) == SubmitForm(t, "provider")

\* signinRedirect: the storages are emptied, then the document is left.
LoginRedirect(t) ==
  /\ tab[t].open /\ tab[t].place \notin {"callback", "deletion"} /\ tab[t].sso = "no"
  /\ CountLogin
  /\ Purge(t, [tab[t] EXCEPT !.sso = "asked"])

LeaveForKeycloak(t) ==
  /\ tab[t].open /\ tab[t].sso = "asked"
  /\ InDocument(t, [Hidden(tab[t]) EXCEPT !.sso = "away"])
  /\ UNCHANGED <<rights, logins, turns>>

\* /auth/callback exchanges the code for a token, which fails on a used or
\* expired code, and asks /auth/me for the token's profile.
LoginCallback(t) ==
  /\ tab[t].open /\ tab[t].place = "callback" /\ tab[t].login = None /\ ~tab[t].replaced
  /\ \/ Purge(t, [tab[t] EXCEPT !.place = "out"])
     \/ \E token \in Tokens :
          StartLogin(t, [kind |-> "callback", token |-> token, remember |-> TRUE,
                          since |-> rights[Owner[token]]])
  /\ UNCHANGED <<rights, logins, turns>>

\* Mutant: the page asked for is returned to, whoever signed in.
ReturnToRequested(requested, user) == IF requested = None THEN Portal[user] ELSE requested

\* resolvePostLoginReturnTo: a user is never sent to another portal.
ReturnTo(requested, user) ==
  IF \/ requested = None
     \/ Portal[user] = "admin" /\ requested \in {"business", "provider"}
     \/ Portal[user] = "provider" /\ requested = "business"
     \/ Portal[user] = "business" /\ requested = "provider"
  THEN Portal[user] ELSE requested

\* _saveSession
Save(t, token, profile, remember, place) ==
  LET kept == [token |-> token, profile |-> profile]
      auth == [token |-> token, user |-> profile]
      doc  == [Regenerated(tab[t]) EXCEPT !.login = None, !.loading = FALSE, !.place = place,
                                          !.active = auth, !.shown = auth]
  IN IF remember THEN Commit(t, kept, NoStore, doc) ELSE Commit(t, NoStore, kept, doc)

\* The route behind the form: a token from Keycloak, its profile, and the portal's
\* role; every other outcome is an error to the form.
PortalAnswers(login) ==
  {answer \in Answers(login) : answer # None => Portal[answer.user] = login.kind}

\* loginBusiness and loginProvider after the answer: any failure leaves all as it is.
LoginAnswered(t) ==
  LET login == tab[t].login
  IN /\ login # None /\ login.kind # "callback"
     /\ \E answer \in PortalAnswers(login) :
          IF Matches(login.token, answer) /\ Portal[answer.user] = login.kind
          THEN Save(t, login.token, answer, login.remember, login.kind)
          ELSE InDocument(t, [tab[t] EXCEPT !.login = None])
     /\ UNCHANGED <<rights, logins, turns>>

\* loginViaKeycloak after the answer; the callback page empties the storages
\* when it fails.
CallbackAnswered(t) ==
  LET login == tab[t].login
      doc   == [tab[t] EXCEPT !.login = None]
  IN /\ login # None /\ login.kind = "callback"
     /\ \E answer \in Answers(login) :
          CASE answer = None -> Purge(t, [doc EXCEPT !.place = "out"])
            [] Matches(login.token, answer) ->
                 \E requested \in (Places \ {"callback", "deletion"}) \cup {None} :
                   Save(t, login.token, answer, TRUE, ReturnTo(requested, answer.user))
            [] OTHER -> Purge(t, [SignedOut(Regenerated(doc)) EXCEPT !.place = "out"])
     /\ UNCHANGED <<rights, logins, turns>>

\* A callback replaced by a newer session learns it from its answer.
CallbackReplaced(t) ==
  /\ tab[t].open /\ tab[t].replaced /\ tab[t].place = "callback"
  /\ Purge(t, [tab[t] EXCEPT !.replaced = FALSE, !.place = "out"])
  /\ UNCHANGED <<rights, logins, turns>>

-----------------------------------------------------------------------------
(* Signing out *)

Logout(t) ==
  /\ tab[t].open /\ tab[t].shown.token # None
  /\ Commit(t, NoStore, NoStore,
       [SignedOut(Regenerated(Resequenced(tab[t]))) EXCEPT !.loading = FALSE, !.leaving = "purge"])
  /\ UNCHANGED <<rights, logins, turns>>

\* Mutant: the storages are emptied whatever has been stored meanwhile.
LogoutPurgeAlways(t) ==
  /\ tab[t].leaving = "purge"
  /\ Purge(t, [tab[t] EXCEPT !.leaving = "redirect"])
  /\ UNCHANGED <<rights, logins, turns>>

\* The link in the deletion mail: the account is closed, the session of the browser
\* with it.
ConfirmDeletion(t) ==
  /\ tab[t].open /\ tab[t].place = "deletion"
  /\ Purge(t, [tab[t] EXCEPT !.place = "out"])
  /\ UNCHANGED <<rights, logins, turns>>

\* What follows the import of the OIDC module, unless a session has been started.
LogoutPurge(t) ==
  /\ tab[t].leaving = "purge"
  /\ IF Stored(t) # None THEN InDocument(t, [tab[t] EXCEPT !.leaving = "no"])
     ELSE Purge(t, [tab[t] EXCEPT !.leaving = "redirect"])
  /\ UNCHANGED <<rights, logins, turns>>

\* What follows the clearing of the caches: to Keycloak if the session was from there.
LogoutRedirect(t) ==
  /\ tab[t].leaving = "redirect"
  /\ \/ InDocument(t, [tab[t] EXCEPT !.leaving = "no"])
     \/ /\ Stored(t) = None
        /\ InDocument(t, Hidden(tab[t]))
  /\ UNCHANGED <<rights, logins, turns>>

-----------------------------------------------------------------------------
Step(t) ==
  \/ OnStorage(t) \/ OnInterval(t) \/ OnFocus(t) \/ OnPageHide(t) \/ OnPageShow(t) \/ Load(t)
  \/ SyncAnswered(t) \/ RefreshProfile(t) \/ RefreshAnswered(t)
  \/ LoginBusiness(t) \/ LoginProvider(t)
  \/ LoginRedirect(t) \/ LeaveForKeycloak(t) \/ LoginCallback(t)
  \/ LoginAnswered(t) \/ CallbackAnswered(t) \/ CallbackReplaced(t)
  \/ Logout(t) \/ ConfirmDeletion(t) \/ LogoutPurge(t) \/ LogoutRedirect(t)

Next == (\E t \in Tabs : Step(t)) \/ (\E u \in Users : ChangeRights(u))

\* Fairness: the browser delivers its events and fires its timers, a call ends
\* (the read's deadline sees to it) and what follows an await runs.
Fairness ==
  \A t \in Tabs : /\ WF_vars(OnStorage(t)) /\ WF_vars(OnInterval(t))
                  /\ WF_vars(SyncAnswered(t)) /\ WF_vars(RefreshAnswered(t))
                  /\ WF_vars(LoginAnswered(t))
                  /\ WF_vars(CallbackAnswered(t)) /\ WF_vars(LeaveForKeycloak(t))
                  /\ WF_vars(LoginCallback(t))
                  /\ WF_vars(LogoutPurge(t)) /\ WF_vars(LogoutRedirect(t))

Spec == Init /\ [][Next]_vars
FairSpec == Spec /\ Fairness

-----------------------------------------------------------------------------
(* Properties *)

\* A tab never shows a user beside a token that is not theirs, and what it shows
\* is the identity it is working with: storage events, slow answers of /auth/me
\* and sign-ins of other tabs notwithstanding.
ShownMatchesToken ==
  \A t \in Tabs :
    LET shown == tab[t].shown  active == tab[t].active
    IN /\ (shown.token = None) <=> (shown.user = None)
       /\ shown.user # None =>
            /\ shown.user.user = Owner[shown.token]
            /\ active.user = shown.user
            /\ Owner[active.token] = Owner[shown.token] /\ Roles[active.token] = Roles[shown.token]

\* The profile kept in a storage is that of the token beside it: the answer for
\* one account is never written next to another's token.
ProfileBesideToken ==
  \A store \in {local} \cup {session[t] : t \in Tabs} :
    store.profile # None => store.token # None /\ store.profile.user = Owner[store.token]

\* What is stored and what is shown fit together in every tab.
SessionInv == TypeOK /\ ShownMatchesToken /\ ProfileBesideToken

\* A tab that starts to show a token shows the one that is stored at that moment
\* ("Storage is a notification channel": a late answer must not bring back a
\* session that has been replaced or closed elsewhere).
ShowsWhatIsStored ==
  [][\A t \in Tabs : tab'[t].shown.token \notin {None, tab[t].shown.token} =>
       tab'[t].shown.token = Stored(t)']_vars

\* Outside what a user asks for (signing out, leaving for Keycloak, closing the
\* account) and the failure of a callback, the stored token is only removed by a tab that
\* had taken it up, or in which a sign-in has just succeeded that is not to be remembered:
\* neither a late sign-out nor a late refusal erases a newer session.
NewerSessionKept ==
  [][local.token # None /\ local'.token = None =>
       \E t \in Tabs : \/ tab[t].active.token = local.token
                       \/ tab'[t].leaving = "purge" \/ tab'[t].sso = "asked"
                       \/ tab[t].place \in {"callback", "deletion"}
                       \/ tab[t].login # None /\ tab'[t].shown.token = tab[t].login.token]_vars

\* Signing in never lands a user of one portal on the other's dashboard.
LandsInOwnPortal ==
  [][\A t \in Tabs : tab'[t].shown.token # None /\ tab'[t].place # tab[t].place
       /\ tab'[t].place \in {"business", "provider"} =>
         Portal[tab'[t].shown.user.user] = tab'[t].place]_vars

\* Once sign-ins, sign-outs and permission changes cease, every open tab ends up
\* showing the stored session, or none, with the permissions the server has, and none
\* waits for ever on a session being restored.
TabsConverge ==
  <>[](\A t \in Tabs : tab[t].open =>
         /\ tab[t].shown.token = Stored(t) /\ ~tab[t].loading
         /\ tab[t].shown.user # None =>
              tab[t].shown.user.rights = rights[tab[t].shown.user.user])

\* What the messages of the client promise: a sign-in that "has been replaced by a
\* newer session" leaves that session alone.
ReplacedCallbackSparesNewer ==
  [][\A t \in Tabs : tab[t].replaced /\ ~tab'[t].replaced /\ tab'[t].open /\ tab[t].open =>
       local'.token = local.token]_vars
=============================================================================
