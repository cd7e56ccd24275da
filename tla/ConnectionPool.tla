--------------------------- MODULE ConnectionPool ---------------------------
(***************************************************************************)
(* The pool of database connections of one server process (auth/db.py) and *)
(* the requests that take connections from it.  A request may sign in with *)
(* a connection of its own (enrich_keycloak_claims), then holds one for    *)
(* its handler (Depends(get_db)) and, inside it, may take a second one: to *)
(* look up permissions (check_permission_db) or to sign in a download link *)
(* that carries its token.  pool.acquire() has no timeout.                 *)
(***************************************************************************)
EXTENDS Naturals, FiniteSets

CONSTANTS
    Requests,       \* the requests to the process
    Connections,    \* the connections of the pool: DB_POOL_MAX_SIZE of them
    NoRequest

ASSUME PoolAssumption ==
    /\ IsFiniteSet(Requests)
    /\ IsFiniteSet(Connections)
    /\ Connections # {}
    /\ NoRequest \notin Requests

VARIABLES
    owner,    \* the request that holds each connection
    kind,     \* which connections the request's route takes
    pc        \* where the request is

vars == <<owner, kind, pc>>

Kind == [signsIn: BOOLEAN, nests: BOOLEAN]

Pcs == {"new", "sign_wait", "signing", "wait", "working",
        "second_wait", "second", "looked_up", "done"}

TypeOK == /\ owner \in [Connections -> Requests \cup {NoRequest}]
          /\ kind \in [Requests -> Kind]
          /\ pc \in [Requests -> Pcs]

Init == /\ owner = [c \in Connections |-> NoRequest]
        /\ kind \in [Requests -> Kind]
        /\ pc = [r \in Requests |-> "new"]

-----------------------------------------------------------------------------
(* The pool *)

At(r, p) == pc[r] = p
Go(r, p) == pc' = [pc EXCEPT ![r] = p]
Held(r) == {c \in Connections : owner[c] = r}

\* A free connection goes to whichever waiter asyncio resumes first.
Acquire(r) == \E c \in Connections :
                 /\ owner[c] = NoRequest
                 /\ owner' = [owner EXCEPT ![c] = r]

Release(r) == \E c \in Held(r) : owner' = [owner EXCEPT ![c] = NoRequest]

ReleaseAll(r) == owner' = [c \in Connections |->
                              IF owner[c] = r THEN NoRequest ELSE owner[c]]

-----------------------------------------------------------------------------
(* A request *)

\* Depends(get_current_user) is resolved before Depends(get_db); public routes
\* and download links have no such dependency.
Arrive(r) == /\ At(r, "new")
             /\ Go(r, IF kind[r].signsIn THEN "sign_wait" ELSE "wait")
             /\ UNCHANGED <<owner, kind>>

SignIn(r) == /\ At(r, "sign_wait")
             /\ Acquire(r)
             /\ Go(r, "signing")
             /\ UNCHANGED kind

\* An unknown or inactive account is refused.
SignedIn(r) == /\ At(r, "signing")
               /\ Release(r)
               /\ \/ Go(r, "wait")
                  \/ Go(r, "done")
               /\ UNCHANGED kind

GetDb(r) == /\ At(r, "wait")
            /\ Acquire(r)
            /\ Go(r, "working")
            /\ UNCHANGED kind

\* The owner of an account is not looked up, nor is a request of another role.
AskSecond(r) == /\ At(r, "working")
                /\ kind[r].nests
                /\ Go(r, "second_wait")
                /\ UNCHANGED <<owner, kind>>

GetSecond(r) == /\ At(r, "second_wait")
                /\ Acquire(r)
                /\ Go(r, "second")
                /\ UNCHANGED kind

\* The permission may be missing: the handler then has only to end.
LeaveSecond(r) == /\ At(r, "second")
                  /\ Release(r)
                  /\ Go(r, "looked_up")
                  /\ UNCHANGED kind

\* Mutant: a handler that does not give its connection back.
EndHolding(r) == /\ \/ At(r, "working")
                    \/ At(r, "looked_up")
                 /\ Go(r, "done")
                 /\ UNCHANGED <<owner, kind>>

\* The answer or an exception; async with gives back what the request holds.
\* command_timeout ends a statement that does not.
End(r) == /\ \/ At(r, "working")
             \/ At(r, "looked_up")
          /\ ReleaseAll(r)
          /\ Go(r, "done")
          /\ UNCHANGED kind

\* What a request does once it has arrived.
Continue(r) == \/ SignIn(r) \/ SignedIn(r) \/ GetDb(r) \/ AskSecond(r)
               \/ GetSecond(r) \/ LeaveSecond(r) \/ End(r)

Next == \E r \in Requests : Arrive(r) \/ Continue(r)

Spec == Init /\ [][Next]_vars

\* asyncio resumes every coroutine that can go on.
FairSpec == Spec /\ \A r \in Requests : WF_vars(Continue(r))

-----------------------------------------------------------------------------
(* Properties *)

\* How many connections a request holds at each point: none while it waits for
\* its first, exactly one while it waits for its second, two in the lookup, and
\* none once it ended.  Nobody but a request holds one.
HoldsAsPlaced ==
    \A r \in Requests :
        /\ pc[r] \in {"new", "sign_wait", "wait", "done"} => Held(r) = {}
        /\ pc[r] \in {"signing", "working", "second_wait", "looked_up"} =>
              \E c \in Connections : Held(r) = {c}
        /\ pc[r] = "second" =>
              \E c, d \in Connections : c # d /\ Held(r) = {c, d}

PoolInv == TypeOK /\ HoldsAsPlaced

\* Every connection is held by a request that waits for its second one.
Exhausted == \A c \in Connections :
                \E r \in Requests : owner[c] = r /\ pc[r] = "second_wait"

Waiting(r) == pc[r] \in {"sign_wait", "wait", "second_wait"}

\* Requests that arrived can be stuck only in an exhausted pool: as long as one
\* connection is free or held by a request that is at work, some request that
\* has arrived can go on.
OnlyNestingBlocks ==
    (\E r \in Requests : Waiting(r)) =>
        \/ Exhausted
        \/ \E c \in Connections : owner[c] = NoRequest
        \/ \E r \in Requests : pc[r] \in {"signing", "working", "second", "looked_up"}

\* Exhaustion needs as many requests inside check_permission_db, or a download's
\* sign-in, as the pool has connections: with fewer of them it cannot happen.
ExhaustionNeedsMany ==
    Exhausted => Cardinality(Connections)
                   <= Cardinality({r \in Requests : pc[r] = "second_wait"})

\* Without exhaustion every request that arrives comes to its end.
EndsUnlessExhausted ==
    []~Exhausted => \A r \in Requests : (pc[r] # "new") ~> (pc[r] = "done")
=============================================================================
