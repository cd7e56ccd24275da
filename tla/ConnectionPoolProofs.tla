------------------------ MODULE ConnectionPoolProofs ------------------------
(***************************************************************************)
(* Proofs about ConnectionPool, for any pool and any number of requests.   *)
(***************************************************************************)
EXTENDS ConnectionPool, FunctionTheorems, FiniteSetTheorems, TLAPS

\* The place of one request agrees with what it holds.
Placed(held, p) ==
    /\ p \in {"new", "sign_wait", "wait", "done"} => held = {}
    /\ p \in {"signing", "working", "second_wait", "looked_up"} =>
          \E c \in Connections : held = {c}
    /\ p = "second" => \E c, d \in Connections : c # d /\ held = {c, d}

LEMMA PlacedIsHoldsAsPlaced ==
    HoldsAsPlaced <=> \A r \in Requests : Placed(Held(r), pc[r])
BY DEF HoldsAsPlaced, Placed

\* A step of one request that leaves it placed keeps the invariant.
LEMMA OneMoves ==
    ASSUME PoolInv, NEW r \in Requests, NEW p \in Pcs,
           Go(r, p), kind' = kind,
           owner' \in [Connections -> Requests \cup {NoRequest}],
           \A q \in Requests \ {r} : Held(q)' = Held(q),
           Placed(Held(r)', p)
    PROVE  PoolInv'
<1>1. TypeOK'
  BY DEF PoolInv, TypeOK, Go
<1>2. ASSUME NEW q \in Requests PROVE Placed(Held(q)', pc'[q])
  <2>1. CASE q = r
    BY <2>1 DEF PoolInv, TypeOK, Go
  <2>2. CASE q # r
    <3>1. pc'[q] = pc[q] /\ Held(q)' = Held(q)
      BY <2>2 DEF PoolInv, TypeOK, Go
    <3>2. Placed(Held(q), pc[q])
      BY PlacedIsHoldsAsPlaced DEF PoolInv
    <3>. QED
      BY <3>1, <3>2
  <2>. QED
    BY <2>1, <2>2
<1>3. HoldsAsPlaced'
  BY <1>2 DEF HoldsAsPlaced, Placed
<1>. QED
  BY <1>1, <1>3 DEF PoolInv

\* A connection taken is one the request did not hold; nobody else notices.
LEMMA AcquireAdds ==
    ASSUME TypeOK, NEW r \in Requests, Acquire(r)
    PROVE  /\ owner' \in [Connections -> Requests \cup {NoRequest}]
           /\ \A q \in Requests \ {r} : Held(q)' = Held(q)
           /\ \E c \in Connections \ Held(r) : Held(r)' = Held(r) \cup {c}
<1>1. PICK c \in Connections :
        owner[c] = NoRequest /\ owner' = [owner EXCEPT ![c] = r]
  BY DEF Acquire
<1>2. c \notin Held(r) /\ Held(r)' = Held(r) \cup {c}
  BY <1>1, PoolAssumption DEF TypeOK, Held
<1>3. \A q \in Requests \ {r} : Held(q)' = Held(q)
  BY <1>1, PoolAssumption DEF TypeOK, Held
<1>. QED
  BY <1>1, <1>2, <1>3 DEF TypeOK

\* A connection given back was the request's own.
LEMMA ReleaseDrops ==
    ASSUME TypeOK, NEW r \in Requests, Release(r)
    PROVE  /\ owner' \in [Connections -> Requests \cup {NoRequest}]
           /\ \A q \in Requests \ {r} : Held(q)' = Held(q)
           /\ \E c \in Held(r) : Held(r)' = Held(r) \ {c}
<1>1. PICK c \in Held(r) : owner' = [owner EXCEPT ![c] = NoRequest]
  BY DEF Release
<1>2. Held(r)' = Held(r) \ {c}
  BY <1>1, PoolAssumption DEF TypeOK, Held
<1>3. \A q \in Requests \ {r} : Held(q)' = Held(q)
  BY <1>1, PoolAssumption DEF TypeOK, Held
<1>. QED
  BY <1>1, <1>2, <1>3 DEF TypeOK, Held

LEMMA ReleaseAllDrops ==
    ASSUME TypeOK, NEW r \in Requests, ReleaseAll(r)
    PROVE  /\ owner' \in [Connections -> Requests \cup {NoRequest}]
           /\ \A q \in Requests \ {r} : Held(q)' = Held(q)
           /\ Held(r)' = {}
BY PoolAssumption DEF TypeOK, Held, ReleaseAll

LEMMA InitPoolInv == Init => PoolInv
BY PoolAssumption DEF Init, PoolInv, TypeOK, HoldsAsPlaced, Held, Pcs

\* Every step keeps the invariant.
LEMMA StepPoolInv ==
    ASSUME PoolInv, NEW r \in Requests, Arrive(r) \/ Continue(r)
    PROVE  PoolInv'
<1> USE DEF At
<1>0. TypeOK /\ Placed(Held(r), pc[r])
  BY PlacedIsHoldsAsPlaced DEF PoolInv
<1>1. CASE Arrive(r)
  <2>1. PICK p \in {"sign_wait", "wait"} : Go(r, p)
    BY <1>1 DEF Arrive
  <2>2. owner' = owner /\ kind' = kind
    BY <1>1 DEF Arrive
  <2>3. \A q \in Requests : Held(q)' = Held(q)
    BY <2>2 DEF Held
  <2>4. Placed(Held(r)', p) /\ p \in Pcs
    BY <1>0, <1>1, <2>1, <2>3 DEF Placed, Arrive, Pcs
  <2>. QED
    BY <1>0, <2>1, <2>2, <2>3, <2>4, OneMoves DEF TypeOK
<1>2. CASE SignIn(r)
  <2>1. Held(r) = {} /\ Acquire(r) /\ Go(r, "signing") /\ kind' = kind
    BY <1>0, <1>2 DEF SignIn, Placed
  <2>2. Placed(Held(r)', "signing")
    BY <1>0, <2>1, AcquireAdds DEF Placed
  <2>. QED
    BY <1>0, <2>1, <2>2, AcquireAdds, OneMoves DEF Pcs
<1>3. CASE SignedIn(r)
  <2>1. PICK p \in {"wait", "done"} : Go(r, p)
    BY <1>3 DEF SignedIn
  <2>2. (\E c \in Connections : Held(r) = {c}) /\ Release(r) /\ kind' = kind
    BY <1>0, <1>3 DEF SignedIn, Placed
  <2>3. Held(r)' = {}
    BY <1>0, <2>2, ReleaseDrops
  <2>4. Placed(Held(r)', p) /\ p \in Pcs
    BY <2>1, <2>3 DEF Placed, Pcs
  <2>. QED
    BY <1>0, <2>1, <2>2, <2>4, ReleaseDrops, OneMoves
<1>4. CASE GetDb(r)
  <2>1. Held(r) = {} /\ Acquire(r) /\ Go(r, "working") /\ kind' = kind
    BY <1>0, <1>4 DEF GetDb, Placed
  <2>2. Placed(Held(r)', "working")
    BY <1>0, <2>1, AcquireAdds DEF Placed
  <2>. QED
    BY <1>0, <2>1, <2>2, AcquireAdds, OneMoves DEF Pcs
<1>5. CASE AskSecond(r)
  <2>1. owner' = owner /\ kind' = kind /\ Go(r, "second_wait")
    BY <1>5 DEF AskSecond
  <2>2. \A q \in Requests : Held(q)' = Held(q)
    BY <2>1 DEF Held
  <2>3. Placed(Held(r)', "second_wait")
    BY <1>0, <1>5, <2>2 DEF Placed, AskSecond
  <2>. QED
    BY <1>0, <2>1, <2>2, <2>3, OneMoves DEF TypeOK, Pcs
<1>6. CASE GetSecond(r)
  <2>1. Acquire(r) /\ Go(r, "second") /\ kind' = kind
    BY <1>6 DEF GetSecond
  <2>2. PICK c \in Connections : Held(r) = {c}
    BY <1>0, <1>6 DEF GetSecond, Placed
  <2>3. PICK d \in Connections \ Held(r) : Held(r)' = Held(r) \cup {d}
    BY <1>0, <2>1, AcquireAdds
  <2>4. c # d /\ Held(r)' = {c, d}
    BY <2>2, <2>3
  <2>5. Placed(Held(r)', "second")
    BY <2>3, <2>4 DEF Placed
  <2>. QED
    BY <1>0, <2>1, <2>5, AcquireAdds, OneMoves DEF Pcs
<1>7. CASE LeaveSecond(r)
  <2>1. Release(r) /\ Go(r, "looked_up") /\ kind' = kind
    BY <1>7 DEF LeaveSecond
  <2>2. PICK c, d \in Connections : c # d /\ Held(r) = {c, d}
    BY <1>0, <1>7 DEF LeaveSecond, Placed
  <2>3. PICK e \in Held(r) : Held(r)' = Held(r) \ {e}
    BY <1>0, <2>1, ReleaseDrops
  <2>4. Held(r)' = {c} \/ Held(r)' = {d}
    BY <2>2, <2>3
  <2>5. Placed(Held(r)', "looked_up")
    BY <2>4 DEF Placed
  <2>. QED
    BY <1>0, <2>1, <2>5, ReleaseDrops, OneMoves DEF Pcs
<1>8. CASE End(r)
  <2>1. ReleaseAll(r) /\ Go(r, "done") /\ kind' = kind
    BY <1>8 DEF End
  <2>2. Placed(Held(r)', "done")
    BY <1>0, <2>1, ReleaseAllDrops DEF Placed
  <2>. QED
    BY <1>0, <2>1, <2>2, ReleaseAllDrops, OneMoves DEF Pcs
<1>. QED
  BY <1>1, <1>2, <1>3, <1>4, <1>5, <1>6, <1>7, <1>8 DEF Continue

\* The inductive invariant: every request holds as many connections as its
\* place in the code says, and nobody else holds one.
THEOREM PoolCorrect == Spec => []PoolInv
<1>1. PoolInv /\ [Next]_vars => PoolInv'
  <2> SUFFICES ASSUME PoolInv, [Next]_vars PROVE PoolInv'
    OBVIOUS
  <2>1. CASE Next
    BY <2>1, StepPoolInv DEF Next
  <2>2. CASE UNCHANGED vars
    BY <2>2 DEF vars, PoolInv, TypeOK, HoldsAsPlaced, Held
  <2>. QED
    BY <2>1, <2>2
<1>. QED
  BY InitPoolInv, <1>1, PTL DEF Spec

\* Requests that arrived are stuck only in an exhausted pool: whoever holds a
\* connection is at work or waits for a second one.
LEMMA InvOnlyNestingBlocks == PoolInv => OnlyNestingBlocks
<1> SUFFICES ASSUME PoolInv,
                    \A c \in Connections : owner[c] # NoRequest,
                    \A r \in Requests :
                       pc[r] \notin {"signing", "working", "second", "looked_up"}
             PROVE  Exhausted
  BY DEF OnlyNestingBlocks
<1>1. ASSUME NEW c \in Connections
      PROVE \E r \in Requests : owner[c] = r /\ pc[r] = "second_wait"
  <2>1. owner[c] \in Requests
    BY DEF PoolInv, TypeOK
  <2>2. c \in Held(owner[c])
    BY DEF Held
  <2>3. pc[owner[c]] \in Pcs \ {"new", "sign_wait", "wait", "done"}
    BY <2>1, <2>2, PlacedIsHoldsAsPlaced DEF PoolInv, TypeOK, Placed
  <2>. QED
    BY <2>1, <2>3 DEF Pcs
<1>. QED
  BY <1>1 DEF Exhausted

THEOREM OnlyNestingBlocksCalls == Spec => []OnlyNestingBlocks
BY PoolCorrect, InvOnlyNestingBlocks, PTL

\* Each request that waits for its second connection holds just one, so the
\* owners of an exhausted pool are as many as its connections.
LEMMA InvExhaustionNeedsMany == PoolInv => ExhaustionNeedsMany
<1> DEFINE Blocked == {r \in Requests : pc[r] = "second_wait"}
           f == [c \in Connections |-> owner[c]]
<1> SUFFICES ASSUME PoolInv, Exhausted
             PROVE  Cardinality(Connections) <= Cardinality(Blocked)
  BY DEF ExhaustionNeedsMany
<1>1. \A c \in Connections : owner[c] \in Blocked
  BY DEF Exhausted
<1>2. ASSUME NEW c \in Connections, NEW d \in Connections, owner[c] = owner[d]
      PROVE  c = d
  <2>1. pc[owner[c]] = "second_wait" /\ owner[c] \in Requests
    BY <1>1
  <2>2. PICK e \in Connections : Held(owner[c]) = {e}
    BY <2>1, PlacedIsHoldsAsPlaced DEF PoolInv, Placed
  <2>3. c \in Held(owner[c]) /\ d \in Held(owner[c])
    BY <1>2 DEF Held
  <2>. QED
    BY <2>2, <2>3
<1>3. f \in [Connections -> Blocked]
  BY <1>1
<1>4. f \in Injection(Connections, Blocked)
  BY <1>2, <1>3 DEF Injection, IsInjective
<1>5. IsFiniteSet(Blocked)
  BY PoolAssumption, FS_Subset
<1>. QED
  BY <1>4, <1>5, FS_Injection

\* With fewer requests in a lookup than connections the pool is not exhausted.
THEOREM ExhaustionIsCounted == Spec => []ExhaustionNeedsMany
BY PoolCorrect, InvExhaustionNeedsMany, PTL
=============================================================================
