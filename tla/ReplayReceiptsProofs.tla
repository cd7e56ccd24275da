------------------------ MODULE ReplayReceiptsProofs ------------------------
(***************************************************************************)
(* Whatever the number of calls, keys and payloads: a key has one effect,  *)
(* a receipt stands for an effect, and "ok" answers the request it is for. *)
(***************************************************************************)
EXTENDS ReplayReceipts, SequenceTheorems, TLAPS

LEMMA EffectsAppend ==
  ASSUME TypeOK, NEW e \in Effect, effects' = Append(effects, e)
  PROVE  /\ effects' \in Seq(Effect)
         /\ Len(effects) \in Nat
         /\ DOMAIN effects = 1 .. Len(effects)
         /\ DOMAIN effects' = 1 .. Len(effects) + 1
         /\ \A i \in 1 .. Len(effects) : effects'[i] = effects[i]
         /\ effects'[Len(effects) + 1] = e
  BY AppendProperties, LenProperties DEF TypeOK

LEMMA InitReplayInv == Init => ReplayInv
<1> SUFFICES ASSUME Init PROVE ReplayInv
  OBVIOUS
<1>0. NoKey \in Nat /\ 0 \in 0 .. MaxKeys
  BY ReplayAssumption DEF NoKey
<1>1. BlankForm \in Form /\ Idle \in Call /\ NoReceipt \in Receipt \cup {NoReceipt}
  BY <1>0 DEF BlankForm, Form, Idle, Call, Steps
<1>2. effects \in Seq(Effect) /\ DOMAIN effects = {}
  BY EmptySeq DEF Init
<1>3. TypeOK
  BY <1>0, <1>1, <1>2 DEF Init, TypeOK
<1>4. QED
  BY <1>2, <1>3 DEF Init, ReplayInv, CallsSound, Reserved, At, Idle, OneEffectPerKey,
     ReceiptMeansEffect, AnsweredForItsRequest

-----------------------------------------------------------------------------
(* Types *)

LEMMA CallWith ==
  ASSUME NEW c \in Call, NEW p \in Steps,
         NEW a \in {"none", "ok", "conflict", "error"}, NEW b \in Nat
  PROVE  /\ [c EXCEPT !.pc = p] \in Call
         /\ [c EXCEPT !.pc = p, !.answer = a] \in Call
         /\ [c EXCEPT !.pc = p, !.answer = a, !.body = b] \in Call
  BY DEF Call

LEMMA FormWith ==
  ASSUME NEW g \in Form, NEW k \in Keys, NEW p \in Payloads, NEW s \in Slots
  PROVE  [g EXCEPT !.key = k, !.keyed = p, !.slot = s] \in Form
  BY DEF Form

LEMMA StepTypes ==
  ASSUME TypeOK, CallsSound, [Next]_vars
  PROVE  TypeOK'
<1> USE ReplayAssumption
<1>0. /\ form \in [Forms -> Form]
      /\ issued \in 0 .. MaxKeys
      /\ call \in [Slots -> Call]
      /\ holder \in [Keys -> Slots \cup {NoSlot}]
      /\ receipts \in [Keys -> Receipt \cup {NoReceipt}]
      /\ effects \in Seq(Effect) /\ Len(effects) \in Nat
      /\ 1 .. MaxKeys \subseteq Keys
  BY LenProperties DEF TypeOK, Keys
<1>1. BlankForm \in Form /\ Idle \in Call
  BY DEF BlankForm, Form, Idle, Call, Steps
<1>b. /\ \A s \in Slots : call[s] \in Call
      /\ \A f \in Forms : form[f] \in Form
      /\ "mutate" \in Steps /\ "answer" \in Steps
      /\ 0 \in Nat /\ Len(effects) + 1 \in Nat
  BY <1>0 DEF Steps
<1>2. ASSUME NEW f \in Forms, Edit(f) PROVE TypeOK'
  <2>1. PICK p \in Payloads :
          form' = [form EXCEPT ![f].payload = p, ![f].draft = @ + 1,
                               ![f].key = IF f \in Comparing THEN @ ELSE NoKey]
    BY <1>2 DEF Edit
  <2>2. form' \in [Forms -> Form]
    BY <1>0, <2>1 DEF Form
  <2>3. QED
    BY <1>0, <1>2, <2>2 DEF Edit, TypeOK
<1>3. ASSUME NEW f \in Forms, GiveUp(f) PROVE TypeOK'
  <2>1. form' \in [Forms -> Form]
    BY <1>0, <1>3 DEF GiveUp, Form
  <2>2. QED
    BY <1>0, <1>3, <2>1 DEF GiveUp, TypeOK
<1>a. ASSUME NEW s \in Slots, NEW k \in Keys, NEW p \in Payloads,
             NEW f \in Forms \cup {NoForm}, NEW d \in Nat, Post(s, k, p, f, d)
      PROVE  call' \in [Slots -> Call]
  <2>1. [Idle EXCEPT !.pc = "received", !.key = k, !.payload = p, !.form = f,
                     !.draft = d] \in Call
    BY <1>1 DEF Call, Steps
  <2>2. QED
    BY <1>0, <1>a, <2>1 DEF Post
<1>4. ASSUME NEW f \in Forms, NEW s \in Slots, Send(f, s) PROVE TypeOK'
  <2>1. PICK key \in 1 .. MaxKeys :
          /\ issued' = issued \/ issued' = key
          /\ form' = [form EXCEPT ![f].key = key, ![f].keyed = form[f].payload,
                                  ![f].slot = s]
          /\ Post(s, key, form[f].payload, f, form[f].draft)
    BY <1>4 DEF Send
  <2>2. form[f].payload \in Payloads /\ form[f].draft \in Nat
    BY <1>0, <1>4 DEF Send, Form
  <2>3. issued' \in 0 .. MaxKeys
    BY <1>0, <2>1
  <2>4. form' \in [Forms -> Form]
    <3>1. [form[f] EXCEPT !.key = key, !.keyed = form[f].payload, !.slot = s] \in Form
      BY <1>0, <1>b, <2>2, FormWith
    <3>2. form' = [form EXCEPT ![f] =
                     [form[f] EXCEPT !.key = key, !.keyed = form[f].payload, !.slot = s]]
      BY <1>0, <2>1
    <3>3. QED
      BY <1>0, <3>1, <3>2
  <2>5. call' \in [Slots -> Call]
    BY <1>0, <1>a, <2>1, <2>2
  <2>6. QED
    BY <1>0, <1>4, <2>3, <2>4, <2>5 DEF Send, TypeOK
<1>5. ASSUME NEW s \in Slots, PostDirect(s) PROVE TypeOK'
  <2>1. Direct \subseteq Keys
    BY DEF Keys
  <2>2. call' \in [Slots -> Call]
    BY <1>5, <1>a, <2>1 DEF PostDirect
  <2>3. QED
    BY <1>0, <1>5, <2>2 DEF PostDirect, TypeOK
<1>6. ASSUME NEW s \in Slots, Work(s) PROVE TypeOK'
  <2>1. CASE Insert(s)
    <3>1. call[s].key \in Keys
      BY <2>1 DEF Insert, CallsSound, At
    <3>2. call' \in [Slots -> Call]
      <4>1. [call[s] EXCEPT !.pc = "mutate"] \in Call
        BY <1>0, <1>b, CallWith
      <4>2. QED
        BY <1>0, <2>1, <4>1 DEF Insert
    <3>3. holder' \in [Keys -> Slots \cup {NoSlot}]
      BY <1>0, <2>1, <3>1 DEF Insert
    <3>4. QED
      BY <1>0, <2>1, <3>2, <3>3 DEF Insert, TypeOK
  <2>2. CASE Replay(s)
    <3>1. receipts[call[s].key] \in Receipt
      BY <1>0, <2>2 DEF Replay, CallsSound, At
    <3>2. call' \in [Slots -> Call]
      <4>1. [call[s] EXCEPT !.pc = "answer", !.answer = "ok",
                            !.body = receipts[call[s].key].body] \in Call
        BY <1>0, <1>b, <3>1, CallWith DEF Receipt
      <4>2. [call[s] EXCEPT !.pc = "answer", !.answer = "conflict"] \in Call
        BY <1>0, <1>b, CallWith
      <4>3. QED
        BY <1>0, <2>2, <4>1, <4>2 DEF Replay
    <3>3. QED
      BY <1>0, <2>2, <3>2 DEF Replay, TypeOK
  <2>3. CASE Commit(s)
    <3>1. call[s].key \in Keys /\ call[s].payload \in Payloads
      BY <2>3 DEF Commit, CallsSound, At
    <3>2. [key |-> call[s].key, payload |-> call[s].payload, form |-> call[s].form,
           draft |-> call[s].draft] \in Effect
      BY <1>0, <3>1 DEF Effect, Call
    <3>3. effects' \in Seq(Effect)
      BY <2>3, <3>2, EffectsAppend DEF Commit
    <3>4. receipts' \in [Keys -> Receipt \cup {NoReceipt}]
      BY <1>0, <2>3, <3>1 DEF Commit, Receipt
    <3>5. holder' \in [Keys -> Slots \cup {NoSlot}]
      BY <1>0, <2>3, <3>1 DEF Commit, Release
    <3>6. call' \in [Slots -> Call]
      <4>1. [call[s] EXCEPT !.pc = "answer", !.answer = "ok",
                            !.body = Len(effects) + 1] \in Call
        BY <1>0, <1>b, CallWith
      <4>2. QED
        BY <1>0, <2>3, <4>1 DEF Commit
    <3>7. QED
      BY <1>0, <2>3, <3>3, <3>4, <3>5, <3>6 DEF Commit, TypeOK
  <2>4. CASE Fail(s)
    <3>1. call' \in [Slots -> Call]
      <4>1. [call[s] EXCEPT !.pc = "answer", !.answer = "error"] \in Call
        BY <1>0, <1>b, CallWith
      <4>2. call' = [call EXCEPT ![s] = [call[s] EXCEPT !.pc = "answer", !.answer = "error"]]
        BY <1>0, <2>4 DEF Fail
      <4>3. QED
        BY <1>0, <4>1, <4>2
    <3>2. holder' \in [Keys -> Slots \cup {NoSlot}]
      BY <1>0, <2>4 DEF Fail, Release
    <3>3. QED
      BY <1>0, <2>4, <3>1, <3>2 DEF Fail, TypeOK
  <2>5. CASE Answer(s)
    <3>1. \A f \in Forms : Receive(f, s) \in Form
      <4>1. \A f \in Forms : form[f].draft + 1 \in Nat
        BY <1>0 DEF Form
      <4>2. \A f \in Forms : [BlankForm EXCEPT !.draft = form[f].draft + 1] \in Form
        BY <1>1, <4>1 DEF Form
      <4>3. \A f \in Forms : [form[f] EXCEPT !.slot = NoSlot] \in Form
        BY <1>0 DEF Form
      <4>4. QED
        BY <4>2, <4>3 DEF Receive
    <3>2. form' \in [Forms -> Form] /\ call' \in [Slots -> Call]
      BY <1>0, <1>1, <2>5, <3>1 DEF Answer
    <3>3. QED
      BY <1>0, <2>5, <3>2 DEF Answer, TypeOK
  <2>6. QED
    BY <1>6, <2>1, <2>2, <2>3, <2>4, <2>5 DEF Work
<1>7. ASSUME NEW s \in Slots, Crash(s) PROVE TypeOK'
  <2>1. \A f \in Forms : [form[f] EXCEPT !.slot = NoSlot] \in Form
    BY <1>0 DEF Form
  <2>2. form' \in [Forms -> Form] /\ call' \in [Slots -> Call]
        /\ holder' \in [Keys -> Slots \cup {NoSlot}]
    BY <1>0, <1>1, <1>7, <2>1 DEF Crash
  <2>3. QED
    BY <1>0, <1>7, <2>2 DEF Crash, TypeOK
<1>8. CASE UNCHANGED vars
  BY <1>8 DEF vars, TypeOK
<1>9. QED
  BY <1>2, <1>3, <1>4, <1>5, <1>6, <1>7, <1>8 DEF Next

-----------------------------------------------------------------------------
(* Reservations, receipts and effects *)

\* The effects of a call on everything but the forms, apart from the steps
\* that write the tables.
Posted(s) ==
    /\ At(s, "idle")
    /\ \E c \in Call :
          /\ c.pc = "received" /\ c.key \in Keys /\ c.payload \in Payloads
          /\ c.answer = "none"
          /\ call' = [call EXCEPT ![s] = c]
    /\ UNCHANGED <<holder, receipts, effects>>

LEMMA PostPosts ==
  ASSUME NEW s \in Slots, NEW k \in Keys, NEW p \in Payloads,
         NEW f \in Forms \cup {NoForm}, NEW d \in Nat, At(s, "idle"),
         Post(s, k, p, f, d), UNCHANGED <<holder, receipts, effects>>
  PROVE  Posted(s)
<1> DEFINE c == [Idle EXCEPT !.pc = "received", !.key = k, !.payload = p, !.form = f,
                             !.draft = d]
<1>1. c \in Call
  BY DEF Idle, Call, Steps
<1>2. c.pc = "received" /\ c.key = k /\ c.payload = p /\ c.answer = "none"
  BY DEF Idle
<1>3. call' = [call EXCEPT ![s] = c]
  BY DEF Post
<1> HIDE DEF c
<1>4. QED
  BY <1>1, <1>2, <1>3 DEF Posted

LEMMA ReplaySteps ==
  ASSUME TypeOK, [Next]_vars
  PROVE  \/ UNCHANGED <<call, holder, receipts, effects>>
         \/ \E s \in Slots : Posted(s) \/ Work(s) \/ Crash(s)
<1>1. ASSUME NEW f \in Forms, NEW s \in Slots, Send(f, s) PROVE Posted(s)
  <2>1. PICK key \in 1 .. MaxKeys : Post(s, key, form[f].payload, f, form[f].draft)
    BY <1>1 DEF Send
  <2>2. key \in Keys /\ form[f].payload \in Payloads /\ form[f].draft \in Nat
    BY <1>1 DEF Send, TypeOK, Form, Keys
  <2>3. QED
    BY <1>1, <2>1, <2>2, PostPosts DEF Send
<1>2. ASSUME NEW s \in Slots, PostDirect(s) PROVE Posted(s)
  <2>1. PICK k \in Direct, p \in Payloads : Post(s, k, p, NoForm, 0)
    BY <1>2 DEF PostDirect
  <2>2. k \in Keys /\ 0 \in Nat
    BY DEF Keys
  <2>3. QED
    BY <1>2, <2>1, <2>2, PostPosts DEF PostDirect
<1>3. QED
  BY <1>1, <1>2 DEF Next, vars, Edit, GiveUp

LEMMA StepCalls ==
  ASSUME ReplayInv, [Next]_vars
  PROVE  CallsSound' /\ Reserved'
<1>0. /\ TypeOK /\ CallsSound /\ Reserved
      /\ call \in [Slots -> Call]
      /\ holder \in [Keys -> Slots \cup {NoSlot}]
      /\ receipts \in [Keys -> Receipt \cup {NoReceipt}]
      /\ NoSlot \notin Slots
  BY ReplayAssumption DEF ReplayInv, TypeOK
<1>1. CASE UNCHANGED <<call, holder, receipts, effects>>
  BY <1>0, <1>1 DEF CallsSound, Reserved, At
<1>2. ASSUME NEW s \in Slots, Posted(s) PROVE CallsSound' /\ Reserved'
  BY <1>0, <1>2 DEF Posted, CallsSound, Reserved, At
<1>3. ASSUME NEW s \in Slots, Insert(s) PROVE CallsSound' /\ Reserved'
  <2>1. call[s].pc = "received" /\ call[s].key \in Keys /\ call[s] \in Call
    BY <1>0, <1>3 DEF Insert, CallsSound, At
  <2>2. /\ call'[s].pc = "mutate" /\ call'[s].key = call[s].key
        /\ call'[s].payload = call[s].payload /\ call'[s].answer = call[s].answer
        /\ \A t \in Slots \ {s} : call'[t] = call[t]
    BY <1>0, <1>3, <2>1 DEF Insert, Call
  <2>3. /\ holder'[call[s].key] = s
        /\ \A k \in Keys \ {call[s].key} : holder'[k] = holder[k]
    BY <1>0, <1>3, <2>1 DEF Insert
  <2>4. QED
    BY <1>0, <1>3, <2>1, <2>2, <2>3 DEF Insert, KeyFree, CallsSound, Reserved, At
<1>4. ASSUME NEW s \in Slots, Replay(s) PROVE CallsSound' /\ Reserved'
  <2>1. call[s].pc = "received" /\ call[s] \in Call
    BY <1>0, <1>4 DEF Replay, At
  <2>2. /\ call'[s].pc = "answer"
        /\ \A t \in Slots \ {s} : call'[t] = call[t]
    BY <1>0, <1>4, <2>1 DEF Replay, Call
  <2>3. QED
    BY <1>0, <1>4, <2>1, <2>2 DEF Replay, CallsSound, Reserved, At
<1>5. ASSUME NEW s \in Slots, Commit(s) \/ Fail(s) PROVE CallsSound' /\ Reserved'
  <2>1. /\ call[s].pc = "mutate" /\ call[s].key \in Keys /\ call[s] \in Call
        /\ holder[call[s].key] = s
    BY <1>0, <1>5 DEF Commit, Fail, CallsSound, Reserved, At
  <2>2. /\ call'[s].pc = "answer"
        /\ \A t \in Slots \ {s} : call'[t] = call[t]
    <3>1. CASE Commit(s)
      BY <1>0, <2>1, <3>1 DEF Commit, Call
    <3>2. CASE Fail(s)
      <4>1. call' = [call EXCEPT ![s] = [call[s] EXCEPT !.pc = "answer", !.answer = "error"]]
        BY <1>0, <3>2 DEF Fail
      <4>2. [call[s] EXCEPT !.pc = "answer", !.answer = "error"].pc = "answer"
        BY <2>1 DEF Call
      <4>3. QED
        BY <1>0, <4>1, <4>2
    <3>3. QED
      BY <1>5, <3>1, <3>2
  <2>3. /\ holder'[call[s].key] = NoSlot
        /\ \A k \in Keys \ {call[s].key} : holder'[k] = holder[k] /\ receipts'[k] = receipts[k]
    BY <1>0, <1>5, <2>1 DEF Commit, Fail, Release
  <2>4. QED
    BY <1>0, <2>1, <2>2, <2>3 DEF CallsSound, Reserved, At
<1>6. ASSUME NEW s \in Slots, Answer(s) PROVE CallsSound' /\ Reserved'
  BY <1>0, <1>6 DEF Answer, Idle, CallsSound, Reserved, At
<1>7. ASSUME NEW s \in Slots, Crash(s) PROVE CallsSound' /\ Reserved'
  <2>1. /\ call'[s].pc = "idle"
        /\ \A t \in Slots \ {s} : call'[t] = call[t]
    BY <1>0, <1>7 DEF Crash, Idle
  <2>2. \A k \in Keys : holder'[k] = IF holder[k] = s THEN NoSlot ELSE holder[k]
    BY <1>7 DEF Crash
  <2>3. QED
    BY <1>0, <1>7, <2>1, <2>2 DEF Crash, CallsSound, Reserved, At
<1>8. QED
  BY <1>0, <1>1, <1>2, <1>3, <1>4, <1>5, <1>6, <1>7, ReplaySteps DEF Work

LEMMA StepEffects ==
  ASSUME ReplayInv, [Next]_vars
  PROVE  OneEffectPerKey' /\ ReceiptMeansEffect' /\ AnsweredForItsRequest'
<1>0. /\ TypeOK /\ CallsSound /\ Reserved /\ OneEffectPerKey /\ ReceiptMeansEffect
      /\ AnsweredForItsRequest
      /\ call \in [Slots -> Call]
      /\ receipts \in [Keys -> Receipt \cup {NoReceipt}]
      /\ \A s \in Slots : call[s] \in Call
  BY DEF ReplayInv, TypeOK
<1>1. ASSUME UNCHANGED <<receipts, effects>> PROVE OneEffectPerKey' /\ ReceiptMeansEffect'
  BY <1>0, <1>1 DEF OneEffectPerKey, ReceiptMeansEffect
<1>2. ASSUME effects' = effects, NEW s \in Slots, NEW c,
             call' = [call EXCEPT ![s] = c],
             c.answer = "ok" => /\ c.body \in DOMAIN effects
                                /\ effects[c.body].key = c.key
                                /\ effects[c.body].payload = c.payload
      PROVE  AnsweredForItsRequest'
  BY <1>0, <1>2 DEF AnsweredForItsRequest
<1>3. CASE UNCHANGED <<call, holder, receipts, effects>>
  BY <1>0, <1>1, <1>3 DEF AnsweredForItsRequest
<1>4. ASSUME NEW s \in Slots, Posted(s)
      PROVE  OneEffectPerKey' /\ ReceiptMeansEffect' /\ AnsweredForItsRequest'
  BY <1>1, <1>2, <1>4 DEF Posted
<1>5. ASSUME NEW s \in Slots, Insert(s) \/ Fail(s) \/ Answer(s) \/ Crash(s)
      PROVE  OneEffectPerKey' /\ ReceiptMeansEffect' /\ AnsweredForItsRequest'
  <2>1. PICK c : call' = [call EXCEPT ![s] = c] /\ c.answer # "ok"
    <3>1. CASE Insert(s)
      <4>1. /\ call' = [call EXCEPT ![s] = [call[s] EXCEPT !.pc = "mutate"]]
            /\ [call[s] EXCEPT !.pc = "mutate"].answer = "none"
        BY <1>0, <3>1 DEF Insert, CallsSound, At, Call
      <4>2. QED
        BY <4>1
    <3>2. CASE Fail(s)
      <4>1. /\ call' = [call EXCEPT ![s] = [call[s] EXCEPT !.pc = "answer", !.answer = "error"]]
            /\ [call[s] EXCEPT !.pc = "answer", !.answer = "error"].answer = "error"
        BY <1>0, <3>2 DEF Fail, Call
      <4>2. QED
        BY <4>1
    <3>3. CASE Answer(s) \/ Crash(s)
      <4>1. call' = [call EXCEPT ![s] = Idle] /\ Idle.answer = "none"
        BY <3>3 DEF Answer, Crash, Idle
      <4>2. QED
        BY <4>1
    <3>4. QED
      BY <1>5, <3>1, <3>2, <3>3
  <2>2. UNCHANGED <<receipts, effects>>
    BY <1>5 DEF Insert, Fail, Answer, Crash
  <2>3. QED
    BY <1>1, <1>2, <2>1, <2>2
<1>6. ASSUME NEW s \in Slots, Replay(s)
      PROVE  OneEffectPerKey' /\ ReceiptMeansEffect' /\ AnsweredForItsRequest'
  <2> DEFINE rc == receipts[call[s].key]
  <2>1. call[s].key \in Keys /\ rc # NoReceipt
    BY <1>0, <1>6 DEF Replay, CallsSound, At
  <2>2. /\ rc.body \in DOMAIN effects
        /\ effects[rc.body].key = call[s].key
        /\ effects[rc.body].payload = rc.hash
    BY <1>0, <2>1 DEF ReceiptMeansEffect
  <2>3. CASE SameRequest(s)
    <3> DEFINE c == [call[s] EXCEPT !.pc = "answer", !.answer = "ok", !.body = rc.body]
    <3>1. call' = [call EXCEPT ![s] = c]
      BY <1>0, <1>6, <2>3 DEF Replay
    <3>2. c.body = rc.body /\ c.key = call[s].key /\ c.payload = call[s].payload
      BY <1>0 DEF Call
    <3>3. rc.hash = call[s].payload /\ UNCHANGED <<receipts, effects>>
      BY <1>6, <2>3 DEF Replay, SameRequest
    <3> HIDE DEF c
    <3>4. AnsweredForItsRequest'
      BY <1>2, <2>2, <3>1, <3>2, <3>3
    <3>5. QED
      BY <1>1, <3>3, <3>4
  <2>4. CASE ~SameRequest(s)
    <3> DEFINE c == [call[s] EXCEPT !.pc = "answer", !.answer = "conflict"]
    <3>1. call' = [call EXCEPT ![s] = c] /\ c.answer = "conflict"
      BY <1>0, <1>6, <2>4 DEF Replay, Call
    <3>2. QED
      BY <1>1, <1>2, <1>6, <3>1 DEF Replay
  <2>5. QED
    BY <2>3, <2>4
<1>7. ASSUME NEW s \in Slots, Commit(s)
      PROVE  OneEffectPerKey' /\ ReceiptMeansEffect' /\ AnsweredForItsRequest'
  <2> DEFINE n == Len(effects) + 1
             key == call[s].key
  <2>1. /\ key \in Keys /\ call[s].payload \in Payloads
        /\ receipts[key] = NoReceipt
    BY <1>0, <1>7 DEF Commit, CallsSound, Reserved, At
  <2>2. PICK e \in Effect : /\ e.key = key /\ e.payload = call[s].payload
                            /\ effects' = Append(effects, e)
    <3> DEFINE e == [key |-> call[s].key, payload |-> call[s].payload,
                     form |-> call[s].form, draft |-> call[s].draft]
    <3>1. e \in Effect
      BY <1>0, <2>1 DEF Effect, Call
    <3>2. effects' = Append(effects, e)
      BY <1>7 DEF Commit
    <3>3. QED
      BY <3>1, <3>2
  <2>3. /\ Len(effects) \in Nat
        /\ DOMAIN effects = 1 .. Len(effects)
        /\ DOMAIN effects' = 1 .. n
        /\ \A i \in 1 .. Len(effects) : effects'[i] = effects[i]
        /\ effects'[n] = e
    BY <1>0, <2>2, EffectsAppend
  <2>4. \A i \in 1 .. Len(effects) : effects[i].key # key
    BY <1>0, <2>1, <2>3 DEF ReceiptMeansEffect
  <2>5. /\ receipts'[key] = [hash |-> call[s].payload, body |-> n]
        /\ \A k \in Keys \ {key} : receipts'[k] = receipts[k]
    BY <1>0, <1>7, <2>1 DEF Commit
  <2>6. OneEffectPerKey'
    BY <1>0, <2>2, <2>3, <2>4 DEF OneEffectPerKey
  <2>7. ReceiptMeansEffect'
    <3>1. receipts'[key] # NoReceipt
      BY <2>3, <2>5 DEF NoReceipt
    <3>2. ASSUME NEW k \in Keys
          PROVE  LET done == {i \in DOMAIN effects' : effects'[i].key = k} IN
                 IF receipts'[k] = NoReceipt THEN done = {}
                 ELSE /\ receipts'[k].body \in done
                      /\ effects'[receipts'[k].body].payload = receipts'[k].hash
      <4>1. CASE k = key
        BY <2>2, <2>3, <2>5, <3>1, <4>1
      <4>2. CASE k # key
        BY <1>0, <2>2, <2>3, <2>5, <4>2 DEF ReceiptMeansEffect
      <4>3. QED
        BY <4>1, <4>2
    <3>3. QED
      BY <3>2 DEF ReceiptMeansEffect
  <2>8. AnsweredForItsRequest'
    <3>1. call' = [call EXCEPT ![s] =
                     [call[s] EXCEPT !.pc = "answer", !.answer = "ok", !.body = n]]
      BY <1>0, <1>7 DEF Commit
    <3>2. /\ call'[s].body = n /\ call'[s].key = key
          /\ call'[s].payload = call[s].payload
          /\ \A t \in Slots \ {s} : call'[t] = call[t]
      BY <1>0, <3>1 DEF Call
    <3>3. QED
      BY <1>0, <2>2, <2>3, <3>2 DEF AnsweredForItsRequest
  <2>9. QED
    BY <2>6, <2>7, <2>8
<1>8. QED
  BY <1>0, <1>3, <1>4, <1>5, <1>6, <1>7, ReplaySteps DEF Work

\* The states of keys, receipts and effects stay as ReplayInv says, for any
\* number of calls in flight.
THEOREM ReplayCorrect == Spec => []ReplayInv
<1>1. ReplayInv /\ [Next]_vars => ReplayInv'
  <2> SUFFICES ASSUME ReplayInv, [Next]_vars PROVE ReplayInv'
    OBVIOUS
  <2>1. TypeOK'
    BY StepTypes DEF ReplayInv
  <2>2. QED
    BY <2>1, StepCalls, StepEffects DEF ReplayInv
<1>2. QED
  BY <1>1, InitReplayInv, PTL DEF Spec

\* A command sent any number of times under one key is carried out once.
THEOREM KeysActOnce == Spec => []OneEffectPerKey
<1>1. ReplayInv => OneEffectPerKey
  BY DEF ReplayInv
<1>2. QED
  BY <1>1, ReplayCorrect, PTL

\* A receipt exists exactly when the command it stands for was carried out.
THEOREM ReceiptsMeanEffects == Spec => []ReceiptMeansEffect
<1>1. ReplayInv => ReceiptMeansEffect
  BY DEF ReplayInv
<1>2. QED
  BY <1>1, ReplayCorrect, PTL

\* "ok" is only ever said about the effect of the very request answered.
THEOREM AnswersFitRequests == Spec => []AnsweredForItsRequest
<1>1. ReplayInv => AnsweredForItsRequest
  BY DEF ReplayInv
<1>2. QED
  BY <1>1, ReplayCorrect, PTL

-----------------------------------------------------------------------------
(* Forms.  Only Send and PostDirect add to what was sent. *)

\* A call goes on, or is forgotten, without becoming another command.
LEMMA GoesOn ==
  ASSUME TypeOK, NEW s \in Slots, NEW c, call' = [call EXCEPT ![s] = c],
         effects' = effects,
         c.pc = "idle" \/ (~At(s, "idle") /\ Command(c) = Command(call[s]))
  PROVE  Sent' \subseteq Sent
<1>1. /\ call'[s] = c
      /\ \A u \in Slots \ {s} : call'[u] = call[u]
  BY DEF TypeOK
<1>2. ASSUME NEW u \in Slots, call'[u].pc # "idle" PROVE Command(call'[u]) \in Sent
  <2>1. CASE u = s
    BY <1>1, <1>2, <2>1 DEF Sent
  <2>2. CASE u # s
    BY <1>1, <1>2, <2>2 DEF Sent, At
  <2>. QED
    BY <2>1, <2>2
<1>. QED
  BY <1>2 DEF Sent, At

\* A committed command was at work before.
LEMMA CommitGoesOn ==
  ASSUME TypeOK, CallsSound, NEW s \in Slots, Commit(s)
  PROVE  Sent' \subseteq Sent
<1>1. call[s] \in Call /\ call[s].key \in Keys /\ call[s].payload \in Payloads
      /\ ~At(s, "idle")
  BY DEF TypeOK, CallsSound, Commit, At
<1>2. Command(call[s]) \in Effect /\ Command(call[s]) \in Sent
  BY <1>1 DEF Command, Effect, Call, Sent
<1>3. effects' = Append(effects, Command(call[s]))
  BY DEF Commit, Command
<1>4. /\ call'[s] = [call[s] EXCEPT !.pc = "answer", !.answer = "ok",
                                     !.body = Len(effects) + 1]
      /\ \A u \in Slots \ {s} : call'[u] = call[u]
  BY <1>1 DEF Commit, TypeOK
<1>5. Command(call'[s]) = Command(call[s])
  BY <1>1, <1>4 DEF Command, Call
<1>6. \A i \in DOMAIN effects' : effects'[i] \in Sent
  <2>1. ASSUME NEW i \in DOMAIN effects' PROVE effects'[i] \in Sent
    <3>1. i \in 1 .. Len(effects) \/ i = Len(effects) + 1
      BY <1>2, <1>3, EffectsAppend
    <3>2. CASE i \in 1 .. Len(effects)
      BY <1>2, <1>3, <3>2, EffectsAppend DEF Sent
    <3>3. CASE i = Len(effects) + 1
      BY <1>2, <1>3, <3>3, EffectsAppend
    <3>. QED
      BY <3>1, <3>2, <3>3
  <2>. QED
    BY <2>1
<1>7. \A u \in Slots : call'[u].pc # "idle" => Command(call'[u]) \in Sent
  BY <1>2, <1>4, <1>5 DEF Sent, At
<1>. QED
  BY <1>6, <1>7 DEF Sent, At

LEMMA PostAdds ==
  ASSUME TypeOK, NEW s \in Slots, NEW k, NEW p, NEW f, NEW d,
         At(s, "idle"), Post(s, k, p, f, d), effects' = effects
  PROVE  /\ Sent' \subseteq Sent \cup {[key |-> k, payload |-> p, form |-> f, draft |-> d]}
         /\ \A u \in Slots : call'[u].answer = "conflict" => u # s
<1> DEFINE c == [Idle EXCEPT !.pc = "received", !.key = k, !.payload = p, !.form = f,
                             !.draft = d]
<1>1. /\ c.key = k /\ c.payload = p /\ c.form = f /\ c.draft = d
      /\ c.answer = "none"
  BY DEF Idle
<1>2. call' = [call EXCEPT ![s] = c]
  BY DEF Post
<1> HIDE DEF c
<1>3. /\ call'[s] = c
      /\ \A u \in Slots \ {s} : call'[u] = call[u]
  BY <1>2 DEF TypeOK
<1>4. Command(c) = [key |-> k, payload |-> p, form |-> f, draft |-> d]
  BY <1>1 DEF Command
<1>. QED
  BY <1>1, <1>3, <1>4 DEF Sent, At

\* A form is left as it is but for the call it awaits, or goes on to another
\* draft with its key or, if it does not compare, without one.
Kept(f) == /\ form'[f].key = form[f].key
           /\ form'[f].keyed = form[f].keyed
           /\ form'[f].payload = form[f].payload
           /\ form'[f].draft = form[f].draft

MovedOn(f) == /\ form'[f].draft \in Nat /\ form'[f].draft > form[f].draft
              /\ \/ form'[f].key = NoKey
                 \/ /\ f \in Comparing
                    /\ form'[f].key = form[f].key
                    /\ form'[f].keyed = form[f].keyed

FormsStay == /\ Sent' \subseteq Sent
             /\ issued' = issued
             /\ \A f \in Forms : Kept(f) \/ MovedOn(f)

\* What is sent has the types of a command.
LEMMA SentTyped ==
  ASSUME TypeOK, NEW e \in Sent
  PROVE  e.draft \in Nat
<1>1. \A s \in Slots : call[s].draft \in Nat
  BY DEF TypeOK, Call
<1>2. \A i \in DOMAIN effects : effects[i].draft \in Nat
  <2>1. \A i \in DOMAIN effects : effects[i] \in Effect
    BY ElementOfSeq, LenProperties DEF TypeOK
  <2>. QED
    BY <2>1 DEF Effect
<1>. QED
  BY <1>1, <1>2 DEF Sent, Command

\* No command carries the key of a form that has none.
LEMMA SentHasKey ==
  ASSUME KeysAreForms, NEW e \in Sent, TypeOK
  PROVE  e.key # NoKey
  BY ReplayAssumption DEF KeysAreForms, NoKey, TypeOK

\* Every step but those that send leaves the forms sound.
LEMMA StayKeeps ==
  ASSUME TypeOK, KeysAreForms, DraftsHaveOneKey, \A f \in Forms : FormSound(f),
         FormsStay
  PROVE  KeysAreForms' /\ DraftsHaveOneKey' /\ \A f \in Forms : FormSound(f)'
<1>1. KeysAreForms'
  BY DEF FormsStay, KeysAreForms
<1>2. DraftsHaveOneKey'
  BY DEF FormsStay, DraftsHaveOneKey
<1>3. ASSUME NEW f \in Forms PROVE FormSound(f)'
  <2>0. /\ issued \in Nat /\ form[f].draft \in Nat
        /\ \A e \in Sent : e.key # NoKey /\ e.draft \in Nat
    BY SentTyped, SentHasKey DEF TypeOK, Form
  <2>1. \A h \in Forms : form'[h].key = form[h].key \/ form'[h].key = NoKey
    BY DEF FormsStay, Kept, MovedOn
  <2>2. form'[f].key \in 0 .. issued'
    BY <2>0, <2>1 DEF FormsStay, FormSound, NoKey
  <2>3. form'[f].key # NoKey /\ f \notin Comparing => form'[f].keyed = form'[f].payload
    BY DEF FormsStay, Kept, MovedOn, FormSound
  <2>4. \A h \in Forms \ {f} : form'[f].key # NoKey => form'[h].key # form'[f].key
    BY <2>1 DEF FormSound
  <2>5. ASSUME NEW e \in Sent', e.key = form'[f].key
        PROVE  e.form = f /\ e.payload = form'[f].keyed
    BY <2>0, <2>5 DEF FormsStay, Kept, MovedOn, FormSound
  <2>6. ASSUME NEW e \in Sent', e.form = f
        PROVE  /\ e.draft <= form'[f].draft
               /\ e.draft = form'[f].draft =>
                     form'[f].key = e.key /\ form'[f].payload = e.payload
    <3>1. e \in Sent /\ e.draft <= form[f].draft /\ e.draft \in Nat
      BY <2>0, <2>6 DEF FormsStay, FormSound
    <3>2. CASE Kept(f)
      BY <2>6, <3>1, <3>2 DEF Kept, FormSound
    <3>3. CASE MovedOn(f)
      BY <2>0, <3>1, <3>3 DEF MovedOn
    <3>. QED
      BY <3>2, <3>3 DEF FormsStay
  <2>. QED
    BY <2>2, <2>3, <2>4, <2>5, <2>6 DEF FormSound
<1>. QED
  BY <1>1, <1>2, <1>3

\* A form that sends uses the key of this draft, if it has one, or a new key.
LEMMA SendKeeps ==
  ASSUME TypeOK, KeysAreForms, DraftsHaveOneKey, \A h \in Forms : FormSound(h),
         NEW f \in Forms, NEW s \in Slots, Send(f, s)
  PROVE  KeysAreForms' /\ DraftsHaveOneKey' /\ \A h \in Forms : FormSound(h)'
<1>0. /\ issued \in Nat /\ form \in [Forms -> Form]
      /\ form[f].draft \in Nat /\ f # NoForm
      /\ \A e \in Sent : e.key # NoKey /\ e.draft \in Nat
      /\ Direct \cap Nat = {} /\ NoKey = 0
  BY SentTyped, SentHasKey, ReplayAssumption DEF TypeOK, Form, NoKey
<1>1. PICK k \in 1 .. MaxKeys :
        /\ \/ KeepsKey(f) /\ k = form[f].key /\ issued' = issued
           \/ ~KeepsKey(f) /\ k = issued + 1 /\ issued' = k
        /\ form' = [form EXCEPT ![f].key = k, ![f].keyed = form[f].payload,
                                ![f].slot = s]
        /\ Post(s, k, form[f].payload, f, form[f].draft)
  BY DEF Send
<1> DEFINE new == [key |-> k, payload |-> form[f].payload, form |-> f,
                   draft |-> form[f].draft]
<1>2. Sent' \subseteq Sent \cup {new}
  BY <1>1, PostAdds DEF Send
<1>3. /\ form'[f].key = k /\ form'[f].keyed = form[f].payload
      /\ form'[f].payload = form[f].payload /\ form'[f].draft = form[f].draft
      /\ \A h \in Forms \ {f} : form'[h] = form[h]
  BY <1>0, <1>1 DEF Form
<1>4. /\ new.key = k /\ new.payload = form[f].payload
      /\ new.form = f /\ new.draft = form[f].draft
  OBVIOUS
<1> HIDE DEF new
<1>5. /\ issued' \in Nat /\ issued <= issued' /\ k \in 1 .. issued'
  <2>1. CASE KeepsKey(f) /\ k = form[f].key /\ issued' = issued
    BY <1>0, <2>1 DEF FormSound
  <2>2. CASE ~KeepsKey(f) /\ k = issued + 1 /\ issued' = k
    BY <1>0, <2>2
  <2>. QED
    BY <1>1, <2>1, <2>2
<1>6. \A e \in Sent : e.key = k => e.form = f /\ e.payload = form[f].payload
  <2>1. CASE KeepsKey(f) /\ k = form[f].key
    <3>1. form[f].keyed = form[f].payload
      BY <2>1 DEF KeepsKey, FormSound
    <3>. QED
      BY <2>1, <3>1 DEF FormSound
  <2>2. CASE k = issued + 1
    <3>1. \A e \in Sent : e.key # k
      BY <1>0, <2>2 DEF KeysAreForms
    <3>. QED
      BY <3>1
  <2>. QED
    BY <1>1, <2>1, <2>2
<1>7. \A e \in Sent : e.form = f /\ e.draft = form[f].draft => e.key = k
  <2>1. CASE KeepsKey(f) /\ k = form[f].key
    BY <2>1 DEF FormSound
  <2>2. CASE ~KeepsKey(f)
    <3>1. ASSUME NEW e \in Sent, e.form = f, e.draft = form[f].draft PROVE FALSE
      <4>1. form[f].key = e.key /\ form[f].payload = e.payload
        BY <3>1 DEF FormSound
      <4>2. form[f].key # NoKey /\ form[f].keyed = e.payload
        BY <1>0, <3>1, <4>1 DEF FormSound
      <4>. QED
        BY <2>2, <4>1, <4>2 DEF KeepsKey
    <3>. QED
      BY <3>1
  <2>. QED
    BY <1>1, <2>1, <2>2
<1>8. \A h \in Forms \ {f} : form[h].key # k
  <2>1. CASE KeepsKey(f) /\ k = form[f].key
    BY <2>1 DEF KeepsKey, FormSound
  <2>2. CASE k = issued + 1
    BY <1>0, <2>2 DEF FormSound
  <2>. QED
    BY <1>1, <2>1, <2>2
<1>9. KeysAreForms'
  <2>1. ASSUME NEW e \in Sent'
        PROVE  IF e.form = NoForm THEN e.key \in Direct ELSE e.key \in 1 .. issued'
    BY <1>0, <1>2, <1>4, <1>5, <2>1 DEF KeysAreForms
  <2>2. ASSUME NEW e \in Sent', NEW d \in Sent', e.key = d.key, e.form # NoForm
        PROVE  e.form = d.form /\ e.payload = d.payload
    BY <1>2, <1>4, <1>6, <2>2 DEF KeysAreForms
  <2>. QED
    BY <2>1, <2>2 DEF KeysAreForms
<1>10. DraftsHaveOneKey'
  <2>1. ASSUME NEW e \in Sent', NEW d \in Sent',
               e.form = d.form, e.draft = d.draft, e.form # NoForm
        PROVE  e.key = d.key
    BY <1>2, <1>4, <1>7, <2>1 DEF DraftsHaveOneKey
  <2>. QED
    BY <2>1 DEF DraftsHaveOneKey
<1>11. FormSound(f)'
  <2>1. ASSUME NEW e \in Sent', e.key = form'[f].key
        PROVE  e.form = f /\ e.payload = form'[f].keyed
    BY <1>2, <1>3, <1>4, <1>6, <2>1
  <2>2. ASSUME NEW e \in Sent', e.form = f
        PROVE  /\ e.draft <= form'[f].draft
               /\ e.draft = form'[f].draft =>
                     form'[f].key = e.key /\ form'[f].payload = e.payload
    <3>1. CASE e = new
      BY <1>0, <1>3, <1>4, <3>1
    <3>2. CASE e \in Sent
      BY <1>3, <1>7, <2>2, <3>2 DEF FormSound
    <3>. QED
      BY <1>2, <3>1, <3>2
  <2>3. \A h \in Forms \ {f} : form'[h].key # form'[f].key
    BY <1>3, <1>8
  <2>4. form'[f].key \in 0 .. issued'
    BY <1>3, <1>5
  <2>. QED
    BY <1>3, <2>1, <2>2, <2>3, <2>4 DEF FormSound
<1>12. ASSUME NEW h \in Forms \ {f} PROVE FormSound(h)'
  <2>0. form'[h] = form[h] /\ FormSound(h)
    BY <1>3
  <2>1. form'[h].key \in 0 .. issued'
    BY <1>0, <1>5, <2>0 DEF FormSound
  <2>2. \A g \in Forms \ {h} : form'[h].key # NoKey => form'[g].key # form'[h].key
    BY <1>3, <1>8, <2>0 DEF FormSound
  <2>3. ASSUME NEW e \in Sent', e.key = form'[h].key
        PROVE  e.form = h /\ e.payload = form'[h].keyed
    BY <1>2, <1>4, <1>8, <2>0, <2>3 DEF FormSound
  <2>4. ASSUME NEW e \in Sent', e.form = h
        PROVE  /\ e.draft <= form'[h].draft
               /\ e.draft = form'[h].draft =>
                     form'[h].key = e.key /\ form'[h].payload = e.payload
    BY <1>2, <1>4, <2>0, <2>4 DEF FormSound
  <2>. QED
    BY <2>0, <2>1, <2>2, <2>3, <2>4 DEF FormSound
<1>. QED
  BY <1>9, <1>10, <1>11, <1>12

\* Keys of other clients are none of the forms'.
LEMMA DirectKeeps ==
  ASSUME TypeOK, KeysAreForms, DraftsHaveOneKey, \A f \in Forms : FormSound(f),
         NEW s \in Slots, PostDirect(s)
  PROVE  KeysAreForms' /\ DraftsHaveOneKey' /\ \A f \in Forms : FormSound(f)'
<1>0. Direct \cap Nat = {} /\ NoForm \notin Forms /\ issued \in Nat
  BY ReplayAssumption DEF TypeOK
<1>1. PICK k \in Direct, p \in Payloads : Post(s, k, p, NoForm, 0)
  BY DEF PostDirect
<1> DEFINE new == [key |-> k, payload |-> p, form |-> NoForm, draft |-> 0]
<1>2. Sent' \subseteq Sent \cup {new} /\ form' = form /\ issued' = issued
  BY <1>1, PostAdds DEF PostDirect
<1>3. new.key = k /\ new.form = NoForm /\ k \notin Nat
  BY <1>0
<1> HIDE DEF new
<1>4. KeysAreForms'
  <2>1. \A e \in Sent : e.form # NoForm => e.key # k
    BY <1>0, <1>3 DEF KeysAreForms
  <2>. QED
    BY <1>2, <1>3, <2>1 DEF KeysAreForms
<1>5. DraftsHaveOneKey'
  BY <1>2, <1>3 DEF DraftsHaveOneKey
<1>6. ASSUME NEW f \in Forms PROVE FormSound(f)'
  <2>1. form[f].key # k /\ f # NoForm
    BY <1>0, <1>3 DEF FormSound
  <2>. QED
    BY <1>2, <1>3, <2>1 DEF FormSound
<1>. QED
  BY <1>4, <1>5, <1>6

\* The answer to a form, or the death of its worker, only frees it or moves it on.
LEMMA AwaitedMoves ==
  ASSUME TypeOK, NEW f \in Forms, NEW s \in Slots,
         \/ form'[f] = form[f]
         \/ form'[f] = [form[f] EXCEPT !.slot = NoSlot]
         \/ form'[f] = Receive(f, s)
  PROVE  Kept(f) \/ MovedOn(f)
<1>0. form[f] \in Form /\ form[f].draft \in Nat
  BY DEF TypeOK, Form
<1>1. CASE form'[f] = form[f]
  BY <1>1 DEF Kept
<1>2. CASE form'[f] = [form[f] EXCEPT !.slot = NoSlot]
  BY <1>0, <1>2 DEF Kept, Form
<1>3. CASE form'[f] = [BlankForm EXCEPT !.draft = form[f].draft + 1]
  <2>1. form'[f].draft = form[f].draft + 1 /\ form'[f].key = NoKey
    BY <1>3 DEF BlankForm
  <2>. QED
    BY <1>0, <2>1 DEF MovedOn
<1>. QED
  BY <1>1, <1>2, <1>3 DEF Receive

LEMMA ElseStays ==
  ASSUME TypeOK, CallsSound, [Next]_vars,
         ~\E s \in Slots : PostDirect(s) \/ \E f \in Forms : Send(f, s)
  PROVE  FormsStay
<1>0. /\ form \in [Forms -> Form] /\ call \in [Slots -> Call]
      /\ \A f \in Forms : form[f].draft \in Nat
  BY DEF TypeOK, Form
<1>1. ASSUME NEW f \in Forms, Edit(f) PROVE FormsStay
  <2>1. Sent' = Sent /\ issued' = issued
    BY <1>1 DEF Edit, Sent, At
  <2>2. PICK p \in Payloads :
          form' = [form EXCEPT ![f].payload = p, ![f].draft = @ + 1,
                               ![f].key = IF f \in Comparing THEN @ ELSE NoKey]
    BY <1>1 DEF Edit
  <2>3. /\ form'[f].draft = form[f].draft + 1
        /\ form'[f].keyed = form[f].keyed
        /\ form'[f].key = IF f \in Comparing THEN form[f].key ELSE NoKey
        /\ \A h \in Forms \ {f} : form'[h] = form[h]
    BY <1>0, <2>2 DEF Form
  <2>. QED
    BY <1>0, <2>1, <2>3 DEF FormsStay, Kept, MovedOn
<1>2. ASSUME NEW f \in Forms, GiveUp(f) PROVE FormsStay
  <2>1. Sent' = Sent /\ issued' = issued
    BY <1>2 DEF GiveUp, Sent, At
  <2>2. \A h \in Forms : Kept(h)
    BY <1>0, <1>2 DEF GiveUp, Form, Kept
  <2>. QED
    BY <2>1, <2>2 DEF FormsStay
<1>3. ASSUME NEW s \in Slots, Insert(s) \/ Replay(s) \/ Fail(s) PROVE FormsStay
  <2>1. PICK c : /\ call' = [call EXCEPT ![s] = c]
                 /\ Command(c) = Command(call[s])
    <3>1. CASE Insert(s)
      <4> DEFINE c == [call[s] EXCEPT !.pc = "mutate"]
      <4>1. call' = [call EXCEPT ![s] = c]
        BY <1>0, <3>1 DEF Insert
      <4>2. Command(c) = Command(call[s])
        BY <1>0 DEF Command, Call
      <4>. QED
        BY <4>1, <4>2
    <3>2. CASE Replay(s)
      <4> DEFINE ok == [call[s] EXCEPT !.pc = "answer", !.answer = "ok",
                                       !.body = receipts[call[s].key].body]
                 no == [call[s] EXCEPT !.pc = "answer", !.answer = "conflict"]
      <4>1. \/ call' = [call EXCEPT ![s] = ok]
            \/ call' = [call EXCEPT ![s] = no]
        BY <1>0, <3>2 DEF Replay
      <4>2. Command(ok) = Command(call[s]) /\ Command(no) = Command(call[s])
        BY <1>0 DEF Command, Call
      <4>. QED
        BY <4>1, <4>2
    <3>3. CASE Fail(s)
      <4> DEFINE c == [call[s] EXCEPT !.pc = "answer", !.answer = "error"]
      <4>1. call' = [call EXCEPT ![s] = c]
        BY <1>0, <3>3 DEF Fail
      <4>2. Command(c) = Command(call[s])
        BY <1>0 DEF Command, Call
      <4>. QED
        BY <4>1, <4>2
    <3>. QED
      BY <1>3, <3>1, <3>2, <3>3
  <2>2. ~At(s, "idle") /\ UNCHANGED <<form, issued, effects>>
    BY <1>3 DEF Insert, Replay, Fail, At
  <2>3. Sent' \subseteq Sent
    BY <2>1, <2>2, GoesOn
  <2>. QED
    BY <2>2, <2>3 DEF FormsStay, Kept
<1>4. ASSUME NEW s \in Slots, Commit(s) PROVE FormsStay
  BY <1>4, CommitGoesOn DEF Commit, FormsStay, Kept
<1>5. ASSUME NEW s \in Slots, Answer(s) \/ Crash(s) PROVE FormsStay
  <2>1. Sent' \subseteq Sent
    <3>1. call' = [call EXCEPT ![s] = Idle] /\ effects' = effects /\ Idle.pc = "idle"
      BY <1>5 DEF Answer, Crash, Idle
    <3>. QED
      BY <3>1, GoesOn
  <2>2. \A f \in Forms : \/ form'[f] = form[f]
                         \/ form'[f] = [form[f] EXCEPT !.slot = NoSlot]
                         \/ form'[f] = Receive(f, s)
    BY <1>5 DEF Answer, Crash
  <2>. QED
    BY <1>5, <2>1, <2>2, AwaitedMoves DEF FormsStay, Answer, Crash
<1>6. CASE UNCHANGED vars
  BY <1>6 DEF vars, FormsStay, Kept, Sent, At
<1>. QED
  BY <1>1, <1>2, <1>3, <1>4, <1>5, <1>6 DEF Next, Work

\* A key met again by its form is met with the payload it was made for.
LEMMA NoConflict ==
  ASSUME ReplayInv, KeysAreForms, FormsNeverConflict, [Next]_vars
  PROVE  FormsNeverConflict'
<1>0. TypeOK /\ CallsSound /\ ReceiptMeansEffect /\ call \in [Slots -> Call]
  BY DEF ReplayInv, TypeOK
<1>1. ASSUME NEW s \in Slots, Replay(s), call[s].form # NoForm
      PROVE  SameRequest(s)
  <2> DEFINE k == call[s].key
             e == effects[receipts[k].body]
  <2>1. k \in Keys /\ Command(call[s]) \in Sent
    BY <1>0, <1>1 DEF Replay, CallsSound, Sent, At
  <2>2. /\ receipts[k].body \in DOMAIN effects
        /\ e.key = k /\ e.payload = receipts[k].hash
    BY <1>0, <1>1, <2>1 DEF Replay, ReceiptMeansEffect
  <2>3. e \in Sent
    BY <2>2 DEF Sent
  <2>4. e.payload = call[s].payload
    BY <1>1, <2>1, <2>2, <2>3 DEF KeysAreForms, Command
  <2>. QED
    BY <2>2, <2>4 DEF SameRequest
<1>2. CASE UNCHANGED <<call, holder, receipts, effects>>
  BY <1>2 DEF FormsNeverConflict
<1>3. ASSUME NEW s \in Slots, NEW c, call' = [call EXCEPT ![s] = c],
             c.answer = "conflict" => c.form = NoForm \/ c = call[s]
      PROVE  FormsNeverConflict'
  BY <1>0, <1>3 DEF FormsNeverConflict
<1>4. ASSUME NEW s \in Slots, Posted(s) PROVE FormsNeverConflict'
  BY <1>3, <1>4 DEF Posted
<1>5. ASSUME NEW s \in Slots, Work(s) \/ Crash(s) PROVE FormsNeverConflict'
  <2>0. call[s] \in Call
    BY <1>0
  <2>1. CASE Insert(s)
    <3>1. /\ [call[s] EXCEPT !.pc = "mutate"].answer = call[s].answer
          /\ call[s].answer = "none"
      BY <1>0, <2>0, <2>1 DEF Insert, CallsSound, Call, At
    <3>2. call' = [call EXCEPT ![s] = [call[s] EXCEPT !.pc = "mutate"]]
      BY <1>0, <2>1 DEF Insert
    <3>. QED
      BY <1>3, <3>1, <3>2
  <2>2. CASE Replay(s)
    <3>1. CASE SameRequest(s)
      <4>1. call' = [call EXCEPT ![s] =
                       [call[s] EXCEPT !.pc = "answer", !.answer = "ok",
                                       !.body = receipts[call[s].key].body]]
        BY <2>2, <3>1 DEF Replay
      <4>2. [call[s] EXCEPT !.pc = "answer", !.answer = "ok",
                            !.body = receipts[call[s].key].body].answer = "ok"
        BY <2>0 DEF Call
      <4>. QED
        BY <1>3, <4>1, <4>2
    <3>2. CASE ~SameRequest(s)
      <4>1. call[s].form = NoForm
        BY <1>1, <2>2, <3>2
      <4>2. call' = [call EXCEPT ![s] =
                       [call[s] EXCEPT !.pc = "answer", !.answer = "conflict"]]
        BY <2>2, <3>2 DEF Replay
      <4>3. [call[s] EXCEPT !.pc = "answer", !.answer = "conflict"].form = NoForm
        BY <2>0, <4>1 DEF Call
      <4>. QED
        BY <1>3, <4>2, <4>3
    <3>. QED
      BY <3>1, <3>2
  <2>3. CASE Commit(s)
    <3> DEFINE c == [call[s] EXCEPT !.pc = "answer", !.answer = "ok",
                                    !.body = Len(effects) + 1]
    <3>1. call' = [call EXCEPT ![s] = c]
      BY <2>3 DEF Commit
    <3>2. c.answer = "ok"
      BY <2>0 DEF Call
    <3> HIDE DEF c
    <3>. QED
      BY <1>3, <3>1, <3>2
  <2>4. CASE Fail(s)
    <3> DEFINE c == [call[s] EXCEPT !.pc = "answer", !.answer = "error"]
    <3>1. call' = [call EXCEPT ![s] = c]
      BY <1>0, <2>4 DEF Fail
    <3>2. c.answer = "error"
      BY <2>0 DEF Call
    <3> HIDE DEF c
    <3>. QED
      BY <1>3, <3>1, <3>2
  <2>5. CASE Answer(s) \/ Crash(s)
    <3>1. call' = [call EXCEPT ![s] = Idle] /\ Idle.answer = "none"
      BY <2>5 DEF Answer, Crash, Idle
    <3>. QED
      BY <1>3, <3>1
  <2>. QED
    BY <1>5, <2>1, <2>2, <2>3, <2>4, <2>5 DEF Work
<1>. QED
  BY <1>0, <1>2, <1>4, <1>5, ReplaySteps

\* The inductive invariant of forms: a key stands for one content of one form,
\* a draft has one key.
THEOREM FormsCorrect == Spec => []FormsInv
<1>1. Init => FormsInv
  <2> SUFFICES ASSUME Init PROVE FormsInv
    OBVIOUS
  <2>1. Sent = {}
    BY DEF Init, Sent, At, Idle
  <2>2. \A f \in Forms : form[f].key = NoKey /\ issued = 0
    BY DEF Init, BlankForm
  <2>3. FormsNeverConflict
    BY DEF Init, FormsNeverConflict, Idle
  <2>. QED
    BY <2>1, <2>2, <2>3 DEF FormsInv, KeysAreForms, DraftsHaveOneKey, FormSound, NoKey
<1>2. ReplayInv /\ FormsInv /\ [Next]_vars => FormsInv'
  <2> SUFFICES ASSUME ReplayInv, FormsInv, [Next]_vars PROVE FormsInv'
    OBVIOUS
  <2>0. /\ TypeOK /\ CallsSound /\ KeysAreForms /\ DraftsHaveOneKey
        /\ \A f \in Forms : FormSound(f)
    BY DEF ReplayInv, FormsInv
  <2>1. KeysAreForms' /\ DraftsHaveOneKey' /\ \A f \in Forms : FormSound(f)'
    BY <2>0, ElseStays, StayKeeps, SendKeeps, DirectKeeps
  <2>2. FormsNeverConflict'
    BY NoConflict DEF FormsInv
  <2>. QED
    BY <2>1, <2>2 DEF FormsInv
<1>. QED
  BY <1>1, <1>2, ReplayCorrect, PTL DEF Spec

\* Retrying a form without changing it never carries its command out twice.
THEOREM DraftsActOnce == Spec => []OneEffectPerDraft
<1>1. ReplayInv /\ FormsInv => OneEffectPerDraft
  <2> SUFFICES ASSUME ReplayInv, FormsInv,
                      NEW i \in DOMAIN effects, NEW j \in DOMAIN effects,
                      effects[i].form # NoForm, effects[i].form = effects[j].form,
                      effects[i].draft = effects[j].draft
               PROVE  i = j
    BY DEF OneEffectPerDraft
  <2>1. effects[i] \in Sent /\ effects[j] \in Sent
    BY DEF Sent
  <2>2. effects[i].key = effects[j].key
    BY <2>1 DEF FormsInv, DraftsHaveOneKey
  <2>. QED
    BY <2>2 DEF ReplayInv, OneEffectPerKey
<1>. QED
  BY <1>1, ReplayCorrect, FormsCorrect, PTL

\* No form is told that its key was used with another payload.
THEOREM FormsMeetNoConflict == Spec => []FormsNeverConflict
<1>1. FormsInv => FormsNeverConflict
  BY DEF FormsInv
<1>. QED
  BY <1>1, FormsCorrect, PTL

=============================================================================
