--------------------------- MODULE ReplayReceipts ---------------------------
(***************************************************************************)
(* Commands that carry an Idempotency-Key: the forms of the web client     *)
(* (components/submissions/RevisionPanel.tsx, app/submissions/page.tsx)    *)
(* that keep a key across retries, and the server's                        *)
(* _execute_mobile_replay_operation, which writes a receipt of the key and *)
(* makes the command's changes in one transaction.                         *)
(*                                                                         *)
(* All keys belong to one scope (tenant, operation, route, resource).  An  *)
(* answer may never reach its client, a client may give up while its call  *)
(* is still being worked on, and a worker may die at any statement.        *)
(***************************************************************************)
EXTENDS Naturals, Sequences, Functions

CONSTANTS
    Slots,       \* calls the server works on at the same time
    Forms,       \* forms open in browsers
    Comparing,   \* forms that keep a fingerprint of what the key was made for
    Direct,      \* keys chosen by other clients of the API
    Payloads,    \* contents of a command
    MaxKeys,     \* bound: keys made by forms
    MaxDrafts,   \* bound: drafts written in one form
    MaxEffects,  \* bound: commands carried out
    NoSlot, NoForm, NoPayload

NoKey == 0
Keys == (1 .. MaxKeys) \cup Direct

ASSUME ReplayAssumption ==
    /\ NoSlot \notin Slots
    /\ NoForm \notin Forms
    /\ NoPayload \notin Payloads
    /\ Comparing \subseteq Forms
    /\ Direct \cap Nat = {}
    /\ MaxKeys \in Nat /\ MaxDrafts \in Nat /\ MaxEffects \in Nat

VARIABLES
    form,      \* what each form holds, and the call it awaits
    issued,    \* keys made so far (crypto.randomUUID)
    call,      \* what each call in flight is doing
    holder,    \* the open transaction that has inserted a key's receipt
    receipts,  \* committed receipts
    effects    \* commands carried out, in commit order

vars == <<form, issued, call, holder, receipts, effects>>

-----------------------------------------------------------------------------
(* The shape of the state *)

Effect == [key: Keys, payload: Payloads, form: Forms \cup {NoForm}, draft: Nat]
Receipt == [hash: Payloads, body: Nat]
NoReceipt == [hash |-> NoPayload, body |-> 0]

\* keyed is the payload of the attempt's fingerprint.
Form == [payload: Payloads \cup {NoPayload}, draft: Nat, key: Keys \cup {NoKey},
         keyed: Payloads \cup {NoPayload}, slot: Slots \cup {NoSlot}]

Steps == {"idle", "received", "mutate", "answer"}

Call == [pc: Steps, key: Keys \cup {NoKey}, payload: Payloads \cup {NoPayload},
         form: Forms \cup {NoForm}, draft: Nat,
         answer: {"none", "ok", "conflict", "error"}, body: Nat]

BlankForm == [payload |-> NoPayload, draft |-> 0, key |-> NoKey,
              keyed |-> NoPayload, slot |-> NoSlot]
Idle == [pc |-> "idle", key |-> NoKey, payload |-> NoPayload, form |-> NoForm,
         draft |-> 0, answer |-> "none", body |-> 0]

TypeOK ==
    /\ form \in [Forms -> Form]
    /\ issued \in 0 .. MaxKeys
    /\ call \in [Slots -> Call]
    /\ holder \in [Keys -> Slots \cup {NoSlot}]
    /\ receipts \in [Keys -> Receipt \cup {NoReceipt}]
    /\ effects \in Seq(Effect)

Init ==
    /\ form = [f \in Forms |-> BlankForm]
    /\ issued = 0
    /\ call = [s \in Slots |-> Idle]
    /\ holder = [k \in Keys |-> NoSlot]
    /\ receipts = [k \in Keys |-> NoReceipt]
    /\ effects = <<>>

At(s, step) == call[s].pc = step

-----------------------------------------------------------------------------
(* The forms *)

\* The user types; inputs stay enabled while a call is in flight.  The
\* resubmit form forgets its key on every change.
Edit(f) ==
    /\ form[f].draft < MaxDrafts
    /\ \E p \in Payloads \ {form[f].payload} :
          form' = [form EXCEPT ![f].payload = p, ![f].draft = @ + 1,
                               ![f].key = IF f \in Comparing THEN @ ELSE NoKey]
    /\ UNCHANGED <<issued, call, holder, receipts, effects>>

\* Mutant: a key kept whatever the form now says.
KeepsAnyKey(f) == form[f].key # NoKey

KeepsKey(f) ==
    /\ form[f].key # NoKey
    /\ f \in Comparing => form[f].keyed = form[f].payload

Post(s, k, p, f, d) ==
    call' = [call EXCEPT ![s] = [Idle EXCEPT !.pc = "received", !.key = k,
                                    !.payload = p, !.form = f, !.draft = d]]

\* Mutant: a new key for every click.
SendWithNewKey(f, s) ==
    /\ form[f].slot = NoSlot
    /\ form[f].payload # NoPayload
    /\ At(s, "idle")
    /\ issued < MaxKeys
    /\ issued' = issued + 1
    /\ form' = [form EXCEPT ![f].key = issued + 1, ![f].keyed = form[f].payload,
                            ![f].slot = s]
    /\ Post(s, issued + 1, form[f].payload, f, form[f].draft)
    /\ UNCHANGED <<holder, receipts, effects>>

Send(f, s) ==
    /\ form[f].slot = NoSlot
    /\ form[f].payload # NoPayload
    /\ At(s, "idle")
    /\ \E key \in 1 .. MaxKeys :
          /\ \/ KeepsKey(f) /\ key = form[f].key /\ UNCHANGED issued
             \/ ~KeepsKey(f) /\ key = issued + 1 /\ issued' = key
          /\ form' = [form EXCEPT ![f].key = key, ![f].keyed = form[f].payload,
                                  ![f].slot = s]
          /\ Post(s, key, form[f].payload, f, form[f].draft)
    /\ UNCHANGED <<holder, receipts, effects>>

\* fetch rejects, or a proxy answers in the server's stead: the form shows an
\* error and can be sent again, the call goes on.
GiveUp(f) ==
    /\ form[f].slot # NoSlot
    /\ form' = [form EXCEPT ![f].slot = NoSlot]
    /\ UNCHANGED <<issued, call, holder, receipts, effects>>

\* Any other client may send any key with any payload, and send it again.
PostDirect(s) ==
    /\ At(s, "idle")
    /\ \E k \in Direct, p \in Payloads : Post(s, k, p, NoForm, 0)
    /\ UNCHANGED <<form, issued, holder, receipts, effects>>

-----------------------------------------------------------------------------
(* The server *)

\* Mutant: a unique index that does not cover this scope.
IndexMisses(k) == TRUE

\* INSERT ... ON CONFLICT waits for the transaction that inserted the key.
KeyFree(k) == holder[k] = NoSlot

Insert(s) ==
    /\ At(s, "received")
    /\ KeyFree(call[s].key)
    /\ receipts[call[s].key] = NoReceipt
    /\ holder' = [holder EXCEPT ![call[s].key] = s]
    /\ call' = [call EXCEPT ![s].pc = "mutate"]
    /\ UNCHANGED <<form, issued, receipts, effects>>

\* Mutant: the stored body is returned whatever was asked.
AnyRequest(s) == TRUE

SameRequest(s) == receipts[call[s].key].hash = call[s].payload

\* DO NOTHING, then SELECT and classify_duplicate_replay
Replay(s) ==
    /\ At(s, "received")
    /\ KeyFree(call[s].key)
    /\ receipts[call[s].key] # NoReceipt
    /\ call' = [call EXCEPT ![s] =
          IF SameRequest(s)
          THEN [@ EXCEPT !.pc = "answer", !.answer = "ok",
                         !.body = receipts[call[s].key].body]
          ELSE [@ EXCEPT !.pc = "answer", !.answer = "conflict"]]
    /\ UNCHANGED <<form, issued, holder, receipts, effects>>

Release(k) == holder' = [holder EXCEPT ![k] = NoSlot]

\* The command succeeds; receipt and changes commit together.
Commit(s) ==
    /\ At(s, "mutate")
    /\ Len(effects) < MaxEffects
    /\ LET c == call[s] IN
          /\ effects' = Append(effects, [key |-> c.key, payload |-> c.payload,
                                         form |-> c.form, draft |-> c.draft])
          /\ receipts' = [receipts EXCEPT ![c.key] =
                             [hash |-> c.payload, body |-> Len(effects) + 1]]
          /\ Release(c.key)
    /\ call' = [call EXCEPT ![s] = [@ EXCEPT !.pc = "answer", !.answer = "ok",
                                             !.body = Len(effects) + 1]]
    /\ UNCHANGED <<form, issued>>

\* Mutant: a refusal that commits the receipt it inserted.
FailKeepsReceipt(s) ==
    /\ At(s, "mutate")
    /\ Release(call[s].key)
    /\ receipts' = [receipts EXCEPT ![call[s].key] =
                       [hash |-> call[s].payload, body |-> 0]]
    /\ call' = [call EXCEPT ![s].pc = "answer", ![s].answer = "error"]
    /\ UNCHANGED <<form, issued, effects>>

\* The command is refused: the exception rolls the receipt back with it.
Fail(s) ==
    /\ At(s, "mutate")
    /\ Release(call[s].key)
    /\ call' = [call EXCEPT ![s].pc = "answer", ![s].answer = "error"]
    /\ UNCHANGED <<form, issued, receipts, effects>>

Awaits(f, s) == form[f].slot = s /\ call[s].form = f

\* On success a form forgets its attempt and is cleared; on an error it keeps
\* both.  The answer to a call given up is lost.
Receive(f, s) ==
    IF call[s].answer = "ok"
    THEN [BlankForm EXCEPT !.draft = form[f].draft + 1]
    ELSE [form[f] EXCEPT !.slot = NoSlot]

Answer(s) ==
    /\ At(s, "answer")
    /\ form' = [f \in Forms |-> IF Awaits(f, s) THEN Receive(f, s) ELSE form[f]]
    /\ call' = [call EXCEPT ![s] = Idle]
    /\ UNCHANGED <<issued, holder, receipts, effects>>

\* The worker dies: an open transaction rolls back, the client's fetch fails.
Crash(s) ==
    /\ ~At(s, "idle")
    /\ form' = [f \in Forms |-> IF Awaits(f, s) THEN [form[f] EXCEPT !.slot = NoSlot]
                                ELSE form[f]]
    /\ holder' = [k \in Keys |-> IF holder[k] = s THEN NoSlot ELSE holder[k]]
    /\ call' = [call EXCEPT ![s] = Idle]
    /\ UNCHANGED <<issued, receipts, effects>>

-----------------------------------------------------------------------------

Work(s) == Insert(s) \/ Replay(s) \/ Commit(s) \/ Fail(s) \/ Answer(s)

Next ==
    \/ \E f \in Forms : Edit(f) \/ GiveUp(f)
    \/ \E f \in Forms, s \in Slots : Send(f, s)
    \/ \E s \in Slots : PostDirect(s) \/ Work(s) \/ Crash(s)

Spec == Init /\ [][Next]_vars

-----------------------------------------------------------------------------
(* What holds *)

\* However often a command is sent again, while the first is still running,
\* after it was answered or after its answer was lost, its key has one effect.
OneEffectPerKey ==
    \A i, j \in DOMAIN effects : effects[i].key = effects[j].key => i = j

\* A receipt is there exactly when its effect is: a refused or interrupted
\* command leaves neither, so a retry is carried out, never answered from a
\* receipt of something that did not happen.
ReceiptMeansEffect ==
    \A k \in Keys :
        LET done == {i \in DOMAIN effects : effects[i].key = k} IN
        IF receipts[k] = NoReceipt THEN done = {}
        ELSE /\ receipts[k].body \in done
             /\ effects[receipts[k].body].payload = receipts[k].hash

\* A client told "ok" was told about the effect of what it asked, also when a
\* key comes back with another payload.
AnsweredForItsRequest ==
    \A s \in Slots :
        call[s].answer = "ok" =>
            /\ call[s].body \in DOMAIN effects
            /\ effects[call[s].body].key = call[s].key
            /\ effects[call[s].body].payload = call[s].payload

\* The open transaction that reserved a key is the only one at work on it,
\* and there is no receipt of the key yet.
Reserved ==
    /\ \A s \in Slots :
          At(s, "mutate") => /\ holder[call[s].key] = s
                             /\ receipts[call[s].key] = NoReceipt
    /\ \A k \in Keys :
          holder[k] # NoSlot => At(holder[k], "mutate") /\ call[holder[k]].key = k

\* A call at work knows its key and payload, and has no answer yet.
CallsSound ==
    \A s \in Slots :
        call[s].pc \in {"received", "mutate"} =>
            /\ call[s].key \in Keys
            /\ call[s].payload \in Payloads
            /\ call[s].answer = "none"

\* The inductive invariant behind the properties of keys: every state of the
\* key's life, from its reservation by one transaction to its receipt.
ReplayInv ==
    /\ TypeOK
    /\ CallsSound
    /\ Reserved
    /\ OneEffectPerKey
    /\ ReceiptMeansEffect
    /\ AnsweredForItsRequest

\* Whoever retries a form without changing it, after an error, a lost answer
\* or a worker's death, never has the command carried out twice.
OneEffectPerDraft ==
    \A i, j \in DOMAIN effects :
        /\ effects[i].form # NoForm
        /\ effects[i].form = effects[j].form
        /\ effects[i].draft = effects[j].draft
        => i = j

\* No form ever gets "key already used with a different payload", whatever
\* its user changes between and during attempts.
FormsNeverConflict ==
    \A s \in Slots : call[s].form # NoForm => call[s].answer # "conflict"

\* The commands sent so far that are still at work or had an effect.
Command(c) == [key |-> c.key, payload |-> c.payload, form |-> c.form, draft |-> c.draft]

Sent == {Command(call[s]) : s \in {u \in Slots : ~At(u, "idle")}}
        \cup {effects[i] : i \in DOMAIN effects}

\* A key that a form made stands for one content of that form.
KeysAreForms ==
    /\ \A e \in Sent : IF e.form = NoForm THEN e.key \in Direct ELSE e.key \in 1 .. issued
    /\ \A e, d \in Sent : e.key = d.key /\ e.form # NoForm =>
                             e.form = d.form /\ e.payload = d.payload

\* One draft of a form has one key.
DraftsHaveOneKey ==
    \A e, d \in Sent : e.form = d.form /\ e.draft = d.draft /\ e.form # NoForm =>
                          e.key = d.key

\* What a form holds agrees with what it sent: the key it kept is its own, was
\* made for the content it remembers and, if nothing was edited since, is the
\* one it will send again.
FormSound(f) ==
    LET g == form[f] IN
    /\ g.key \in 0 .. issued
    /\ g.key # NoKey /\ f \notin Comparing => g.keyed = g.payload
    /\ \A h \in Forms \ {f} : g.key # NoKey => form[h].key # g.key
    /\ \A e \in Sent : e.key = g.key => e.form = f /\ e.payload = g.keyed
    /\ \A e \in Sent : e.form = f =>
          /\ e.draft <= g.draft
          /\ e.draft = g.draft => g.key = e.key /\ g.payload = e.payload

\* The inductive invariant, beside ReplayInv, behind the properties of forms.
FormsInv ==
    /\ KeysAreForms
    /\ DraftsHaveOneKey
    /\ \A f \in Forms : FormSound(f)
    /\ FormsNeverConflict

=============================================================================
