--------------------------- MODULE RevisionRounds ---------------------------
(***************************************************************************)
(* What services/submission_revisions.py promises about correction rounds, *)
(* without requests, statements or locks: rounds are opened one at a time, *)
(* only the last one is ever answered, at most once, and only while the CB *)
(* is waiting for it.  The CB may stop waiting by moving the submission on *)
(* by hand; the round then stays unanswered.                               *)
(***************************************************************************)
EXTENDS Naturals, Sequences

VARIABLES
    rounds,     \* "open" or "resolved", one entry per round
    awaiting    \* the business has been asked and not yet answered

Init == rounds = <<>> /\ awaiting = FALSE

Open ==
    /\ ~awaiting
    /\ rounds' = Append(rounds, "open")
    /\ awaiting' = TRUE

Resolve ==
    /\ awaiting
    /\ rounds[Len(rounds)] = "open"
    /\ rounds' = [rounds EXCEPT ![Len(rounds)] = "resolved"]
    /\ awaiting' = FALSE

Overtake ==
    /\ awaiting
    /\ awaiting' = FALSE
    /\ UNCHANGED rounds

Next == Open \/ Resolve \/ Overtake

Spec == Init /\ [][Next]_<<rounds, awaiting>>
=============================================================================
