-------------------------- MODULE MCReplayReceipts --------------------------
(* A small instance of ReplayReceipts; forms, slots and payloads are
   interchangeable. *)
EXTENDS ReplayReceipts, TLC

Symmetric == Permutations(Slots) \cup Permutations(Payloads)
=============================================================================
