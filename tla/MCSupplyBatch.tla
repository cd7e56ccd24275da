---------------------------- MODULE MCSupplyBatch ----------------------------
(* A small instance of SupplyBatch; requests are interchangeable. *)
EXTENDS SupplyBatch, TLC

Symmetric == Permutations(Requests)
=============================================================================
