-------------------------- MODULE MCDocumentsPage --------------------------
(* Two documents and two calls under way. *)
EXTENDS DocumentsPage

CONSTANTS d1, d2, c1, c2

MCStored == [d \in Docs |-> IF d = d1 THEN {"pending", "approved"} ELSE {"unused", "approved"}]
=============================================================================
