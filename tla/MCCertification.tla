--------------------------- MODULE MCCertification ---------------------------
(* A small instance of Certification; requests are interchangeable, and so   *)
(* are dossiers.                                                            *)
EXTENDS Certification, TLC

Symmetric == Permutations(Requests) \cup Permutations(Dossiers)
=============================================================================
