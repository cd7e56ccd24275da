---------------------------- MODULE MCWebSession ----------------------------
(* The tabs of one browser; a business user, who may have a second token from *)
(* a second sign-in, and a provider with one.                                 *)
EXTENDS WebSession

CONSTANTS t1, t2, ann, bob, a1, a2, b1

MCOwner == [token \in Tokens |-> IF token = b1 THEN bob ELSE ann]
MCRoles == [token \in Tokens |-> IF token = b1 THEN "cb_admin" ELSE "business"]
MCPortal == [user \in Users |-> IF user = bob THEN "provider" ELSE "business"]
=============================================================================
