---------------------------- MODULE MCClientPages ----------------------------
(* Two of almost everything: users, submissions, types, files, placeholders, people,
   suppliers, categories, standards, dossiers, items of a checklist, checklists. *)
EXTENDS ClientPages

CONSTANTS biz, prov, s1, s2, t1, t2, c1, c2, f1, f2, k1, k2, e1, e2,
          p1, p2, m1, g1, g2, b1, b2, b3, h1, h2, d1, d2, i1, i2, l1, l2, v1

MCRole == [u \in Users |-> IF u = biz THEN "business" ELSE "provider"]
MCStandardOf == [d \in Dossiers |-> IF d = d1 THEN h1 ELSE h2]
MCRequired == [s \in Standards |-> IF s = h1 THEN {t1} ELSE {t1, t2}]
=============================================================================
