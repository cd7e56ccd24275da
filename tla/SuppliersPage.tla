---------------------------- MODULE SuppliersPage ----------------------------
(***************************************************************************)
(* Materials and suppliers of a company (app/supply-chain/materials), the  *)
(* portal on which a supplier sends certificates (app/supplier-portal),    *)
(* and their handlers, which look in one statement and write in another.   *)
(* None of the page's reads is numbered: the last answer to come is shown. *)
(* A supplier's certificates of one kind are not told apart.               *)
(***************************************************************************)
EXTENDS PageCalls

CONSTANTS Suppliers, Materials, Categories

Kinds == {"halal_cert", "other"}
Flags == {"materials", "suppliers", "alerts", "certs", "savingMaterial", "savingSupplier",
          "uploading", "alert", "portal", "sending"}
Forms == [edit : Materials \cup {None}, category : Categories, supplier : Suppliers \cup {None}]
Stages == {"sent", "looked", "ok", "refused"}

-----------------------------------------------------------------------------
(* The pages *)

\* The lists, the dialogs and the supplier's page. The two tabs are not told apart: the
\* user may turn to the other at any time.
Mounted ==
  [suppliers |-> {}, verifiable |-> {}, eligible |-> {}, materials |-> {}, form |-> None,
   supplierForm |-> FALSE, certsOf |-> None, certs |-> {}, inviting |-> None,
   busy |-> {"materials", "suppliers"}]

Does(kind, arg, p) == Gives(call, Sent(kind, arg), p)
Flagged(flag) == [page EXCEPT !.busy = @ \cup {flag}]

\* One of the company's suppliers has a certificate, which has been shown, is held eligible
\* for one category by the certification body, and may have a material; which does not matter.
Init ==
  /\ LET s == CHOOSE s \in Suppliers : TRUE
         g == CHOOSE g \in Categories : TRUE
         m == CHOOSE m \in Materials : TRUE
         row == [supplier |-> s, category |-> g]
     IN \E used \in BOOLEAN :
          /\ server = [suppliers |-> Suppliers, certs |-> {<<s, "halal_cert">>}, verified |-> {},
                       invited |-> {}, eligible |-> {<<s, g>>}, ended |-> {},
                       material |-> [x \in Materials |-> IF used /\ x = m THEN row ELSE None]]
          /\ page = [Mounted EXCEPT !.suppliers = Suppliers, !.verifiable = {s}, !.busy = {},
                       !.eligible = {s}, !.certs = {<<s, "halal_cert">>},
                       !.materials = IF used THEN {[id |-> m, supplier |-> s, category |-> g]} ELSE {}]
  /\ call = [c \in Calls |-> None]
  /\ asked = 0 /\ lost = 0

NoDialog == page.form = None /\ ~page.supplierForm /\ page.certsOf = None
\* Another search fetches the materials again.
Search == NoDialog /\ Does("materials", None, Flagged("materials"))

UpdateRiskAlert == NoDialog /\ "alert" \notin page.busy /\ Does("alert", None, Flagged("alert"))

\* The form of a material, and with it the suppliers eligible for its category.
OpenForm(form) ==
  NoDialog /\ "materials" \notin page.busy /\ Does("eligible", form.category, [page EXCEPT !.form = form])

OpenMatCreate == \E g \in Categories : OpenForm([edit |-> None, category |-> g, supplier |-> None])

OpenMatEdit(m) ==
  \E row \in page.materials :
    /\ row.id = m
    /\ OpenForm([edit |-> m, category |-> row.category, supplier |-> row.supplier])

ChooseCategory(g) ==
  /\ page.form # None /\ page.form.category # g
  /\ Does("eligible", g, [page EXCEPT !.form.category = g])

\* Whoever the list shows may be chosen; the choice stays when the list changes.
ChooseSupplier(s) ==
  /\ page.form # None /\ s \in page.eligible /\ page.form.supplier # s
  /\ Turns([page EXCEPT !.form.supplier = s])

SaveMaterial ==
  /\ page.form # None /\ page.form.supplier # None /\ "savingMaterial" \notin page.busy
  /\ Does("saveMaterial", page.form, Flagged("savingMaterial"))

DeleteMaterial(m) ==
  /\ NoDialog /\ "materials" \notin page.busy /\ \E row \in page.materials : row.id = m
  /\ Does("deleteMaterial", m, page)

Listed(s) == NoDialog /\ "suppliers" \notin page.busy /\ s \in page.suppliers

OpenSupplierForm == NoDialog /\ Turns([page EXCEPT !.supplierForm = TRUE])

\* A supplier is created or changed, but for its status.
SaveSupplier ==
  /\ page.supplierForm /\ "savingSupplier" \notin page.busy
  /\ Does("saveSupplier", None, Flagged("savingSupplier"))

DeleteSupplier(s) == Listed(s) /\ Does("deleteSupplier", s, page)

\* The button is there for who is not verified and has certificates, whatever they are.
VerifySupplier(s) == Listed(s) /\ s \in page.verifiable /\ Does("verify", s, page)

SendInvite(s) ==
  Listed(s) /\ page.inviting # s /\ Does("invite", s, [page EXCEPT !.inviting = s])

\* What was shown of another supplier stays until the answer comes.
OpenCerts(s) ==
  Listed(s) /\ Does("certs", s, [Flagged("certs") EXCEPT !.certsOf = s])

UploadCert ==
  /\ page.certsOf # None /\ "uploading" \notin page.busy
  /\ \E kind \in Kinds : Does("upload", <<page.certsOf, kind>>, Flagged("uploading"))

\* A certificate that is shown, of the supplier the dialog is open for.
DeleteCert(x) ==
  /\ page.certsOf # None /\ "certs" \notin page.busy /\ x \in page.certs
  /\ Does("deleteCert", [cert |-> x, of |-> page.certsOf], page)

CloseDialog ==
  /\ ~NoDialog
  /\ Turns([page EXCEPT !.form = None, !.supplierForm = FALSE, !.certsOf = None])

\* The supplier's own page, opened through the link.
PortalShown(s) == s \in server.invited /\ "portal" \notin page.busy

PortalUpload(s) ==
  /\ PortalShown(s) /\ "sending" \notin page.busy
  /\ Does("portalUpload", <<s, "halal_cert">>, Flagged("sending"))

-----------------------------------------------------------------------------
(* The handlers *)

At(c, kinds, stage) == call[c] # None /\ call[c].kind \in kinds /\ call[c].stage = stage
Becomes(c, stage, s) ==
  call' = [call EXCEPT ![c].stage = stage] /\ server' = s /\ UNCHANGED <<page, asked, lost>>

\* Mutant: eligibility for any category will do.
EligibleAtAll(form) == \E g \in Categories : <<form.supplier, g>> \in server.eligible

\* assert_supplier_eligible, for the form sends supplier and category together.
EligibleFor(form) == <<form.supplier, form.category>> \in server.eligible

\* Mutant: a certificate is looked for by its own identifier.
CertThere(arg) == arg.cert \in server.certs

\* The certificate is looked for among those of the supplier.
CertOf(arg) == arg.cert \in server.certs /\ arg.cert[1] = arg.of

Passes(c) ==
  LET arg == call[c].arg
  IN CASE call[c].kind = "saveMaterial" ->
            /\ arg.edit # None => server.material[arg.edit] # None
            /\ arg.supplier \in server.suppliers /\ EligibleFor(arg)
       [] call[c].kind = "verify" -> <<arg, "halal_cert">> \in server.certs
       [] call[c].kind = "deleteCert" -> CertOf(arg)
       [] call[c].kind = "invite" -> arg \in server.suppliers
       [] call[c].kind \in {"upload", "portalUpload"} -> arg[1] \in server.suppliers

\* Each of these looks first.
Looking == {"saveMaterial", "verify", "deleteCert", "invite", "upload", "portalUpload"}

Look(c) ==
  At(c, Looking, "sent") /\ Becomes(c, IF Passes(c) THEN "looked" ELSE "refused", server)

\* The foreign keys refuse what belongs to a supplier deleted meanwhile.
WriteMaterial(c) ==
  /\ At(c, {"saveMaterial"}, "looked")
  /\ LET form == call[c].arg
         free == IF form.edit # None THEN {m \in {form.edit} : server.material[m] # None}
                 ELSE {m \in Materials : server.material[m] = None}
     IN IF form.supplier \notin server.suppliers \/ free = {} THEN Becomes(c, "refused", server)
        ELSE Becomes(c, "ok", [server EXCEPT !.material[CHOOSE m \in free : TRUE] =
                                 [supplier |-> form.supplier, category |-> form.category]])

\* Verified once; the certificate that was counted may have gone.
WriteVerified(c) ==
  /\ At(c, {"verify"}, "looked")
  /\ LET s == call[c].arg
     IN IF s \in server.suppliers \ server.verified
        THEN Becomes(c, "ok", [server EXCEPT !.verified = @ \cup {s}])
        ELSE Becomes(c, "refused", server)

WriteInvite(c) ==
  At(c, {"invite"}, "looked") /\ Becomes(c, "ok", [server EXCEPT !.invited = @ \cup ({call[c].arg} \cap server.suppliers)])

WriteCert(c) ==
  /\ At(c, {"upload", "portalUpload"}, "looked")
  /\ IF call[c].arg[1] \in server.suppliers THEN Becomes(c, "ok", [server EXCEPT !.certs = @ \cup {call[c].arg}])
     ELSE Becomes(c, "refused", server)

\* By the certificate's identifier alone.
WriteDeletion(c) ==
  At(c, {"deleteCert"}, "looked") /\ Becomes(c, "ok", [server EXCEPT !.certs = @ \ {call[c].arg.cert}])

\* A supplier goes with its certificates and eligibilities, unless a material names it.
DropSupplier(c) ==
  /\ At(c, {"deleteSupplier"}, "sent")
  /\ LET s == call[c].arg
     IN IF \E m \in Materials : server.material[m] # None /\ server.material[m].supplier = s
        THEN Becomes(c, "refused", server)
        ELSE Becomes(c, "ok",
               [server EXCEPT !.suppliers = @ \ {s}, !.verified = @ \ {s}, !.invited = @ \ {s},
                  !.certs = {x \in @ : x[1] # s}, !.eligible = {x \in @ : x[1] # s}])

DropMaterial(c) ==
  /\ At(c, {"deleteMaterial"}, "sent")
  /\ Becomes(c, IF server.material[call[c].arg] = None THEN "refused" ELSE "ok",
             [server EXCEPT !.material[call[c].arg] = None])

MaterialRows ==
  {[id |-> m, supplier |-> server.material[m].supplier, category |-> server.material[m].category] :
     m \in {m \in Materials : server.material[m] # None}}

Reads(c) ==
  /\ At(c, {"materials", "suppliers", "eligible", "certs", "alert", "alerts", "saveSupplier", "portal"}, "sent")
  /\ Answers(c,
       CASE call[c].kind = "materials" -> MaterialRows
         [] call[c].kind = "suppliers" ->
              [all |-> server.suppliers,
               verifiable |-> {x[1] : x \in server.certs} \ server.verified,
               eligible |-> {x[1] : x \in server.eligible}]
         [] call[c].kind = "eligible" -> {s \in Suppliers : <<s, call[c].arg>> \in server.eligible}
         [] call[c].kind = "certs" -> {x \in server.certs : x[1] = call[c].arg}
         [] OTHER -> None, server)

\* The certification body ends an eligibility.
EligibilityEnds ==
  /\ server.ended = {}
  /\ \E x \in server.eligible :
       server' = [server EXCEPT !.eligible = @ \ {x}, !.ended = @ \cup {x}]
  /\ UNCHANGED <<page, call, asked, lost>>

Serves(c) ==
  \/ Look(c) \/ WriteMaterial(c) \/ WriteVerified(c) \/ WriteInvite(c) \/ WriteCert(c) \/ WriteDeletion(c)
  \/ DropSupplier(c) \/ DropMaterial(c) \/ Reads(c)

-----------------------------------------------------------------------------
(* What follows an answer *)

Without(flag) == [page EXCEPT !.busy = @ \ {flag}]
Refetch(c, kind, arg, p) == Goes([call EXCEPT ![c] = Sent(kind, arg)], p)

\* Two lists are fetched, where there is a call left for the second.
RefetchBoth(c, p) ==
  LET one == [call EXCEPT ![c] = Sent("suppliers", None)]
      both == [p EXCEPT !.busy = @ \cup {"suppliers", "materials"}]
  IN IF Free(one) = {} THEN Goes(one, [p EXCEPT !.busy = @ \cup {"suppliers"}])
     ELSE Goes(Put(one, Sent("materials", None)), both)

GotRows(c) ==
  /\ Arrived(c) /\ call[c].kind \in {"materials", "suppliers", "certs", "alerts", "portal"}
  /\ LET k == call[c].kind  p == Without(k)
     IN Goes(Dropped(c),
          IF ~Ok(c) THEN p
          ELSE CASE k = "materials" -> [p EXCEPT !.materials = call[c].answer]
                 [] k = "suppliers" -> [p EXCEPT !.suppliers = call[c].answer.all,
                                                  !.verifiable = call[c].answer.verifiable,
                                                  !.eligible = call[c].answer.eligible]
                 [] k = "certs" -> [p EXCEPT !.certs = call[c].answer]
                 [] OTHER -> p)

GotEligible(c) ==
  /\ Arrived(c) /\ call[c].kind = "eligible"
  /\ Goes(Dropped(c), IF Ok(c) THEN [page EXCEPT !.eligible = call[c].answer] ELSE page)

\* Whichever form is open now is closed.
GotSavedMaterial(c) ==
  /\ Arrived(c) /\ call[c].kind = "saveMaterial"
  /\ LET p == Without("savingMaterial")
     IN IF Ok(c) THEN Refetch(c, "materials", None, [p EXCEPT !.form = None, !.busy = @ \cup {"materials"}])
        ELSE Goes(Dropped(c), p)

GotDeletedMaterial(c) ==
  /\ Arrived(c) /\ call[c].kind = "deleteMaterial"
  /\ IF Ok(c) THEN Refetch(c, "materials", None, Flagged("materials")) ELSE Goes(Dropped(c), page)

GotSupplier(c) ==
  /\ Arrived(c) /\ call[c].kind \in {"saveSupplier", "deleteSupplier"}
  /\ LET p == Without("savingSupplier")
     IN IF ~Ok(c) THEN Goes(Dropped(c), IF call[c].kind = "saveSupplier" THEN p ELSE page)
        ELSE RefetchBoth(c, IF call[c].kind = "saveSupplier" THEN [p EXCEPT !.supplierForm = FALSE] ELSE page)

GotVerified(c) ==
  /\ Arrived(c) /\ call[c].kind = "verify"
  /\ IF Ok(c) THEN Refetch(c, "suppliers", None, Flagged("suppliers")) ELSE Goes(Dropped(c), page)

GotInvite(c) ==
  /\ Arrived(c) /\ call[c].kind = "invite"
  /\ Goes(Dropped(c), [page EXCEPT !.inviting = None])

\* The dialog is opened for the supplier that was uploaded to, whichever is open now.
GotCertChange(c) ==
  /\ Arrived(c) /\ call[c].kind \in {"upload", "deleteCert"}
  /\ LET p == IF call[c].kind = "upload" THEN Without("uploading") ELSE page
         s == IF call[c].kind = "upload" THEN call[c].arg[1] ELSE call[c].arg.of
     IN IF Ok(c) THEN Refetch(c, "certs", s, [p EXCEPT !.certsOf = s, !.busy = @ \cup {"certs"}])
        ELSE Goes(Dropped(c), p)

GotAlert(c) ==
  /\ Arrived(c) /\ call[c].kind = "alert"
  /\ IF Ok(c) THEN Refetch(c, "alerts", None, [Without("alert") EXCEPT !.busy = @ \cup {"alerts"}])
     ELSE Goes(Dropped(c), Without("alert"))

GotPortalUpload(c) ==
  /\ Arrived(c) /\ call[c].kind = "portalUpload"
  /\ IF Ok(c) THEN Refetch(c, "portal", None, [Without("sending") EXCEPT !.busy = @ \cup {"portal"}])
     ELSE Goes(Dropped(c), Without("sending"))

-----------------------------------------------------------------------------
Starts ==
  \/ \E m \in Materials : OpenMatEdit(m) \/ DeleteMaterial(m)
  \/ \E g \in Categories : ChooseCategory(g)
  \/ \E s \in Suppliers :
       \/ ChooseSupplier(s) \/ DeleteSupplier(s) \/ VerifySupplier(s) \/ SendInvite(s) \/ OpenCerts(s)
       \/ PortalUpload(s)
  \/ \E x \in page.certs : DeleteCert(x)
  \/ Search \/ UpdateRiskAlert \/ OpenMatCreate \/ SaveMaterial \/ OpenSupplierForm \/ SaveSupplier
  \/ UploadCert \/ CloseDialog

Continues(c) ==
  \/ GotRows(c) \/ GotEligible(c) \/ GotSavedMaterial(c) \/ GotDeletedMaterial(c) \/ GotSupplier(c)
  \/ GotVerified(c) \/ GotInvite(c) \/ GotCertChange(c) \/ GotAlert(c) \/ GotPortalUpload(c) \/ Unheard(c)

Next ==
  \/ Starts \/ EligibilityEnds
  \/ \E c \in Calls : Serves(c) \/ Refuses(c) \/ Loses(c) \/ Continues(c)

-----------------------------------------------------------------------------
(* Properties *)

TypeOK ==
  /\ page.suppliers \cup page.verifiable \cup page.eligible \cup server.suppliers \subseteq Suppliers
  /\ page.form \in Forms \cup {None} /\ page.certsOf \in Suppliers \cup {None}
  /\ page.busy \subseteq Flags /\ page.certs \cup server.certs \subseteq Suppliers \X Kinds
  /\ server.verified \cup server.invited \subseteq server.suppliers
  /\ \A c \in Calls : call[c] # None => call[c].stage \in Stages

\* A material has a supplier who is there and whom the certification body has held eligible
\* for its category: whichever lists the form was shown, in whatever order they came, and
\* whoever deletes suppliers meanwhile.
MaterialWithinScope ==
  \A m \in Materials :
    LET row == server.material[m]
    IN row # None => /\ row.supplier \in server.suppliers
                     /\ <<row.supplier, row.category>> \in server.eligible \cup server.ended

\* A list of certificates that comes late never gets one deleted of another supplier than
\* the one named above it.
DeletesOfTheOpen ==
  \A c \in Calls :
    At(c, {"deleteCert"}, "looked") \/ At(c, {"deleteCert"}, "ok") => call[c].arg.cert[1] = call[c].arg.of

\* Lists finish loading and buttons are freed.
Rests == page.busy = {} /\ page.inviting = None
=============================================================================
