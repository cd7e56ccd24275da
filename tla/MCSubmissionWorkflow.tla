------------------------ MODULE MCSubmissionWorkflow ------------------------
(* A small instance of SubmissionWorkflow: a dossier with a halal policy in
   two versions and a floor plan. *)
EXTENDS SubmissionWorkflow, TLC

CONSTANTS policy1, policy2, plan

MCDocs == {policy1, policy2, plan}
MCDocType == (policy1 :> "policy") @@ (policy2 :> "policy") @@ (plan :> "plan")

\* One required type: enough for versions of one document to race.
PolicyDocs == {policy1, policy2}
PolicyType == (policy1 :> "policy") @@ (policy2 :> "policy")
PolicyRequired == {"policy"}
PolicyPackets == {<<policy1>>, <<policy2>>}
OneType == policy1 :> "policy"
OnePacket == {<<policy1>>}

\* Two required types: a replacement in one must not touch the other.
BothRequired == {"policy", "plan"}
BothPacket == {<<policy1, plan>>}

\* Requests are interchangeable.
Symmetric == Permutations(Requests)
=============================================================================
