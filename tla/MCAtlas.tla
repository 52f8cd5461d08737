------------------------------ MODULE MCAtlas ------------------------------
(***************************************************************************)
(* The instance of the Atlas TLC checks: three selected origins in two     *)
(* families.  The first is admitted and live, its policy can be narrowed,  *)
(* withdrawn, or changed where its record does not show it; the second     *)
(* waits for its catalog review; the third has no dossier.                 *)
(***************************************************************************)
EXTENDS AtlasGovernance

MCQuotas == <<2, 1>>
MCSlug == [h \in 11..14 |-> h - 10]
Candidate(id, family) ==
  [id |-> id, host |-> 10 + id, origin |-> 10 + id, family |-> family, catalog |-> "candidate", hints |-> <<>>]
MCSelection ==
  [status |-> "candidate_selection", quotas |-> MCQuotas,
   candidates |-> <<Candidate(1, 1), Candidate(2, 2), Candidate(3, 1)>>]

(***************************************************************************)
(* Policies.                                                               *)
(***************************************************************************)
TextsWith(risk) ==
  [attribution |-> 1, authentication |-> "none_required", rate |-> 1, retention |-> 1, terms |-> 1, notes |-> 1, risk |-> risk]
Unobserved(id) ==
  [state |-> "not_observed", productToken |-> "TWIRXBot", url |-> 10 + id, observedAt |-> Nil, digest |-> Nil]
PendingPolicy(id) ==
  [id |-> id, originID |-> id, origin |-> 10 + id, reviewState |-> "pending", decision |-> "uncertain", reviewedAt |-> Nil,
   reviewer |-> Nil, robots |-> Unobserved(id), termsState |-> "pending", texts |-> TextsWith("pending"),
   evidenceRefs |-> <<8>>]
Reviewed(id, decision, at) ==
  [PendingPolicy(id) EXCEPT !.reviewState = "completed", !.decision = decision, !.reviewedAt = at, !.reviewer = 2,
     !.robots.state = "successful", !.robots.observedAt = 1, !.robots.digest = 9, !.termsState = "accepted",
     !.texts = TextsWith("accepted")]
Artifact(policy) == [policy |-> policy, artifacts |-> <<[path |-> 8, digest |-> 80]>>]

(***************************************************************************)
(* Records.                                                                *)
(***************************************************************************)
None == [status |-> "none", reviewedAt |-> Nil, reviewer |-> Nil, evidenceRefs |-> <<>>]
Seen(status) == [status |-> status, reviewedAt |-> 3, reviewer |-> 2, evidenceRefs |-> <<1, 2>>]
DisabledScheduler ==
  [state |-> "disabled", lastAttempt |-> Nil, cooldownUntil |-> Nil, failures |-> 0, value |-> 0, novelty |-> 0,
   demand |-> 0, change |-> 0, need |-> 0, cost |-> 0]
ReadyScheduler ==
  [DisabledScheduler EXCEPT !.state = "ready", !.lastAttempt = 4, !.value = 2, !.novelty = 1, !.demand = 1,
     !.change = 1, !.need = 1, !.cost = 5]
PolicyCopy(p) ==
  [reviewState |-> p.reviewState, decision |-> p.decision, reviewedAt |-> p.reviewedAt, reviewer |-> p.reviewer,
   policyID |-> p.id, setDigest |-> <<>>, robotsDigest |-> p.robots.digest, texts |-> p.texts]
Record(id, family, policy, scheduler) ==
  [id |-> id, scope |-> "genesis_public", origin |-> 10 + id, domain |-> 1, aliases |-> <<>>,
   catalog |-> [state |-> "cataloged", reviewedAt |-> 3, reviewer |-> 1, evidenceRefs |-> <<1>>],
   policy |-> PolicyCopy(policy),
   technical |-> [stage |-> "unprofiled", reviewedAt |-> Nil, reviewer |-> Nil, evidenceRefs |-> <<>>],
   publisher |-> [None EXCEPT !.status = "unclaimed"] @@ [manifestURL |-> Nil],
   health |-> [status |-> "unknown", checkedAt |-> Nil, evidenceRefs |-> <<>>],
   adapterTrust |-> None, mappingTrust |-> None, jurisdiction |-> "not_established", languages |-> <<1>>,
   families |-> <<family>>, discovery |-> [sources |-> <<>>, profiledAt |-> Nil],
   interfaces |-> <<>>, capabilities |-> <<>>,
   access |-> [class |-> "unknown", assessment |-> "not_assessed", evidence |-> Nil, price |-> "not_assessed",
               offers |-> <<>>],
   economics |-> [funding |-> "unknown", requests |-> 0, cost |-> 0], readiness |-> <<>>,
   runtime |-> [refreshClass |-> "hot", requestBudget |-> 10, storageBudget |-> 10, scheduler |-> scheduler],
   semantics |-> [nativeModule |-> Nil, adapterID |-> Nil, conformanceRef |-> Nil, contractSetDigest |-> Nil,
                  mappingModules |-> <<>>, conceptIDs |-> <<>>, operationIDs |-> <<>>, closureDigests |-> <<>>],
   artifacts |-> <<>>]
\* A compiled origin with an admitted public read, an offer and a payment requirement.
Compiled(r) ==
  [r EXCEPT !.aliases = <<21>>, !.jurisdiction = "ae", !.languages = <<1, 2>>,
     !.technical = [stage |-> "compiled", reviewedAt |-> 3, reviewer |-> 2, evidenceRefs |-> <<1>>],
     !.health = [status |-> "healthy", checkedAt |-> 3, evidenceRefs |-> <<1>>],
     !.adapterTrust = Seen("conformant"), !.mappingTrust = Seen("disputed"),
     !.discovery = [sources |-> <<1>>, profiledAt |-> 2],
     !.artifacts = <<[path |-> 7, digest |-> 70]>>,
     !.semantics = [@ EXCEPT !.nativeModule = 1, !.adapterID = 1, !.conformanceRef = 1, !.contractSetDigest = 5,
                             !.conceptIDs = <<1>>, !.operationIDs = <<31>>],
     !.interfaces = <<[id |-> 41, kind |-> "rest", declaration |-> "observed", execution |-> "admitted_public_read",
                       locator |-> CatalogLocator(21), health |-> "healthy", evidence |-> 70]>>,
     !.capabilities = <<[id |-> 31, status |-> "admitted", effect |-> "public_read", evidence |-> 70, interfaces |-> <<41>>]>>,
     !.access = [class |-> "metered", assessment |-> "reviewed", evidence |-> 70, price |-> "candidate",
                 offers |-> <<[id |-> 1, status |-> "observed", price |-> "candidate", class |-> "metered", evidence |-> 70]>>],
     !.readiness = <<[kind |-> "payment_requirement", presence |-> "present", observation |-> "observed",
                      observedAt |-> 3, evidence |-> 70]>>]
Fixture ==
  [Record(4, 1, PendingPolicy(4), DisabledScheduler) EXCEPT !.scope = "test_fixture", !.families = <<>>, !.policy.policyID = Nil]

(***************************************************************************)
(* Decisions.                                                              *)
(***************************************************************************)
PendingReview(id) ==
  [originID |-> id, reviewState |-> "pending", admit |-> FALSE, reviewerType |-> "none", approval |-> 0,
   catalogReviewedAt |-> 3, catalogReviewer |-> 1, policyReview |-> "pending", policyDecision |-> "uncertain",
   policyReviewedAt |-> Nil, policyReviewer |-> Nil, rationale |-> 1, evidenceRefs |-> <<1>>]
CatalogReview(id) ==
  [PendingReview(id) EXCEPT !.reviewState = "completed", !.admit = TRUE, !.reviewerType = "human", !.approval = 1]
FullReview(id, p) ==
  [CatalogReview(id) EXCEPT !.policyReview = p.reviewState, !.policyDecision = p.decision,
     !.policyReviewedAt = p.reviewedAt, !.policyReviewer = p.reviewer]

Live == Reviewed(1, "permit_live", 4)
LiveOtherTerms == [Live EXCEPT !.termsState = "not_found"]
Denied == [Reviewed(1, "deny", 6) EXCEPT !.termsState = "denied"]
LiveRecord == Record(1, 1, Live, ReadyScheduler)
MCInitialSources ==
  1 :> [record |-> LiveRecord, policy |-> Artifact(Live), decision |-> FullReview(1, Live)]
  @@ 2 :> [record |-> Compiled(Record(2, 2, PendingPolicy(2), DisabledScheduler)), policy |-> Artifact(PendingPolicy(2)),
           decision |-> PendingReview(2)]
MCVersions ==
  1 :> [record |-> {LiveRecord, Record(1, 1, Denied, DisabledScheduler), Record(1, 1, Denied, ReadyScheduler),
                    [LiveRecord EXCEPT !.runtime.scheduler.state = "cooldown", !.runtime.scheduler.cooldownUntil = 20],
                    [LiveRecord EXCEPT !.health = [status |-> "revoked", checkedAt |-> 3, evidenceRefs |-> <<1>>]]},
        policy |-> {Artifact(Live), Artifact(LiveOtherTerms), Artifact(Denied)},
        decision |-> {FullReview(1, Live), FullReview(1, Denied), [FullReview(1, Denied) EXCEPT !.reviewerType = "none"]}]
  @@ 2 :> [record |-> {Compiled(Record(2, 2, PendingPolicy(2), DisabledScheduler))}, policy |-> {Artifact(PendingPolicy(2))},
           decision |-> {PendingReview(2), CatalogReview(2)}]
MCDirectories == <<1, 2>>
MCFixtures == <<Fixture>>
MCInitialEvidence == 7 :> 70 @@ 8 :> 80
MCEvidenceVersions == {70, 80}
=============================================================================
