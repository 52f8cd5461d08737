---------------------------- MODULE AtlasReports ----------------------------
(***************************************************************************)
(* What the tools compute from valid Atlas documents: the dry-run frontier *)
(* (src/internal/atlas/frontier.go), the metrics (metrics.go,              *)
(* capability.go), the pages of the Atlas API (src/internal/atlasapi), and *)
(* the batch and work queue of the admission factory                       *)
(* (src/internal/admission).                                               *)
(***************************************************************************)
EXTENDS AtlasRecords

Each(s, Of(_)) == [i \in DOMAIN s |-> Of(s[i])]
RecordOf(registry, id) == {r \in PublicRecords(registry) : r.id = id}

(***************************************************************************)
(* The frontier: one decision for each selected origin, in this order of   *)
(* reasons, and a job for each that is due.                                *)
(***************************************************************************)
Decision(id, action, reason, dueAt) == [originID |-> id, action |-> action, reason |-> reason, dueAt |-> dueAt]
DueAt(r, at) ==
  LET last == r.runtime.scheduler.lastAttempt
  IN IF last = Nil THEN at ELSE last + RefreshIntervals[r.runtime.refreshClass]
Decide(r, at) ==
  LET scheduler == r.runtime.scheduler IN
  IF r.policy.reviewState # "completed" THEN Decision(r.id, "blocked", "policy_review_pending", Nil)
  ELSE IF r.policy.decision \notin LivePermits THEN Decision(r.id, "blocked", "policy_not_live_permitted", Nil)
  ELSE IF scheduler.state = "disabled" THEN Decision(r.id, "blocked", "scheduler_disabled", Nil)
  ELSE IF scheduler.cooldownUntil > at THEN Decision(r.id, "defer", "cooldown", scheduler.cooldownUntil)
  ELSE IF DueAt(r, at) > at THEN Decision(r.id, "defer", "not_due", DueAt(r, at))
  ELSE Decision(r.id, "schedule", "due", DueAt(r, at))
Priority(s) ==
  LET quotient == (s.value * s.novelty * s.demand * s.change * s.need) \div s.cost
  IN IF quotient = 0 THEN 1 ELSE quotient
Job(r, at) ==
  [originID |-> r.id, priority |-> Priority(r.runtime.scheduler), dueAt |-> DueAt(r, at),
   requestBudget |-> r.runtime.requestBudget, storageBudget |-> r.runtime.storageBudget]
BuildDryRunFrontier(selection, registry, at) ==
  LET Of(c) == IF RecordOf(registry, c.id) = {} THEN Decision(c.id, "blocked", "catalog_review_pending", Nil)
               ELSE Decide(CHOOSE r \in RecordOf(registry, c.id) : TRUE, at)
      due == SelectSeq(registry, LAMBDA r : r.scope = "genesis_public" /\ Decide(r, at).action = "schedule")
      Before(a, b) == a.priority > b.priority \/ (a.priority = b.priority /\ a.originID < b.originID)
  IN [at |-> at,
      decisions |-> SortSeq(Each(selection.candidates, Of), LAMBDA a, b : a.originID < b.originID),
      jobs |-> SortSeq(Each(due, LAMBDA r : Job(r, at)), Before)]

(***************************************************************************)
(* The metrics: every selected origin starts at the default of a           *)
(* dimension, and each public record moves one origin to its own value.    *)
(***************************************************************************)
Dimensions == {"catalog", "review", "decision", "technical", "publisher", "health", "adapterTrust", "mappingTrust",
               "access", "price"}
ValuesOf ==
  [catalog |-> {"candidate", "cataloged"}, review |-> {"pending", "completed"}, decision |-> PolicyDecisions,
   technical |-> Range(TechnicalOrder),
   publisher |-> {"unclaimed", "domain_verified", "publisher_approved", "publisher_signed"},
   health |-> HealthStates, adapterTrust |-> AdapterTrustStates, mappingTrust |-> MappingTrustStates,
   access |-> AccessClasses, price |-> PriceStates]
Defaults ==
  [catalog |-> "candidate", review |-> "pending", decision |-> "uncertain", technical |-> "unprofiled",
   publisher |-> "unclaimed", health |-> "unknown", adapterTrust |-> "none", mappingTrust |-> "none",
   access |-> "unknown", price |-> "not_assessed"]
States(r) ==
  [catalog |-> r.catalog.state, review |-> r.policy.reviewState, decision |-> r.policy.decision,
   technical |-> r.technical.stage, publisher |-> r.publisher.status, health |-> r.health.status,
   adapterTrust |-> r.adapterTrust.status, mappingTrust |-> r.mappingTrust.status,
   access |-> r.access.class, price |-> r.access.price]

\* Mutant of Moved: the origin is not taken out of the default.
MovedIn(counts, from, to) == [counts EXCEPT ![to] = @ + 1]
Moved(counts, from, to) == [[counts EXCEPT ![from] = @ - 1] EXCEPT ![to] = @ + 1]
Counted(dimension, records, total) ==
  FoldLeft(LAMBDA counts, r : Moved(counts, Defaults[dimension], States(r)[dimension]),
           [v \in ValuesOf[dimension] |-> IF v = Defaults[dimension] THEN total ELSE 0], records)
\* The stages are reached in order: the first is every selected origin's.
CountedAtOrBeyond(records, total) ==
  FoldLeft(LAMBDA counts, r : [s \in DOMAIN counts |->
                                 IF s # "unprofiled" /\ AtLeast(r, s) THEN counts[s] + 1 ELSE counts[s]],
           [s \in Range(TechnicalOrder) |-> IF s = "unprofiled" THEN total ELSE 0], records)
TotalOver(records, Of(_)) == FoldLeft(LAMBDA n, r : n + Of(r), 0, records)
NumberOf(s, Test(_)) == Len(SelectSeq(s, Test))
CapabilityCounts(records) ==
  [capabilities |-> TotalOver(records, LAMBDA r : Len(r.capabilities)),
   admitted |-> TotalOver(records, LAMBDA r :
     NumberOf(r.capabilities, LAMBDA c : c.status = "admitted" /\ c.effect = "public_read")),
   native |-> TotalOver(records, LAMBDA r :
     NumberOf(r.interfaces, LAMBDA d : d.kind = "twirx_native" /\ d.declaration = "publisher_declared")),
   offers |-> TotalOver(records, LAMBDA r : Len(r.access.offers)),
   signals |-> TotalOver(records, LAMBDA r : NumberOf(r.readiness, LAMBDA s : s.presence = "present")),
   payments |-> TotalOver(records, LAMBDA r :
     NumberOf(r.readiness, LAMBDA s : s.presence = "present" /\ s.kind = "payment_requirement")),
   requests |-> TotalOver(records, LAMBDA r : r.economics.requests),
   cost |-> TotalOver(records, LAMBDA r : r.economics.cost)]
BuildMetrics(selection, registry, policies) ==
  LET public == SelectSeq(registry, LAMBDA r : r.scope # "test_fixture")
      total == Len(selection.candidates)
      Union(Of(_)) == Cardinality(UNION {Of(r) : r \in Range(public)})
  IN [selected |-> total, records |-> Len(registry), public |-> Len(public),
      fixtures |-> Len(registry) - Len(public), policies |-> Len(policies),
      states |-> [dimension \in Dimensions |-> Counted(dimension, public, total)],
      atOrBeyond |-> CountedAtOrBeyond(public, total),
      families |-> [f \in DOMAIN RequiredFamilyQuotas |-> NumberOf(public, LAMBDA r : f \in Range(r.families))],
      jurisdictions |-> Union(LAMBDA r : {r.jurisdiction} \ {"not_established"}),
      languages |-> Union(LAMBDA r : Range(r.languages)),
      concepts |-> Union(LAMBDA r : Range(r.semantics.conceptIDs)),
      nativeTerms |-> Union(LAMBDA r : {r.semantics.nativeModule} \ {Nil}),
      mappings |-> Union(LAMBDA r : Range(r.semantics.mappingModules)),
      capabilities |-> CapabilityCounts(public)]

(***************************************************************************)
(* The Atlas API: a view of each selected origin, and pages of those that  *)
(* match a filter.                                                         *)
(***************************************************************************)
View(registry, c) ==
  [id |-> c.id, family |-> c.family,
   states |-> IF RecordOf(registry, c.id) = {} THEN Defaults ELSE States(CHOOSE r \in RecordOf(registry, c.id) : TRUE)]
FilterKeys == Dimensions \ {"access", "price"}
Matches(view, filter) == filter.key = "none" \/ (filter.key \in FilterKeys /\ view.states[filter.key] = filter.value)
ListOrigins(selection, registry, filter, cursor, limit) ==
  LET views == Each(SortSeq(selection.candidates, LAMBDA a, b : a.id < b.id), LAMBDA c : View(registry, c))
      matched == SelectSeq(views, LAMBDA view : Matches(view, filter))
      page == SubSeq(matched, cursor + 1, IF cursor + limit < Len(matched) THEN cursor + limit ELSE Len(matched))
  IN [origins |-> page, total |-> Len(matched),
      next |-> IF cursor + Len(page) < Len(matched) THEN cursor + Len(page) ELSE Nil]

(***************************************************************************)
(* The admission factory: a source is a record, its policy and the human   *)
(* decision on both.                                                       *)
(***************************************************************************)
Admitted(source) == source.decision.reviewState = "completed" /\ source.decision.admit
BuildBatch(sources, fixtures) ==
  LET Number(Test(_)) == NumberOf(sources, Test)
  IN [dossiers |-> Len(sources), fixtures |-> Len(fixtures),
      pending |-> Number(LAMBDA s : s.decision.reviewState = "pending"),
      admissions |-> Number(LAMBDA s : s.decision.reviewState # "pending" /\ s.decision.admit),
      cataloged |-> Number(LAMBDA s : s.record.catalog.state = "cataloged"),
      policyCompleted |-> Number(LAMBDA s : s.policy.reviewState = "completed"),
      profiled |-> Number(LAMBDA s : AtLeast(s.record, "profiled")),
      observed |-> Number(LAMBDA s : AtLeast(s.record, "observed")),
      decisions |-> [d \in PolicyDecisions |->
                       Number(LAMBDA s : s.policy.reviewState = "completed" /\ s.policy.decision = d)]]
NextAction(source) ==
  IF source.decision.reviewState = "pending" THEN "human_catalog_review"
  ELSE IF source.policy.reviewState = "pending" THEN "human_policy_review"
  ELSE IF source.policy.decision \in {"catalog_only", "deny", "uncertain"} THEN "retain_without_retrieval"
  ELSE IF source.record.technical.stage = "unprofiled" THEN "prepare_bounded_profile_work_order"
  ELSE "advance_technical_evidence"
WorkItem(sources, c) ==
  LET prepared == {s \in Range(sources) : s.record.id = c.id}
      source == CHOOSE s \in prepared : TRUE
  IN IF prepared = {}
     THEN [originID |-> c.id, dossier |-> "not_prepared", review |-> "not_started", admitted |-> FALSE,
           policyReview |-> "pending", decision |-> "uncertain", next |-> "prepare_dossier"]
     ELSE [originID |-> c.id, dossier |-> "prepared", review |-> source.decision.reviewState,
           admitted |-> Admitted(source), policyReview |-> source.policy.reviewState,
           decision |-> source.policy.decision, next |-> NextAction(source)]
BuildWorkQueue(selection, sources) ==
  LET items == Each(selection.candidates, LAMBDA c : WorkItem(sources, c))
      Number(Test(_)) == NumberOf(items, Test)
  IN [origins |-> SortSeq(items, LAMBDA a, b : a.originID < b.originID),
      prepared |-> Number(LAMBDA item : item.dossier = "prepared"),
      admissions |-> Number(LAMBDA item : item.admitted),
      review |-> [v \in {"pending", "completed"} |-> Number(LAMBDA item : item.policyReview = v)],
      decision |-> [v \in PolicyDecisions |-> Number(LAMBDA item : item.decision = v)]]
=============================================================================
