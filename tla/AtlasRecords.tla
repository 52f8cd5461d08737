---------------------------- MODULE AtlasRecords ----------------------------
(***************************************************************************)
(* The documents of the Atlas and what makes each valid: the selection     *)
(* (src/internal/atlas/selection.go), a policy and the policy set          *)
(* (policy.go), an origin record and the registry (state.go,               *)
(* capability.go) and the scheduler state (frontier.go).                   *)
(*                                                                         *)
(* A text, a time, a path and a digest are numbers: their place in the     *)
(* order the code compares them in, 0 one the code refuses on sight, Nil   *)
(* a pointer that is not set.  Lists are sequences.  The digest of a       *)
(* policy set is the set itself, so that two sets have one digest only     *)
(* when they are equal; an optional one is <<>> or <<set>>.                *)
(***************************************************************************)
EXTENDS Integers, Sequences, FiniteSets, SequencesExt

CONSTANTS RequiredFamilyQuotas,   \* the number of candidates of each domain family
          RequiredCandidates,     \* the size of the selection: 500 in the code
          MaxTestFixtures,        \* 64 in the code
          Slug                    \* slugHost: the origin ID each canonical host has

Nil == -1
ValidText(t) == t > 0
CanonicalTime(t) == t > 0
ValidDigestRef(d) == d > 0
SafePath(p) == p > 0
UniqueSorted(s) == (\A i \in DOMAIN s : ValidText(s[i])) /\ \A i \in 2..Len(s) : s[i - 1] < s[i]
SortedBy(s, Key(_)) == \A i \in 2..Len(s) : Key(s[i - 1]) <= Key(s[i])
Distinct(s, Key(_)) == \A i, j \in DOMAIN s : Key(s[i]) = Key(s[j]) => i = j
Rising(s, Key(_)) == (\A i \in DOMAIN s : Key(s[i]) > 0) /\ \A i \in 2..Len(s) : Key(s[i - 1]) < Key(s[i])

(***************************************************************************)
(* The selection: exactly the required candidates, family by family.       *)
(***************************************************************************)
ValidCandidate(c) ==
  /\ ValidText(c.id) /\ ValidText(c.host)
  /\ c.catalog = "candidate"
  /\ c.hints = <<>>                          \* publisher, jurisdiction and language hints
  /\ c.family \in DOMAIN RequiredFamilyQuotas
  /\ c.origin = c.host                       \* "https://" and the host, nothing else
  /\ c.id = Slug[c.host]
Candidates(selection) == Range(selection.candidates)
SelectionValid(selection) ==
  /\ selection.status = "candidate_selection"
  /\ Len(selection.candidates) = RequiredCandidates
  /\ selection.quotas = RequiredFamilyQuotas
  /\ \A c \in Candidates(selection) : ValidCandidate(c)
  /\ Distinct(selection.candidates, LAMBDA c : c.id) /\ Distinct(selection.candidates, LAMBDA c : c.origin)
  /\ \A f \in DOMAIN RequiredFamilyQuotas :
       Cardinality({c \in Candidates(selection) : c.family = f}) = RequiredFamilyQuotas[f]
FindCandidate(selection, id) == {c \in Candidates(selection) : c.id = id}

(***************************************************************************)
(* Policies: what a reviewer found an origin to allow.                     *)
(***************************************************************************)
LivePermits == {"permit_live", "permit_with_constraints"}
PolicyDecisions == LivePermits \cup {"profile_only", "catalog_only", "deny", "uncertain"}

RobotsValid(robots, origin) ==
  /\ robots.state \in {"successful", "unavailable", "unreachable", "redirect_limit", "not_observed"}
  /\ robots.productToken = "TWIRXBot" /\ robots.url = origin      \* the origin and "/robots.txt"
  /\ IF robots.state = "not_observed" THEN robots.observedAt = Nil /\ robots.digest = Nil
     ELSE /\ CanonicalTime(robots.observedAt)
          /\ robots.state = "successful" => ValidDigestRef(robots.digest)
          /\ robots.digest # Nil => ValidDigestRef(robots.digest)
TextsValid(texts) ==
  /\ \A t \in {texts.attribution, texts.rate, texts.retention, texts.terms, texts.notes} : ValidText(t)
  /\ texts.authentication # "" /\ texts.risk # ""
RetrievalReviewed(p) ==
  /\ p.robots.state \in {"successful", "unavailable"} /\ p.termsState \in {"accepted", "not_found"}
  /\ p.texts.authentication = "none_required" /\ p.texts.risk = "accepted"
PolicyValid(p) ==
  /\ ValidText(p.id) /\ p.originID = p.id /\ TextsValid(p.texts)
  /\ p.decision \in PolicyDecisions
  /\ p.termsState \in {"accepted", "denied", "not_found", "pending"}
  /\ p.texts.risk \in {"accepted", "denied", "pending"}
  /\ p.evidenceRefs # <<>> /\ UniqueSorted(p.evidenceRefs)
  /\ RobotsValid(p.robots, p.origin)
  /\ \/ /\ p.reviewState = "pending" /\ p.decision = "uncertain" /\ p.reviewedAt = Nil /\ p.reviewer = Nil
        /\ p.termsState = "pending" /\ p.texts.risk = "pending"
     \/ /\ p.reviewState = "completed" /\ CanonicalTime(p.reviewedAt) /\ ValidText(p.reviewer)
        /\ p.decision \in LivePermits \cup {"profile_only"} => RetrievalReviewed(p)
PolicySetValid(policies, selection) ==
  /\ Len(policies) <= RequiredCandidates
  /\ SortedBy(policies, LAMBDA p : p.originID) /\ Distinct(policies, LAMBDA p : p.originID)
  /\ \A p \in Range(policies) :
       /\ \E c \in FindCandidate(selection, p.originID) : p.origin = c.origin
       /\ p.id = p.originID /\ PolicyValid(p)
FindPolicy(policies, id) == {p \in Range(policies) : p.originID = id}

(***************************************************************************)
(* An origin record, dimension by dimension.                               *)
(***************************************************************************)
Attested(d) ==       \* validEvidenceAttestation
  CanonicalTime(d.reviewedAt) /\ ValidText(d.reviewer) /\ d.evidenceRefs # <<>> /\ UniqueSorted(d.evidenceRefs)
Unattested(d) == d.reviewedAt = Nil /\ d.reviewer = Nil /\ d.evidenceRefs = <<>>

PolicyDimensionValid(d) ==
  /\ d.decision \in PolicyDecisions
  /\ \/ d.reviewState = "pending" /\ d.decision = "uncertain" /\ d.reviewedAt = Nil /\ d.reviewer = Nil
     \/ /\ d.reviewState = "completed" /\ CanonicalTime(d.reviewedAt) /\ ValidText(d.reviewer)
        /\ d.policyID # Nil /\ d.setDigest # <<>>
  /\ (d.policyID = Nil) = (d.setDigest = <<>>)
  /\ TextsValid(d.texts)

TechnicalOrder == <<"unprofiled", "profiled", "observed", "native_schema", "compiled", "semantically_linked", "live">>
StageIndex(stage) == CHOOSE i \in DOMAIN TechnicalOrder : TechnicalOrder[i] = stage
AtLeast(record, stage) == StageIndex(record.technical.stage) >= StageIndex(stage)
TechnicalDimensionValid(r) ==
  /\ r.technical.stage \in Range(TechnicalOrder)
  /\ r.technical.stage = "unprofiled" => Unattested(r.technical)
  /\ r.technical.stage # "unprofiled" =>
       /\ Attested(r.technical)
       /\ CanonicalTime(r.discovery.profiledAt) /\ r.discovery.sources # <<>> /\ UniqueSorted(r.discovery.sources)
       /\ AtLeast(r, "observed") => r.artifacts # <<>>
       /\ Rising(r.artifacts, LAMBDA a : a.path) /\ \A a \in Range(r.artifacts) : ValidDigestRef(a.digest)
       /\ AtLeast(r, "native_schema") => r.semantics.nativeModule # Nil
       /\ AtLeast(r, "compiled") => /\ r.semantics.adapterID # Nil /\ r.semantics.conformanceRef # Nil
                                    /\ ValidDigestRef(r.semantics.contractSetDigest)
       /\ AtLeast(r, "semantically_linked") =>
            /\ \A s \in {r.semantics.mappingModules, r.semantics.conceptIDs, r.semantics.operationIDs,
                         r.semantics.closureDigests} : s # <<>>
            /\ UniqueSorted(r.semantics.closureDigests)
       /\ \A d \in Range(r.semantics.closureDigests) : ValidDigestRef(d)
       /\ AtLeast(r, "live") => r.health.status \in {"healthy", "degraded"}

PublisherValid(p) ==
  \/ p.status = "unclaimed" /\ Unattested(p) /\ p.manifestURL = Nil
  \/ p.status \in {"domain_verified", "publisher_approved"} /\ Attested(p)
  \/ p.status = "publisher_signed" /\ Attested(p) /\ p.manifestURL # Nil
HealthStates == {"unknown", "healthy", "degraded", "stale", "suspended", "revoked"}
HealthValid(h) ==
  \/ h.status = "unknown" /\ h.checkedAt = Nil /\ h.evidenceRefs = <<>>
  \/ /\ h.status \in HealthStates \ {"unknown"}
     /\ CanonicalTime(h.checkedAt) /\ h.evidenceRefs # <<>> /\ UniqueSorted(h.evidenceRefs)
AdapterTrustStates == {"none", "candidate", "reviewed", "conformant", "revoked"}
MappingTrustStates == {"none", "candidate", "reviewed", "disputed", "revoked"}
TrustAttested(d) == IF d.status = "none" THEN Unattested(d) ELSE Attested(d)
TrustValid(r) ==
  /\ r.adapterTrust.status \in AdapterTrustStates /\ r.mappingTrust.status \in MappingTrustStates
  /\ TrustAttested(r.adapterTrust) /\ TrustAttested(r.mappingTrust)
  /\ AtLeast(r, "compiled") => r.adapterTrust.status # "none"
  /\ AtLeast(r, "semantically_linked") => r.mappingTrust.status # "none"

(***************************************************************************)
(* Interfaces, capabilities, access, economics and publisher readiness:    *)
(* only a public read of a catalogued interface is ever admitted, and      *)
(* every declaration is bound to an artifact of the record.                *)
(***************************************************************************)
InterfaceKinds == {"twirx_native", "mcp", "openapi", "graphql", "rest", "rss", "atom", "jsonld", "microdata",
                   "semantic_html", "webmcp", "browser", "search_discovery"}
CapabilityStates == {"observed", "candidate", "reviewed", "admitted"}
EffectClasses == {"public_read", "authenticated_read", "reversible_write", "stateful_commitment", "financial",
                  "legal_or_material", "destructive", "unknown"}
AccessClasses == {"public_free", "authenticated", "subscription", "metered", "paid_per_use", "quote_required",
                  "restricted", "unknown"}
PriceStates == {"not_assessed", "not_found", "candidate", "source_stated", "reviewed"}
SignalKinds == <<"agent_skill", "alternate_machine_representation", "api", "atom", "commercial_offer", "graphql",
                 "jsonld", "mcp", "oauth_protected_resource", "openapi", "payment_requirement", "rss", "twirx_native",
                 "webmcp">>     \* in the order of their names
CatalogLocator(alias) == 1000 + alias     \* "origins/catalog.json#" and the execution catalog ID

InterfacesValid(r) ==
  /\ Rising(r.interfaces, LAMBDA d : d.id)
  /\ \A d \in Range(r.interfaces) :
       /\ d.kind \in InterfaceKinds
       /\ d.declaration \in {"publisher_declared", "observed", "inferred", "archive_derived"}
       /\ d.execution \in {"descriptive_only", "not_admitted", "admitted_public_read"}
       /\ ValidText(d.locator) /\ d.health \in HealthStates /\ ValidDigestRef(d.evidence)
       /\ d.execution = "admitted_public_read" =>
            d.kind \in {"rest", "twirx_native"} /\ \E alias \in Range(r.aliases) : d.locator = CatalogLocator(alias)
CapabilitiesValid(r) ==
  /\ Rising(r.capabilities, LAMBDA c : c.id)
  /\ \A c \in Range(r.capabilities) :
       /\ c.status \in CapabilityStates /\ c.effect \in EffectClasses /\ ValidDigestRef(c.evidence)
       /\ c.interfaces # <<>> /\ UniqueSorted(c.interfaces)
       /\ \A i \in Range(c.interfaces) : \E d \in Range(r.interfaces) :
            d.id = i /\ (c.status = "admitted" => d.execution = "admitted_public_read")
       /\ c.status = "admitted" => /\ c.effect = "public_read" /\ AtLeast(r, "compiled")
                                   /\ c.id \in Range(r.semantics.operationIDs)
AccessValid(a) ==
  /\ a.class \in AccessClasses /\ a.price \in PriceStates
  /\ a.assessment \in {"not_assessed", "candidate", "observed", "reviewed"}
  /\ IF a.assessment = "not_assessed"
     THEN a.class = "unknown" /\ a.evidence = Nil /\ a.price = "not_assessed" /\ a.offers = <<>>
     ELSE ValidDigestRef(a.evidence)
  /\ Rising(a.offers, LAMBDA o : o.id)
  /\ \A o \in Range(a.offers) : /\ o.status \in {"candidate", "observed", "reviewed"} /\ o.price \in PriceStates
                                /\ o.class \in AccessClasses \ {"unknown"} /\ ValidDigestRef(o.evidence)
EconomicsValid(e) ==
  /\ e.funding \in {"commons", "publisher", "sponsor", "usage", "self_hosted", "unknown"}
  /\ e.requests >= 0 /\ e.cost >= 0
ReadinessValid(signals) ==
  /\ \A s \in Range(signals) : s.kind \in Range(SignalKinds)
  /\ Rising(signals, LAMBDA s : CHOOSE i \in DOMAIN SignalKinds : SignalKinds[i] = s.kind)
  /\ \A s \in Range(signals) :
       /\ s.presence \in {"present", "absent", "unknown"}
       /\ IF s.presence = "unknown"
          THEN s.observation = "not_assessed" /\ s.observedAt = Nil /\ s.evidence = Nil
          ELSE CanonicalTime(s.observedAt) /\ ValidDigestRef(s.evidence)
DescriptorDigests(r) ==
  {d.evidence : d \in Range(r.interfaces)} \cup {c.evidence : c \in Range(r.capabilities)}
    \cup {o.evidence : o \in Range(r.access.offers)}
    \cup (({r.access.evidence} \cup {s.evidence : s \in Range(r.readiness)}) \ {Nil})
DescriptorsBound(r) == DescriptorDigests(r) \subseteq {a.digest : a \in Range(r.artifacts)}
CapabilityMetadataValid(r) ==
  /\ InterfacesValid(r) /\ CapabilitiesValid(r) /\ AccessValid(r.access) /\ EconomicsValid(r.economics)
  /\ ReadinessValid(r.readiness) /\ DescriptorsBound(r)

(***************************************************************************)
(* The scheduler, the whole record, and the registry.                      *)
(***************************************************************************)
RefreshIntervals == [hot |-> 1, warm |-> 24, cool |-> 7 * 24, archival |-> 30 * 24]     \* hours
Factors(s) == <<s.value, s.novelty, s.demand, s.change, s.need, s.cost>>
SchedulerValid(s, runtime) ==
  /\ s.failures \in 0..1000
  /\ \A i \in 1..6 : Factors(s)[i] \in 0..100
  /\ \A t \in {s.lastAttempt, s.cooldownUntil} \ {Nil} : CanonicalTime(t)
  /\ \/ s.state = "disabled" /\ s.cooldownUntil = Nil /\ \A i \in 1..6 : Factors(s)[i] = 0
     \/ /\ s.state \in {"ready", "cooldown"}
        /\ runtime.requestBudget > 0 /\ runtime.storageBudget > 0
        /\ runtime.refreshClass \in DOMAIN RefreshIntervals
        /\ \A i \in 1..6 : Factors(s)[i] # 0
        /\ (s.state = "cooldown") = (s.cooldownUntil # Nil)
LivePermitted(d) == d.reviewState = "completed" /\ d.decision \in LivePermits
Stopped(r) ==
  r.health.status \in {"suspended", "revoked"} \/ r.adapterTrust.status = "revoked" \/ r.mappingTrust.status = "revoked"
FamiliesValid(r) ==
  /\ r.scope = "genesis_public" =>
       r.families # <<>> /\ UniqueSorted(r.families) /\ Range(r.families) \subseteq DOMAIN RequiredFamilyQuotas
  /\ r.scope = "test_fixture" => r.families = <<>>
RecordValid(r) ==
  /\ ValidText(r.id) /\ ValidText(r.origin) /\ ValidText(r.domain) /\ UniqueSorted(r.aliases)
  /\ r.catalog.state = "cataloged" /\ Attested(r.catalog)
  /\ r.languages # <<>> /\ Len(r.languages) <= 64 /\ UniqueSorted(r.languages)
  /\ FamiliesValid(r) /\ PolicyDimensionValid(r.policy) /\ TechnicalDimensionValid(r)
  /\ PublisherValid(r.publisher) /\ HealthValid(r.health) /\ TrustValid(r) /\ CapabilityMetadataValid(r)
  /\ r.runtime.requestBudget \in 0..1440 /\ r.runtime.storageBudget \in 0..100 * 1024 * 1024
  /\ SchedulerValid(r.runtime.scheduler, r.runtime)
  /\ r.runtime.scheduler.state # "disabled" => LivePermitted(r.policy) /\ ~Stopped(r)

\* The policy dimension is a copy of the policy, and of that exact policy set.
CopiesPolicy(d, p) == d.reviewState = p.reviewState /\ d.decision = p.decision /\ d.texts = p.texts
\* Mutant of BoundToPolicy: the digest of the policy set is not compared.
BoundToAnySet(r, p, policies) ==
  /\ r.policy.policyID = p.id
  /\ CopiesPolicy(r.policy, p) /\ r.policy.reviewedAt = p.reviewedAt /\ r.policy.reviewer = p.reviewer
  /\ r.policy.robotsDigest = p.robots.digest
  /\ LivePermitted(p) \/ r.runtime.scheduler.state = "disabled"
BoundToPolicy(r, p, policies) ==
  /\ r.policy.policyID = p.id /\ r.policy.setDigest = <<policies>>
  /\ CopiesPolicy(r.policy, p) /\ r.policy.reviewedAt = p.reviewedAt /\ r.policy.reviewer = p.reviewer
  /\ r.policy.robotsDigest = p.robots.digest
  /\ LivePermitted(p) \/ r.runtime.scheduler.state = "disabled"
PolicyBindingValid(r, policies) == \E p \in FindPolicy(policies, r.id) : BoundToPolicy(r, p, policies)

PublicRecords(registry) == {r \in Range(registry) : r.scope = "genesis_public"}
\* No origin, and no execution catalog ID, has two records.
IdentitiesDistinct(registry) ==
  /\ SortedBy(registry, LAMBDA r : r.id)
  /\ Distinct(registry, LAMBDA r : r.id) /\ Distinct(registry, LAMBDA r : r.origin)
  /\ \A r, s \in Range(registry) : Range(r.aliases) \cap Range(s.aliases) # {} => r = s
RegistryValid(registry, selection, policies) ==
  /\ Len(registry) <= RequiredCandidates + MaxTestFixtures
  /\ IdentitiesDistinct(registry)
  /\ \A r \in Range(registry) :
       /\ RecordValid(r)
       /\ \/ /\ r.scope = "genesis_public"
             /\ \E c \in FindCandidate(selection, r.id) : r.origin = c.origin /\ c.family \in Range(r.families)
             /\ r.policy.policyID # Nil => PolicyBindingValid(r, policies)
          \/ r.scope = "test_fixture" /\ FindCandidate(selection, r.id) = {} /\ r.policy.policyID = Nil
  /\ \A p \in Range(policies) : \E r \in PublicRecords(registry) : r.id = p.originID
\* ValidateArtifactFiles: every artifact a record names is on the disk as it was.
ArtifactFilesValid(registry, files) ==
  \A r \in Range(registry) : \A a \in Range(r.artifacts) : SafePath(a.path) /\ files[a.path] = a.digest
=============================================================================
