--------------------------- MODULE QueryDocuments ---------------------------
(***************************************************************************)
(* Semantic queries, subscriptions, query results, materialization         *)
(* manifests and economic events: src/internal/dataplane/query.go.         *)
(***************************************************************************)
EXTENDS PacketDocuments

QueryVersion == "tw.semantic-query/0.1"
SubscriptionVersion == "tw.semantic-subscription/0.1"
QueryResultVersion == "tw.semantic-query-result/0.1"
MaterializationVersion == "tw.materialization-manifest/0.1"
EconomicEventVersion == "tw.economic-event/0.1"

Uint(name) == Item("uint", name)
Identifier(name) == Text(name, MaxIdentifier)
EnumTextSet(s, max, min, allowed) ==
  Len(s) >= min /\ SortedUniqueText(s, max) /\ \A i \in DOMAIN s : s[i] \in allowed

(***************************************************************************)
(* Queries.                                                                *)
(***************************************************************************)
Lanes == {"observed_native", "provisional_semantic", "attested_semantic"}
Preferences == {"most_authoritative", "freshest", "fastest", "least_expensive", "highest_proof", "balanced"}
Canonical(amount) == {"integer", "decimal"} \cap Form(amount) # {}
DimensionsValid(s) ==
  /\ Len(s) <= 32 /\ StrictlySorted(s, LAMBDA a, b : Precedes(a.key, b.key))
  /\ \A i \in DOMAIN s :
       /\ ValidIdentifier(s[i].key)
       /\ s[i].relation \in {"eq", "in", "lt", "lte", "gt", "gte"}
       /\ Len(s[i].values) \in 1..64
       /\ \A j \in DOMAIN s[i].values : ValidTyped(s[i].values[j])
       /\ StrictlySorted(s[i].values, TypedBefore)
TimeModeValid(t) ==
  LET from == t.from.present
      until == t.until.present
      ordered == from /\ until => ~Precedes(t.until.value, t.from.value)
  IN /\ ValidOptionalUTCSecond(t.from) /\ ValidOptionalUTCSecond(t.until)
     /\ CASE t.mode = "current" -> ~from /\ ~until
          [] t.mode = "as_of" -> until /\ ~from
          [] t.mode = "between" -> from /\ until /\ ordered
          [] t.mode = "history" -> ordered
          [] OTHER -> FALSE
SelectionValid(q) ==
  /\ SortedUniqueText(q.select, 32) /\ q.select # <<>>
  /\ ValidOptionalIdentifier(q.subject.concept) /\ SortedUniqueText(q.subject.ids, 256)
  /\ q.subject.concept.present \/ q.subject.ids # <<>>
  /\ DimensionsValid(q.dimensions)
  /\ TimeModeValid(q.time)
  /\ q.ontology.maximumDepth <= 16 /\ q.ontology.maximumPathCost <= 16000000
  /\ EnumTextSet(q.ontology.allowedEdgeStatuses, 3, 1, {"candidate", "reviewed", "disputed"})
  /\ SortedUniqueText(q.sources.allowedOriginIDs, 256)
  /\ q.sources.minimumDistinctOrigins \in 1..32
  /\ q.sources.allowedOriginIDs # <<>> => q.sources.minimumDistinctOrigins <= Len(q.sources.allowedOriginIDs)
  /\ SortedUniqueText(q.sources.allowedAuthorityClasses, 32)
  /\ EnumTextSet(q.trust.allowedLanes, 3, 1, Lanes)
  /\ EnumTextSet(q.trust.allowedMappingStatuses, 4, 1, {"none", "candidate", "reviewed", "disputed"})
ExecutionValid(q) ==
  LET price == q.economics.maximumPrice
      run == q.execution
  IN /\ q.freshness.maximumAgeSeconds # Nothing => q.freshness.maximumAgeSeconds.just <= 315576000
     /\ q.freshness.staleBehavior \in {"exclude", "return_explicit_stale", "request_refresh"}
     /\ q.freshness.staleBehavior = "request_refresh" => run.allowLiveRefresh
     /\ IF price.present THEN Canonical(price.value) /\ q.economics.currency.present
        ELSE price.value = "" /\ ~q.economics.currency.present
     /\ ValidCurrency(q.economics.currency)
     /\ SortedUniqueText(q.economics.allowedFundingClasses, 16)
     /\ q.conflict.mode \in {"preserve_sources", "group_equivalent", "reject_conflict"}
     /\ run.maximumLiveOrigins <= 8 /\ run.deadlineMilliseconds \in 1..30000
     /\ run.maximumLiveOrigins # 0 => run.allowLiveRefresh
     /\ run.allowMaterializedState \/ run.allowLiveRefresh
     /\ q.proof.level \in {"packet", "field", "bundle"} /\ q.proof.includeNative
     /\ q.preference \in Preferences
     /\ q.limits.maximumResults \in 1..1000 /\ q.limits.maximumPackets \in 1..10000
     /\ q.limits.maximumProofBytes \in 1024..16777216
QueryValid(q) == q.version = QueryVersion /\ SelectionValid(q) /\ ExecutionValid(q)

QueryWritten ==
  << Item("text", "version"), Item("text set", "select"),
     Group("subject", 2, <<Item("optional text", "concept"), Item("text set", "ids")>>),
     Listed("dimensions", 3, <<Item("text", "key"), Item("text", "relation"), Item("typed list", "values")>>),
     Group("time", 3, <<Item("text", "mode"), Item("optional text", "from"), Item("optional text", "until")>>),
     Group("ontology", 3, <<Uint("maximumDepth"), Uint("maximumPathCost"), Item("text set", "allowedEdgeStatuses")>>),
     Group("sources", 3, <<Item("text set", "allowedOriginIDs"), Uint("minimumDistinctOrigins"),
       Item("text set", "allowedAuthorityClasses")>>),
     Group("trust", 2, <<Item("text set", "allowedLanes"), Item("text set", "allowedMappingStatuses")>>),
     Group("freshness", 2, <<Item("optional uint", "maximumAgeSeconds"), Item("text", "staleBehavior")>>),
     Group("economics", 3, <<Item("optional text", "maximumPrice"), Item("optional text", "currency"),
       Item("text set", "allowedFundingClasses")>>),
     Group("conflict", 1, <<Item("text", "mode")>>),
     Group("execution", 4, <<Item("bool", "allowMaterializedState"), Item("bool", "allowLiveRefresh"),
       Uint("maximumLiveOrigins"), Uint("deadlineMilliseconds")>>),
     Group("proof", 3, <<Item("text", "level"), Item("bool", "includePlan"), Item("bool", "includeNative")>>),
     Item("text", "preference"),
     Group("limits", 3, <<Uint("maximumResults"), Uint("maximumPackets"), Uint("maximumProofBytes")>>), Extensions >>

SelectionRead ==
  << Identifier("version"), SetOf("text set", "select", 1, 32),
     Group("subject", 2, <<OptText("concept", MaxIdentifier), SetOf("text set", "ids", 0, 256)>>),
     Each("dimensions", 0, 32, 3,
       <<Identifier("key"), Identifier("relation"), SetOf("typed list", "values", 1, 64)>>),
     Group("time", 3, <<Identifier("mode"), OptText("from", 20), OptText("until", 20)>>),
     Group("ontology", 3, <<Uint("maximumDepth"), Uint("maximumPathCost"),
       SetOf("text set", "allowedEdgeStatuses", 1, 3)>>) >>
ConditionsRead ==
  << Group("sources", 3, <<SetOf("text set", "allowedOriginIDs", 0, 256), Uint("minimumDistinctOrigins"),
       SetOf("text set", "allowedAuthorityClasses", 0, 32)>>),
     Group("trust", 2, <<SetOf("text set", "allowedLanes", 1, 3), SetOf("text set", "allowedMappingStatuses", 1, 4)>>),
     Group("freshness", 2, <<Item("optional uint", "maximumAgeSeconds"), Identifier("staleBehavior")>>),
     Group("economics", 3, <<OptText("maximumPrice", 128), OptText("currency", 3),
       SetOf("text set", "allowedFundingClasses", 0, 16)>>),
     Group("conflict", 1, <<Identifier("mode")>>),
     Group("execution", 4, <<Item("bool", "allowMaterializedState"), Item("bool", "allowLiveRefresh"),
       Uint("maximumLiveOrigins"), Uint("deadlineMilliseconds")>>),
     Group("proof", 3, <<Identifier("level"), Item("bool", "includePlan"), Item("bool", "includeNative")>>),
     Identifier("preference"),
     Group("limits", 3, <<Uint("maximumResults"), Uint("maximumPackets"), Uint("maximumProofBytes")>>), Extensions >>
MarshalQuery(q) == Encoded(16, QueryWritten, q)
UnmarshalQuery(tokens) == Decoded(tokens, 16, SelectionRead \o ConditionsRead, QueryValid)

(***************************************************************************)
(* Subscriptions.                                                          *)
(***************************************************************************)
AllDeltaKinds == UNION {DeltaKinds[class] : class \in DOMAIN DeltaKinds}
SubscriptionValid(s) ==
  /\ s.version = SubscriptionVersion
  /\ EnumTextSet(s.deltaClasses, 3, 1, DOMAIN DeltaKinds)
  /\ EnumTextSet(s.deltaKinds, 16, 1, AllDeltaKinds)
  /\ s.delivery \in {"sse", "poll"}
  /\ s.maximumEventsPerMinute \in 1..600
  /\ s.proofLevel \in {"packet", "bundle"}
  /\ ValidOptionalUTCSecond(s.expiresAt)
SubscriptionWritten ==
  << Item("text", "version"), Item("digest", "queryDigest"), Item("text set", "deltaClasses"),
     Item("text set", "deltaKinds"), Item("text", "delivery"), Uint("resumeAfterSequence"),
     Uint("maximumEventsPerMinute"), Item("text", "proofLevel"), Item("optional text", "expiresAt"), Extensions >>
SubscriptionRead ==
  << Identifier("version"), Item("digest", "queryDigest"), SetOf("text set", "deltaClasses", 1, 3),
     SetOf("text set", "deltaKinds", 1, 16), Identifier("delivery"), Uint("resumeAfterSequence"),
     Uint("maximumEventsPerMinute"), Identifier("proofLevel"), OptText("expiresAt", 20), Extensions >>
MarshalSubscription(s) == Encoded(10, SubscriptionWritten, s)
UnmarshalSubscription(tokens) == Decoded(tokens, 10, SubscriptionRead, SubscriptionValid)

(***************************************************************************)
(* Query results.                                                          *)
(***************************************************************************)
RowValid(r) ==
  /\ \A w \in {r.subjectID, r.predicateID, r.nativeTerm, r.originID} : ValidIdentifier(w)
  /\ ValidText(r.nativeLocator, MaxLocator, FALSE)
  /\ r.status \in NativeStatuses
  /\ IF r.status = "resolved" THEN ValidText(r.nativeLexical, MaxLexical, TRUE)
     ELSE r.nativeLexical = "" /\ r.typed = Nothing
  /\ ValidOptionalIdentifier(r.semanticTerm)
  /\ r.typed # Nothing => ValidTyped(r.typed.just)
  /\ r.lane \in Lanes
  /\ (r.lane = "observed_native") = ~r.semanticTerm.present
  /\ ValidUTCSecond(r.observedAt)
ConflictValid(c) ==
  /\ c.kind \in {"value", "time", "identity", "mapping", "authority"}
  /\ SortedUniqueDigests(c.packetDigests, 32, 2)
  /\ c.resolution \in {"preserved", "caller_policy_selected", "unresolved"}
RowBefore(a, b) ==
  IF a.subjectID # b.subjectID THEN Precedes(a.subjectID, b.subjectID)
  ELSE IF a.predicateID # b.predicateID THEN Precedes(a.predicateID, b.predicateID)
  ELSE IF a.originID # b.originID THEN Precedes(a.originID, b.originID)
  ELSE IF a.observedAt # b.observedAt THEN Precedes(a.observedAt, b.observedAt)
  ELSE a.packetDigest < b.packetDigest
ResultValid(r) ==
  /\ r.version = QueryResultVersion
  /\ r.preference \in Preferences
  /\ r.status \in {"resolved", "partial", "unresolved"}
  /\ Len(r.rows) <= 1000 /\ Len(r.conflicts) <= 256
  /\ \A i \in DOMAIN r.rows : RowValid(r.rows[i])
  /\ StrictlySorted(r.rows, RowBefore)
  /\ \A i \in DOMAIN r.conflicts : ConflictValid(r.conflicts[i])
  /\ StrictlySorted(r.conflicts, LAMBDA a, b : a.semanticKeyDigest < b.semanticKeyDigest)
  /\ r.proofArtifacts # <<>> /\ ValidDigestEntries(r.proofArtifacts, 10000)
  /\ ValidUTCSecond(r.generatedAt)
  /\ r.status = "resolved" => r.rows # <<>>
  /\ r.status = "unresolved" => r.rows = <<>>
RowWritten ==
  << Item("text", "subjectID"), Item("text", "predicateID"), Item("text", "status"), Item("text", "nativeTerm"),
     Item("text", "nativeLocator"), Item("text", "nativeLexical"), Item("optional text", "semanticTerm"),
     Item("optional typed", "typed"), Item("text", "originID"), Item("digest", "packetDigest"),
     Item("digest", "observationDigest"), Item("text", "lane"), Item("text", "observedAt") >>
RowRead ==
  << Identifier("subjectID"), Identifier("predicateID"), Identifier("status"), Identifier("nativeTerm"),
     Text("nativeLocator", MaxLocator), Text("nativeLexical", MaxLexical), OptText("semanticTerm", MaxIdentifier),
     Item("optional typed", "typed"), Identifier("originID"), Item("digest", "packetDigest"),
     Item("digest", "observationDigest"), Identifier("lane"), Text("observedAt", 20) >>
ResultWritten ==
  << Item("text", "version"), Item("digest", "queryDigest"), Item("digest", "planDigest"),
     Item("text", "preference"), Uint("snapshotSequence"), Item("text", "status"),
     Listed("rows", 13, RowWritten),
     Listed("conflicts", 4, <<Item("digest", "semanticKeyDigest"), Item("text", "kind"),
       Item("digest set", "packetDigests"), Item("text", "resolution")>>),
     DigestEntries("proofArtifacts", 0), Item("digest", "economicEventDigest"), Item("text", "generatedAt"), Extensions >>
ResultRead ==
  << Identifier("version"), Item("digest", "queryDigest"), Item("digest", "planDigest"),
     Identifier("preference"), Uint("snapshotSequence"), Identifier("status"),
     Each("rows", 0, 1000, 13, RowRead),
     Each("conflicts", 0, 256, 4, <<Item("digest", "semanticKeyDigest"), Identifier("kind"),
       SetOf("digest set", "packetDigests", 2, 32), Identifier("resolution")>>),
     DigestEntries("proofArtifacts", 10000), Item("digest", "economicEventDigest"), Text("generatedAt", 20), Extensions >>
MarshalQueryResult(r) == Encoded(12, ResultWritten, r)
UnmarshalQueryResult(tokens) == Decoded(tokens, 12, ResultRead, ResultValid)

(***************************************************************************)
(* Materialization manifests.                                              *)
(***************************************************************************)
MaterializationValid(m) ==
  /\ m.version = MaterializationVersion
  /\ ValidIdentifier(m.materializationID) /\ ValidIdentifier(m.canonVersion)
  /\ SortedUniqueDigests(m.packetDigests, 100000, 0)
  /\ m.rowCount <= 10000000
  /\ ValidUTCSecond(m.builtAt)
MaterializationWritten ==
  << Item("text", "version"), Item("text", "materializationID"), Item("digest", "definitionDigest"),
     Item("text", "canonVersion"), Uint("throughSequence"), Item("digest set", "packetDigests"),
     Item("digest", "resultArtifactDigest"), Uint("rowCount"), Item("text", "builtAt"), Extensions >>
MaterializationRead ==
  << Identifier("version"), Identifier("materializationID"), Item("digest", "definitionDigest"),
     Identifier("canonVersion"), Uint("throughSequence"), SetOf("digest set", "packetDigests", 0, 100000),
     Item("digest", "resultArtifactDigest"), Uint("rowCount"), Text("builtAt", 20), Extensions >>
MarshalMaterializationManifest(m) == Encoded(10, MaterializationWritten, m)
UnmarshalMaterializationManifest(tokens) == Decoded(tokens, 10, MaterializationRead, MaterializationValid)

(***************************************************************************)
(* Economic events.                                                        *)
(***************************************************************************)
LargeBound == 2000000000      \* stands for 1 << 40 and 1 << 32 - 1, past TLC's integers
MoneyValid(m) == ValidCurrency(Present(m.currency)) /\ Canonical(m.amount) /\ ValidIdentifier(m.class)
Resources == <<"requests", "transferredBytes", "cpuMilliseconds", "peakMemoryBytes", "evidenceBytesWritten",
               "proofBytesReturned", "humanReviewSeconds">>
EventValid(e) ==
  /\ e.version = EconomicEventVersion
  /\ ValidIdentifier(e.eventID) /\ ValidUTCSecond(e.occurredAt) /\ ValidOptionalIdentifier(e.originID)
  /\ ValidIdentifier(e.workType) /\ ValidOptionalDigest(e.queryDigest) /\ ValidOptionalDigest(e.batchID)
  /\ e.resources.requests <= 1000000
  /\ \A i \in DOMAIN Resources : e.resources[Resources[i]] <= LargeBound
  /\ ValidIdentifier(e.fundingClass) /\ ValidOptionalIdentifier(e.sponsorID)
  /\ MoneyValid(e.cost) /\ MoneyValid(e.revenue)
  /\ ValidIdentifier(e.measurementMethod)
MoneyWritten(name) == Group(name, 3, <<Item("text", "currency"), Item("text", "amount"), Item("text", "class")>>)
MoneyRead(name) == Group(name, 3, <<Text("currency", 3), Text("amount", 128), Identifier("class")>>)
EventWritten ==
  << Item("text", "version"), Item("text", "eventID"), Item("text", "occurredAt"), Item("optional text", "originID"),
     Item("text", "workType"), Item("optional digest", "queryDigest"), Item("optional digest", "batchID"),
     Group("resources", 7, [i \in DOMAIN Resources |-> Uint(Resources[i])]),
     Item("text", "fundingClass"), Item("optional text", "sponsorID"),
     MoneyWritten("cost"), MoneyWritten("revenue"), Item("text", "measurementMethod"), Extensions >>
EventRead ==
  << Identifier("version"), Identifier("eventID"), Text("occurredAt", 20), OptText("originID", MaxIdentifier),
     Identifier("workType"), Item("optional digest", "queryDigest"), Item("optional digest", "batchID"),
     Group("resources", 7, [i \in DOMAIN Resources |-> Uint(Resources[i])]),
     Identifier("fundingClass"), OptText("sponsorID", MaxIdentifier),
     MoneyRead("cost"), MoneyRead("revenue"), Identifier("measurementMethod"), Extensions >>
MarshalEconomicEvent(e) == Encoded(13, EventWritten, e)
UnmarshalEconomicEvent(tokens) == Decoded(tokens, 13, EventRead, EventValid)
==============================================================================
