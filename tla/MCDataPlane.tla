----------------------------- MODULE MCDataPlane -----------------------------
(***************************************************************************)
(* The instance of the data plane TLC checks: a vocabulary with a word on  *)
(* each side of every bound, one or two valid documents of each kind, and  *)
(* every document that differs from one of them in one field.              *)
(***************************************************************************)
EXTENDS DocumentExchange

MCLexicon ==
  << "", "../a", "1", "1.0.0", "1.5", "2026-01-01", "GET", "P1D", "USD", "a", "adapter.cbor", "added",
     "attested_semantic", "b", "balanced", "batches/p", "between", "boolean", "build_report", "c", "candidate",
     "canon", "catalog", "claim", "concepts", "content-language", "content-type", "contract.cbor", "current",
     "date", "datetime", "decimal", "deterministic", "disputed", "draft", "duration", "en", "exact", "exclude",
     "extra.cbor", "freshest", "identifier", "in", "input.cbor", "integer", "long", "long amount",
     "long version", "malformed", "manifest.cbor", "many", "mappings", "materialized_view", "none", "nul",
     "observation.cbor", "observed_native", "origin", "origin_catalog", "packet", "packet_batch", "partial",
     "preserve_sources", "preserved", "proof_index", "proofs", "provisional_semantic", "public",
     "public_versioned", "read", "remapped", "report", "representation.body", "request_refresh", "resolved",
     "result.cbor", "reviewed", "second1", "second2", "semantic", "semantic-closure.cbor", "sha256:lower:6",
     "sse", "superseded", "text", "transcript.json", "transport.cbor", "true", "tw.bundle-manifest/0.1",
     "tw.economic-event/0.1", "tw.mapping-claim/0.1", "tw.materialization-manifest/0.1",
     "tw.ontology-module/0.1", "tw.packet-batch-manifest/0.1", "tw.result/0.2", "tw.semantic-delta/0.1",
     "tw.semantic-frame/0.1", "tw.semantic-packet/0.1", "tw.semantic-query-result/0.1",
     "tw.semantic-query/0.1", "tw.semantic-snapshot-manifest/0.1", "tw.semantic-subscription/0.1",
     "tw.semantic-universe/0.1", "tw.transport/0.2", "unknown", "unresolved", "uri", "uri:a", "value", "vast",
     "views/v", "wide" >>
Plain(size, forms) == [size |-> size, forms |-> forms]
MCSpecial ==
  ("" :> Plain(0, {})) @@ ("1" :> Plain(1, {"integer"})) @@ ("1.5" :> Plain(3, {"decimal"}))
  @@ ("2026-01-01" :> Plain(10, {"date"})) @@ ("GET" :> Plain(3, {})) @@ ("P1D" :> Plain(3, {"duration"}))
  @@ ("USD" :> Plain(3, {"currency"})) @@ ("true" :> Plain(4, {"boolean"})) @@ ("uri:a" :> Plain(5, {"uri"}))
  @@ ("en" :> Plain(2, {"tag"})) @@ ("second1" :> Plain(20, {"second"})) @@ ("second2" :> Plain(20, {"second"}))
  @@ ("1.0.0" :> Plain(5, {"semver"})) @@ ("long version" :> Plain(70, {"semver"}))
  @@ ("long amount" :> Plain(200, {"decimal"}))
  @@ ("wide" :> Plain(300, {})) @@ ("long" :> Plain(600, {})) @@ ("vast" :> Plain(20000, {}))
  @@ ("malformed" :> Plain(8, {"malformed"})) @@ ("nul" :> Plain(8, {"nul"})) @@ ("../a" :> Plain(4, {"unsafe path"}))

(***************************************************************************)
(* Valid documents.                                                        *)
(***************************************************************************)
TypedOf(type, lexical) == [type |-> type, lexical |-> lexical, unit |-> Absent, currency |-> Absent]
Price == [TypedOf("decimal", "1.5") EXCEPT !.unit = Present("a"), !.currency = Present("USD")]
NoContext == [dimensions |-> <<>>, jurisdiction |-> Absent, language |-> Absent, scope |-> Absent]
SomeContext == [dimensions |-> <<[key |-> "a", value |-> TypedOf("integer", "1")], [key |-> "b", value |-> Price]>>,
                jurisdiction |-> Present("a"), language |-> Present("en"), scope |-> Absent]
Native ==
  [version |-> PacketVersion, kind |-> "claim",
   subject |-> [native |-> "a", canonicalCandidates |-> <<>>], predicate |-> [native |-> "a", semantic |-> Absent],
   object |-> [nativeStatus |-> "resolved", nativeLexical |-> "a", mediaType |-> Absent, language |-> Absent,
               typed |-> Nothing],
   context |-> NoContext,
   time |-> [observedAt |-> "second1", assertedAt |-> Absent, validFrom |-> Absent, validUntil |-> Absent,
             sourceModified |-> Absent],
   source |-> [originID |-> "a", representationDigest |-> 1, locator |-> "a", nativeSchemaRef |-> Absent],
   derivation |-> [observationDigest |-> 1, transportDigest |-> NoDigest, adapterDigest |-> 2,
                   extractionPlanDigest |-> 3, transformationIDs |-> <<>>, mappingIDs |-> <<>>,
                   semanticClosureDigest |-> NoDigest, compilerContractDigest |-> 1, compilerVersion |-> "a"],
   epistemic |-> [lane |-> "observed_native", extractionStatus |-> "deterministic", mappingStatus |-> "none",
                  confidence |-> Nothing, authorityClass |-> "a", freshnessStatus |-> "current"],
   lifecycle |-> [state |-> "current", supersedesDigest |-> NoDigest],
   retention |-> "public_versioned", disclosure |-> "public"]
Provisional ==
  [Native EXCEPT !.predicate.semantic = Present("a"), !.subject.canonicalCandidates = <<"a", "b">>,
     !.object.typed = Just(Price), !.context = SomeContext,
     !.time.validFrom = Present("second1"), !.time.validUntil = Present("second2"),
     !.derivation.transformationIDs = <<"b", "a">>, !.derivation.mappingIDs = <<"a">>,
     !.derivation.semanticClosureDigest = SomeDigest(2), !.derivation.transportDigest = SomeDigest(0),
     !.epistemic.lane = "provisional_semantic", !.epistemic.mappingStatus = "candidate",
     !.epistemic.confidence = Just(700000),
     !.lifecycle = [state |-> "superseded", supersedesDigest |-> SomeDigest(1)]]
SizedDigest(d, n) == [digest |-> d, size |-> n]
Named(name, d, n) == [name |-> name, digest |-> d, size |-> n]
Batch ==
  [version |-> BatchVersion, originID |-> "a", compilerContractDigest |-> 1, policyDecisionDigest |-> 2,
   startedAt |-> "second1", completedAt |-> "second2", previousBatchID |-> SomeDigest(1), observations |-> <<1, 2>>,
   packets |-> <<SizedDigest(1, 300), SizedDigest(2, 70000)>>, deltas |-> <<>>, rejectionReportDigest |-> 1,
   metricsDigest |-> 2, artifacts |-> <<Named("a", 1, 20), Named("b", 2, 30)>>]
Added ==
  [version |-> DeltaVersion, class |-> "origin", kind |-> "added", semanticKeyDigest |-> 1,
   beforePacketDigest |-> NoDigest, afterPacketDigest |-> SomeDigest(1), beforeSourceEvidenceDigest |-> NoDigest,
   afterSourceEvidenceDigest |-> SomeDigest(2), originID |-> "a", occurredAt |-> "second1", batchID |-> 1,
   canonVersion |-> "a", reasonCode |-> "a"]
Remapped ==
  [Added EXCEPT !.class = "semantic", !.kind = "remapped", !.beforePacketDigest = SomeDigest(2),
                !.beforeSourceEvidenceDigest = SomeDigest(2)]
Query ==
  [version |-> QueryVersion, select |-> <<"a", "b">>, subject |-> [concept |-> Absent, ids |-> <<"a">>],
   dimensions |-> <<[key |-> "a", relation |-> "in", values |-> <<TypedOf("text", "a"), TypedOf("text", "b")>>]>>,
   time |-> [mode |-> "between", from |-> Present("second1"), until |-> Present("second2")],
   ontology |-> [maximumDepth |-> 3, maximumPathCost |-> 70000, allowedEdgeStatuses |-> <<"candidate", "reviewed">>],
   sources |-> [allowedOriginIDs |-> <<"a", "b">>, minimumDistinctOrigins |-> 1, allowedAuthorityClasses |-> <<>>],
   trust |-> [allowedLanes |-> <<"observed_native", "provisional_semantic">>, allowedMappingStatuses |-> <<"candidate">>],
   freshness |-> [maximumAgeSeconds |-> Just(300), staleBehavior |-> "exclude"],
   economics |-> [maximumPrice |-> Present("1.5"), currency |-> Present("USD"), allowedFundingClasses |-> <<"a">>],
   conflict |-> [mode |-> "preserve_sources"],
   execution |-> [allowMaterializedState |-> TRUE, allowLiveRefresh |-> FALSE, maximumLiveOrigins |-> 0,
                  deadlineMilliseconds |-> 1000],
   proof |-> [level |-> "packet", includePlan |-> FALSE, includeNative |-> TRUE], preference |-> "balanced",
   limits |-> [maximumResults |-> 255, maximumPackets |-> 256, maximumProofBytes |-> 70000]]
LiveQuery ==
  [Query EXCEPT !.time = [mode |-> "current", from |-> Absent, until |-> Absent],
     !.freshness = [maximumAgeSeconds |-> Nothing, staleBehavior |-> "request_refresh"],
     !.economics = [maximumPrice |-> Absent, currency |-> Absent, allowedFundingClasses |-> <<>>],
     !.execution.allowLiveRefresh = TRUE, !.execution.maximumLiveOrigins = 1]
Subscription ==
  [version |-> SubscriptionVersion, queryDigest |-> 1, deltaClasses |-> <<"origin", "semantic">>,
   deltaKinds |-> <<"disputed", "remapped">>, delivery |-> "sse", resumeAfterSequence |-> 70000,
   maximumEventsPerMinute |-> 24, proofLevel |-> "packet", expiresAt |-> Present("second1")]
Row ==
  [subjectID |-> "a", predicateID |-> "a", status |-> "resolved", nativeTerm |-> "a", nativeLocator |-> "a",
   nativeLexical |-> "", semanticTerm |-> Absent, typed |-> Nothing, originID |-> "a", packetDigest |-> 1,
   observationDigest |-> 1, lane |-> "observed_native", observedAt |-> "second1"]
SemanticRow ==
  [Row EXCEPT !.packetDigest = 2, !.semanticTerm = Present("a"), !.typed = Just(Price), !.lane = "attested_semantic",
              !.nativeLexical = "a"]
QueryResult ==
  [version |-> QueryResultVersion, queryDigest |-> 1, planDigest |-> 2, preference |-> "freshest",
   snapshotSequence |-> 24, status |-> "partial", rows |-> <<Row, SemanticRow>>,
   conflicts |-> <<[semanticKeyDigest |-> 1, kind |-> "value", packetDigests |-> <<1, 2>>, resolution |-> "preserved"]>>,
   proofArtifacts |-> <<SizedDigest(1, 256)>>, economicEventDigest |-> 3, generatedAt |-> "second2"]
Materialization ==
  [version |-> MaterializationVersion, materializationID |-> "a", definitionDigest |-> 1, canonVersion |-> "a",
   throughSequence |-> 300, packetDigests |-> <<1, 2>>, resultArtifactDigest |-> 1, rowCount |-> 255,
   builtAt |-> "second1"]
MoneyOf(amount) == [currency |-> "USD", amount |-> amount, class |-> "a"]
EconomicEvent ==
  [version |-> EconomicEventVersion, eventID |-> "a", occurredAt |-> "second1", originID |-> Present("a"),
   workType |-> "a", queryDigest |-> SomeDigest(1), batchID |-> NoDigest,
   resources |-> [requests |-> 1, transferredBytes |-> 70000, cpuMilliseconds |-> 255, peakMemoryBytes |-> 256,
                  evidenceBytesWritten |-> 23, proofBytesReturned |-> 24, humanReviewSeconds |-> 0],
   fundingClass |-> "a", sponsorID |-> Absent, cost |-> MoneyOf("1.5"), revenue |-> MoneyOf("1"),
   measurementMethod |-> "a"]
SlotOf(role, values, packets) ==
  [roleID |-> role, status |-> IF values = <<>> THEN "unknown" ELSE "resolved", cardinality |-> "many",
   values |-> values, packetDigests |-> packets, mappingIDs |-> <<>>, conflict |-> "none"]
NativeFrame ==
  [version |-> FrameVersion, universeID |-> "a", frameType |-> "a", nativeKey |-> "a", canonicalCandidates |-> <<"a">>,
   slots |-> <<SlotOf("a", <<TypedOf("text", "a"), TypedOf("text", "b")>>, <<1, 2>>), SlotOf("b", <<>>, <<1>>)>>,
   context |-> SomeContext,
   time |-> [composedAt |-> "second1", validFrom |-> Absent, validUntil |-> Present("second2")],
   epistemic |-> [lane |-> "observed_native", completeness |-> 500000, conflictStatus |-> "none"],
   derivation |-> [packetDigests |-> <<1, 2>>, moduleSetDigest |-> 1, mappingIDs |-> <<>>,
                   compilerContractDigest |-> 1, compilerVersion |-> "a"],
   lifecycle |-> [state |-> "current", supersedesDigest |-> NoDigest]]
MappedFrame ==
  [NativeFrame EXCEPT !.epistemic.lane = "attested_semantic", !.derivation.mappingIDs = <<"a", "b">>,
                      !.slots[1].mappingIDs = <<"a">>]
Mapping ==
  [version |-> MappingVersion, mappingID |-> "a",
   native |-> [originID |-> "a", schemaRef |-> Absent, term |-> "a", locatorPattern |-> Present("wide")],
   semantic |-> [conceptID |-> "a", roleID |-> Present("a")], relation |-> "exact",
   scope |-> [universeID |-> "a", jurisdictions |-> <<"a", "b">>, languages |-> <<"en">>, conditionIDs |-> <<>>],
   status |-> "reviewed", evidencePacketDigests |-> <<1, 2>>, moduleID |-> "a",
   reviewDecisionDigest |-> SomeDigest(1), supersedesMappingDigest |-> NoDigest]
OntologyModule ==
  [version |-> ModuleVersion, moduleID |-> "a", semanticVersion |-> "1.0.0", status |-> "draft", imports |-> <<"a">>,
   conceptIDs |-> <<"a", "b">>, frameTypeIDs |-> <<>>, roleIDs |-> <<"a">>, mappingClaimDigests |-> <<1>>,
   queryTemplateIDs |-> <<>>, visualizationIDs |-> <<"b">>, sourceArtifactDigest |-> 2, reviewDecisionDigest |-> NoDigest]
Universe ==
  [version |-> UniverseVersion, universeID |-> "a", semanticVersion |-> "1.0.0", title |-> "a", moduleIDs |-> <<"a">>,
   frameTypeIDs |-> <<"a", "b">>, sourceOriginIDs |-> <<>>, mappingClaimDigests |-> <<1>>, materializedViewIDs |-> <<"b">>,
   queryTemplateIDs |-> <<"a">>, visualizationIDs |-> <<>>, updatePolicyID |-> "a", evaluationSuiteID |-> "b",
   moduleSetDigest |-> 1, compiledAt |-> "second1"]
ArtifactOf(path, d, size, role) == [path |-> path, digest |-> d, size |-> size, mediaType |-> "a", role |-> role]
Snapshot ==
  [version |-> SnapshotVersion, channel |-> "a", createdAt |-> "second1", sourceRevision |-> "a",
   compilerContractDigest |-> 1, compilerVersion |-> "a", atlasSelectionDigest |-> 2, canonModuleSetDigest |-> 3,
   previousSnapshotID |-> NoDigest, evidenceClasses |-> <<"a", "b">>,
   artifacts |-> << ArtifactOf("batches/p", 1, 300, "packet_batch"), ArtifactOf("catalog", 2, 10, "origin_catalog"),
     ArtifactOf("concepts", 3, 10, "concepts"), ArtifactOf("mappings", 4, 10, "mappings"),
     ArtifactOf("proofs", 5, 10, "proof_index"), ArtifactOf("report", 6, 10, "build_report"),
     ArtifactOf("views/v", 7, 50, "materialized_view") >>,
   views |-> <<[id |-> "a", definitionDigest |-> 1, artifactDigest |-> 7, rowCount |-> 24, throughSequence |-> 23]>>,
   counts |-> [origins |-> 1, concepts |-> 23, mappings |-> 24, packets |-> 255, deltas |-> 256, views |-> 1,
               proofArtifacts |-> 0, economicEvents |-> 0],
   highestPacketSequence |-> 24, highestDeltaSequence |-> 0, totalArtifactBytes |-> 400, buildReportDigest |-> 6]
Envelope ==
  [version |-> 1, requestURL |-> "uri:a", finalURL |-> "uri:a", method |-> "GET", status |-> 255, mediaType |-> "a",
   retrievedAt |-> "second1", bodySHA256 |-> 1, bodySize |-> 70000, policyID |-> "a", observerID |-> "b"]
Transport ==
  [version |-> TransportVersion, requestURL |-> "a", finalURL |-> "c", policyID |-> "a",
   redirects |-> <<[fromURL |-> "a", status |-> 301, toURL |-> "b"], [fromURL |-> "b", status |-> 302, toURL |-> "c"]>>,
   headers |-> <<[name |-> "content-language", value |-> "a"], [name |-> "content-type", value |-> "b"]>>]
FieldOf(id, status, present, lexical) ==
  [id |-> id, status |-> status, nativeTerm |-> "a", nativeLocator |-> "a", nativePresent |-> present,
   nativeLexical |-> lexical, semanticTerm |-> "a", semanticType |-> "a", semanticPresent |-> present,
   semanticLexical |-> lexical, transforms |-> <<"b", "a">>, mapping |-> "a"]
TypedResult ==
  [version |-> TypedResultVersion, invocationID |-> "a", originID |-> "a", originVersion |-> "a", operationID |-> "a",
   operationVersion |-> "a", effect |-> "read", status |-> "partial", observedAt |-> "second1", inputDigest |-> 1,
   observationDigest |-> 2, transportDigest |-> 3, adapterDigest |-> 1, contractDigest |-> 2, semanticClosureDigest |-> 3,
   fields |-> <<FieldOf("b", "resolved", TRUE, ""), FieldOf("a", "unresolved", FALSE, "")>>]
Bundle ==
  [version |-> ManifestVersion, resultID |-> "sha256:lower:6",
   entries |-> << Named("adapter.cbor", 1, 1), Named("contract.cbor", 2, 23), Named("input.cbor", 3, 24),
     Named("observation.cbor", 4, 255), Named("representation.body", 5, 256), Named("result.cbor", 6, 70000),
     Named("semantic-closure.cbor", 7, 1), Named("transcript.json", 8, 1), Named("transport.cbor", 9, 1) >>]
MCOriginals ==
  [kind \in Kinds |->
    CASE kind = "packet" -> {Native, Provisional} [] kind = "batch" -> {Batch} [] kind = "delta" -> {Added, Remapped}
      [] kind = "query" -> {Query, LiveQuery} [] kind = "subscription" -> {Subscription}
      [] kind = "query-result" -> {QueryResult} [] kind = "materialization" -> {Materialization}
      [] kind = "economic-event" -> {EconomicEvent} [] kind = "snapshot" -> {Snapshot}
      [] kind = "frame" -> {NativeFrame, MappedFrame} [] kind = "mapping-claim" -> {Mapping}
      [] kind = "ontology-module" -> {OntologyModule} [] kind = "universe" -> {Universe}
      [] kind = "observation" -> {Envelope} [] kind = "transport" -> {Transport}
      [] kind = "result" -> {TypedResult} [] kind = "bundle" -> {Bundle}]

(***************************************************************************)
(* Every document that differs from a valid one in one field.              *)
(***************************************************************************)
Words == {"", "1", "a", "b", "second2", "en", "wide", "long", "malformed", "nul"}
Numbers == {0, 1, 24, 256, 1000001, 316000000}
TypedVariants ==
  {TypedOf(type, w) : type \in {"integer", "text", "identifier", "datetime"}, w \in {"", "1", "a", "second1", "long"}}
    \cup {Price, [Price EXCEPT !.currency = Present("a")], [Price EXCEPT !.unit = [present |-> FALSE, value |-> "a"]],
          TypedOf("boolean", "true"), TypedOf("date", "2026-01-01"), TypedOf("duration", "P1D"), TypedOf("uri", "uri:a")}
TextLists == {<<>>, <<"a">>, <<"a", "b">>, <<"b", "a">>, <<"a", "a">>, <<"">>, <<"long">>, <<"malformed">>, <<"nul">>}
DigestLists == {<<>>, <<1>>, <<0, 1>>, <<1, 2>>, <<2, 1>>, <<1, 1>>}
Backwards(s) == [i \in DOMAIN s |-> s[Len(s) + 1 - i]]

RECURSIVE Variants(_, _), Others(_, _)
Others(f, v) ==
  CASE f.kind = "text" -> Words \cup {"long amount", "long version"}
    [] f.kind = "optional text" -> {Absent, [present |-> FALSE, value |-> "a"]} \cup {Present(w) : w \in Words}
    [] f.kind = "uint" -> Numbers
    [] f.kind = "optional uint" -> {Nothing} \cup {Just(n) : n \in Numbers}
    [] f.kind = "bool" -> BOOLEAN
    [] f.kind = "digest" -> {0, 2}
    [] f.kind = "optional digest" -> {NoDigest, [present |-> FALSE, value |-> 1], SomeDigest(0), SomeDigest(2)}
    [] f.kind \in {"text set", "text list"} -> TextLists \cup {Backwards(v), v \o v} \cup {SubSeq(v, 2, Len(v))}
    [] f.kind = "digest set" -> DigestLists
    [] f.kind = "typed" -> TypedVariants
    [] f.kind = "optional typed" -> {Nothing} \cup {Just(t) : t \in TypedVariants}
    [] f.kind = "typed list" -> {<<>>, v, Backwards(v), v \o v} \cup {<<t>> : t \in TypedVariants}
    [] f.kind = "group" -> Variants(f.fields, v)
    [] f.kind = "each" -> {<<>>, Backwards(v), v \o v}
         \cup UNION {{[v EXCEPT ![i] = e] : e \in Variants(f.fields, v[i])} : i \in DOMAIN v}
Variants(fields, d) ==
  UNION {{[d EXCEPT ![fields[i].name] = v] : v \in Others(fields[i], d[fields[i].name])} :
         i \in {j \in DOMAIN fields : fields[j].kind # "extensions"}}
Fields ==
  [kind \in Kinds |->
    CASE kind = "packet" -> PacketWritten [] kind = "batch" -> BatchWritten [] kind = "delta" -> DeltaWritten
      [] kind = "query" -> QueryWritten [] kind = "subscription" -> SubscriptionWritten
      [] kind = "query-result" -> ResultWritten [] kind = "materialization" -> MaterializationWritten
      [] kind = "economic-event" -> EventWritten [] kind = "snapshot" -> SnapshotWritten
      [] kind = "frame" -> FrameWritten [] kind = "mapping-claim" -> MappingWritten
      [] kind = "ontology-module" -> ModuleWritten [] kind = "universe" -> UniverseWritten
      [] kind = "observation" -> EnvelopeWritten [] kind = "transport" -> TransportWritten
      [] kind = "result" -> TypedResultWritten [] kind = "bundle" -> ManifestWritten]
MCSamples == [kind \in Kinds |-> UNION {Variants(Fields[kind], d) : d \in MCOriginals[kind]} \cup MCOriginals[kind]]
MCOtherTexts == {"", "a", "second2"}
MCOtherNumbers == {0, 1, 300}

ExchangeSpec == ExchangeInit /\ [][ExchangeNext]_exchangeVars
==============================================================================
