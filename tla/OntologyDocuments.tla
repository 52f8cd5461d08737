-------------------------- MODULE OntologyDocuments --------------------------
(***************************************************************************)
(* Semantic frames, mapping claims, ontology modules and semantic          *)
(* universes: src/internal/dataplane/ontology.go.                          *)
(***************************************************************************)
EXTENDS QueryDocuments

FrameVersion == "tw.semantic-frame/0.1"
MappingVersion == "tw.mapping-claim/0.1"
ModuleVersion == "tw.ontology-module/0.1"
UniverseVersion == "tw.semantic-universe/0.1"
Conflicts == {"none", "preserved", "unresolved"}
Elements(s) == {s[i] : i \in DOMAIN s}

(***************************************************************************)
(* Frames: the packets of the derivation are exactly those of the slots.   *)
(***************************************************************************)
SlotValid(s) ==
  /\ ValidIdentifier(s.roleID)
  /\ s.status \in NativeStatuses /\ s.cardinality \in {"one", "many"}
  /\ Len(s.values) <= 64 /\ (s.status = "resolved") = (s.values # <<>>)
  /\ s.cardinality = "one" => Len(s.values) <= 1
  /\ \A i \in DOMAIN s.values : ValidTyped(s.values[i])
  /\ StrictlySorted(s.values, TypedBefore)
  /\ SortedUniqueDigests(s.packetDigests, 256, 1) /\ SortedUniqueText(s.mappingIDs, 32)
  /\ s.conflict \in Conflicts /\ (s.status = "contradictory" => s.conflict # "none")
FrameTimeValid(t) ==
  /\ ValidUTCSecond(t.composedAt) /\ ValidOptionalUTCSecond(t.validFrom) /\ ValidOptionalUTCSecond(t.validUntil)
  /\ t.validFrom.present /\ t.validUntil.present => ~Precedes(t.validUntil.value, t.validFrom.value)
FrameValid(f) ==
  /\ f.version = FrameVersion
  /\ ValidIdentifier(f.universeID) /\ ValidIdentifier(f.frameType) /\ ValidIdentifier(f.nativeKey)
  /\ SortedUniqueText(f.canonicalCandidates, 32)
  /\ Len(f.slots) \in 1..256
  /\ ContextValid(f.context) /\ FrameTimeValid(f.time)
  /\ f.epistemic.lane \in Lanes /\ f.epistemic.completeness <= 1000000 /\ f.epistemic.conflictStatus \in Conflicts
  /\ SortedUniqueDigests(f.derivation.packetDigests, 4096, 1)
  /\ SortedUniqueText(f.derivation.mappingIDs, 256) /\ ValidIdentifier(f.derivation.compilerVersion)
  /\ (f.epistemic.lane = "observed_native") = (f.derivation.mappingIDs = <<>>)
  /\ \A i \in DOMAIN f.slots : /\ SlotValid(f.slots[i])
                               /\ Elements(f.slots[i].mappingIDs) \subseteq Elements(f.derivation.mappingIDs)
  /\ StrictlySorted(f.slots, LAMBDA a, b : Precedes(a.roleID, b.roleID))
  /\ Elements(f.derivation.packetDigests) = UNION {Elements(f.slots[i].packetDigests) : i \in DOMAIN f.slots}
  /\ LifecycleValid(f.lifecycle)

SlotWritten == << Item("text", "roleID"), Item("text", "status"), Item("text", "cardinality"),
  Item("typed list", "values"), Item("digest set", "packetDigests"), Item("text set", "mappingIDs"),
  Item("text", "conflict") >>
SlotRead == << Identifier("roleID"), Identifier("status"), Identifier("cardinality"),
  SetOf("typed list", "values", 0, 64), SetOf("digest set", "packetDigests", 1, 256),
  SetOf("text set", "mappingIDs", 0, 32), Identifier("conflict") >>
FrameContextWritten ==
  Group("context", 4, <<Listed("dimensions", 2, <<Item("text", "key"), Item("typed", "value")>>),
    Item("optional text", "jurisdiction"), Item("optional text", "language"), Item("optional text", "scope")>>)
FrameContextRead ==
  Group("context", 4, <<Each("dimensions", 0, 32, 2, <<Identifier("key"), Item("typed", "value")>>),
    OptText("jurisdiction", MaxIdentifier), OptText("language", 63), OptText("scope", MaxIdentifier)>>)
FrameWritten ==
  << Item("text", "version"), Item("text", "universeID"), Item("text", "frameType"), Item("text", "nativeKey"),
     Item("text set", "canonicalCandidates"),
     Group("derivation", 5, <<Item("digest set", "packetDigests"), Item("digest", "moduleSetDigest"),
       Item("text set", "mappingIDs"), Item("digest", "compilerContractDigest"), Item("text", "compilerVersion")>>),
     Listed("slots", 7, SlotWritten), FrameContextWritten,
     Group("time", 3, <<Item("text", "composedAt"), Item("optional text", "validFrom"), Item("optional text", "validUntil")>>),
     Group("epistemic", 3, <<Item("text", "lane"), Uint("completeness"), Item("text", "conflictStatus")>>),
     Group("lifecycle", 2, <<Item("text", "state"), Item("optional digest", "supersedesDigest")>>), Extensions >>
FrameRead ==
  << Identifier("version"), Identifier("universeID"), Identifier("frameType"), Identifier("nativeKey"),
     SetOf("text set", "canonicalCandidates", 0, 32),
     Group("derivation", 5, <<SetOf("digest set", "packetDigests", 1, 4096), Item("digest", "moduleSetDigest"),
       SetOf("text set", "mappingIDs", 0, 256), Item("digest", "compilerContractDigest"), Identifier("compilerVersion")>>),
     Each("slots", 1, 256, 7, SlotRead), FrameContextRead,
     Group("time", 3, <<Text("composedAt", 20), OptText("validFrom", 20), OptText("validUntil", 20)>>),
     Group("epistemic", 3, <<Identifier("lane"), Uint("completeness"), Identifier("conflictStatus")>>),
     Group("lifecycle", 2, <<Identifier("state"), Item("optional digest", "supersedesDigest")>>), Extensions >>
MarshalFrame(f) == Encoded(12, FrameWritten, f)
UnmarshalFrame(tokens) == Decoded(tokens, 12, FrameRead, FrameValid)

(***************************************************************************)
(* Mapping claims: only a candidate goes without a review decision.        *)
(***************************************************************************)
MappingValid(m) ==
  /\ m.version = MappingVersion
  /\ \A w \in {m.mappingID, m.native.originID, m.native.term, m.semantic.conceptID, m.scope.universeID, m.moduleID} :
       ValidIdentifier(w)
  /\ ValidOptionalIdentifier(m.native.schemaRef) /\ ValidOptionalIdentifier(m.semantic.roleID)
  /\ Optional(m.native.locatorPattern, LAMBDA w : ValidText(w, MaxLocator, FALSE))
  /\ m.relation \in {"exact", "close", "broad", "narrow", "contextual", "candidate"}
  /\ m.status \in {"candidate", "reviewed", "disputed", "revoked"}
  /\ SortedUniqueText(m.scope.jurisdictions, 32) /\ SortedUniqueText(m.scope.conditionIDs, 32)
  /\ SortedUniqueText(m.scope.languages, 32)
  /\ \A w \in Elements(m.scope.languages) : ValidLanguage(Present(w))
  /\ SortedUniqueDigests(m.evidencePacketDigests, 256, 0)
  /\ ValidOptionalDigest(m.reviewDecisionDigest) /\ ValidOptionalDigest(m.supersedesMappingDigest)
  /\ (m.status = "candidate") = ~m.reviewDecisionDigest.present
  /\ m.relation = "candidate" => m.status = "candidate"
MappingWritten ==
  << Item("text", "version"), Item("text", "mappingID"),
     Group("native", 4, <<Item("text", "originID"), Item("optional text", "schemaRef"), Item("text", "term"),
       Item("optional text", "locatorPattern")>>),
     Group("semantic", 2, <<Item("text", "conceptID"), Item("optional text", "roleID")>>), Item("text", "relation"),
     Group("scope", 4, <<Item("text", "universeID"), Item("text set", "jurisdictions"), Item("text set", "languages"),
       Item("text set", "conditionIDs")>>),
     Item("text", "status"), Item("digest set", "evidencePacketDigests"), Item("text", "moduleID"),
     Item("optional digest", "reviewDecisionDigest"), Item("optional digest", "supersedesMappingDigest"), Extensions >>
MappingRead ==
  << Identifier("version"), Identifier("mappingID"),
     Group("native", 4, <<Identifier("originID"), OptText("schemaRef", MaxIdentifier), Identifier("term"),
       OptText("locatorPattern", MaxLocator)>>),
     Group("semantic", 2, <<Identifier("conceptID"), OptText("roleID", MaxIdentifier)>>), Identifier("relation"),
     Group("scope", 4, <<Identifier("universeID"), SetOf("text set", "jurisdictions", 0, 32),
       SetOf("text set", "languages", 0, 32), SetOf("text set", "conditionIDs", 0, 32)>>),
     Identifier("status"), SetOf("digest set", "evidencePacketDigests", 0, 256), Identifier("moduleID"),
     Item("optional digest", "reviewDecisionDigest"), Item("optional digest", "supersedesMappingDigest"), Extensions >>
MarshalMappingClaim(m) == Encoded(12, MappingWritten, m)
UnmarshalMappingClaim(tokens) == Decoded(tokens, 12, MappingRead, MappingValid)

(***************************************************************************)
(* Ontology modules.                                                       *)
(***************************************************************************)
SemanticVersion(w) == "semver" \in Form(w)
ModuleValid(m) ==
  /\ m.version = ModuleVersion /\ ValidIdentifier(m.moduleID) /\ SemanticVersion(m.semanticVersion)
  /\ m.status \in {"draft", "reviewed", "admitted", "deprecated", "superseded"}
  /\ m.conceptIDs # <<>>
  /\ SortedUniqueText(m.imports, 64) /\ SortedUniqueText(m.conceptIDs, 4096)
  /\ SortedUniqueText(m.frameTypeIDs, 512) /\ SortedUniqueText(m.roleIDs, 4096)
  /\ SortedUniqueText(m.queryTemplateIDs, 256) /\ SortedUniqueText(m.visualizationIDs, 256)
  /\ SortedUniqueDigests(m.mappingClaimDigests, 4096, 0)
  /\ ValidOptionalDigest(m.reviewDecisionDigest)
  /\ (m.status = "draft") = ~m.reviewDecisionDigest.present
ModuleWritten ==
  << Item("text", "version"), Item("text", "moduleID"), Item("text", "semanticVersion"), Item("text", "status"),
     Item("text set", "imports"), Item("text set", "conceptIDs"), Item("text set", "frameTypeIDs"),
     Item("text set", "roleIDs"), Item("digest set", "mappingClaimDigests"), Item("text set", "queryTemplateIDs"),
     Item("text set", "visualizationIDs"), Item("digest", "sourceArtifactDigest"),
     Item("optional digest", "reviewDecisionDigest"), Extensions >>
ModuleRead ==
  << Identifier("version"), Identifier("moduleID"), Text("semanticVersion", 64), Identifier("status"),
     SetOf("text set", "imports", 0, 64), SetOf("text set", "conceptIDs", 1, 4096),
     SetOf("text set", "frameTypeIDs", 0, 512), SetOf("text set", "roleIDs", 0, 4096),
     SetOf("digest set", "mappingClaimDigests", 0, 4096), SetOf("text set", "queryTemplateIDs", 0, 256),
     SetOf("text set", "visualizationIDs", 0, 256), Item("digest", "sourceArtifactDigest"),
     Item("optional digest", "reviewDecisionDigest"), Extensions >>
MarshalOntologyModule(m) == Encoded(14, ModuleWritten, m)
UnmarshalOntologyModule(tokens) == Decoded(tokens, 14, ModuleRead, ModuleValid)

(***************************************************************************)
(* Semantic universes.                                                     *)
(***************************************************************************)
UniverseValid(u) ==
  /\ u.version = UniverseVersion
  /\ ValidIdentifier(u.universeID) /\ ValidIdentifier(u.updatePolicyID) /\ ValidIdentifier(u.evaluationSuiteID)
  /\ SemanticVersion(u.semanticVersion) /\ ValidText(u.title, MaxShortText, FALSE)
  /\ u.moduleIDs # <<>> /\ u.frameTypeIDs # <<>>
  /\ SortedUniqueText(u.moduleIDs, 64) /\ SortedUniqueText(u.frameTypeIDs, 512)
  /\ SortedUniqueText(u.sourceOriginIDs, 1024) /\ SortedUniqueText(u.materializedViewIDs, 64)
  /\ SortedUniqueText(u.queryTemplateIDs, 256) /\ SortedUniqueText(u.visualizationIDs, 256)
  /\ SortedUniqueDigests(u.mappingClaimDigests, 4096, 0)
  /\ ValidUTCSecond(u.compiledAt)
UniverseWritten ==
  << Item("text", "version"), Item("text", "universeID"), Item("text", "semanticVersion"), Item("text", "title"),
     Item("text set", "moduleIDs"), Item("text set", "frameTypeIDs"), Item("text set", "sourceOriginIDs"),
     Item("digest set", "mappingClaimDigests"), Item("text set", "materializedViewIDs"),
     Item("text set", "queryTemplateIDs"), Item("text set", "visualizationIDs"), Item("text", "updatePolicyID"),
     Item("text", "evaluationSuiteID"), Item("digest", "moduleSetDigest"), Item("text", "compiledAt"), Extensions >>
UniverseRead ==
  << Identifier("version"), Identifier("universeID"), Text("semanticVersion", 64), Text("title", MaxShortText),
     SetOf("text set", "moduleIDs", 1, 64), SetOf("text set", "frameTypeIDs", 1, 512),
     SetOf("text set", "sourceOriginIDs", 0, 1024), SetOf("digest set", "mappingClaimDigests", 0, 4096),
     SetOf("text set", "materializedViewIDs", 0, 64), SetOf("text set", "queryTemplateIDs", 0, 256),
     SetOf("text set", "visualizationIDs", 0, 256), Identifier("updatePolicyID"),
     Identifier("evaluationSuiteID"), Item("digest", "moduleSetDigest"), Text("compiledAt", 20), Extensions >>
MarshalSemanticUniverse(u) == Encoded(16, UniverseWritten, u)
UnmarshalSemanticUniverse(tokens) == Decoded(tokens, 16, UniverseRead, UniverseValid)
==============================================================================
