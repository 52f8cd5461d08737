--------------------------- MODULE PacketDocuments ---------------------------
(***************************************************************************)
(* Semantic packets, batch manifests and semantic deltas:                  *)
(* src/internal/dataplane/packet.go.  For each document what Validate      *)
(* accepts, the fields Marshal writes in its order, and the fields and     *)
(* bounds Unmarshal reads in its own.                                      *)
(***************************************************************************)
EXTENDS CborCodec

PacketVersion == "tw.semantic-packet/0.1"
BatchVersion == "tw.packet-batch-manifest/0.1"
DeltaVersion == "tw.semantic-delta/0.1"

(***************************************************************************)
(* Packets.                                                                *)
(***************************************************************************)
NativeStatuses == {"resolved", "unknown", "not_observed", "not_provided", "not_applicable", "withheld",
                   "redacted", "unresolved", "contradictory", "invalid", "confirmed_absent"}
ObjectValid(o) ==
  /\ o.nativeStatus \in NativeStatuses
  /\ IF o.nativeStatus = "resolved" THEN ValidText(o.nativeLexical, MaxLexical, TRUE)
     ELSE o.nativeLexical = "" /\ o.typed = Nothing
  /\ o.typed # Nothing => ValidTyped(o.typed.just)
  /\ Optional(o.mediaType, LAMBDA w : ValidText(w, MaxShortText, FALSE))
  /\ ValidLanguage(o.language)
ContextValid(c) ==
  /\ Len(c.dimensions) <= 32
  /\ \A i \in DOMAIN c.dimensions : ValidIdentifier(c.dimensions[i].key) /\ ValidTyped(c.dimensions[i].value)
  /\ StrictlySorted(c.dimensions, LAMBDA a, b : Precedes(a.key, b.key))
  /\ ValidOptionalIdentifier(c.jurisdiction) /\ ValidLanguage(c.language) /\ ValidOptionalIdentifier(c.scope)
TimeValid(t) ==
  /\ ValidUTCSecond(t.observedAt)
  /\ \A o \in {t.assertedAt, t.validFrom, t.validUntil, t.sourceModified} : ValidOptionalUTCSecond(o)
  /\ t.validFrom.present /\ t.validUntil.present => ~Precedes(t.validUntil.value, t.validFrom.value)

\* The trust lane says what semantic promotion a packet may carry.
LaneValid(p) ==
  LET semantic == p.predicate.semantic.present
      mapped == p.derivation.mappingIDs # <<>>
      closed == p.derivation.semanticClosureDigest.present
      status == p.epistemic.mappingStatus
      confidence == p.epistemic.confidence # Nothing
  IN /\ CASE p.epistemic.lane = "observed_native" ->
              ~semantic /\ ~mapped /\ ~closed /\ status = "none" /\ ~confidence
          [] p.epistemic.lane = "provisional_semantic" ->
              semantic /\ mapped /\ closed /\ status = "candidate"
          [] p.epistemic.lane = "attested_semantic" ->
              semantic /\ mapped /\ closed /\ status = "reviewed" /\ ~confidence
          [] OTHER -> FALSE
     /\ confidence => status = "candidate" /\ p.epistemic.confidence.just <= 1000000
DerivationValid(d) ==
  /\ ValidOptionalDigest(d.transportDigest) /\ ValidOptionalDigest(d.semanticClosureDigest)
  /\ Len(d.transformationIDs) <= 32
  /\ \A i \in DOMAIN d.transformationIDs :
       /\ ValidIdentifier(d.transformationIDs[i])
       /\ \A j \in DOMAIN d.transformationIDs : d.transformationIDs[i] = d.transformationIDs[j] => i = j
  /\ SortedUniqueText(d.mappingIDs, 32)
  /\ ValidIdentifier(d.compilerVersion)
LifecycleValid(l) ==
  /\ l.state \in {"current", "superseded", "withdrawn", "stale", "retracted", "invalid"}
  /\ ValidOptionalDigest(l.supersedesDigest)
  /\ l.state = "superseded" => l.supersedesDigest.present
  /\ l.state = "current" => ~l.supersedesDigest.present
PacketValid(p) ==
  /\ p.version = PacketVersion
  /\ p.kind \in {"claim", "state", "capability", "offer", "relationship", "event", "measurement", "document"}
  /\ ValidIdentifier(p.subject.native) /\ SortedUniqueText(p.subject.canonicalCandidates, 32)
  /\ ValidIdentifier(p.predicate.native) /\ ValidOptionalIdentifier(p.predicate.semantic)
  /\ ObjectValid(p.object) /\ ContextValid(p.context) /\ TimeValid(p.time)
  /\ ValidIdentifier(p.source.originID) /\ ValidText(p.source.locator, MaxLocator, FALSE)
  /\ ValidOptionalIdentifier(p.source.nativeSchemaRef)
  /\ DerivationValid(p.derivation)
  /\ p.epistemic.extractionStatus \in {"deterministic", "publisher_attested"}
  /\ p.epistemic.mappingStatus \in {"none", "candidate", "reviewed", "disputed", "revoked"}
  /\ ValidIdentifier(p.epistemic.authorityClass)
  /\ p.epistemic.freshnessStatus \in {"current", "stale", "unknown"}
  /\ LaneValid(p) /\ LifecycleValid(p.lifecycle)
  /\ p.retention \in {"public_transient", "public_versioned", "public_archival"}
  /\ p.disclosure = "public"

PacketWritten ==
  << Item("text", "version"), Item("text", "kind"),
     Group("subject", 2, <<Item("text", "native"), Item("text set", "canonicalCandidates")>>),
     Group("predicate", 2, <<Item("text", "native"), Item("optional text", "semantic")>>),
     Group("object", 5, <<Item("text", "nativeStatus"), Item("text", "nativeLexical"),
       Item("optional text", "mediaType"), Item("optional text", "language"), Item("optional typed", "typed")>>),
     Group("context", 4, <<Listed("dimensions", 2, <<Item("text", "key"), Item("typed", "value")>>),
       Item("optional text", "jurisdiction"), Item("optional text", "language"), Item("optional text", "scope")>>),
     Group("time", 5, <<Item("text", "observedAt"), Item("optional text", "assertedAt"),
       Item("optional text", "validFrom"), Item("optional text", "validUntil"), Item("optional text", "sourceModified")>>),
     Group("source", 4, <<Item("text", "originID"), Item("digest", "representationDigest"),
       Item("text", "locator"), Item("optional text", "nativeSchemaRef")>>),
     Group("derivation", 9, <<Item("digest", "observationDigest"), Item("optional digest", "transportDigest"),
       Item("digest", "adapterDigest"), Item("digest", "extractionPlanDigest"), Item("text list", "transformationIDs"),
       Item("text set", "mappingIDs"), Item("optional digest", "semanticClosureDigest"),
       Item("digest", "compilerContractDigest"), Item("text", "compilerVersion")>>),
     Group("epistemic", 6, <<Item("text", "lane"), Item("text", "extractionStatus"), Item("text", "mappingStatus"),
       Item("optional uint", "confidence"), Item("text", "authorityClass"), Item("text", "freshnessStatus")>>),
     Group("lifecycle", 2, <<Item("text", "state"), Item("optional digest", "supersedesDigest")>>),
     Item("text", "retention"), Item("text", "disclosure"), Extensions >>

ContextRead ==
  << Group("subject", 2, <<Text("native", MaxIdentifier), SetOf("text set", "canonicalCandidates", 0, 32)>>),
     Group("predicate", 2, <<Text("native", MaxIdentifier), OptText("semantic", MaxIdentifier)>>),
     Group("object", 5, <<Text("nativeStatus", MaxIdentifier), Text("nativeLexical", MaxLexical),
       OptText("mediaType", MaxShortText), OptText("language", 63), Item("optional typed", "typed")>>),
     Group("context", 4, <<Each("dimensions", 0, 32, 2, <<Text("key", MaxIdentifier), Item("typed", "value")>>),
       OptText("jurisdiction", MaxIdentifier), OptText("language", 63), OptText("scope", MaxIdentifier)>>),
     Group("time", 5, <<Text("observedAt", 20), OptText("assertedAt", 20), OptText("validFrom", 20),
       OptText("validUntil", 20), OptText("sourceModified", 20)>>) >>
ProvenanceRead ==
  << Group("source", 4, <<Text("originID", MaxIdentifier), Item("digest", "representationDigest"),
       Text("locator", MaxLocator), OptText("nativeSchemaRef", MaxIdentifier)>>),
     Group("derivation", 9, <<Item("digest", "observationDigest"), Item("optional digest", "transportDigest"),
       Item("digest", "adapterDigest"), Item("digest", "extractionPlanDigest"),
       TextList("transformationIDs", 32, MaxIdentifier), SetOf("text set", "mappingIDs", 0, 32),
       Item("optional digest", "semanticClosureDigest"), Item("digest", "compilerContractDigest"),
       Text("compilerVersion", MaxIdentifier)>>),
     Group("epistemic", 6, <<Text("lane", MaxIdentifier), Text("extractionStatus", MaxIdentifier),
       Text("mappingStatus", MaxIdentifier), Item("optional uint", "confidence"),
       Text("authorityClass", MaxIdentifier), Text("freshnessStatus", MaxIdentifier)>>),
     Group("lifecycle", 2, <<Text("state", MaxIdentifier), Item("optional digest", "supersedesDigest")>>),
     Text("retention", MaxIdentifier), Text("disclosure", MaxIdentifier), Extensions >>
PacketRead == <<Text("version", MaxIdentifier), Text("kind", MaxIdentifier)>> \o ContextRead \o ProvenanceRead
MarshalPacket(p) == Encoded(14, PacketWritten, p)
UnmarshalPacket(tokens) == Decoded(tokens, 14, PacketRead, PacketValid)

(***************************************************************************)
(* Batch manifests.                                                        *)
(***************************************************************************)
ValidDigestEntries(s, max) ==
  /\ Len(s) <= max
  /\ \A i \in DOMAIN s : s[i].size \in 1..(4 * 1024 * 1024)
  /\ StrictlySorted(s, LAMBDA a, b : a.digest < b.digest)
DigestEntries(name, max) == Each(name, 0, max, 2, <<Item("digest", "digest"), Item("uint", "size")>>)
BatchValid(m) ==
  /\ m.version = BatchVersion
  /\ ValidIdentifier(m.originID)
  /\ ValidUTCSecond(m.startedAt) /\ ValidUTCSecond(m.completedAt) /\ ~Precedes(m.completedAt, m.startedAt)
  /\ ValidOptionalDigest(m.previousBatchID)
  /\ SortedUniqueDigests(m.observations, 1024, 1)
  /\ ValidDigestEntries(m.packets, 32768) /\ ValidDigestEntries(m.deltas, 32768)
  /\ Len(m.artifacts) \in 1..64
  /\ \A i \in DOMAIN m.artifacts : /\ ValidText(m.artifacts[i].name, MaxShortText, FALSE)
                                   /\ m.artifacts[i].size \in 1..(4 * 1024 * 1024)
  /\ StrictlySorted(m.artifacts, LAMBDA a, b : Precedes(a.name, b.name))
BatchWritten ==
  << Item("text", "version"), Item("text", "originID"), Item("digest", "compilerContractDigest"),
     Item("digest", "policyDecisionDigest"), Item("text", "startedAt"), Item("text", "completedAt"),
     Item("optional digest", "previousBatchID"), Item("digest set", "observations"),
     DigestEntries("packets", 0), DigestEntries("deltas", 0),
     Item("digest", "rejectionReportDigest"), Item("digest", "metricsDigest"),
     Listed("artifacts", 3, <<Item("text", "name"), Item("digest", "digest"), Item("uint", "size")>>), Extensions >>
BatchRead ==
  << Text("version", MaxIdentifier), Text("originID", MaxIdentifier), Item("digest", "compilerContractDigest"),
     Item("digest", "policyDecisionDigest"), Text("startedAt", 20), Text("completedAt", 20),
     Item("optional digest", "previousBatchID"), SetOf("digest set", "observations", 1, 1024),
     DigestEntries("packets", 32768), DigestEntries("deltas", 32768),
     Item("digest", "rejectionReportDigest"), Item("digest", "metricsDigest"),
     Each("artifacts", 1, 64, 3, <<Text("name", MaxShortText), Item("digest", "digest"), Item("uint", "size")>>),
     Extensions >>
MarshalBatchManifest(m) == Encoded(14, BatchWritten, m)
UnmarshalBatchManifest(tokens) == Decoded(tokens, 14, BatchRead, BatchValid)

(***************************************************************************)
(* Deltas: the class and the kind fix which of the four digests there are. *)
(***************************************************************************)
DeltaKinds == [origin |-> {"added", "modified", "withdrawn", "restored", "source_retracted"},
               semantic |-> {"mapped", "remapped", "narrowed", "broadened", "disputed", "attested", "de_attested"},
               canon |-> {"module_added", "module_superseded", "mapping_superseded", "closure_changed"}]
DeltaTopology(d) ==
  LET before == d.beforePacketDigest
      after == d.afterPacketDigest
      beforeEvidence == d.beforeSourceEvidenceDigest
      afterEvidence == d.afterSourceEvidenceDigest
      all == before.present /\ after.present /\ beforeEvidence.present /\ afterEvidence.present
  IN CASE d.class # "origin" ->
            all /\ beforeEvidence.value = afterEvidence.value /\ before.value # after.value
       [] d.kind = "added" ->
            ~before.present /\ ~beforeEvidence.present /\ after.present /\ afterEvidence.present
       [] d.kind \in {"modified", "restored"} -> all /\ beforeEvidence.value # afterEvidence.value
       [] OTHER -> before.present /\ ~after.present /\ beforeEvidence.present
DeltaValid(d) ==
  /\ d.version = DeltaVersion
  /\ d.class \in DOMAIN DeltaKinds
  /\ ValidIdentifier(d.originID) /\ ValidUTCSecond(d.occurredAt)
  /\ ValidIdentifier(d.canonVersion) /\ ValidIdentifier(d.reasonCode)
  /\ ValidOptionalDigest(d.beforePacketDigest) /\ ValidOptionalDigest(d.afterPacketDigest)
  /\ ValidOptionalDigest(d.beforeSourceEvidenceDigest) /\ ValidOptionalDigest(d.afterSourceEvidenceDigest)
  /\ d.kind \in DeltaKinds[d.class]
  /\ DeltaTopology(d)
DeltaWritten ==
  << Item("text", "version"), Item("text", "class"), Item("text", "kind"), Item("digest", "semanticKeyDigest"),
     Item("optional digest", "beforePacketDigest"), Item("optional digest", "afterPacketDigest"),
     Item("optional digest", "beforeSourceEvidenceDigest"), Item("optional digest", "afterSourceEvidenceDigest"),
     Item("text", "originID"), Item("text", "occurredAt"), Item("digest", "batchID"),
     Item("text", "canonVersion"), Item("text", "reasonCode"), Extensions >>
DeltaRead ==
  << Text("version", MaxIdentifier), Text("class", MaxIdentifier), Text("kind", MaxIdentifier),
     Item("digest", "semanticKeyDigest"),
     Item("optional digest", "beforePacketDigest"), Item("optional digest", "afterPacketDigest"),
     Item("optional digest", "beforeSourceEvidenceDigest"), Item("optional digest", "afterSourceEvidenceDigest"),
     Text("originID", MaxIdentifier), Text("occurredAt", 20), Item("digest", "batchID"),
     Text("canonVersion", MaxIdentifier), Text("reasonCode", MaxIdentifier), Extensions >>
MarshalDelta(d) == Encoded(14, DeltaWritten, d)
UnmarshalDelta(tokens) == Decoded(tokens, 14, DeltaRead, DeltaValid)
==============================================================================
