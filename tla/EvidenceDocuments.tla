-------------------------- MODULE EvidenceDocuments --------------------------
(***************************************************************************)
(* The documents that bind an answer to its evidence: the snapshot         *)
(* manifest (src/internal/dataplane/snapshot.go), the observation envelope *)
(* (src/internal/observation), the transport evidence                      *)
(* (src/internal/transportevidence), the typed result                      *)
(* (src/internal/e2format) and the manifest of a proof bundle              *)
(* (src/internal/proofbundle).                                             *)
(***************************************************************************)
EXTENDS OntologyDocuments

SnapshotVersion == "tw.semantic-snapshot-manifest/0.1"
TransportVersion == "tw.transport/0.2"
TypedResultVersion == "tw.result/0.2"
ManifestVersion == "tw.bundle-manifest/0.1"

(***************************************************************************)
(* Snapshot manifests: sizes, roles, views and counts are reconciled.      *)
(***************************************************************************)
RequiredRoles == {"origin_catalog", "concepts", "mappings", "packet_batch", "proof_index", "build_report"}
SnapshotRoles == RequiredRoles \cup {"delta_batch", "materialized_view", "search_index", "economic_summary"}
WithRole(m, role) == {i \in DOMAIN m.artifacts : m.artifacts[i].role = role}
RECURSIVE TotalSize(_)
TotalSize(artifacts) == IF artifacts = <<>> THEN 0 ELSE Head(artifacts).size + TotalSize(Tail(artifacts))
SafePath(w) == ValidText(w, MaxShortText, FALSE) /\ "unsafe path" \notin Form(w)
ArtifactsValid(m) ==
  /\ Len(m.artifacts) \in 1..16384
  /\ \A i \in DOMAIN m.artifacts :
       /\ SafePath(m.artifacts[i].path)
       /\ m.artifacts[i].size \in 1..LargeBound
       /\ ValidText(m.artifacts[i].mediaType, MaxShortText, FALSE)
       /\ m.artifacts[i].role \in SnapshotRoles
  /\ StrictlySorted(m.artifacts, LAMBDA a, b : Precedes(a.path, b.path))
  /\ TotalSize(m.artifacts) = m.totalArtifactBytes /\ m.totalArtifactBytes <= LargeBound
  /\ \A role \in RequiredRoles : WithRole(m, role) # {}
  /\ Cardinality(WithRole(m, "build_report")) = 1
  /\ Cardinality(WithRole(m, "materialized_view")) <= 32
  /\ m.buildReportDigest \in {m.artifacts[i].digest : i \in WithRole(m, "build_report")}
ViewsValid(m) ==
  /\ Len(m.views) <= 32 /\ m.counts.views = Len(m.views)
  /\ \A i \in DOMAIN m.views :
       /\ ValidIdentifier(m.views[i].id) /\ m.views[i].rowCount <= 10000000
       /\ m.views[i].artifactDigest \in {m.artifacts[j].digest : j \in WithRole(m, "materialized_view")}
       /\ m.views[i].throughSequence <= m.highestPacketSequence
  /\ StrictlySorted(m.views, LAMBDA a, b : Precedes(a.id, b.id))
SnapshotValid(m) ==
  /\ m.version = SnapshotVersion
  /\ ValidIdentifier(m.channel) /\ ValidIdentifier(m.sourceRevision) /\ ValidIdentifier(m.compilerVersion)
  /\ ValidUTCSecond(m.createdAt) /\ ValidOptionalDigest(m.previousSnapshotID)
  /\ m.evidenceClasses # <<>> /\ SortedUniqueText(m.evidenceClasses, 16)
  /\ ArtifactsValid(m) /\ ViewsValid(m)
  /\ m.counts.origins <= 1000000 /\ m.counts.concepts <= 10000000 /\ m.counts.mappings <= 10000000
  /\ \A n \in {m.counts.packets, m.counts.deltas, m.counts.proofArtifacts, m.counts.economicEvents} : n <= 1000000000

SnapshotCounts == <<Uint("origins"), Uint("concepts"), Uint("mappings"), Uint("packets"), Uint("deltas"),
                    Uint("views"), Uint("proofArtifacts"), Uint("economicEvents")>>
SnapshotWritten ==
  << Item("text", "version"), Item("text", "channel"), Item("text", "createdAt"), Item("text", "sourceRevision"),
     Item("digest", "compilerContractDigest"), Item("text", "compilerVersion"), Item("digest", "atlasSelectionDigest"),
     Item("digest", "canonModuleSetDigest"), Item("optional digest", "previousSnapshotID"),
     Item("text set", "evidenceClasses"),
     Listed("artifacts", 5, <<Item("text", "path"), Item("digest", "digest"), Uint("size"), Item("text", "mediaType"),
       Item("text", "role")>>),
     Listed("views", 5, <<Item("text", "id"), Item("digest", "definitionDigest"), Item("digest", "artifactDigest"),
       Uint("rowCount"), Uint("throughSequence")>>),
     Group("counts", 8, SnapshotCounts), Uint("highestPacketSequence"), Uint("highestDeltaSequence"),
     Uint("totalArtifactBytes"), Item("digest", "buildReportDigest"), Extensions >>
SnapshotRead ==
  << Identifier("version"), Identifier("channel"), Text("createdAt", 20), Identifier("sourceRevision"),
     Item("digest", "compilerContractDigest"), Identifier("compilerVersion"), Item("digest", "atlasSelectionDigest"),
     Item("digest", "canonModuleSetDigest"), Item("optional digest", "previousSnapshotID"),
     SetOf("text set", "evidenceClasses", 1, 16),
     Each("artifacts", 1, 16384, 5, <<Text("path", MaxShortText), Item("digest", "digest"), Uint("size"),
       Text("mediaType", MaxShortText), Identifier("role")>>),
     Each("views", 0, 32, 5, <<Identifier("id"), Item("digest", "definitionDigest"), Item("digest", "artifactDigest"),
       Uint("rowCount"), Uint("throughSequence")>>),
     Group("counts", 8, SnapshotCounts), Uint("highestPacketSequence"), Uint("highestDeltaSequence"),
     Uint("totalArtifactBytes"), Item("digest", "buildReportDigest"), Extensions >>
MarshalSnapshotManifest(m) == Encoded(18, SnapshotWritten, m)
UnmarshalSnapshotManifest(tokens) == Decoded(tokens, 18, SnapshotRead, SnapshotValid)

(***************************************************************************)
(* Observation envelopes.                                                  *)
(***************************************************************************)
EnvelopeValid(e) ==
  /\ e.version = 1 /\ e.method = "GET" /\ e.status \in 100..599
  /\ ValidText(e.requestURL, 8192, FALSE) /\ ValidText(e.finalURL, 8192, FALSE)
  /\ ValidText(e.mediaType, 256, FALSE) /\ ValidText(e.retrievedAt, 30, FALSE)
  /\ ValidText(e.policyID, 256, FALSE) /\ ValidText(e.observerID, 256, FALSE)
  /\ "second" \in Form(e.retrievedAt)        \* canonical RFC 3339 in UTC
  /\ e.bodySize <= 2 * 1024 * 1024
EnvelopeWritten ==
  << Uint("version"), Item("text", "requestURL"), Item("text", "finalURL"), Item("text", "method"), Uint("status"),
     Item("text", "mediaType"), Item("text", "retrievedAt"), Item("digest", "bodySHA256"), Uint("bodySize"),
     Item("text", "policyID"), Item("text", "observerID") >>
EnvelopeRead ==
  << Uint("version"), Text("requestURL", 8192), Text("finalURL", 8192), Text("method", 3), Uint("status"),
     Text("mediaType", 256), Text("retrievedAt", 30), Item("digest", "bodySHA256"), Uint("bodySize"),
     Text("policyID", 256), Text("observerID", 256) >>
MarshalEnvelope(e) == Encoded(11, EnvelopeWritten, e)
UnmarshalEnvelope(tokens) == Decoded(tokens, 11, EnvelopeRead, EnvelopeValid)

(***************************************************************************)
(* Transport evidence: the redirects lead from the request to the final    *)
(* URL, and the headers are the allowed ones, in order.                    *)
(***************************************************************************)
MaxURLBytes == 8192
AllowedHeaders == {"content-encoding", "content-language", "content-location", "content-type"}
Chained(e) ==
  IF e.redirects = <<>> THEN e.requestURL = e.finalURL
  ELSE /\ e.redirects[1].fromURL = e.requestURL
       /\ e.redirects[Len(e.redirects)].toURL = e.finalURL
       /\ \A i \in 2..Len(e.redirects) : e.redirects[i].fromURL = e.redirects[i - 1].toURL
HeaderAfter(a, b) ==      \* strictly: b is refused after a
  IF a.name # b.name THEN Precedes(b.name, a.name) ELSE a.value # b.value /\ Precedes(b.value, a.value)
TransportValid(e) ==
  /\ e.version = TransportVersion
  /\ \A w \in {e.requestURL, e.finalURL, e.policyID} : ValidText(w, MaxURLBytes, FALSE)
  /\ Len(e.redirects) <= 20
  /\ \A i \in DOMAIN e.redirects :
       /\ ValidText(e.redirects[i].fromURL, MaxURLBytes, FALSE) /\ ValidText(e.redirects[i].toURL, MaxURLBytes, FALSE)
       /\ e.redirects[i].status \in 300..399
  /\ Chained(e)
  /\ Len(e.headers) <= 32
  /\ \A i \in DOMAIN e.headers : e.headers[i].name \in AllowedHeaders /\ ValidText(e.headers[i].value, MaxURLBytes, FALSE)
  /\ \A i \in 1..(Len(e.headers) - 1) : ~HeaderAfter(e.headers[i], e.headers[i + 1])
TransportWritten ==
  << Item("text", "version"), Item("text", "requestURL"), Item("text", "finalURL"), Item("text", "policyID"),
     Listed("redirects", 3, <<Item("text", "fromURL"), Uint("status"), Item("text", "toURL")>>),
     Listed("headers", 2, <<Item("text", "name"), Item("text", "value")>>), Extensions >>
TransportRead ==
  << Text("version", 128), Text("requestURL", MaxURLBytes), Text("finalURL", MaxURLBytes), Text("policyID", 256),
     Each("redirects", 0, 20, 3, <<Text("fromURL", MaxURLBytes), Uint("status"), Text("toURL", MaxURLBytes)>>),
     Each("headers", 0, 32, 2, <<Text("name", 64), Text("value", MaxURLBytes)>>), Extensions >>
MarshalTransport(e) == Encoded(7, TransportWritten, e)
UnmarshalTransport(tokens) == Decoded(tokens, 7, TransportRead, TransportValid)

(***************************************************************************)
(* Typed results.                                                          *)
(***************************************************************************)
MaxTextBytes == 16 * 1024
FieldValid(f) ==
  /\ \A w \in {f.id, f.nativeTerm, f.nativeLocator, f.semanticTerm, f.semanticType, f.mapping} :
       ValidText(w, MaxTextBytes, FALSE)
  /\ f.status \in {"resolved", "unresolved"}
  /\ IF f.status = "resolved"
     THEN /\ f.nativePresent /\ f.semanticPresent
          /\ ValidText(f.nativeLexical, MaxLexical, TRUE) /\ ValidText(f.semanticLexical, MaxLexical, TRUE)
     ELSE ~f.nativePresent /\ ~f.semanticPresent /\ f.nativeLexical = "" /\ f.semanticLexical = ""
  /\ Len(f.transforms) <= 16 /\ \A i \in DOMAIN f.transforms : ValidText(f.transforms[i], MaxTextBytes, FALSE)
TypedResultValid(r) ==
  /\ r.version = TypedResultVersion
  /\ \A w \in {r.invocationID, r.originID, r.originVersion, r.operationID, r.operationVersion, r.observedAt} :
       ValidText(w, MaxTextBytes, FALSE)
  /\ r.effect = "read" /\ r.status \in {"resolved", "partial"}
  /\ Len(r.fields) \in 1..128
  /\ \A i \in DOMAIN r.fields : FieldValid(r.fields[i])
  /\ \A i, j \in DOMAIN r.fields : r.fields[i].id = r.fields[j].id => i = j
  /\ (\E i \in DOMAIN r.fields : r.fields[i].status = "unresolved") = (r.status = "partial")
ResultDigests == [i \in 1..6 |-> Item("digest", <<"inputDigest", "observationDigest", "transportDigest",
                                                  "adapterDigest", "contractDigest", "semanticClosureDigest">>[i])]
TypedResultWritten ==
  << Item("text", "version"), Item("text", "invocationID"), Item("text", "originID"), Item("text", "originVersion"),
     Item("text", "operationID"), Item("text", "operationVersion"), Item("text", "effect"), Item("text", "status"),
     Item("text", "observedAt") >> \o ResultDigests \o
  << Listed("fields", 12, <<Item("text", "id"), Item("text", "status"), Item("text", "nativeTerm"),
       Item("text", "nativeLocator"), Item("bool", "nativePresent"), Item("text", "nativeLexical"),
       Item("text", "semanticTerm"), Item("text", "semanticType"), Item("bool", "semanticPresent"),
       Item("text", "semanticLexical"), Item("text list", "transforms"), Item("text", "mapping")>>), Extensions >>
FieldRead ==
  << Text("id", MaxTextBytes), Text("status", MaxTextBytes), Text("nativeTerm", MaxTextBytes),
     Text("nativeLocator", MaxTextBytes), Item("bool", "nativePresent"), Text("nativeLexical", MaxLexical),
     Text("semanticTerm", MaxTextBytes), Text("semanticType", MaxTextBytes), Item("bool", "semanticPresent"),
     Text("semanticLexical", MaxLexical), TextList("transforms", 16, MaxTextBytes), Text("mapping", MaxTextBytes) >>
TypedResultRead ==
  << Text("version", MaxTextBytes), Text("invocationID", MaxTextBytes), Text("originID", MaxTextBytes),
     Text("originVersion", MaxTextBytes), Text("operationID", MaxTextBytes), Text("operationVersion", MaxTextBytes),
     Text("effect", MaxTextBytes), Text("status", MaxTextBytes), Text("observedAt", MaxTextBytes) >> \o ResultDigests \o
  << Each("fields", 1, 128, 12, FieldRead), Extensions >>
MarshalResult(r) == Encoded(17, TypedResultWritten, r)
UnmarshalResult(tokens) == Decoded(tokens, 17, TypedResultRead, TypedResultValid)

(***************************************************************************)
(* Manifests of proof bundles.  A digest reference is hexadecimal in       *)
(* either case.                                                            *)
(***************************************************************************)
RequiredArtifacts == {"adapter.cbor", "contract.cbor", "input.cbor", "observation.cbor", "representation.body",
                      "result.cbor", "semantic-closure.cbor", "transcript.json", "transport.cbor"}
DigestReferences(d) == {"sha256:lower:" \o ToString(d), "sha256:upper:" \o ToString(d)}
ManifestValid(m) ==
  /\ m.version = ManifestVersion
  /\ Len(m.entries) \in 1..32
  /\ \A i \in DOMAIN m.entries :
       /\ m.entries[i].name # "" /\ "unsafe path" \notin Form(m.entries[i].name) /\ m.entries[i].name # "manifest.cbor"
       /\ m.entries[i].size \in 1..(4 * 1024 * 1024)
       /\ m.entries[i].name = "result.cbor" => m.resultID \in DigestReferences(m.entries[i].digest)
  /\ StrictlySorted(m.entries, LAMBDA a, b : Precedes(a.name, b.name))
  /\ RequiredArtifacts \subseteq {m.entries[i].name : i \in DOMAIN m.entries}
ManifestWritten == <<Item("text", "version"), Item("text", "resultID"),
  Listed("entries", 3, <<Item("text", "name"), Item("digest", "digest"), Uint("size")>>)>>
ManifestRead == <<Text("version", 128), Text("resultID", 128),
  Each("entries", 1, 32, 3, <<Text("name", 255), Item("digest", "digest"), Uint("size")>>)>>
MarshalManifest(m) == Encoded(3, ManifestWritten, m)
UnmarshalManifest(tokens) == Decoded(tokens, 3, ManifestRead, ManifestValid)
==============================================================================
