-------------------------- MODULE SnapshotRuntime --------------------------
(***************************************************************************)
(* snapshotruntime: a process opens a snapshot directory, reconciles every  *)
(* index with the packets and every packet with its proof, and then answers *)
(* queries from memory and hands out artifacts from disk.  It runs beside   *)
(* the builds of SnapshotBuild.                                             *)
(***************************************************************************)
EXTENDS SnapshotBuild

CONSTANTS NoRuntime, NoAnswer,
          Queries,      \* queries the runtime may be asked
          MaxRuntimePackets,
          ManifestSize, \* its bytes, and those of a packet
          Size(_)

\* The bounds of a build are below the one of the runtime: a scale fixture of fewer
\* than 75000 fields fills its body, and the operations and eight acquisitions
\* have far fewer packets than remain to the 100000 a runtime opens.
ASSUME BoundsAssumption ==
    /\ MaxBody \in Nat
    /\ \A b \in Builders : \A options \in OptionSet[b] :
          options.scale <= MaxBody =>
              Cardinality(UNION {PacketsOf(source) : source \in Range(Sources(options))}) <= MaxRuntimePackets

VARIABLES runtime, answer

vars == <<selection, output, builders, edits, damage, runtime, answer>>

Init == BuildInit /\ runtime = NoRuntime /\ answer = NoAnswer

(***************************************************************************)
(* load: what the indexes say must be what the packets say.                 *)
(***************************************************************************)
Cores(role, files) == {e.core : e \in EntriesIn(role, files)}
ProofEntries(files) == EntriesIn("index", files)

\* Segments of entries numbered from 1 without a gap, none of them twice.
SequenceReconciles(role, files, count) ==
    /\ \A path \in Having(role, files) : SegmentValid(files[path])
    /\ Cardinality(Cores(role, files)) = Cardinality(EntriesIn(role, files))
    /\ Cardinality(EntriesIn(role, files)) = count
    /\ {e.sequence : e \in EntriesIn(role, files)} = 1..count

CatalogReconciles(m, files) ==
    /\ files[<<"catalog">>] = m.selection
    /\ Cardinality(files[<<"catalog">>]) = m.counts.origins
    /\ Cardinality(files[<<"concepts">>]) = m.counts.concepts
    /\ Cardinality(files[<<"mappings">>]) = m.counts.mappings

\* The packet is what its evidence, read again, gives.
DerivedFromBundle(entry, files) ==
    LET bundle == files[entry.packet.source] IN
    \E f \in bundle.fields : f.id = entry.field /\ entry.packet = E2Packet(bundle, f)

DerivedFromFixture(entry, files) ==
    LET profile == files[entry.packet.source] IN
    \E i \in 1..profile.fields : ScaleFields[i] = entry.field /\ entry.packet = ScalePacket(i, profile.at)

DerivedFromCapture(entry, files) ==
    LET i == entry.packet.source[3]
        acquisition == files[<<"acquisition", entry.packet.source[2]>>]
    IN  /\ i \in DOMAIN acquisition.captures
        /\ acquisition.captures[i] = files[entry.packet.source]
        /\ entry.packet = ArchivePacket(acquisition, i)

Derived(entry, files) ==
    CASE entry.packet.source[1] = "bundle"  -> DerivedFromBundle(entry, files)
      [] entry.packet.source[1] = "scale"   -> DerivedFromFixture(entry, files)
      [] entry.packet.source[1] = "capture" -> DerivedFromCapture(entry, files)

\* The index runs on in the order of the packets' digests, over all its segments
\* (previousProof is carried from one to the next).
InDigestOrder(files) ==
    \A p, q \in Having("index", files) : \A n \in DOMAIN files[p], k \in DOMAIN files[q] :
        p[2] < q[2] \/ (p = q /\ n < k) => Rank(files[p][n].packet) < Rank(files[q][k].packet)

\* The proofs, in the order of their packets, one for each; public packets
\* come from selected origins.
ProofsReconcile(m, files) ==
    /\ Having("index", files) # {}
    /\ {entry.packet : entry \in ProofEntries(files)} = Cores("packets", files)
    /\ Cardinality(ProofEntries(files)) = m.counts.packets
    /\ InDigestOrder(files)
    /\ \A entry \in ProofEntries(files) :
          /\ entry.artifacts \subseteq DOMAIN files
          /\ Derived(entry, files)
          /\ entry.class = entry.packet.class
          /\ entry.class # "test_fixture" => entry.packet.origin \in files[<<"catalog">>]
    /\ Cardinality(ProofArtifacts(files)) = m.counts.proofArtifacts

\* A semantic packet uses only the concepts and the mappings carried along.
SemanticsReconcile(files) ==
    \A p \in Cores("packets", files) :
        p.lane = "attested_semantic" =>
            /\ {p.concept, p.semantic} \subseteq files[<<"concepts">>]
            /\ <<p.field, p.semantic>> \in files[<<"mappings">>]

\* reconcileDelta.  Of the fields a delta copies from its packets, the semantic
\* key and the time of occurrence are compared too; Delta does not carry them.
DeltasReconcile(files) ==
    \A d \in Cores("deltas", files) :
        /\ {d.before, d.after} \subseteq Cores("packets", files)
        /\ d.before.class = "archive_observation" /\ d.after.class = "archive_observation"
        /\ d.before.origin = d.after.origin /\ d.before.subject = d.after.subject
        /\ d.before.field = d.after.field /\ d.before.lexical # d.after.lexical
        /\ <<"acquisition", d.batch>> \in DOMAIN files

ViewsReconcile(m, files) ==
    \A view \in m.views :
        LET rows == files[<<"view", view.id>>].rows IN
        /\ Cardinality(rows) = view.rows
        /\ rows \subseteq Public(Cores("packets", files))

\* The report and the manifest, counted once more from the packets.
ReportReconciles(m, files) ==
    LET packets  == Cores("packets", files)
        archived == {p \in packets : p.class = "archive_observation"}
        Counted  ==
            [mode            |-> ModeOf(archived # {}, \E p \in packets : p.source[1] = "scale"),
             identities      |-> m.counts.origins,
             archiveProfiles |-> Cardinality(Origins(archived)),
             publicOrigins   |-> Cardinality(Origins(Public(packets))),
             fixtureOrigins  |-> Cardinality(Origins(packets \ Public(packets))),
             operations      |-> Cardinality({entry.operation : entry \in ProofEntries(files)}),
             packets         |-> m.counts.packets,
             publicPackets   |-> Cardinality(Public(packets)),
             resolvedPackets |-> Cardinality(Resolved(packets)),
             deltas          |-> m.counts.deltas,
             views           |-> m.counts.views,
             proofArtifacts  |-> m.counts.proofArtifacts]
    IN  files[<<"report">>] = Counted /\ m.mode = (archived # {})

Loads(m, files) ==
    /\ CatalogReconciles(m, files)
    /\ SequenceReconciles("packets", files, m.counts.packets)
    /\ ProofsReconcile(m, files)
    /\ SemanticsReconcile(files)
    /\ SequenceReconciles("deltas", files, m.counts.deltas)
    /\ DeltasReconcile(files)
    /\ ViewsReconcile(m, files)
    /\ ReportReconciles(m, files)

\* Every artifact is read again, with its digest, when it is used.
Unchanged(m, files) == \A path \in DOMAIN m.artifacts : files[path] = m.artifacts[path]

Opens(directory) ==
    /\ Verifies(directory)
    /\ directory.manifest.counts.packets <= MaxRuntimePackets
    /\ Loads(directory.manifest, directory.files)

\* Open, in two steps: the directory is verified, and its artifacts are loaded.
\* The artifacts are hashed one after the other; what changes in between is seen
\* by Load, which hashes each of them again.  The limit on the size of an
\* artifact is left out: Marshal and readBoundedRegular hold a build to the same.
VerifyOpening ==
    /\ runtime = NoRuntime
    /\ output # NoDirectory
    /\ Verifies(output)
    /\ output.manifest.counts.packets <= MaxRuntimePackets
    /\ \E fixtures \in BOOLEAN :
          runtime' = [stage |-> "verified", fixtures |-> fixtures, manifest |-> output.manifest, packets |-> <<>>]
    /\ UNCHANGED <<buildVars, answer>>

Load ==
    /\ runtime # NoRuntime /\ runtime.stage = "verified"
    /\ runtime' = IF Unchanged(runtime.manifest, output.files) /\ Loads(runtime.manifest, output.files)
                  THEN [runtime EXCEPT !.stage = "open", !.packets = Sorted(Cores("packets", output.files))]
                  ELSE [runtime EXCEPT !.stage = "refused"]
    /\ UNCHANGED <<buildVars, answer>>

(***************************************************************************)
(* QueryContext.  An absent bound of a query is 0, an absent name is "",    *)
(* an absent list is {}.  Queries with an unsupported feature, and those    *)
(* whose deadline passes, are refused and change nothing.                   *)
(***************************************************************************)
Visible(p) == runtime.fixtures \/ p.class # "test_fixture"

\* The authority class and the mapping status of a packet follow from its class
\* and its lane, and a query's lists of them are left out.
Matches(q, p) ==
    /\ {p.field, p.semantic} \cap q.select # {}
    /\ q.concept # "" => p.concept = q.concept
    /\ q.subjects # {} => {p.subject, p.concept} \cap q.subjects # {}
    /\ q.origins # {} => p.origin \in q.origins
    /\ p.lane \in q.lanes
    /\ q.from # 0 => p.at >= q.from
    /\ q.until # 0 => p.at <= q.until
    /\ ~q.excludeStale  \* every packet of a snapshot is stale
    /\ q.age # 0 => runtime.manifest.createdAt - p.at <= q.age

\* Nothing is kept of an answer, so the runs look at one.
Answering == runtime # NoRuntime /\ runtime.stage = "open" /\ answer = NoAnswer

\* Mutant of Answer: reaching the limit of the proof bytes is not reported.
AnswerCutSilently(q) ==
    LET packets  == runtime.packets
        matched  == {n \in DOMAIN packets : Visible(packets[n]) /\ Matches(q, packets[n])}
        kept     == {n \in matched : Cardinality({m \in matched : m <= n}) <= q.results}
        Bytes(S) == Cardinality(UNION {{<<n, k>> : k \in 1..Size(packets[n])} : n \in S})
        returned == {n \in kept : ManifestSize + Bytes({m \in kept : m <= n}) <= q.proofBytes}
        rows     == {packets[n] : n \in returned}
        enough   == rows # {} /\ Cardinality(Origins(rows)) >= q.minimum
    IN  [kind |-> "rows", query |-> q, rows |-> IF enough THEN rows ELSE {},
         proofs |-> IF enough THEN rows ELSE {},
         status |-> IF ~enough THEN "unresolved" ELSE IF kept # matched THEN "partial" ELSE "resolved",
         truncated |-> returned # matched]

\* The packets are scanned in the order of their sequence; the first that match
\* are kept, as far as the proof bytes reach.
Answer(q) ==
    LET packets  == runtime.packets
        matched  == {n \in DOMAIN packets : Visible(packets[n]) /\ Matches(q, packets[n])}
        kept     == {n \in matched : Cardinality({m \in matched : m <= n}) <= q.results}
        Bytes(S) == Cardinality(UNION {{<<n, k>> : k \in 1..Size(packets[n])} : n \in S})
        returned == {n \in kept : ManifestSize + Bytes({m \in kept : m <= n}) <= q.proofBytes}
        rows     == {packets[n] : n \in returned}
        enough   == rows # {} /\ Cardinality(Origins(rows)) >= q.minimum
    IN  [kind |-> "rows", query |-> q, rows |-> IF enough THEN rows ELSE {},
         proofs |-> IF enough THEN rows ELSE {},
         status |-> IF ~enough THEN "unresolved" ELSE IF returned # matched THEN "partial" ELSE "resolved",
         truncated |-> returned # matched]

Ask ==
    /\ Answering
    /\ \E q \in Queries : answer' = Answer(q)
    /\ UNCHANGED <<buildVars, runtime>>

\* Mutant of Fetch: any packet's artifact is handed out.
FetchAny ==
    /\ Answering
    /\ \E p \in Range(runtime.packets) :
          \E path \in ProofOf(p, "").artifacts :
              /\ output.files[path] = runtime.manifest.artifacts[path]
              /\ answer' = [kind |-> "artifact", path |-> path, contents |-> output.files[path]]
    /\ UNCHANGED <<buildVars, runtime>>

\* ProofArtifact: one artifact a visible packet rests on, read again from disk;
\* nothing is handed out when the file is not the one that was admitted.
Fetch ==
    /\ Answering
    /\ \E p \in {p \in Range(runtime.packets) : Visible(p)} :
          \E path \in ProofOf(p, "").artifacts :
              /\ output.files[path] = runtime.manifest.artifacts[path]
              /\ answer' = [kind |-> "artifact", path |-> path, contents |-> output.files[path]]
    /\ UNCHANGED <<buildVars, runtime>>

RuntimeNext == VerifyOpening \/ Load \/ Ask \/ Fetch

Next ==
    \/ BuildNext /\ UNCHANGED <<runtime, answer>>
    \/ RuntimeNext

Spec == Init /\ [][Next]_vars

(***************************************************************************)
(* Properties.                                                              *)
(***************************************************************************)
\* A directory belongs to the build that created it for ever: a build that
\* fails, or a second one given the same directory, never writes into the
\* files of another, and no artifact is written twice (Build's Mkdir,
\* addArtifact's path check).  Only damage changes bytes.
NeverOverwritten ==
    [][damage' = damage =>
          /\ output.owner # Nobody => output'.owner = output.owner
          /\ \A path \in DOMAIN output.files :
                path \in DOMAIN output'.files /\ output'.files[path] = output.files[path]
          /\ output.manifest \notin {NoManifest, Damaged} => output'.manifest = output.manifest]_vars

\* A build that reports success has produced a snapshot the runtime opens,
\* counted by the one as by the other, except when two of its acquisitions are
\* of one origin or name one operation (the report counts acquisitions, the
\* runtime origins and operations), when a public origin is not in the
\* selection, or when the selection was edited between its two reads.
BuiltOpens ==
    \A b \in Builders :
        builders[b].pc = "built" /\ damage = 0 =>
            LET archived == {s.of : s \in {s \in Compiled(b) : s.kind = "archive"}}
                oneEach  == /\ Cardinality(Origins(archived)) = Cardinality(archived)
                            /\ Cardinality({s.of.operation : s \in Compiled(b)}) = Cardinality(Compiled(b))
                selected == Origins(Public(Packets(b))) \subseteq builders[b].loaded
                oneRead  == output.files[<<"catalog">>] = builders[b].loaded
            IN  Opens(output) <=> oneEach /\ selected /\ oneRead

\* What a process opened is what a build compiled in full, whatever stopped or
\* was damaged: the packets and nothing else, none later than the snapshot.
OpenedInFull ==
    runtime # NoRuntime /\ runtime.stage = "open" =>
        /\ output.owner \in Builders
        /\ builders[output.owner].done = Len(Sources(builders[output.owner].options))
        /\ Range(runtime.packets) = Packets(output.owner)
        /\ \A p \in Range(runtime.packets) : p.at <= runtime.manifest.createdAt

\* A delta joins two captures of one acquisition between which no third was
\* taken, and the later one comes after (the order compileArchiveAcquisition
\* sorts the captures into).
DeltasFollowCaptures ==
    \A b \in Builders : \A d \in Deltas(b) :
        /\ d.before.at <= d.after.at
        /\ \A i \in DOMAIN Acquisition[d.batch].captures :
              LET t == Acquisition[d.batch].captures[i].at IN
              ~(d.before.at < t /\ t < d.after.at)

\* "resolved" means every packet that matches, "partial" some of them, and
\* "unresolved" none, and then because there are too few or a limit was
\* reached; each row comes with its proof (QueryContext).
AnswerIsHonest ==
    answer # NoAnswer /\ answer.kind = "rows" =>
        LET asked == {p \in Range(runtime.packets) : Visible(p) /\ Matches(answer.query, p)}
            wide(S) == Cardinality(Origins(S)) >= answer.query.minimum
        IN  /\ answer.status = "resolved" => answer.rows = asked /\ asked # {} /\ wide(asked)
            /\ answer.status = "partial" =>
                  answer.rows # {} /\ answer.rows \subseteq asked /\ answer.rows # asked /\ wide(answer.rows)
            /\ answer.status = "unresolved" =>
                  answer.rows = {} /\ (asked = {} \/ ~wide(asked) \/ answer.truncated)
            /\ answer.proofs = answer.rows

\* An artifact handed out is the one the snapshot was opened with, even when
\* the file was damaged since, and a runtime without fixtures hands out no
\* evidence that only fixtures rest on (ProofArtifact, readArtifact).
FetchedAsAdmitted ==
    answer # NoAnswer /\ answer.kind = "artifact" =>
        /\ answer.contents = runtime.manifest.artifacts[answer.path]
        /\ runtime.fixtures \/ \E p \in Public(Range(runtime.packets)) : answer.path \in ProofOf(p, "").artifacts

\* "Two capture periods may produce an historical origin delta": a delta
\* compares one page at two times (deploy/snapshot/COMMON_CRAWL_IMPORT.md:66).
\* The code does not keep this for an acquisition of two routes, whose captures
\* are compared as neighbours in time (archive.go:133), so no run claims it;
\* README.md tells the counterexample.
DeltasCompareOnePage ==
    \A b \in Builders : \A d \in Deltas(b) :
        LET Page(p) == Acquisition[d.batch].captures[p.source[3]].route
        IN  Page(d.before) = Page(d.after)
=============================================================================
