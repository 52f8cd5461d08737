--------------------------- MODULE SnapshotBuild ---------------------------
(***************************************************************************)
(* snapshotbuild.Build: processes compile replayed operations, a controlled *)
(* scale fixture and archive acquisitions into one new directory, with its  *)
(* manifest last.  Two of them may be given the same directory; one may     *)
(* stop at any step, and leaves what it wrote; the Atlas selection may be   *)
(* edited while one runs; bytes on disk may be damaged at any time.         *)
(***************************************************************************)
EXTENDS SnapshotArtifacts

CONSTANTS Builders, Nobody,
          Replays,       \* the admitted operations, in the order of their IDs
          Acquisition,   \* acquisitions by ID
          OptionSet,     \* the options a build may be given, by build
          Selections,    \* contents the selection file may have
          MaxFields, MaxBody,  \* bounds of the scale fixture: its fields, its body
          MaxEdits, MaxDamage  \* bounds of the runs, not of the program

\* Operations have IDs of their own and fields (Contracts.Validate, Result), an
\* acquisition is found by its ID (LoadWorkOrder) and has captures
\* (compileArchiveAcquisition), and times are comparable.
ASSUME SourcesAssumption ==
    /\ Nobody \notin Builders
    /\ Replays \in Seq(Range(Replays))
    /\ \A m, n \in DOMAIN Replays : Replays[m].id = Replays[n].id => m = n
    /\ \A n \in DOMAIN Replays : IsFiniteSet(Replays[n].fields) /\ Replays[n].fields # {}
    /\ DOMAIN Acquisition \subseteq Nat
    /\ \A a \in DOMAIN Acquisition :
          LET captures == Acquisition[a].captures IN
          /\ Acquisition[a].id = a
          /\ captures \in Seq(Range(captures)) /\ captures # <<>>
          /\ \A i \in DOMAIN captures : captures[i].at \in Nat
    /\ \A b \in Builders :
          OptionSet[b] \subseteq [scale : Nat, acquisitions : Seq(DOMAIN Acquisition), createdAt : Nat]

VARIABLES selection,  \* origins of the Atlas selection file
          output,     \* the directory every build is given
          builders,
          edits, damage

buildVars == <<selection, output, builders, edits, damage>>

NoDirectory == [owner |-> Nobody, files |-> <<>>, manifest |-> NoManifest]

NoOptions == [scale |-> 0, acquisitions |-> <<>>, createdAt |-> 0]
Fresh(pc) == [pc |-> pc, options |-> NoOptions, loaded |-> {}, done |-> 0, artifacts |-> <<>>]

BuildInit ==
    /\ selection \in Selections
    /\ output = NoDirectory
    /\ builders = [b \in Builders |-> Fresh("idle")]
    /\ edits = 0
    /\ damage = 0

(***************************************************************************)
(* What a build compiles, in order: operations, scale fixture, acquisitions.*)
(***************************************************************************)
Sources(options) ==
    [n \in DOMAIN Replays |-> [kind |-> "replay", of |-> Replays[n]]]
    \o (IF options.scale = 0 THEN <<>>
        ELSE <<[kind |-> "scale", of |-> [fields |-> options.scale, at |-> options.createdAt,
                                     operation |-> "fixture.scaleCorpus"]]>>)
    \o [n \in DOMAIN options.acquisitions |->
            [kind |-> "archive", of |-> Acquisition[options.acquisitions[n]]]]

PacketsOf(source) ==
    CASE source.kind = "replay"  -> {E2Packet(source.of, f) : f \in source.of.fields}
      [] source.kind = "scale"   -> {ScalePacket(i, source.of.at) : i \in 1..source.of.fields}
      [] source.kind = "archive" -> {ArchivePacket(source.of, i) : i \in DOMAIN source.of.captures}

\* Digests tell the packets of one build apart, and its deltas.
ASSUME DigestAssumption ==
    \A b \in Builders : \A options \in OptionSet[b] :
        LET sources  == Range(Sources(options))
            packets  == UNION {PacketsOf(source) : source \in sources}
            deltas   == UNION {DeltasOf(source.of) : source \in {s \in sources : s.kind = "archive"}}
            Apart(S) == \A p, q \in S : Rank(p) \in Nat /\ (Rank(p) = Rank(q) => p = q)
        IN  Apart(packets) /\ Apart(deltas)

\* The artifacts the proofs of a source rest on.
EvidenceOf(source) ==
    CASE source.kind = "replay"  -> At(<<"bundle", source.of.id>>, source.of)
      [] source.kind = "scale"   -> At(<<"scale">>, source.of)
      [] source.kind = "archive" ->
            With(At(<<"acquisition", source.of.id>>, source.of),
                 [path \in {<<"capture", source.of.id, i>> : i \in DOMAIN source.of.captures} |->
                     source.of.captures[path[3]]])

\* Mutant of InTime: archived captures are not compared with the creation time.
InTimeReplaysOnly(source, createdAt) ==
    source.kind = "replay" => \A p \in PacketsOf(source) : p.at <= createdAt

\* No observation of the source is later than the snapshot.
InTime(source, createdAt) == \A p \in PacketsOf(source) : p.at <= createdAt

Compiled(b) == {Sources(builders[b].options)[n] : n \in 1..builders[b].done}
Packets(b)  == UNION {PacketsOf(source) : source \in Compiled(b)}
Deltas(b)   == UNION {DeltasOf(source.of) : source \in {s \in Compiled(b) : s.kind = "archive"}}
Proofs(b)   == UNION {{ProofOf(p, source.of.operation) : p \in PacketsOf(source)} : source \in Compiled(b)}
Replayed(b) == {source.of : source \in {s \in Compiled(b) : s.kind = "replay"}}

Concepts(b) == UNION {{op.resource} \cup {f.semantic : f \in op.fields} : op \in Replayed(b)}
Mappings(b) == UNION {{<<f.id, f.semantic>> : f \in op.fields} : op \in Replayed(b)}

Public(S) == {p \in S : p.class # "test_fixture"}
Origins(S) == {p.origin : p \in S}
Resolved(S) == {p \in S : p.resolved}

\* The mode of the report and the evidence classes of the manifest.
ModeOf(hasArchive, hasScale) == [archive |-> hasArchive, scale |-> hasScale]

Views(b) ==
    {[id |-> "public-source-statements", rows |-> Public(Packets(b))],
     [id |-> "public-measurements", rows |-> {p \in Resolved(Public(Packets(b))) : p.measured}]}

ProofArtifacts(artifacts) == UNION {Having(role, artifacts) : role \in {"bundle", "scale", "acquisition", "capture"}}

Report(b) ==
    LET options  == builders[b].options
        packets  == Packets(b)
        archives == {s \in Compiled(b) : s.kind = "archive"}
    IN  [mode              |-> ModeOf(options.acquisitions # <<>>, options.scale > 0),
         identities        |-> Cardinality(builders[b].loaded),
         archiveProfiles   |-> Cardinality(archives),
         publicOrigins     |-> Cardinality(Origins(Public(packets))),
         fixtureOrigins    |-> Cardinality(Origins(packets \ Public(packets))),
         operations        |-> Len(Replays) + Cardinality(archives) + (IF options.scale > 0 THEN 1 ELSE 0),
         packets           |-> Cardinality(packets),
         publicPackets     |-> Cardinality(Public(packets)),
         resolvedPackets   |-> Cardinality(Resolved(packets)),
         deltas            |-> Cardinality(Deltas(b)),
         views             |-> Cardinality(Views(b)),
         proofArtifacts    |-> Cardinality(ProofArtifacts(builders[b].artifacts))]

ManifestOf(b) ==
    LET report == builders[b].artifacts[<<"report">>] IN
    [selection |-> builders[b].loaded, createdAt |-> builders[b].options.createdAt,
     mode |-> report.mode.archive, artifacts |-> builders[b].artifacts,
     views |-> {[id |-> view.id, artifact |-> view, rows |-> Cardinality(view.rows)] : view \in Views(b)},
     counts |-> [origins |-> Cardinality(builders[b].loaded), concepts |-> Cardinality(Concepts(b)),
                 mappings |-> Cardinality(Mappings(b)), packets |-> report.packets,
                 deltas |-> report.deltas, views |-> report.views,
                 proofArtifacts |-> report.proofArtifacts]]

(***************************************************************************)
(* The steps of a build.                                                    *)
(***************************************************************************)
OptionsValid(options) ==
    /\ options.scale <= MaxFields
    /\ \A m, n \in DOMAIN options.acquisitions :
          m < n => options.acquisitions[m] < options.acquisitions[n]

\* addArtifact: the artifacts are written and remembered with their digests.
Write(b, artifacts, next) ==
    /\ DOMAIN artifacts \cap DOMAIN builders[b].artifacts = {}
    /\ builders' = [builders EXCEPT ![b].artifacts = With(artifacts, @), ![b].pc = next]
    /\ output' = [output EXCEPT !.files = With(artifacts, @)]
    /\ UNCHANGED <<selection, edits, damage>>

\* The options are checked and the directory must not be there yet.
Begin(b) ==
    /\ builders[b].pc = "idle"
    /\ \E options \in OptionSet[b] :
          builders' = [builders EXCEPT ![b] =
                         IF OptionsValid(options) /\ output = NoDirectory
                         THEN [@ EXCEPT !.options = options, !.pc = "reserve"] ELSE Fresh("failed")]
    /\ UNCHANGED <<selection, output, edits, damage>>

\* Mutant of Reserve: a directory that has appeared meanwhile is used.
ReserveAny(b) ==
    /\ builders[b].pc = "reserve"
    /\ output' = [output EXCEPT !.owner = b]
    /\ builders' = [builders EXCEPT ![b].pc = "load"]
    /\ UNCHANGED <<selection, edits, damage>>

\* The directory is created, which fails if it has appeared meanwhile.
Reserve(b) ==
    /\ builders[b].pc = "reserve"
    /\ IF output = NoDirectory
       THEN /\ output' = [output EXCEPT !.owner = b]
            /\ builders' = [builders EXCEPT ![b].pc = "load"]
       ELSE /\ builders' = [builders EXCEPT ![b] = Fresh("failed")]
            /\ UNCHANGED output
    /\ UNCHANGED <<selection, edits, damage>>

\* The selection is loaded, and its file read once more to be carried along.
LoadSelection(b) ==
    /\ builders[b].pc = "load"
    /\ builders' = [builders EXCEPT ![b].loaded = selection, ![b].pc = "catalog"]
    /\ UNCHANGED <<selection, output, edits, damage>>

AddCatalog(b) ==
    /\ builders[b].pc = "catalog"
    /\ Write(b, At(<<"catalog">>, selection), "compile")

\* compileInvocation, compileScaleFixture or compileArchiveAcquisition for the
\* next source; one that cannot be compiled ends the build.  (Files it has
\* written by then are left out: without a manifest nothing reads them.)
Compile(b) ==
    LET sources == Sources(builders[b].options)
        source  == sources[builders[b].done + 1]
    IN  /\ builders[b].pc = "compile"
        /\ builders[b].done < Len(sources)
        /\ IF /\ InTime(source, builders[b].options.createdAt)
              /\ source.kind = "scale" => source.of.fields <= MaxBody
              /\ PacketsOf(source) \cap Packets(b) = {}
           THEN /\ builders' = [builders EXCEPT ![b].done = @ + 1, ![b].artifacts = With(EvidenceOf(source), @)]
                /\ output' = [output EXCEPT !.files = With(EvidenceOf(source), @)]
           ELSE /\ builders' = [builders EXCEPT ![b].pc = "failed"]
                /\ UNCHANGED output
        /\ UNCHANGED <<selection, edits, damage>>

\* The indexes over what was compiled, one method of the builder after another.
AddSegments(b) ==
    /\ builders[b].pc = "compile"
    /\ builders[b].done = Len(Sources(builders[b].options))
    /\ Write(b, With(Cut("packets", Entries(Packets(b))), Cut("deltas", Entries(Deltas(b)))), "canon")

AddCanon(b) ==
    /\ builders[b].pc = "canon"
    /\ Write(b, With(At(<<"concepts">>, Concepts(b)), At(<<"mappings">>, Mappings(b))), "proofs")

AddProofIndexes(b) ==
    LET order == Sorted(Packets(b))
        ProofAt(n) == CHOOSE proof \in Proofs(b) : proof.packet = order[n]
    IN  /\ builders[b].pc = "proofs"
        /\ Write(b, Cut("index", [n \in DOMAIN order |-> ProofAt(n)]), "views")

AddViews(b) ==
    /\ builders[b].pc = "views"
    /\ Write(b, [path \in {<<"view", view.id>> : view \in Views(b)} |->
                    CHOOSE view \in Views(b) : view.id = path[2]], "report")

AddReport(b) ==
    /\ builders[b].pc = "report"
    /\ Write(b, At(<<"report">>, Report(b)), "manifest")

\* The manifest is the last file; another process may find a part of it.
StartManifest(b) ==
    /\ builders[b].pc = "manifest"
    /\ output' = [output EXCEPT !.manifest = Damaged]
    /\ builders' = [builders EXCEPT ![b].pc = "writing"]
    /\ UNCHANGED <<selection, edits, damage>>

WriteManifest(b) ==
    /\ builders[b].pc = "writing"
    /\ output' = [output EXCEPT !.manifest = ManifestOf(b)]
    /\ builders' = [builders EXCEPT ![b].pc = "verify"]
    /\ UNCHANGED <<selection, edits, damage>>

\* The build verifies the directory before it reports success.
VerifyBuilt(b) ==
    /\ builders[b].pc = "verify"
    /\ builders' = [builders EXCEPT ![b].pc =
                       IF Verifies(output) /\ output.manifest = ManifestOf(b) THEN "built" ELSE "failed"]
    /\ UNCHANGED <<selection, output, edits, damage>>

\* A step fails or the process dies: the directory stays as it is.
Stop(b) ==
    /\ builders[b].pc \notin {"idle", "built", "failed"}
    /\ builders' = [builders EXCEPT ![b].pc = "failed"]
    /\ UNCHANGED <<selection, output, edits, damage>>

BuildStep(b) ==
    \/ Begin(b) \/ Reserve(b) \/ LoadSelection(b) \/ AddCatalog(b) \/ Compile(b)
    \/ AddSegments(b) \/ AddCanon(b) \/ AddProofIndexes(b) \/ AddViews(b) \/ AddReport(b)
    \/ StartManifest(b) \/ WriteManifest(b) \/ VerifyBuilt(b) \/ Stop(b)

(***************************************************************************)
(* What happens around it.                                                  *)
(***************************************************************************)
EditSelection ==
    /\ edits < MaxEdits
    /\ \E new \in Selections \ {selection} : selection' = new
    /\ edits' = edits + 1
    /\ UNCHANGED <<output, builders, damage>>

\* The bytes of one file are no longer those that were written: lost with the
\* power, as nothing is synced, or changed by another program.
Damage ==
    /\ damage < MaxDamage
    /\ \/ \E path \in DOMAIN output.files : output' = [output EXCEPT !.files[path] = Damaged]
       \/ output.manifest # NoManifest /\ output' = [output EXCEPT !.manifest = Damaged]
    /\ damage' = damage + 1
    /\ UNCHANGED <<selection, builders, edits>>

BuildNext == (\E b \in Builders : BuildStep(b)) \/ EditSelection \/ Damage
=============================================================================
