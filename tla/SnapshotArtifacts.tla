------------------------- MODULE SnapshotArtifacts -------------------------
(***************************************************************************)
(* What a Semantic Snapshot is made of: packets, the proofs they are        *)
(* derived from, deltas, the artifacts that carry them, and the check of a  *)
(* directory against its manifest (internal/snapshotartifact,               *)
(* internal/snapshotbuild, internal/dataplane).                             *)
(*                                                                         *)
(* Abstractions.  Bytes and digests are the contents they stand for: a      *)
(* packet's digest is the packet, and Rank gives the order of the digests.  *)
(* A proof bundle of several files is one artifact whose contents is the    *)
(* evidence it was made from.  A path is a tuple that begins with the role  *)
(* of its artifact.                                                         *)
(***************************************************************************)
EXTENDS Naturals, Sequences, FiniteSets, Functions

CONSTANTS SegmentSize,  \* entries of a segment
          Rank(_),      \* order of the digests of packets and of deltas
          ScaleFields,  \* names of the fields the scale fixture generates
          NoManifest,   \* the directory holds no manifest
          Damaged       \* bytes that are not those that were written

ASSUME SegmentAssumption == SegmentSize \in Nat \ {0}

(***************************************************************************)
(* Packets.  "source" stands for the digest of the observation.             *)
(***************************************************************************)
\* A field of a replayed operation.
E2Packet(op, f) ==
    [source |-> <<"bundle", op.id>>, origin |-> op.origin, subject |-> op.id,
     concept |-> op.resource, field |-> f.id, semantic |-> f.semantic,
     resolved |-> f.resolved, lexical |-> f.lexical, measured |-> f.measured,
     at |-> op.at, lane |-> "attested_semantic",
     class |-> IF op.fixture THEN "test_fixture" ELSE "recorded_offline_replay"]

\* The title of an archived page.
ArchivePacket(acquisition, i) ==
    [source |-> <<"capture", acquisition.id, i>>, origin |-> acquisition.origin,
     subject |-> acquisition.subject, concept |-> "", field |-> "title", semantic |-> "",
     resolved |-> TRUE, lexical |-> acquisition.captures[i].title, measured |-> FALSE,
     at |-> acquisition.captures[i].at, lane |-> "observed_native",
     class |-> "archive_observation"]

\* A field of the controlled scale fixture.
ScalePacket(i, at) ==
    [source |-> <<"scale">>, origin |-> "controlled-scale-corpus-fixture",
     subject |-> "fixture", concept |-> "", field |-> ScaleFields[i], semantic |-> "",
     resolved |-> TRUE, lexical |-> ScaleFields[i], measured |-> FALSE, at |-> at,
     lane |-> "observed_native", class |-> "test_fixture"]

\* The proof of a packet: what produced it, and the artifacts it rests on.
ProofOf(p, operation) ==
    [packet |-> p, class |-> p.class, operation |-> operation, field |-> p.field,
     artifacts |-> IF p.class = "archive_observation"
                   THEN {p.source, <<"acquisition", p.source[2]>>} ELSE {p.source}]

(***************************************************************************)
(* Deltas: the titles that changed from one capture to the next.            *)
(***************************************************************************)
\* Position n holds the index of the n-th capture by time.
ByTime(captures) ==
    LET NoLater(i, j) == \/ captures[i].at < captures[j].at
                         \/ captures[i].at = captures[j].at /\ i <= j
    IN  [n \in DOMAIN captures |->
            CHOOSE j \in DOMAIN captures :
                Cardinality({i \in DOMAIN captures : NoLater(i, j)}) = n]

\* Mutant of DeltasOf: the captures are compared in the order they were acquired.
DeltasOfAsAcquired(acquisition) ==
    LET Packet(n) == ArchivePacket(acquisition, n)
    IN  {[before |-> Packet(n), after |-> Packet(n + 1), batch |-> acquisition.id] :
            n \in {m \in 1..(Len(acquisition.captures) - 1) :
                      Packet(m).lexical # Packet(m + 1).lexical}}

DeltasOf(acquisition) ==
    LET Packet(n) == ArchivePacket(acquisition, ByTime(acquisition.captures)[n])
    IN  {[before |-> Packet(n), after |-> Packet(n + 1), batch |-> acquisition.id] :
            n \in {m \in 1..(Len(acquisition.captures) - 1) :
                      Packet(m).lexical # Packet(m + 1).lexical}}

(***************************************************************************)
(* Segments: the entries in the order of their digests, numbered from 1,    *)
(* and cut to size.                                                         *)
(***************************************************************************)
Sorted(S) ==
    [n \in 1..Cardinality(S) |->
        CHOOSE e \in S : Cardinality({d \in S : Rank(d) <= Rank(e)}) = n]

Entries(S) == LET order == Sorted(S) IN [n \in DOMAIN order |-> [sequence |-> n, core |-> order[n]]]

\* Mutant of Cut: a segment stops one entry short of its size.
CutShort(role, entries) ==
    [path \in {<<role, k>> : k \in 1..((Len(entries) + SegmentSize - 1) \div SegmentSize)} |->
        LET start == (path[2] - 1) * SegmentSize
            end   == start + SegmentSize - 1
        IN  SubSeq(entries, start + 1, IF end < Len(entries) THEN end ELSE Len(entries))]

Cut(role, entries) ==
    [path \in {<<role, k>> : k \in 1..((Len(entries) + SegmentSize - 1) \div SegmentSize)} |->
        LET start == (path[2] - 1) * SegmentSize
            end   == start + SegmentSize
        IN  SubSeq(entries, start + 1, IF end < Len(entries) THEN end ELSE Len(entries))]

\* The entries of a segment follow each other, in number and in digest.
SegmentValid(segment) ==
    \A n \in 1..(Len(segment) - 1) :
        /\ segment[n + 1].sequence = segment[n].sequence + 1
        /\ Rank(segment[n].core) < Rank(segment[n + 1].core)

(***************************************************************************)
(* A directory and its manifest.                                            *)
(***************************************************************************)
At(path, contents) == [p \in {path} |-> contents]
With(new, files) == [p \in DOMAIN new \cup DOMAIN files |-> IF p \in DOMAIN new THEN new[p] ELSE files[p]]
Having(role, files) == {path \in DOMAIN files : path[1] = role}
EntriesIn(role, files) == UNION {Range(files[path]) : path \in Having(role, files)}

\* Every role a snapshot needs has an artifact, and every view has the one
\* that the manifest says.
ManifestValid(m) ==
    /\ \A role \in {"catalog", "concepts", "mappings", "packets", "index", "report"} :
          Having(role, m.artifacts) # {}
    /\ Cardinality(Having("report", m.artifacts)) = 1
    /\ m.counts.views = Cardinality(m.views)
    /\ \A view \in m.views :
          \E path \in Having("view", m.artifacts) : m.artifacts[path] = view.artifact

\* VerifySnapshotDirectory: the artifacts the manifest declares are there, as declared.
Verifies(directory) ==
    LET m == directory.manifest IN
    /\ m \notin {NoManifest, Damaged}
    /\ ManifestValid(m)
    /\ \A path \in DOMAIN m.artifacts :
          path \in DOMAIN directory.files /\ directory.files[path] = m.artifacts[path]
=============================================================================
