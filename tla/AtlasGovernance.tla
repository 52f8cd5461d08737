-------------------------- MODULE AtlasGovernance --------------------------
(***************************************************************************)
(* How a human review becomes a plan.  People edit the files of each       *)
(* origin's admission directory; twirx-admission render                    *)
(* (src/cmd/twirx-admission, src/internal/admission) reads them one by     *)
(* one, checks them, and writes a policy set, a registry and their         *)
(* reports; a person copies the two canonical files into the repository;   *)
(* twirx-atlas (src/cmd/twirx-atlas, src/internal/atlas) reads those two   *)
(* and plans what may be fetched.  Nothing locks anything: every file is   *)
(* read and written on its own, and a render can be killed on the way.     *)
(***************************************************************************)
EXTENDS AtlasReports

CONSTANTS Selection,        \* atlas/genesis-500/selection.json
          Directories,      \* the admission directories, in os.ReadDir's order
          Fixtures,         \* the controlled test fixtures, sorted
          InitialSources,   \* the admission files as committed
          Versions,         \* the contents a person may give each admission file
          EvidenceVersions, \* and each evidence artifact
          InitialEvidence,
          Times,            \* the planning times
          MaxEdits, MaxRenders    \* how often a file is edited, a render started

ASSUME SelectionAssumption == SelectionValid(Selection)

VARIABLES sources,     \* the files of each admission directory
          evidence,    \* path -> digest of the artifact there, 0 when there is none
          renderer,    \* the twirx-admission process
          out,         \* its output directory
          canonical,   \* atlas/policies.json and atlas/registry.json
          reader,      \* the twirx-atlas process
          report,      \* what it last printed: <<>> or one report
          edits, renders,
          approved,    \* every completed human decision ever written
          generations  \* what every render computed
vars == <<sources, evidence, renderer, out, canonical, reader, report, edits, renders, approved, generations>>

FileNames == <<"record", "policy", "decision">>
Idle == [step |-> "idle", read |-> <<>>, loaded |-> <<>>, files |-> <<>>]
EmptyOut == [policies |-> <<>>, registry |-> <<>>, batch |-> <<>>, queue |-> <<>>, dossiers |-> {}, temp |-> FALSE]

(***************************************************************************)
(* What a load of the sources accepts.                                     *)
(***************************************************************************)
\* The policy artifact binds the digest of every file it refers to.
EvidenceBound(artifact, files) ==
  /\ artifact.artifacts # <<>> /\ Len(artifact.artifacts) <= 64
  /\ Rising(artifact.artifacts, LAMBDA a : a.path)
  /\ artifact.policy.evidenceRefs = [i \in DOMAIN artifact.artifacts |-> artifact.artifacts[i].path]
  /\ \A a \in Range(artifact.artifacts) : files[a.path] = a.digest
Dereference(t) == IF t = Nil THEN 0 ELSE t
PendingDecision(d, p) ==
  /\ ~d.admit /\ d.reviewerType = "none" /\ d.approval = 0 /\ d.policyReviewedAt = Nil /\ d.policyReviewer = Nil
  /\ p.reviewState = "pending" /\ p.decision = "uncertain"
CompletedDecision(d, p) ==
  /\ d.admit /\ d.reviewerType = "human" /\ d.approval # 0
  /\ \/ /\ p.reviewState = "pending" /\ p.decision = "uncertain"
        /\ \A t \in {d.policyReviewedAt, d.policyReviewer, p.reviewedAt, p.reviewer} : t = Nil
     \/ /\ p.reviewState = "completed" /\ Nil \notin {d.policyReviewedAt, d.policyReviewer}
        /\ d.policyReviewedAt = p.reviewedAt /\ d.policyReviewer = p.reviewer
Bind(record, policies) == [record EXCEPT !.policy.setDigest = <<policies>>]
DecisionValid(r, p, d) ==
  /\ d.rationale # 0 /\ d.evidenceRefs # <<>>
  /\ d.catalogReviewedAt = Dereference(r.catalog.reviewedAt) /\ d.catalogReviewer = Dereference(r.catalog.reviewer)
  /\ d.policyReview = p.reviewState /\ d.policyDecision = p.decision
  /\ \/ d.reviewState = "pending" /\ PendingDecision(d, p)
     \/ d.reviewState = "completed" /\ CompletedDecision(d, p)
  /\ r.policy.setDigest = <<>> /\ r.policy.policyID = p.id /\ CopiesPolicy(r.policy, p)
  /\ PolicySetValid(<<p>>, Selection) /\ RegistryValid(<<Bind(r, <<p>>)>>, Selection, <<p>>)
\* Against the directories loaded before: an alias names one origin, and is no origin's ID.
NoCollision(r, before) ==
  /\ \A s \in Range(before) : /\ s.record.origin # r.origin
                              /\ Range(s.record.aliases) \cap Range(r.aliases) = {}
                              /\ s.record.id \notin Range(r.aliases) /\ r.id \notin Range(s.record.aliases)
  /\ r.id \notin Range(r.aliases)
DirectoryValid(o, read, files, before) ==
  LET r == read[1]  p == read[2].policy  d == read[3] IN
  /\ r.id = o /\ p.originID = o /\ d.originID = o
  /\ EvidenceBound(read[2], files)
  /\ r.scope = "genesis_public"
  /\ \E c \in FindCandidate(Selection, r.id) : c.origin = r.origin /\ p.origin = r.origin
  /\ NoCollision(r, before) /\ DecisionValid(r, p, d)

(***************************************************************************)
(* What a render computes from accepted sources: the admitted policies     *)
(* become one set, and their records are bound to it.                      *)
(***************************************************************************)
ByID(s) == SortSeq(s, LAMBDA a, b : a.id < b.id)
AdmittedSources(loaded) == SelectSeq(loaded, Admitted)
RenderedPolicies(loaded) == [i \in DOMAIN AdmittedSources(loaded) |-> AdmittedSources(loaded)[i].policy]
RenderedRegistry(loaded) ==
  ByID([i \in DOMAIN AdmittedSources(loaded) |-> Bind(AdmittedSources(loaded)[i].record, RenderedPolicies(loaded))]
         \o Fixtures)
Render(loaded) ==
  [policies |-> RenderedPolicies(loaded), registry |-> RenderedRegistry(loaded),
   batch |-> BuildBatch(loaded, Fixtures), queue |-> BuildWorkQueue(Selection, loaded)]
\* LoadFixtures: controlled fixtures bind no public policy.
FixturesLoad ==
  /\ Len(Fixtures) <= MaxTestFixtures
  /\ \A r \in Range(Fixtures) : r.scope = "test_fixture" /\ r.policy.policyID = Nil /\ r.policy.setDigest = <<>>
Renderable(g) ==
  /\ FixturesLoad
  /\ PolicySetValid(g.policies, Selection) /\ RegistryValid(g.registry, Selection, g.policies)

SourceOf(files) == [record |-> files.record, policy |-> files.policy.policy, decision |-> files.decision]
Committed == [i \in DOMAIN Directories |-> SourceOf(InitialSources[Directories[i]])]
Approval(o, d) ==
  [origin |-> o, catalogAt |-> d.catalogReviewedAt, catalogBy |-> d.catalogReviewer, decision |-> d.policyDecision,
   policyAt |-> d.policyReviewedAt, policyBy |-> d.policyReviewer]
Approvals(o, d) ==
  IF d.reviewState = "completed" /\ d.reviewerType = "human" /\ d.admit THEN {Approval(o, d)} ELSE {}

\* The repository as committed: its canonical files are a render of its sources.  A render killed earlier,
\* inside its first write, may have left a temporary file.
Init ==
  /\ sources = InitialSources /\ evidence = InitialEvidence
  /\ renderer = Idle /\ \E killed \in BOOLEAN : out = [EmptyOut EXCEPT !.temp = killed]
  /\ canonical = [policies |-> RenderedPolicies(Committed), registry |-> RenderedRegistry(Committed)]
  /\ reader = <<>> /\ report = <<>> /\ edits = 0 /\ renders = 0
  /\ approved = UNION {Approvals(o, InitialSources[o].decision) : o \in DOMAIN InitialSources}
  /\ generations = {Render(Committed)}

(***************************************************************************)
(* People: a file is edited at any time, the output is copied file by file *)
(* into the repository, and the output directory may be cleared away.      *)
(***************************************************************************)
EditFile(o, name) ==
  /\ edits < MaxEdits /\ edits' = edits + 1
  /\ \E content \in Versions[o][name] \ {sources[o][name]} :
       /\ sources' = [sources EXCEPT ![o][name] = content]
       /\ approved' = approved \cup (IF name = "decision" THEN Approvals(o, content) ELSE {})
  /\ UNCHANGED <<evidence, renderer, out, canonical, reader, report, renders, generations>>
EditEvidence(path) ==
  /\ edits < MaxEdits /\ edits' = edits + 1
  /\ \E content \in EvidenceVersions \ {evidence[path]} : evidence' = [evidence EXCEPT ![path] = content]
  /\ UNCHANGED <<sources, renderer, out, canonical, reader, report, renders, approved, generations>>
Promote(name) ==
  /\ out[name] # <<>> /\ canonical[name] # out[name][1]
  /\ canonical' = [canonical EXCEPT ![name] = out[name][1]]
  /\ UNCHANGED <<sources, evidence, renderer, out, reader, report, edits, renders, approved, generations>>
ClearOutput ==
  /\ out # EmptyOut /\ out' = EmptyOut
  /\ renderer' = IF renderer.step = "writing" THEN Idle ELSE renderer     \* its next write fails
  /\ UNCHANGED <<sources, evidence, canonical, reader, report, edits, renders, approved, generations>>

(***************************************************************************)
(* twirx-admission render.                                                 *)
(***************************************************************************)
RendererOnly == UNCHANGED <<sources, evidence, canonical, reader, report, edits, approved>>
StartRender ==
  /\ renderer.step = "idle" /\ renders < MaxRenders /\ renders' = renders + 1
  /\ renderer' = [Idle EXCEPT !.step = "loading"]
  /\ UNCHANGED <<out, generations>> /\ RendererOnly
CurrentDirectory == Directories[Len(renderer.loaded) + 1]
ReadFile ==
  /\ renderer.step = "loading" /\ Len(renderer.read) < 3
  /\ renderer' = [renderer EXCEPT !.read =
       Append(@, sources[CurrentDirectory][FileNames[Len(renderer.read) + 1]])]
  /\ UNCHANGED <<out, renders, generations>> /\ RendererOnly
CheckDirectory ==
  /\ renderer.step = "loading" /\ Len(renderer.read) = 3
  /\ renderer' =
       IF DirectoryValid(CurrentDirectory, renderer.read, evidence, renderer.loaded)
       THEN LET source == [record |-> renderer.read[1], policy |-> renderer.read[2].policy, decision |-> renderer.read[3]]
                loaded == Append(renderer.loaded, source)
            IN [Idle EXCEPT !.step = IF Len(loaded) = Len(Directories) THEN "rendering" ELSE "loading", !.loaded = loaded]
       ELSE Idle
  /\ UNCHANGED <<out, renders, generations>> /\ RendererOnly
\* The command then checks the artifact files the rendered registry names, before anything is written.
RenderArtifacts ==
  /\ renderer.step = "rendering"
  /\ LET g == Render(renderer.loaded)
         accepted == Renderable(g) /\ ArtifactFilesValid(g.registry, evidence)
     IN \/ /\ accepted
           /\ generations' = generations \cup {g}
           /\ renderer' = [Idle EXCEPT !.step = "output", !.loaded = renderer.loaded, !.files = <<g>>]
        \/ /\ ~accepted
           /\ renderer' = Idle /\ UNCHANGED generations
  /\ UNCHANGED <<out, renders>> /\ RendererOnly
\* rejectUnexpectedOutput: a leftover temporary file, or a dossier of no source, stops the render.
CheckOutput ==
  /\ renderer.step = "output"
  /\ renderer' = IF out.temp \/ ~(out.dossiers \subseteq {s.record.id : s \in Range(renderer.loaded)}) THEN Idle
                 ELSE [renderer EXCEPT !.step = "writing"]
  /\ UNCHANGED <<out, renders, generations>> /\ RendererOnly
\* Each file is replaced atomically; the files are written in this order, then the dossiers one by one.
OutputOrder == <<"policies", "registry", "batch", "queue">>
WriteOutput ==
  /\ renderer.step = "writing" /\ Len(renderer.read) < Len(OutputOrder)
  /\ LET name == OutputOrder[Len(renderer.read) + 1] IN
       /\ out' = [out EXCEPT ![name] = <<renderer.files[1][name]>>]
       /\ renderer' = [renderer EXCEPT !.read = Append(@, name)]
  /\ UNCHANGED <<renders, generations>> /\ RendererOnly
WriteDossier ==
  /\ renderer.step = "writing" /\ Len(renderer.read) >= Len(OutputOrder)
  /\ LET i == Len(renderer.read) - Len(OutputOrder) + 1 IN
       /\ out' = [out EXCEPT !.dossiers = @ \cup {renderer.loaded[i].record.id}]
       /\ renderer' = IF i = Len(renderer.loaded) THEN Idle ELSE [renderer EXCEPT !.read = Append(@, "dossier")]
  /\ UNCHANGED <<renders, generations>> /\ RendererOnly
\* Killed between two files, or inside a write: the temporary file stays.
Crash ==
  /\ renderer.step = "writing" /\ renderer' = Idle
  /\ \E inside \in BOOLEAN : out' = [out EXCEPT !.temp = @ \/ inside]
  /\ UNCHANGED <<renders, generations>> /\ RendererOnly

(***************************************************************************)
(* twirx-atlas plan, metrics and serve: the policies, then the registry.   *)
(***************************************************************************)
OpenPolicies ==
  /\ reader = <<>> /\ PolicySetValid(canonical.policies, Selection)
  /\ reader' = <<canonical.policies>>
  /\ UNCHANGED <<sources, evidence, renderer, out, canonical, report, edits, renders, approved, generations>>
Admissible(registry, policies) == RegistryValid(registry, Selection, policies) /\ ArtifactFilesValid(registry, evidence)
OpenRegistry(at) ==
  /\ reader # <<>> /\ Admissible(canonical.registry, reader[1])
  /\ reader' = <<>>
  /\ report' = <<[policies |-> reader[1], registry |-> canonical.registry,
                  plan |-> BuildDryRunFrontier(Selection, canonical.registry, at),
                  metrics |-> BuildMetrics(Selection, canonical.registry, reader[1])]>>
  /\ UNCHANGED <<sources, evidence, renderer, out, canonical, edits, renders, approved, generations>>
RefuseRegistry ==
  /\ reader # <<>> /\ ~Admissible(canonical.registry, reader[1])
  /\ reader' = <<>>
  /\ UNCHANGED <<sources, evidence, renderer, out, canonical, report, edits, renders, approved, generations>>

Next ==
  \/ \E o \in Range(Directories) : \E name \in Range(FileNames) : EditFile(o, name)
  \/ \E path \in DOMAIN evidence : EditEvidence(path)
  \/ \E name \in {"policies", "registry"} : Promote(name)
  \/ ClearOutput
  \/ StartRender \/ ReadFile \/ CheckDirectory \/ RenderArtifacts \/ CheckOutput
  \/ WriteOutput \/ WriteDossier \/ Crash
  \/ OpenPolicies \/ (\E at \in Times : OpenRegistry(at)) \/ RefuseRegistry
Spec == Init /\ [][Next]_vars

(***************************************************************************)
(* Properties.                                                             *)
(***************************************************************************)
\* Whatever mixture of old and new files it reads, a plan is made from a policy set and a registry that one
\* render computed together, and each job in it, active and permitted, traces to a completed human decision
\* that was once on the disk with the same catalog review, policy decision and policy review
\* (atlas/state.go validatePolicyBinding, admission/factory.go Load and validateDecision, frontier.go).
RecordApproval(r) ==
  [origin |-> r.id, catalogAt |-> r.catalog.reviewedAt, catalogBy |-> r.catalog.reviewer, decision |-> r.policy.decision,
   policyAt |-> r.policy.reviewedAt, policyBy |-> r.policy.reviewer]
PlanTracesToReview ==
  \A seen \in Range(report) :
    /\ \E g \in generations : g.policies = seen.policies /\ g.registry = seen.registry
    /\ \A job \in Range(seen.plan.jobs) : \E r \in PublicRecords(seen.registry) :
         /\ r.id = job.originID
         /\ RecordApproval(r) \in approved
         /\ \E p \in FindPolicy(seen.policies, r.id) : p.decision \in LivePermits /\ RetrievalReviewed(p)
         /\ ~Stopped(r) /\ r.runtime.scheduler.cooldownUntil <= seen.plan.at /\ job.dueAt <= seen.plan.at

\* The three accounts of an atlas agree: the metrics, counted by moving origins out of a default, the views the
\* API lists page by page, and the work queue and batch of the render the files came from
\* (atlas/metrics.go BuildMetrics, atlasapi/server.go listOrigins, admission/workqueue.go).
PagesOf(registry, filter, limit) ==
  LET Page(i) == ListOrigins(Selection, registry, filter, (i - 1) * limit, limit)
      Upto == CHOOSE n \in 1..RequiredCandidates : Page(n).next = Nil /\ \A i \in 1..(n - 1) : Page(i).next = i * limit
  IN FlattenSeq([i \in 1..Upto |-> Page(i).origins])
ListedInFull(seen, dimension, value) ==
  LET filter == [key |-> dimension, value |-> value]
      listed == PagesOf(seen.registry, filter, 2)
  IN /\ Len(listed) = seen.metrics.states[dimension][value]
     /\ Distinct(listed, LAMBDA view : view.id)
     /\ \A view \in Range(listed) : view.states[dimension] = value
CensusAgrees ==
  \A seen \in Range(report) :
    /\ \A dimension \in FilterKeys : \A value \in ValuesOf[dimension] : ListedInFull(seen, dimension, value)
    /\ \A s \in Range(TechnicalOrder) \ {"unprofiled"} :
         seen.metrics.atOrBeyond[s] = Cardinality({r \in PublicRecords(seen.registry) : AtLeast(r, s)})
    /\ \A g \in {h \in generations : h.policies = seen.policies /\ h.registry = seen.registry} :
         /\ g.queue.review = seen.metrics.states.review /\ g.queue.decision = seen.metrics.states.decision
         /\ g.queue.admissions = seen.metrics.public /\ g.batch.admissions = seen.metrics.policies
         /\ g.batch.policyCompleted = seen.metrics.states.review["completed"]
         /\ g.batch.fixtures = seen.metrics.fixtures
=============================================================================
