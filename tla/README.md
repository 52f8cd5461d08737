# Specifications of twirx

TLA+ specifications, model-checking runs and machine-checked proofs for the parts
of this repository whose correctness depends on order, failure and concurrency, or on
two pieces of code agreeing: the workers that retrieve from the web under a sealed
authority, the Lab server that publishes results, the canonical documents they
exchange, and the path from a human review to a plan of what may be fetched.  `PROJECT.json` is the index: which definition models which lines,
which run checks which property, which hazard is covered by what, and which theorems
are proved.

    tlc -config egress.cfg MCEgressWorker.tla       # one run
    tlapm EgressWorkerProofs.tla                    # one module of proofs

## 1. Inventory

twirx compiles public web sources into typed, evidence-bearing artifacts.  Almost all
of its packages are pure: they validate or transform documents held in memory.  State
that outlives a function call is in a few places, nearly all of them directories.

| Component | State it keeps | Operations | Interacts with |
|---|---|---|---|
| Secure egress worker (`internal/egressworker`) | flock lease, circuit file per origin, spool per order | `Execute`, `VerifySpool` | control artifact, safefetch, observation, atomicfile, cas |
| Observatory worker (`internal/observatoryworker`) | one output root | `Execute`, `Verify` | safefetch, observation, robotstxt |
| Durable files (`internal/atomicfile`, `internal/cas`) | files and directory entries | `Write`, `Put`, `Read` | every publisher |
| Lab engine, proof bundles (`internal/labengine`, `internal/proofbundle`) | results directory, `publishMu` | `Invoke`, `Load`, `Verify` | Lab API, CLI, MCP server |
| Lab API (`internal/labapi`) | two tables of token buckets, a semaphore | `ServeHTTP` | engine |
| Opportunity pilot (`internal/opportunitypilot`) | claim directory, output directory | `Acquire`, `VerifyAcquisition`, projection | safefetch ranges, atomicfile |
| Archive acquisition and import (`internal/archiveacquire`, `archiveimport`) | output directory, spools in it | `Acquire`, `Verify`, `PublishCaptureFile` | safefetch, WARC parser |
| Snapshot build and runtime (`internal/snapshotbuild`, `snapshotruntime`, `cmd/twirx-snapshot`) | output directory; immutable index in memory, semaphore | `Build`, `Open`, queries | data plane, segments |
| MCP server (`internal/mcpstdio`) | the `initialized` flag | JSON-RPC requests | engine |
| Data plane and evidence documents (`internal/dataplane`, `cborlite`, `transportevidence`, `e2format`) | none (documents) | `Marshal*`, `Unmarshal*`, `Validate` of seventeen kinds | every producer and consumer |
| Admission factory (`internal/admission`, `cmd/twirx-admission`) | admission directories, output directory | `Load`, `Render`, `render` | people, atlas |
| Atlas (`internal/atlas`, `atlasapi`, `cmd/twirx-atlas`) | `atlas/policies.json`, `atlas/registry.json` | validation, `plan`, `metrics`, listing | admission, people |
| Ontology, universe, release packages | none (documents) | validation, compilation | files they are given |

How they interact: commands load a *sealed* order (identified by the digest of its
exact bytes) and an operator's control artifact, retrieve through `safefetch`, write
evidence with `atomicfile.Write` and `cas.Put`, and write a manifest last.  Processes
meet only through the file system: a flock, exclusive `Mkdir` or `O_EXCL`, and the
rename that publishes a file.  Inside `lab serve` goroutines meet in two mutexes (the
limiters' and `publishMu`) and a semaphore channel.

What is hard, and what each component has to get right:

* **Egress worker.** Crashes between any two of a dozen writes; the circuit read
  before the request and written after it; the authority checked on copies.  An order
  is retrieved at most once; the request leaves under the lease and a closed circuit; a
  manifest means complete evidence and is final; the lease never leaks; failures are
  forgotten only by a publication.
* **Observatory worker.** A crash or a power failure at any point, and an output root
  that is looked at but not claimed.  Evidence is on disk before parsing; an answered
  run can be verified offline afterwards; evidence is not replaced.
* **Lab publication.** Goroutines under one mutex beside processes that do not share
  it; failing writes whose clean-up may fail as well; kills.  One writer per result;
  all or nothing; what was reported stays; every invocation is answered.
* **Lab API.** Requests delayed by their bodies reach the limiters out of order; the
  table of buckets is bounded and drops idle ones; invocations panic.  The quotas hold
  in every window; concurrency is bounded; no slot is lost.
* **Opportunity pilot.** Long sessions of ranged requests during which the publisher,
  the clock and the process may change.  One session per order within its budget;
  evidence before archive; what is published passes its own verification.
* **Snapshot build and runtime.** A build reads one file twice, writes its manifest
  neither atomically nor durably, and may share its directory with another; the
  runtime counts everything once more, from other sources.  What a build reports can be
  opened; what is opened is complete; an answer that was cut says so; evidence is handed
  out as it was admitted, however long after; nothing is overwritten.
* **Archive acquisition and import.** A publication of publications, some twenty durable
  writes per acquisition with two parsers of untrusted bytes between them.  Raw bytes
  are on disk before their parser runs; a manifest means that everything below it
  verifies; nothing is rewritten, by whatever run.
* **Documents.** A document is known by the digest of its bytes, written by one
  hand-written sequence of calls and read by another.  What a reader accepts is the one
  canonical encoding of a valid document of one kind; what a writer publishes is read back
  unchanged.
* **Admission and atlas.** Several files per origin, edited by people, read one by one,
  rendered to several files, promoted and read one by one again, without a lock anywhere.
  Whatever mixture is read, a job is planned only on a human decision for what the
  record says; the three accounts of the same atlas (metrics, listing, work queue) agree.
* **MCP** (not modelled): a one-bit protocol over the engine.

`PROJECT.json` lists the hazards at their lines, with the properties that cover them.

## 2. Modules

| Module | Models | Checked by | Proofs |
|---|---|---|---|
| `OneShot` | abstract: the one life of a sealed order | refined twice below | |
| `EgressWorker` | `internal/egressworker` | `egress` | `EgressWorkerProofs` |
| `FileStore` | `internal/atomicfile`, `internal/cas`, power failures | through `ObservatoryWorker`, `ArchiveAcquire` | |
| `ObservatoryWorker` | `internal/observatoryworker`, `observation` | `observatory`, `observatory_shared` | `ObservatoryProofs` |
| `LabPublication` | `labengine.Invoke/Load/Verify`, `proofbundle` | `lab_publication`, `lab_poisoned` | `LabPublicationProofs` |
| `RateLimiter` | `labapi.limiter` | through `LabApi` | `RateLimiterProofs` |
| `LabApi` | `labapi.Server`, composed of two `RateLimiter`s | `lab_api` | `LabApiProofs` |
| `OpportunityAcquire` | `opportunitypilot.acquire`, `VerifyAcquisition` | `opportunity`, `opportunity_splice` | `OpportunityProofs` |
| `CaptureSpool` | `archiveimport`: sealed selections, parsers, spool verification | through `ArchiveAcquire` | |
| `ArchiveAcquire` | `archiveacquire.Acquire`, `Verify`, `archiveimport.PublishCapture` | `archive` | `ArchiveProofs` |
| `SnapshotArtifacts` | packets, proofs, deltas, segments, manifest (`snapshotartifact`, `dataplane`) | through `SnapshotRuntime` | `SnapshotProofs` |
| `SnapshotBuild` | `snapshotbuild.Build` | through `SnapshotRuntime` | `SnapshotProofs` |
| `SnapshotRuntime` | `snapshotruntime.Open`, `QueryContext`, `ProofArtifact`, beside `SnapshotBuild` | `snapshot` | `SnapshotProofs` |
| `CborCodec` | `cborlite`, the field encodings of `dataplane/common.go` | through `DocumentExchange` | |
| `PacketDocuments`, `QueryDocuments`, `OntologyDocuments` | the thirteen documents of `internal/dataplane`: rules, writers, readers | through `DocumentExchange` | |
| `EvidenceDocuments` | observation envelope, transport, typed result, bundle manifest | through `DocumentExchange` | |
| `DocumentExchange` | a document written, altered, and read by the parser of its kind | `dataplane` | |
| `AtlasRecords` | `internal/atlas`: selection, policies, registry records, their binding | through `AtlasGovernance` | |
| `AtlasReports` | frontier, metrics, `atlasapi` listing, batch and work queue of `admission` | through `AtlasGovernance` | |
| `AtlasGovernance` | people, `twirx-admission render`, `twirx-atlas` on their files | `atlas` | |

`MC*` modules give the constants their values.  Operators named "Mutant of ..." are
variants of the definition they follow, as a plausible bug would write it; substituted
for the original they must break the property that `PROJECT.json` pairs them with.

**How state and actions correspond to the code.**

* `EgressWorker`: `worker[w].step` is the program counter of `execute`; `spool[o]` is
  the set of files below `spool/<order id>/<digest>`, `circuit[g]` is `<origin>.json`,
  `lease` the flock on `worker.lock`.  `Load` is the command reading its two files,
  `Admit` the checks before the lease, `AcquireLease`/`CheckCircuit`/`CreateSpool` the
  functions of those names, `WriteArtifact` each `cas.Put` or `atomicfile.Write` in the
  order of `After`, `Send`/`Fetched`/`FetchFails` the two ends of `Fetch`,
  `RecordFailure` and `ResetCircuit` the circuit updates.  `Exit` is the deferred
  `lease.Close`.  `sent`, `streak` (the failures in a row, as they happened) and `unreset`
  (the origins whose last publication did not get to reset the circuit file) are history
  variables.
* `ObservatoryWorker`: `Following` is the program order of `Execute`; a file written by
  `atomicfile.Write` takes two actions, `Commit` (the rename, visible) and `Sync` (the
  directory fsync, certain).  `FileStore` keeps what processes see apart from what the
  disk holds, and `Survivors` are the trees a power failure may leave.
* `LabPublication`: a bundle is the set of its entries; `Mkdir`, `Commit`, `Sync`,
  `Clean` are the steps of `proofbundle.Write`, `InspectNext`/`Accept`/`Refuse` those of
  `Verify`, and `Lock`/`Reply` hold and release `publishMu`, of which each process has
  its own.  `proofbundle.Verify` and after it `Engine.Verify` open files more than once:
  `Rereads` lists what is opened again once every file has been looked at, and each
  opening is a step of its own, so that a directory may change between two of them.
* `RateLimiter`: `Admit` and `Refuse` are the two outcomes of `limiter.allow`, with the
  eviction of idle buckets in `Table` and the refill in `Earned`.  A request costs
  `Cost` units and a tick earns one, which keeps fractions of tokens in whole numbers.
  `window` is a history variable that observes one key.
* `LabApi`: `request[q].step` follows a request through `ServeHTTP` and `invoke`;
  `PerIP` and `PerOrigin` are instances of `RateLimiter` over its variables.
* `OpportunityAcquire`: `Following` is the program order of `acquire`; `out[d]` the
  files of output directory `d`; `consumed` the claim file.  Time counts half seconds,
  because the manifest's times are cut to seconds and the evidence's are not;
  `Verified` is `VerifyAcquisition`.
* `CaptureSpool`: the parsers are what they accept, given which record a line or a range
  holds; `RawVerified` and `SpoolVerified` are `verifyRawEvidence` and `VerifySpool`,
  as predicates on the files of a spool.
* `ArchiveAcquire`: `Program` is the order of steps of `Acquire`, with those of
  `PublishCapture` and the immediate reconciliation for each entry (a collection and a
  route).  As in `ObservatoryWorker` a write is `Commit` and then `Sync`.  `Stop` is any
  error and any process death; `Verified` is `Verify`.
* `SnapshotBuild`: `builders[b].pc` is the place in `build`, `done` the number of sources
  compiled, `artifacts` what `addArtifact` remembers for the manifest, `output` the
  directory.  `Compile` is one of the three compile functions, the `Add*` actions the
  builder's methods in their order, `StartManifest`/`WriteManifest` the non-atomic write
  of `manifest.cbor`.  Digests are the contents they stand for and `Rank` their order; a
  proof bundle is one artifact.  `Damage` changes the bytes of one file, which covers
  what a power failure does to files that are not synced.
* `SnapshotRuntime`: `VerifyOpening` and `Load` are the two halves of `Open`, each
  `...Reconciles` one group of its checks, `Derived*` the re-derivation of a packet from
  its evidence.  `Answer` is `QueryContext` after the refusals, which change nothing;
  the runtime keeps nothing of an answer, so a behaviour looks at one.
* `CborCodec`: an encoding is a sequence of tokens, each a head (its major type, its
  argument and the number of bytes the argument takes) and its payload.  A text is a word
  of a lexicon that gives its length and its form, a digest a number, so a bound of the
  code is compared with the length a word stands for.  A document is a record; `Write` and
  `ReadFields` interpret a list of fields.  The list of the writer and the list of the
  reader of a document are separate definitions (`PacketWritten`, `PacketRead`), each
  translated from its own function, because that they agree is what is to be shown.
* `PacketDocuments`, `QueryDocuments`, `OntologyDocuments`, `EvidenceDocuments`:
  `...Valid` is `Validate`, `Marshal...`/`Unmarshal...` the functions of those names.
* `DocumentExchange`: `held` is the document a publisher has, valid or not; `Publish`
  marshals it, `Alter` changes, drops, repeats or swaps a token (every field gets a longer
  head, another type, another value), `Accept` is the reader.
* `AtlasRecords`, `AtlasReports`: one operator per validation function or report.  Texts
  and times are numbers whose order is the order of the strings; 0 is the empty text and
  `Nil` a null.  A set digest is the set it is taken of.
* `AtlasGovernance`: `sources[o]` are the three files of an admission directory,
  `renderer` is `twirx-admission render` with the files it has `read` and the sources it
  has `loaded`; `ReadFile` and `CheckDirectory` are the loop of `Load`, `WriteOutput` one
  `atomicfile.Write` of the four outputs and `WriteDossier` one of a dossier, `Crash` leaves
  its temporary file.  `Promote` is the person who
  copies a rendered file to `atlas/`.  `OpenPolicies` and `OpenRegistry` are the two reads
  of `twirx-atlas`.  `approved` and `generations` are history variables.

## 3. Runs

| Run | Instance | What it shows |
|---|---|---|
| `egress` (620,000 states) | two workers, two orders of one origin with different intervals and thresholds, one failure or none left by earlier orders, a revoking control, failure ceiling 1, clock to 2 | one retrieval per order, request only under lease and closed circuit, manifest last and final, a circuit opened and an origin unusable for failures in a row alone (a lost reset excepted), lease released, refinement of `OneShot` |
| `observatory` (7,900) | two successive runs in one root, four kinds of response, one power failure | evidence before parsing, replay succeeds, what survives an outage, no evidence replaced |
| `observatory_shared` | the same, overlapping | **violated**: the second run replaces the first one's evidence |
| `lab_publication` (192,000) | two requests of a server and a command, two artifacts, three files opened again, kills, failing writes and clean-up | one writer, all or nothing, reports stay, what nobody is publishing is final, every waiting request answered |
| `lab_poisoned` | one server | **violated**: a killed publication makes every later invocation of that result fail |
| `lab_api` (131,000) | three requests, two clients for one bucket, one origin, one slot, clock to 3 | both quotas in every window, no slot lost, every request answered |
| `opportunity` (830,000) | two runs, two directories, objects of one to four ranges against a budget of three, clock to 6 half seconds, one correction of the wall clock | published acquisitions verify, evidence before archive, budget, published directories final, refinement of `OneShot` |
| `opportunity_splice` | one run, an object replaced by one of the same size | **violated**: the archive joins ranges of both objects |
| `archive` (9,900) | two runs of one order into one directory; one collection, two routes; five index responses and six ranges, good and bad; two claims of the total; one power failure | what a manifest means, before and after a power failure; raw evidence before both parsers; nothing rewritten |
| `snapshot` (370,000) | two builds on one directory: nine sets of options over two replays, a scale fixture of up to two fields and three acquisitions; segments of two entries, one edit of the selection, one damaged file, ten queries | a reported build opens (with its three exceptions), what opens is complete and not later than the snapshot, deltas follow the captures, honest answers, evidence as admitted, nothing overwritten |
| `dataplane` (27,000 states) | seventeen kinds; one or two valid documents of each and every document that differs from one in a field; every alteration of one token | what is accepted is canonical and of one kind; what is written is read back field for field |
| `atlas` (216,000) | two origins, one test fixture, a selection of three; three edits of files or evidence, one render with kills and a leftover file, promotion file by file, planning at two times | planned jobs trace to one render and to a completed human decision; metrics, listing, batch and work queue agree |

**Why the bounds are enough to be interesting.**  Two workers and two orders of one
origin contend for the lease, for the origin's circuit, and (both loading one order)
for the spool; thresholds 1 and 2 let the circuit open on the first and on a second
failure, and a failure ceiling of 1 instead of 100,000 reaches the unreadable state.  The
failure that earlier orders may have left lets a failure, a publication and a failure
follow each other, which is what a reset is for.
Two successive observatory runs are what "a non-empty root is refused" is about.  Two
requests and a command cover contention inside a process and across processes.  A
table of one bucket for two clients forces eviction; a burst of one request and an idle
limit equal to it is the tightest case the assumption allows.  Three ranges include a
first, a middle and a short last one.  Two routes give an acquisition a
spool that is followed by another and one that is last, and index responses that confirm
the wrong one of them.  Segments of two entries give indexes of one,
two and more segments, the last one full or not; the three acquisitions differ in
origin, in operation and in the order of their captures, so that every pair of them is a
case of its own; one damaged file is enough, as every check looks at one file.  The
lexicon of `dataplane` has a word on either side of each bound, a malformed one and one
of each lexical form, and every field of every document is given each of them in turn;
alterations of more than one token only meet a reader that stops at the first.  In
`atlas` one render beside the committed generation gives the two generations whose files
can be mixed, three edits are what it takes to change record, policy and decision of one
origin, and the planning times fall on both sides of the cooldown.  Bounds on the clock (`MaxTime`) only cut runs
short; nothing in a guard of the code depends on them.

**Fairness.**  Every liveness property assumes weak fairness of the steps of what is
already running: the operating system schedules processes and goroutines, and every
blocking call of theirs has a timeout (the order's timeouts and the unit's
`TimeoutStartSec` for the worker, `ReadTimeout` for a body, the invocation deadline).
New work, crashes, kills, clock ticks and control changes are never fair.
`LabPublication` needs strong fairness of `Lock`, which `sync.Mutex` provides by its
starvation mode.  `CHECK_DEADLOCK FALSE` stands where a run simply ends when all its
processes have.

**Findings.**  Three runs state what a document of the repository says and are violated
by what the code does; `PROJECT.json` quotes the lines.

1. `observatory_shared`: `createEmptyOutputRoot` looks and then writes, so two runs that
   overlap share one root, against "so earlier evidence is not silently replaced".
2. `lab_poisoned`: `proofbundle.Write` claims the final directory before the manifest;
   killed in between (which includes SIGTERM, since `runServe` does not await
   `Shutdown`), it leaves a directory that `Invoke` refuses for ever.
3. `opportunity_splice`: only the total size of the object is compared between ranges,
   so two objects of one size are joined into an archive that passes verification.

**Known departures without a run.**  Two more properties are stated in the modules with
a comment that the code does not keep them; adding one to the configuration named here
gives the counterexample.

* `DeltasCompareOnePage` (`snapshot.cfg`): `compileArchiveAcquisition` compares captures
  that are neighbours in time, whatever their route, against "Two capture periods may
  produce an historical origin delta" (COMMON_CRAWL_IMPORT.md:66).
* `EveryDocumentIsRead` (`dataplane.cfg`): some writers let through what no reader
  accepts.  `Query.MaximumPrice` and the amounts of `EconomicMoney` have no length bound in
  `Validate` and at most 128 bytes in the reader (query.go:1135; the schema,
  semantic-data-plane.cddl:570, says 1 to 128); semantic versions, the policy of a
  transport artifact and the names of a bundle are alike.  `PastReadersBound` lists the
  fields, and `WrittenIsRead` claims the rest.

Three properties name an exception.  `OpensOnConsecutiveFailures` and
`UnusableOnlyPastCeiling` except an origin in `unreset`: `worker.go:356` discards the error
of `resetCircuit`, and a kill may come before it, so failures from before a publication
then count toward the "consecutive-failure threshold" (SECURE_EGRESS_PILOT_0_1.md:49) until
a later publication has reset them.  Without the exception either is violated
(`egress.cfg`).  `SettledIsFinal` speaks of directories that nobody is publishing:
between the rename of a manifest and its fsync a publication may still fail and remove what
another process has verified meanwhile.

`ManifestMeansVerified` names another: a power failure after the acquisition
manifest may take a whole spool, because `captures/` itself is never fsynced (each
`atomicfile.Write` syncs the directory of its own file only).  The documents speak of
failed and interrupted runs, not of power, so this is no finding; `Verify` refuses such
a directory.

A property that one would like and that no document promises is not stated as a
finding: for instance, requests that reach a limiter out of order earn the same interval
twice (`current.last = now`), which `Quota` accounts for by its term `window.back`; so no
property would catch a double earning that stays within the delay of the requests, and
`PROJECT.json` lists that hazard as uncovered, like the fields past the readers' bounds.
Likewise `BuiltOpens` names the cases in which a build succeeds and no runtime opens its
snapshot: two acquisitions of one origin, or of profiles that name one operation (the
report counts acquisitions, `reportReconciles` distinct origins and operations), a public
origin outside the selection, and a selection edited between its two reads.  The command
passes at most one acquisition, which avoids the first; `Build` accepts eight.

## 4. Proofs

All theorems hold for every value of the constants that satisfies the named
assumptions (`WorkOrderAssumption`, `SettingAssumption`, `LimiterAssumption`,
`ApiAssumption`, `LabAssumption`, `OrderAssumption`, `WorkerAssumption`,
`NamesAssumption`, `RunsAssumption`, `SegmentAssumption`, `SourcesAssumption`,
`DigestAssumption`, `BoundsAssumption`); none of them bounds the number of processes, orders, clients or
requests, except that requests are finitely many.  `NamesAssumption`
says that a blob's name is no other file's and that no content reads as a missing file,
and `RunsAssumption` the latter of a directory.  `OrderAssumption` of `CaptureSpool`
asks for at least one collection and one route, as `DecodeWorkOrder` does.
`SourcesAssumption` says that no two admitted operations have one ID (`Contracts.Validate`,
`twircontract/contract.go:106`), that an acquisition is found under its own ID (`LoadWorkOrder`,
`archiveimport/workorder.go:101`), that an operation has fields, finitely many
(`twircontract/contract.go:132`, `e2format/result.go:91`), that an acquisition has captures
(`archiveacquire/acquire.go:257`; `compileArchiveAcquisition` refuses one that produced no
packets) and that times are numbers; `DigestAssumption` that the digests of the packets of one
build differ and have an order, and those of its deltas.  `BoundsAssumption` says that the bounds
of a build stay below the `MaxRuntimePackets` of a runtime (100000,
`snapshotruntime/runtime.go:34`): each field of a scale fixture takes more than 28 bytes of a
body of 2 MiB, which makes fewer than 75000 packets; at most 64 operations of 64 fields
(`twircontract/contract.go:25`) add 4096, and eight acquisitions of at most 36 captures
(`archiveimport/workorder.go:29`) 288.

* `EgressWorkerProofs` (1416 lines).  The inductive invariant `IInv` joins the types
  with four facts.  `LeaseInv`: whoever is past the lease holds it, so at most one
  process is.  `ClockInv`: a run's reading of the clock is not later than the clock.
  `CircuitInv`: past the check, the circuit is readable and closed at the run's own
  reading, because only the lease holder writes circuits.  `OwnerInv` and `OrderInv`: the process past
  `CreateSpool` is the only one with that order, its spool holds at least the artifacts
  written so far, and `sent` is 1 exactly once the request has left.  None of the safety
  properties is inductive alone: `AtMostOneRetrieval` does not say why a second
  `Send` cannot come.  One lemma per group of actions; then `TypeCorrect`, `OneRetrieval`,
  `CircuitGuardsRetrieval` (with `ClosedAt` monotone in time), `ManifestIsCommit`, and
  `FailuresAreKept`, which needs that a run which resets a circuit holds the lease and
  has its manifest on disk, and which no run checks besides.  `CountInv` compares the circuit file with what has happened:
  unless its last reset was lost, an origin's count is at most its streak (`Counted`), from
  which `CircuitOpensOnStreak` and `UsableUpToCeiling` follow.  Under `IInv`, each step of the worker is a step
  of `OneShot` for the order of the process that acts and a stutter for the others:
  `Refinement` (`Spec => OneShot!OneShotSpec`) and `SpoolsAreFinal`.
* `RateLimiterProofs` (288 lines).  The invariant `Account` says that what the watched
  key has spent and what its bucket still holds is covered by a full bucket, the span of
  the window, and the time lost to calls out of order.  The case that needs work is
  eviction: an idle bucket would have been full, since `Burst <= IdleLimit`.
* `LabApiProofs` (328 lines).  `slots` is the number of running requests
  (`ConcurrencyIsBounded`, which no run checks besides; `TurningAwayIsHonest`).  Each step of the server is a step of
  either limiter or leaves it alone, so the quotas follow from `QuotaHolds` through
  `INSTANCE` (`ClientQuotaHolds`, `OriginQuotaHolds`).
* `LabPublicationProofs` (723 lines).  The exclusive `Mkdir` makes one handler, of
  whatever process, the writer of a directory; `publishMu` only orders the handlers of a
  process.  While it writes, the directory holds exactly the entries up to its place in
  the loop (`HandlerInv`); a directory nobody writes is empty, complete or among the
  interrupted (`ResultInv`), which is what `AllOrNothing` needs to be inductive.  Nobody
  takes such a directory up again, as `Mkdir` fails on it (`SettledStays`).  The
  theorems: `WritersExclude`, `ReportsStay`, `NothingHalfDone`, `SettledStays`.
* `OpportunityProofs` (2019 lines).  A run past `Start` has a directory that is its alone
  (`OwnDirectory`), and the exclusive claim makes one run the owner of the order
  (`OneOwner`).  `Counts` reads off the owner's place in the range loop how many requests
  it has sent and how many ranges it has listed, `OnDisk` which files of the present
  range are there.  `BudgetIsKept` needs `BuildRanges` never to exceed the budget,
  `EvidenceFirst` that nobody else writes in the owner's directory;
  `PublicationIsFinal` follows from a published directory's run having ended.
  `PublishedPasses` needs more, `VInv`: each step of the owner puts exactly what
  `VerifyAcquisition` will ask for, so the evidence of the ranges done so far carries
  their bytes and times in order, the archive their concatenation, and the completion is
  no earlier than any of them while nobody corrects the clock; a published directory is
  then verified and, by `PublicationIsFinal`, stays so.  For the refinement, the abstract phase and the session count are
  those of the owner, or `"sealed"` and 0 without one (`MappingReads`); a step of the
  owner is a step of `OneShot`, one of any other run a stutter (`Refinement`).
* `ArchiveProofs` (3055 lines).  Every path of the tree is due at one step of the program
  and one entry of the order (`When`), and a run has such a place too (`Position`).  A run
  past its first step is the only one, because the root is made once and by it.
  `RunInv` says of it that what is due later does not exist, and that what is past exists,
  is certain on the disk and is what the run remembers of it; `World` says of the tree
  alone what is left when the run has stopped or the power has failed: a file has its
  directories, derived bytes their raw ones, and the final manifest lists only what agrees
  with it, up to spools lost whole.  Each conjunct of `World` survives a power failure,
  as it speaks of entries that are certain or absent together.  Then `RawStaysFirst`,
  `ManifestVerifies` and `EvidenceIsImmutable`; the number of power failures, entries,
  runs and answers is not bounded.  TLC has checked the invariant on the instance of
  `archive` before it was proved.
* `SnapshotProofs` (5465 lines).  `OwnerInv`: the exclusive `Mkdir` gives the directory one
  owner, and its files are the artifacts this build remembers; `FilesAreKept` follows,
  since the paths of the evidence of two sources are apart (`EvidenceApart`) and
  `addArtifact` looks before it writes.  `CompileInv`: while the owner compiles, its files
  are the catalog and the evidence of what it has compiled, so the segments it cuts
  afterwards are all there are, and the packets in them are exactly those compiled
  (`CoresOfCut`: sorting by digest gives each packet one place, and cutting loses none).
  `ManifestInv`: a readable manifest is that of a whole build.  `RuntimeInv`: a runtime
  was opened with such a manifest, and as it compares each artifact with it, has loaded
  the packets of that build (`OpenedIsWhole`).  `NeverOverwritten` alone would not be
  enough for this, as damage may come at any time.  `AnswersAreHonest` needs that the
  packets stand in an order without repetition, `FetchedIsAdmitted` that the runtime no
  longer changes once it answers, `HistoryIsOrdered` that `ByTime` is a permutation in the
  order of time (`ByTimeIs`).

  `BuiltSnapshotsOpen` compares the two countings of a snapshot, the one by which
  `snapshotbuild` writes report and manifest and the one by which `snapshotruntime.load`
  checks them.  `ContentsInv` says stage by stage what the owner's files hold:
  `CompileContents` adds the evidence of a source that has passed its checks, among them
  that none of its packets was compiled before, and each later step its index
  (`AddSegmentsContents` to `AddReportContents`), which leaves the earlier ones alone
  (`ContentsGrow`, `ReportGrows`).  `BuiltInv` says that the directory a build has
  verified stays verified, with the manifest of that build, while nothing is damaged;
  `FilesAreKept` is what it needs of the other builds.  From there each part of `load` is a lemma
  over a directory that stands (`Standing`): segments number their entries without a gap
  (`SequencesReconcile`), the proof index has one proof of each packet in the packets'
  order (`IndexHeld`, `CutRunsOn`: across segments too), each proof is derived again from its evidence (`ProofStands`), the
  concepts and mappings cover the semantic packets (`SemanticsAgree`), deltas and views
  refer to packets that are there (`DeltasAgree`, `ViewsAgree`).  Three of `load`'s checks
  do not follow, and the theorem is the equivalence with them: the report counts
  acquisitions where `reportReconciles` counts origins and operations (`ReportAgrees`), public
  origins must be selected (`ProofsAgree`), and the selection is read twice
  (`CatalogAgrees`).  TLC has checked both invariants on the instance of `snapshot`
  before they were proved.
* `ObservatoryProofs` (971 lines).  Every theorem here assumes `~Overlapping`: that no two
  runs are under way in one output root, which `createEmptyOutputRoot` does not
  enforce (`observatory_shared` shows what happens without it).  A run under way is
  alone and has found the root empty, so each file holds what the run has put there or
  nothing (`Progress`); an answer is `Sealed`, all its metadata being certain on the
  disk, from the `Sync` of `result.json` on, and the next run finds a root that is not
  empty.  `Rooted` carries it over a power failure: a certain entry cannot be undone
  and its directories are certain too.  `AnswersVerify`, `EvidenceBefore`,
  `AnswersOutlive`, `NotReplaced`; the number of power failures is not bounded.

**Only model-checked.**  Liveness (`LeaseIsReleased`, `InvocationAnswered`,
`RequestAnswered`), which is out of the prover's reach; the document modules
(`AcceptedIsCanonical`, `WrittenIsRead`), whose readers and writers are recursive; and
the atlas modules (`PlanTracesToReview`, `CensusAgrees`), which no proof has been written for.

## 5. Not modelled

* Bytes: a digest is the thing digested, a text a word with a length and a form; canonical
  encodings are sequences of tokens.  JSON decoding is not modelled.
* `safefetch`'s address and redirect rules; the modules use its contract, one request
  with one answer or an error.
* The egress worker's preflight of the host, and permissions of files.
* Damage to files by anything but a crash or a power failure, except in the snapshot
  modules.
* In the snapshot modules, the semantic key and time of occurrence of a delta, and the limit
  on the size of an artifact (16 MiB), which writer and runtime share.
* The deadline of a query, its refusals, and the read-only listings of a snapshot.
* `check-canonical` and the review-queue printout of the admission command, the HTTP
  routing and text search of the atlas API, the MCP loop.
* The remaining pure packages (ontology fabric, universe, release, adapters): each is
  listed in `PROJECT.json` with its reason.
* Power failures in every module but `ObservatoryWorker` and `ArchiveAcquire`.
* The offline command line of the archive import, which calls the functions that
  `CaptureSpool` and `ArchiveAcquire` model on files an operator names.

## 6. Plan

1. Pure rules as operators against reference definitions: robots longest match,
   `BuildRanges`, canonical segment order.
2. The MCP request loop over `LabPublication`.
3. Proofs: `PlanTracesToReview` of `AtlasGovernance`.
