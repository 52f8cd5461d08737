--------------------------- MODULE ArchiveAcquire ---------------------------
(***************************************************************************)
(* internal/archiveacquire over internal/archiveimport and                 *)
(* internal/atomicfile: runs of one sealed work order that are given the   *)
(* same output directory.  A run asks the index for every collection and   *)
(* route, fetches the byte range of each capture, publishes its spool, and *)
(* writes the acquisition manifest last.                                   *)
(*                                                                         *)
(* Abstractions.  The temporary file that an interrupted write may leave   *)
(* is left out: nothing looks at files it does not know.  A response that  *)
(* escapes its authority is a failure, like that of a write.               *)
(***************************************************************************)
EXTENDS CaptureSpool

CONSTANTS Runs,            \* executions of twirx-archive-acquire run
          Indexes,         \* bodies of index responses
          Ranges,          \* bodies of range responses
          Totals,          \* what Content-Range may claim
          MaxOutages,      \* bound on power failures, for model checking
          Dir              \* see FileStore

ASSUME RunsAssumption == MaxOutages \in Nat /\ Dir # Absent

VARIABLES store,    \* the tree below the output directory
          run,      \* the state of each execution
          outages   \* power failures so far

vars == <<store, run, outages>>

Top == {"raw", "captures", "order", "final"}
Tree == {<<"root">>} \cup {<<t>> : t \in Top}
        \cup {"index", "range", "spool"} \X Entries
        \cup {"spool"} \X Entries \X SpoolFiles
Above == [p \in Tree |-> CASE Len(p) = 1 -> <<"root">>
                           [] Len(p) = 2 /\ p[1] # "spool" -> <<"raw">>
                           [] Len(p) = 2 /\ p[1] = "spool" -> <<"captures">>
                           [] Len(p) = 3 -> <<p[1], p[2]>>]

FS == INSTANCE FileStore WITH Paths <- Tree, Root <- <<"root">>, Parent <- Above

Now(p) == store.now[p]
Spool(k) == [f \in SpoolFiles |-> Now(<<"spool", k, f>>)]

Idle == [step |-> "root", syncing |-> FALSE, entry |-> 1, index |-> Absent, body |-> Absent,
         total |-> Absent, listed |-> {}, captures |-> <<>>]

Init == /\ store = FS!Bare(Absent)
        /\ run = [r \in Runs |-> Idle]
        /\ outages = 0

At(r, s) == run[r].step = s
Entry(r) == run[r].entry

\* Mutant of Program: the representation is written before the evidence manifest.
RepresentationFirst ==
    <<"root", "raw", "captures", "order",
      "ask", "index", "parse", "fetch", "range", "spool",
      "work-order", "index-record", "range-response", "warc-record", "representation",
      "evidence-manifest", "read", "capture", "manifest", "reconcile", "final", "done">>

\* The steps of Acquire and, from "spool" to "manifest", of PublishCapture.
Program ==
    <<"root", "raw", "captures", "order",
      "ask", "index", "parse", "fetch", "range", "spool",
      "work-order", "index-record", "range-response", "warc-record", "evidence-manifest",
      "read", "representation", "capture", "manifest", "reconcile", "final", "done">>

Ended == {"done", "stopped"}
Following(s) == Program[1 + CHOOSE i \in DOMAIN Program : Program[i] = s]
Advanced(r) == [run[r] EXCEPT !.step = Following(@), !.syncing = FALSE]
Advance(r) == run' = [run EXCEPT ![r] = Advanced(r)]

Directory(r) == IF At(r, "spool") THEN <<"spool", Entry(r)>> ELSE <<run[r].step>>

\* Mutant of Mkdir: a directory that is there is taken as it is.
MkdirAll(r) == /\ run[r].step \in {"root", "raw", "captures", "spool"}
               /\ store' = FS!MkdirAll(store, Directory(r))
               /\ Advance(r)
               /\ UNCHANGED outages

\* createOutput and os.Mkdir: the directory must be new.  PublishCaptureFile has
\* read the range back from disk before it makes the spool.
Mkdir(r) == /\ run[r].step \in {"root", "raw", "captures", "spool"}
            /\ ~FS!Present(store, Directory(r))
            /\ store' = FS!Put(store, Directory(r), Dir)
            /\ run' = [run EXCEPT ![r] = [Advanced(r) EXCEPT !.body =
                           IF At(r, "spool") THEN Now(<<"range", Entry(r)>>) ELSE @]]
            /\ UNCHANGED outages

\* The index request of an entry, within the budget.
Ask(r) == /\ At(r, "ask") /\ Entry(r) - 1 < IndexRequestBudget
          /\ \E index \in Indexes : run' = [run EXCEPT ![r] = [Advanced(r) EXCEPT !.index = index]]
          /\ UNCHANGED <<store, outages>>

\* LoadIndexResponse reads the response back from disk.
Parse(r) == /\ At(r, "parse")
            /\ FS!Present(store, <<"index", Entry(r)>>)
            /\ IndexAccepted(Now(<<"index", Entry(r)>>), Entry(r))
            /\ Advance(r)
            /\ UNCHANGED <<store, outages>>

\* The range request and ValidateRangeResponse.
Fetch(r) == /\ At(r, "fetch")
            /\ \E body \in Ranges, total \in Totals :
                  /\ RangeAccepted(body)
                  /\ run' = [run EXCEPT ![r] = [Advanced(r) EXCEPT !.body = body, !.total = total]]
            /\ UNCHANGED <<store, outages>>

\* PublishCapture reads its own evidence back before the record enters a parser.
Read(r) == /\ At(r, "read")
           /\ RawVerified(Spool(Entry(r)))
           /\ RecordAccepted(Now(<<"spool", Entry(r), "warc-record">>), Selected(Entry(r)))
           /\ Advance(r)
           /\ UNCHANGED <<store, outages>>

(***************************************************************************)
(* What is written.                                                         *)
(***************************************************************************)
Files == {"order", "index", "range", "final"} \cup SpoolFiles

File(r) == LET s == run[r].step
           IN CASE s \in SpoolFiles -> <<"spool", Entry(r), s>>
                [] s \in {"index", "range"} -> <<s, Entry(r)>>
                [] OTHER -> <<s>>

\* The files of a spool, from what the run has in memory.
SpoolFile(r) ==
    LET range == Range(Selected(Entry(r)), run[r].total, run[r].body)
        raw == [f \in RawFiles |-> CASE f = "work-order"     -> Order
                                     [] f = "index-record"   -> [lines |-> <<Selected(Entry(r))>>]
                                     [] f = "range-response" -> range
                                     [] f = "warc-record"    -> run[r].body]
        sealed == [f \in SealedFiles |-> CASE f \in RawFiles            -> raw[f]
                                           [] f = "evidence-manifest" -> raw
                                           [] f = "representation"    -> [text |-> range.capture]
                                           [] f = "capture"           -> Metadata(range)]
    IN [f \in SpoolFiles |-> IF f = "manifest" THEN sealed ELSE sealed[f]]

AcquisitionManifest(r) ==
    [order |-> Order, indexRequests |-> Entry(r), rangeRequests |-> Len(run[r].captures),
     listed |-> run[r].listed, captures |-> run[r].captures]

Content(r) == LET s == run[r].step
              IN CASE s = "order"      -> Order
                   [] s = "index"      -> run[r].index
                   [] s = "range"      -> run[r].body
                   [] s = "final"      -> AcquisitionManifest(r)
                   [] s \in SpoolFiles -> SpoolFile(r)[s]

Artifact(r) == [path |-> File(r), content |-> Content(r)]

\* Manifest.Validate.
ManifestValid(m) ==
    /\ m.order = Order
    /\ m.indexRequests = Len(Collections) * Len(Routes) /\ m.indexRequests <= IndexRequestBudget
    /\ m.rangeRequests > 0 /\ Len(m.captures) = m.rangeRequests
    /\ Cardinality(m.listed) = 1 + m.indexRequests + 2 * m.rangeRequests
    /\ \E a \in m.listed : a.path = <<"order">>
    /\ \A k \in DOMAIN m.captures :
          \E a \in m.listed : /\ a.path = <<"spool", k, "manifest">>
                              /\ a.content = m.captures[k].manifest

\* atomicfile.Write, up to and including the rename; Acquire lists what it writes.
Commit(r) == /\ run[r].step \in Files /\ ~run[r].syncing
             /\ At(r, "final") => ManifestValid(AcquisitionManifest(r))
             /\ store' = FS!Put(store, File(r), Content(r))
             /\ run' = [run EXCEPT ![r].syncing = TRUE,
                                   ![r].listed = IF run[r].step \in SpoolFiles \cup {"final"} THEN @
                                                 ELSE @ \cup {Artifact(r)}]
             /\ UNCHANGED outages

\* Mutant of Sync: the directory is not fsynced after the last file of a spool.
SyncAllButLast(r) ==
    /\ run[r].syncing
    /\ store' = IF At(r, "manifest") THEN store ELSE FS!SyncDir(store, Above[File(r)])
    /\ Advance(r)
    /\ UNCHANGED outages

\* ... and the fsync of the file's directory.
Sync(r) == /\ run[r].syncing
           /\ store' = FS!SyncDir(store, Above[File(r)])
           /\ Advance(r)
           /\ UNCHANGED outages

\* VerifySpool at once; its manifest is read back and listed, and the run goes on
\* with the next entry.
Reconcile(r) ==
    LET k == Entry(r)
        manifest == Spool(k)["manifest"]
    IN /\ At(r, "reconcile")
       /\ SpoolVerified(Spool(k))
       /\ Spool(k)["capture"] = SpoolFile(r)["capture"]
       /\ run' = [run EXCEPT ![r] =
                     [Idle EXCEPT !.step = IF k + 1 \in Entries THEN "ask" ELSE Following("reconcile"),
                                  !.entry = IF k + 1 \in Entries THEN k + 1 ELSE k,
                                  !.listed = run[r].listed \cup
                                       {[path |-> <<"spool", k, "manifest">>, content |-> manifest]},
                                  !.captures = Append(run[r].captures,
                                       [metadata |-> Spool(k)["capture"], manifest |-> manifest])]]
       /\ UNCHANGED <<store, outages>>

\* A run fails, or its process dies, anywhere.
Stop(r) == /\ run[r].step \notin Ended
           /\ run' = [run EXCEPT ![r] = [Idle EXCEPT !.step = "stopped"]]
           /\ UNCHANGED <<store, outages>>

Outage == /\ outages < MaxOutages
          /\ outages' = outages + 1
          /\ store' \in FS!Survivors(store)
          /\ run' = [r \in Runs |-> IF run[r].step \in {"root"} \cup Ended THEN run[r]
                                    ELSE [Idle EXCEPT !.step = "stopped"]]

Act(r) == \/ Mkdir(r) \/ Ask(r) \/ Parse(r) \/ Fetch(r) \/ Read(r)
          \/ Commit(r) \/ Sync(r) \/ Reconcile(r) \/ Stop(r)

Next == (\E r \in Runs : Act(r)) \/ Outage

Spec == Init /\ [][Next]_vars

(***************************************************************************)
(* Verify, offline.                                                         *)
(***************************************************************************)
Final == Now(<<"final">>)
Agrees(a) == Now(a.path) = a.content
CaptureAgrees(k) == /\ SpoolVerified(Spool(k))
                    /\ Spool(k)["capture"] = Final.captures[k].metadata

Verified == /\ Final # Absent
            /\ Now(<<"order">>) = Final.order
            /\ ManifestValid(Final)
            /\ \A a \in Final.listed : Agrees(a)
            /\ \A k \in DOMAIN Final.captures : CaptureAgrees(k)

(***************************************************************************)
(* Properties.                                                              *)
(***************************************************************************)
Lost(k) == ~FS!Present(store, <<"spool", k>>)

\* COMMON_CRAWL_IMPORT.md:112: a directory with an acquisition manifest verifies,
\* whatever became of the run.  A power failure may take whole captures from it, as
\* nothing fsyncs the directory of the spools, and nothing else: no spool is left
\* in part, and all the rest still agrees with the manifest.
ManifestMeansVerified ==
    Final # Absent =>
        /\ outages = 0 => Verified
        /\ Now(<<"order">>) = Final.order /\ ManifestValid(Final)
        /\ \A k \in DOMAIN Final.captures : Lost(k) \/ CaptureAgrees(k)
        /\ \A a \in Final.listed : Agrees(a) \/ \E k \in Entries : Lost(k) /\ a.path = <<"spool", k, "manifest">>

\* tasks/008:28: raw bytes are stored before a parser sees them, by whatever run, and
\* stay: what was fetched for a parsed response has the response on disk, and what was
\* derived from a record has a spool whose raw evidence verifies.
RawBeforeParsed ==
    /\ \A r \in Runs :
          /\ run[r].step \in {"fetch", "range"} => Now(<<"index", Entry(r)>>) = run[r].index
          /\ run[r].step \in {"representation", "capture"} => RawVerified(Spool(Entry(r)))
    /\ \A k \in Entries :
          /\ FS!Present(store, <<"range", k>>) =>
                FS!Present(store, <<"index", k>>) /\ IndexAccepted(Now(<<"index", k>>), k)
          /\ Spool(k)["warc-record"] \in {Absent, Now(<<"range", k>>)}
          /\ Spool(k)["representation"] # Absent =>
                RawVerified(Spool(k)) /\ RecordAccepted(Now(<<"range", k>>), Selected(k))

\* The output is immutable evidence (acquire.go:322): no step of any run, in whatever
\* order runs start, stop and lose power, replaces or removes what a file says; only
\* a power failure takes files away.
NothingRewritten ==
    [][\A p \in Tree : FS!Present(store, p) =>
          \/ store'.now[p] = Now(p)
          \/ store'.now[p] = Absent /\ outages' > outages]_vars
=============================================================================
