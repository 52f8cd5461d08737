------------------------- MODULE ObservatoryWorker -------------------------
(***************************************************************************)
(* internal/observatoryworker over internal/observation, internal/cas and  *)
(* internal/atomicfile: a worker process fetches one robots document,      *)
(* publishes the evidence, parses it, and publishes the result last.       *)
(*                                                                         *)
(* Abstractions.  A response is one element of Bodies; an observation is   *)
(* the run that made it and that response.  A blob's path is its content   *)
(* (the store is content-addressed).  All runs are given the same job and  *)
(* the same output root.                                                   *)
(***************************************************************************)
EXTENDS Naturals

CONSTANTS Runs,            \* executions of the fetch command
          Bodies,          \* responses the origin may give
          Successful,      \* responses with a 2xx status and no redirect
          Parses,          \* responses the robots parser accepts
          Decision,        \* what the robots evaluation of a response says
          Overlapping,     \* whether two runs may be under way at once
          MaxOutages,      \* bound on power failures, for model checking
          Absent, Dir,     \* see FileStore
          Job,             \* the bytes of the job
          Leftover         \* a temporary file left by an interrupted write

ASSUME WorkerAssumption == /\ Successful \subseteq Bodies
                           /\ Parses \subseteq Bodies
                           /\ Decision \in [Bodies -> BOOLEAN]
                           /\ Overlapping \in BOOLEAN
                           /\ MaxOutages \in Nat

VARIABLES store,    \* the tree below the output root
          run,      \* the state of each execution
          outages   \* power failures so far

vars == <<store, run, outages>>

InRoot == {"job", "evidence", "cas", "result", "temp"}
Tree   == {"root"} \cup InRoot \cup {"cbor", "json", "ref"} \cup Bodies
Above  == [p \in Tree |-> CASE p \in InRoot \cup {"root"}     -> "root"
                            [] p \in {"cbor", "json", "ref"} -> "evidence"
                            [] p \in Bodies                  -> "cas"]

\* A blob's name is no other file's, and no content reads as a file that is not there.
ASSUME NamesAssumption ==
    /\ Bodies \cap (InRoot \cup {"root", "cbor", "json", "ref"}) = {}
    /\ Absent \notin {Dir, Job} \cup Bodies \cup [by : Runs, body : Bodies]
                  \cup [observation : [by : Runs, body : Bodies], decision : BOOLEAN]

FS == INSTANCE FileStore WITH Paths <- Tree, Root <- "root", Parent <- Above

\* Mutant of Following: the robots bytes are parsed before they are stored.
ParseFirst == [job |-> "fetch", fetch |-> "parse", parse |-> "blob", blob |-> "cbor",
               cbor |-> "json", json |-> "ref", ref |-> "reload", reload |-> "result",
               result |-> "answered"]

\* Mutant of Following: the result is published before the observation.
ResultBeforeObservation ==
    [job |-> "fetch", fetch |-> "blob", blob |-> "parse", parse |-> "result",
     result |-> "cbor", cbor |-> "json", json |-> "ref", ref |-> "reload", reload |-> "answered"]

\* The steps of Execute, in program order.
Following == [job |-> "fetch", fetch |-> "blob", blob |-> "cbor", cbor |-> "json",
              json |-> "ref", ref |-> "parse", parse |-> "reload", reload |-> "result",
              result |-> "answered"]

Files  == {"job", "cbor", "json", "ref", "result"}     \* written by atomicfile.Write
Active == DOMAIN Following
Ended  == {"answered", "failed", "dead"}

Init == /\ store \in {FS!Bare(root) : root \in {Dir, Absent}}
        /\ run = [r \in Runs |-> [step |-> "start", syncing |-> FALSE, body |-> Absent, seen |-> Absent]]
        /\ outages = 0

At(r, s) == run[r].step = s
Goto(r, s) == run' = [run EXCEPT ![r].step = s, ![r].syncing = FALSE]
Advance(r) == Goto(r, Following[run[r].step])
Now(p) == store.now[p]

Observation(r) == [by |-> r, body |-> run[r].body]

\* Mutant of Start: a directory that holds earlier evidence is accepted.
StartInAnyRoot(r) ==
    /\ At(r, "start")
    /\ \A q \in Runs : run[q].step \notin Active
    /\ store' = FS!MkdirAll(store, "root")
    /\ Goto(r, "job")
    /\ UNCHANGED outages

\* createEmptyOutputRoot: the root is looked at once and not claimed.
Start(r) ==
    /\ At(r, "start")
    /\ Overlapping \/ \A q \in Runs : run[q].step \notin Active
    /\ IF \A p \in FS!Children("root") : ~FS!Present(store, p)
       THEN store' = FS!MkdirAll(store, "root") /\ Goto(r, "job")
       ELSE Goto(r, "failed") /\ UNCHANGED store
    /\ UNCHANGED outages

Fetch(r) == /\ At(r, "fetch")
            /\ \/ \E b \in Bodies :
                     run' = [run EXCEPT ![r].step = Following[@], ![r].body = b]
               \/ Goto(r, "failed")
            /\ UNCHANGED <<store, outages>>

EvidenceDirs == FS!MkdirAll(FS!MkdirAll(store, "evidence"), "cas")

\* cas.Put: the blob appears by rename; no directory is fsynced.
PutBlob(r) == /\ At(r, "blob")
              /\ store' = FS!Put(EvidenceDirs, run[r].body, run[r].body)
              /\ Advance(r)
              /\ UNCHANGED outages

Content(r) == CASE At(r, "job")              -> Job
                [] run[r].step \in {"cbor", "json"} -> Observation(r)
                [] At(r, "ref")              -> run[r].body
                [] At(r, "result")           -> [observation |-> run[r].seen,
                                                 decision |-> Decision[run[r].body]]

\* atomicfile.Write, up to and including the rename ...
Commit(r) == /\ run[r].step \in Files /\ ~run[r].syncing
             /\ store' = FS!Put(FS!MkdirAll(store, Above[run[r].step]), run[r].step, Content(r))
             /\ run' = [run EXCEPT ![r].syncing = TRUE]
             /\ UNCHANGED outages

\* Mutant of Sync: the directory is not fsynced after the rename.
SyncNothing(r) == run[r].syncing /\ Advance(r) /\ UNCHANGED <<store, outages>>

\* ... and the fsync of the destination directory.
Sync(r) == /\ run[r].syncing
           /\ store' = FS!SyncDir(store, Above[run[r].step])
           /\ Advance(r)
           /\ UNCHANGED outages

\* A write may fail on either side of the rename; the run ends there, with the
\* directories that were made for it.
WriteFails(r) == /\ run[r].step \in Files \cup {"blob"}
                 /\ Goto(r, "failed")
                 /\ store' \in {store} \cup (IF At(r, "blob") THEN {EvidenceDirs} ELSE {})
                 /\ UNCHANGED outages

\* ClassifyFetch, robotstxt.Parse and Evaluate, on the bytes in memory.
Parse(r) == /\ At(r, "parse")
            /\ IF run[r].body \in Successful \cap Parses THEN Advance(r) ELSE Goto(r, "failed")
            /\ UNCHANGED <<store, outages>>

\* The result is built from the observation read back from disk.
Reload(r) == /\ At(r, "reload")
             /\ IF FS!Present(store, "cbor") /\ Now("cbor").body \in Successful
                THEN run' = [run EXCEPT ![r].step = Following[@], ![r].seen = Now("cbor")]
                ELSE Goto(r, "failed")
             /\ UNCHANGED <<store, outages>>

\* Process death; a temporary file of an interrupted write stays behind.
Crash(r) == /\ run[r].step \in Active
            /\ Goto(r, "dead")
            /\ \/ UNCHANGED store
               \/ run[r].step \in Files \cap InRoot /\ store' = FS!Put(store, "temp", Leftover)
               \/ At(r, "blob") /\ store' = EvidenceDirs
            /\ UNCHANGED outages

Outage == /\ outages < MaxOutages
          /\ outages' = outages + 1
          /\ store' \in FS!Survivors(store)
          /\ run' = [r \in Runs |-> IF run[r].step \in Active
                                    THEN [run[r] EXCEPT !.step = "dead", !.syncing = FALSE]
                                    ELSE run[r]]

Next == \/ \E r \in Runs : \/ Start(r) \/ Fetch(r) \/ PutBlob(r) \/ Commit(r) \/ Sync(r)
                           \/ WriteFails(r) \/ Parse(r) \/ Reload(r) \/ Crash(r)
        \/ Outage

Spec == Init /\ [][Next]_vars

(***************************************************************************)
(* Verify, the offline replay.                                              *)
(***************************************************************************)
Verified ==
    /\ \A p \in {"job", "result", "cbor"} : FS!Present(store, p)
    /\ Now("result").observation = Now("cbor")
    /\ LET body == Now("cbor").body
       IN /\ FS!Present(store, body)
          /\ body \in Parses
          /\ Now("result").decision = Decision[body]

(***************************************************************************)
(* Properties.                                                              *)
(***************************************************************************)
Observations == [by : Runs, body : Bodies]
Contents == {Absent, Dir, Job, Leftover} \cup Bodies \cup Observations
            \cup [observation : Observations, decision : BOOLEAN]

\* Every variable has its type.
TypeOK == /\ store \in [now : [Tree -> Contents], kept : [Tree -> Contents]]
          /\ run \in [Runs -> [step : {"start"} \cup Active \cup Ended, syncing : BOOLEAN,
                               body : Bodies \cup {Absent}, seen : Observations \cup {Absent}]]
          /\ outages \in 0..MaxOutages

\* Until the power fails, an answered run stays verifiable offline, whatever
\* other runs crash, fail or are refused in the same output root afterwards.
AnswerVerifies ==
    outages = 0 => \A r \in Runs : At(r, "answered") => Verified

\* After a power failure too, all the metadata of an answered run is there if the
\* output root itself is, and the replay succeeds unless the blob is gone: the
\* fsync of result.json carries everything but the CAS body.
AnswerOutlivesOutage ==
    [][\A r \in Runs :
          /\ At(r, "answered") /\ FS!Present(store, "result")
          /\ Now("result").observation = Observation(r)
          /\ store'.now["root"] # Absent
          => /\ \A p \in {"job", "json", "ref", "cbor", "result"} : store'.now[p] = Now(p)
             /\ store'.now[run[r].body] # Absent => Verified']_vars

\* No byte of a response is parsed before its body and its observation can be
\* read back from the output root (worker.go:210).
EvidenceBeforeParse ==
    \A r \in Runs : run[r].step \in {"parse", "reload", "result"} =>
        /\ FS!Present(store, run[r].body)
        /\ Now("cbor") = Observation(r) /\ Now("json") = Observation(r) /\ Now("ref") = run[r].body

\* OBSERVATORY_WORKER_0_1.md:87 requires a new or empty output directory "so
\* earlier evidence is not silently replaced": no step changes what a published
\* evidence file says.
EvidenceNotReplaced ==
    [][\A p \in {"cbor", "json", "ref", "result"} :
          FS!Present(store, p) => store'.now[p] \in {Now(p), Absent}]_vars
=============================================================================
