--------------------------- MODULE LabPublication ---------------------------
(***************************************************************************)
(* internal/labengine and internal/proofbundle: how an invocation's result *)
(* becomes a proof bundle, a directory named by the result's digest, and   *)
(* how the bundle is read back.  Engines in different processes (lab serve,*)
(* lab invoke, lab mcp) share one results directory; publishMu is private  *)
(* to a process.                                                           *)
(*                                                                         *)
(* Abstractions.  A bundle is the set of its entries: 0 is the directory,  *)
(* 1 .. NumParts the artifacts in the order of their names, NumParts + 1   *)
(* the manifest.  A replay is deterministic, so every invocation of one    *)
(* result writes the same bytes; acquiring and deriving them (Invoke up to *)
(* the lock) changes no shared state.                                      *)
(***************************************************************************)
EXTENDS Naturals, FiniteSets, Sequences

CONSTANTS Handlers,       \* requests under way in one process: goroutines, a CLI run
          Processes,
          ProcessOf,      \* the process of each handler
          Results,        \* results that may be asked for
          NumParts,       \* artifacts of a bundle
          Rereads,        \* artifacts that verification opens a second time
          Kills,          \* whether a process may be killed
          NoOne

ASSUME LabAssumption == /\ ProcessOf \in [Handlers -> Processes]
                        /\ NumParts \in Nat \ {0}
                        /\ Rereads \in Seq(1..NumParts) /\ Rereads # <<>>
                        /\ Kills \in BOOLEAN
                        /\ NoOne \notin Handlers

VARIABLES bundle,       \* the entries of each result's directory
          handler,      \* what each handler is doing
          holder,       \* the handler that holds each process's publishMu
          interrupted,  \* (history) results whose publication was cut off halfway
          reported      \* (history) processes that reported each directory published

vars == <<bundle, handler, holder, interrupted, reported>>

Manifest == NumParts + 1
Complete == 0..Manifest

Idle == [step |-> "idle", result |-> NoOne, next |-> 0, syncing |-> FALSE, reply |-> "none"]

Init == /\ bundle = [r \in Results |-> {}]
        /\ handler = [h \in Handlers |-> Idle]
        /\ holder = [p \in Processes |-> NoOne]
        /\ interrupted = {}
        /\ reported = [r \in Results |-> {}]

At(h, s) == handler[h].step = s
ResultOf(h) == handler[h].result
Bundle(h) == bundle[ResultOf(h)]

Goto(h, s, n) ==
    handler' = [handler EXCEPT ![h].step = s, ![h].next = n, ![h].syncing = FALSE]

\* Mutant of Reply: a refused invocation returns without unlocking.
ReplyKeepingLock(h, answer) ==
    /\ handler' = [handler EXCEPT ![h] = [Idle EXCEPT !.result = ResultOf(h), !.reply = answer]]
    /\ reported' = IF answer = "ok" THEN [reported EXCEPT ![ResultOf(h)] = @ \cup {ProcessOf[h]}]
                                    ELSE reported
    /\ holder' = [p \in Processes |-> IF holder[p] = h /\ answer # "invalid" THEN NoOne ELSE holder[p]]

\* The handler answers; the deferred Unlock runs.
Reply(h, answer) ==
    /\ handler' = [handler EXCEPT ![h] = [Idle EXCEPT !.result = ResultOf(h), !.reply = answer]]
    /\ reported' = IF answer = "ok" THEN [reported EXCEPT ![ResultOf(h)] = @ \cup {ProcessOf[h]}]
                                    ELSE reported
    /\ holder' = [p \in Processes |-> IF holder[p] = h THEN NoOne ELSE holder[p]]

\* Engine.Invoke up to the lock, and Engine.Load, which takes no lock.
Ask(h, r, what) ==
    /\ At(h, "idle")
    /\ handler' = [handler EXCEPT ![h] = [Idle EXCEPT !.step = what, !.result = r,
                                                      !.next = IF what = "load" THEN 1 ELSE 0]]
    /\ UNCHANGED <<bundle, holder, interrupted, reported>>

\* Mutant of Lock: each request publishes without the mutex.
LockNothing(h) == /\ At(h, "lock")
                  /\ Goto(h, "mkdir", 0)
                  /\ UNCHANGED <<bundle, holder, interrupted, reported>>

Lock(h) == /\ At(h, "lock")
           /\ holder[ProcessOf[h]] = NoOne
           /\ holder' = [holder EXCEPT ![ProcessOf[h]] = h]
           /\ Goto(h, "mkdir", 0)
           /\ UNCHANGED <<bundle, interrupted, reported>>

\* Mutant of Mkdir: an existing directory is written into.
MkdirAll(h) == /\ At(h, "mkdir")
               /\ bundle' = [bundle EXCEPT ![ResultOf(h)] = @ \cup {0}]
               /\ Goto(h, "write", 1)
               /\ UNCHANGED <<holder, interrupted, reported>>

\* Mutant of Mkdir: the deferred removal is set up first, and runs when Mkdir fails.
MkdirAfterDefer(h) == /\ At(h, "mkdir")
                      /\ IF 0 \in Bundle(h)
                         THEN Goto(h, "clean", 0) /\ UNCHANGED <<bundle, reported>>
                         ELSE /\ bundle' = [bundle EXCEPT ![ResultOf(h)] = {0}]
                              /\ reported' = [reported EXCEPT ![ResultOf(h)] = {}]
                              /\ Goto(h, "write", 1)
                      /\ UNCHANGED <<holder, interrupted>>

\* os.Mkdir is exclusive: a directory that exists is verified instead.
Mkdir(h) == /\ At(h, "mkdir")
            /\ IF 0 \in Bundle(h)
               THEN Goto(h, "existing", 1) /\ UNCHANGED <<bundle, reported>>
               ELSE /\ bundle' = [bundle EXCEPT ![ResultOf(h)] = {0}]
                    /\ reported' = [reported EXCEPT ![ResultOf(h)] = {}]
                    /\ Goto(h, "write", 1)
            /\ UNCHANGED <<holder, interrupted>>

\* atomicfile.Write of the next entry: its rename ...
Commit(h) == /\ At(h, "write") /\ ~handler[h].syncing
             /\ bundle' = [bundle EXCEPT ![ResultOf(h)] = @ \cup {handler[h].next}]
             /\ handler' = [handler EXCEPT ![h].syncing = TRUE]
             /\ UNCHANGED <<holder, interrupted, reported>>

\* ... and its fsync of the directory.  Verification follows the manifest.
Sync(h) == /\ At(h, "write") /\ handler[h].syncing
           /\ IF handler[h].next = Manifest
              THEN Goto(h, "verify", 1)
              ELSE Goto(h, "write", handler[h].next + 1)
           /\ UNCHANGED <<bundle, holder, interrupted, reported>>

\* Mutant of WriteFails: the directory is left behind.
WriteFailsUncleaned(h) == At(h, "write") /\ Reply(h, "failed") /\ UNCHANGED <<bundle, interrupted>>

\* A write may fail on either side of its rename; the directory is removed.
WriteFails(h) == /\ At(h, "write")
                 /\ Goto(h, "clean", 0)
                 /\ UNCHANGED <<bundle, holder, interrupted, reported>>

\* os.RemoveAll takes the entries away one by one, the directory last.
Clean(h) == /\ At(h, "clean")
            /\ IF Bundle(h) \ {0} # {}
               THEN /\ \E e \in Bundle(h) \ {0} : bundle' = [bundle EXCEPT ![ResultOf(h)] = @ \ {e}]
                    /\ UNCHANGED <<handler, holder, reported>>
               ELSE /\ bundle' = [bundle EXCEPT ![ResultOf(h)] = {}]
                    /\ Reply(h, "failed")
            /\ UNCHANGED interrupted

\* Its error is ignored.
CleanFails(h) == /\ At(h, "clean")
                 /\ Reply(h, "failed")
                 /\ interrupted' = interrupted \cup {ResultOf(h)}
                 /\ UNCHANGED bundle

\* proofbundle.Verify opens the manifest, every file it lists, in order, and the
\* result a second time; Engine.Verify goes on to open the files it interprets
\* once more.  "existing" is Invoke's check of a directory it did not make, by
\* proofbundle.Verify alone, "verify" its check after publication, "load" the
\* check of a read.  Each opening is a step: files may go in between.
Inspecting(h) == handler[h].step \in {"existing", "verify", "load"}

Opened(n) == IF n = 1 THEN Manifest
             ELSE IF n <= NumParts + 1 THEN n - 1
             ELSE Rereads[n - NumParts - 1]
LastOpening(step) == NumParts + 1 + (IF step = "existing" THEN 1 ELSE Len(Rereads))

Found(h) == Opened(handler[h].next) \in Bundle(h)

InspectNext(h) ==
    /\ Inspecting(h) /\ Found(h) /\ handler[h].next < LastOpening(handler[h].step)
    /\ Goto(h, handler[h].step, handler[h].next + 1)
    /\ UNCHANGED <<bundle, holder, interrupted, reported>>

Accept(h) ==
    /\ Inspecting(h) /\ Found(h) /\ handler[h].next = LastOpening(handler[h].step)
    /\ IF At(h, "existing")
       THEN Goto(h, "verify", 1) /\ UNCHANGED <<holder, reported>>
       ELSE Reply(h, IF At(h, "load") THEN "read" ELSE "ok")
    /\ UNCHANGED <<bundle, interrupted>>

\* An entry that is not there refuses the bundle.
Refuse(h) == /\ Inspecting(h) /\ ~Found(h)
             /\ Reply(h, IF At(h, "existing") THEN "invalid" ELSE "failed")
             /\ UNCHANGED <<bundle, interrupted>>

\* A process dies and is started again: a crash, or SIGTERM, on which runServe
\* returns while requests are under way (Serve returns at once, Shutdown is not
\* awaited).  Its publications stop where they are.
Working(h) == handler[h].step \in {"write", "clean"}
Publishing(r) == \E h \in Handlers : Working(h) /\ ResultOf(h) = r
Kill(p) ==
    LET mine == {h \in Handlers : ProcessOf[h] = p}
    IN /\ Kills
       /\ interrupted' = interrupted \cup {ResultOf(h) : h \in {g \in mine : Working(g)}}
       /\ handler' = [h \in Handlers |-> IF h \in mine THEN Idle ELSE handler[h]]
       /\ holder' = [holder EXCEPT ![p] = NoOne]
       /\ UNCHANGED <<bundle, reported>>

Step(h) == \/ Mkdir(h) \/ Commit(h) \/ Sync(h) \/ WriteFails(h)
           \/ Clean(h) \/ CleanFails(h)
           \/ InspectNext(h) \/ Accept(h) \/ Refuse(h)

Next == \/ \E h \in Handlers, r \in Results, what \in {"lock", "load"} : Ask(h, r, what)
        \/ \E h \in Handlers : Lock(h) \/ Step(h)
        \/ \E p \in Processes : Kill(p)

Spec == Init /\ [][Next]_vars

\* The program runs its handlers; sync.Mutex hands itself to the longest waiter
\* when one has waited a millisecond, so no handler is passed over for ever.
Fairness == \A h \in Handlers : WF_vars(Step(h)) /\ SF_vars(Lock(h))

FairSpec == Spec /\ Fairness

(***************************************************************************)
(* Properties.                                                              *)
(***************************************************************************)
Steps   == {"idle", "lock", "mkdir", "write", "clean", "existing", "verify", "load"}
Replies == {"none", "ok", "read", "failed", "invalid"}

\* Every variable has its type.
TypeOK ==
    /\ bundle \in [Results -> SUBSET Complete]
    /\ handler \in [Handlers -> [step : Steps, result : Results \cup {NoOne}, next : Nat,
                                 syncing : BOOLEAN, reply : Replies]]
    /\ holder \in [Processes -> Handlers \cup {NoOne}]
    /\ interrupted \subseteq Results
    /\ reported \in [Results -> SUBSET Processes]

\* At any time at most one handler, over all the processes that share the results
\* directory, writes or removes a result's directory.
OneWriter ==
    \A g, h \in Handlers : Working(g) /\ Working(h) /\ ResultOf(g) = ResultOf(h) => g = h

\* Unless a kill or an ignored cleanup error cut its publication off, a result
\* nobody is working on is wholly published or not there at all, and one being
\* written has its manifest only when it has every artifact: failures of writes
\* leave nothing half done.
AllOrNothing ==
    \A r \in Results \ interrupted :
        /\ ~Publishing(r) => bundle[r] \in {{}, Complete}
        /\ (\A h \in Handlers : At(h, "clean") => ResultOf(h) # r)
           => (Manifest \in bundle[r] => bundle[r] = Complete)

\* A directory that a process has reported published is never written or removed
\* by that process: the mutex keeps a request from accepting a bundle while its
\* manifest may still fail to be synced.  Another process, or a reader, may.
ReportedStays == \A h \in Handlers : Working(h) => ProcessOf[h] \notin reported[ResultOf(h)]

\* A directory that nobody is publishing, whole or cut off, is settled: no step
\* of any process adds to it, removes from it or takes it up again.  So nothing
\* disappears under a reader or from under the year-long caching of artifacts
\* (server.go:327), unless the publication that put it there is still under way,
\* and nothing repairs what a kill has left.
SettledIsFinal ==
    [][\A r \in Results : 0 \in bundle[r] /\ ~Publishing(r) =>
          bundle'[r] = bundle[r] /\ ~Publishing(r)']_vars

\* Every invocation that waits for the publication mutex is answered, or its
\* process is killed, however many others use the same engine.
InvocationAnswered == \A h \in Handlers : At(h, "lock") ~> At(h, "idle")

\* reports/e2-load.md:9 calls the publication path idempotent: an invocation of
\* a result that is already there is answered with it, never refused.
NeverRefused == \A h \in Handlers : handler[h].reply # "invalid"
=============================================================================
