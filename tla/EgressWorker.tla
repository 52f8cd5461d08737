---------------------------- MODULE EgressWorker ----------------------------
(***************************************************************************)
(* internal/egressworker: processes that each execute one sealed work order *)
(* under a global flock lease, a per-origin circuit breaker and an          *)
(* exclusively created spool whose manifest is written last.                *)
(*                                                                         *)
(* Abstractions.  Time is a tick counter.  An order is its exact bytes, so  *)
(* one element of Orders stands for one digest.  A missing circuit file is  *)
(* the record of zero failures (every reader treats them alike), and an     *)
(* absent open_until is tick 0.  An artifact is its name: its bytes are     *)
(* those of the only process that can write below the spool.                *)
(***************************************************************************)
EXTENDS Naturals

CONSTANTS Workers,                \* worker processes
          Orders, Origins,
          OriginOf,               \* origin_id of an order
          NotBefore, ExpiresAt,   \* validity interval of an order
          MaxConsecutiveFailures, \* circuit threshold sealed in an order
          Cooldown,               \* circuit cooldown sealed in an order
          Controls,               \* control artifacts the operator may install
          FailureCeiling,         \* largest failure count a reader accepts
          EarlierFailures,        \* failures in a row that earlier orders may have left
          MaxTime,                \* bound on the clock, for model checking
          NoWorker

ASSUME WorkOrderAssumption ==
    /\ OriginOf \in [Orders -> Origins]
    /\ NotBefore \in [Orders -> Nat]
    /\ ExpiresAt \in [Orders -> Nat]
    /\ MaxConsecutiveFailures \in [Orders -> Nat \ {0}]
    /\ Cooldown \in [Orders -> Nat \ {0}]

ASSUME SettingAssumption ==
    /\ Controls \subseteq [halted : BOOLEAN, revoked : SUBSET (Orders \cup Origins)]
    /\ Controls # {}
    /\ FailureCeiling \in Nat
    /\ EarlierFailures \subseteq Nat /\ EarlierFailures # {}
    /\ MaxTime \in Nat
    /\ NoWorker \notin Workers

VARIABLES clock,    \* wall clock
          control,  \* the control artifact on disk
          lease,    \* holder of the flock on worker.lock
          circuit,  \* circuit state file of each origin
          spool,    \* artifacts below spool/<order>/<digest>; "dir" once it exists
          worker,   \* the state of each process
          sent,     \* history: retrievals handed to the fetcher, per order
          streak,   \* history: failed runs of an origin since its last manifest
          unreset   \* history: origins whose failures a publication has not reset yet

vars == <<clock, control, lease, circuit, spool, worker, sent, streak, unreset>>

\* Mutant: the manifest is written before the result it lists.
ManifestBeforeResult ==
    [order |-> "send", body |-> "cbor", cbor |-> "json", json |-> "ref",
     ref |-> "manifest", manifest |-> "result", result |-> "reset"]

\* The order in which a run writes its artifacts; a run at step s writes s.
After == [order |-> "send", body |-> "cbor", cbor |-> "json", json |-> "ref",
          ref |-> "result", result |-> "manifest", manifest |-> "reset"]

Artifacts == DOMAIN After
Bundle    == {"body", "cbor", "json", "ref"}        \* observation.WriteBundle
Owning    == Artifacts \cup {"send", "inflight", "record", "reset"}
Leased    == Owning \cup {"check", "create"}
Steps     == Leased \cup {"idle", "loaded", "admitted"}

Idle == [step |-> "idle"]

Permits(c, o) == ~c.halted /\ o \notin c.revoked /\ OriginOf[o] \notin c.revoked

Published(o) == "manifest" \in spool[o]

\* The circuit file outlives the orders: an origin starts with what earlier ones left.
Init == /\ clock = 0
        /\ control \in Controls
        /\ lease = NoWorker
        /\ streak \in [Origins -> EarlierFailures]
        /\ circuit = [g \in Origins |-> [failures |-> streak[g], openUntil |-> 0]]
        /\ spool = [o \in Orders |-> {}]
        /\ worker = [w \in Workers |-> Idle]
        /\ sent = [o \in Orders |-> 0]
        /\ unreset = {}

At(w, s) == worker[w].step = s

Goto(w, s) == worker' = [worker EXCEPT ![w].step = s]

\* Mutant: a return that does not reach lease.Close.
ExitHoldingLease(w) == worker' = [worker EXCEPT ![w] = Idle] /\ UNCHANGED lease

\* Every return of execute closes the lease file, and so does process death.
Exit(w) == /\ worker' = [worker EXCEPT ![w] = Idle]
           /\ lease' = IF lease = w THEN NoWorker ELSE lease

(***************************************************************************)
(* Before the lease: load, then check authority against the loaded copies.  *)
(***************************************************************************)
\* The command loads the order and the control artifact; both may go stale.
Load(w, o) == /\ At(w, "idle")
              /\ worker' = [worker EXCEPT ![w] =
                     [step |-> "loaded", order |-> o, now |-> 0, permitted |-> Permits(control, o)]]
              /\ UNCHANGED <<clock, control, lease, circuit, spool, sent, streak, unreset>>

InInterval(o, t) == NotBefore[o] <= t /\ t < ExpiresAt[o]

\* time.Now() is taken once; everything after compares against this instant.
Admit(w) == /\ At(w, "loaded")
            /\ worker' = [worker EXCEPT ![w] =
                   IF @.permitted /\ InInterval(@.order, clock)
                   THEN [@ EXCEPT !.step = "admitted", !.now = clock]
                   ELSE Idle]
            /\ UNCHANGED <<clock, control, lease, circuit, spool, sent, streak, unreset>>

\* Mutant: the lock file is opened but its lock is not exclusive.
AcquireSharedLease(w) == /\ At(w, "admitted")
                         /\ lease' = w /\ Goto(w, "check")
                         /\ UNCHANGED <<clock, control, circuit, spool, sent, streak, unreset>>

\* flock(LOCK_EX|LOCK_NB): a held lease is an error, never a wait.
AcquireLease(w) == /\ At(w, "admitted")
                   /\ IF lease = NoWorker
                      THEN lease' = w /\ Goto(w, "check")
                      ELSE Exit(w)
                   /\ UNCHANGED <<clock, control, circuit, spool, sent, streak, unreset>>

(***************************************************************************)
(* Under the lease.                                                         *)
(***************************************************************************)
\* Mutant: the ceiling itself is refused.
ReadableBelow(g) == circuit[g].failures < FailureCeiling

Readable(g) == circuit[g].failures <= FailureCeiling
ClosedAt(g, t) == circuit[g].openUntil <= t

CheckCircuit(w) == /\ At(w, "check")
                   /\ LET g == OriginOf[worker[w].order]
                      IN IF Readable(g) /\ ClosedAt(g, worker[w].now)
                         THEN Goto(w, "create") /\ UNCHANGED lease
                         ELSE Exit(w)
                   /\ UNCHANGED <<clock, control, circuit, spool, sent, streak, unreset>>

\* Mutant: MkdirAll, which accepts a directory that exists.
CreateSpoolAgain(w) == /\ At(w, "create")
                       /\ spool' = [spool EXCEPT ![worker[w].order] = @ \cup {"dir"}]
                       /\ Goto(w, "order")
                       /\ UNCHANGED <<clock, control, lease, circuit, sent, streak, unreset>>

\* Mkdir of the digest directory is the one-shot claim of the order.
CreateSpool(w) == /\ At(w, "create")
                  /\ LET o == worker[w].order
                     IN IF spool[o] = {}
                        THEN /\ spool' = [spool EXCEPT ![o] = {"dir"}]
                             /\ Goto(w, "order") /\ UNCHANGED lease
                        ELSE Exit(w) /\ UNCHANGED spool
                  /\ UNCHANGED <<clock, control, circuit, sent, streak, unreset>>

\* One more failed run, or a publication.  Which origins still have failures
\* counted from before their last publication is recorded with it.
CountFailure(g) == /\ streak' = [streak EXCEPT ![g] = @ + 1]
                   /\ UNCHANGED unreset
EndStreak(g) == /\ streak' = [streak EXCEPT ![g] = 0]
                /\ unreset' = IF circuit[g].failures > 0 THEN unreset \cup {g} ELSE unreset

\* cas.Put and atomicfile.Write: the artifact appears whole, by rename.
WriteArtifact(w) ==
    LET s == worker[w].step
    IN /\ s \in Artifacts
       /\ spool' = [spool EXCEPT ![worker[w].order] = @ \cup {s}]
       /\ Goto(w, After[s])
       /\ IF s = "manifest" THEN EndStreak(OriginOf[worker[w].order])
                            ELSE UNCHANGED <<streak, unreset>>
       /\ UNCHANGED <<clock, control, lease, circuit, sent>>

\* A write can fail before the rename, or after it (directory fsync).  A
\* failing WriteBundle counts against the origin, the other writes do not.
WriteFails(w) ==
    LET s == worker[w].step
        g == OriginOf[worker[w].order]
    IN /\ s \in Artifacts
       /\ \/ UNCHANGED spool
          \/ s # "body" /\ spool' = [spool EXCEPT ![worker[w].order] = @ \cup {s}]
       /\ IF s \in Bundle THEN CountFailure(g)
          ELSE IF "manifest" \in spool'[worker[w].order] THEN EndStreak(g)
          ELSE UNCHANGED <<streak, unreset>>
       /\ IF s \in Bundle THEN Goto(w, "record") /\ UNCHANGED lease ELSE Exit(w)
       /\ UNCHANGED <<clock, control, circuit, sent>>

Send(w) == /\ At(w, "send")
           /\ sent' = [sent EXCEPT ![worker[w].order] = @ + 1]
           /\ Goto(w, "inflight")
           /\ UNCHANGED <<clock, control, lease, circuit, spool, streak, unreset>>

Fetched(w) == /\ At(w, "inflight")
              /\ Goto(w, "body")
              /\ UNCHANGED <<clock, control, lease, circuit, spool, sent, streak, unreset>>

\* Mutant: a failed retrieval is tried again.
FetchRetries(w) == /\ At(w, "inflight")
                   /\ Goto(w, "send")
                   /\ UNCHANGED <<clock, control, lease, circuit, spool, sent, streak, unreset>>

FetchFails(w) == /\ At(w, "inflight")
                 /\ Goto(w, "record")
                 /\ CountFailure(OriginOf[worker[w].order])
                 /\ UNCHANGED <<clock, control, lease, circuit, spool, sent>>

\* Mutant: the cooldown is subtracted.
FailedBackwards(c, o, now) ==
    LET n == c.failures + 1
    IN [failures |-> n,
        openUntil |-> IF n >= MaxConsecutiveFailures[o] THEN now - Cooldown[o] ELSE c.openUntil]

Failed(c, o, now) ==
    LET n == c.failures + 1
    IN [failures  |-> n,
        openUntil |-> IF n >= MaxConsecutiveFailures[o] THEN now + Cooldown[o] ELSE c.openUntil]

\* The cooldown counts from the start of the run.  An unreadable state is left
\* alone, and a failing write may leave the old state in place.
RecordFailure(w) ==
    LET o == worker[w].order
        g == OriginOf[o]
    IN /\ At(w, "record")
       /\ \/ Readable(g) /\ circuit' = [circuit EXCEPT ![g] = Failed(@, o, worker[w].now)]
          \/ UNCHANGED circuit
       /\ Exit(w)
       /\ UNCHANGED <<clock, control, spool, sent, streak, unreset>>

\* Mutant: the circuit is closed, but its count of failures stays.
ResetOpenUntil(w) ==
    LET g == OriginOf[worker[w].order]
    IN /\ At(w, "reset")
       /\ \/ circuit' = [circuit EXCEPT ![g].openUntil = 0] /\ unreset' = unreset \ {g}
          \/ UNCHANGED <<circuit, unreset>>
       /\ Exit(w)
       /\ UNCHANGED <<clock, control, spool, sent, streak>>

\* The error of resetCircuit is discarded.
ResetCircuit(w) ==
    LET g == OriginOf[worker[w].order]
    IN /\ At(w, "reset")
       /\ \/ /\ circuit' = [circuit EXCEPT ![g] = [failures |-> 0, openUntil |-> 0]]
             /\ unreset' = unreset \ {g}
          \/ UNCHANGED <<circuit, unreset>>
       /\ Exit(w)
       /\ UNCHANGED <<clock, control, spool, sent, streak>>

(***************************************************************************)
(* The environment.                                                         *)
(***************************************************************************)
Crash(w) == /\ ~At(w, "idle")
            /\ Exit(w)
            /\ UNCHANGED <<clock, control, circuit, spool, sent, streak, unreset>>

InstallControl == /\ control' \in Controls
                  /\ UNCHANGED <<clock, lease, circuit, spool, worker, sent, streak, unreset>>

Tick == /\ clock < MaxTime
        /\ clock' = clock + 1
        /\ UNCHANGED <<control, lease, circuit, spool, worker, sent, streak, unreset>>

Run(w) == \/ Admit(w) \/ AcquireLease(w) \/ CheckCircuit(w) \/ CreateSpool(w)
          \/ WriteArtifact(w) \/ WriteFails(w) \/ Send(w) \/ Fetched(w) \/ FetchFails(w)
          \/ RecordFailure(w) \/ ResetCircuit(w)

Next == \/ \E w \in Workers : \/ \E o \in Orders : Load(w, o)
                              \/ Run(w)
                              \/ Crash(w)
        \/ InstallControl
        \/ Tick

Spec == Init /\ [][Next]_vars

\* A started process keeps running: every blocking call in a run is bounded by
\* the order's timeouts and the service's TimeoutStartSec.
FairSpec == Spec /\ \A w \in Workers : WF_vars(Run(w))

(***************************************************************************)
(* Properties.                                                              *)
(***************************************************************************)
WorkerStates ==
    {Idle} \cup [step : Steps \ {"idle"}, order : Orders, now : Nat, permitted : BOOLEAN]

\* Every variable has its type.
TypeOK == /\ clock \in Nat
          /\ control \in Controls
          /\ lease \in Workers \cup {NoWorker}
          /\ circuit \in [Origins -> [failures : Nat, openUntil : Nat]]
          /\ spool \in [Orders -> SUBSET (Artifacts \cup {"dir"})]
          /\ worker \in [Workers -> WorkerStates]
          /\ sent \in [Orders -> Nat]
          /\ streak \in [Origins -> Nat]
          /\ unreset \subseteq Origins

\* An order reaches the network at most once over any number of processes,
\* crashes and re-executions (createSpool is the claim, worker.go:568).
AtMostOneRetrieval == \A o \in Orders : sent[o] <= 1

\* While a request is in flight no other process is past the lease, and the
\* circuit of its origin is readable and closed at the present time, although
\* the state was read at an earlier step and against an earlier clock.
RetrievalUnderClosedCircuit ==
    \A w \in Workers : At(w, "inflight") =>
        LET g == OriginOf[worker[w].order]
        IN /\ \A v \in Workers : worker[v].step \in Leased => v = w
           /\ Readable(g) /\ ClosedAt(g, clock)

\* A manifest is a commit record: wherever it exists, every artifact it lists
\* is in the spool and the retrieval it documents took place, whatever crashed.
ManifestImpliesEvidence ==
    \A o \in Orders : Published(o) => Artifacts \subseteq spool[o] /\ sent[o] = 1

\* No step of any process adds to or removes from a published spool, and no
\* step withdraws a claim.
SpoolOnlyGrowsToManifest ==
    [][\A o \in Orders : /\ spool[o] \subseteq spool'[o]
                         /\ Published(o) => spool'[o] = spool[o]]_vars

\* Recorded failures are forgotten only by the process that has just published
\* evidence from that origin and still holds the lease: proved in
\* EgressWorkerProofs, without a run of its own.
OnlyPublicationForgetsFailures ==
    [][\A g \in Origins : circuit'[g].failures < circuit[g].failures =>
          \E w \in Workers : /\ lease = w /\ At(w, "reset")
                             /\ OriginOf[worker[w].order] = g
                             /\ Published(worker[w].order)]_vars

\* The lease is not lost to a run that fails somewhere: every holder gives it up.
LeaseIsReleased == \A w \in Workers : lease = w ~> lease # w

\* The circuit of an origin opens only when as many runs failed as the order
\* of the last one seals (SECURE_EGRESS_PILOT_0_1.md:49: "consecutive-failure
\* threshold"), with no publication between them.  The one exception is a reset
\* that was lost: its error is discarded, and a kill or a failing fsync may come
\* between manifest and reset (worker.go:353-356); the failures from before that
\* publication then count until a later publication has reset them.  Nothing
\* else, no crash, failed write or other worker, makes a failure outlive a success.
OpensOnConsecutiveFailures ==
    [][\A g \in Origins : circuit'[g].openUntil > circuit[g].openUntil =>
          \E w \in Workers : /\ At(w, "record") /\ OriginOf[worker[w].order] = g
                             /\ \/ streak[g] >= MaxConsecutiveFailures[worker[w].order]
                                \/ g \in unreset]_vars

\* An origin is unusable, its count above what loadCircuit accepts, only after
\* more failed runs in a row than that ceiling, or for a reset that was lost:
\* failures that a publication has answered do not add up to it (worker.go:516).
UnusableOnlyPastCeiling ==
    \A g \in Origins : ~Readable(g) => streak[g] > FailureCeiling \/ g \in unreset

\* The life of an order as an observer of the spool sees it.
Owner(o) == {w \in Workers : worker[w].step \in Owning /\ worker[w].order = o}

phase == [o \in Orders |->
            CASE Published(o)      -> "published"
              [] spool[o] = {}     -> "sealed"
              [] ~Published(o) /\ spool[o] # {} /\ Owner(o) = {} -> "burned"
              [] ~Published(o) /\ spool[o] # {} /\ Owner(o) # {} ->
                    IF sent[o] = 0 THEN "claimed" ELSE "retrieving"]

OneShot == INSTANCE OneShot WITH phase <- phase, retrievals <- sent

\* The worker implements the one-shot life of a sealed order.
ImplementsOneShot == OneShot!OneShotSpec
=============================================================================
