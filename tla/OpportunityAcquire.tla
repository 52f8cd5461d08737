------------------------- MODULE OpportunityAcquire -------------------------
(***************************************************************************)
(* internal/opportunitypilot: runs of one manual-once work order that      *)
(* retrieve an archive range by range into a fresh output directory, with  *)
(* the manifest written last, and VerifyAcquisition, the offline check.    *)
(*                                                                         *)
(* Abstractions.  Time is counted in half seconds, so that the code's      *)
(* truncation to seconds is visible.  The bytes of a range are the version *)
(* of the publisher's object they come from, their index and their number; *)
(* a digest is the thing digested.  An operator may read a control file    *)
(* that forbids the run: either outcome may come.  Power failures are left *)
(* out.                                                                    *)
(***************************************************************************)
EXTENDS Naturals, Sequences, FiniteSets

CONSTANTS Runs,              \* executions of the acquire command
          Outputs,           \* output directories the operator names
          Order,             \* the work order
          NotBefore, Expires,
          RangeBytes, MaximumRequests,
          RequestInterval,
          Objects,           \* what the publisher serves in turn: versions with their size
          Absent,
          MaxTime, MaxBack   \* bounds of the clock and of its corrections

ASSUME OrderAssumption ==
    /\ RangeBytes \in Nat \ {0} /\ MaximumRequests \in Nat \ {0}
    /\ NotBefore \in Nat /\ Expires \in Nat /\ NotBefore < Expires
    /\ NotBefore % 2 = 0 /\ Expires % 2 = 0
    /\ RequestInterval \in Nat
    /\ Objects \in Seq(Nat \ {0}) /\ Objects # <<>>
    /\ MaxTime \in Nat /\ MaxBack \in Nat

VARIABLES clock,      \* the monotonic clock
          behind,     \* how far the wall clock has been set back
          version,    \* the version the publisher serves now
          consumed,   \* whether the state directory holds a claim of the order
          out,        \* the output directories
          run         \* the state of each execution

vars == <<clock, behind, version, consumed, out, run>>

MaximumArchive == RangeBytes * MaximumRequests
Second(t) == t - (t % 2)
Wall == clock - behind

\* BuildRanges: the ranges of an archive, none when it is out of bounds.
BuildRanges(total) ==
    IF total = 0 \/ total > MaximumArchive THEN <<>>
    ELSE [k \in 1..((total + RangeBytes - 1) \div RangeBytes) |->
             [start |-> (k - 1) * RangeBytes,
              end   |-> IF k * RangeBytes >= total THEN total - 1 ELSE k * RangeBytes - 1]]

First == [start |-> 0, end |-> RangeBytes - 1]
Size(range) == range.end - range.start + 1

Nothing == [k \in 1..MaximumRequests |-> Absent]
Bare == [exists |-> FALSE, claim |-> Absent, bodies |-> Nothing, evidence |-> Nothing,
         archive |-> Absent, manifest |-> Absent]

Fresh == [step |-> "start", output |-> Absent, started |-> 0, owns |-> FALSE, next |-> 0,
          known |-> 0, body |-> Absent, retrieved |-> 0, ready |-> 0, listed |-> <<>>,
          transferred |-> 0, completed |-> 0, requests |-> 0, stepped |-> FALSE]

Init == /\ clock = 0 /\ behind = 0
        /\ version \in DOMAIN Objects
        /\ consumed = FALSE
        /\ out = [o \in Outputs |-> Bare]
        /\ run = [r \in Runs |-> Fresh]

Ended == {"done", "stopped"}
At(r, s) == run[r].step = s

\* The memory of a run that ends is gone, but for what the properties speak of.
Stopped(r) == IF run[r].owns THEN [Fresh EXCEPT !.step = "stopped", !.output = run[r].output, !.owns = TRUE,
                                               !.listed = run[r].listed, !.requests = run[r].requests,
                                               !.stepped = run[r].stepped]
                             ELSE [Fresh EXCEPT !.step = "stopped"]
Stop(r) == run' = [run EXCEPT ![r] = Stopped(r)]

LastRange(r) == run[r].next = Len(BuildRanges(run[r].known))

\* Mutant of Following: the archive receives bytes whose evidence is not stored.
AppendBeforeEvidence(r) ==
    [copy |-> "fetch", fetch |-> "await", await |-> "body", body |-> "append", append |-> "evidence",
     evidence |-> IF LastRange(r) THEN "rename" ELSE "fetch", rename |-> "complete",
     complete |-> "manifest", manifest |-> "done"]

\* Mutant of Following: the manifest is published before the archive it lists.
ManifestBeforeArchive(r) ==
    [copy |-> "fetch", fetch |-> "await", await |-> "body", body |-> "evidence", evidence |-> "append",
     append |-> IF LastRange(r) THEN "complete" ELSE "fetch", complete |-> "manifest",
     manifest |-> "rename", rename |-> "done"]

\* The steps of acquire that follow the claim, in program order.
Following(r) ==
    [copy |-> "fetch", fetch |-> "await", await |-> "body", body |-> "evidence", evidence |-> "append",
     append |-> IF LastRange(r) THEN "rename" ELSE "fetch", rename |-> "complete",
     complete |-> "manifest", manifest |-> "done"]

Advanced(r) == [run[r] EXCEPT !.step = Following(r)[@]]

\* The validity interval and createOutput, whose Mkdir is exclusive; a run whose
\* control forbids it Stops.  The time is read before directory and claim are made.
Start(r) ==
    /\ At(r, "start")
    /\ NotBefore <= Wall /\ Wall < Expires
    /\ \E o \in Outputs :
          /\ ~out[o].exists
          /\ out' = [out EXCEPT ![o].exists = TRUE]
          /\ run' = [run EXCEPT ![r].step = "claim", ![r].output = o, ![r].started = Wall]
    /\ UNCHANGED <<clock, behind, version, consumed>>

\* Mutant of ClaimExecution: a claim that is there is opened all the same.
ClaimAgain(r) == /\ At(r, "claim")
                 /\ consumed' = TRUE
                 /\ run' = [run EXCEPT ![r].step = "copy", ![r].owns = TRUE]
                 /\ UNCHANGED <<clock, behind, version, out>>

\* O_EXCL creates the claim, and the order is consumed before a byte of it is
\* written; a failed write or fsync of it is a failure at the next step.
ClaimExecution(r) ==
    /\ At(r, "claim")
    /\ consumed' = TRUE
    /\ IF consumed THEN Stop(r)
                   ELSE run' = [run EXCEPT ![r].step = "copy", ![r].owns = TRUE]
    /\ UNCHANGED <<clock, behind, version, out>>

\* FetchRange after the pause, and validateRangeResult: a response is accepted when
\* it is the whole range asked for and states the total known from the first.
NextRange(r) == IF run[r].next = 0 THEN First ELSE BuildRanges(run[r].known)[run[r].next + 1]

Body(r) == [version |-> version, index |-> run[r].next + 1, size |-> Size(NextRange(r))]

Acceptable(r, total) == /\ NextRange(r).end < total /\ total <= MaximumArchive
                        /\ run[r].known \in {0, total}
                        /\ BuildRanges(total)[1] = First

Send(r) == /\ At(r, "fetch") /\ run[r].ready <= clock
           /\ run' = [run EXCEPT ![r] = [Advanced(r) EXCEPT !.requests = @ + 1]]
           /\ UNCHANGED <<clock, behind, version, consumed, out>>

Fetched(r) ==
    /\ At(r, "await") /\ Acceptable(r, Objects[version])
    /\ run' = [run EXCEPT ![r] = [Advanced(r) EXCEPT !.next = @ + 1, !.body = Body(r),
                                        !.known = Objects[version], !.retrieved = Wall]]
    /\ UNCHANGED <<clock, behind, version, consumed, out>>

\* Mutant of FetchFails: a failed request is sent again.
FetchRetries(r) == /\ At(r, "await")
                   /\ run' = [run EXCEPT ![r].step = "fetch"]
                   /\ UNCHANGED <<clock, behind, version, consumed, out>>

\* Anything else ends the run; no request is sent twice.
FetchFails(r) == /\ At(r, "await")
                 /\ Stop(r)
                 /\ UNCHANGED <<clock, behind, version, consumed, out>>

Evidence(r) == [body |-> run[r].body, retrieved |-> run[r].retrieved, total |-> run[r].known]
Claim(r) == [claimedAt |-> Second(run[r].started)]

\* The archive is what has been appended; its artifacts are listed at the same time.
Manifest(r) == [startedAt |-> Second(run[r].started), completedAt |-> Second(run[r].completed),
                claim |-> Claim(r), requests |-> Len(run[r].listed), size |-> run[r].known,
                transferred |-> run[r].transferred, listed |-> run[r].listed]

Archived(listed) == [k \in DOMAIN listed |-> listed[k].body]

\* The output directory when the file of the run's step has been written.
Writes == {"copy", "body", "evidence", "rename", "manifest"}
Written(r) ==
    LET o == run[r].output
        k == run[r].next
    IN CASE At(r, "copy")     -> [out EXCEPT ![o].claim = Claim(r)]
         [] At(r, "body")     -> [out EXCEPT ![o].bodies[k] = run[r].body]
         [] At(r, "evidence") -> [out EXCEPT ![o].evidence[k] = Evidence(r)]
         [] At(r, "rename")   -> [out EXCEPT ![o].archive = Archived(run[r].listed)]
         [] At(r, "manifest") -> [out EXCEPT ![o].manifest = Manifest(r)]

Write(r) == /\ run[r].step \in Writes
            /\ At(r, "rename") => run[r].transferred = run[r].known
            /\ out' = Written(r)
            /\ run' = [run EXCEPT ![r] = Advanced(r)]
            /\ UNCHANGED <<clock, behind, version, consumed>>

\* writeArchiveChunk into the temporary file, the entries of the manifest, and the
\* time from which the next request may be made.
AppendChunk(r) ==
    /\ At(r, "append")
    /\ run' = [run EXCEPT ![r] = [Advanced(r) EXCEPT !.listed = Append(@, Evidence(r)),
                                                     !.transferred = @ + run[r].body.size,
                                                     !.ready = clock + RequestInterval]]
    /\ UNCHANGED <<clock, behind, version, consumed, out>>

\* The completion time; that it is not before the start compares monotonic readings.
Complete(r) ==
    /\ At(r, "complete")
    /\ IF Wall < Expires
       THEN run' = [run EXCEPT ![r] = [Advanced(r) EXCEPT !.completed = Wall]]
       ELSE Stop(r)
    /\ UNCHANGED <<clock, behind, version, consumed, out>>

\* A run fails, or its process dies, on either side of the rename of a write.
Stops(r) ==
    /\ run[r].step \notin Ended
    /\ Stop(r)
    /\ out' \in {out} \cup (IF run[r].step \in Writes THEN {Written(r)} ELSE {})
    /\ UNCHANGED <<clock, behind, version, consumed>>

\* The publisher replaces the object at the same URL.
Replace == /\ version < Len(Objects)
           /\ version' = version + 1
           /\ UNCHANGED <<clock, behind, consumed, out, run>>

Tick == /\ clock < MaxTime
        /\ clock' = clock + 1
        /\ UNCHANGED <<behind, version, consumed, out, run>>

\* The wall clock is corrected backwards; runs under way take note, for the properties.
StepBack == /\ behind < MaxBack /\ behind < clock
            /\ behind' = behind + 1
            /\ run' = [r \in Runs |-> [run[r] EXCEPT !.stepped = @ \/ run[r].step \notin {"start"} \cup Ended]]
            /\ UNCHANGED <<clock, version, consumed, out>>

Act(r) == \/ Start(r) \/ ClaimExecution(r) \/ Send(r) \/ Fetched(r) \/ FetchFails(r)
          \/ Write(r) \/ AppendChunk(r) \/ Complete(r) \/ Stops(r)

Next == (\E r \in Runs : Act(r)) \/ Replace \/ Tick \/ StepBack

Spec == Init /\ [][Next]_vars

(***************************************************************************)
(* VerifyAcquisition, of the output directory o.                            *)
(***************************************************************************)
\* Mutant of RetrievedWithin: nanoseconds are compared with the manifest's seconds.
RetrievedWithinExactly(t, m) == m.startedAt <= t /\ t <= m.completedAt

RetrievedWithin(t, m) == m.startedAt <= t /\ Second(t) <= m.completedAt

Verified(o) ==
    LET m == out[o].manifest
        ranges == BuildRanges(m.size)
    IN /\ m # Absent
       /\ m.requests \in 1..MaximumRequests
       /\ m.size \in 1..MaximumArchive /\ m.transferred = m.size
       /\ m.startedAt <= m.completedAt
       /\ NotBefore <= m.startedAt /\ m.startedAt < Expires /\ m.completedAt < Expires
       /\ out[o].claim = m.claim /\ m.claim.claimedAt = m.startedAt
       /\ out[o].archive = Archived(m.listed)
       /\ Len(ranges) = m.requests /\ Len(m.listed) = m.requests
       /\ \A k \in DOMAIN ranges :
             /\ out[o].bodies[k] = out[o].archive[k]
             /\ out[o].bodies[k].size = Size(ranges[k])
             /\ out[o].evidence[k] = m.listed[k]
             /\ out[o].evidence[k].body = out[o].bodies[k]
             /\ out[o].evidence[k].total = m.size
             /\ RetrievedWithin(out[o].evidence[k].retrieved, m)

(***************************************************************************)
(* Properties.                                                              *)
(***************************************************************************)
Steps == {"start", "claim", "copy", "fetch", "await", "body", "evidence", "append", "rename",
          "complete", "manifest"} \cup Ended
Bodies == [version : DOMAIN Objects, index : 1..MaximumRequests, size : 1..RangeBytes]
Times == 0..MaxTime
Totals == 0..MaximumArchive
Evidences == [body : Bodies, retrieved : Times, total : Totals]
Claims == [claimedAt : Times]

IsListing(s) == Len(s) <= MaximumRequests /\ s \in Seq(Evidences)
IsManifest(m) == /\ {m.startedAt, m.completedAt} \subseteq Times /\ m.claim \in Claims
                 /\ m.requests \in 1..MaximumRequests /\ {m.size, m.transferred} \subseteq Totals
                 /\ IsListing(m.listed)
IsOutput(d) == /\ d.exists \in BOOLEAN
               /\ d.claim \in Claims \cup {Absent}
               /\ d.bodies \in [1..MaximumRequests -> Bodies \cup {Absent}]
               /\ d.evidence \in [1..MaximumRequests -> Evidences \cup {Absent}]
               /\ d.archive = Absent \/ d.archive \in Seq(Bodies)
               /\ d.manifest = Absent \/ IsManifest(d.manifest)
IsRun(e) == /\ e.step \in Steps /\ e.output \in Outputs \cup {Absent}
            /\ {e.owns, e.stepped} \subseteq BOOLEAN
            /\ {e.started, e.retrieved, e.completed} \subseteq Times
            /\ e.ready \in 0..(MaxTime + RequestInterval)
            /\ e.next \in 0..MaximumRequests /\ e.requests \in 0..(MaximumRequests + 1)
            /\ {e.known, e.transferred} \subseteq Totals
            /\ e.body \in Bodies \cup {Absent} /\ IsListing(e.listed)

\* Every variable has its type.
TypeOK == /\ clock \in Times /\ behind \in 0..MaxBack /\ behind <= clock
          /\ version \in DOMAIN Objects
          /\ consumed \in BOOLEAN
          /\ \A o \in Outputs : IsOutput(out[o])
          /\ \A r \in Runs : IsRun(run[r])

\* A directory with a manifest passes VerifyAcquisition, even when the run ended right
\* after, unless a correction of the wall clock caught the run.  In particular, a range
\* retrieved within the very second of the completion does no harm (acquire.go:283-286).
PublishedVerifies ==
    \A r \in Runs :
        /\ run[r].owns /\ out[run[r].output].manifest # Absent
        /\ ~run[r].stepped
        => Verified(run[r].output)

\* OPPORTUNITY_SOURCE_PILOT_0_1.md:38: each response and its evidence are stored
\* before the archive receives those bytes, in whatever run and directory.
StoredBeforeArchived ==
    \A r \in Runs : \A k \in DOMAIN run[r].listed :
        /\ out[run[r].output].bodies[k] = run[r].listed[k].body
        /\ out[run[r].output].evidence[k] = run[r].listed[k]

\* The order's request budget bounds what all its runs together send, with failures,
\* crashes and further attempts: only one run sends, and no more than the budget.
BudgetHolds ==
    \A r \in Runs : run[r].requests > 0 =>
        /\ run[r].requests <= MaximumRequests
        /\ \A q \in Runs \ {r} : run[q].requests = 0

\* Once a manifest can be read, nothing in its directory changes any more.
PublishedIsFinal ==
    [][\A o \in Outputs : out[o].manifest # Absent => out'[o] = out[o]]_vars

\* The one-shot life of the order: its only session is its retrieval.
Owners == {r \in Runs : run[r].owns}
Phase == CASE \E r \in Owners : out[run[r].output].manifest # Absent -> "published"
           [] \A r \in Owners : out[run[r].output].manifest = Absent ->
                IF Owners = {} THEN "sealed"
                ELSE IF \E r \in Owners : run[r].step \in Ended THEN "burned"
                ELSE IF \E r \in Owners : run[r].requests > 0 THEN "retrieving" ELSE "claimed"
Sessions == Cardinality({r \in Runs : run[r].requests > 0})

OneShot == INSTANCE OneShot WITH Orders <- {Order}, phase <- [o \in {Order} |-> Phase],
                                 retrievals <- [o \in {Order} |-> Sessions]

\* The acquisition implements the one-shot life of a sealed order.
ImplementsOneShot == OneShot!OneShotSpec

\* reports/e4-opportunity-policy-decision-proposal.md:63, "inconsistent ... ranges
\* fail closed": a published archive is one version of the publisher's object.
ArchiveIsOneObject ==
    \A o \in Outputs : out[o].manifest # Absent =>
        \A i, j \in DOMAIN out[o].archive : out[o].archive[i].version = out[o].archive[j].version
=============================================================================
